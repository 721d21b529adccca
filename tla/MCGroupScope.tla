---------------------------- MODULE MCGroupScope ----------------------------
(* Instances of GroupScope: checkouts of two repositories, or two clones of one, *)
(* and a third repository without a checkout, which declarations call archived. *)
EXTENDS GroupScope, TLC

CONSTANTS s1, s2, s3, c1, c2, here, clone, there, web, api, ops, i1

TwoSessions == {s1, s3}
Clones == {s1, s2}
TwoCalls == {c1, c2}
Where == s1 :> here @@ s2 :> clone @@ s3 :> there
CheckoutOfTwo == [s \in TwoSessions |-> Where[s]]
CheckoutOfClones == [s \in Clones |-> Where[s]]
TwoCheckouts == {here, there}
CloneCheckouts == {here, clone}
RepoOfTwo == here :> web @@ there :> api
RepoOfClones == [w \in CloneCheckouts |-> web]
ThreeRepos == {web, api, ops}
TwoStores == {api, ops}

Archived(r) == [source |-> r, archived |-> TRUE]
Present(r) == [source |-> r, archived |-> FALSE]
\* Nothing, a checked-out and an archived member with a bad entry between them, too many.
Files == {NULL, <<Present(api), Present(NULL), Archived(ops)>>,
          <<Archived(ops), Archived(ops), Archived(api), Archived(web)>>}
OneFile == {<<Archived(ops), Archived(api)>>}

\* A memory of api: at home for one session, a member's for the other.
Rows == i1 :> [store |-> api, raw |-> TRUE, evidence |-> "session", turns |-> {ops}]
CallSymmetry == Permutations(TwoCalls)

=============================================================================
