----------------------------- MODULE GroupScope -----------------------------
(* Which other repositories' memories a session may read: the declaration in a *)
(* checkout (store/group.ts), the approval and the two memories of it, and the *)
(* four operations that use the result (service.ts: recall, list, source and   *)
(* forget).  A call runs without interruption up to its first await; the only  *)
(* awaits are the one promise of the session and the approval behind it.       *)
EXTENDS Naturals, Sequences, FiniteSets

CONSTANTS Sessions, Calls, Checkouts, Repos, Ids,
          CheckoutOf,   \* the checkout a session works in
          RepoOf,       \* the repository a checkout is a clone of
          FirstStores,  \* repositories with a store at the beginning
          FirstRows,    \* the memories the behaviours start with
          Contents,     \* what a declaration file may say
          GROUP_MAX_MEMBERS,
          MaxChanges,   \* bound: changes by others
          Global, NULL

ASSUME CheckoutsAssumption == CheckoutOf \in [Sessions -> Checkouts] /\ RepoOf \in [Checkouts -> Repos]
ASSUME GlobalAssumption == Global \notin Repos
ASSUME MaxChangesAssumption == MaxChanges \in Nat

Entries == [source : Repos \cup {NULL}, archived : BOOLEAN]
Members == [source : Repos, archived : BOOLEAN]
ASSUME ContentsAssumption == Contents \subseteq Seq(Entries) \cup {NULL}

\* A memory: its store, its layer, what evidence it has and where the cited turns are.
Memories == [store : Repos \cup {Global}, raw : BOOLEAN,
             evidence : {"none", "other", "quote", "session"},
             turns : SUBSET (Repos \cup {Global})]
ASSUME RowsAssumption ==
  /\ FirstStores \subseteq Repos
  /\ FirstRows \in [Ids -> Memories]
  /\ \A i \in Ids : FirstRows[i].store \in FirstStores \cup {Global}

VARIABLES file,    \* the declaration in each checkout, NULL when absent or unreadable
          inside,  \* the repositories checked out beneath each checkout
          onDisk,  \* repositories with a store on disk
          opened,  \* those this process has open
          cache,   \* the session's promise and what it resolved to
          grants,  \* approved pairs of asking repository and fingerprint
          call,    \* the calls under way
          row,     \* whether each memory is live, forgotten or deleted
          wrote,   \* the repositories whose sessions changed each store (history)
          changes, \* changes by others so far
          prompts, \* the questions put to a person (history)
          seen,    \* memories a session has been shown (history)
          denied   \* live memories a session was told do not exist (history)
vars == <<file, inside, onDisk, opened, cache, grants, call, row, wrote, changes, prompts, seen, denied>>

Repo(s) == RepoOf[CheckoutOf[s]]
Home(s) == {Repo(s), Global}
Unresolved == [state |-> "none", members |-> {}]
NoCall == [phase |-> "idle", session |-> NULL, op |-> "none", id |-> NULL, home |-> {},
           print |-> NULL, members |-> {}]
Ops == {"recall", "list", "source", "forget"}

Init ==
  /\ file \in [Checkouts -> Contents]
  /\ inside = [w \in Checkouts |-> {RepoOf[w]}]
  /\ onDisk = FirstStores
  /\ opened = onDisk
  /\ cache = [s \in Sessions |-> Unresolved]
  /\ grants = {}
  /\ call = [c \in Calls |-> NoCall]
  /\ row = [i \in Ids |-> "live"]
  /\ wrote = [r \in Repos \cup {Global} |-> {}]
  /\ changes = 0
  /\ prompts = {}
  /\ seen = [s \in Sessions |-> {}]
  /\ denied = [s \in Sessions |-> {}]

(***************************************************************************)
(* The declaration and its members.                                        *)
(***************************************************************************)

\* Too many entries void the file; an entry without a source is skipped.
ReadGroupDeclaration(f) ==
  IF f = NULL THEN NULL
  ELSE IF Len(f) > GROUP_MAX_MEMBERS THEN NULL
  ELSE [i \in {j \in DOMAIN f : f[j].source # NULL} |-> f[i]]

EntriesOf(d) == {d[i] : i \in DOMAIN d}

\* The canonical text: the order of the entries does not count, their number does.
Fingerprint(d) ==
  [e \in Members |-> Cardinality({i \in DOMAIN d : d[i] = e})]
DeclaredBy(print) == {e \in Members : print[e] > 0}

Admitted(e, w) == /\ e.source # RepoOf[w]
                  /\ e.archived <=> e.source \notin inside[w]
                  /\ e.source \in opened

\* A source admitted twice is the same entry twice, and counts once.
ResolveGroupMembers(d, w) == {e \in EntriesOf(d) : Admitted(e, w)}

GrantKey(s, print) == <<Repo(s), print>>

(* Mutant: the promise is only remembered once it has resolved.             *)
CachedLate(s) == cache[s].state = "resolved"
Cached(s) == cache[s].state # "none"

(***************************************************************************)
(* A call up to its await.                                                 *)
(***************************************************************************)

MustAsk(s, d, m) == m # {} /\ GrantKey(s, Fingerprint(d)) \notin grants

SettledAs(s, m) == cache' = [cache EXCEPT ![s] = [state |-> "resolved", members |-> m]]

\* A call that awaits the promise of its session, and the one that has the person asked.
Started(s, op, i, home) == [phase |-> "waiting", session |-> s, op |-> op, id |-> i, home |-> home,
                            print |-> NULL, members |-> {}]
Asking(t, print, m) == [phase |-> "asking", session |-> t.session, op |-> t.op, id |-> t.id,
                        home |-> t.home, print |-> print, members |-> m]

\* resolveGroup runs up to the approval request: afterwards the session's promise is there.
StartResolution(c, s, started) ==
  LET w == CheckoutOf[s]
      d == ReadGroupDeclaration(file[w])
      m == IF d = NULL THEN {} ELSE ResolveGroupMembers(d, w) IN
  \/ /\ SettledAs(s, IF MustAsk(s, d, m) THEN {} ELSE m)    \* asking needs an approver
     /\ call' = [call EXCEPT ![c] = started]
  \/ /\ MustAsk(s, d, m)
     /\ cache' = [cache EXCEPT ![s] = [state |-> "pending", members |-> {}]]
     /\ call' = [call EXCEPT ![c] = Asking(started, Fingerprint(d), m)]

GroupMembers(c, s, started) ==
  \/ /\ Cached(s)
     /\ call' = [call EXCEPT ![c] = started]
     /\ UNCHANGED cache
  \/ /\ ~Cached(s)
     /\ StartResolution(c, s, started)

Idle(c) == call[c].phase = "idle"

(* Mutant: the registry remembers a store it has not created.               *)
OpenUncreated(s) == onDisk' = onDisk /\ opened' = opened \cup {Repo(s)}
OpenHome(s) == /\ onDisk' = onDisk \cup {Repo(s)}
               /\ opened' = opened \cup {Repo(s)}
Live(stores) == {i \in Ids : FirstRows[i].store \in stores /\ row[i] = "live"}

(* Mutant: usage is counted in every store the session may read.            *)
TouchEverything(s, found) ==
  [r \in DOMAIN wrote |-> IF found # {} /\ r \in Home(s) \cup {e.source : e \in cache[s].members}
                            THEN wrote[r] \cup {Repo(s)} ELSE wrote[r]]
TouchUsage(s, found) ==
  [r \in DOMAIN wrote |-> IF \E i \in found : FirstRows[i].store = r
                            THEN wrote[r] \cup {Repo(s)} ELSE wrote[r]]

Recall(c, s) ==
  /\ Idle(c)
  /\ OpenHome(s)
  /\ \E found \in SUBSET Live(Home(s)) :
       /\ wrote' = TouchUsage(s, found)
       /\ GroupMembers(c, s, Started(s, "recall", NULL, found))
  /\ UNCHANGED <<file, inside, grants, row, changes, prompts, seen, denied>>

List(c, s) ==
  /\ Idle(c)
  /\ GroupMembers(c, s, Started(s, "list", NULL, Live(Home(s) \cap (opened \cup {Global}))))
  /\ UNCHANGED <<file, inside, onDisk, opened, grants, row, wrote, changes, prompts, seen, denied>>

Source(c, s, i) ==
  /\ Idle(c)
  /\ OpenHome(s)
  /\ GroupMembers(c, s, Started(s, "source", i, {}))
  /\ UNCHANGED <<file, inside, grants, row, wrote, changes, prompts, seen, denied>>

Forgettable(s) == Home(s)

\* A memory of the session's own stores is decided at once, any other asks the group for words.
Forget(c, s, i) ==
  /\ Idle(c)
  /\ OpenHome(s)
  /\ IF FirstRows[i].store \in Forgettable(s) /\ row[i] # "gone"
       THEN /\ row' = IF FirstRows[i].raw THEN [row EXCEPT ![i] = "forgotten"] ELSE row
            /\ wrote' = IF row' = row THEN wrote
                        ELSE [wrote EXCEPT ![FirstRows[i].store] = @ \cup {Repo(s)}]
            /\ UNCHANGED <<cache, call>>
       ELSE /\ GroupMembers(c, s, Started(s, "forget", i, {}))
            /\ UNCHANGED <<row, wrote>>
  /\ UNCHANGED <<file, inside, grants, changes, prompts, seen, denied>>

(***************************************************************************)
(* The answer to the question, and the rest of a call.                     *)
(***************************************************************************)

(* Mutant: the members are resolved again after the answer.                 *)
ResolvedAgain(c) == LET w == CheckoutOf[call[c].session] IN
  IF ReadGroupDeclaration(file[w]) = NULL THEN {}
  ELSE ResolveGroupMembers(ReadGroupDeclaration(file[w]), w)
ApprovedMembers(c) == call[c].members

Resolve(c, m) ==
  /\ SettledAs(call[c].session, m)
  /\ call' = [call EXCEPT ![c] = Started(call[c].session, call[c].op, call[c].id, call[c].home)]

Answered(c, allowed) ==
  LET s == call[c].session IN
  prompts' = prompts \cup {[session |-> s, repo |-> Repo(s), declared |-> DeclaredBy(call[c].print),
                            listed |-> call[c].members, allowed |-> allowed]}

Allow(c) ==
  /\ call[c].phase = "asking"
  /\ grants' = grants \cup {GrantKey(call[c].session, call[c].print)}
  /\ Answered(c, TRUE)
  /\ Resolve(c, ApprovedMembers(c))
  /\ UNCHANGED <<file, inside, onDisk, opened, row, wrote, changes, seen, denied>>

\* Any other outcome, and an approval service that throws.
Deny(c) ==
  /\ call[c].phase = "asking"
  /\ Answered(c, FALSE)
  /\ Resolve(c, {})
  /\ UNCHANGED <<file, inside, onDisk, opened, grants, row, wrote, changes, seen, denied>>

Stores(s) == {e.source : e \in cache[s].members}

(* Mutant: source looks in the session's own stores only.                   *)
SearchedHome(s) == Home(s)
Searched(s) == Home(s) \cup Stores(s)

SourceAnswer(s, i) ==
  IF FirstRows[i].store \notin Searched(s) \/ row[i] # "live" THEN "denied"
  ELSE CASE FirstRows[i].evidence = "quote"   -> "quote"
         [] FirstRows[i].evidence = "session" ->
              IF FirstRows[i].turns \cap Searched(s) # {} THEN "turns" ELSE "nothing"
         [] OTHER -> IF FirstRows[i].raw THEN "uncited" ELSE "summary"

ForgetAnswer(s, i) ==
  IF FirstRows[i].store \notin Stores(s) \/ row[i] = "gone" THEN "denied"
  ELSE IF FirstRows[i].raw THEN "foreign" ELSE "foreign summary"

\* The session is told that there is no such memory.
Denies(c, s, i) ==
  /\ i = call[c].id
  /\ \/ call[c].op = "source" /\ SourceAnswer(s, i) = "denied"
     \/ call[c].op = "forget" /\ ForgetAnswer(s, i) = "denied"

\* The promise has resolved: member stores are read and the call returns.
Return(c) ==
  LET s == call[c].session  op == call[c].op IN
  /\ call[c].phase = "waiting"
  /\ cache[s].state = "resolved"
  /\ \E found \in CASE op = "recall" -> SUBSET Live(Stores(s))
                    [] op = "list"   -> {Live(Stores(s))}
                    [] OTHER         -> {{}} :
       seen' = [seen EXCEPT ![s] = @ \cup call[c].home \cup found]
  /\ denied' = [denied EXCEPT ![s] = @ \cup {i \in Ids : row[i] = "live" /\ Denies(c, s, i)}]
  /\ call' = [call EXCEPT ![c] = NoCall]
  /\ UNCHANGED <<file, inside, onDisk, opened, cache, grants, row, wrote, changes, prompts>>

(***************************************************************************)
(* Everybody else.                                                         *)
(***************************************************************************)

Changed == changes < MaxChanges /\ changes' = changes + 1

EditFile(w) ==
  /\ Changed
  /\ \E f \in Contents \ {file[w]} : file' = [file EXCEPT ![w] = f]
  /\ UNCHANGED <<inside, onDisk, opened, cache, grants, call, row, wrote, prompts, seen, denied>>

\* A repository is cloned beneath a checkout, or removed.
MoveCheckout(w, r) ==
  /\ Changed
  /\ r # RepoOf[w]
  /\ inside' = [inside EXCEPT ![w] = IF r \in @ THEN @ \ {r} ELSE @ \cup {r}]
  /\ UNCHANGED <<file, onDisk, opened, cache, grants, call, row, wrote, prompts, seen, denied>>

\* Another process creates a repository's store.
CreateStore(r) ==
  /\ Changed
  /\ r \notin onDisk
  /\ onDisk' = onDisk \cup {r}
  /\ UNCHANGED <<file, inside, opened, cache, grants, call, row, wrote, prompts, seen, denied>>

\* Another session forgets a raw memory; a rebuild deletes a derived one.
LoseRow(i) ==
  /\ Changed
  /\ row[i] = "live"
  /\ row' = [row EXCEPT ![i] = IF FirstRows[i].raw THEN "forgotten" ELSE "gone"]
  /\ UNCHANGED <<file, inside, onDisk, opened, cache, grants, call, wrote, prompts, seen, denied>>

\* The process starts again: it opens the stores it finds, but for those it refuses, and
\* remembers neither scopes nor grants.
Restart ==
  /\ Changed
  /\ opened' \in SUBSET onDisk
  /\ cache' = [s \in Sessions |-> Unresolved]
  /\ grants' = {}
  /\ call' = [c \in Calls |-> NoCall]
  /\ prompts' = {}
  /\ seen' = [s \in Sessions |-> {}]
  /\ denied' = [s \in Sessions |-> {}]
  /\ UNCHANGED <<file, inside, onDisk, row, wrote>>

Operation(c) ==
  \/ \E s \in Sessions : Recall(c, s) \/ List(c, s)
                         \/ \E i \in Ids : Source(c, s, i) \/ Forget(c, s, i)
  \/ Allow(c) \/ Deny(c) \/ Return(c)

Next == \/ \E c \in Calls : Operation(c)
        \/ \E w \in Checkouts : EditFile(w) \/ \E r \in Repos : MoveCheckout(w, r)
        \/ \E r \in Repos : CreateStore(r)
        \/ \E i \in Ids : LoseRow(i)
        \/ Restart

Spec == Init /\ [][Next]_vars

(***************************************************************************)
(* Properties.                                                             *)
(***************************************************************************)

Prompts == [session : Sessions, repo : Repos, declared : SUBSET Members,
            listed : SUBSET Members, allowed : BOOLEAN]

TypeOK ==
  /\ file \in [Checkouts -> Contents]
  /\ inside \in [Checkouts -> SUBSET Repos]
  /\ onDisk \subseteq Repos
  /\ opened \subseteq onDisk
  /\ cache \in [Sessions -> [state : {"none", "pending", "resolved"}, members : SUBSET Members]]
  /\ call \in [Calls -> [phase : {"idle", "waiting", "asking"}, session : Sessions \cup {NULL},
                         op : Ops \cup {"none"}, id : Ids \cup {NULL}, home : SUBSET Ids,
                         print : [Members -> Nat] \cup {NULL}, members : SUBSET Members]]
  /\ row \in [Ids -> {"live", "forgotten", "gone"}]
  /\ wrote \in [Repos \cup {Global} -> SUBSET Repos]
  /\ changes \in 0..MaxChanges
  /\ prompts \subseteq Prompts
  /\ seen \in [Sessions -> SUBSET Ids]
  /\ denied \in [Sessions -> SUBSET Ids]

\* What a session reads of other repositories, a person allowed for that repository, in a
\* declaration that names it.  A session that was asked reads what the question listed, or
\* nothing if the answer was no, whatever happened to the file, the checkouts and the stores
\* while the person thought (service.ts:350-356, 415-419).
ReadWasAllowed ==
  \A s \in Sessions :
    /\ \A e \in cache[s].members :
         \E q \in prompts : q.allowed /\ q.repo = Repo(s) /\ e \in q.declared
    /\ \A q \in prompts : q.session = s =>
         cache[s] = [state |-> "resolved", members |-> IF q.allowed THEN q.listed ELSE {}]

\* A session's scope is settled once: no later call of it reads more or less until the process
\* starts again (service.ts:351-356).
ScopeIsSettled ==
  [][\A s \in Sessions : cache[s].state = "resolved" =>
       cache'[s] \in {cache[s], Unresolved}]_vars

\* A session changes no store but its own two, neither their memories nor the usage that decay
\* turns into a status (group.ts:375-393, service.ts:585-605, 1300-1313).
WritesStayHome == \A r \in Repos : wrote[r] \subseteq {r}

\* A memory a session has been shown is never denied to it while it is there: source and forget
\* look in the stores that recall and list read (service.ts:798-802, 1318-1340).
ShownIsNeverDenied == \A s \in Sessions : seen[s] \cap denied[s] = {}

\* Every repository a session reads was listed to a person who allowed it: the prompt is where
\* "the person has to be able to see WHICH repository" is read (group.ts:371-374).
ReadWasListed ==
  \A s \in Sessions : \A e \in cache[s].members :
    \E q \in prompts : q.allowed /\ q.repo = Repo(s) /\ e \in q.listed

\* The promise of a session, the calls that share it and the answer that comes while files and
\* checkouts change add up to one instant: the session is asked at most once, and reads what
\* that answer, or an earlier one for its repository, allows (service.ts:350-419).
Person == INSTANCE Consent WITH
  HomeRepo <- [s \in Sessions |-> Repo(s)], HomeStores <- [s \in Sessions |-> Home(s)],
  StoreOf <- [i \in Ids |-> FirstRows[i].store],
  settled <- {s \in Sessions : cache[s].state = "resolved"},
  scope <- [s \in Sessions |-> IF cache[s].state = "resolved" THEN cache[s].members ELSE {}],
  asked <- {q.session : q \in prompts},
  consent <- {[repo |-> q.repo, declared |-> q.declared] : q \in {p \in prompts : p.allowed}},
  shown <- seen

ScopeSpec == Person!Spec
=============================================================================
