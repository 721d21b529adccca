-------------------------- MODULE GroupScopeProofs --------------------------
(***************************************************************************)
(* Theorems about GroupScope, for every set of sessions, calls, checkouts, *)
(* repositories and memories.                                              *)
(***************************************************************************)
EXTENDS GroupScope, FiniteSetTheorems, TLAPS

Busy(c) == call[c].phase # "idle"
AsksFor(c, s) == call[c].phase = "asking" /\ call[c].session = s

(* A call knows its session, has seen rows of the session's own stores, and *)
(* a forget that awaits the group found nothing to forget at home.          *)
Sane(t) ==
  /\ t.session \in Sessions
  /\ \A i \in t.home : FirstRows[i].store \in Home(t.session)
  /\ t.op = "forget" /\ t.id \in Ids =>
       FirstRows[t.id].store \notin Home(t.session) \/ row[t.id] = "gone"
CallsAreSane == \A c \in Calls : Busy(c) => Sane(call[c])

(* The person is asked by one call of a session, before the session has a   *)
(* scope, about members of the declaration that will be granted.           *)
QuestionsAreSingle ==
  \A c \in Calls : \A s \in Sessions : AsksFor(c, s) =>
    /\ cache[s].state = "pending"
    /\ call[c].print \in [Members -> Nat]
    /\ call[c].members \subseteq DeclaredBy(call[c].print)
    /\ \A e \in Calls : AsksFor(e, s) => e = c

(* A grant is an answer.                                                    *)
GrantsAreAnswers ==
  \A g \in grants : \E q \in prompts :
    q.allowed /\ g[1] = q.repo /\ DeclaredBy(g[2]) = q.declared

(* What a session has been shown is at home or in its scope, and what was   *)
(* denied to it is in neither.                                             *)
InScope(s, i) == \/ FirstRows[i].store \in Home(s)
                 \/ FirstRows[i].store \in Stores(s)
ShownInScope == \A s \in Sessions : \A i \in seen[s] : cache[s].state = "resolved" /\ InScope(s, i)
DeniedOutside == \A s \in Sessions : \A i \in denied[s] : cache[s].state = "resolved" /\ ~InScope(s, i)

\* What a person has allowed sessions of s's repository to read.
AllowedFor(s, e) == \E q \in prompts : q.allowed /\ q.repo = Repo(s) /\ e \in q.declared

\* One answer for s's repository allowed all of m.
AllowedAtOnce(s, m) ==
  m = {} \/ \E q \in prompts : q.allowed /\ q.repo = Repo(s) /\ m \subseteq q.declared

CacheTypes == [state : {"none", "pending", "resolved"}, members : SUBSET Members]
CallTypes == [phase : {"idle", "waiting", "asking"}, session : Sessions \cup {NULL},
              op : Ops \cup {"none"}, id : Ids \cup {NULL}, home : SUBSET Ids,
              print : [Members -> Nat] \cup {NULL}, members : SUBSET Members]
Resolving == /\ cache \in [Sessions -> CacheTypes] /\ call \in [Calls -> CallTypes]
             /\ CallsAreSane /\ QuestionsAreSingle /\ ReadWasAllowed
             /\ ShownInScope /\ DeniedOutside

OtherTypes ==
  /\ file \in [Checkouts -> Contents] /\ inside \in [Checkouts -> SUBSET Repos]
  /\ onDisk \subseteq Repos /\ opened \subseteq onDisk
  /\ row \in [Ids -> {"live", "forgotten", "gone"}]
  /\ wrote \in [Repos \cup {Global} -> SUBSET Repos]
  /\ changes \in 0..MaxChanges /\ prompts \subseteq Prompts
  /\ seen \in [Sessions -> SUBSET Ids] /\ denied \in [Sessions -> SUBSET Ids]

IInv == /\ TypeOK
        /\ CallsAreSane
        /\ QuestionsAreSingle
        /\ GrantsAreAnswers
        /\ ReadWasAllowed
        /\ ShownInScope
        /\ DeniedOutside
        /\ WritesStayHome

-----------------------------------------------------------------------------
(* The declaration.                                                        *)

Read(w) == ReadGroupDeclaration(file[w])

(* A declaration that is read has finitely many entries, all with a source. *)
LEMMA DeclarationRead ==
  ASSUME NEW f \in Contents, ReadGroupDeclaration(f) # NULL
  PROVE  LET d == ReadGroupDeclaration(f) IN
         /\ EntriesOf(d) \subseteq Members
         /\ IsFiniteSet(DOMAIN d)
<1> DEFINE keep == {j \in DOMAIN f : f[j].source # NULL}
           d == [i \in keep |-> f[i]]
<1>1. f \in Seq(Entries) /\ ReadGroupDeclaration(f) = d
  BY ContentsAssumption DEF ReadGroupDeclaration
<1>2. \A i \in keep : f[i] \in Members
  <2> SUFFICES ASSUME NEW i \in keep PROVE f[i] \in Members
    OBVIOUS
  <2>1. f[i] \in Entries /\ f[i].source # NULL
    BY <1>1
  <2> QED
    BY <2>1 DEF Entries, Members
<1>3. DOMAIN f = 1..Len(f) /\ Len(f) \in Nat
  BY <1>1
<1>4. IsFiniteSet(DOMAIN f)
  <2>1. IsFiniteSet(1..Len(f))
    BY <1>3, FS_Interval
  <2> QED
    BY <1>3, <2>1, Zenon
<1>5. IsFiniteSet(keep)
  BY <1>4, FS_Subset
<1> QED
  BY <1>1, <1>2, <1>5 DEF EntriesOf

(* The fingerprint tells the entries, though not their order.               *)
LEMMA FingerprintTells ==
  ASSUME NEW d, EntriesOf(d) \subseteq Members, IsFiniteSet(DOMAIN d)
  PROVE  /\ Fingerprint(d) \in [Members -> Nat]
         /\ DeclaredBy(Fingerprint(d)) = EntriesOf(d)
<1> DEFINE At(e) == {i \in DOMAIN d : d[i] = e}
<1>1. \A e : IsFiniteSet(At(e))
  BY FS_Subset
<1>2. \A e : Cardinality(At(e)) \in Nat /\ (Cardinality(At(e)) = 0 <=> At(e) = {})
  BY <1>1, FS_CardinalityType, FS_EmptySet
<1>3. \A e \in Members : At(e) # {} <=> e \in EntriesOf(d)
  BY DEF EntriesOf
<1>4. Fingerprint(d) = [e \in Members |-> Cardinality(At(e))]
  BY DEF Fingerprint
<1> HIDE DEF At
<1> QED
  BY <1>2, <1>3, <1>4 DEF DeclaredBy

-----------------------------------------------------------------------------
(* How a resolution ends: with members a person has allowed, or with a      *)
(* question about members of the declaration.                              *)
LEMMA ResolutionEnds ==
  ASSUME IInv, NEW c \in Calls, NEW s \in Sessions, NEW t, StartResolution(c, s, t)
  PROVE  \/ \E m \in SUBSET Members :
              /\ SettledAs(s, m) /\ call' = [call EXCEPT ![c] = t]
              /\ AllowedAtOnce(s, m)
         \/ \E m \in SUBSET Members, print \in [Members -> Nat] :
              /\ cache' = [cache EXCEPT ![s] = [state |-> "pending", members |-> {}]]
              /\ call' = [call EXCEPT ![c] = Asking(t, print, m)]
              /\ m \subseteq DeclaredBy(print)
<1> DEFINE w == CheckoutOf[s]
           d == ReadGroupDeclaration(file[w])
           m == IF d = NULL THEN {} ELSE ResolveGroupMembers(d, w)
<1>1. w \in Checkouts /\ file[w] \in Contents
  BY CheckoutsAssumption DEF IInv, TypeOK
<1>2. d # NULL => /\ EntriesOf(d) \subseteq Members
                  /\ Fingerprint(d) \in [Members -> Nat]
                  /\ DeclaredBy(Fingerprint(d)) = EntriesOf(d)
  BY <1>1, DeclarationRead, FingerprintTells
<1>3. m # {} => d # NULL
  OBVIOUS
<1>4. m # {} => m \subseteq DeclaredBy(Fingerprint(d)) /\ m \subseteq Members
  BY <1>2, <1>3 DEF ResolveGroupMembers
<1>5. m # {} /\ ~MustAsk(s, d, m) => AllowedAtOnce(s, m)
  <2> SUFFICES ASSUME m # {}, ~MustAsk(s, d, m) PROVE AllowedAtOnce(s, m)
    OBVIOUS
  <2> HIDE DEF m, d
  <2>1. GrantKey(s, Fingerprint(d)) \in grants
    BY DEF MustAsk
  <2>2. PICK q \in prompts : /\ q.allowed /\ GrantKey(s, Fingerprint(d))[1] = q.repo
                             /\ DeclaredBy(GrantKey(s, Fingerprint(d))[2]) = q.declared
    BY <2>1 DEF IInv, GrantsAreAnswers
  <2> QED
    BY <2>2, <1>4 DEF GrantKey, AllowedAtOnce
<1> HIDE DEF m, d
<1>6. CASE /\ SettledAs(s, IF MustAsk(s, d, m) THEN {} ELSE m)
           /\ call' = [call EXCEPT ![c] = t]
  <2> DEFINE n == IF MustAsk(s, d, m) THEN {} ELSE m
  <2>1. n \in SUBSET Members /\ AllowedAtOnce(s, n)
    BY <1>4, <1>5 DEF AllowedAtOnce
  <2> HIDE DEF n
  <2>2. SettledAs(s, n)
    BY <1>6 DEF n
  <2> QED
    BY <1>6, <2>1, <2>2
<1>7. CASE /\ MustAsk(s, d, m)
           /\ cache' = [cache EXCEPT ![s] = [state |-> "pending", members |-> {}]]
           /\ call' = [call EXCEPT ![c] = Asking(t, Fingerprint(d), m)]
  BY <1>7, <1>2, <1>3, <1>4 DEF MustAsk
<1> QED
  BY <1>6, <1>7 DEF StartResolution, m, d

Unread == UNCHANGED <<row, prompts, seen, denied>>

(* A call that starts to wait disturbs nothing.                            *)
LEMMA CallWaits ==
  ASSUME IInv, NEW c \in Calls, Idle(c), NEW t \in CallTypes, t.phase = "waiting", Sane(t),
         call' = [call EXCEPT ![c] = t], UNCHANGED cache, Unread
  PROVE  Resolving'
<1> USE DEF Unread
<1>1. cache' \in [Sessions -> CacheTypes] /\ call' \in [Calls -> CallTypes]
  BY DEF IInv, TypeOK, CacheTypes, CallTypes
<1>2. call'[c] = t /\ \A e \in Calls \ {c} : call'[e] = call[e]
  BY DEF IInv, TypeOK
<1>3. CallsAreSane'
  BY <1>2 DEF IInv, CallsAreSane, Busy, Sane, Home, Repo
<1>4. QuestionsAreSingle'
  <2>1. \A e \in Calls : \A s \in Sessions : AsksFor(e, s)' => AsksFor(e, s) /\ call'[e] = call[e]
    BY <1>2 DEF AsksFor
  <2> QED
    BY <2>1 DEF IInv, QuestionsAreSingle, DeclaredBy
<1>5. ReadWasAllowed' /\ ShownInScope' /\ DeniedOutside'
  BY DEF IInv, ReadWasAllowed, ShownInScope, DeniedOutside, InScope, Stores, Home, Repo
<1> QED
  BY <1>1, <1>3, <1>4, <1>5 DEF Resolving

(* A session without a scope has been asked, shown and denied nothing.      *)
LEMMA NoScopeYet ==
  ASSUME IInv, NEW s \in Sessions, cache[s].state # "resolved"
  PROVE  /\ \A q \in prompts : q.session # s
         /\ seen[s] = {} /\ denied[s] = {}
<1>1. \A q \in prompts : q.session # s
  <2> SUFFICES ASSUME NEW q \in prompts, q.session = s PROVE FALSE
    OBVIOUS
  <2> DEFINE m == IF q.allowed THEN q.listed ELSE {}
  <2>1. cache[s] = [state |-> "resolved", members |-> m]
    BY Zenon DEF IInv, ReadWasAllowed
  <2> HIDE DEF m
  <2> QED
    BY <2>1
<1>2. seen[s] = {} /\ denied[s] = {}
  BY Zenon DEF IInv, ShownInScope, DeniedOutside
<1> QED
  BY <1>1, <1>2

(* The scope of a session is settled without a question.                    *)
LEMMA ScopeSettles ==
  ASSUME IInv, NEW c \in Calls, Idle(c), NEW t \in CallTypes, t.phase = "waiting", Sane(t),
         call' = [call EXCEPT ![c] = t], Unread,
         NEW s \in Sessions, ~Cached(s), NEW m \in SUBSET Members, SettledAs(s, m),
         \A e \in m : AllowedFor(s, e)
  PROVE  Resolving'
<1> USE DEF Unread
<1>1. /\ cache \in [Sessions -> CacheTypes] /\ call \in [Calls -> CallTypes]
      /\ [state |-> "resolved", members |-> m] \in CacheTypes
  BY DEF IInv, TypeOK, CacheTypes, CallTypes
<1>2. call'[c] = t /\ \A e \in Calls \ {c} : call'[e] = call[e]
  BY <1>1
<1>3. /\ cache'[s] = [state |-> "resolved", members |-> m]
      /\ \A r \in Sessions \ {s} : cache'[r] = cache[r]
      /\ cache' \in [Sessions -> CacheTypes]
  BY <1>1 DEF SettledAs
<1>4. cache[s].state = "none"
  BY DEF Cached
<1>5. CallsAreSane'
  BY <1>2 DEF IInv, CallsAreSane, Busy, Sane, Home, Repo
<1>6. QuestionsAreSingle'
  <2>1. \A e \in Calls : \A r \in Sessions :
          AsksFor(e, r)' => AsksFor(e, r) /\ call'[e] = call[e] /\ r # s
    BY <1>2, <1>4 DEF AsksFor, IInv, QuestionsAreSingle
  <2> QED
    BY <2>1, <1>3 DEF IInv, QuestionsAreSingle, DeclaredBy
<1>7. ReadWasAllowed'
  <2> SUFFICES ASSUME NEW r \in Sessions
               PROVE  /\ \A e \in cache'[r].members : AllowedFor(r, e)
                      /\ \A q \in prompts : q.session = r =>
                           cache'[r] = [state |-> "resolved",
                                        members |-> IF q.allowed THEN q.listed ELSE {}]
    BY DEF ReadWasAllowed, AllowedFor, Repo
  <2>1. CASE r = s
    <3>1. \A q \in prompts : q.session # s
      BY <1>4, NoScopeYet
    <3> QED
      BY <2>1, <3>1, <1>3
  <2>2. CASE r # s
    <3>1. cache'[r] = cache[r]
      BY <2>2, <1>3
    <3> QED
      BY <3>1, Zenon DEF IInv, ReadWasAllowed, AllowedFor
  <2> QED
    BY <2>1, <2>2
<1>8. ShownInScope' /\ DeniedOutside'
  <2>1. seen[s] = {} /\ denied[s] = {}
    BY <1>4, NoScopeYet
  <2> QED
    BY <2>1, <1>3 DEF IInv, ShownInScope, DeniedOutside, InScope, Stores, Home, Repo
<1> QED
  BY <1>1, <1>3, <1>5, <1>6, <1>7, <1>8 DEF Resolving

(* The person is asked.                                                    *)
LEMMA QuestionIsPut ==
  ASSUME IInv, NEW c \in Calls, Idle(c), NEW s \in Sessions, ~Cached(s), Unread,
         NEW t \in CallTypes, t.phase = "waiting", Sane(t), t.session = s,
         NEW m \in SUBSET Members, NEW print \in [Members -> Nat], m \subseteq DeclaredBy(print),
         cache' = [cache EXCEPT ![s] = [state |-> "pending", members |-> {}]],
         call' = [call EXCEPT ![c] = Asking(t, print, m)]
  PROVE  Resolving'
<1> USE DEF Unread
<1> DEFINE u == Asking(t, print, m)
<1>1. /\ cache \in [Sessions -> CacheTypes] /\ call \in [Calls -> CallTypes]
      /\ [state |-> "pending", members |-> {}] \in CacheTypes
  BY DEF IInv, TypeOK, CacheTypes, CallTypes
<1>2. /\ u.phase = "asking" /\ u.session = s /\ u.op = t.op /\ u.id = t.id /\ u.home = t.home
      /\ u.print = print /\ u.members = m /\ u \in CallTypes
  BY DEF Asking, CallTypes
<1> HIDE DEF u
<1>3. call'[c] = u /\ \A e \in Calls \ {c} : call'[e] = call[e]
  BY <1>1 DEF u
<1>4. /\ cache'[s] = [state |-> "pending", members |-> {}]
      /\ \A r \in Sessions \ {s} : cache'[r] = cache[r]
      /\ cache' \in [Sessions -> CacheTypes] /\ call' \in [Calls -> CallTypes]
  BY <1>1, <1>2 DEF u
<1>5. cache[s].state = "none"
  BY DEF Cached
<1>6. CallsAreSane'
  <2>1. Sane(u)'
    BY <1>2 DEF Sane, Home, Repo
  <2>2. \A e \in Calls \ {c} : Busy(e)' => Sane(call[e])'
    BY <1>3 DEF IInv, CallsAreSane, Busy, Sane, Home, Repo
  <2> QED
    BY <2>1, <2>2, <1>3 DEF CallsAreSane
<1>7. QuestionsAreSingle'
  <2>1. \A e \in Calls \ {c} : \A r \in Sessions :
          AsksFor(e, r)' => AsksFor(e, r) /\ call'[e] = call[e] /\ r # s
    BY <1>3, <1>5 DEF AsksFor, IInv, QuestionsAreSingle
  <2>2. \A r \in Sessions : AsksFor(c, r)' => r = s
    BY <1>2, <1>3 DEF AsksFor
  <2>3. ASSUME NEW r \in Sessions, AsksFor(c, r)'
        PROVE  /\ cache'[r].state = "pending" /\ call'[c].print \in [Members -> Nat]
               /\ call'[c].members \subseteq DeclaredBy(call'[c].print)
               /\ \A x \in Calls : AsksFor(x, r)' => x = c
    BY <2>1, <2>2, <2>3, <1>2, <1>3, <1>4
  <2>4. ASSUME NEW e \in Calls \ {c}, NEW r \in Sessions, AsksFor(e, r)'
        PROVE  /\ cache'[r].state = "pending" /\ call'[e].print \in [Members -> Nat]
               /\ call'[e].members \subseteq DeclaredBy(call'[e].print)
               /\ \A x \in Calls : AsksFor(x, r)' => x = e
    BY <2>1, <2>2, <2>4, <1>4 DEF IInv, QuestionsAreSingle
  <2> QED
    BY <2>3, <2>4 DEF QuestionsAreSingle, DeclaredBy
<1>8. ReadWasAllowed'
  <2>1. \A q \in prompts : q.session # s
    BY <1>5, NoScopeYet
  <2> SUFFICES ASSUME NEW r \in Sessions
               PROVE  /\ \A e \in cache'[r].members : AllowedFor(r, e)
                      /\ \A q \in prompts : q.session = r =>
                           cache'[r] = [state |-> "resolved",
                                        members |-> IF q.allowed THEN q.listed ELSE {}]
    BY DEF ReadWasAllowed, AllowedFor, Repo
  <2>2. CASE r = s
    BY <2>1, <2>2, <1>4
  <2>3. CASE r # s
    <3>1. cache'[r] = cache[r]
      BY <2>3, <1>4
    <3> QED
      BY <3>1, Zenon DEF IInv, ReadWasAllowed, AllowedFor
  <2> QED
    BY <2>2, <2>3
<1>9. ShownInScope' /\ DeniedOutside'
  <2>1. seen[s] = {} /\ denied[s] = {}
    BY <1>5, NoScopeYet
  <2> QED
    BY <2>1, <1>4 DEF IInv, ShownInScope, DeniedOutside, InScope, Stores, Home, Repo
<1> QED
  BY <1>4, <1>6, <1>7, <1>8, <1>9 DEF Resolving

(* Together: a call asks for its session's members.                         *)
LEMMA GroupMembersStep ==
  ASSUME IInv, NEW c \in Calls, Idle(c), NEW s \in Sessions, Unread,
         NEW t \in CallTypes, t.phase = "waiting", Sane(t), t.session = s, GroupMembers(c, s, t)
  PROVE  Resolving'
<1>1. CASE Cached(s) /\ call' = [call EXCEPT ![c] = t] /\ UNCHANGED cache
  BY <1>1, CallWaits
<1>2. CASE ~Cached(s) /\ StartResolution(c, s, t)
  <2>1. CASE \E m \in SUBSET Members :
               /\ SettledAs(s, m) /\ call' = [call EXCEPT ![c] = t]
               /\ AllowedAtOnce(s, m)
    <3>1. PICK m \in SUBSET Members : SettledAs(s, m) /\ AllowedAtOnce(s, m)
      BY <2>1
    <3>2. \A e \in m : AllowedFor(s, e)
      BY <3>1 DEF AllowedAtOnce, AllowedFor
    <3> QED
      BY <1>2, <2>1, <3>1, <3>2, ScopeSettles
  <2>2. CASE \E m \in SUBSET Members, print \in [Members -> Nat] :
               /\ cache' = [cache EXCEPT ![s] = [state |-> "pending", members |-> {}]]
               /\ call' = [call EXCEPT ![c] = Asking(t, print, m)]
               /\ m \subseteq DeclaredBy(print)
    BY <1>2, <2>2, QuestionIsPut
  <2> QED
    BY <1>2, <2>1, <2>2, ResolutionEnds
<1> QED
  BY <1>1, <1>2 DEF GroupMembers

(* The answer: the scope is what was listed, or nothing.                    *)
LEMMA AnswerStep ==
  ASSUME IInv, NEW c \in Calls, call[c].phase = "asking", UNCHANGED <<row, seen, denied>>,
         NEW allowed \in BOOLEAN, Answered(c, allowed),
         Resolve(c, IF allowed THEN call[c].members ELSE {}),
         allowed => grants' = grants \cup {GrantKey(call[c].session, call[c].print)},
         ~allowed => grants' = grants
  PROVE  Resolving' /\ GrantsAreAnswers' /\ prompts' \subseteq Prompts
<1> SUFFICES ASSUME NEW s, s = call[c].session,
                    NEW print, print = call[c].print,
                    NEW m, m = IF allowed THEN call[c].members ELSE {},
                    NEW t, t = Started(s, call[c].op, call[c].id, call[c].home),
                    NEW a, a = [session |-> s, repo |-> Repo(s), declared |-> DeclaredBy(print),
                                listed |-> call[c].members, allowed |-> allowed]
             PROVE  Resolving' /\ GrantsAreAnswers' /\ prompts' \subseteq Prompts
  OBVIOUS
<1>1. /\ cache \in [Sessions -> CacheTypes] /\ call \in [Calls -> CallTypes]
      /\ prompts \subseteq Prompts
  BY DEF IInv, TypeOK, CacheTypes, CallTypes
<1>2. call[c] \in CallTypes /\ m \in SUBSET Members
  BY <1>1 DEF CallTypes
<1>3. s \in Sessions /\ AsksFor(c, s)
  BY DEF IInv, CallsAreSane, Busy, Sane, AsksFor
<1>4. /\ cache[s].state = "pending" /\ m \subseteq DeclaredBy(print)
      /\ \A e \in Calls : AsksFor(e, s) => e = c
  BY <1>3 DEF IInv, QuestionsAreSingle
<1>5. /\ t \in CallTypes /\ t.phase = "waiting" /\ t.session = s
      /\ t.op = call[c].op /\ t.id = call[c].id /\ t.home = call[c].home
  BY <1>2 DEF Started, CallTypes
<1>6. prompts' = prompts \cup {a} /\ a \in Prompts
  <2>1. Repo(s) \in Repos /\ DeclaredBy(print) \in SUBSET Members
    BY <1>3, CheckoutsAssumption DEF Repo, DeclaredBy
  <2> QED
    BY <2>1, <1>2, <1>3 DEF Answered, Prompts, CallTypes
<1>7. a.session = s /\ a.repo = Repo(s) /\ a.declared = DeclaredBy(print)
      /\ a.listed = call[c].members /\ a.allowed = allowed
  OBVIOUS
<1>8. SettledAs(s, m) /\ call' = [call EXCEPT ![c] = t]
  BY DEF Resolve
<1>9. call'[c] = t /\ \A e \in Calls \ {c} : call'[e] = call[e]
  BY <1>1, <1>8
<1>10. /\ cache'[s] = [state |-> "resolved", members |-> m]
       /\ \A r \in Sessions \ {s} : cache'[r] = cache[r]
       /\ cache' \in [Sessions -> CacheTypes] /\ call' \in [Calls -> CallTypes]
  BY <1>1, <1>2, <1>3, <1>5, <1>8 DEF SettledAs, CacheTypes
<1>11. CallsAreSane'
  <2>1. Sane(call[c])'
    <3>1. Sane(call[c])
      BY DEF IInv, CallsAreSane, Busy
    <3>2. Sane(t)
      BY <3>1, <1>5 DEF Sane
    <3> QED
      BY <3>2, <1>9 DEF Sane
  <2>2. \A e \in Calls \ {c} : Busy(e)' => Sane(call[e])'
    <3>1. \A e \in Calls \ {c} : Busy(e)' => Sane(call[e])
      BY <1>9 DEF IInv, CallsAreSane, Busy
    <3> QED
      BY <3>1, <1>9 DEF Sane
  <2> QED
    BY <2>1, <2>2, <1>9 DEF CallsAreSane
<1>12. QuestionsAreSingle'
  <2>1. \A e \in Calls : \A r \in Sessions :
          AsksFor(e, r)' => AsksFor(e, r) /\ call'[e] = call[e] /\ r # s
    BY <1>4, <1>5, <1>9 DEF AsksFor
  <2> QED
    BY <2>1, <1>10 DEF IInv, QuestionsAreSingle, DeclaredBy
<1>13. ReadWasAllowed'
  <2>1. \A q \in prompts : q.session # s
    BY <1>3, <1>4, NoScopeYet
  <2>2. \A r \in Sessions, e \in Members : AllowedFor(r, e) => AllowedFor(r, e)'
    BY <1>6 DEF AllowedFor, Repo
  <2> SUFFICES ASSUME NEW r \in Sessions
               PROVE  /\ \A e \in cache'[r].members : AllowedFor(r, e)'
                      /\ \A q \in prompts' : q.session = r =>
                           cache'[r] = [state |-> "resolved",
                                        members |-> IF q.allowed THEN q.listed ELSE {}]
    BY DEF ReadWasAllowed, AllowedFor, Repo
  <2>3. CASE r = s
    <3>1. \A e \in m : AllowedFor(s, e)'
      <4>1. CASE allowed
        BY <4>1, <1>4, <1>6, <1>7 DEF AllowedFor, Repo
      <4>2. CASE ~allowed
        BY <4>2
      <4> QED
        BY <4>1, <4>2
    <3>2. \A q \in prompts' : q.session = s => q = a
      BY <2>1, <1>6
    <3>3. m = IF a.allowed THEN a.listed ELSE {}
      BY <1>7
    <3>4. cache'[r].members = m /\ cache'[r] = [state |-> "resolved", members |-> m]
      BY <2>3, <1>10
    <3> QED
      BY <2>3, <3>1, <3>2, <3>3, <3>4, Zenon
  <2>4. CASE r # s
    <3>1. cache'[r] = cache[r] /\ cache[r].members \subseteq Members
      BY <2>4, <1>1, <1>10 DEF CacheTypes
    <3>2. \A e \in cache[r].members : AllowedFor(r, e)
      BY DEF IInv, ReadWasAllowed, AllowedFor
    <3>3. \A q \in prompts' : q.session = r => q \in prompts
      BY <2>4, <1>6, <1>7
    <3>4. \A q \in prompts : q.session = r =>
            cache[r] = [state |-> "resolved", members |-> IF q.allowed THEN q.listed ELSE {}]
      BY Zenon DEF IInv, ReadWasAllowed
    <3> QED
      BY <2>2, <3>1, <3>2, <3>3, <3>4, Zenon
  <2> QED
    BY <2>3, <2>4
<1>14. ShownInScope' /\ DeniedOutside'
  <2>1. seen[s] = {} /\ denied[s] = {}
    BY <1>3, <1>4, NoScopeYet
  <2> QED
    BY <2>1, <1>10 DEF IInv, ShownInScope, DeniedOutside, InScope, Stores, Home, Repo
<1>15. GrantsAreAnswers'
  <2>1. \A g \in grants' : g \in grants \/ (allowed /\ g = GrantKey(s, print))
    OBVIOUS
  <2>2. \A g \in grants : \E q \in prompts' :
          q.allowed /\ g[1] = q.repo /\ DeclaredBy(g[2]) = q.declared
    BY <1>6 DEF IInv, GrantsAreAnswers
  <2>3. /\ GrantKey(s, print)[1] = a.repo
        /\ DeclaredBy(GrantKey(s, print)[2]) = a.declared
    BY <1>7 DEF GrantKey
  <2>4. allowed => \E q \in prompts' :
          /\ q.allowed /\ GrantKey(s, print)[1] = q.repo
          /\ DeclaredBy(GrantKey(s, print)[2]) = q.declared
    BY <1>6, <1>7, <2>3
  <2> QED
    BY <2>1, <2>2, <2>4, Zenon DEF GrantsAreAnswers, DeclaredBy
<1> QED
  BY <1>1, <1>6, <1>10, <1>11, <1>12, <1>13, <1>14, <1>15 DEF Resolving

(* The rest of a call.                                                     *)
LEMMA FoundInScope ==
  ASSUME NEW c \in Calls, NEW s,
         NEW found \in CASE call[c].op = "recall" -> SUBSET Live(Stores(s))
                         [] call[c].op = "list"   -> {Live(Stores(s))}
                         [] OTHER                 -> {{}}
  PROVE  \A i \in found : i \in Ids /\ FirstRows[i].store \in Stores(s)
<1>1. found \subseteq Live(Stores(s))
  <2>1. CASE call[c].op = "recall"
    BY <2>1
  <2>2. CASE call[c].op = "list"
    BY <2>2
  <2>3. CASE call[c].op \notin {"recall", "list"}
    BY <2>3
  <2> QED
    BY <2>1, <2>2, <2>3
<1> QED
  BY <1>1 DEF Live

LEMMA DeniedIsNotHere ==
  ASSUME NEW c \in Calls, NEW s, NEW i, row[i] = "live", Denies(c, s, i),
         call[c].op = "forget" => FirstRows[i].store \notin Home(s)
  PROVE  ~InScope(s, i)
<1>1. CASE SourceAnswer(s, i) = "denied"
  <2>1. FirstRows[i].store \notin Searched(s)
    <3> SUFFICES ASSUME FirstRows[i].store \in Searched(s) PROVE FALSE
      OBVIOUS
    <3> QED
      BY <1>1 DEF SourceAnswer
  <2> QED
    BY <2>1 DEF Searched, InScope
<1>2. CASE call[c].op = "forget" /\ ForgetAnswer(s, i) = "denied"
  <2>1. FirstRows[i].store \notin Stores(s)
    BY <1>2 DEF ForgetAnswer
  <2> QED
    BY <1>2, <2>1 DEF InScope
<1> QED
  BY <1>1, <1>2 DEF Denies

LEMMA ReturnStep ==
  ASSUME IInv, NEW c \in Calls, Return(c)
  PROVE  Resolving' /\ seen' \in [Sessions -> SUBSET Ids] /\ denied' \in [Sessions -> SUBSET Ids]
<1> SUFFICES ASSUME NEW s, s = call[c].session
             PROVE  Resolving' /\ seen' \in [Sessions -> SUBSET Ids]
                               /\ denied' \in [Sessions -> SUBSET Ids]
  OBVIOUS
<1>1. /\ cache \in [Sessions -> CacheTypes] /\ call \in [Calls -> CallTypes]
      /\ seen \in [Sessions -> SUBSET Ids] /\ denied \in [Sessions -> SUBSET Ids]
  BY DEF IInv, TypeOK, CacheTypes, CallTypes
<1>2. s \in Sessions /\ Sane(call[c]) /\ cache[s].state = "resolved"
  BY DEF IInv, CallsAreSane, Busy, Sane, Return
<1>3. PICK found \in CASE call[c].op = "recall" -> SUBSET Live(Stores(s))
                       [] call[c].op = "list"   -> {Live(Stores(s))}
                       [] OTHER                 -> {{}} :
        seen' = [seen EXCEPT ![s] = @ \cup call[c].home \cup found]
  BY DEF Return
<1>4. \A i \in found : i \in Ids /\ FirstRows[i].store \in Stores(s)
  BY <1>3, FoundInScope
<1>5. /\ denied' = [denied EXCEPT ![s] = @ \cup {i \in Ids : row[i] = "live" /\ Denies(c, s, i)}]
      /\ call' = [call EXCEPT ![c] = NoCall]
      /\ UNCHANGED <<cache, grants, row, prompts>>
  BY DEF Return
<1>6. /\ call' \in [Calls -> CallTypes]
      /\ call'[c].phase = "idle" /\ \A e \in Calls \ {c} : call'[e] = call[e]
  BY <1>1, <1>5 DEF NoCall, CallTypes
<1>7. call[c].home \subseteq Ids
  BY <1>1 DEF CallTypes
<1>8. seen' \in [Sessions -> SUBSET Ids] /\ denied' \in [Sessions -> SUBSET Ids]
  BY <1>1, <1>2, <1>3, <1>4, <1>5, <1>7
<1>9. CallsAreSane'
  BY <1>5, <1>6 DEF IInv, CallsAreSane, Busy, Sane, Home, Repo
<1>10. QuestionsAreSingle'
  <2>1. \A e \in Calls : \A r \in Sessions : AsksFor(e, r)' => AsksFor(e, r) /\ call'[e] = call[e]
    BY <1>6 DEF AsksFor
  <2> QED
    BY <2>1, <1>5 DEF IInv, QuestionsAreSingle, DeclaredBy
<1>11. ReadWasAllowed'
  BY <1>5 DEF IInv, ReadWasAllowed, Repo
<1>12. ShownInScope'
  <2>1. \A r \in Sessions : \A i \in seen'[r] :
           i \in seen[r] \/ (r = s /\ (i \in call[c].home \/ i \in found))
    BY <1>1, <1>2, <1>3
  <2>2. \A i \in call[c].home \cup found : InScope(s, i)
    BY <1>2, <1>4 DEF Sane, InScope
  <2>3. \A r \in Sessions, i \in Ids : InScope(r, i)' <=> InScope(r, i)
    BY <1>5 DEF InScope, Stores, Home, Repo
  <2>4. \A r \in Sessions : \A i \in seen[r] : cache[r].state = "resolved" /\ InScope(r, i)
    BY DEF IInv, ShownInScope
  <2> QED
    BY <2>1, <2>2, <2>3, <2>4, <1>2, <1>5, <1>8 DEF ShownInScope
<1>13. DeniedOutside'
  <2>1. \A r \in Sessions : \A i \in denied'[r] :
           i \in denied[r] \/ (r = s /\ row[i] = "live" /\ Denies(c, s, i))
    BY <1>1, <1>2, <1>5
  <2>2. ASSUME NEW i \in Ids, row[i] = "live", Denies(c, s, i)
        PROVE  ~InScope(s, i)
    <3>1. i = call[c].id
      BY <2>2 DEF Denies
    <3>2. call[c].op = "forget" => FirstRows[i].store \notin Home(s)
      BY <2>2, <3>1, <1>2 DEF Sane
    <3> QED
      BY <2>2, <3>2, DeniedIsNotHere
  <2>3. \A r \in Sessions, i \in Ids : InScope(r, i)' <=> InScope(r, i)
    BY <1>5 DEF InScope, Stores, Home, Repo
  <2>4. \A r \in Sessions : \A i \in denied[r] : cache[r].state = "resolved" /\ ~InScope(r, i)
    BY DEF IInv, DeniedOutside
  <2> QED
    BY <2>1, <2>2, <2>3, <2>4, <1>2, <1>5, <1>8 DEF DeniedOutside
<1> QED
  BY <1>1, <1>5, <1>6, <1>8, <1>9, <1>10, <1>11, <1>12, <1>13 DEF Resolving

(* What others do, and a forget at home, leave every call as it was.        *)
LEMMA OthersStep ==
  ASSUME IInv, UNCHANGED <<cache, call, prompts, seen, denied, grants>>,
         \A i \in Ids : row[i] = "gone" => row'[i] = "gone"
  PROVE  Resolving' /\ GrantsAreAnswers'
<1>1. cache' \in [Sessions -> CacheTypes] /\ call' \in [Calls -> CallTypes]
  BY DEF IInv, TypeOK, CacheTypes, CallTypes
<1>2. CallsAreSane'
  BY DEF IInv, CallsAreSane, Busy, Sane, Home, Repo
<1>3. QuestionsAreSingle' /\ GrantsAreAnswers'
  BY DEF IInv, QuestionsAreSingle, AsksFor, GrantsAreAnswers, DeclaredBy
<1>4. ReadWasAllowed' /\ ShownInScope' /\ DeniedOutside'
  BY DEF IInv, ReadWasAllowed, ShownInScope, DeniedOutside, InScope, Stores, Home, Repo
<1> QED
  BY <1>1, <1>2, <1>3, <1>4 DEF Resolving

LEMMA RestartStep ==
  ASSUME IInv, Restart
  PROVE  Resolving' /\ GrantsAreAnswers'
<1>1. cache' \in [Sessions -> CacheTypes] /\ call' \in [Calls -> CallTypes]
  BY DEF Restart, Unresolved, NoCall, CacheTypes, CallTypes
<1>2. CallsAreSane' /\ QuestionsAreSingle' /\ GrantsAreAnswers'
  BY DEF Restart, CallsAreSane, QuestionsAreSingle, GrantsAreAnswers, Busy, AsksFor, NoCall
<1>3. ReadWasAllowed' /\ ShownInScope' /\ DeniedOutside'
  BY DEF Restart, ReadWasAllowed, ShownInScope, DeniedOutside, Unresolved
<1> QED
  BY <1>1, <1>2, <1>3 DEF Resolving

LEMMA InitIInv == Init => IInv
<1> SUFFICES ASSUME Init PROVE IInv
  OBVIOUS
<1>1. TypeOK
  <2>1. call \in [Calls -> [phase : {"idle", "waiting", "asking"}, session : Sessions \cup {NULL},
                         op : Ops \cup {"none"}, id : Ids \cup {NULL}, home : SUBSET Ids,
                         print : [Members -> Nat] \cup {NULL}, members : SUBSET Members]]
    BY DEF Init, NoCall
  <2>2. inside \in [Checkouts -> SUBSET Repos] /\ onDisk \subseteq Repos
    BY CheckoutsAssumption, RowsAssumption DEF Init
  <2>3. changes \in 0..MaxChanges
    BY MaxChangesAssumption DEF Init
  <2> QED
    BY <2>1, <2>2, <2>3 DEF Init, TypeOK, Unresolved
<1>2. CallsAreSane /\ QuestionsAreSingle /\ GrantsAreAnswers
  BY DEF Init, CallsAreSane, QuestionsAreSingle, GrantsAreAnswers, Busy, AsksFor, NoCall
<1>3. ReadWasAllowed /\ ShownInScope /\ DeniedOutside /\ WritesStayHome
  BY DEF Init, ReadWasAllowed, ShownInScope, DeniedOutside, WritesStayHome, Unresolved
<1> QED
  BY <1>1, <1>2, <1>3 DEF IInv

LEMMA Assembled == OtherTypes /\ Resolving /\ GrantsAreAnswers /\ WritesStayHome => IInv
BY DEF OtherTypes, Resolving, IInv, TypeOK, CacheTypes, CallTypes

(* A session's usage is counted at home.                                    *)
LEMMA UsageStaysHome ==
  ASSUME IInv, NEW s \in Sessions, NEW found \in SUBSET Live(Home(s)), wrote' = TouchUsage(s, found)
  PROVE  WritesStayHome' /\ wrote' \in [Repos \cup {Global} -> SUBSET Repos]
<1>1. wrote \in [Repos \cup {Global} -> SUBSET Repos] /\ Repo(s) \in Repos
  BY CheckoutsAssumption DEF IInv, TypeOK, Repo
<1>2. ASSUME NEW r \in Repos, NEW i \in found, FirstRows[i].store = r
      PROVE  r = Repo(s)
  BY <1>2, GlobalAssumption DEF Live, Home
<1>3. WritesStayHome'
  BY <1>1, <1>2 DEF TouchUsage, IInv, WritesStayHome
<1> QED
  BY <1>1, <1>3 DEF TouchUsage

LEMMA StepIInv == IInv /\ [Next]_vars => IInv'
<1> SUFFICES ASSUME IInv, [Next]_vars PROVE IInv'
  OBVIOUS
<1>t. OtherTypes
  BY DEF IInv, TypeOK, OtherTypes
<1>h. \A s \in Sessions : Repo(s) \in Repos
  BY CheckoutsAssumption DEF Repo
<1>1. ASSUME NEW c \in Calls, NEW s \in Sessions, Recall(c, s) PROVE IInv'
  <2>1. PICK found \in SUBSET Live(Home(s)) :
          wrote' = TouchUsage(s, found) /\ GroupMembers(c, s, Started(s, "recall", NULL, found))
    BY <1>1 DEF Recall
  <2> DEFINE t == Started(s, "recall", NULL, found)
  <2>2. t \in CallTypes /\ t.phase = "waiting" /\ t.session = s /\ Sane(t)
    BY DEF Started, CallTypes, Sane, Live, Ops
  <2>3. Idle(c) /\ Unread /\ UNCHANGED grants
    BY <1>1 DEF Recall, Unread
  <2>4. Resolving'
    BY <2>1, <2>2, <2>3, GroupMembersStep
  <2>5. GrantsAreAnswers'
    BY <2>3 DEF IInv, GrantsAreAnswers, Unread
  <2>6. OtherTypes'
    BY <1>1, <1>t, <1>h, <2>1, UsageStaysHome DEF Recall, OpenHome, OtherTypes
  <2> QED
    BY <2>1, <2>4, <2>5, <2>6, UsageStaysHome, Assembled, PTL
<1>2. ASSUME NEW c \in Calls, NEW s \in Sessions, List(c, s) PROVE IInv'
  <2> DEFINE home == Live(Home(s) \cap (opened \cup {Global}))
             t == Started(s, "list", NULL, home)
  <2>1. t \in CallTypes /\ t.phase = "waiting" /\ t.session = s /\ Sane(t)
    BY DEF Started, CallTypes, Sane, Live, Ops
  <2>2. Idle(c) /\ GroupMembers(c, s, t) /\ Unread
    BY <1>2 DEF List, Unread
  <2>3. Resolving'
    BY <2>1, <2>2, GroupMembersStep
  <2>4. GrantsAreAnswers' /\ WritesStayHome' /\ OtherTypes'
    BY <1>2, <1>t DEF List, IInv, GrantsAreAnswers, WritesStayHome, OtherTypes
  <2> QED
    BY <2>3, <2>4, Assembled, PTL
<1>3. ASSUME NEW c \in Calls, NEW s \in Sessions, NEW i \in Ids, Source(c, s, i) PROVE IInv'
  <2> DEFINE t == Started(s, "source", i, {})
  <2>1. t \in CallTypes /\ t.phase = "waiting" /\ t.session = s /\ Sane(t)
    BY DEF Started, CallTypes, Sane, Ops
  <2>2. Idle(c) /\ GroupMembers(c, s, t) /\ Unread
    BY <1>3 DEF Source, Unread
  <2>3. Resolving'
    BY <2>1, <2>2, GroupMembersStep
  <2>4. GrantsAreAnswers' /\ WritesStayHome' /\ OtherTypes'
    BY <1>3, <1>t, <1>h DEF Source, OpenHome, IInv, GrantsAreAnswers, WritesStayHome, OtherTypes
  <2> QED
    BY <2>3, <2>4, Assembled, PTL
<1>4. ASSUME NEW c \in Calls, NEW s \in Sessions, NEW i \in Ids, Forget(c, s, i) PROVE IInv'
  <2>1. CASE FirstRows[i].store \in Forgettable(s) /\ row[i] # "gone"
    <3>1. /\ row' = IF FirstRows[i].raw THEN [row EXCEPT ![i] = "forgotten"] ELSE row
          /\ wrote' = IF row' = row THEN wrote
                      ELSE [wrote EXCEPT ![FirstRows[i].store] = @ \cup {Repo(s)}]
          /\ UNCHANGED <<cache, call, prompts, seen, denied, grants, file, inside, changes>>
      BY <1>4, <2>1 DEF Forget
    <3>2. Resolving' /\ GrantsAreAnswers'
      <4>1. \A x \in Ids : row[x] = "gone" => row'[x] = "gone"
        BY <2>1, <3>1, <1>t DEF OtherTypes
      <4> QED
        BY <3>1, <4>1, OthersStep
    <3>3. FirstRows[i].store \in {Repo(s), Global}
      BY <2>1 DEF Forgettable, Home
    <3>4. WritesStayHome' /\ wrote' \in [Repos \cup {Global} -> SUBSET Repos]
      BY <3>1, <3>3, <1>t, <1>h, GlobalAssumption DEF OtherTypes, IInv, WritesStayHome
    <3>5. OtherTypes'
      BY <1>4, <3>1, <3>4, <1>t, <1>h DEF Forget, OpenHome, OtherTypes
    <3> QED
      BY <3>2, <3>4, <3>5, Assembled, PTL
  <2>2. CASE ~(FirstRows[i].store \in Forgettable(s) /\ row[i] # "gone")
    <3> DEFINE t == Started(s, "forget", i, {})
    <3>1. Idle(c) /\ GroupMembers(c, s, t) /\ Unread
      BY <1>4, <2>2 DEF Forget, Unread
    <3>2. t \in CallTypes /\ t.phase = "waiting" /\ t.session = s /\ Sane(t)
      BY <2>2, <1>t DEF Started, CallTypes, Sane, Ops, Forgettable, OtherTypes
    <3>3. Resolving'
      BY <3>1, <3>2, GroupMembersStep
    <3>4. GrantsAreAnswers' /\ WritesStayHome' /\ OtherTypes'
      BY <1>4, <2>2, <1>t, <1>h
         DEF Forget, OpenHome, IInv, GrantsAreAnswers, WritesStayHome, OtherTypes
    <3> QED
      BY <3>3, <3>4, Assembled, PTL
  <2> QED
    BY <2>1, <2>2
<1>5. ASSUME NEW c \in Calls, Allow(c) PROVE IInv'
  <2>1. Resolving' /\ GrantsAreAnswers' /\ prompts' \subseteq Prompts
    BY <1>5, AnswerStep DEF Allow, ApprovedMembers
  <2>2. WritesStayHome' /\ OtherTypes'
    BY <1>5, <2>1, <1>t DEF Allow, IInv, WritesStayHome, OtherTypes
  <2> QED
    BY <2>1, <2>2, Assembled, PTL
<1>6. ASSUME NEW c \in Calls, Deny(c) PROVE IInv'
  <2>1. Resolving' /\ GrantsAreAnswers' /\ prompts' \subseteq Prompts
    BY <1>6, AnswerStep DEF Deny
  <2>2. WritesStayHome' /\ OtherTypes'
    BY <1>6, <2>1, <1>t DEF Deny, IInv, WritesStayHome, OtherTypes
  <2> QED
    BY <2>1, <2>2, Assembled, PTL
<1>7. ASSUME NEW c \in Calls, Return(c) PROVE IInv'
  <2>1. /\ Resolving' /\ seen' \in [Sessions -> SUBSET Ids]
        /\ denied' \in [Sessions -> SUBSET Ids]
    BY <1>7, ReturnStep
  <2>2. GrantsAreAnswers' /\ WritesStayHome' /\ OtherTypes'
    BY <1>7, <2>1, <1>t DEF Return, IInv, GrantsAreAnswers, WritesStayHome, OtherTypes
  <2> QED
    BY <2>1, <2>2, Assembled, PTL
<1>8. ASSUME NEW w \in Checkouts, EditFile(w) PROVE IInv'
  <2>1. Resolving' /\ GrantsAreAnswers'
    BY <1>8, OthersStep DEF EditFile
  <2>2. WritesStayHome' /\ OtherTypes'
    BY <1>8, <1>t, MaxChangesAssumption DEF EditFile, Changed, IInv, WritesStayHome, OtherTypes
  <2> QED
    BY <2>1, <2>2, Assembled, PTL
<1>9. ASSUME NEW w \in Checkouts, NEW r \in Repos, MoveCheckout(w, r) PROVE IInv'
  <2>1. Resolving' /\ GrantsAreAnswers'
    BY <1>9, OthersStep DEF MoveCheckout
  <2>2. WritesStayHome' /\ OtherTypes'
    BY <1>9, <1>t, MaxChangesAssumption DEF MoveCheckout, Changed, IInv, WritesStayHome, OtherTypes
  <2> QED
    BY <2>1, <2>2, Assembled, PTL
<1>10. ASSUME NEW r \in Repos, CreateStore(r) PROVE IInv'
  <2>1. Resolving' /\ GrantsAreAnswers'
    BY <1>10, OthersStep DEF CreateStore
  <2>2. WritesStayHome' /\ OtherTypes'
    BY <1>10, <1>t, MaxChangesAssumption DEF CreateStore, Changed, IInv, WritesStayHome, OtherTypes
  <2> QED
    BY <2>1, <2>2, Assembled, PTL
<1>11. ASSUME NEW i \in Ids, LoseRow(i) PROVE IInv'
  <2>1. \A x \in Ids : row[x] = "gone" => row'[x] = "gone"
    BY <1>11, <1>t DEF LoseRow, OtherTypes
  <2>2. Resolving' /\ GrantsAreAnswers'
    BY <1>11, <2>1, OthersStep DEF LoseRow
  <2>3. WritesStayHome' /\ OtherTypes'
    BY <1>11, <1>t, MaxChangesAssumption DEF LoseRow, Changed, IInv, WritesStayHome, OtherTypes
  <2> QED
    BY <2>2, <2>3, Assembled, PTL
<1>12. CASE Restart
  <2>1. Resolving' /\ GrantsAreAnswers'
    BY <1>12, RestartStep
  <2>2. WritesStayHome' /\ OtherTypes'
    BY <1>12, <1>t, MaxChangesAssumption DEF Restart, Changed, IInv, WritesStayHome, OtherTypes
  <2> QED
    BY <2>1, <2>2, Assembled, PTL
<1>13. CASE UNCHANGED vars
  <2>1. Resolving' /\ GrantsAreAnswers'
    BY <1>13, OthersStep DEF vars
  <2>2. WritesStayHome' /\ OtherTypes'
    BY <1>13, <1>t DEF vars, IInv, WritesStayHome, OtherTypes
  <2> QED
    BY <2>1, <2>2, Assembled, PTL
<1> QED
  BY <1>1, <1>2, <1>3, <1>4, <1>5, <1>6, <1>7, <1>8, <1>9, <1>10, <1>11, <1>12, <1>13
     DEF Next, Operation

(* The inductive invariant: one question at a time and session, asked before *)
(* the session has a scope, and every grant somebody's answer (service.ts,  *)
(* groupMembers and resolveGroup).                                         *)
THEOREM Invariance == Spec => []IInv
<1> QED
  BY InitIInv, StepIInv, PTL DEF Spec

(* Everything keeps its type.                                               *)
THEOREM TypeCorrect == Spec => []TypeOK
<1>1. IInv => TypeOK
  BY DEF IInv
<1> QED
  BY <1>1, Invariance, PTL

(* A session reads of other repositories what a person allowed for its own, *)
(* and, if it was asked, exactly what the question listed: however many     *)
(* calls await the answer, and whatever others do to the file, the          *)
(* checkouts and the stores meanwhile.                                     *)
THEOREM Allowed == Spec => []ReadWasAllowed
<1>1. IInv => ReadWasAllowed
  BY DEF IInv
<1> QED
  BY <1>1, Invariance, PTL

(* No session changes a store other than its own two.                       *)
THEOREM StayHome == Spec => []WritesStayHome
<1>1. IInv => WritesStayHome
  BY DEF IInv
<1> QED
  BY <1>1, Invariance, PTL

(* What one call has shown, no other denies while it is there.              *)
THEOREM Undenied == Spec => []ShownIsNeverDenied
<1>1. IInv => ShownIsNeverDenied
  BY DEF IInv, ShownInScope, DeniedOutside, ShownIsNeverDenied
<1> QED
  BY <1>1, Invariance, PTL

(* A scope that is settled stays until the process starts again.            *)
THEOREM Settled == Spec => ScopeIsSettled
<1>1. IInv /\ [Next]_vars
        => [\A s \in Sessions : cache[s].state = "resolved" =>
              cache'[s] \in {cache[s], Unresolved}]_vars
  <2> SUFFICES ASSUME IInv, Next, NEW s \in Sessions, cache[s].state = "resolved"
               PROVE  cache'[s] \in {cache[s], Unresolved}
    BY DEF vars
  <2>1. ASSUME NEW c \in Calls, NEW r \in Sessions, NEW t, GroupMembers(c, r, t)
        PROVE  cache'[s] = cache[s]
    <3>1. CASE Cached(r) /\ UNCHANGED cache
      BY <3>1
    <3>2. CASE ~Cached(r) /\ \E x : cache' = [cache EXCEPT ![r] = x]
      BY <3>2 DEF Cached, IInv, TypeOK
    <3>3. StartResolution(c, r, t) => \E x : cache' = [cache EXCEPT ![r] = x]
      BY DEF StartResolution, SettledAs
    <3> QED
      BY <2>1, <3>1, <3>2, <3>3 DEF GroupMembers
  <2>2. ASSUME NEW c \in Calls, NEW m, call[c].phase = "asking", Resolve(c, m)
        PROVE  cache'[s] = cache[s]
    <3>1. s # call[c].session
      BY <2>2 DEF IInv, QuestionsAreSingle, AsksFor
    <3> QED
      BY <2>2, <3>1 DEF Resolve, SettledAs
  <2>3. ASSUME NEW c \in Calls, Operation(c)
        PROVE  cache'[s] = cache[s]
    <3>1. ASSUME NEW r \in Sessions, Recall(c, r) \/ List(c, r) PROVE cache'[s] = cache[s]
      BY <3>1, <2>1 DEF Recall, List
    <3>2. ASSUME NEW r \in Sessions, NEW i \in Ids, Source(c, r, i) \/ Forget(c, r, i)
          PROVE  cache'[s] = cache[s]
      BY <3>2, <2>1 DEF Source, Forget
    <3>3. ASSUME Allow(c) \/ Deny(c) \/ Return(c) PROVE cache'[s] = cache[s]
      BY <3>3, <2>2 DEF Allow, Deny, Return
    <3> QED
      BY <2>3, <3>1, <3>2, <3>3 DEF Operation
  <2>4. Restart => cache'[s] = Unresolved
    BY DEF Restart
  <2> QED
    BY <2>3, <2>4 DEF Next, EditFile, MoveCheckout, CreateStore, LoseRow
<1> QED
  BY <1>1, Invariance, PTL DEF Spec, ScopeIsSettled

-----------------------------------------------------------------------------
(* The session and the person.                                             *)

Settled1(ca) == {s \in Sessions : ca[s].state = "resolved"}
ScopeOf1(ca) == [s \in Sessions |-> IF ca[s].state = "resolved" THEN ca[s].members ELSE {}]
Consents(pr) == {[repo |-> q.repo, declared |-> q.declared] : q \in {p \in pr : p.allowed}}

(* As long as nobody gets a scope the person sees nothing.                  *)
LEMMA NothingSettles ==
  ASSUME \A s \in Sessions :
           \/ cache'[s] = cache[s]
           \/ cache[s].state # "resolved" /\ cache'[s].state # "resolved"
  PROVE  Settled1(cache') = Settled1(cache) /\ ScopeOf1(cache') = ScopeOf1(cache)
BY DEF Settled1, ScopeOf1

LEMMA OneSettles ==
  ASSUME NEW s \in Sessions, NEW m, cache \in [Sessions -> CacheTypes],
         cache[s].state # "resolved", SettledAs(s, m)
  PROVE  /\ s \notin Settled1(cache) /\ Settled1(cache') = Settled1(cache) \cup {s}
         /\ ScopeOf1(cache)[s] = {} /\ ScopeOf1(cache') = [ScopeOf1(cache) EXCEPT ![s] = m]
<1>1. /\ cache'[s] = [state |-> "resolved", members |-> m]
      /\ \A r \in Sessions \ {s} : cache'[r] = cache[r]
  BY DEF SettledAs
<1>2. Settled1(cache') = Settled1(cache) \cup {s}
  BY <1>1 DEF Settled1
<1>3. \A r \in Sessions : ScopeOf1(cache')[r] = IF r = s THEN m ELSE ScopeOf1(cache)[r]
  BY <1>1 DEF ScopeOf1
<1>4. ScopeOf1(cache') = [ScopeOf1(cache) EXCEPT ![s] = m]
  BY <1>3 DEF ScopeOf1
<1> QED
  BY <1>2, <1>4 DEF Settled1, ScopeOf1

(* A call starts: its session has a promise already, gets a scope, or is to *)
(* be asked, which nobody outside notices.                                 *)
LEMMA StartsInConsent ==
  ASSUME IInv, NEW c \in Calls, NEW s \in Sessions, NEW t, GroupMembers(c, s, t),
         UNCHANGED <<prompts, seen, denied>>
  PROVE  Person!Settle(s) \/ UNCHANGED Person!person
<1>0. cache \in [Sessions -> CacheTypes]
  BY DEF IInv, TypeOK, CacheTypes
<1>1. CASE UNCHANGED cache
  BY <1>1 DEF Person!person
<1>2. ASSUME ~Cached(s), NEW m \in SUBSET Members, SettledAs(s, m), AllowedAtOnce(s, m)
      PROVE  Person!Settle(s)
  <2>1. cache[s].state # "resolved"
    BY <1>2 DEF Cached
  <2>2. /\ s \notin Settled1(cache) /\ Settled1(cache') = Settled1(cache) \cup {s}
        /\ ScopeOf1(cache') = [ScopeOf1(cache) EXCEPT ![s] = m]
    BY <1>0, <1>2, <2>1, OneSettles
  <2>3. m = {} \/ \E a \in Consents(prompts) :
                    a.repo = [r \in Sessions |-> Repo(r)][s] /\ m \subseteq a.declared
    <3>1. CASE m = {}
      BY <3>1
    <3>2. ASSUME NEW q \in prompts, q.allowed, q.repo = Repo(s), m \subseteq q.declared
          PROVE  \E a \in Consents(prompts) :
                   a.repo = [r \in Sessions |-> Repo(r)][s] /\ m \subseteq a.declared
      <4> DEFINE a == [repo |-> q.repo, declared |-> q.declared]
      <4>1. a \in Consents(prompts)
        BY <3>2 DEF Consents
      <4>2. a.repo = [r \in Sessions |-> Repo(r)][s] /\ m \subseteq a.declared
        BY <3>2
      <4> QED
        BY <4>1, <4>2
    <3> QED
      BY <1>2, <3>1, <3>2 DEF AllowedAtOnce
  <2>4. Person!GetsScope(s)
    BY <2>2 DEF Person!GetsScope, Settled1
  <2> QED
    BY <2>2, <2>3, <2>4 DEF Person!Settle, ScopeOf1, Consents
<1>3. ASSUME ~Cached(s), cache' = [cache EXCEPT ![s] = [state |-> "pending", members |-> {}]]
      PROVE  UNCHANGED Person!person
  <2>1. \A r \in Sessions :
          \/ cache'[r] = cache[r]
          \/ cache[r].state # "resolved" /\ cache'[r].state # "resolved"
    BY <1>0, <1>3 DEF Cached
  <2> QED
    BY <2>1, NothingSettles DEF Person!person, Settled1, ScopeOf1
<1>4. CASE ~Cached(s) /\ StartResolution(c, s, t)
  BY <1>2, <1>3, <1>4, ResolutionEnds
<1> QED
  BY <1>1, <1>4 DEF GroupMembers

(* The answer is the question too.                                         *)
LEMMA AnswersInConsent ==
  ASSUME IInv, NEW c \in Calls, call[c].phase = "asking", UNCHANGED <<seen, denied>>,
         NEW allowed \in BOOLEAN, Answered(c, allowed),
         Resolve(c, IF allowed THEN call[c].members ELSE {})
  PROVE  \E s \in Sessions : Person!Ask(s)
<1> SUFFICES ASSUME NEW s, s = call[c].session,
                    NEW listed, listed = call[c].members,
                    NEW declared, declared = DeclaredBy(call[c].print),
                    NEW a, a = [session |-> s, repo |-> Repo(s), declared |-> declared,
                                listed |-> listed, allowed |-> allowed]
             PROVE  \E r \in Sessions : Person!Ask(r)
  OBVIOUS
<1>1. /\ cache \in [Sessions -> CacheTypes] /\ call[c] \in CallTypes
  BY DEF IInv, TypeOK, CacheTypes, CallTypes
<1>2. s \in Sessions /\ AsksFor(c, s)
  BY DEF IInv, CallsAreSane, Busy, Sane, AsksFor
<1>3. cache[s].state # "resolved" /\ listed \in SUBSET declared /\ declared \in SUBSET Members
  BY <1>2 DEF IInv, QuestionsAreSingle, DeclaredBy
<1>4. prompts' = prompts \cup {a}
  BY DEF Answered
<1>5. {q.session : q \in prompts}' = {q.session : q \in prompts} \cup {s}
  BY <1>4
<1>6. /\ allowed => Consents(prompts')
                      = Consents(prompts) \cup {[repo |-> Repo(s), declared |-> declared]}
      /\ ~allowed => Consents(prompts') = Consents(prompts)
  BY <1>4 DEF Consents
<1> DEFINE m == IF allowed THEN listed ELSE {}
<1>7. SettledAs(s, m)
  BY DEF Resolve
<1> HIDE DEF m
<1>8. /\ s \notin Settled1(cache) /\ Settled1(cache') = Settled1(cache) \cup {s}
      /\ ScopeOf1(cache)[s] = {} /\ ScopeOf1(cache') = [ScopeOf1(cache) EXCEPT ![s] = m]
  BY <1>1, <1>2, <1>3, <1>7, OneSettles
<1>9. Person!GetsScope(s)
  BY <1>8 DEF Person!GetsScope, Settled1
<1>10. CASE allowed
  <2>1. ScopeOf1(cache') = [ScopeOf1(cache) EXCEPT ![s] = listed]
    BY <1>8, <1>10 DEF m
  <2>2. Consents(prompts') = Consents(prompts)
          \cup {[repo |-> [r \in Sessions |-> Repo(r)][s], declared |-> declared]}
    BY <1>2, <1>6, <1>10
  <2>3. Person!Ask(s)
    BY <1>3, <1>5, <1>9, <2>1, <2>2 DEF Person!Ask, ScopeOf1, Consents
  <2> QED
    BY <1>2, <2>3
<1>11. CASE ~allowed
  <2>1. ScopeOf1(cache') = ScopeOf1(cache)
    <3>1. ScopeOf1(cache') = [ScopeOf1(cache) EXCEPT ![s] = {}]
      BY <1>8, <1>11 DEF m
    <3> QED
      BY <3>1, <1>8 DEF ScopeOf1
  <2>2. Person!Ask(s)
    BY <1>5, <1>6, <1>9, <1>11, <2>1 DEF Person!Ask, ScopeOf1, Consents
  <2> QED
    BY <1>2, <2>2
<1> QED
  BY <1>10, <1>11

(* What returns comes from the scope, and what is denied does not.          *)
LEMMA WithinIs ==
  ASSUME NEW s \in Sessions, cache[s].state = "resolved", NEW i \in Ids
  PROVE  i \in Person!Within(s) <=> InScope(s, i)
BY DEF Person!Within, InScope, Stores

LEMMA ReadsInConsent ==
  ASSUME IInv, NEW c \in Calls, Return(c)
  PROVE  \E s \in Sessions : Person!Read(s)
<1> SUFFICES ASSUME NEW s, s = call[c].session PROVE \E r \in Sessions : Person!Read(r)
  OBVIOUS
<1>1. /\ s \in Sessions /\ Sane(call[c]) /\ cache[s].state = "resolved"
      /\ call[c].home \subseteq Ids
  BY DEF IInv, CallsAreSane, Busy, Sane, Return, TypeOK
<1>2. PICK found \in CASE call[c].op = "recall" -> SUBSET Live(Stores(s))
                       [] call[c].op = "list"   -> {Live(Stores(s))}
                       [] OTHER                 -> {{}} :
        seen' = [seen EXCEPT ![s] = @ \cup call[c].home \cup found]
  BY DEF Return
<1>3. \A i \in found : i \in Ids /\ FirstRows[i].store \in Stores(s)
  BY <1>2, FoundInScope
<1> DEFINE some == call[c].home \cup found
           none == {i \in Ids : row[i] = "live" /\ Denies(c, s, i)}
<1>4. some \in SUBSET Person!Within(s)
  <2>1. \A i \in some : i \in Ids /\ InScope(s, i)
    BY <1>1, <1>3 DEF Sane, InScope
  <2> QED
    BY <1>1, <2>1, WithinIs
<1>5. none \in SUBSET (Ids \ Person!Within(s))
  <2>1. ASSUME NEW i \in Ids, row[i] = "live", Denies(c, s, i) PROVE ~InScope(s, i)
    <3>1. i = call[c].id
      BY <2>1 DEF Denies
    <3>2. call[c].op = "forget" => FirstRows[i].store \notin Home(s)
      BY <2>1, <3>1, <1>1 DEF Sane
    <3> QED
      BY <2>1, <3>2, DeniedIsNotHere
  <2> QED
    BY <1>1, <2>1, WithinIs
<1>6. seen' = [seen EXCEPT ![s] = @ \cup some] /\ denied' = [denied EXCEPT ![s] = @ \cup none]
  <2>1. seen[s] \cup call[c].home \cup found = seen[s] \cup some
    OBVIOUS
  <2> QED
    BY <1>2, <2>1 DEF Return
<1>7. s \in {r \in Sessions : cache[r].state = "resolved"} /\ UNCHANGED <<cache, prompts>>
  BY <1>1 DEF Return
<1> HIDE DEF some, none
<1>8. Person!Read(s)
  BY <1>4, <1>5, <1>6, <1>7 DEF Person!Read
<1> QED
  BY <1>1, <1>8

LEMMA PersonStep == IInv /\ [Next]_vars => [Person!Next]_(Person!person)
<1> SUFFICES ASSUME IInv, [Next]_vars PROVE [Person!Next]_(Person!person)
  OBVIOUS
<1>1. ASSUME NEW c \in Calls, NEW s \in Sessions, NEW t, GroupMembers(c, s, t),
             UNCHANGED <<prompts, seen, denied>>
      PROVE  [Person!Next]_(Person!person)
  BY <1>1, StartsInConsent DEF Person!Next
<1>2. ASSUME UNCHANGED <<cache, prompts, seen, denied>> PROVE UNCHANGED Person!person
  BY <1>2 DEF Person!person
<1>3. ASSUME NEW c \in Calls, NEW s \in Sessions, Recall(c, s) \/ List(c, s)
      PROVE  [Person!Next]_(Person!person)
  BY <1>1, <1>3 DEF Recall, List
<1>4. ASSUME NEW c \in Calls, NEW s \in Sessions, NEW i \in Ids, Source(c, s, i) \/ Forget(c, s, i)
      PROVE  [Person!Next]_(Person!person)
  BY <1>1, <1>2, <1>4 DEF Source, Forget
<1>5. ASSUME NEW c \in Calls, Allow(c) PROVE Person!Next
  <2>1. Resolve(c, IF TRUE THEN call[c].members ELSE {}) /\ Answered(c, TRUE)
    BY <1>5 DEF Allow, ApprovedMembers
  <2> QED
    BY <1>5, <2>1, AnswersInConsent DEF Allow, Person!Next
<1>6. ASSUME NEW c \in Calls, Deny(c) PROVE Person!Next
  <2>1. Resolve(c, IF FALSE THEN call[c].members ELSE {}) /\ Answered(c, FALSE)
    BY <1>6 DEF Deny
  <2> QED
    BY <1>6, <2>1, AnswersInConsent DEF Deny, Person!Next
<1>7. ASSUME NEW c \in Calls, Return(c) PROVE Person!Next
  BY <1>7, ReadsInConsent DEF Person!Next
<1>8. ASSUME NEW w \in Checkouts, EditFile(w) \/ \E r \in Repos : MoveCheckout(w, r)
      PROVE  UNCHANGED Person!person
  BY <1>2, <1>8 DEF EditFile, MoveCheckout
<1>9. ASSUME (\E r \in Repos : CreateStore(r)) \/ (\E i \in Ids : LoseRow(i))
      PROVE  UNCHANGED Person!person
  BY <1>2, <1>9 DEF CreateStore, LoseRow
<1>10. CASE Restart
  <2>1. {s \in Sessions : cache'[s].state = "resolved"} = {}
    BY <1>10 DEF Restart, Unresolved
  <2>2. ScopeOf1(cache') = [s \in Sessions |-> {}]
    BY <1>10 DEF Restart, Unresolved, ScopeOf1
  <2>3. Person!Restart
    BY <1>10, <2>1, <2>2 DEF Restart, Person!Restart, ScopeOf1
  <2> QED
    BY <2>3 DEF Person!Next
<1>11. CASE UNCHANGED vars
  BY <1>2, <1>11 DEF vars
<1> QED
  BY <1>3, <1>4, <1>5, <1>6, <1>7, <1>8, <1>9, <1>10, <1>11 DEF Next, Operation

(* The promise every call of a session shares, the fingerprints and the     *)
(* remembered grants add up to a person who is asked once.                  *)
THEOREM ScopeImplemented == Spec => ScopeSpec
<1>1. Init => Person!Init
  <2> SUFFICES ASSUME Init PROVE Person!Init
    OBVIOUS
  <2>1. \A s \in Sessions : cache[s].state # "resolved"
    BY DEF Init, Unresolved
  <2>2. ScopeOf1(cache) = [s \in Sessions |-> {}]
    BY <2>1 DEF ScopeOf1
  <2> QED
    BY <2>1, <2>2 DEF Init, Person!Init, ScopeOf1
<1> QED
  BY <1>1, PersonStep, Invariance, PTL DEF Spec, ScopeSpec, Person!Spec
=============================================================================
