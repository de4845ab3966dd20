--------------------------- MODULE SessionSetProofs ---------------------------
(***************************************************************************)
(* A SessionManager, for any number of sessions, clients and restores, in    *)
(* two inductive invariants.  HoldInv says who is responsible for each       *)
(* process; ArrangeInv says what the order and the layout are made of, what  *)
(* clients wrote to them since the last restore began, and what that restore *)
(* has created.  Orders are compared through lists of the places a filter    *)
(* keeps, which between them determine what it gives.                        *)
(***************************************************************************)
EXTENDS SessionSet, FiniteSetTheorems, FunctionTheorems, NaturalsInduction,
        WellFoundedInduction, TLAPS

Hands == {"nobody", "creator", "closer", "reaper", "shutdown"}
Procs == {"unused", "forking", "running", "ending", "gone"}

HoldTypes ==
    /\ sessions \in SUBSET Ids
    /\ proc \in [Ids -> Procs]
    /\ hands \in [Ids -> Hands]
    /\ viewers \in SUBSET Ids /\ IsFiniteSet(viewers)
    /\ activeClients = Cardinality(viewers)

\* A session of the set runs and is nobody else's to close.
SetIsHeld == \A id \in sessions : proc[id] = "running" /\ hands[id] = "nobody"

\* What is being forked is in the hands of who forks it.
ForkingIsHeld == \A id \in Ids : proc[id] = "forking" => hands[id] = "creator"

\* A manager that was shut down has no sessions.
ClosedIsEmpty == closed => sessions = {}

\* The idle window has passed only for sessions that are older than it.
IdleIsOld == idle => young = {}

HoldInv ==
    /\ HoldTypes
    /\ SetIsHeld
    /\ ForkingIsHeld
    /\ ClosedIsEmpty
    /\ IdleIsOld
    /\ NothingStranded
    /\ ReaperSpares

LEMMA HoldInvInit == Init => HoldInv
<1> SUFFICES ASSUME Init PROVE HoldInv
  OBVIOUS
<1>1. IsFiniteSet({}) /\ Cardinality({}) = 0
  BY FS_EmptySet
<1> QED
  BY <1>1 DEF Init, HoldInv, HoldTypes, Hands, Procs, SetIsHeld, ForkingIsHeld, ClosedIsEmpty,
              IdleIsOld, NothingStranded, ReaperSpares

-----------------------------------------------------------------------------
(* The steps, by what they touch.                                            *)

\* A step that leaves the processes, the hands, the set and the clients alone.
LEMMA ArrangingStep ==
    ASSUME HoldInv,
           UNCHANGED <<sessions, closed, proc, hands, clientVars, reapVars>>
    PROVE  HoldInv'
BY DEF HoldInv, HoldTypes, SetIsHeld, ForkingIsHeld, ClosedIsEmpty, IdleIsOld, NothingStranded,
       ReaperSpares, clientVars, reapVars

\* A process nobody has in the set changes its state or its holder, and is not
\* dropped while it runs.
LEMMA HolderStep ==
    ASSUME HoldInv, NEW id \in Ids, NEW p \in Procs, NEW h \in Hands,
           id \notin sessions,
           p \in {"forking", "running"} => h # "nobody",
           p = "forking" => h = "creator",
           proc' = [proc EXCEPT ![id] = p],
           hands' = [hands EXCEPT ![id] = h],
           UNCHANGED <<sessions, closed, clientVars, reapVars>>
    PROVE  HoldInv'
BY DEF HoldInv, HoldTypes, SetIsHeld, ForkingIsHeld, ClosedIsEmpty, IdleIsOld, NothingStranded,
       ReaperSpares, clientVars, reapVars

\* A fork that is accepted enters the set of a manager that is open.
LEMMA InsertStep ==
    ASSUME HoldInv, NEW id \in Ids, Insert(id)
    PROVE  HoldInv'
<1> USE DEF HoldInv, Insert, Enter
<1>1. HoldTypes'
  BY DEF HoldTypes, Hands, Procs
<1>2. SetIsHeld' /\ ForkingIsHeld' /\ NothingStranded'
  BY DEF HoldTypes, SetIsHeld, ForkingIsHeld, NothingStranded
<1>3. ClosedIsEmpty' /\ IdleIsOld' /\ ReaperSpares'
  BY DEF ClosedIsEmpty, IdleIsOld, ReaperSpares
<1> QED BY <1>1, <1>2, <1>3

\* Close hands the session to its closer.
LEMMA CloseStep ==
    ASSUME HoldInv, NEW id \in Ids, Close(id)
    PROVE  HoldInv'
<1> USE DEF HoldInv, Close
<1>1. HoldTypes'
  BY DEF HoldTypes, Hands, clientVars
<1>2. SetIsHeld' /\ ForkingIsHeld' /\ NothingStranded'
  BY DEF HoldTypes, SetIsHeld, ForkingIsHeld, NothingStranded
<1>3. ClosedIsEmpty' /\ IdleIsOld' /\ ReaperSpares'
  BY DEF ClosedIsEmpty, IdleIsOld, ReaperSpares, clientVars
<1> QED BY <1>1, <1>2, <1>3

\* The reaper and Shutdown take the whole set into their hands.
LEMMA EmptyStep ==
    ASSUME HoldInv, NEW who \in Hands \ {"nobody"}, Empty(who), proc' = proc,
           UNCHANGED clientVars, regretted' = {}
    PROVE  HoldInv'
<1> USE DEF HoldInv, Empty
<1>1. HoldTypes'
  BY DEF HoldTypes, clientVars
<1>2. SetIsHeld' /\ ForkingIsHeld' /\ NothingStranded'
  BY DEF HoldTypes, SetIsHeld, ForkingIsHeld, NothingStranded
<1>3. ClosedIsEmpty' /\ IdleIsOld' /\ ReaperSpares'
  BY DEF ClosedIsEmpty, IdleIsOld, ReaperSpares, clientVars
<1> QED BY <1>1, <1>2, <1>3

\* With no client counted there is no viewer, and with the window passed no
\* session is young: the reaper has nothing to regret.
LEMMA ReapStep ==
    ASSUME HoldInv, Reap
    PROVE  HoldInv'
<1>1. viewers = {}
  BY FS_EmptySet DEF HoldInv, HoldTypes, Reap
<1>2. young = {} /\ regretted = {}
  BY DEF HoldInv, IdleIsOld, ReaperSpares, Reap
<1>3. regretted' = {}
  BY <1>1, <1>2 DEF Reap
<1> QED
  BY <1>3, EmptyStep DEF Reap, Hands, clientVars

\* Coming and going keep the count.
LEMMA PresenceStep ==
    ASSUME HoldInv, NEW id \in Ids, Attach(id) \/ Detach(id)
    PROVE  HoldInv'
<1>1. HoldTypes'
  <2>1. CASE Attach(id)
    BY <2>1, FS_AddElement DEF Attach, HoldInv, HoldTypes, arrangementVars
  <2>2. CASE Detach(id)
    <3>1. /\ IsFiniteSet(viewers \ {id})
          /\ Cardinality(viewers \ {id}) = Cardinality(viewers) - 1
      BY <2>2, FS_RemoveElement DEF Detach, HoldInv, HoldTypes
    <3> QED
      BY <2>2, <3>1 DEF Detach, HoldInv, HoldTypes, arrangementVars
  <2> QED BY <2>1, <2>2
<1>2. SetIsHeld' /\ ForkingIsHeld' /\ ClosedIsEmpty' /\ NothingStranded' /\ ReaperSpares'
  <2>1. UNCHANGED <<sessions, closed, proc, hands, regretted>>
    BY DEF Attach, Detach, arrangementVars, reapVars
  <2> QED
    BY <2>1 DEF HoldInv, SetIsHeld, ForkingIsHeld, ClosedIsEmpty, NothingStranded,
       ReaperSpares
<1>3. IdleIsOld'
  BY DEF Attach, Detach, HoldInv, IdleIsOld, reapVars
<1> QED BY <1>1, <1>2, <1>3 DEF HoldInv

LEMMA HoldInvStep == HoldInv /\ [Next]_vars => HoldInv'
<1> SUFFICES ASSUME HoldInv, [Next]_vars PROVE HoldInv'
  OBVIOUS
<1> USE DEF arrangementVars, restoreVars, writtenVars
<1>1. ASSUME NEW id \in Ids, ClientCreate(id) \/ RestoreCreate(id) PROVE HoldInv'
  <2>1. id \notin sessions
    BY <1>1 DEF ClientCreate, RestoreCreate, Mint, HoldInv, SetIsHeld
  <2> QED
    BY <1>1, <2>1, HolderStep DEF ClientCreate, RestoreCreate, Mint, Hands, Procs
<1>2. ASSUME NEW id \in Ids, StartFails(id) \/ InsertRefused(id) PROVE HoldInv'
  <2>1. id \notin sessions
    BY <1>2 DEF StartFails, InsertRefused, HoldInv, SetIsHeld
  <2>2. CASE StartFails(id)
    BY <2>1, <2>2, HolderStep DEF StartFails, Hands, Procs
  <2>3. CASE InsertRefused(id)
    BY <2>1, <2>3, HolderStep DEF InsertRefused, Hands, Procs
  <2> QED BY <1>2, <2>2, <2>3
<1>3. ASSUME NEW id \in Ids, CloseHandler(id) PROVE HoldInv'
  <2>1. id \notin sessions
    BY <1>3 DEF CloseHandler, HoldInv, SetIsHeld
  <2> QED BY <1>3, <2>1, HolderStep DEF CloseHandler, Hands, Procs
<1>4. ASSUME NEW id \in Ids, TeardownEnds(id) PROVE HoldInv'
  <2>1. id \notin sessions
    BY <1>4 DEF TeardownEnds, HoldInv, SetIsHeld
  <2>2. hands[id] \in Hands /\ hands' = [hands EXCEPT ![id] = hands[id]]
    BY <1>4 DEF TeardownEnds, HoldInv, HoldTypes
  <2> QED BY <1>4, <2>1, <2>2, HolderStep DEF TeardownEnds, Procs
<1>5. CASE Reap
  BY <1>5, ReapStep
<1>6. CASE Shutdown
  BY <1>6, EmptyStep DEF Shutdown, Hands, HoldInv, ReaperSpares
<1>7. CASE IdleWindowPasses
  BY <1>7 DEF IdleWindowPasses, HoldInv, HoldTypes, SetIsHeld, ForkingIsHeld, ClosedIsEmpty,
              IdleIsOld, NothingStranded, ReaperSpares
<1>8. CASE ShutdownReturns \/ ShutdownExpires
  BY <1>8, ArrangingStep DEF ShutdownReturns, ShutdownExpires
<1>9. ASSUME NEW ids, SetSessionOrder(ids) PROVE HoldInv'
  BY <1>9, ArrangingStep DEF SetSessionOrder
<1>10. ASSUME NEW l, SetPaneLayout(l) PROVE HoldInv'
  BY <1>10, ArrangingStep DEF SetPaneLayout
<1>11. ASSUME NEW n, NEW stored, RestoreBegins(n, stored) PROVE HoldInv'
  BY <1>11, ArrangingStep DEF RestoreBegins
<1>12. CASE RestoreSkip \/ RestoreApplies \/ RestoreReturns
  BY <1>12, ArrangingStep DEF RestoreSkip, RestoreApplies, RestoreReturns
<1>13. CASE UNCHANGED vars
  BY <1>13, ArrangingStep DEF vars
<1> QED
  BY <1>1, <1>2, <1>3, <1>4, <1>5, <1>6, <1>7, <1>8, <1>9, <1>10, <1>11, <1>12, <1>13,
     InsertStep, CloseStep, PresenceStep DEF Next, Carry

-----------------------------------------------------------------------------

\* HoldInv holds in every reachable state.
THEOREM HoldInvHolds == Spec => []HoldInv
BY HoldInvInit, HoldInvStep, PTL DEF Spec

\* No step of any client, restore, reaper or shutdown leaves a running process
\* to nobody.
THEOREM NoProcessIsStranded == Spec => []NothingStranded
<1>1. HoldInv => NothingStranded
  BY DEF HoldInv
<1> QED BY <1>1, HoldInvHolds, PTL

\* The reaper takes neither a watched session nor one younger than the window.
THEOREM ReaperSparesTheLiving == Spec => []ReaperSpares
<1>1. HoldInv => ReaperSpares
  BY DEF HoldInv
<1> QED BY <1>1, HoldInvHolds, PTL

\* Nothing enters the set of a manager after Shutdown emptied it.
THEOREM ShutDownStaysEmpty == Spec => []ClosedIsEmpty
<1>1. HoldInv => ClosedIsEmpty
  BY DEF HoldInv
<1> QED BY <1>1, HoldInvHolds, PTL

-----------------------------------------------------------------------------
(* Filtered sequences: a list of the places kept says what the filter gives. *)

\* A set of numbers that is not empty has a smallest one.
LEMMA Least ==
    ASSUME NEW T \in SUBSET Nat, T # {}
    PROVE  \E n \in T : \A k \in T : n <= k
<1> DEFINE Below == {p \in Nat \X Nat : p[1] < p[2]}
<1>1. IsWellFoundedOn(Below, Nat)
  BY NatLessThanWellFounded DEF OpToRel
<1> HIDE DEF Below
<1>2. PICK n \in T : \A k \in T : ~(<<k, n>> \in Below)
  BY <1>1, WFMin
<1>3. ASSUME NEW k \in T PROVE n <= k
  <2>1. ~(<<k, n>> \in Below)
    BY <1>2
  <2> QED
    BY <2>1 DEF Below
<1> QED BY <1>3

\* f lists the numbers of P in order; s is listed at those places as q.
Lists(f, m, P) ==
    /\ m \in Nat /\ f \in [1..m -> P]
    /\ \A x, y \in 1..m : x < y => f[x] < f[y]
    /\ \A i \in P : \E x \in 1..m : f[x] = i

LEMMA ListsExist ==
    ASSUME NEW n \in Nat, NEW P \in SUBSET (1..n)
    PROVE  \E m, f : Lists(f, m, P)
<1> DEFINE Listed(Q) == \E m, f : Lists(f, m, Q)
           T == {k \in Nat : \E Q \in SUBSET (1..k) : ~Listed(Q)}
<1>1. SUFFICES T = {}
  OBVIOUS
<1>2. SUFFICES ASSUME T # {} PROVE FALSE
  OBVIOUS
<1>3. T \in SUBSET Nat
  OBVIOUS
<1> HIDE DEF T, Listed
<1>4. PICK k \in T : \A j \in T : k <= j
  BY <1>2, <1>3, Least
<1>5. PICK Q \in SUBSET (1..k) : ~Listed(Q)
  BY <1>4 DEF T
<1>6. k \in Nat
  BY <1>3, <1>4
<1>7. CASE k = 0
  <2>1. Q = {} /\ 1..0 = {}
    BY <1>7, <1>5
  <2>2. Lists([x \in {} |-> 0], 0, Q)
    BY <2>1 DEF Lists
  <2> QED BY <2>2, <1>5 DEF Listed
<1>8. CASE k # 0
  <2>1. k - 1 \in Nat /\ ~(k - 1 \in T)
    BY <1>4, <1>6, <1>8
  <2> DEFINE R == Q \ {k}
  <2>2. R \in SUBSET (1..(k - 1))
    BY <1>5, <1>6
  <2>3. Listed(R)
    BY <2>1, <2>2 DEF T
  <2>4. PICK m, f : Lists(f, m, R)
    BY <2>3 DEF Listed
  <2>5. CASE k \notin Q
    <3>1. R = Q
      BY <2>5
    <3> QED BY <3>1, <2>4, <1>5 DEF Listed
  <2>6. CASE k \in Q
    <3> DEFINE g == [x \in 1..(m + 1) |-> IF x = m + 1 THEN k ELSE f[x]]
    <3>1. m \in Nat /\ f \in [1..m -> R] /\ \A x \in 1..m : f[x] \in R /\ f[x] \in Q /\ f[x] < k
      <4>1. m \in Nat /\ f \in [1..m -> R]
        BY <2>4 DEF Lists
      <4>2. \A i \in R : i \in Q /\ i < k
        BY <2>2, <1>6
      <4> QED BY <4>1, <4>2
    <3>2. g \in [1..(m + 1) -> Q]
      BY <3>1, <2>6
    <3>3. \A x, y \in 1..(m + 1) : x < y => g[x] < g[y]
      <4> SUFFICES ASSUME NEW x \in 1..(m + 1), NEW y \in 1..(m + 1), x < y
                   PROVE  g[x] < g[y]
        OBVIOUS
      <4>1. x \in 1..m /\ g[x] = f[x]
        BY <3>1
      <4>2. CASE y = m + 1
        BY <4>1, <4>2, <3>1
      <4>3. CASE y # m + 1
        <5>1. y \in 1..m /\ g[y] = f[y]
          BY <4>3, <3>1
        <5> QED BY <4>1, <5>1, <2>4 DEF Lists
      <4> QED BY <4>2, <4>3
    <3>4. \A i \in Q : \E x \in 1..(m + 1) : g[x] = i
      <4> SUFFICES ASSUME NEW i \in Q PROVE \E x \in 1..(m + 1) : g[x] = i
        OBVIOUS
      <4>1. CASE i = k
        BY <4>1, <3>1
      <4>2. CASE i # k
        <5>1. PICK x \in 1..m : f[x] = i
          BY <4>2, <2>4 DEF Lists
        <5>2. x \in 1..(m + 1) /\ x # m + 1
          BY <3>1
        <5> QED BY <5>1, <5>2
      <4> QED BY <4>1, <4>2
    <3>5. m + 1 \in Nat
      BY <3>1
    <3> HIDE DEF g
    <3>6. Lists(g, m + 1, Q)
      BY <3>2, <3>3, <3>4, <3>5 DEF Lists
    <3> QED BY <3>6, <1>5 DEF Listed
  <2> QED BY <2>5, <2>6
<1> QED BY <1>7, <1>8

\* In such a list a number's rank in P is its place in the list.
LEMMA ListedRank ==
    ASSUME NEW P \in SUBSET Int, NEW m, NEW f, Lists(f, m, P)
    PROVE  /\ Cardinality(P) = m
           /\ \A x \in 1..m : Cardinality(UpTo(P, f[x])) = x
           /\ \A x, y \in 1..m : f[x] = f[y] => x = y
<1>1. m \in Nat /\ f \in [1..m -> P] /\ \A x \in 1..m : f[x] \in Int
  BY DEF Lists
<1>2. \A x, y \in 1..m : f[x] = f[y] => x = y
  <2> SUFFICES ASSUME NEW x \in 1..m, NEW y \in 1..m, x # y PROVE f[x] # f[y]
    OBVIOUS
  <2>1. x < y \/ y < x
    OBVIOUS
  <2>2. f[x] < f[y] \/ f[y] < f[x]
    BY <2>1 DEF Lists
  <2> QED BY <2>2, <1>1
<1>3. ASSUME NEW k \in 0..m, NEW S, \A i : i \in S <=> \E x \in 1..k : f[x] = i
      PROVE  Cardinality(S) = k
  <2>1. k \in Int /\ 1 \in Int /\ k >= 0
    BY <1>1
  <2>2. IsFiniteSet(1..k) /\ Cardinality(1..k) = k
    BY <2>1, FS_Interval
  <2> DEFINE g == [x \in 1..k |-> f[x]]
  <2>3. g \in [1..k -> S]
    BY <1>3
  <2>4. \A x, y \in 1..k : g[x] = g[y] => x = y
    BY <1>1, <1>2
  <2>5. \A i \in S : \E x \in 1..k : g[x] = i
    BY <1>3
  <2> HIDE DEF g
  <2>6. g \in Bijection(1..k, S)
    BY <2>3, <2>4, <2>5, Fun_IsBij
  <2>7. ExistsBijection(1..k, S)
    BY <2>6 DEF ExistsBijection
  <2> QED BY <2>2, <2>7, FS_Bijection
<1>4. Cardinality(P) = m
  <2>1. \A i : i \in P <=> \E x \in 1..m : f[x] = i
    BY <1>1 DEF Lists
  <2>2. m \in 0..m
    BY <1>1
  <2> QED BY <2>1, <2>2, <1>3
<1>5. ASSUME NEW k \in 1..m PROVE Cardinality(UpTo(P, f[k])) = k
  <2>1. \A i : i \in UpTo(P, f[k]) <=> \E x \in 1..k : f[x] = i
    <3>1. ASSUME NEW i \in UpTo(P, f[k]) PROVE \E x \in 1..k : f[x] = i
      <4>1. i \in P /\ i <= f[k]
        BY DEF UpTo
      <4>2. PICK x \in 1..m : f[x] = i
        BY <4>1 DEF Lists
      <4>3. ~(k < x)
        <5>1. k < x => f[k] < f[x]
          BY DEF Lists
        <5> QED BY <5>1, <4>1, <4>2, <1>1
      <4>4. x \in 1..k
        BY <4>3, <1>1
      <4> QED BY <4>2, <4>4
    <3>2. ASSUME NEW x \in 1..k PROVE f[x] \in UpTo(P, f[k])
      <4>1. x \in 1..m /\ (x < k \/ x = k)
        BY <1>1
      <4>2. x < k => f[x] < f[k]
        BY <4>1 DEF Lists
      <4>3. f[x] <= f[k]
        BY <4>1, <4>2, <1>1
      <4> QED BY <4>1, <4>3, <1>1 DEF UpTo
    <3> QED BY <3>1, <3>2
  <2>2. k \in 0..m
    BY <1>1
  <2> QED BY <2>1, <2>2, <1>3
<1> QED BY <1>2, <1>4, <1>5

\* What filtering gives is what such a list of the places gives.
LEMMA FilterListed ==
    ASSUME NEW X, NEW s \in Seq(X), NEW S, NEW m, NEW f, Lists(f, m, PlacesOf(s, S))
    PROVE  /\ Filter(s, S) \in Seq(X) /\ Len(Filter(s, S)) = m
           /\ \A k \in 1..m : /\ f[k] \in 1..Len(s)
                              /\ Filter(s, S)[k] = s[f[k]] /\ s[f[k]] \in S
<1> DEFINE P == PlacesOf(s, S)
<1>1. P \in SUBSET (1..Len(s)) /\ P \in SUBSET Int /\ Len(s) \in Nat
  BY DEF PlacesOf
<1>2. m \in Nat /\ f \in [1..m -> P]
  BY DEF Lists
<1>3. ASSUME NEW k \in 1..m
      PROVE  (CHOOSE i \in P : Cardinality(UpTo(P, i)) = k) = f[k]
  <2>1. f[k] \in P /\ Cardinality(UpTo(P, f[k])) = k
    BY <1>1, <1>2, ListedRank
  <2>2. \A i \in P : Cardinality(UpTo(P, i)) = k => i = f[k]
    <3> SUFFICES ASSUME NEW i \in P, Cardinality(UpTo(P, i)) = k PROVE i = f[k]
      OBVIOUS
    <3>1. PICK x \in 1..m : f[x] = i
      BY DEF Lists
    <3>2. Cardinality(UpTo(P, f[x])) = x
      BY <1>1, ListedRank
    <3> QED BY <3>1, <3>2
  <2> HIDE DEF P
  <2> QED BY <2>1, <2>2
<1>4. Filter(s, S) = [k \in 1..m |-> s[f[k]]]
  <2>1. Cardinality(P) = m
    BY <1>1, ListedRank
  <2>2. Filter(s, S) = [k \in 1..m |-> s[CHOOSE i \in P : Cardinality(UpTo(P, i)) = k]]
    BY <2>1 DEF Filter
  <2> HIDE DEF P
  <2> QED BY <2>2, <1>3
<1>5. \A k \in 1..m : f[k] \in 1..Len(s) /\ s[f[k]] \in S /\ s[f[k]] \in X
  BY <1>1, <1>2 DEF PlacesOf
<1>6. Filter(s, S) \in [1..m -> X]
  BY <1>4, <1>5
<1>7. Filter(s, S) \in Seq(X) /\ Len(Filter(s, S)) = m
  BY <1>2, <1>6
<1> QED BY <1>4, <1>5, <1>7

LEMMA PlacesListed ==
    ASSUME NEW X, NEW s \in Seq(X), NEW S
    PROVE  \E m, f : Lists(f, m, PlacesOf(s, S))
<1>1. PlacesOf(s, S) \in SUBSET (1..Len(s)) /\ Len(s) \in Nat
  BY DEF PlacesOf
<1> QED BY <1>1, ListsExist

\* No member of S is in s twice.
OnceIn(s, S) == \A i, j \in DOMAIN s : s[i] \in S /\ s[i] = s[j] => i = j

\* The filtered sequence has the members of S, and none twice that was not.
LEMMA FilterHas ==
    ASSUME NEW X, NEW s \in Seq(X), NEW S
    PROVE  /\ Filter(s, S) \in Seq(X) /\ Filter(s, S) \in Seq(X \cap S)
           /\ Range(Filter(s, S)) = Range(s) \cap S
           /\ OnceIn(s, S) \/ IsInjective(s) => IsInjective(Filter(s, S))
<1>1. PICK m, f : Lists(f, m, PlacesOf(s, S))
  BY PlacesListed
<1> DEFINE q == Filter(s, S)
<1>2. /\ q \in Seq(X) /\ Len(q) = m
      /\ \A k \in 1..m : f[k] \in 1..Len(s) /\ q[k] = s[f[k]] /\ s[f[k]] \in S
  BY <1>1, FilterListed
<1> HIDE DEF q
<1>3. DOMAIN q = 1..m /\ DOMAIN s = 1..Len(s)
  BY <1>2
<1>4. Range(q) \subseteq Range(s) \cap S
  BY <1>2, <1>3 DEF Range
<1>5. Range(s) \cap S \subseteq Range(q)
  <2> SUFFICES ASSUME NEW i \in 1..Len(s), s[i] \in S PROVE s[i] \in Range(q)
    BY <1>3 DEF Range
  <2>1. i \in PlacesOf(s, S)
    BY <1>3 DEF PlacesOf
  <2>2. PICK k \in 1..m : f[k] = i
    BY <1>1, <2>1 DEF Lists
  <2> QED BY <1>2, <1>3, <2>2 DEF Range
<1>6. ASSUME OnceIn(s, S) \/ IsInjective(s) PROVE IsInjective(q)
  <2> SUFFICES ASSUME NEW a \in 1..m, NEW b \in 1..m, q[a] = q[b] PROVE a = b
    BY <1>3 DEF IsInjective
  <2>1. f[a] = f[b]
    BY <1>2, <1>3, <1>6 DEF IsInjective, OnceIn
  <2>2. PlacesOf(s, S) \in SUBSET Int
    BY <1>3 DEF PlacesOf
  <2> QED BY <1>1, <2>1, <2>2, ListedRank
<1>7. q \in Seq(X \cap S)
  <2>1. \A k \in 1..Len(q) : q[k] \in X \cap S
    BY <1>2
  <2> QED BY <1>2, <2>1
<1> QED BY <1>2, <1>4, <1>5, <1>6, <1>7 DEF q

\* Only the members of S that s has count.
LEMMA FilterAlike ==
    ASSUME NEW X, NEW s \in Seq(X), NEW S, NEW T, Range(s) \cap S = Range(s) \cap T
    PROVE  Filter(s, S) = Filter(s, T)
<1>1. PlacesOf(s, S) = PlacesOf(s, T)
  BY DEF PlacesOf, Range
<1> QED BY <1>1 DEF Filter

\* A sequence that is filtered to itself, or to nothing.
LEMMA FilterAll ==
    ASSUME NEW X, NEW s \in Seq(X), NEW S, Range(s) \subseteq S
    PROVE  Filter(s, S) = s
<1>1. Len(s) \in Nat /\ DOMAIN s = 1..Len(s)
  OBVIOUS
<1>2. PlacesOf(s, S) = 1..Len(s)
  BY <1>1 DEF PlacesOf, Range
<1> DEFINE f == [x \in 1..Len(s) |-> x]
<1>3. Lists(f, Len(s), PlacesOf(s, S))
  BY <1>1, <1>2 DEF Lists
<1>4. \A k \in 1..Len(s) : f[k] = k
  OBVIOUS
<1> HIDE DEF f
<1> DEFINE q == Filter(s, S)
<1>5. q \in Seq(X) /\ Len(q) = Len(s) /\ \A k \in 1..Len(s) : q[k] = s[k]
  BY <1>3, <1>4, FilterListed
<1> HIDE DEF q
<1> QED BY <1>5 DEF q

LEMMA FilterNone ==
    ASSUME NEW X, NEW s \in Seq(X), NEW S, Range(s) \cap S = {}
    PROVE  Filter(s, S) = <<>>
<1>1. Filter(s, S) \in Seq(X) /\ Range(Filter(s, S)) = {}
  BY FilterHas
<1> DEFINE q == Filter(s, S)
<1> HIDE DEF q
<1>2. q \in Seq(X) /\ Range(q) = {}
  BY <1>1 DEF q
<1>3. DOMAIN q = 1..Len(q) /\ Len(q) \in Nat /\ \A i \in DOMAIN q : q[i] \in Range(q)
  BY <1>2 DEF Range
<1>4. Len(q) = 0
  <2>1. 1 \notin 1..Len(q)
    BY <1>2, <1>3
  <2> QED BY <1>3, <2>1
<1> QED BY <1>2, <1>4 DEF q

\* Filtering twice is filtering once.
LEMMA FilterTwice ==
    ASSUME NEW X, NEW s \in Seq(X), NEW S, NEW T
    PROVE  Filter(Filter(s, S), T) = Filter(s, S \cap T)
<1> DEFINE q == Filter(s, S)
           r == Filter(q, T)
<1>1. PICK m, f : Lists(f, m, PlacesOf(s, S))
  BY PlacesListed
<1>2. /\ q \in Seq(X) /\ Len(q) = m
      /\ \A k \in 1..m : f[k] \in 1..Len(s) /\ q[k] = s[f[k]] /\ s[f[k]] \in S
  BY <1>1, FilterListed
<1> HIDE DEF q
<1>3. PICK n, g : Lists(g, n, PlacesOf(q, T))
  BY <1>2, PlacesListed
<1>4. /\ r \in Seq(X) /\ Len(r) = n
      /\ \A k \in 1..n : g[k] \in 1..m /\ r[k] = q[g[k]] /\ q[g[k]] \in T
  BY <1>2, <1>3, FilterListed
<1> HIDE DEF r
<1> DEFINE h == [k \in 1..n |-> f[g[k]]]
<1>5. DOMAIN s = 1..Len(s) /\ DOMAIN q = 1..m /\ Len(s) \in Nat /\ m \in Nat /\ n \in Nat
  BY <1>1, <1>2, <1>3 DEF Lists
<1>6. \A k \in 1..n : h[k] \in PlacesOf(s, S \cap T) /\ r[k] = s[h[k]]
  BY <1>2, <1>4, <1>5 DEF PlacesOf
<1>7. \A x, y \in 1..n : x < y => h[x] < h[y]
  <2> SUFFICES ASSUME NEW x \in 1..n, NEW y \in 1..n, x < y PROVE f[g[x]] < f[g[y]]
    OBVIOUS
  <2>1. g[x] \in 1..m /\ g[y] \in 1..m /\ g[x] < g[y]
    BY <1>3, <1>4 DEF Lists
  <2> QED BY <1>1, <2>1 DEF Lists
<1>8. \A i \in PlacesOf(s, S \cap T) : \E x \in 1..n : h[x] = i
  <2> SUFFICES ASSUME NEW i \in PlacesOf(s, S \cap T) PROVE \E x \in 1..n : f[g[x]] = i
    OBVIOUS
  <2>1. i \in PlacesOf(s, S) /\ s[i] \in T
    BY DEF PlacesOf
  <2>2. PICK k \in 1..m : f[k] = i
    BY <1>1, <2>1 DEF Lists
  <2>3. k \in PlacesOf(q, T)
    BY <1>2, <1>5, <2>1, <2>2 DEF PlacesOf
  <2>4. PICK x \in 1..n : g[x] = k
    BY <1>3, <2>3 DEF Lists
  <2> QED BY <2>2, <2>4
<1>9. Lists(h, n, PlacesOf(s, S \cap T))
  <2>1. h \in [1..n -> PlacesOf(s, S \cap T)]
    BY <1>6
  <2> HIDE DEF h
  <2> QED BY <1>5, <1>7, <1>8, <2>1 DEF Lists
<1> HIDE DEF h
<1> DEFINE U == S \cap T
           w == Filter(s, U)
<1> HIDE DEF U
<1>10. w \in Seq(X) /\ Len(w) = n /\ \A k \in 1..n : w[k] = s[h[k]]
  <2>1. Lists(h, n, PlacesOf(s, U))
    BY <1>9 DEF U
  <2> QED BY <2>1, FilterListed
<1> HIDE DEF w
<1>11. w = r
  BY <1>4, <1>6, <1>10
<1> QED BY <1>11 DEF w, r, q, U

\* A newcomer that does not count.
LEMMA FilterAppended ==
    ASSUME NEW X, NEW s \in Seq(X), NEW e \in X, NEW S, e \notin S
    PROVE  Filter(Append(s, e), S) = Filter(s, S)
<1> DEFINE t == Append(s, e)
<1>1. t \in Seq(X) /\ Len(s) \in Nat /\ DOMAIN s = 1..Len(s) /\ DOMAIN t = 1..(Len(s) + 1)
  OBVIOUS
<1>2. t[Len(s) + 1] = e /\ \A i \in 1..Len(s) : t[i] = s[i]
  OBVIOUS
<1> HIDE DEF t
<1>3. PlacesOf(t, S) = PlacesOf(s, S)
  BY <1>1, <1>2 DEF PlacesOf
<1>4. PICK m, f : Lists(f, m, PlacesOf(s, S))
  BY PlacesListed
<1> DEFINE q == Filter(s, S)
           r == Filter(t, S)
<1>5. q \in Seq(X) /\ Len(q) = m /\ \A k \in 1..m : f[k] \in 1..Len(s) /\ q[k] = s[f[k]]
  BY <1>4, FilterListed
<1>6. r \in Seq(X) /\ Len(r) = m /\ \A k \in 1..m : r[k] = t[f[k]]
  BY <1>1, <1>3, <1>4, FilterListed
<1> HIDE DEF q, r
<1>7. q = r
  BY <1>2, <1>5, <1>6
<1> QED BY <1>7 DEF q, r, t

\* What comes first stays first.
LEMMA FilterKeepsFirst ==
    ASSUME NEW X, NEW s \in Seq(X), NEW S, NEW n \in 0..Len(s),
           \A k \in 1..n : s[k] \in S
    PROVE  /\ n <= Len(Filter(s, S))
           /\ \A k \in 1..n : Filter(s, S)[k] = s[k]
<1>1. PICK m, f : Lists(f, m, PlacesOf(s, S))
  BY PlacesListed
<1> DEFINE q == Filter(s, S)
           P == PlacesOf(s, S)
<1>2. q \in Seq(X) /\ Len(q) = m /\ \A k \in 1..m : q[k] = s[f[k]]
  BY <1>1, FilterListed
<1> HIDE DEF q
<1>3. Len(s) \in Nat /\ DOMAIN s = 1..Len(s) /\ P \in SUBSET (1..Len(s)) /\ P \in SUBSET Int
  BY DEF PlacesOf
<1>4. ASSUME NEW k \in 1..n PROVE k \in 1..m /\ f[k] = k
  <2>1. \A j \in 1..k : j \in P
    BY <1>3 DEF PlacesOf
  <2>2. UpTo(P, k) = 1..k
    BY <1>3, <2>1 DEF UpTo
  <2>3. Cardinality(UpTo(P, k)) = k
    BY <2>2, FS_Interval
  <2>4. PICK x \in 1..m : f[x] = k
    BY <1>1, <2>1 DEF Lists
  <2>5. Cardinality(UpTo(P, f[x])) = x
    BY <1>1, <1>3, ListedRank
  <2> QED BY <2>3, <2>4, <2>5
<1>5. n <= m
  <2>1. m \in Nat
    BY <1>1 DEF Lists
  <2>2. CASE n = 0
    BY <2>1, <2>2
  <2>3. CASE n # 0
    <3>1. n \in 1..n
      BY <2>3
    <3> QED BY <3>1, <1>4
  <2> QED BY <2>2, <2>3
<1> QED BY <1>2, <1>4, <1>5 DEF q

-----------------------------------------------------------------------------
(* Sequences without repetition.                                             *)

LEMMA ConcatOnce ==
    ASSUME NEW X, NEW s \in Seq(X), NEW t \in Seq(X)
    PROVE  /\ s \o t \in Seq(X) /\ Range(s \o t) = Range(s) \cup Range(t)
           /\ IsInjective(s) /\ IsInjective(t) /\ Range(s) \cap Range(t) = {}
                => IsInjective(s \o t)
           /\ \A n \in 0..Len(s) : n = Len(s) => SubSeq(s \o t, 1, n) = s
<1> DEFINE q == s \o t
<1>1. /\ q \in Seq(X) /\ Len(q) = Len(s) + Len(t)
      /\ \A i \in 1..Len(s) : q[i] = s[i]
      /\ \A i \in 1..Len(t) : q[Len(s) + i] = t[i]
  OBVIOUS
<1>2. /\ Len(s) \in Nat /\ Len(t) \in Nat /\ DOMAIN s = 1..Len(s) /\ DOMAIN t = 1..Len(t)
      /\ DOMAIN q = 1..(Len(s) + Len(t))
  BY <1>1
<1>3. SubSeq(q, 1, Len(s)) = s
  OBVIOUS
<1> HIDE DEF q
<1>4. ASSUME NEW i \in 1..(Len(s) + Len(t)), ~(i \in 1..Len(s))
      PROVE  i - Len(s) \in 1..Len(t) /\ q[i] = t[i - Len(s)]
  <2>1. i - Len(s) \in 1..Len(t) /\ Len(s) + (i - Len(s)) = i
    BY <1>2, <1>4
  <2> QED BY <2>1, <1>1
<1>5. Range(q) \subseteq Range(s) \cup Range(t)
  BY <1>1, <1>2, <1>4 DEF Range
<1>6. Range(s) \cup Range(t) \subseteq Range(q)
  <2>1. \A i \in 1..Len(s) : i \in DOMAIN q /\ q[i] = s[i]
    BY <1>1, <1>2
  <2>2. \A i \in 1..Len(t) : Len(s) + i \in DOMAIN q /\ q[Len(s) + i] = t[i]
    BY <1>1, <1>2
  <2> QED BY <1>2, <2>1, <2>2 DEF Range
<1>7. ASSUME IsInjective(s), IsInjective(t), Range(s) \cap Range(t) = {}
      PROVE  IsInjective(q)
  <2> SUFFICES ASSUME NEW i \in DOMAIN q, NEW j \in DOMAIN q, q[i] = q[j] PROVE i = j
    BY DEF IsInjective
  <2>1. \A k \in DOMAIN q : \/ k \in 1..Len(s) /\ q[k] = s[k] /\ s[k] \in Range(s)
                            \/ /\ k \notin 1..Len(s) /\ k - Len(s) \in 1..Len(t)
                               /\ q[k] = t[k - Len(s)] /\ t[k - Len(s)] \in Range(t)
    BY <1>1, <1>2, <1>4 DEF Range
  <2>2. CASE i \in 1..Len(s)
    BY <2>1, <2>2, <1>2, <1>7 DEF IsInjective
  <2>3. CASE i \notin 1..Len(s)
    <3>1. /\ i - Len(s) \in 1..Len(t) /\ j - Len(s) \in 1..Len(t)
          /\ t[i - Len(s)] = t[j - Len(s)]
      BY <2>1, <2>3, <1>7
    <3>2. i - Len(s) = j - Len(s)
      BY <3>1, <1>2, <1>7 DEF IsInjective
    <3> QED BY <3>2, <1>2
  <2> QED BY <2>2, <2>3
<1> QED BY <1>1, <1>3, <1>5, <1>6, <1>7 DEF q

LEMMA AppendOnce ==
    ASSUME NEW X, NEW s \in Seq(X), NEW e \in X
    PROVE  /\ Append(s, e) \in Seq(X) /\ Range(Append(s, e)) = Range(s) \cup {e}
           /\ IsInjective(s) /\ e \notin Range(s) => IsInjective(Append(s, e))
           /\ \A n \in 0..Len(s) : SubSeq(Append(s, e), 1, n) = SubSeq(s, 1, n)
<1>1. Len(s) \in Nat /\ DOMAIN s = 1..Len(s) /\ DOMAIN Append(s, e) = 1..(Len(s) + 1)
  OBVIOUS
<1>2. \A i \in 1..Len(s) : Append(s, e)[i] = s[i]
  OBVIOUS
<1>3. Append(s, e)[Len(s) + 1] = e /\ Append(s, e) \in Seq(X)
  OBVIOUS
<1>4. Range(Append(s, e)) = Range(s) \cup {e}
  BY <1>1, <1>2, <1>3 DEF Range
<1>5. IsInjective(s) /\ e \notin Range(s) => IsInjective(Append(s, e))
  BY <1>1, <1>2, <1>3 DEF Range, IsInjective
<1>6. \A n \in 0..Len(s) : SubSeq(Append(s, e), 1, n) = SubSeq(s, 1, n)
  OBVIOUS
<1> QED BY <1>3, <1>4, <1>5, <1>6

-----------------------------------------------------------------------------
(* Layouts.                                                                  *)

\* normalizeSetLayout makes every layout fit the ids it is given.
LEMMA NormalizedFits ==
    ASSUME NEW l \in LayoutOf(Ids), l.left = None \/ l.left # l.right, NEW ids \in Seq(Ids)
    PROVE  LET n == NormalizedPanes(l, ids)
           IN  /\ n \in LayoutOf(Ids) /\ ValidShape(n) /\ Panes(n) \subseteq Range(ids)
               /\ ids # <<>> => Shown(n, n.selected) # None
               /\ ids = <<>> => n = DefaultLayout
<1> DEFINE e == Emptied(l, Range(ids))
<1>1. /\ e \in LayoutOf(Ids) /\ {e.left, e.right} \subseteq Range(ids) \cup {None}
      /\ e.left = None \/ e.left # e.right
  BY DEF Emptied, LayoutOf
<1> HIDE DEF e
<1>2. None \notin Ids /\ (ids # <<>> => ids[1] \in Range(ids) /\ ids[1] \in Ids)
  BY NoneAssumption DEF Range
<1>3. CASE ids = <<>>
  <2>1. NormalizedPanes(l, ids) = DefaultLayout
    BY <1>3 DEF NormalizedPanes, Normalized
  <2> QED BY <2>1, <1>3 DEF DefaultLayout, LayoutOf, Sides, ValidShape, Panes, Shown, Other
<1>4. CASE ids # <<>>
  <2> DEFINE shut == IF e.open THEN e ELSE [e EXCEPT !.right = None, !.selected = "left"]
  <2>1. /\ shut \in LayoutOf(Ids) /\ {shut.left, shut.right} \subseteq Range(ids) \cup {None}
        /\ shut.left = None \/ shut.left # shut.right
        /\ shut.open \/ (shut.right = None /\ shut.selected = "left")
    BY <1>1 DEF LayoutOf, Sides
  <2> HIDE DEF shut
  <2> DEFINE moved == IF Shown(shut, shut.selected) = None /\ Panes(shut) # {}
                      THEN [shut EXCEPT !.selected = Other(@)] ELSE shut
  <2>2. /\ moved \in LayoutOf(Ids) /\ {moved.left, moved.right} \subseteq Range(ids) \cup {None}
        /\ moved.left = None \/ moved.left # moved.right
        /\ moved.open \/ (moved.right = None /\ moved.selected = "left")
        /\ Panes(moved) # {} => Shown(moved, moved.selected) # None
    BY <2>1 DEF LayoutOf, Sides, Shown, Panes, Other
  <2>3. NormalizedPanes(l, ids) =
            IF Panes(moved) # {} THEN moved
            ELSE IF moved.selected = "left" THEN [moved EXCEPT !.left = ids[1]]
            ELSE [moved EXCEPT !.right = ids[1]]
    BY <1>4 DEF NormalizedPanes, Normalized, shut, e
  <2> HIDE DEF moved
  <2>4. CASE Panes(moved) # {}
    BY <1>4, <2>2, <2>3, <2>4 DEF ValidShape, Panes, Shown
  <2>5. CASE Panes(moved) = {} /\ moved.selected = "left"
    BY <1>2, <1>4, <2>2, <2>3, <2>5 DEF ValidShape, Panes, Shown, LayoutOf, Sides, Other
  <2>6. CASE Panes(moved) = {} /\ moved.selected # "left"
    BY <1>2, <1>4, <2>2, <2>3, <2>6 DEF ValidShape, Panes, Shown, LayoutOf, Sides, Other
  <2> QED BY <2>4, <2>5, <2>6
<1> QED BY <1>3, <1>4

\* And leaves alone what fits and shows somebody.
LEMMA NormalizedKeeps ==
    ASSUME NEW l \in LayoutOf(Ids), ValidShape(l), NEW ids \in Seq(Ids),
           Panes(l) # {}, Panes(l) \subseteq Range(ids)
    PROVE  NormalizedPanes(l, ids) = l
<1>1. Emptied(l, Range(ids)) = l
  BY DEF Emptied, LayoutOf, Panes
<1>2. ids # <<>>
  BY DEF Range
<1>3. (IF l.open THEN l ELSE [l EXCEPT !.right = None, !.selected = "left"]) = l
  BY DEF LayoutOf, ValidShape
<1>4. Shown(l, l.selected) # None
  BY DEF ValidShape, Panes, Shown, Other, LayoutOf, Sides
<1> QED BY <1>1, <1>2, <1>3, <1>4 DEF NormalizedPanes, Normalized

-----------------------------------------------------------------------------
(* The arrangement.                                                          *)

\* The process of a session that is or was in the set, or was refused.
Started(id) == proc[id] \in {"running", "ending", "gone"}

\* A restore: the sessions it created are started, each stands for one entry, and
\* the one under way takes the place of the next entry.
RestoreInv ==
    /\ restore \in [phase : {"none", "creating", "applied"}, stored : LayoutOf(Nat),
                    created : Seq(Ids \cup {None}), cur : Ids \cup {None}, size : Nat]
    /\ ValidShape(restore.stored)
    /\ restore.cur # None =>
          /\ restore.phase = "creating" /\ proc[restore.cur] = "forking"
          /\ Len(restore.created) < restore.size
    /\ \A i \in DOMAIN restore.created :
          restore.created[i] # None => Started(restore.created[i])
    /\ OnceIn(restore.created, Ids)

\* What clients wrote since the last restore began, and about whom.
WrittenInv ==
    /\ arranged # <<>> => orderWritten
    /\ chosen # DefaultLayout => layoutWritten
    /\ restore.phase = "none" => arranged = <<>> /\ chosen = DefaultLayout
    /\ \A id \in Range(arranged) \cup Panes(chosen) : Started(id)

\* RestoreRebuilds, place by place.
Undisturbed ==
    /\ restore.phase = "applied" /\ Len(restore.created) = restore.size
    /\ Range(restore.created) \subseteq sessions
    /\ ~orderWritten /\ ~layoutWritten
Rebuilt ==
    Undisturbed =>
        /\ restore.size <= Len(order)
        /\ \A k \in 1..restore.size : order[k] = restore.created[k]
        /\ Panes(restore.stored) # {} => layout = RestoredLayout

ArrangeInv ==
    /\ TypeOK /\ OrderIsLiveSet /\ LayoutShowsLive
    /\ RestoreInv /\ WrittenInv
    /\ ClientsPrevail /\ Rebuilt

\* The types in three parts: what a step of the clients, the restore and the rest
\* may change.
OthersTyped ==
    /\ closed \in BOOLEAN
    /\ proc \in [Ids -> {"unused", "forking", "running", "ending", "gone"}]
    /\ hands \in [Ids -> {"nobody", "creator", "closer", "reaper", "shutdown"}]
    /\ activeClients \in Nat /\ viewers \in SUBSET Ids /\ idle \in BOOLEAN
    /\ shutdown \in [phase : {"no", "waiting", "returned", "expired"}, victims : SUBSET Ids]
    /\ young \in SUBSET Ids /\ regretted \in SUBSET Ids
ArrangementTyped ==
    /\ sessions \in SUBSET Ids /\ order \in Seq(Ids) /\ layout \in LayoutOf(Ids)
    /\ orderWritten \in BOOLEAN /\ layoutWritten \in BOOLEAN
    /\ arranged \in Seq(Ids) /\ chosen \in LayoutOf(Ids)
RestoreTyped ==
    /\ restoring \in BOOLEAN
    /\ restore.phase \in {"none", "creating", "applied"}
    /\ restore.stored \in LayoutOf(1..restore.size)
    /\ restore.created \in Seq(Ids \cup {None}) /\ Len(restore.created) <= restore.size
    /\ restore.cur \in Ids \cup {None}

LEMMA TypedInParts ==
    /\ TypeOK <=> OthersTyped /\ ArrangementTyped /\ RestoreTyped
    /\ TypeOK' <=> OthersTyped' /\ ArrangementTyped' /\ RestoreTyped'
BY DEF TypeOK, OthersTyped, ArrangementTyped, RestoreTyped

LEMMA ArrangeInit == Init => ArrangeInv
<1> SUFFICES ASSUME Init PROVE ArrangeInv
  OBVIOUS
<1>1. /\ <<>> \in Seq(Ids) /\ <<>> \in Seq(Ids \cup {None}) /\ Range(<<>>) = {} /\ Len(<<>>) = 0
      /\ DOMAIN <<>> = {} /\ IsInjective(<<>>)
  BY DEF Range, IsInjective
<1>2. /\ \A S : DefaultLayout \in LayoutOf(S)
      /\ Panes(DefaultLayout) = {} /\ ValidShape(DefaultLayout)
  BY DEF DefaultLayout, LayoutOf, Sides, Panes, ValidShape, Shown, Other
<1>3. OthersTyped /\ ArrangementTyped /\ RestoreTyped
  <2>1. OthersTyped
    BY DEF Init, OthersTyped
  <2>2. ArrangementTyped
    BY <1>1, <1>2 DEF Init, ArrangementTyped
  <2>3. RestoreTyped
    <3>1. /\ restore.phase = "none" /\ restore.stored = DefaultLayout /\ restore.size = 0
          /\ restore.created = <<>> /\ restore.cur = None /\ restoring = FALSE
      BY DEF Init, NoRestore
    <3>2. DefaultLayout \in LayoutOf(1..restore.size)
      BY <1>2
    <3>3. restore.created \in Seq(Ids \cup {None}) /\ Len(restore.created) = 0 /\ 0 <= 0
      BY <1>1, <3>1
    <3>4. restore.stored \in LayoutOf(1..restore.size)
      BY <3>1, <3>2
    <3> QED BY <3>1, <3>3, <3>4 DEF RestoreTyped
  <2> QED BY <2>1, <2>2, <2>3
<1>4. OrderIsLiveSet /\ LayoutShowsLive
  BY <1>1, <1>2 DEF Init, OrderIsLiveSet, LayoutShowsLive, LayoutFits
<1>5. RestoreInv /\ WrittenInv
  BY <1>1, <1>2 DEF Init, RestoreInv, WrittenInv, NoRestore, OnceIn
<1>6. ClientsPrevail /\ Rebuilt
  <2>1. ClientOrderStands
    BY <1>1, FilterAll DEF Init, ClientOrderStands
  <2> QED BY <1>2, <2>1 DEF Init, ClientsPrevail, ClientLayoutStands, Rebuilt, Undisturbed, NoRestore
<1> QED BY <1>3, <1>4, <1>5, <1>6, TypedInParts DEF ArrangeInv

-----------------------------------------------------------------------------
(* Steps that leave the arrangement alone.                                   *)

\* What the arrangement is made of stays, and so do its properties.
LEMMA Unarranged ==
    ASSUME ArrangeInv, UNCHANGED <<arrangementVars, writtenVars>>,
           \/ restore'.phase = "creating"
           \/ UNCHANGED restore
    PROVE  /\ ArrangementTyped' /\ OrderIsLiveSet' /\ LayoutShowsLive'
           /\ ClientsPrevail' /\ Rebuilt'
<1>1. ArrangementTyped' /\ OrderIsLiveSet' /\ LayoutShowsLive'
  BY TypedInParts DEF ArrangeInv, ArrangementTyped, arrangementVars, writtenVars, OrderIsLiveSet,
     LayoutShowsLive, LayoutFits
<1>2. ClientsPrevail'
  BY DEF ArrangeInv, arrangementVars, writtenVars, ClientsPrevail, ClientOrderStands,
     ClientLayoutStands
<1>3. CASE restore'.phase = "creating"
  BY <1>1, <1>2, <1>3 DEF Rebuilt, Undisturbed
<1>4. CASE UNCHANGED restore
  BY <1>1, <1>2, <1>4 DEF ArrangeInv, arrangementVars, writtenVars, Rebuilt, Undisturbed,
     RestoredLayout, Replaced
<1> QED BY <1>3, <1>4

\* Processes only go on, and the one being forked for a restore is forked until
\* the restore is answered.
LEMMA QuietStep ==
    ASSUME ArrangeInv, OthersTyped', restoring' \in BOOLEAN,
           UNCHANGED <<arrangementVars, writtenVars, restore>>,
           \A id \in Ids : Started(id) => Started(id)',
           restore.cur # None => proc'[restore.cur] = proc[restore.cur]
    PROVE  ArrangeInv'
<1>1. /\ ArrangementTyped' /\ OrderIsLiveSet' /\ LayoutShowsLive'
      /\ ClientsPrevail' /\ Rebuilt'
  BY Unarranged
<1>2. RestoreTyped'
  BY TypedInParts DEF ArrangeInv, RestoreTyped
<1>3. RestoreInv'
  BY DEF ArrangeInv, RestoreInv
<1>4. WrittenInv'
  BY NoneAssumption DEF ArrangeInv, WrittenInv, writtenVars, Range, TypeOK, Panes, LayoutOf
<1> QED BY <1>1, <1>2, <1>3, <1>4, TypedInParts DEF ArrangeInv

\* The restore gets its answer about an entry: the session it was waiting for, or
\* that there is none.
LEMMA AnswerStep ==
    ASSUME ArrangeInv, NEW answer \in Ids \cup {None}, restoring' = restoring,
           restore.phase = "creating", Len(restore.created) < restore.size,
           restore' = [restore EXCEPT !.cur = None, !.created = Append(@, answer)],
           \A id \in Ids : Started(id) => Started(id)',
           answer # None => ~Started(answer) /\ proc'[answer] = "running"
    PROVE  RestoreTyped' /\ RestoreInv' /\ restore'.phase = "creating"
<1>0. restore.created \in Seq(Ids \cup {None}) /\ restore.size \in Nat
  BY DEF ArrangeInv, RestoreInv
<1>1. /\ restore'.phase = "creating" /\ restore'.stored = restore.stored
      /\ restore'.size = restore.size /\ restore'.cur = None
      /\ restore'.created = Append(restore.created, answer)
      /\ restore' \in [phase : {"none", "creating", "applied"}, stored : LayoutOf(Nat),
                    created : Seq(Ids \cup {None}), cur : Ids \cup {None}, size : Nat]
  <2>1. Append(restore.created, answer) \in Seq(Ids \cup {None})
    BY <1>0
  <2> DEFINE c == Append(restore.created, answer)
  <2>2. c \in Seq(Ids \cup {None})
    BY <2>1
  <2>3. restore' = [restore EXCEPT !.cur = None, !.created = c]
    OBVIOUS
  <2>4. restore'.created = c
    BY <2>3 DEF ArrangeInv, RestoreInv
  <2> HIDE DEF c
  <2>5. /\ restore'.phase = "creating" /\ restore'.stored = restore.stored
        /\ restore'.size = restore.size /\ restore'.cur = None
        /\ restore' \in [phase : {"none", "creating", "applied"}, stored : LayoutOf(Nat),
                    created : Seq(Ids \cup {None}), cur : Ids \cup {None}, size : Nat]
    BY <2>2, <2>3 DEF ArrangeInv, RestoreInv
  <2> QED BY <2>4, <2>5 DEF c
<1>2. /\ restore'.created \in Seq(Ids \cup {None})
      /\ Len(restore'.created) = Len(restore.created) + 1
      /\ DOMAIN restore.created = 1..Len(restore.created)
      /\ DOMAIN restore'.created = 1..(Len(restore.created) + 1)
      /\ \A i \in 1..Len(restore.created) : restore'.created[i] = restore.created[i]
      /\ restore'.created[Len(restore.created) + 1] = answer
  BY <1>0, <1>1
<1>3. RestoreTyped'
  BY <1>0, <1>1, <1>2, TypedInParts DEF ArrangeInv, RestoreTyped
<1>4. \A i \in 1..Len(restore.created) :
        restore.created[i] # None => restore.created[i] \in Ids /\ Started(restore.created[i])
  BY <1>0, <1>2 DEF ArrangeInv, RestoreInv
<1>5. OnceIn(restore'.created, Ids)
  <2> SUFFICES ASSUME NEW i \in DOMAIN restore'.created, NEW j \in DOMAIN restore'.created,
                      restore'.created[i] \in Ids, restore'.created[i] = restore'.created[j]
               PROVE  i = j
    BY DEF OnceIn
  <2>1. restore'.created[i] # None
    BY NoneAssumption
  <2>2. CASE i \in 1..Len(restore.created) /\ j \in 1..Len(restore.created)
    BY <1>2, <2>2 DEF ArrangeInv, RestoreInv, OnceIn
  <2>3. CASE ~(i \in 1..Len(restore.created) /\ j \in 1..Len(restore.created))
    BY <1>2, <1>4, <2>1, <2>3
  <2> QED BY <2>2, <2>3
<1>6. (\A i \in DOMAIN restore.created : restore.created[i] # None => Started(restore.created[i]))'
  <2> SUFFICES ASSUME NEW i \in DOMAIN restore'.created, restore'.created[i] # None
               PROVE  proc'[restore'.created[i]] \in {"running", "ending", "gone"}
    BY DEF Started
  <2>1. CASE i \in 1..Len(restore.created)
    BY <1>2, <1>4, <2>1 DEF Started
  <2>2. CASE i \notin 1..Len(restore.created)
    BY <1>2, <2>2
  <2> QED BY <2>1, <2>2
<1>7. RestoreInv'
  BY <1>1, <1>5, <1>6 DEF ArrangeInv, RestoreInv
<1> QED BY <1>1, <1>3, <1>7

\* What the clients wrote speaks of the same sessions.
LEMMA WrittenStep ==
    ASSUME ArrangeInv, UNCHANGED writtenVars,
           restore'.phase = "none" => restore.phase = "none",
           \A id \in Ids : Started(id) => Started(id)'
    PROVE  WrittenInv'
BY NoneAssumption DEF ArrangeInv, WrittenInv, writtenVars, Range, TypeOK, Panes, LayoutOf

\* A session was refused or could not be started, or the plan skips the entry.
LEMMA EntryStep ==
    ASSUME ArrangeInv, OthersTyped', restoring' = restoring,
           UNCHANGED <<arrangementVars, writtenVars>>,
           restore.phase = "creating", Len(restore.created) < restore.size,
           restore' = [restore EXCEPT !.cur = None, !.created = Append(@, None)],
           \A id \in Ids : Started(id) => Started(id)'
    PROVE  ArrangeInv'
<1>1. RestoreTyped' /\ RestoreInv' /\ restore'.phase = "creating"
  BY AnswerStep
<1>2. /\ ArrangementTyped' /\ OrderIsLiveSet' /\ LayoutShowsLive'
      /\ ClientsPrevail' /\ Rebuilt'
  BY <1>1, Unarranged
<1>3. WrittenInv'
  BY <1>1, WrittenStep
<1> QED BY <1>1, <1>2, <1>3, TypedInParts DEF ArrangeInv

-----------------------------------------------------------------------------
(* Steps that arrange.                                                       *)

\* Every session of the set is started.
LEMMA LiveAreStarted ==
    ASSUME HoldInv PROVE \A id \in sessions : id \in Ids /\ Started(id)
BY DEF HoldInv, HoldTypes, SetIsHeld, Started

\* The stored layout with sessions for indices: two panes show two sessions, and
\* when every entry has a session, what was stored is what it shows.
LEMMA RestoredLayoutFits ==
    ASSUME ArrangeInv
    PROVE  /\ RestoredLayout \in LayoutOf(Ids)
           /\ RestoredLayout.left = None \/ RestoredLayout.left # RestoredLayout.right
           /\ Range(restore.created) \subseteq Ids /\ Len(restore.created) = restore.size =>
                /\ ValidShape(RestoredLayout) /\ Panes(RestoredLayout) \subseteq Range(restore.created)
                /\ Panes(restore.stored) # {} => Panes(RestoredLayout) # {}
<1> DEFINE c == restore.created
           t == restore.stored
<1>1. /\ c \in Seq(Ids \cup {None}) /\ DOMAIN c = 1..Len(c) /\ OnceIn(c, Ids)
      /\ restore.size \in Nat
  BY DEF ArrangeInv, RestoreInv
<1>2. t \in LayoutOf(1..restore.size) /\ ValidShape(t)
  BY DEF ArrangeInv, RestoreInv, TypeOK
<1>3. RestoredLayout = [left |-> Replaced(t.left), right |-> Replaced(t.right),
                        selected |-> t.selected, open |-> t.open]
  <2>1. RestoredLayout = [t EXCEPT !.left = Replaced(t.left), !.right = Replaced(t.right)]
    BY DEF RestoredLayout
  <2> HIDE DEF t
  <2> QED BY <1>2, <2>1 DEF LayoutOf
<1>4. \A i : /\ Replaced(i) \in Ids \cup {None}
             /\ Replaced(i) = IF i # None /\ i \in DOMAIN c THEN c[i] ELSE None
             /\ Replaced(i) # None => Replaced(i) \in Range(c) /\ i # None
  BY <1>1 DEF Replaced, Range
<1>5. Replaced(t.left) = None \/ Replaced(t.left) # Replaced(t.right)
  BY <1>1, <1>2, <1>4 DEF OnceIn, ValidShape
<1>6. ASSUME Range(c) \subseteq Ids, Len(c) = restore.size
      PROVE  \A i \in (1..restore.size) \cup {None} : Replaced(i) = None <=> i = None
  BY <1>1, <1>4, <1>6, NoneAssumption DEF Range
<1> HIDE DEF c, t
<1>7. RestoredLayout \in LayoutOf(Ids)
  BY <1>2, <1>3, <1>4 DEF LayoutOf
<1>8. ASSUME Range(c) \subseteq Ids, Len(c) = restore.size
      PROVE  /\ ValidShape(RestoredLayout) /\ Panes(RestoredLayout) \subseteq Range(c)
             /\ Panes(t) # {} => Panes(RestoredLayout) # {}
  <2>1. /\ t.left \in (1..restore.size) \cup {None} /\ t.right \in (1..restore.size) \cup {None}
        /\ t.selected \in Sides
    BY <1>2 DEF LayoutOf
  <2>2. ValidShape(RestoredLayout)
    BY <1>2, <1>3, <1>5, <1>6, <1>8, <2>1 DEF ValidShape, Shown, Other, Sides
  <2>3. Panes(RestoredLayout) \subseteq Range(c)
    BY <1>3, <1>4 DEF Panes
  <2>4. Panes(t) # {} => Panes(RestoredLayout) # {}
    BY <1>3, <1>6, <1>8, <2>1 DEF Panes
  <2> QED BY <2>2, <2>3, <2>4
<1> QED BY <1>3, <1>5, <1>7, <1>8 DEF c, t

\* A restore of which every entry is there has made at least as many sessions as
\* it has places, and none when it has none.
LEMMA NothingRestored ==
    ASSUME ArrangeInv, restore.created = <<>>, Len(restore.created) = restore.size
    PROVE  restore.size = 0 /\ Panes(restore.stored) = {}
<1>1. restore.size = 0
  OBVIOUS
<1>2. restore.stored \in LayoutOf(1..0) /\ 1..0 = {}
  BY <1>1 DEF ArrangeInv, TypeOK
<1> QED BY <1>1, <1>2 DEF LayoutOf, Panes

\* The set as a whole, once each.
LEMMA OrderIsFinite ==
    ASSUME ArrangeInv
    PROVE  IsFiniteSet(sessions) /\ Cardinality(sessions) = Len(order)
<1>1. order \in Seq(Ids) /\ DOMAIN order = 1..Len(order) /\ Len(order) \in Nat
  BY DEF ArrangeInv, TypeOK
<1>2. Range(order) = sessions /\ IsInjective(order)
  BY DEF ArrangeInv, OrderIsLiveSet
<1>3. order \in [1..Len(order) -> sessions]
  BY <1>1, <1>2 DEF Range
<1>4. \A x, y \in 1..Len(order) : order[x] = order[y] => x = y
  BY <1>1, <1>2 DEF IsInjective
<1>5. \A i \in sessions : \E x \in 1..Len(order) : order[x] = i
  BY <1>1, <1>2 DEF Range
<1>6. order \in Bijection(1..Len(order), sessions)
  BY <1>3, <1>4, <1>5, Fun_IsBij
<1>7. ExistsBijection(1..Len(order), sessions)
  BY <1>6 DEF ExistsBijection
<1>8. IsFiniteSet(1..Len(order)) /\ Cardinality(1..Len(order)) = Len(order)
  BY <1>1, FS_Interval
<1> QED BY <1>7, <1>8, FS_Bijection

\* A client that names as many sessions as there are, all live and none twice,
\* names all.
LEMMA NamesAll ==
    ASSUME ArrangeInv, NEW ids \in Seq(Ids), NamesLiveSet(ids)
    PROVE  Range(ids) = sessions
<1>1. DOMAIN ids = 1..Len(ids) /\ Len(ids) \in Nat /\ Len(ids) = Cardinality(sessions)
  BY DEF NamesLiveSet
<1>2. ids \in [1..Len(ids) -> sessions]
  BY <1>1 DEF NamesLiveSet, Range
<1>3. \A x, y \in 1..Len(ids) : ids[x] = ids[y] => x = y
  BY <1>1 DEF NamesLiveSet, IsInjective
<1>4. IsFiniteSet(1..Len(ids)) /\ Cardinality(1..Len(ids)) = Len(ids)
  BY <1>1, FS_Interval
<1>5. IsFiniteSet(Range(ids)) /\ Cardinality(Range(ids)) = Len(ids)
  <2>1. ids \in [1..Len(ids) -> Range(ids)] /\ \A i \in Range(ids) : \E x \in 1..Len(ids) : ids[x] = i
    BY <1>1 DEF Range
  <2>2. ids \in Bijection(1..Len(ids), Range(ids))
    BY <1>3, <2>1, Fun_IsBij
  <2> QED BY <1>4, <2>2, FS_Bijection DEF ExistsBijection
<1>6. Range(ids) \subseteq sessions
  BY DEF NamesLiveSet
<1> QED BY <1>1, <1>5, <1>6, OrderIsFinite, FS_Subset

\* createWith: the newcomer is last, and shown only when nothing is.
LEMMA InsertArranges ==
    ASSUME HoldInv, ArrangeInv, NEW id \in Ids, Insert(id), OthersTyped'
    PROVE  ArrangeInv'
<1>1. /\ sessions' = sessions \cup {id} /\ order' = Append(order, id)
      /\ proc' = [proc EXCEPT ![id] = "running"] /\ proc[id] = "forking"
      /\ layout' = IF Panes(layout) = {} THEN [layout EXCEPT !.left = id, !.selected = "left"]
                   ELSE layout
      /\ UNCHANGED <<writtenVars, restoring>>
  BY DEF Insert, Enter
<1>2. id \notin sessions /\ ~Started(id) /\ id # None
  BY <1>1, NoneAssumption DEF HoldInv, SetIsHeld, Started
<1>3. /\ sessions \subseteq Ids /\ order \in Seq(Ids) /\ layout \in LayoutOf(Ids)
      /\ IsInjective(order) /\ Range(order) = sessions /\ LayoutFits(layout)
      /\ arranged \in Seq(Ids) /\ chosen \in LayoutOf(Ids)
  BY DEF ArrangeInv, TypeOK, OrderIsLiveSet, LayoutShowsLive
<1>4. /\ order' \in Seq(Ids) /\ IsInjective(order') /\ Range(order') = sessions'
      /\ Len(order') = Len(order) + 1 /\ Len(order) \in Nat
      /\ \A k \in 1..Len(order) : order'[k] = order[k]
  BY <1>1, <1>2, <1>3, AppendOnce
<1>5. /\ layout' \in LayoutOf(Ids) /\ LayoutFits(layout)'
      /\ Panes(layout) # {} => layout' = layout
  <2>1. CASE Panes(layout) = {}
    BY <1>1, <1>2, <1>3, <2>1 DEF LayoutOf, LayoutFits, ValidShape, Panes, Shown, Other, Sides
  <2>2. CASE Panes(layout) # {}
    BY <1>1, <1>2, <1>3, <2>2 DEF LayoutOf, LayoutFits, ValidShape, Panes, Shown, Other, Sides
  <2> QED BY <2>1, <2>2
<1>6. \A i \in Ids : Started(i) => Started(i)'
  BY <1>1 DEF Started, ArrangeInv, TypeOK
<1>7. /\ RestoreTyped' /\ RestoreInv'
      /\ restore' = restore \/ (restore'.phase = "creating" /\ restore.phase = "creating")
  <2>1. CASE restore.cur = id
    <3>1. /\ restore' = [restore EXCEPT !.cur = None, !.created = Append(@, id)]
          /\ restore.phase = "creating" /\ Len(restore.created) < restore.size
      BY <1>2, <2>1 DEF Insert, Answered, ArrangeInv, RestoreInv
    <3>2. proc'[id] = "running"
      BY <1>1 DEF ArrangeInv, TypeOK
    <3> QED BY <1>1, <1>2, <1>6, <3>1, <3>2, AnswerStep DEF writtenVars
  <2>2. CASE restore.cur # id
    <3>1. restore' = restore
      BY <2>2 DEF Insert, Answered
    <3>2. RestoreTyped'
      BY <1>1, <3>1, TypedInParts DEF ArrangeInv, RestoreTyped
    <3>3. restore'.cur # None => proc'[restore'.cur] = proc[restore.cur]
      BY <1>1, <2>2, <3>1 DEF ArrangeInv, TypeOK
    <3>4. \A i \in DOMAIN restore.created :
              restore.created[i] # None => restore.created[i] \in Ids /\ Started(restore.created[i])
      BY DEF ArrangeInv, RestoreInv
    <3>5. RestoreInv'
      BY <1>6, <3>1, <3>3, <3>4 DEF ArrangeInv, RestoreInv
    <3> QED BY <3>1, <3>2, <3>5
  <2> QED BY <2>1, <2>2
<1>8. WrittenInv'
  BY <1>1, <1>6, <1>7, WrittenStep
<1>9. ClientsPrevail'
  <2>1. arranged' = arranged /\ chosen' = chosen
    BY <1>1 DEF writtenVars
  <2>2. id \notin Range(arranged) /\ id \notin Panes(chosen)
    BY <1>2 DEF ArrangeInv, WrittenInv
  <2>3. ClientOrderStands'
    <3>1. Filter(Append(order, id), Range(arranged)) = Filter(order, Range(arranged))
      BY <1>3, <2>2, FilterAppended
    <3>2. Range(arranged) \cap sessions = Range(arranged) \cap (sessions \cup {id})
      BY <2>2
    <3>3. Filter(arranged, sessions) = Filter(arranged, sessions \cup {id})
      BY <1>3, <3>2, FilterAlike
    <3> QED BY <1>1, <2>1, <3>1, <3>3 DEF ArrangeInv, ClientsPrevail, ClientOrderStands
  <2>4. ClientLayoutStands'
    BY <1>1, <1>5, <2>1, <2>2 DEF ArrangeInv, ClientsPrevail, ClientLayoutStands
  <2> QED BY <2>3, <2>4 DEF ClientsPrevail
<1>10. Rebuilt'
  <2> SUFFICES ASSUME Undisturbed'
               PROVE  /\ restore'.size <= Len(order')
                      /\ \A k \in 1..restore'.size : order'[k] = restore'.created[k]
                      /\ Panes(restore'.stored) # {} => layout' = RestoredLayout'
    BY DEF Rebuilt
  <2>1. restore' = restore
    BY <1>7 DEF Undisturbed
  <2>2. id \notin Range(restore.created)
    BY <1>2 DEF ArrangeInv, RestoreInv, Range
  <2>3. Undisturbed
    BY <1>1, <2>1, <2>2 DEF Undisturbed, writtenVars
  <2>4. /\ restore.size <= Len(order)
        /\ \A k \in 1..restore.size : order[k] = restore.created[k]
        /\ Panes(restore.stored) # {} => layout = RestoredLayout
    BY <2>3 DEF ArrangeInv, Rebuilt
  <2>5. Panes(restore.stored) # {} => layout' = layout
    <3>1. Range(restore.created) \subseteq Ids /\ Len(restore.created) = restore.size
      BY <1>3, <2>3 DEF Undisturbed
    <3> QED BY <1>5, <2>4, <3>1, RestoredLayoutFits
  <2>6. RestoredLayout' = RestoredLayout
    BY <2>1 DEF RestoredLayout, Replaced
  <2>7. restore.size \in Nat
    BY DEF ArrangeInv, RestoreInv
  <2>8. \A k \in 1..restore.size : k \in 1..Len(order)
    BY <1>4, <2>4, <2>7
  <2>9. restore.size <= Len(order')
    BY <1>4, <2>4, <2>7
  <2> QED BY <1>4, <2>1, <2>4, <2>5, <2>6, <2>8, <2>9
<1>11. ArrangementTyped'
  BY <1>1, <1>3, <1>4, <1>5, TypedInParts DEF ArrangeInv, ArrangementTyped, writtenVars
<1> QED BY <1>4, <1>5, <1>7, <1>8, <1>9, <1>10, <1>11, TypedInParts
        DEF ArrangeInv, OrderIsLiveSet, LayoutShowsLive

\* A step that leaves the processes and the restore alone keeps what is said of
\* them; the clients' writes too, if no started session is named in them.
LEMMA RestoreStays ==
    ASSUME ArrangeInv, UNCHANGED <<proc, restoring, restore>>
    PROVE  RestoreTyped' /\ RestoreInv' /\ (UNCHANGED writtenVars => WrittenInv')
<1>1. RestoreTyped'
  BY TypedInParts DEF ArrangeInv, RestoreTyped
<1>2. \A id : Started(id)' <=> Started(id)
  BY DEF Started
<1>3. RestoreInv'
  BY DEF ArrangeInv, RestoreInv, Started
<1>4. UNCHANGED writtenVars => WrittenInv'
  BY <1>2, WrittenStep
<1> QED BY <1>1, <1>3, <1>4

\* Close: the session leaves the set, the order and the layout, and whoever else
\* was arranged stays where it was.
LEMMA CloseArranges ==
    ASSUME HoldInv, ArrangeInv, NEW id \in Ids, Close(id), OthersTyped'
    PROVE  ArrangeInv'
<1> DEFINE others == Ids \ {id}
<1>1. /\ sessions' = sessions \ {id} /\ order' = Filter(order, others)
      /\ layout' = NormalizedPanes(layout, order')
      /\ UNCHANGED <<proc, restoring, restore, writtenVars>>
  BY DEF Close, restoreVars
<1>2. /\ sessions \subseteq Ids /\ order \in Seq(Ids) /\ layout \in LayoutOf(Ids)
      /\ IsInjective(order) /\ Range(order) = sessions /\ LayoutFits(layout)
      /\ arranged \in Seq(Ids) /\ chosen \in LayoutOf(Ids)
  BY DEF ArrangeInv, TypeOK, OrderIsLiveSet, LayoutShowsLive
<1>3. sessions \cap others = sessions \ {id}
  BY <1>2
<1> HIDE DEF others
<1>4. order' \in Seq(Ids) /\ IsInjective(order') /\ Range(order') = sessions'
  BY <1>1, <1>2, <1>3, FilterHas
<1>5. layout' \in LayoutOf(Ids) /\ LayoutFits(layout)'
  <2>1. layout.left = None \/ layout.left # layout.right
    BY <1>2 DEF LayoutFits, ValidShape
  <2>2. /\ layout' \in LayoutOf(Ids) /\ ValidShape(layout') /\ Panes(layout') \subseteq Range(order')
        /\ order' # <<>> => Shown(layout', layout'.selected) # None
    BY <1>1, <1>2, <1>4, <2>1, NormalizedFits
  <2>3. sessions' # {} => order' # <<>>
    BY <1>4 DEF Range
  <2> QED BY <1>4, <2>2, <2>3 DEF LayoutFits
<1>6. ArrangementTyped'
  BY <1>1, <1>2, <1>4, <1>5, TypedInParts DEF ArrangeInv, ArrangementTyped, writtenVars
<1>7. ClientOrderStands'
  <2> DEFINE R == Range(arranged)
  <2>1. Filter(order, R) = Filter(arranged, sessions)
    BY DEF ArrangeInv, ClientsPrevail, ClientOrderStands
  <2> HIDE DEF R
  <2>2. Filter(Filter(order, others), R) = Filter(order, others \cap R)
    BY <1>2, FilterTwice
  <2>3. Filter(Filter(order, R), others) = Filter(order, R \cap others)
    BY <1>2, FilterTwice
  <2>4. Filter(Filter(arranged, sessions), others) = Filter(arranged, sessions \cap others)
    BY <1>2, FilterTwice
  <2>5. others \cap R = R \cap others
    OBVIOUS
  <2>6. Filter(Filter(order, others), R) = Filter(arranged, sessions \ {id})
    BY <1>3, <2>1, <2>2, <2>3, <2>4, <2>5
  <2>7. arranged' = arranged
    BY <1>1 DEF writtenVars
  <2> QED BY <1>1, <2>6, <2>7 DEF ClientOrderStands, R
<1>8. ClientLayoutStands'
  <2> SUFFICES ASSUME Panes(chosen) # {}, Panes(chosen) \subseteq sessions'
               PROVE  layout' = chosen
    BY <1>1 DEF ClientLayoutStands, writtenVars
  <2>1. layout = chosen
    BY <1>1 DEF ArrangeInv, ClientsPrevail, ClientLayoutStands
  <2> QED BY <1>1, <1>2, <1>4, <2>1, NormalizedKeeps DEF LayoutFits
<1>9. Rebuilt'
  <2> SUFFICES ASSUME Undisturbed'
               PROVE  /\ restore.size <= Len(order')
                      /\ \A k \in 1..restore.size : order'[k] = restore.created[k]
                      /\ Panes(restore.stored) # {} => layout' = RestoredLayout
    BY <1>1 DEF Rebuilt, RestoredLayout, Replaced
  <2>1. Undisturbed /\ Range(restore.created) \subseteq sessions'
    BY <1>1 DEF Undisturbed, writtenVars
  <2>2. /\ restore.size <= Len(order)
        /\ \A k \in 1..restore.size : order[k] = restore.created[k]
        /\ Panes(restore.stored) # {} => layout = RestoredLayout
    BY <2>1 DEF ArrangeInv, Rebuilt
  <2>3. restore.size \in 0..Len(order) /\ Len(restore.created) = restore.size
    BY <2>1, <2>2 DEF ArrangeInv, RestoreInv, Undisturbed
  <2>4. Range(restore.created) \subseteq others
    BY <1>1, <1>3, <2>1
  <2>5. \A k \in 1..restore.size : order[k] \in others
    <3>1. restore.created \in Seq(Ids \cup {None})
      BY DEF ArrangeInv, RestoreInv
    <3>2. \A k \in 1..restore.size : restore.created[k] \in Range(restore.created)
      BY <2>3, <3>1 DEF Range
    <3> QED BY <2>2, <2>4, <3>2
  <2>6. /\ restore.size <= Len(order')
        /\ \A k \in 1..restore.size : order'[k] = order[k]
    BY <1>1, <1>2, <2>3, <2>5, FilterKeepsFirst
  <2>7. Panes(restore.stored) # {} => layout' = RestoredLayout
    <3> SUFFICES ASSUME Panes(restore.stored) # {} PROVE layout' = RestoredLayout
      OBVIOUS
    <3>1. Range(restore.created) \subseteq Ids
      BY <2>1, <1>1, <1>2
    <3>2. /\ RestoredLayout \in LayoutOf(Ids) /\ ValidShape(RestoredLayout)
          /\ Panes(RestoredLayout) # {} /\ Panes(RestoredLayout) \subseteq Range(order')
      BY <1>4, <2>1, <2>3, <3>1, RestoredLayoutFits
    <3> QED BY <1>1, <1>4, <2>2, <3>2, NormalizedKeeps
  <2> QED BY <2>2, <2>6, <2>7
<1> QED BY <1>1, <1>4, <1>5, <1>6, <1>7, <1>8, <1>9, RestoreStays, TypedInParts
        DEF ArrangeInv, OrderIsLiveSet, LayoutShowsLive, ClientsPrevail

\* The reaper and Shutdown leave nothing to arrange.
LEMMA EmptyArranges ==
    ASSUME ArrangeInv, NEW who, Empty(who), OthersTyped',
           UNCHANGED <<proc, restoring, restore, writtenVars>>
    PROVE  ArrangeInv'
<1>1. sessions' = {} /\ order' = <<>> /\ layout' = DefaultLayout
  BY DEF Empty
<1>2. /\ order' \in Seq(Ids) /\ Range(order') = {} /\ IsInjective(order') /\ Len(order') = 0
  BY <1>1 DEF Range, IsInjective
<1>3. layout' \in LayoutOf(Ids) /\ LayoutFits(layout)'
  BY <1>1 DEF DefaultLayout, LayoutOf, Sides, LayoutFits, ValidShape, Panes, Shown, Other
<1>4. ArrangementTyped'
  BY <1>1, <1>2, <1>3, TypedInParts DEF ArrangeInv, ArrangementTyped, writtenVars
<1>5. arranged' = arranged /\ arranged \in Seq(Ids) /\ chosen' = chosen
  BY DEF ArrangeInv, TypeOK, writtenVars
<1>6. ClientsPrevail'
  <2>1. Filter(arranged, {}) = <<>>
    BY <1>5, FilterNone
  <2>2. Filter(<<>>, Range(arranged)) = <<>>
    <3>1. <<>> \in Seq(Ids) /\ Range(<<>>) \subseteq Range(arranged)
      BY <1>1, <1>2
    <3> QED BY <3>1, FilterAll
  <2>3. ClientOrderStands'
    BY <1>1, <1>5, <2>1, <2>2 DEF ClientOrderStands
  <2>4. ClientLayoutStands'
    BY <1>1 DEF ClientLayoutStands
  <2> QED BY <2>3, <2>4 DEF ClientsPrevail
<1>7. Rebuilt'
  <2> SUFFICES ASSUME Undisturbed'
               PROVE  restore.size = 0 /\ Panes(restore.stored) = {}
    BY <1>2 DEF Rebuilt
  <2>1. Range(restore.created) = {} /\ Len(restore.created) = restore.size
    BY <1>1 DEF Undisturbed
  <2>2. restore.created \in Seq(Ids \cup {None})
    BY DEF ArrangeInv, RestoreInv
  <2>3. restore.created = <<>>
    <3>1. Range(restore.created) \cap {} = {}
      OBVIOUS
    <3>2. Filter(restore.created, {}) = <<>>
      BY <2>2, FilterNone
    <3>3. Filter(restore.created, {}) = restore.created
      BY <2>1, <2>2, FilterAll
    <3> QED BY <3>2, <3>3
  <2> QED BY <2>1, <2>3, NothingRestored
<1> QED BY <1>1, <1>2, <1>3, <1>4, <1>6, <1>7, RestoreStays, TypedInParts
        DEF ArrangeInv, OrderIsLiveSet, LayoutShowsLive

\* A client's order stands, and from then on it is the client's.
LEMMA OrderArranges ==
    ASSUME HoldInv, ArrangeInv, NEW ids \in Seq(Ids), SetSessionOrder(ids), OthersTyped'
    PROVE  ArrangeInv'
<1>1. /\ order' = ids /\ orderWritten' = TRUE
      /\ arranged' = IF restore.phase = "none" THEN arranged ELSE ids
      /\ UNCHANGED <<sessions, layout, layoutWritten, chosen, proc, restoring, restore>>
  BY DEF SetSessionOrder, restoreVars
<1>2. Range(ids) = sessions /\ IsInjective(ids)
  BY NamesAll DEF SetSessionOrder, NamesLiveSet
<1>3. ArrangementTyped'
  BY <1>1, TypedInParts DEF ArrangeInv, ArrangementTyped
<1>4. OrderIsLiveSet' /\ LayoutShowsLive'
  BY <1>1, <1>2 DEF ArrangeInv, OrderIsLiveSet, LayoutShowsLive, LayoutFits
<1>5. WrittenInv'
  <2>1. \A id \in Range(arranged') \cup Panes(chosen') : Started(id)
    BY <1>1, <1>2, LiveAreStarted DEF ArrangeInv, WrittenInv
  <2>2. \A id : Started(id)' <=> Started(id)
    BY <1>1 DEF Started
  <2> QED BY <1>1, <2>1, <2>2 DEF ArrangeInv, WrittenInv
<1>6. ClientsPrevail'
  <2>1. CASE restore.phase = "none"
    <3>1. arranged' = <<>> /\ <<>> \in Seq(Ids) /\ Range(<<>>) = {}
      BY <1>1, <2>1 DEF ArrangeInv, WrittenInv, Range
    <3>2. Filter(ids, {}) = <<>>
      BY FilterNone
    <3>3. Filter(<<>>, sessions) = <<>>
      BY <3>1, FilterNone
    <3>4. ClientOrderStands'
      BY <1>1, <3>1, <3>2, <3>3 DEF ClientOrderStands
    <3> QED BY <1>1, <3>4 DEF ArrangeInv, ClientsPrevail, ClientLayoutStands
  <2>2. CASE restore.phase # "none"
    <3>1. Filter(ids, Range(ids)) = ids /\ Filter(ids, sessions) = ids
      BY <1>2, FilterAll
    <3>2. ClientOrderStands'
      BY <1>1, <2>2, <3>1 DEF ClientOrderStands
    <3> QED BY <1>1, <3>2 DEF ArrangeInv, ClientsPrevail, ClientLayoutStands
  <2> QED BY <2>1, <2>2
<1>7. Rebuilt'
  BY <1>1 DEF Rebuilt, Undisturbed
<1> QED BY <1>1, <1>3, <1>4, <1>5, <1>6, <1>7, RestoreStays, TypedInParts DEF ArrangeInv

\* And so does its layout.
LEMMA LayoutArranges ==
    ASSUME HoldInv, ArrangeInv, NEW l \in LayoutOf(Ids), SetPaneLayout(l), OthersTyped'
    PROVE  ArrangeInv'
<1>1. /\ layout' = l /\ layoutWritten' = TRUE /\ LayoutFits(l)
      /\ chosen' = IF restore.phase = "none" THEN chosen ELSE l
      /\ UNCHANGED <<sessions, order, orderWritten, arranged, proc, restoring, restore>>
  BY DEF SetPaneLayout, restoreVars
<1>2. ArrangementTyped'
  BY <1>1, TypedInParts DEF ArrangeInv, ArrangementTyped
<1>3. OrderIsLiveSet' /\ LayoutShowsLive'
  BY <1>1 DEF ArrangeInv, OrderIsLiveSet, LayoutShowsLive, LayoutFits
<1>4. WrittenInv'
  <2>1. \A id \in Range(arranged') \cup Panes(chosen') : Started(id)
    BY <1>1, LiveAreStarted DEF ArrangeInv, WrittenInv, LayoutFits
  <2>2. \A id : Started(id)' <=> Started(id)
    BY <1>1 DEF Started
  <2> QED BY <1>1, <2>1, <2>2 DEF ArrangeInv, WrittenInv
<1>5. ClientsPrevail'
  <2>1. ClientOrderStands'
    BY <1>1 DEF ArrangeInv, ClientsPrevail, ClientOrderStands
  <2>2. ClientLayoutStands'
    <3>1. restore.phase = "none" => Panes(chosen') = {}
      BY <1>1 DEF ArrangeInv, WrittenInv, DefaultLayout, Panes
    <3> QED BY <1>1, <3>1 DEF ClientLayoutStands
  <2> QED BY <2>1, <2>2 DEF ClientsPrevail
<1>6. Rebuilt'
  BY <1>1 DEF Rebuilt, Undisturbed
<1> QED BY <1>1, <1>2, <1>3, <1>4, <1>5, <1>6, RestoreStays, TypedInParts DEF ArrangeInv

\* A restore begins, and nothing has been written since.
LEMMA BeginArranges ==
    ASSUME HoldInv, ArrangeInv, NEW n \in Nat, NEW stored \in StoredLayouts(n),
           RestoreBegins(n, stored), OthersTyped'
    PROVE  ArrangeInv'
<1>1. /\ restoring' = TRUE
      /\ restore' = [phase |-> "creating", stored |-> stored, created |-> <<>>,
                     cur |-> None, size |-> n]
      /\ orderWritten' = FALSE /\ layoutWritten' = FALSE
      /\ arranged' = <<>> /\ chosen' = DefaultLayout
      /\ UNCHANGED <<sessions, order, layout, proc>>
  BY DEF RestoreBegins, arrangementVars
<1>2. stored \in LayoutOf(1..n) /\ stored \in LayoutOf(Nat) /\ ValidShape(stored)
  BY DEF StoredLayouts, LayoutOf
<1>3. /\ <<>> \in Seq(Ids) /\ <<>> \in Seq(Ids \cup {None}) /\ Len(<<>>) = 0
      /\ DOMAIN <<>> = {} /\ Range(<<>>) = {}
      /\ DefaultLayout \in LayoutOf(Ids) /\ Panes(DefaultLayout) = {}
  BY DEF Range, DefaultLayout, LayoutOf, Sides, Panes
<1>4. ArrangementTyped'
  BY <1>1, <1>3, TypedInParts DEF ArrangeInv, ArrangementTyped
<1>5. OrderIsLiveSet' /\ LayoutShowsLive'
  BY <1>1 DEF ArrangeInv, OrderIsLiveSet, LayoutShowsLive, LayoutFits
<1>6. RestoreTyped' /\ RestoreInv'
  <2>1. /\ restore'.phase = "creating" /\ restore'.stored = stored /\ restore'.size = n
        /\ restore'.created = <<>> /\ restore'.cur = None
    BY <1>1
  <2>2. restore' \in [phase : {"none", "creating", "applied"}, stored : LayoutOf(Nat),
                    created : Seq(Ids \cup {None}), cur : Ids \cup {None}, size : Nat]
    BY <1>1, <1>2, <1>3
  <2>3. OnceIn(<<>>, Ids)
    BY <1>3 DEF OnceIn
  <2>4. RestoreTyped'
    <3>1. Len(restore'.created) <= restore'.size
      BY <1>3, <2>1
    <3> QED BY <1>1, <1>2, <1>3, <2>1, <3>1 DEF RestoreTyped
  <2>5. RestoreInv'
    BY <1>2, <1>3, <2>1, <2>2, <2>3 DEF RestoreInv
  <2> QED BY <2>4, <2>5
<1>7. WrittenInv'
  BY <1>1, <1>3 DEF WrittenInv
<1>8. ClientsPrevail'
  <2>1. order \in Seq(Ids)
    BY DEF ArrangeInv, TypeOK
  <2>2. Filter(order, {}) = <<>>
    BY <2>1, FilterNone
  <2>3. Filter(<<>>, sessions) = <<>>
    BY <1>3, FilterNone
  <2>4. ClientOrderStands'
    BY <1>1, <1>3, <2>2, <2>3 DEF ClientOrderStands
  <2> QED BY <1>1, <1>3, <2>4 DEF ClientsPrevail, ClientLayoutStands
<1>9. Rebuilt'
  BY <1>1 DEF Rebuilt, Undisturbed
<1> QED BY <1>4, <1>5, <1>6, <1>7, <1>8, <1>9, TypedInParts DEF ArrangeInv

\* A session is minted for the next entry.
LEMMA MintArranges ==
    ASSUME ArrangeInv, NEW id \in Ids, RestoreCreate(id), OthersTyped'
    PROVE  ArrangeInv'
<1>1. /\ restore' = [restore EXCEPT !.cur = id] /\ restoring' = restoring
      /\ restore.phase = "creating" /\ Len(restore.created) < restore.size
      /\ proc' = [proc EXCEPT ![id] = "forking"] /\ proc[id] = "unused"
      /\ UNCHANGED <<arrangementVars, writtenVars>>
  BY DEF RestoreCreate, Unfinished, Creating, Mint
<1>2. /\ restore'.phase = "creating" /\ restore'.stored = restore.stored
      /\ restore'.size = restore.size /\ restore'.cur = id /\ restore'.created = restore.created
      /\ restore' \in [phase : {"none", "creating", "applied"}, stored : LayoutOf(Nat),
                    created : Seq(Ids \cup {None}), cur : Ids \cup {None}, size : Nat]
  BY <1>1 DEF ArrangeInv, RestoreInv
<1>3. /\ ArrangementTyped' /\ OrderIsLiveSet' /\ LayoutShowsLive'
      /\ ClientsPrevail' /\ Rebuilt'
  BY <1>1, <1>2, Unarranged
<1>4. RestoreTyped'
  BY <1>1, <1>2, TypedInParts DEF ArrangeInv, RestoreTyped
<1>5. \A i \in Ids : Started(i) => Started(i)'
  BY <1>1 DEF Started, ArrangeInv, TypeOK
<1>6. proc'[id] = "forking"
  BY <1>1 DEF ArrangeInv, TypeOK
<1>7. \A i \in DOMAIN restore.created :
        restore.created[i] # None => restore.created[i] \in Ids /\ Started(restore.created[i])
  BY DEF ArrangeInv, RestoreInv
<1>8. RestoreInv'
  BY <1>1, <1>2, <1>5, <1>6, <1>7 DEF ArrangeInv, RestoreInv
<1>9. WrittenInv'
  BY <1>1, <1>2, <1>5, WrittenStep
<1> QED BY <1>3, <1>4, <1>8, <1>9, TypedInParts DEF ArrangeInv

\* applyRestoredLocked: the live sessions of the restore first, then the others in
\* their order; the stored layout cut down to who is live.
LEMMA ApplyArranges ==
    ASSUME ArrangeInv, RestoreApplies, OthersTyped'
    PROVE  ArrangeInv'
<1>1. /\ restore.phase = "creating" /\ restore.cur = None
      /\ restore' = [restore EXCEPT !.phase = "applied"]
      /\ UNCHANGED <<sessions, proc, restoring, writtenVars>>
      /\ orderWritten \/ Restored = <<>> => order' = order
      /\ ~orderWritten /\ Restored # <<>> => order' = RestoredOrder
      /\ layoutWritten \/ Restored = <<>> => layout' = layout
      /\ ~layoutWritten /\ Restored # <<>> => layout' = NormalizedPanes(RestoredLayout, order')
  BY DEF RestoreApplies, Creating
<1>2. /\ sessions \subseteq Ids /\ order \in Seq(Ids) /\ layout \in LayoutOf(Ids)
      /\ IsInjective(order) /\ Range(order) = sessions /\ LayoutFits(layout)
      /\ arranged \in Seq(Ids) /\ chosen \in LayoutOf(Ids)
  BY DEF ArrangeInv, TypeOK, OrderIsLiveSet, LayoutShowsLive
<1>3. /\ restore'.phase = "applied" /\ restore'.stored = restore.stored
      /\ restore'.size = restore.size /\ restore'.cur = None /\ restore'.created = restore.created
      /\ restore' \in [phase : {"none", "creating", "applied"}, stored : LayoutOf(Nat),
                    created : Seq(Ids \cup {None}), cur : Ids \cup {None}, size : Nat]
  BY <1>1 DEF ArrangeInv, RestoreInv
<1>4. restore.created \in Seq(Ids \cup {None}) /\ OnceIn(restore.created, Ids)
  BY DEF ArrangeInv, RestoreInv
<1>5. /\ Restored \in Seq(Ids) /\ IsInjective(Restored)
      /\ Range(Restored) = Range(restore.created) \cap sessions
  <2>1. OnceIn(restore.created, sessions)
    BY <1>2, <1>4 DEF OnceIn
  <2>2. /\ Restored \in Seq((Ids \cup {None}) \cap sessions) /\ IsInjective(Restored)
        /\ Range(Restored) = Range(restore.created) \cap sessions
    BY <1>4, <2>1, FilterHas DEF Restored
  <2>3. (Ids \cup {None}) \cap sessions \subseteq Ids
    BY <1>2
  <2>4. Restored \in Seq(Ids)
    BY <2>2, <2>3
  <2> QED BY <2>2, <2>4
<1>6. RestoredOrder \in Seq(Ids) /\ IsInjective(RestoredOrder) /\ Range(RestoredOrder) = sessions
  <2> DEFINE rest == Ids \ Range(Restored)
             t == Filter(order, rest)
  <2> HIDE DEF rest
  <2>1. t \in Seq(Ids) /\ IsInjective(t) /\ Range(t) = Range(order) \cap rest
    BY <1>2, FilterHas
  <2> HIDE DEF t
  <2>2. Range(Restored) \cap Range(t) = {} /\ Range(Restored) \cup Range(t) = sessions
    BY <1>2, <1>5, <2>1 DEF rest
  <2> DEFINE r == Restored
  <2> HIDE DEF r
  <2>a. r \in Seq(Ids) /\ IsInjective(r) /\ Range(r) \cap Range(t) = {} /\ Range(r) \cup Range(t) = sessions
    BY <1>5, <2>2 DEF r
  <2>b. r \o t \in Seq(Ids) /\ IsInjective(r \o t) /\ Range(r \o t) = Range(r) \cup Range(t)
    BY <2>1, <2>a, ConcatOnce
  <2>3. /\ Restored \o t \in Seq(Ids) /\ IsInjective(Restored \o t)
        /\ Range(Restored \o t) = sessions
    BY <2>a, <2>b DEF r
  <2> QED BY <2>3 DEF RestoredOrder, t, rest
<1>7. order' \in Seq(Ids) /\ IsInjective(order') /\ Range(order') = sessions'
  BY <1>1, <1>2, <1>6
<1>8. layout' \in LayoutOf(Ids) /\ LayoutFits(layout)'
  <2>1. CASE layout' = layout
    BY <1>1, <1>2, <2>1 DEF LayoutFits
  <2>2. CASE layout' = NormalizedPanes(RestoredLayout, order')
    <3>1. /\ layout' \in LayoutOf(Ids) /\ ValidShape(layout') /\ Panes(layout') \subseteq Range(order')
          /\ order' # <<>> => Shown(layout', layout'.selected) # None
      BY <1>7, <2>2, RestoredLayoutFits, NormalizedFits
    <3>2. sessions' # {} => order' # <<>>
      BY <1>7 DEF Range
    <3> QED BY <1>7, <3>1, <3>2 DEF LayoutFits
  <2> QED BY <1>1, <2>1, <2>2
<1>9. ArrangementTyped'
  BY <1>1, <1>2, <1>7, <1>8, TypedInParts DEF ArrangeInv, ArrangementTyped, writtenVars
<1>10. RestoreTyped' /\ RestoreInv'
  <2>1. RestoreTyped'
    BY <1>1, <1>3, TypedInParts DEF ArrangeInv, RestoreTyped
  <2>2. RestoreInv'
    BY <1>1, <1>3 DEF ArrangeInv, RestoreInv, Started
  <2> QED BY <2>1, <2>2
<1>11. WrittenInv'
  <2>1. \A id \in Ids : Started(id) => Started(id)'
    BY <1>1 DEF Started
  <2> QED BY <1>1, <1>3, <2>1, WrittenStep
<1>12. ClientsPrevail'
  <2>1. arranged' = arranged /\ chosen' = chosen
    BY <1>1 DEF writtenVars
  <2>2. ASSUME order' = order PROVE ClientOrderStands'
    BY <1>1, <2>1, <2>2 DEF ArrangeInv, ClientsPrevail, ClientOrderStands
  <2>3. ASSUME ~orderWritten PROVE ClientOrderStands'
    <3>1. arranged = <<>> /\ <<>> \in Seq(Ids) /\ Range(<<>>) = {}
      BY <2>3 DEF ArrangeInv, WrittenInv, Range
    <3>2. Filter(order', {}) = <<>> /\ Filter(<<>>, sessions) = <<>>
      BY <1>7, <3>1, FilterNone
    <3> QED BY <1>1, <2>1, <3>1, <3>2 DEF ClientOrderStands
  <2>4. ClientLayoutStands'
    <3>1. CASE layout' = layout
      BY <1>1, <2>1, <3>1 DEF ArrangeInv, ClientsPrevail, ClientLayoutStands
    <3>2. CASE ~layoutWritten
      <4>1. Panes(chosen) = {}
        BY <3>2 DEF ArrangeInv, WrittenInv, DefaultLayout, Panes
      <4> QED BY <2>1, <4>1 DEF ClientLayoutStands
    <3> QED BY <1>1, <3>1, <3>2
  <2>5. ClientOrderStands'
    BY <1>1, <2>2, <2>3
  <2> QED BY <2>4, <2>5 DEF ClientsPrevail
<1>13. Rebuilt'
  <2> SUFFICES ASSUME Undisturbed'
               PROVE  /\ restore.size <= Len(order')
                      /\ \A k \in 1..restore.size : order'[k] = restore.created[k]
                      /\ Panes(restore.stored) # {} => layout' = RestoredLayout
    BY <1>3 DEF Rebuilt, RestoredLayout, Replaced
  <2>1. /\ Len(restore.created) = restore.size /\ Range(restore.created) \subseteq sessions
        /\ ~orderWritten /\ ~layoutWritten
    BY <1>1, <1>3 DEF Undisturbed, writtenVars
  <2>2. Restored = restore.created
    BY <1>4, <2>1, FilterAll DEF Restored
  <2>3. CASE restore.created = <<>>
    <3>1. restore.size = 0 /\ Panes(restore.stored) = {}
      BY <2>1, <2>3, NothingRestored
    <3>2. Len(order') \in Nat
      BY <1>7
    <3> QED BY <3>1, <3>2
  <2>4. CASE restore.created # <<>>
    <3> DEFINE t == Filter(order, Ids \ Range(Restored))
    <3>1. order' = Restored \o t /\ layout' = NormalizedPanes(RestoredLayout, order')
      BY <1>1, <2>1, <2>2, <2>4 DEF RestoredOrder
    <3>2. t \in Seq(Ids)
      BY <1>2, FilterHas
    <3> HIDE DEF t
    <3>3. /\ Len(order') = Len(Restored) + Len(t)
          /\ \A k \in 1..Len(Restored) : order'[k] = Restored[k]
          /\ Len(t) \in Nat /\ Len(Restored) \in Nat
      BY <1>5, <3>1, <3>2
    <3>4. Range(restore.created) \subseteq Ids /\ Range(restore.created) \subseteq Range(order')
      BY <1>1, <1>2, <1>7, <2>1
    <3>5. /\ RestoredLayout \in LayoutOf(Ids) /\ ValidShape(RestoredLayout)
          /\ Panes(RestoredLayout) \subseteq Range(order')
          /\ Panes(restore.stored) # {} => Panes(RestoredLayout) # {}
      BY <2>1, <3>4, RestoredLayoutFits
    <3>6. Panes(restore.stored) # {} => layout' = RestoredLayout
      BY <1>7, <3>1, <3>5, NormalizedKeeps
    <3>7. restore.size = Len(Restored)
      BY <2>1, <2>2
    <3> QED BY <2>2, <3>3, <3>6, <3>7
  <2> QED BY <2>3, <2>4
<1> QED BY <1>7, <1>8, <1>9, <1>10, <1>11, <1>12, <1>13, TypedInParts
        DEF ArrangeInv, OrderIsLiveSet, LayoutShowsLive

-----------------------------------------------------------------------------
(* All steps.                                                                *)

LEMMA OthersStay == ASSUME HoldInv, HoldInv', ArrangeInv, [Next]_vars PROVE OthersTyped'
<1>1. OthersTyped
  BY TypedInParts DEF ArrangeInv
<1>2. /\ proc' \in [Ids -> Procs] /\ hands' \in [Ids -> Hands]
      /\ viewers' \in SUBSET Ids /\ activeClients' \in Nat /\ regretted' = {}
  BY FS_CardinalityType DEF HoldInv, HoldTypes, ReaperSpares
<1>3. sessions \in SUBSET Ids
  BY DEF HoldInv, HoldTypes
<1> DEFINE Quiet == UNCHANGED <<closed, shutdown>> /\ idle' \in BOOLEAN /\ young' \in SUBSET Ids
<1>4. closed \in BOOLEAN /\ idle \in BOOLEAN /\ young \in SUBSET Ids
  BY <1>1 DEF OthersTyped
<1>5. ASSUME \/ \E id \in Ids : ClientCreate(id) \/ RestoreCreate(id)
             \/ \E id \in Ids : StartFails(id) \/ InsertRefused(id) \/ CloseHandler(id) \/ TeardownEnds(id)
      PROVE Quiet
  BY <1>4, <1>5 DEF ClientCreate, RestoreCreate, Mint, StartFails, InsertRefused, CloseHandler,
     TeardownEnds, clientVars, reapVars
<1>6. ASSUME \E id \in Ids : Insert(id) \/ Close(id) \/ Attach(id) \/ Detach(id) PROVE Quiet
  BY <1>4, <1>6 DEF Insert, Enter, Close, Attach, Detach, clientVars, reapVars
<1>7. ASSUME Reap \/ IdleWindowPasses PROVE Quiet
  BY <1>4, <1>7 DEF Reap, Empty, IdleWindowPasses, clientVars
<1>8. ASSUME \/ \E n \in 0..Cardinality(Ids) : \E ids \in [1..n -> Ids] : SetSessionOrder(ids)
             \/ \E l \in LayoutOf(Ids) : SetPaneLayout(l)
      PROVE Quiet
  BY <1>4, <1>8 DEF SetSessionOrder, SetPaneLayout, clientVars, reapVars
<1>9. ASSUME \/ \E n \in 1..MaxEntries : \E stored \in StoredLayouts(n) : RestoreBegins(n, stored)
             \/ RestoreSkip \/ RestoreApplies \/ RestoreReturns
      PROVE Quiet
  BY <1>4, <1>9 DEF RestoreBegins, RestoreSkip, RestoreApplies, RestoreReturns, clientVars, reapVars
<1>10. ASSUME UNCHANGED vars PROVE Quiet
  BY <1>4, <1>10 DEF vars, clientVars, reapVars
<1>11. CASE Shutdown \/ ShutdownReturns \/ ShutdownExpires
  <2>1. closed' \in BOOLEAN /\ idle' \in BOOLEAN /\ young' \in SUBSET Ids
    BY <1>4, <1>11 DEF Shutdown, Empty, ShutdownReturns, ShutdownExpires, clientVars, reapVars
  <2>2. \/ shutdown' = [phase |-> "waiting", victims |-> sessions]
        \/ shutdown' = [shutdown EXCEPT !.phase = "returned"]
        \/ shutdown' = [shutdown EXCEPT !.phase = "expired"]
    BY <1>11 DEF Shutdown, ShutdownReturns, ShutdownExpires
  <2> QED BY <1>1, <1>2, <1>3, <2>1, <2>2 DEF OthersTyped, Procs, Hands
<1>12. Quiet \/ Shutdown \/ ShutdownReturns \/ ShutdownExpires
  BY <1>5, <1>6, <1>7, <1>8, <1>9, <1>10 DEF Next, Carry
<1> QED BY <1>1, <1>2, <1>4, <1>11, <1>12 DEF OthersTyped, Procs, Hands

LEMMA ArrangeStep == HoldInv /\ HoldInv' /\ ArrangeInv /\ [Next]_vars => ArrangeInv'
<1> SUFFICES ASSUME HoldInv, HoldInv', ArrangeInv, [Next]_vars PROVE ArrangeInv'
  OBVIOUS
<1>0. OthersTyped' /\ restoring \in BOOLEAN /\ proc \in [Ids -> Procs]
  BY OthersStay DEF ArrangeInv, TypeOK, HoldInv, HoldTypes
<1>c. restore.cur # None => /\ restore.cur \in Ids /\ proc[restore.cur] = "forking"
                            /\ restore.phase = "creating" /\ Len(restore.created) < restore.size
  BY DEF ArrangeInv, RestoreInv
<1>1. ASSUME NEW id \in Ids, ClientCreate(id) \/ CloseHandler(id) \/ TeardownEnds(id)
      PROVE  ArrangeInv'
  <2>1. UNCHANGED <<arrangementVars, writtenVars, restore, restoring>>
    BY <1>1 DEF ClientCreate, CloseHandler, TeardownEnds, Mint, restoreVars
  <2>2. \A i \in Ids : Started(i) => Started(i)'
    <3>1. CASE ClientCreate(id)
      BY <1>0, <3>1 DEF ClientCreate, Mint, Started
    <3>2. CASE CloseHandler(id) \/ TeardownEnds(id)
      BY <1>0, <3>2 DEF CloseHandler, TeardownEnds, Started
    <3> QED BY <1>1, <3>1, <3>2
  <2>3. restore.cur # None => proc'[restore.cur] = proc[restore.cur]
    <3>1. CASE ClientCreate(id)
      BY <1>0, <1>c, <3>1 DEF ClientCreate, Mint
    <3>2. CASE TeardownEnds(id)
      BY <1>0, <1>c, <3>2 DEF TeardownEnds
    <3>3. CASE CloseHandler(id)
      <4>1. proc[id] # "forking"
        BY <3>3 DEF CloseHandler, HoldInv, ForkingIsHeld
      <4> QED BY <1>0, <1>c, <3>3, <4>1 DEF CloseHandler
    <3> QED BY <1>1, <3>1, <3>2, <3>3
  <2> QED BY <1>0, <2>1, <2>2, <2>3, QuietStep
<1>2. ASSUME NEW id \in Ids, RestoreCreate(id) PROVE ArrangeInv'
  BY <1>0, <1>2, MintArranges
<1>3. ASSUME NEW id \in Ids, StartFails(id) \/ InsertRefused(id) PROVE ArrangeInv'
  <2>1. UNCHANGED <<arrangementVars, writtenVars, restoring>> /\ Answered(id, None)
        /\ \E p \in {"gone", "running"} : proc' = [proc EXCEPT ![id] = p]
    BY <1>3 DEF StartFails, InsertRefused
  <2>2. \A i \in Ids : Started(i) => Started(i)'
    BY <1>0, <2>1 DEF Started
  <2>3. CASE restore.cur = id
    <3>1. restore' = [restore EXCEPT !.cur = None, !.created = Append(@, None)] /\ restore.cur # None
      BY <2>1, <2>3, NoneAssumption DEF Answered
    <3> QED BY <1>0, <1>c, <2>1, <2>2, <3>1, EntryStep
  <2>4. CASE restore.cur # id
    <3>1. restore' = restore
      BY <2>1, <2>4 DEF Answered
    <3>2. restore.cur # None => proc'[restore.cur] = proc[restore.cur]
      BY <1>0, <1>c, <2>1, <2>4
    <3> QED BY <1>0, <2>1, <2>2, <3>1, <3>2, QuietStep
  <2> QED BY <2>3, <2>4
<1>4. ASSUME NEW id \in Ids, Insert(id) PROVE ArrangeInv'
  BY <1>0, <1>4, InsertArranges
<1>5. ASSUME NEW id \in Ids, Close(id) PROVE ArrangeInv'
  BY <1>0, <1>5, CloseArranges
<1>6. CASE Reap
  BY <1>0, <1>6, EmptyArranges DEF Reap, restoreVars
<1>7. CASE Shutdown
  BY <1>0, <1>7, EmptyArranges DEF Shutdown, restoreVars
<1>8. ASSUME NEW n \in 0..Cardinality(Ids), NEW ids \in [1..n -> Ids], SetSessionOrder(ids)
      PROVE  ArrangeInv'
  <2>1. n \in Nat
    OBVIOUS
  <2>2. ids \in Seq(Ids)
    BY <2>1
  <2> QED BY <1>0, <1>8, <2>2, OrderArranges
<1>9. ASSUME NEW l \in LayoutOf(Ids), SetPaneLayout(l) PROVE ArrangeInv'
  BY <1>0, <1>9, LayoutArranges
<1>10. ASSUME NEW n \in 1..MaxEntries, NEW stored \in StoredLayouts(n), RestoreBegins(n, stored)
       PROVE  ArrangeInv'
  <2>1. n \in Nat
    OBVIOUS
  <2> QED BY <1>0, <1>10, <2>1, BeginArranges
<1>11. CASE RestoreSkip
  <2>1. /\ restore.phase = "creating" /\ Len(restore.created) < restore.size /\ restore.cur = None
        /\ restore' = [restore EXCEPT !.created = Append(@, None)]
        /\ UNCHANGED <<arrangementVars, writtenVars, restoring, proc>>
    BY <1>11 DEF RestoreSkip, Unfinished, Creating
  <2>2. restore' = [restore EXCEPT !.cur = None, !.created = Append(@, None)]
    BY <2>1 DEF ArrangeInv, RestoreInv
  <2>3. \A i \in Ids : Started(i) => Started(i)'
    BY <2>1 DEF Started
  <2> QED BY <1>0, <2>1, <2>2, <2>3, EntryStep
<1>12. CASE RestoreApplies
  BY <1>0, <1>12, ApplyArranges
<1>13. CASE \/ \E id \in Ids : Attach(id) \/ Detach(id)
            \/ IdleWindowPasses \/ ShutdownReturns \/ ShutdownExpires \/ RestoreReturns
            \/ UNCHANGED vars
  <2>1. UNCHANGED <<arrangementVars, writtenVars, restore, proc>> /\ restoring' \in BOOLEAN
    BY <1>0, <1>13 DEF Attach, Detach, IdleWindowPasses, ShutdownReturns, ShutdownExpires,
       RestoreReturns, vars, restoreVars
  <2>2. \A i \in Ids : Started(i) => Started(i)'
    BY <2>1 DEF Started
  <2> QED BY <1>0, <2>1, <2>2, QuietStep
<1> QED
  BY <1>1, <1>2, <1>3, <1>4, <1>5, <1>6, <1>7, <1>8, <1>9, <1>10, <1>11, <1>12, <1>13
     DEF Next, Carry
-----------------------------------------------------------------------------
(* The results.                                                              *)

LEMMA ArrangeHolds == Spec => [](HoldInv /\ ArrangeInv)
<1>1. Init => HoldInv /\ ArrangeInv
  BY HoldInvInit, ArrangeInit
<1>2. HoldInv /\ ArrangeInv /\ [Next]_vars => HoldInv' /\ ArrangeInv'
  BY HoldInvStep, ArrangeStep
<1> QED BY <1>1, <1>2, PTL DEF Spec

\* What is captured has a layout that fits it, and that normalizing leaves alone.
LEMMA CaptureFits == ArrangeInv => CaptureParses
<1> SUFFICES ASSUME ArrangeInv, NEW exited \in SUBSET sessions
             PROVE  LET l == Captured(exited)
                    IN  /\ ValidShape(l)
                        /\ Panes(l) \subseteq Range(Kept(exited))
                        /\ Kept(exited) # <<>> => Panes(l) # {}
                        /\ NormalizedPanes(l, Kept(exited)) = l
  BY DEF CaptureParses
<1> DEFINE ids == Kept(exited)
           l == Captured(exited)
           there == Filter(order, Ids \ exited)
<1>1. order \in Seq(Ids) /\ layout \in LayoutOf(Ids) /\ ValidShape(layout)
  BY DEF ArrangeInv, TypeOK, LayoutShowsLive, LayoutFits
<1>2. there \in Seq(Ids)
  BY <1>1, FilterHas
<1>3. ids = IF Len(there) <= MaxSetSessions THEN there ELSE SubSeq(there, 1, MaxSetSessions)
  BY DEF Kept
<1> HIDE DEF there
<1>4. ids \in Seq(Ids)
  <2>1. MaxSetSessions \in Nat
    BY BoundAssumption
  <2> QED BY <1>2, <1>3, <2>1
<1>5. l = NormalizedPanes(layout, ids)
  BY DEF Captured
<1>6. layout.left = None \/ layout.left # layout.right
  BY <1>1 DEF ValidShape
<1> HIDE DEF ids, l
<1>7. /\ l \in LayoutOf(Ids) /\ ValidShape(l) /\ Panes(l) \subseteq Range(ids)
      /\ ids # <<>> => Shown(l, l.selected) # None
      /\ ids = <<>> => l = DefaultLayout
  BY <1>1, <1>4, <1>5, <1>6, NormalizedFits
<1>8. ids # <<>> => Panes(l) # {}
  BY <1>7 DEF Shown, Panes
<1>9. NormalizedPanes(l, ids) = l
  <2>1. CASE ids = <<>>
    <3>1. NormalizedPanes(l, ids) = DefaultLayout
      BY <2>1 DEF NormalizedPanes, Normalized
    <3> QED BY <2>1, <3>1, <1>7
  <2>2. CASE ids # <<>>
    BY <1>4, <1>7, <1>8, <2>2, NormalizedKeeps
  <2> QED BY <2>1, <2>2
<1> QED BY <1>7, <1>8, <1>9 DEF ids, l

\* A restored order, place by place, begins with the sessions created.
LEMMA RebuiltPlaces == ArrangeInv => RestoreRebuilds
<1> SUFFICES ASSUME ArrangeInv, Undisturbed
             PROVE  /\ SubSeq(order, 1, restore.size) = restore.created
                    /\ Panes(restore.stored) # {} => layout = RestoredLayout
  BY DEF RestoreRebuilds, Undisturbed
<1>1. /\ restore.size <= Len(order)
      /\ \A k \in 1..restore.size : order[k] = restore.created[k]
      /\ Panes(restore.stored) # {} => layout = RestoredLayout
  BY DEF ArrangeInv, Rebuilt
<1>2. /\ order \in Seq(Ids) /\ restore.created \in Seq(Ids \cup {None})
      /\ restore.size \in Nat /\ Len(restore.created) = restore.size
  BY DEF ArrangeInv, TypeOK, RestoreInv, Undisturbed
<1> DEFINE first == SubSeq(order, 1, restore.size)
           c == restore.created
<1>3. /\ first \in Seq(Ids) /\ Len(first) = restore.size
      /\ \A k \in 1..restore.size : first[k] = order[k]
  BY <1>1, <1>2
<1>4. DOMAIN first = 1..restore.size /\ DOMAIN c = 1..restore.size
  BY <1>2, <1>3
<1>5. first = [k \in 1..restore.size |-> first[k]] /\ c = [k \in 1..restore.size |-> c[k]]
  BY <1>2, <1>3, <1>4
<1> HIDE DEF first
<1>6. first = c
  BY <1>1, <1>3, <1>5
<1> QED BY <1>1, <1>6 DEF first

\* Through every interleaving of creates, closes, reaps, client writes, restores
\* and a shutdown, the order is the live set, each session once, the layout keeps
\* its shape and shows live sessions, and what CaptureSessionSet would store at
\* any moment is a set that ParseSessionSet accepts and a restore shows as it was.
THEOREM ArrangementHolds == Spec => []ArrangementInv
<1>1. HoldInv /\ ArrangeInv => ArrangementInv
  BY CaptureFits DEF ArrangeInv, ArrangementInv
<1> QED BY <1>1, ArrangeHolds, PTL

\* What a client arranged since the last restore began stands, among the sessions
\* that still live: neither the restore nor any later step overwrites it.
THEOREM ClientsAreNotOverwritten == Spec => []ClientsPrevail
<1>1. HoldInv /\ ArrangeInv => ClientsPrevail
  BY DEF ArrangeInv
<1> QED BY <1>1, ArrangeHolds, PTL

\* A restore of which every session is there and over which no client wrote has
\* put them first, in the stored order, and shows the stored layout.
THEOREM RestoresRebuild == Spec => []RestoreRebuilds
<1>1. HoldInv /\ ArrangeInv => RestoreRebuilds
  BY RebuiltPlaces
<1> QED BY <1>1, ArrangeHolds, PTL
=============================================================================
