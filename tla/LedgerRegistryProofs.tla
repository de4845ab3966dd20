------------------------ MODULE LedgerRegistryProofs ------------------------
(***************************************************************************)
(* The ownership of the input ledgers, for any number of sockets, keys and   *)
(* ledgers and any cap.  LedgerInv is inductive; the properties of           *)
(* LedgerRegistry that TLC checks on small instances follow from it.         *)
(***************************************************************************)
EXTENDS LedgerRegistry, FiniteSetTheorems, TLAPS

\* What the position of a socket's goroutine says about the two ledgers it
\* refers to: it has something to leave exactly between the swap and the
\* release, and past the swap it is attached.
Position ==
    \A s \in Sockets :
        /\ pc[s] = "leaving" <=> leaving[s] # NoLedger
        /\ pc[s] \in {"leaving", "taking", "answering", "counted"} =>
                attached[s] # NoLedger
        /\ pc[s] = "leaving" => attached[s] # leaving[s]
        /\ pc[s] = "gone" => attached[s] = NoLedger

LedgerInv ==
    /\ TypeOK
    /\ Position
    /\ OwnerAttached
    /\ FencedOwnsNothing
    /\ UnfencedKeepsLedger
    /\ AckIsExact

-----------------------------------------------------------------------------
(* The helpers of the session map stay within their types.                   *)

Maps == [Keys -> Ledgers \cup {NoLedger}]

\* A map's ledgers are ledgers.
LEMMA MappedType ==
    ASSUME NEW map \in Maps
    PROVE  Mapped(map) \subseteq Ledgers
BY DEF Maps, Mapped

\* Reclaiming ledgers leaves a map.
LEMMA WithoutType ==
    ASSUME NEW map \in Maps, NEW dead
    PROVE  Without(map, dead) \in Maps
BY DEF Maps, Without

\* Stamping a ledger leaves an order on ledgers, whatever is stamped.
LEMMA TouchType ==
    ASSUME NEW map \in Maps, NEW l, older \in SUBSET (Ledgers \X Ledgers)
    PROVE  Touch(l, map) \in SUBSET (Ledgers \X Ledgers)
BY MappedType DEF Touch

\* A ledger nobody refers to has no owner, so it may be handed out as new.
LEMMA UnreferencedUnowned ==
    ASSUME LedgerInv, NEW l \in Ledgers, Unreferenced(l)
    PROVE  owner[l] = NoSocket
<1>1. owner[l] \notin Sockets
  BY DEF LedgerInv, OwnerAttached, Unreferenced
<1> QED BY <1>1 DEF LedgerInv, TypeOK

-----------------------------------------------------------------------------
(* The swap of ResolveSession, alone.                                        *)

\* After the swap the socket refers to the new ledger and, if it had another,
\* to the one it must release; nothing else about any socket moves.
LEMMA SwapFacts ==
    ASSUME LedgerInv, NEW s \in Sockets, NEW l \in Ledgers,
           pc[s] = "frame", Swap(s, l)
    PROVE  /\ pc' \in [Sockets -> PC]
           /\ attached' \in [Sockets -> Ledgers \cup {NoLedger}]
           /\ leaving' \in [Sockets -> Ledgers \cup {NoLedger}]
           /\ Position'
           /\ \A t \in Sockets \ {s} :
                 pc'[t] = pc[t] /\ attached'[t] = attached[t] /\ leaving'[t] = leaving[t]
           /\ attached'[s] = l
           /\ \/ pc'[s] = "taking" /\ attached[s] \in {NoLedger, l}
              \/ pc'[s] = "leaving" /\ leaving'[s] = attached[s] /\ attached[s] # l
<1>1. CASE attached[s] \in {NoLedger, l}
  BY <1>1, NoLedgerAssumption DEF LedgerInv, TypeOK, PC, Position, Swap, Goto
<1>2. CASE attached[s] \notin {NoLedger, l}
  BY <1>2, NoLedgerAssumption DEF LedgerInv, TypeOK, PC, Position, Swap, Goto
<1> QED BY <1>1, <1>2

-----------------------------------------------------------------------------
(* The invariant.                                                            *)

\* The empty registry satisfies it.
LEMMA LedgerInvInit == Init => LedgerInv
BY NoSocketAssumption, NoLedgerAssumption
DEF Init, LedgerInv, TypeOK, PC, Position, OwnerAttached, FencedOwnsNothing,
    UnfencedKeepsLedger, Settled, AckIsExact

\* The steps that move one goroutine along and touch no ledger.
LEMMA MoveStep ==
    ASSUME LedgerInv, NEW s \in Sockets,
           \/ Connect(s) \/ ReadMessage(s) \/ ReadError(s) \/ CloseSuperseded(s)
           \/ InputUncounted(s) \/ InputRefused(s) \/ PtyWriteFails(s)
           \/ StampInput(s) \/ TakeRefused(s) \/ Answer(s) \/ Unregister(s)
    PROVE  LedgerInv'
<1>1. /\ UNCHANGED <<attached, leaving, fenced, closing, sessions, ledgerVars>>
      /\ \E where \in PC : Goto(s, where)
      /\ pc[s] \notin {"leaving", "departing"}
      /\ pc'[s] \notin {"leaving", "taking", "gone"}
      /\ pc'[s] \in Settled \/ fenced[s] \/ pc[s] = "ending"
      /\ pc'[s] = "counted" => pc[s] = "counted"
      /\ pc'[s] = "answering" => pc[s] = "taking"
      /\ pc[s] \in {"gone", "taking"} \cup Settled
      /\ pc[s] = "taking" => fenced[s]
      /\ pc[s] = "gone" => attached[s] = NoLedger
  BY DEF LedgerInv, TypeOK, Position, PC, Settled, Goto, mapVars, ledgerVars, Connect, ReadMessage, ReadError,
         CloseSuperseded, InputUncounted, InputRefused, PtyWriteFails,
         StampInput, TakeRefused, Answer, Unregister
<1>2. older' \in SUBSET (Ledgers \X Ledgers)
  <2>1. older' = older \/ older' = Touch(attached[s], sessions)
    BY DEF mapVars, Connect, ReadMessage, ReadError, CloseSuperseded,
           InputUncounted, InputRefused, PtyWriteFails, StampInput,
           TakeRefused, Answer, Unregister
  <2> QED BY <2>1, TouchType DEF LedgerInv, TypeOK, Maps
<1>3. TypeOK'
  BY <1>1, <1>2 DEF LedgerInv, TypeOK, Goto, ledgerVars
<1>4. Position'
  BY <1>1 DEF LedgerInv, TypeOK, Position, Settled, Goto
<1>5. OwnerAttached'
  BY <1>1, NoLedgerAssumption DEF LedgerInv, TypeOK, Position, OwnerAttached, Goto, ledgerVars
<1>6. FencedOwnsNothing'
  BY <1>1 DEF LedgerInv, FencedOwnsNothing, ledgerVars
<1>7. UnfencedKeepsLedger'
  BY <1>1 DEF LedgerInv, TypeOK, UnfencedKeepsLedger, Settled, Goto, ledgerVars
<1>8. AckIsExact'
  BY <1>1 DEF LedgerInv, TypeOK, Position, AckIsExact, Goto, ledgerVars
<1> QED BY <1>3, <1>4, <1>5, <1>6, <1>7, <1>8 DEF LedgerInv

\* An input frame is counted by the owner alone.
LEMMA InputStep ==
    ASSUME LedgerInv, NEW s \in Sockets, InputApplied(s)
    PROVE  LedgerInv'
<1> DEFINE l == attached[s]
<1>1. l \in Ledgers /\ owner[l] = s
  BY DEF LedgerInv, TypeOK, InputApplied
<1>2. TypeOK'
  BY <1>1 DEF LedgerInv, TypeOK, PC, InputApplied, Goto, mapVars
<1>3. Position' /\ OwnerAttached' /\ FencedOwnsNothing' /\ UnfencedKeepsLedger'
  BY <1>1 DEF LedgerInv, TypeOK, PC, Position, OwnerAttached, FencedOwnsNothing,
              UnfencedKeepsLedger, Settled, InputApplied, Goto
<1>4. AckIsExact'
  BY <1>1, NoLedgerAssumption DEF LedgerInv, TypeOK, Position, AckIsExact, InputApplied, Goto
<1> QED BY <1>2, <1>3, <1>4 DEF LedgerInv

\* A known key: the socket moves to the ledger, which changes nothing of it yet.
LEMMA ResolveHitStep ==
    ASSUME LedgerInv, NEW s \in Sockets, NEW k \in Keys, ResolveHit(s, k)
    PROVE  LedgerInv'
<1> DEFINE l == sessions[k]
<1>1. l \in Ledgers /\ pc[s] = "frame" /\ Swap(s, l)
  BY DEF LedgerInv, TypeOK, ResolveHit
<1>2. /\ UNCHANGED <<fenced, closing, sessions, owner, received, granted, applied>>
      /\ older' \in SUBSET (Ledgers \X Ledgers)
  BY TouchType DEF LedgerInv, TypeOK, Maps, ResolveHit, ledgerVars
<1>3. TypeOK' /\ Position'
  BY <1>1, <1>2, SwapFacts DEF LedgerInv, TypeOK
<1>4. OwnerAttached'
  BY <1>1, <1>2, SwapFacts, NoLedgerAssumption DEF LedgerInv, TypeOK, OwnerAttached
<1>5. FencedOwnsNothing' /\ UnfencedKeepsLedger'
  BY <1>1, <1>2, SwapFacts DEF LedgerInv, TypeOK, FencedOwnsNothing, UnfencedKeepsLedger, Settled
<1>6. AckIsExact'
  BY <1>1, <1>2, SwapFacts DEF LedgerInv, TypeOK, OwnerAttached, AckIsExact
<1> QED BY <1>3, <1>4, <1>5, <1>6 DEF LedgerInv

\* An unknown key: the ledger the socket moves to is new and belongs to nobody,
\* whatever the GC and the cap reclaim on the way.
LEMMA ResolveMissStep ==
    ASSUME LedgerInv, NEW s \in Sockets, NEW k \in Keys, ResolveMiss(s, k)
    PROVE  LedgerInv'
<1>1. PICK l \in Ledgers :
        /\ Unreferenced(l)
        /\ LET inserted == [sessions EXCEPT ![k] = l]
               order == Touch(l, inserted)
           IN  \E idle \in IdleSets(inserted, order, l) :
                 LET kept == Without(inserted, idle)
                 IN  \E victims \in Victims(kept, order) :
                        /\ sessions' = Without(kept, victims)
                        /\ older' = Among(order, sessions')
        /\ owner' = [owner EXCEPT ![l] = NoSocket]
        /\ received' = [received EXCEPT ![l] = 0]
        /\ Swap(s, l)
  BY DEF ResolveMiss
<1>2. pc[s] = "frame" /\ UNCHANGED <<fenced, closing, granted, applied>>
  BY DEF ResolveMiss
<1>3. sessions' \in Maps /\ older' \in SUBSET (Ledgers \X Ledgers)
  <2> DEFINE inserted == [sessions EXCEPT ![k] = l]
             order == Touch(l, inserted)
  <2>1. inserted \in Maps
    BY DEF LedgerInv, TypeOK, Maps
  <2>2. order \in SUBSET (Ledgers \X Ledgers)
    BY <2>1, TouchType DEF LedgerInv, TypeOK
  <2>3. PICK idle \in IdleSets(inserted, order, l) :
          \E victims \in Victims(Without(inserted, idle), order) :
             /\ sessions' = Without(Without(inserted, idle), victims)
             /\ older' = Among(order, sessions')
    BY <1>1
  <2>4. Without(inserted, idle) \in Maps
    BY <2>1, WithoutType
  <2> QED BY <2>2, <2>3, <2>4, WithoutType DEF Among
<1>4. owner[l] = NoSocket /\ owner' = owner
  BY <1>1, UnreferencedUnowned DEF LedgerInv, TypeOK
<1>5. TypeOK' /\ Position'
  BY <1>1, <1>2, <1>3, SwapFacts DEF LedgerInv, TypeOK, Maps
<1>6. OwnerAttached'
  BY <1>1, <1>2, <1>4, SwapFacts, NoLedgerAssumption DEF LedgerInv, TypeOK, OwnerAttached
<1>7. FencedOwnsNothing' /\ UnfencedKeepsLedger'
  BY <1>1, <1>2, <1>4, SwapFacts DEF LedgerInv, TypeOK, FencedOwnsNothing, UnfencedKeepsLedger, Settled
<1>8. AckIsExact'
  BY <1>1, <1>2, <1>4, SwapFacts, NoSocketAssumption DEF LedgerInv, TypeOK, OwnerAttached, AckIsExact
<1> QED BY <1>5, <1>6, <1>7, <1>8 DEF LedgerInv

\* Leaving the previous ledger: from here on the socket owns nothing it is not
\* attached to, so no fence can reach it through the ledger it left.
LEMMA ReleasePreviousStep ==
    ASSUME LedgerInv, NEW s \in Sockets, ReleasePrevious(s)
    PROVE  LedgerInv'
<1> DEFINE l == leaving[s]
<1>1. /\ l \in Ledgers
      /\ pc[s] = "leaving" /\ pc' = [pc EXCEPT ![s] = "taking"]
      /\ leaving' = [leaving EXCEPT ![s] = NoLedger]
      /\ UNCHANGED <<attached, fenced, closing, sessions, older, received, granted, applied>>
      /\ attached[s] # NoLedger /\ attached[s] # l
  BY DEF LedgerInv, TypeOK, Position, ReleasePrevious, Goto, mapVars
<1>2. \A m \in Ledgers : owner'[m] = IF m = l /\ owner[l] = s THEN NoSocket ELSE owner[m]
  BY <1>1 DEF LedgerInv, TypeOK, ReleasePrevious
<1>3. TypeOK'
  BY <1>1 DEF LedgerInv, TypeOK, PC, ReleasePrevious
<1>4. Position'
  BY <1>1, NoLedgerAssumption DEF LedgerInv, TypeOK, Position
<1>5. OwnerAttached'
  BY <1>1, <1>2, NoSocketAssumption DEF LedgerInv, TypeOK, OwnerAttached
<1>6. FencedOwnsNothing'
  BY <1>1, <1>2, NoSocketAssumption DEF LedgerInv, TypeOK, FencedOwnsNothing
<1>7. UnfencedKeepsLedger'
  BY <1>1, <1>2, NoSocketAssumption DEF LedgerInv, TypeOK, UnfencedKeepsLedger, Settled
<1>8. AckIsExact'
  BY <1>1, <1>2, NoSocketAssumption DEF LedgerInv, TypeOK, OwnerAttached, AckIsExact
<1> QED BY <1>3, <1>4, <1>5, <1>6, <1>7, <1>8 DEF LedgerInv

\* The ledger changes hands.  The displaced socket owned this ledger and so no
\* other, the taker is not fenced, and the ack is what the ledger counts.
LEMMA TakeLedgerStep ==
    ASSUME LedgerInv, NEW s \in Sockets, TakeLedger(s)
    PROVE  LedgerInv'
<1> DEFINE l == attached[s]
<1>1. /\ l \in Ledgers
      /\ ~fenced[s]
      /\ pc[s] = "taking" /\ pc' = [pc EXCEPT ![s] = "answering"]
      /\ UNCHANGED <<attached, leaving, sessions, older, received>>
      /\ closing' = closing \cup Displaced(s)
      /\ owner' = [owner EXCEPT ![l] = s]
      /\ granted' = [granted EXCEPT ![s] = received[l]]
      /\ applied' = [applied EXCEPT ![s] = 0]
      /\ Displaced(s) = {owner[l]} \ {NoSocket, s}
  BY DEF LedgerInv, TypeOK, Position, TakeLedger, Take, Displaced, Goto, mapVars
<1>2. /\ fenced' \in [Sockets -> BOOLEAN]
      /\ \A t \in Sockets : fenced'[t] <=> fenced[t] \/ (t = owner[l] /\ t # s)
  <2>1. fenced' = [t \in Sockets |-> fenced[t] \/ t \in Displaced(s)]
    BY DEF TakeLedger, Take
  <2>2. \A t \in Sockets : fenced[t] \in BOOLEAN
    BY DEF LedgerInv, TypeOK
  <2> QED BY <1>1, <2>1, <2>2, NoSocketAssumption
<1>3. closing' \in SUBSET Sockets
  BY <1>1 DEF LedgerInv, TypeOK
<1>4. TypeOK'
  BY <1>1, <1>2, <1>3 DEF LedgerInv, TypeOK, PC
<1>5. Position'
  BY <1>1 DEF LedgerInv, TypeOK, Position
<1>6. OwnerAttached'
  BY <1>1 DEF LedgerInv, TypeOK, OwnerAttached
<1>7. FencedOwnsNothing'
  <2> SUFFICES ASSUME NEW t \in Sockets, NEW m \in Ledgers, fenced'[t]
               PROVE  owner'[m] # t
    BY DEF FencedOwnsNothing
  <2>1. CASE fenced[t]
    BY <1>1, <2>1 DEF LedgerInv, TypeOK, FencedOwnsNothing
  <2>2. CASE t = owner[l] /\ t # s
    BY <1>1, <2>2 DEF LedgerInv, TypeOK, Position, OwnerAttached
  <2> QED BY <1>2, <2>1, <2>2
<1>8. UnfencedKeepsLedger'
  BY <1>1, <1>2 DEF LedgerInv, TypeOK, UnfencedKeepsLedger, Settled
<1>9. AckIsExact'
  BY <1>1 DEF LedgerInv, TypeOK, OwnerAttached, AckIsExact
<1> QED BY <1>4, <1>5, <1>6, <1>7, <1>8, <1>9 DEF LedgerInv

\* A departing socket takes nothing with it.
LEMMA ReleaseOnExitStep ==
    ASSUME LedgerInv, NEW s \in Sockets, ReleaseOnExit(s)
    PROVE  LedgerInv'
<1> DEFINE l == attached[s]
<1>1. /\ pc[s] = "departing" /\ pc' = [pc EXCEPT ![s] = "gone"]
      /\ attached' = [attached EXCEPT ![s] = NoLedger]
      /\ fenced' = [fenced EXCEPT ![s] = FALSE]
      /\ closing' = closing \ {s}
      /\ granted' = [granted EXCEPT ![s] = 0]
      /\ applied' = [applied EXCEPT ![s] = 0]
      /\ UNCHANGED <<leaving, sessions, older, received>>
  BY DEF ReleaseOnExit, Exit, Goto, mapVars
<1>2. \A m \in Ledgers : owner'[m] = IF m = l /\ owner[l] = s THEN NoSocket ELSE owner[m]
  BY NoLedgerAssumption DEF LedgerInv, TypeOK, ReleaseOnExit
<1>3. TypeOK'
  <2>1. owner' \in [Ledgers -> Sockets \cup {NoSocket}]
    BY DEF LedgerInv, TypeOK, ReleaseOnExit
  <2> QED BY <1>1, <2>1 DEF LedgerInv, TypeOK, PC
<1>4. \A m \in Ledgers : owner'[m] # s
  BY <1>1, <1>2, NoSocketAssumption DEF LedgerInv, TypeOK, OwnerAttached
<1>5. Position'
  BY <1>1 DEF LedgerInv, TypeOK, Position
<1>6. OwnerAttached'
  BY <1>1, <1>2, <1>4, NoSocketAssumption DEF LedgerInv, TypeOK, OwnerAttached
<1>7. FencedOwnsNothing'
  BY <1>1, <1>2, <1>4, NoSocketAssumption DEF LedgerInv, TypeOK, FencedOwnsNothing
<1>8. UnfencedKeepsLedger'
  BY <1>1, <1>2, NoSocketAssumption DEF LedgerInv, TypeOK, UnfencedKeepsLedger, Settled
<1>9. AckIsExact'
  BY <1>1, <1>2, <1>4, NoSocketAssumption DEF LedgerInv, TypeOK, OwnerAttached, AckIsExact
<1> QED BY <1>3, <1>5, <1>6, <1>7, <1>8, <1>9 DEF LedgerInv

\* Every step of every socket preserves the invariant.
LEMMA LedgerInvStep == LedgerInv /\ [Next]_vars => LedgerInv'
<1> SUFFICES ASSUME LedgerInv, [Next]_vars PROVE LedgerInv'
  OBVIOUS
<1>1. CASE Next
  <2>1. PICK s \in Sockets :
          \/ Connect(s) \/ ReadMessage(s) \/ ReadError(s) \/ CloseSuperseded(s)
          \/ Handle(s) \/ Continue(s)
    BY <1>1 DEF Next
  <2>2. CASE InputApplied(s)
    BY <2>2, InputStep
  <2>3. CASE \E k \in Keys : ResolveHit(s, k)
    BY <2>3, ResolveHitStep
  <2>4. CASE \E k \in Keys : ResolveMiss(s, k)
    BY <2>4, ResolveMissStep
  <2>5. CASE ReleasePrevious(s)
    BY <2>5, ReleasePreviousStep
  <2>6. CASE TakeLedger(s)
    BY <2>6, TakeLedgerStep
  <2>7. CASE ReleaseOnExit(s)
    BY <2>7, ReleaseOnExitStep
  <2>8. CASE \/ Connect(s) \/ ReadMessage(s) \/ ReadError(s) \/ CloseSuperseded(s)
             \/ InputUncounted(s) \/ InputRefused(s) \/ PtyWriteFails(s)
             \/ StampInput(s) \/ TakeRefused(s) \/ Answer(s) \/ Unregister(s)
    BY <2>8, MoveStep
  <2> QED BY <2>1, <2>2, <2>3, <2>4, <2>5, <2>6, <2>7, <2>8 DEF Handle, Continue
<1>2. CASE UNCHANGED vars
  BY <1>2 DEF vars, LedgerInv, TypeOK, Position, OwnerAttached, FencedOwnsNothing,
              UnfencedKeepsLedger, AckIsExact
<1> QED BY <1>1, <1>2

\* The ledger bookkeeping of clientRegistry is well-typed and the strengthened
\* invariant holds of every reachable state.
THEOREM LedgerInvHolds == Spec => []LedgerInv
<1>1. Init => LedgerInv
  BY LedgerInvInit
<1>2. LedgerInv /\ [Next]_vars => LedgerInv'
  BY LedgerInvStep
<1> QED BY <1>1, <1>2, PTL DEF Spec

\* clientRegistry's state keeps its types.
THEOREM LedgerTypes == Spec => []TypeOK
<1>1. LedgerInv => TypeOK
  BY DEF LedgerInv
<1> QED BY <1>1, LedgerInvHolds, PTL

\* ResolveSession, ApplyInput: a fenced socket owns no ledger, whatever it was
\* doing when the fence came down, and nobody else is refused.
THEOREM LedgersHaveTheirOwners == Spec => []OwnershipInv
<1>1. LedgerInv => OwnershipInv
  BY DEF LedgerInv, OwnershipInv
<1> QED BY <1>1, LedgerInvHolds, PTL

\* The ack of a resume counts every frame applied before it and none after.
THEOREM ResumeAckIsExact == Spec => []AckIsExact
<1>1. LedgerInv => AckIsExact
  BY DEF LedgerInv
<1> QED BY <1>1, LedgerInvHolds, PTL

-----------------------------------------------------------------------------
(* The cap.  It is inductive with the finiteness of the retained ledgers:    *)
(* keys are as many as clients care to name.                                 *)

CapInv == IsFiniteSet(Mapped(sessions)) /\ CapHolds

\* What is reclaimed is gone and nothing else comes.
LEMMA KeptMapped ==
    ASSUME NEW map \in Maps, NEW dead
    PROVE  Mapped(Without(map, dead)) \subseteq Mapped(map) \ dead
BY DEF Maps, Mapped, Without

\* evictOldestSession: one ledger over the cap, and one goes.
LEMMA EvictionSuffices ==
    ASSUME NEW map \in Maps, NEW order, IsFiniteSet(Mapped(map)),
           Cardinality(Mapped(map)) <= Cap + 1, NEW victims \in Victims(map, order)
    PROVE  /\ IsFiniteSet(Mapped(Without(map, victims)))
           /\ Cardinality(Mapped(Without(map, victims))) <= Cap
<1> DEFINE kept == Mapped(Without(map, victims))
<1>1. kept \subseteq Mapped(map) \ victims
  BY KeptMapped
<1>2. IsFiniteSet(kept) /\ Cardinality(kept) \in Nat /\ Cardinality(Mapped(map)) \in Nat
  BY <1>1, FS_Subset, FS_CardinalityType
<1>3. CASE Cardinality(Mapped(map)) <= Cap
  <2>1. kept \subseteq Mapped(map)
    BY <1>1
  <2>2. Cardinality(kept) <= Cardinality(Mapped(map))
    BY <2>1, FS_Subset
  <2> QED BY <1>2, <1>3, <2>2, BoundAssumption
<1>4. CASE ~(Cardinality(Mapped(map)) <= Cap)
  <2>1. PICK l \in Mapped(map) : victims = {l}
    BY <1>4 DEF Victims, Oldest
  <2>2. Cardinality(Mapped(map) \ {l}) = Cardinality(Mapped(map)) - 1 /\ IsFiniteSet(Mapped(map) \ {l})
    BY FS_RemoveElement
  <2>3. kept \subseteq Mapped(map) \ {l}
    BY <1>1, <2>1
  <2>4. Cardinality(kept) <= Cardinality(Mapped(map) \ {l})
    BY <2>2, <2>3, FS_Subset
  <2> QED BY <1>2, <2>2, <2>4, BoundAssumption
<1> QED BY <1>3, <1>4

LEMMA CapInvInit == Init => CapInv
<1> SUFFICES ASSUME Init PROVE CapInv
  OBVIOUS
<1>1. Mapped(sessions) = {}
  BY DEF Init, Mapped
<1> QED BY <1>1, FS_EmptySet, BoundAssumption DEF CapInv, CapHolds

\* A resume on an unknown key: the new ledger, then the collection, then the cap.
LEMMA ResolveMissKeepsCap ==
    ASSUME LedgerInv, CapInv, NEW s \in Sockets, NEW k \in Keys, ResolveMiss(s, k)
    PROVE  CapInv'
<1>1. PICK l \in Ledgers :
        LET inserted == [sessions EXCEPT ![k] = l]
            order == Touch(l, inserted)
        IN  \E idle \in IdleSets(inserted, order, l) :
              LET kept == Without(inserted, idle)
              IN  \E victims \in Victims(kept, order) :
                     sessions' = Without(kept, victims)
  BY DEF ResolveMiss
<1> DEFINE inserted == [sessions EXCEPT ![k] = l]
           order == Touch(l, inserted)
<1>2. PICK idle \in IdleSets(inserted, order, l) :
        \E victims \in Victims(Without(inserted, idle), order) :
            sessions' = Without(Without(inserted, idle), victims)
  BY <1>1
<1> DEFINE kept == Without(inserted, idle)
<1>3. PICK victims \in Victims(kept, order) : sessions' = Without(kept, victims)
  BY <1>2
<1>4. inserted \in Maps /\ kept \in Maps
  <2>1. inserted \in Maps
    BY DEF LedgerInv, TypeOK, Maps
  <2> QED BY <2>1, WithoutType
<1>5. Mapped(inserted) \subseteq Mapped(sessions) \cup {l}
  BY DEF Mapped, LedgerInv, TypeOK
<1>6. Mapped(kept) \subseteq Mapped(sessions) \cup {l}
  BY <1>4, <1>5, KeptMapped
<1>7. IsFiniteSet(Mapped(sessions) \cup {l}) /\ Cardinality(Mapped(sessions) \cup {l}) <= Cap + 1
  <2>1. IsFiniteSet(Mapped(sessions)) /\ Cardinality(Mapped(sessions)) <= Cap
    BY DEF CapInv, CapHolds
  <2>2. Cardinality(Mapped(sessions)) \in Nat
    BY <2>1, FS_CardinalityType
  <2>3. /\ IsFiniteSet(Mapped(sessions) \cup {l})
        /\ \/ Cardinality(Mapped(sessions) \cup {l}) = Cardinality(Mapped(sessions))
           \/ Cardinality(Mapped(sessions) \cup {l}) = Cardinality(Mapped(sessions)) + 1
    BY <2>1, FS_AddElement
  <2> QED BY <2>1, <2>2, <2>3, BoundAssumption
<1>8. IsFiniteSet(Mapped(kept)) /\ Cardinality(Mapped(kept)) <= Cap + 1
  <2>1. Cardinality(Mapped(kept)) <= Cardinality(Mapped(sessions) \cup {l}) /\ IsFiniteSet(Mapped(kept))
    BY <1>6, <1>7, FS_Subset
  <2> QED BY <1>7, <2>1, FS_CardinalityType, BoundAssumption
<1> HIDE DEF inserted, order, kept
<1>9. IsFiniteSet(Mapped(sessions')) /\ Cardinality(Mapped(sessions')) <= Cap
  BY <1>3, <1>4, <1>8, EvictionSuffices
<1> QED BY <1>9 DEF CapInv, CapHolds, Mapped

LEMMA CapInvStep == LedgerInv /\ CapInv /\ [Next]_vars => CapInv'
<1> SUFFICES ASSUME LedgerInv, CapInv, [Next]_vars PROVE CapInv'
  OBVIOUS
<1>1. CASE sessions' = sessions
  BY <1>1 DEF CapInv, CapHolds, Mapped
<1>2. CASE sessions' # sessions
  <2>1. PICK s \in Sockets :
          \/ Connect(s) \/ ReadMessage(s) \/ ReadError(s) \/ CloseSuperseded(s)
          \/ Handle(s) \/ Continue(s)
    BY <1>2 DEF Next, vars
  <2>2. \E k \in Keys : ResolveMiss(s, k)
    BY <1>2, <2>1 DEF Connect, ReadMessage, ReadError, CloseSuperseded, Handle, Continue, mapVars,
       InputUncounted, InputApplied, InputRefused, PtyWriteFails, StampInput, ResolveHit,
       ReleasePrevious, TakeRefused, TakeLedger, Take, Answer, Unregister, ReleaseOnExit, Exit
  <2> QED BY <2>2, ResolveMissKeepsCap
<1> QED BY <1>1, <1>2

\* evictOldestSession: no more than maxResumeSessions ledgers are ever retained,
\* whichever of them are attached.
THEOREM RetainedLedgersAreCapped == Spec => []CapHolds
<1>1. Init => CapInv
  BY CapInvInit
<1>2. LedgerInv /\ CapInv /\ [Next]_vars => CapInv'
  BY CapInvStep
<1>3. CapInv => CapHolds
  BY DEF CapInv
<1> QED BY <1>1, <1>2, <1>3, LedgerInvHolds, PTL DEF Spec

-----------------------------------------------------------------------------
(* No ledger is reclaimed from under a connected socket.                     *)

\* A ledger that is not reclaimed stays, under the key it had.
LEMMA SparedMapped ==
    ASSUME NEW map \in Maps, NEW dead, NEW m \in Mapped(map), m \notin dead
    PROVE  m \in Mapped(Without(map, dead))
BY DEF Maps, Mapped, Without

\* evictOldestSession: while some retained ledger is held by nobody, the one
\* that goes is held by nobody.
LEMMA VictimsAreSpare ==
    ASSUME NEW map, NEW order, NEW victims \in Victims(map, order),
           NEW spared \in Mapped(map), spared \notin AttachedSessions
    PROVE  victims \cap AttachedSessions = {}
<1>1. CASE victims = {}
  BY <1>1
<1>2. CASE victims # {}
  <2>1. PICK l \in Mapped(map) \ AttachedSessions : victims = {l}
    BY <1>2 DEF Victims, Oldest
  <2> QED BY <2>1
<1> QED BY <1>1, <1>2

\* A resume on an unknown key.  The ledger it inserts is not attached until the
\* cap was enforced, so the cap always finds one to spare: that one, if need be.
LEMMA ResolveMissSparesAttached ==
    ASSUME LedgerInv, NEW s \in Sockets, NEW k \in Keys, ResolveMiss(s, k),
           NEW m \in AttachedSessions, m \in Mapped(sessions)
    PROVE  m \in Mapped(sessions')
<1>1. PICK l \in Ledgers :
        /\ Unreferenced(l)
        /\ LET inserted == [sessions EXCEPT ![k] = l]
               order == Touch(l, inserted)
           IN  \E idle \in IdleSets(inserted, order, l) :
                 LET kept == Without(inserted, idle)
                 IN  \E victims \in Victims(kept, order) :
                        sessions' = Without(kept, victims)
  BY DEF ResolveMiss
<1> DEFINE inserted == [sessions EXCEPT ![k] = l]
           order == Touch(l, inserted)
<1>2. PICK idle \in IdleSets(inserted, order, l) :
        \E victims \in Victims(Without(inserted, idle), order) :
            sessions' = Without(Without(inserted, idle), victims)
  BY <1>1
<1> DEFINE kept == Without(inserted, idle)
<1>3. PICK victims \in Victims(kept, order) : sessions' = Without(kept, victims)
  BY <1>2
<1>4. inserted \in Maps /\ kept \in Maps
  <2>1. inserted \in Maps
    BY DEF LedgerInv, TypeOK, Maps
  <2> QED BY <2>1, WithoutType
<1>5. l \in Mapped(inserted) /\ m \in Mapped(inserted)
  <2>1. sessions[k] = NoLedger
    BY DEF ResolveMiss
  <2> QED BY <2>1, NoLedgerAssumption DEF LedgerInv, TypeOK, Mapped
<1>6. l \notin idle /\ m \notin idle
  BY DEF IdleSets
<1>7. l \in Mapped(kept) /\ m \in Mapped(kept)
  BY <1>4, <1>5, <1>6, SparedMapped
<1>8. l \notin AttachedSessions
  BY <1>1 DEF Unreferenced, AttachedSessions, Clients
<1> HIDE DEF inserted, order, kept
<1>9. m \notin victims
  BY <1>3, <1>7, <1>8, VictimsAreSpare
<1> QED BY <1>3, <1>4, <1>7, <1>9, SparedMapped

LEMMA AttachedStaysStep ==
    ASSUME LedgerInv, [Next]_vars, NEW s \in Clients, attached[s] \in Mapped(sessions)
    PROVE  attached[s] \in Mapped(sessions')
<1>1. attached[s] \in AttachedSessions
  BY DEF AttachedSessions, Mapped
<1>2. CASE sessions' = sessions
  BY <1>2
<1>3. CASE sessions' # sessions
  <2>1. PICK t \in Sockets :
          \/ Connect(t) \/ ReadMessage(t) \/ ReadError(t) \/ CloseSuperseded(t)
          \/ Handle(t) \/ Continue(t)
    BY <1>3 DEF Next, vars
  <2>2. \E k \in Keys : ResolveMiss(t, k)
    BY <1>3, <2>1 DEF Connect, ReadMessage, ReadError, CloseSuperseded, Handle, Continue, mapVars,
       InputUncounted, InputApplied, InputRefused, PtyWriteFails, StampInput, ResolveHit,
       ReleasePrevious, TakeRefused, TakeLedger, Take, Answer, Unregister, ReleaseOnExit, Exit
  <2> QED BY <1>1, <2>2, ResolveMissSparesAttached
<1> QED BY <1>2, <1>3

\* attachedSessions, evictOldestSession: neither the idle GC nor the cap takes a
\* retained ledger from under a connected socket, for any cap (0 included) and
\* however many sockets hold ledgers.
THEOREM AttachedLedgersStay == Spec => AttachedStays
<1>1. LedgerInv /\ [Next]_vars =>
        [\A s \in Clients : attached[s] \in Mapped(sessions) => attached[s] \in Mapped(sessions')]_vars
  BY AttachedStaysStep
<1> QED BY <1>1, LedgerInvHolds, PTL DEF Spec, AttachedStays
=============================================================================
