--------------------------- MODULE LedgerRegistry ---------------------------
(***************************************************************************)
(* The input ledgers of one terminal session: terminal/client_registry.go   *)
(* and the parts of terminal/terminal.go that drive it (the read loop of a   *)
(* socket, handleResume, the deferred Remove).                               *)
(*                                                                         *)
(* A ledger counts the input bytes applied for one resume key.  Any number   *)
(* of sockets may resume on a key; the ledger has one owner, the socket that *)
(* resumed last, and the others are fenced.  ResolveSession is three steps   *)
(* under two different locks, and every other socket may run between them:   *)
(*    r.mu     look the key up or create it, collect, evict, attach          *)
(*    prev.mu  give up the ledger the socket leaves                          *)
(*    sess.mu  read the fence, fence the previous owner, take, read the ack  *)
(* One action below is one such critical section.                            *)
(***************************************************************************)
EXTENDS Naturals, FiniteSets

CONSTANTS
    Sockets,        \* WebSocket connections (clientState)
    Keys,           \* resume keys (SessionID)
    Ledgers,        \* sessionState objects; one nobody refers to is garbage
    NoSocket,
    NoLedger,
    Cap,            \* maxResumeSessions
    MaxReceived     \* bound: input frames counted on one ledger

ASSUME NoSocketAssumption == NoSocket \notin Sockets
ASSUME NoLedgerAssumption == NoLedger \notin Ledgers
ASSUME BoundAssumption == Cap \in Nat /\ MaxReceived \in Nat

VARIABLES
    pc,         \* where the goroutine of each socket is
    attached,   \* clientState.session
    leaving,    \* the previous ledger ResolveSession still has to release
    fenced,     \* clientState.fenced
    closing,    \* sockets a superseding resume asked to close
    sessions,   \* clientRegistry.sessions
    older,      \* lastSeen, as an order: <<l, m>> when l was seen before m
    owner,      \* sessionState.owner
    received,   \* sessionState.received
    granted,    \* the ack the latest ResolveSession of a socket returned
    applied     \* history: frames a socket had counted since that ack

vars == <<pc, attached, leaving, fenced, closing, sessions, older,
          owner, received, granted, applied>>

ledgerVars == <<owner, received, granted, applied>>
mapVars == <<sessions, older>>

PC == {"gone", "reading", "frame", "leaving", "taking", "answering",
       "counted", "ending", "departing"}

TypeOK ==
    /\ pc \in [Sockets -> PC]
    /\ attached \in [Sockets -> Ledgers \cup {NoLedger}]
    /\ leaving \in [Sockets -> Ledgers \cup {NoLedger}]
    /\ fenced \in [Sockets -> BOOLEAN]
    /\ closing \in SUBSET Sockets
    /\ sessions \in [Keys -> Ledgers \cup {NoLedger}]
    /\ older \in SUBSET (Ledgers \X Ledgers)
    /\ owner \in [Ledgers -> Sockets \cup {NoSocket}]
    /\ received \in [Ledgers -> Nat]
    /\ granted \in [Sockets -> Nat]
    /\ applied \in [Sockets -> Nat]

Init ==
    /\ pc = [s \in Sockets |-> "gone"]
    /\ attached = [s \in Sockets |-> NoLedger]
    /\ leaving = [s \in Sockets |-> NoLedger]
    /\ fenced = [s \in Sockets |-> FALSE]
    /\ closing = {}
    /\ sessions = [k \in Keys |-> NoLedger]
    /\ older = {}
    /\ owner = [l \in Ledgers |-> NoSocket]
    /\ received = [l \in Ledgers |-> 0]
    /\ granted = [s \in Sockets |-> 0]
    /\ applied = [s \in Sockets |-> 0]

-----------------------------------------------------------------------------
(* The session map and its two reclaimers.                                   *)

Mapped(map) == {map[k] : k \in Keys} \ {NoLedger}

Clients == {s \in Sockets : pc[s] \notin {"gone", "departing"}}

AttachedSessions == {attached[s] : s \in Clients} \ {NoLedger}

Unreferenced(l) ==
    /\ l \notin Mapped(sessions)
    /\ \A s \in Sockets : attached[s] # l /\ leaving[s] # l

\* lastSeen = now: l becomes the most recently seen of the mapped ledgers.
Touch(l, map) ==
    {p \in older : p[1] # l /\ p[2] # l} \cup
        ((Mapped(map) \ {l}) \X ({l} \cap Mapped(map)))

Oldest(set, order) == {l \in set : \A m \in set : <<m, l>> \notin order}

\* Mutant of IdleSets: the GC forgets that a ledger is attached.
IdleSetsAttachedToo(map, order, new) ==
    LET idle == Mapped(map) \ {new}
    IN  {dead \in SUBSET idle :
            \A l \in dead : \A m \in idle : <<m, l>> \in order => m \in dead}

\* What the idle GC may delete: the window has passed for the ledgers seen
\* before some moment, and a ledger created just now is never among them.
IdleSets(map, order, new) ==
    LET idle == Mapped(map) \ (AttachedSessions \cup {new})
    IN  {dead \in SUBSET idle :
            \A l \in dead : \A m \in idle : <<m, l>> \in order => m \in dead}

\* Mutant of Victims: the comparison with the cap is off by one.
VictimsOffByOne(map, order) ==
    IF Cardinality(Mapped(map)) <= Cap + 1 THEN {{}}
    ELSE {{l} : l \in Oldest(Mapped(map) \ AttachedSessions, order)}

\* Over the cap one ledger goes: the least recently seen no socket holds, or,
\* when sockets hold them all, the least recently seen.
Victims(map, order) ==
    IF Cardinality(Mapped(map)) <= Cap THEN {{}}
    ELSE LET spare == Mapped(map) \ AttachedSessions
         IN  {{l} : l \in Oldest(IF spare # {} THEN spare ELSE Mapped(map), order)}

Without(map, dead) == [k \in Keys |-> IF map[k] \in dead THEN NoLedger ELSE map[k]]

Among(order, map) == order \cap (Mapped(map) \X Mapped(map))

-----------------------------------------------------------------------------
(* The goroutine of a socket.                                                *)

Goto(s, where) == pc' = [pc EXCEPT ![s] = where]

\* Add: a new connection; ReleaseOnExit left nothing of an earlier one.
Connect(s) ==
    /\ pc[s] = "gone"
    /\ Goto(s, "reading")
    /\ UNCHANGED <<attached, leaving, fenced, closing, mapVars, ledgerVars>>

\* clientReadLoop reads a message and tests the fence once.
ReadMessage(s) ==
    /\ pc[s] = "reading"
    /\ Goto(s, IF fenced[s] THEN "ending" ELSE "frame")
    /\ UNCHANGED <<attached, leaving, fenced, closing, mapVars, ledgerVars>>

\* The read fails: the peer left, the network broke, the ping timed out.
ReadError(s) ==
    /\ pc[s] = "reading"
    /\ Goto(s, "ending")
    /\ UNCHANGED <<attached, leaving, fenced, closing, mapVars, ledgerVars>>

\* The read fails because a superseding resume closed this socket.
CloseSuperseded(s) ==
    /\ s \in closing
    /\ ReadError(s)

\* ApplyInput, one critical section of the ledger: the write to the PTY and the
\* count.  A socket that never resumed writes and counts nothing.
InputUncounted(s) ==
    /\ pc[s] = "frame"
    /\ attached[s] = NoLedger
    /\ Goto(s, "reading")
    /\ UNCHANGED <<attached, leaving, fenced, closing, mapVars, ledgerVars>>

\* Mutant of InputApplied: the ownership test is dropped.
InputAppliedByAnyone(s) ==
    /\ pc[s] = "frame"
    /\ attached[s] # NoLedger
    /\ received[attached[s]] < MaxReceived
    /\ received' = [received EXCEPT ![attached[s]] = @ + 1]
    /\ applied' = [applied EXCEPT ![s] = @ + 1]
    /\ Goto(s, "counted")
    /\ UNCHANGED <<attached, leaving, fenced, closing, mapVars, owner, granted>>

InputApplied(s) ==
    /\ pc[s] = "frame"
    /\ attached[s] # NoLedger
    /\ owner[attached[s]] = s
    /\ received[attached[s]] < MaxReceived
    /\ received' = [received EXCEPT ![attached[s]] = @ + 1]
    /\ applied' = [applied EXCEPT ![s] = @ + 1]
    /\ Goto(s, "counted")
    /\ UNCHANGED <<attached, leaving, fenced, closing, mapVars, owner, granted>>

\* Another socket took the ledger over: nothing is written, the loop ends.
InputRefused(s) ==
    /\ pc[s] = "frame"
    /\ attached[s] # NoLedger
    /\ owner[attached[s]] # s
    /\ Goto(s, "ending")
    /\ UNCHANGED <<attached, leaving, fenced, closing, mapVars, ledgerVars>>

\* The PTY write failed: nothing is counted, the loop ends.
PtyWriteFails(s) ==
    /\ pc[s] = "frame"
    /\ attached[s] # NoLedger => owner[attached[s]] = s
    /\ Goto(s, "ending")
    /\ UNCHANGED <<attached, leaving, fenced, closing, mapVars, ledgerVars>>

\* The tail of ApplyInput, under r.mu.
StampInput(s) ==
    /\ pc[s] = "counted"
    /\ older' = Touch(attached[s], sessions)
    /\ Goto(s, "reading")
    /\ UNCHANGED <<attached, leaving, fenced, closing, sessions, ledgerVars>>

-----------------------------------------------------------------------------
(* ResolveSession, one action per critical section, and the end of           *)
(* handleResume.                                                             *)

\* prev := state.session.Swap(sess).  Only a different previous ledger is left.
Swap(s, l) ==
    /\ attached' = [attached EXCEPT ![s] = l]
    /\ IF attached[s] \in {NoLedger, l}
       THEN /\ leaving' = leaving
            /\ Goto(s, "taking")
       ELSE /\ leaving' = [leaving EXCEPT ![s] = attached[s]]
            /\ Goto(s, "leaving")

\* The key is known: the ledger is stamped and attached.
ResolveHit(s, k) ==
    /\ pc[s] = "frame"
    /\ sessions[k] # NoLedger
    /\ Swap(s, sessions[k])
    /\ older' = Touch(sessions[k], sessions)
    /\ UNCHANGED <<fenced, closing, sessions, ledgerVars>>

\* The key is unknown: a fresh ledger is inserted, idle ledgers are collected,
\* the cap is enforced, and only then is the ledger attached to the socket.
ResolveMiss(s, k) ==
    /\ pc[s] = "frame"
    /\ sessions[k] = NoLedger
    /\ \E l \in Ledgers :
        /\ Unreferenced(l)
        /\ LET inserted == [sessions EXCEPT ![k] = l]
               order == Touch(l, inserted)
           IN  \E idle \in IdleSets(inserted, order, l) :
                 LET kept == Without(inserted, idle)
                 IN  \E victims \in Victims(kept, order) :
                        /\ sessions' = Without(kept, victims)
                        /\ older' = Among(order, sessions')
        /\ owner' = [owner EXCEPT ![l] = NoSocket]
        /\ received' = [received EXCEPT ![l] = 0]
        /\ Swap(s, l)
    /\ UNCHANGED <<fenced, closing, granted, applied>>

\* prev.release(state).
ReleasePrevious(s) ==
    /\ pc[s] = "leaving"
    /\ owner' = IF owner[leaving[s]] = s
                THEN [owner EXCEPT ![leaving[s]] = NoSocket] ELSE owner
    /\ leaving' = [leaving EXCEPT ![s] = NoLedger]
    /\ Goto(s, "taking")
    /\ UNCHANGED <<attached, fenced, closing, mapVars, received, granted, applied>>

\* A fenced socket takes nothing and reads no ack.
TakeRefused(s) ==
    /\ pc[s] = "taking"
    /\ fenced[s]
    /\ Goto(s, "answering")
    /\ UNCHANGED <<attached, leaving, fenced, closing, mapVars, ledgerVars>>

Displaced(s) == {owner[attached[s]]} \ {NoSocket, s}

\* What the taking section does to the ledger and to the sockets it displaces.
Take(s, toFence, toClose) ==
    /\ pc[s] = "taking"
    /\ fenced' = [t \in Sockets |-> fenced[t] \/ t \in toFence]
    /\ closing' = closing \cup toClose
    /\ owner' = [owner EXCEPT ![attached[s]] = s]
    /\ granted' = [granted EXCEPT ![s] = received[attached[s]]]
    /\ applied' = [applied EXCEPT ![s] = 0]
    /\ Goto(s, "answering")
    /\ UNCHANGED <<attached, leaving, mapVars, received>>

\* Mutants of TakeLedger: the fence is not read; the previous owner is not
\* closed.
TakeLedgerFenceUnread(s) == Take(s, Displaced(s), Displaced(s))
TakeLedgerUnclosed(s) == ~fenced[s] /\ Take(s, Displaced(s), {})

\* The ledger changes hands: the previous owner is fenced (and its socket is
\* closed, which nobody waits for) and the ack is read, all under sess.mu.
TakeLedger(s) == ~fenced[s] /\ Take(s, Displaced(s), Displaced(s))

\* handleResume tests the fence once more: a superseded socket sends no
\* resumeAck and its loop ends.
Answer(s) ==
    /\ pc[s] = "answering"
    /\ Goto(s, IF fenced[s] THEN "ending" ELSE "reading")
    /\ UNCHANGED <<attached, leaving, fenced, closing, mapVars, ledgerVars>>

-----------------------------------------------------------------------------
(* Remove: out of the client map and stamped under r.mu, then released.      *)

Unregister(s) ==
    /\ pc[s] = "ending"
    /\ older' = Touch(attached[s], sessions)
    /\ Goto(s, "departing")
    /\ UNCHANGED <<attached, leaving, fenced, closing, sessions, ledgerVars>>

Exit(s) ==
    /\ pc[s] = "departing"
    /\ attached' = [attached EXCEPT ![s] = NoLedger]
    /\ fenced' = [fenced EXCEPT ![s] = FALSE]
    /\ closing' = closing \ {s}
    /\ granted' = [granted EXCEPT ![s] = 0]
    /\ applied' = [applied EXCEPT ![s] = 0]
    /\ Goto(s, "gone")
    /\ UNCHANGED <<leaving, mapVars, received>>

ReleaseOnExit(s) ==
    /\ Exit(s)
    /\ owner' = IF attached[s] # NoLedger /\ owner[attached[s]] = s
                THEN [owner EXCEPT ![attached[s]] = NoSocket] ELSE owner

\* What the goroutine of a socket does without anything arriving from outside.
Continue(s) ==
    \/ StampInput(s)
    \/ ReleasePrevious(s)
    \/ TakeRefused(s)
    \/ TakeLedger(s)
    \/ Answer(s)
    \/ Unregister(s)
    \/ ReleaseOnExit(s)

Handle(s) ==
    \/ InputUncounted(s)
    \/ InputApplied(s)
    \/ InputRefused(s)
    \/ PtyWriteFails(s)
    \/ \E k \in Keys : ResolveHit(s, k) \/ ResolveMiss(s, k)

Next ==
    \E s \in Sockets :
        \/ Connect(s)
        \/ ReadMessage(s)
        \/ ReadError(s)
        \/ CloseSuperseded(s)
        \/ Handle(s)
        \/ Continue(s)

Spec == Init /\ [][Next]_vars

\* Goroutines run, a frame that was read is handled, and a close that was asked
\* for ends the read.  Nothing makes a peer connect, send or leave.
Fairness ==
    \A s \in Sockets :
        /\ WF_vars(Continue(s))
        /\ WF_vars(Handle(s))
        /\ WF_vars(CloseSuperseded(s))

FairSpec == Spec /\ Fairness

-----------------------------------------------------------------------------
(* Properties.                                                               *)

\* A socket owns nothing but the ledger it is attached to; between the swap and
\* the release of ResolveSession, nothing but the ledger it is leaving.
OwnerAttached ==
    \A s \in Sockets, l \in Ledgers :
        owner[l] = s =>
            /\ pc[s] # "gone"
            /\ l = IF pc[s] = "leaving" THEN leaving[s] ELSE attached[s]

\* A superseded socket holds no ledger, whichever ledger it lost and whichever
\* it was moving to: the reason ResolveSession leaves the old ledger before it
\* reads the fence.
FencedOwnsNothing ==
    \A s \in Sockets, l \in Ledgers : fenced[s] => owner[l] # s

\* The converse: a socket that resumed and was not superseded still owns its
\* ledger, so ApplyInput never drops the input of a socket that was not told.
Settled == {"reading", "frame", "answering", "counted", "ending"}
UnfencedKeepsLedger ==
    \A s \in Sockets :
        pc[s] \in Settled /\ attached[s] # NoLedger /\ ~fenced[s] =>
            owner[attached[s]] = s

\* Who owns a ledger, in every interleaving of the critical sections.
OwnershipInv == TypeOK /\ OwnerAttached /\ FencedOwnsNothing /\ UnfencedKeepsLedger

\* The ack a resume returned counts every frame the previous owners applied and
\* none after: what the owner's ledger counts beyond it is the owner's own.
AckIsExact ==
    \A s \in Sockets :
        LET l == attached[s]
        IN  pc[s] # "leaving" /\ l # NoLedger /\ owner[l] = s =>
                received[l] = granted[s] + applied[s]

\* evictOldestSession holds the retained ledgers to maxResumeSessions.
CapHolds == Cardinality(Mapped(sessions)) <= Cap

\* attachedSessions: neither the GC nor the cap takes a retained ledger from
\* under a connected socket, whatever the other socket is in the middle of.
AttachedStays ==
    [][\A s \in Clients :
        attached[s] \in Mapped(sessions) => attached[s] \in Mapped(sessions')]_vars

\* A superseded socket ends: it is closed, or it meets the fence by itself.
SupersededLeaves == \A s \in Sockets : fenced[s] ~> pc[s] = "gone"

=============================================================================
