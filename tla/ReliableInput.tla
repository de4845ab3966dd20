---------------------------- MODULE ReliableInput ----------------------------
(***************************************************************************)
(* What the reliable input channel promises the person at the keyboard:      *)
(* every accepted byte is run once, in the order typed and with no gap,      *)
(* unless the page said that input may have been lost (onServerRestart).     *)
(* Bytes are numbered in the order they are accepted.                        *)
(***************************************************************************)
EXTENDS Naturals, Sequences, FiniteSetsExt

CONSTANT MaxTyped   \* bound: bytes typed

VARIABLES
    accepted,   \* how many bytes sendBinary accepted
    delivered,  \* the bytes the PTY was given, in order
    warned      \* the bytes a loss notice covered

vars == <<accepted, delivered, warned>>

Pending == 1..accepted \ (Range(delivered) \cup warned)

Init == accepted = 0 /\ delivered = <<>> /\ warned = {}

Accept ==
    /\ accepted < MaxTyped
    /\ accepted' = accepted + 1
    /\ UNCHANGED <<delivered, warned>>

Deliver ==
    /\ Pending # {}
    /\ delivered' = Append(delivered, Min(Pending))
    /\ UNCHANGED <<accepted, warned>>

\* A notice covers everything undelivered: a page that gives up on one byte
\* gives up on all it still holds, and may hold bytes that were delivered.
Warn ==
    /\ \E bytes \in SUBSET (1..accepted) :
        /\ Pending \subseteq bytes
        /\ warned' = warned \cup bytes
    /\ UNCHANGED <<accepted, delivered>>

Next == Accept \/ Deliver \/ Warn

\* No accepted byte is left undecided for ever.
Decide == Pending # {} /\ (Deliver \/ Warn)

\* What is never done, and what is done in the end.
Safety == Init /\ [][Next]_vars

Spec == Safety /\ WF_vars(Decide)
=============================================================================
