----------------------------- MODULE RetainedLog -----------------------------
(***************************************************************************)
(* What the scrollback promises its readers: a line gets the next absolute   *)
(* index and keeps it, and the newest Capacity lines since the last clear    *)
(* are retained, in order.                                                   *)
(***************************************************************************)
EXTENDS Naturals, Sequences

CONSTANT Lines

VARIABLES capacity, committed, retained

vars == <<capacity, committed, retained>>

Init == capacity \in Nat /\ committed = 0 /\ retained = <<>>

Append1(line) ==
    /\ committed' = committed + 1
    /\ LET longer == Append(retained, line)
       IN  retained' = IF Len(longer) > capacity THEN Tail(longer) ELSE longer
    /\ UNCHANGED capacity

Clear ==
    /\ retained' = <<>>
    /\ UNCHANGED <<capacity, committed>>

Next == Clear \/ \E line \in Lines : Append1(line)

Spec == Init /\ [][Next]_vars
=============================================================================
