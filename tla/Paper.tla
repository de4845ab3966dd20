------------------------------- MODULE Paper -------------------------------
(***************************************************************************)
(* What a terminal promises the lines it prints: an endless roll of paper, *)
(* H rows of it in view, where nothing printed is ever lost, moved or      *)
(* split differently.  It knows no scrolling and no scrollback; VtScreen   *)
(* implements it with a fixed grid and the lines that left its top.        *)
(***************************************************************************)
EXTENDS Integers, Sequences

CONSTANTS Narrow, Wide, Blank, Half, H, W

VARIABLES
    roll,      \* the rows, the oldest first
    joined,    \* for each row whether it continues the row before it
    row, col,  \* where the next rune goes
    full       \* the last rune filled its row: the next one starts another

vars == <<roll, joined, row, col, full>>

EmptyRow == [x \in 0 .. W - 1 |-> Blank]

Init == /\ roll = [i \in 1 .. H |-> EmptyRow] /\ joined = [i \in 1 .. H |-> FALSE]
        /\ row = 1 /\ col = 0 /\ full = FALSE

(* The roll with row r written from column c on.                           *)
Written(rows, r, c, text) ==
    [rows EXCEPT ![r] = [x \in 0 .. W - 1 |->
        IF c <= x /\ x < c + Len(text) THEN text[x - c + 1] ELSE @[x]]]
(* The roll with at least r rows.                                          *)
Reaching(rows, r, new) == IF r <= Len(rows) THEN rows ELSE Append(rows, new)

Type(text) ==
    LET n == Len(text)
        next == full \/ col + n > W
        r == IF next THEN row + 1 ELSE row
        c == IF next THEN 0 ELSE col
        cut == IF next /\ ~ full THEN Written(roll, row, col, <<Blank>>) ELSE roll
    IN /\ roll' = Written(Reaching(cut, r, EmptyRow), r, c, text)
       /\ joined' = IF next THEN [Reaching(joined, r, TRUE) EXCEPT ![r] = TRUE] ELSE joined
       /\ row' = r
       /\ full' = (c + n = W)
       /\ col' = IF c + n = W THEN W - 1 ELSE c + n

Feed == /\ row' = row + 1 /\ full' = FALSE
        /\ roll' = Reaching(roll, row + 1, EmptyRow)
        /\ joined' = Reaching(joined, row + 1, FALSE)
        /\ col' \in {0, col}
(* The cursor goes anywhere in view, and no further.                       *)
Go == /\ row' \in Len(roll) - H + 1 .. Len(roll) /\ col' \in 0 .. W - 1
      /\ full' = FALSE
      /\ UNCHANGED <<roll, joined>>

Next == \/ \E r \in Narrow : Type(<<r>>)
        \/ \E r \in Wide : Type(<<r, Half>>)
        \/ Feed \/ Go

Spec == Init /\ [][Next]_vars
=============================================================================
