------------------------------ MODULE PageStore ------------------------------
(***************************************************************************)
(* The page's store of terminal lines (LineStore in web/src/store.ts), as    *)
(* operators on a store value: what a screen frame, a scroll frame and a     *)
(* resumeAck make of it.  The retained-line cap, the browse cache of fetched *)
(* pages and the cursor are left out: this store is large enough to keep     *)
(* every line it is given.                                                   *)
(*                                                                         *)
(* A store has `lines', the rows by absolute index; `unconfirmedFrom', the   *)
(* lowest index whose row the server has not confirmed; `erasedThrough';     *)
(* the window (`base', `height', no window when height is 0); `alt' and      *)
(* `altRows'.                                                                *)
(***************************************************************************)
EXTENDS Integers, Sequences, FiniteSetsExt, Functions

CONSTANTS
    Infinity,       \* Number.POSITIVE_INFINITY: above every index
    Blank           \* an empty row

EmptyStore ==
    [lines |-> <<>>, unconfirmedFrom |-> Infinity, erasedThrough |-> -1,
     base |-> 0, height |-> 0, alt |-> FALSE, altRows |-> <<>>]

Held(s) == DOMAIN s.lines

LowerOf(a, b) == Min({a, b})
HigherOf(a, b) == Max({a, b})

Highest(s) == Max(Held(s) \cup {-1})
Oldest(s) == IF Held(s) = {} THEN -1 ELSE Min(Held(s))

ReplayBoundary(s) == LowerOf(Highest(s), s.unconfirmedFrom - 1)

-----------------------------------------------------------------------------
InWindow(s, i) == s.height > 0 /\ i \in s.base..(s.base + s.height - 1)

\* applyLine for each of some rows: an erased index is refused, except in the
\* window.
ApplyLines(s, rows) ==
    LET taken == {i \in DOMAIN rows : i > s.erasedThrough \/ InWindow(s, i)}
    IN  [s EXCEPT !.lines =
            [i \in DOMAIN @ \cup taken |-> IF i \in taken THEN rows[i] ELSE @[i]]]

KeepOnly(s, indices) == [s EXCEPT !.lines = Restrict(@, Held(s) \cap indices)]

ApplyScrollbackCleared(s, base) ==
    LET dropped == {i \in Held(s) : i < base}
    IN  [KeepOnly(s, Held(s) \ dropped) EXCEPT
            !.unconfirmedFrom = HigherOf(@, base),
            !.erasedThrough = Max({@} \cup dropped)]

TruncateBelowWindow(s) ==
    IF s.height = 0 THEN s ELSE KeepOnly(s, {i \in Held(s) : i < s.base + s.height})

\* Mutant of MarkUnconfirmedFrom: a screen frame leaves the floor alone.
MarkNothing(s, base) == s

MarkUnconfirmedFrom(s, base) == [s EXCEPT !.unconfirmedFrom = LowerOf(@, base)]

\* A range from at or below the floor raises it to its end.  One above it does
\* not, unless nothing from the floor up to the oldest row is held any more.
ConfirmRange(s, first, count) ==
    CASE count <= 0 -> s
      [] count > 0 /\ first <= s.unconfirmedFrom ->
            [s EXCEPT !.unconfirmedFrom = HigherOf(@, first + count)]
      [] count > 0 /\ first > s.unconfirmedFrom ->
            IF s.unconfirmedFrom < Oldest(s)
            THEN [s EXCEPT !.unconfirmedFrom = HigherOf(first + count, Oldest(s))]
            ELSE s

-----------------------------------------------------------------------------
\* A screen frame: `rows' holds the changed rows, by their place in a window of
\* `height' rows.
ApplyAltScreen(s, m) ==
    LET grid == [y \in 1..m.height |-> IF y <= Len(s.altRows) THEN s.altRows[y] ELSE Blank]
    IN  [s EXCEPT !.alt = TRUE,
                  !.altRows = [y \in DOMAIN grid |-> IF y \in DOMAIN m.rows THEN m.rows[y]
                                                     ELSE grid[y]]]

ApplyMainScreen(s, m) ==
    LET reshaped == [s EXCEPT !.alt = FALSE, !.altRows = <<>>,
                              !.base = m.base, !.height = m.height]
        drawn == [i \in {m.base + y - 1 : y \in DOMAIN m.rows} |-> m.rows[i - m.base + 1]]
    IN  TruncateBelowWindow(ApplyLines(MarkUnconfirmedFrom(reshaped, m.base), drawn))

ApplyScreen(s, m) ==
    LET cleared == IF m.scrollbackCleared THEN ApplyScrollbackCleared(s, m.base) ELSE s
    IN  IF m.height = 0 THEN cleared
        ELSE IF m.altActive THEN ApplyAltScreen(cleared, m)
        ELSE ApplyMainScreen(cleared, m)

\* Where a store in the alternate screen stops taking scrolled lines: its frozen
\* main window, if it has seen one.
ScrollLimit(s) == IF s.alt /\ s.height > 0 THEN s.base ELSE Infinity

\* How many lines of a scroll frame the store takes, and which they are.
Count(s, m) == LowerOf(Len(m.lines), ScrollLimit(s) - m.firstIndex)
Brought(s, m) == m.firstIndex..(m.firstIndex + Count(s, m) - 1)

ApplyScroll(s, m) ==
    LET rows == [i \in Brought(s, m) |-> m.lines[i - m.firstIndex + 1]]
    IN  ConfirmRange(ApplyLines(s, rows), m.firstIndex, Count(s, m))

\* Where a scroll frame heals the floor: the rows from the oldest one held up to
\* the frame, over which it is raised.
Healed(s, m) ==
    LET first == Oldest(ApplyScroll(s, m))
    IN  IF Count(s, m) > 0 /\ s.unconfirmedFrom < first THEN first..(m.firstIndex - 1) ELSE {}

\* predictReplayJump: the replay will start above what the page claimed, because
\* of an eviction or of the clamp it asked for, so the window descriptor it is
\* about to replace is retired.
ApplyResumeAck(s, m, sentHaveThrough, sentReplayMax) ==
    IF /\ m.historyPaging
       /\ HigherOf(m.oldest, m.committed - sentReplayMax) > sentHaveThrough + 1
       /\ Held(s) # {} /\ sentHaveThrough >= Oldest(s)
    THEN [s EXCEPT !.base = 0, !.height = 0]
    ELSE s
=============================================================================
