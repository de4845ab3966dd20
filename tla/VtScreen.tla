------------------------------ MODULE VtScreen ------------------------------
(***************************************************************************)
(* The screen emulator of src/vt: one vt.Screen, the grid the program's    *)
(* output edits.  The record scr is the Screen struct, its fields named as *)
(* there; a method of the struct is an operator from a screen to a screen, *)
(* and an action is one control the program writes (a printed rune, a C0   *)
(* byte, an ESC or CSI sequence as dispatchCSI reaches it), a Resize, or   *)
(* the flush taking the scrolled-off lines.                                *)
(*                                                                         *)
(* A cell is its rune and its protection attributes; colours, links and    *)
(* character sets only dress a cell and are left out.  The boolean modes   *)
(* are one set of their DEC numbers.  Rows and columns count from 0.       *)
(***************************************************************************)
EXTENDS Integers, Sequences
LOCAL INSTANCE SequencesExt

CONSTANTS
    Narrow,        \* runes one column wide
    Wide,          \* runes two columns wide
    Space,         \* the blank
    Spacer,        \* the second half of a wide rune (Ch = 0)
    Align,         \* the 'E' DECALN fills with
    Heights,       \* heights a screen may have
    Widths,        \* widths a screen may have
    Counts,        \* repeat counts of the controls
    TabSize,       \* distance of the default tab stops (8)
    MaxKbdStack    \* depth of a keyboard flag stack (16)

VARIABLE scr

Blank == [ch |-> Space, guard |-> {}]
Rows(s) == 0 .. s.Height - 1
Cols(s) == 0 .. s.Width - 1
least(a, b) == IF a < b THEN a ELSE b
most(a, b) == IF a > b THEN a ELSE b
Within(n, lo, hi) == least(most(n, lo), hi)

(* DEC private modes: 6 origin, 7 autowrap, 41 more fix, 45 reverse wrap,  *)
(* 69 left and right margins, 95 no clear on DECCOLM; the rest are flags   *)
(* the client is told of.                                                  *)
AltModes == {47, 1047, 1049}
MouseModes == {1000, 1002, 1003}
FlagModes == {1, 5, 7, 12, 25, 40, 41, 45, 66, 95, 1004, 1006, 1016, 2004, 2026,
              4, 18, 19, 35, 42, 67}
Is(s, mode) == mode \in s.modes

makeRow(w) == [x \in 0 .. w - 1 |-> Blank]
makeRows(h, w) == [y \in 0 .. h - 1 |-> makeRow(w)]
noWraps(h) == [y \in 0 .. h - 1 |-> FALSE]

(* Copy what fits of rows into an h by w grid, blanks elsewhere.           *)
fitRows(rows, h, w) ==
    [y \in 0 .. h - 1 |-> [x \in 0 .. w - 1 |->
        IF y \in DOMAIN rows /\ x \in DOMAIN rows[y] THEN rows[y][x] ELSE Blank]]
fitWraps(flags, h) == [y \in 0 .. h - 1 |-> y \in DOMAIN flags /\ flags[y]]

Legacy == [stack |-> <<>>, flags |-> 0]

New(h, w) ==
    [Height |-> h, Width |-> w, Cells |-> makeRows(h, w), wrapped |-> noWraps(h),
     curX |-> 0, curY |-> 0, pendingWrap |-> FALSE,
     scrollTop |-> 0, scrollBottom |-> h - 1, leftMargin |-> 0, rightMargin |-> w - 1,
     modes |-> {7, 12, 25}, savedModes |-> {}, InsertMode |-> FALSE, LineFeedNewLine |-> FALSE,
     conformanceLevel |-> 65, pen |-> {}, lastPrinted |-> <<>>, tabStops |-> <<>>,
     Drained |-> <<>>, scrollbackCleared |-> FALSE,
     InAltScreen |-> FALSE, savedMain |-> <<>>, altCells |-> <<>>,
     mainSaved |-> <<>>, altSaved |-> <<>>, mainKbd |-> Legacy, altKbd |-> Legacy]

-----------------------------------------------------------------------------
(* Bounds.                                                                 *)

leftBound(s) == IF Is(s, 69) THEN s.leftMargin ELSE 0
rightBound(s) == IF Is(s, 69) THEN s.rightMargin ELSE s.Width - 1
withinHMargins(s, x) == leftBound(s) <= x /\ x <= rightBound(s)
fullWidth(s) == leftBound(s) = 0 /\ rightBound(s) = s.Width - 1
wrapEdge(s) == IF withinHMargins(s, s.curX) THEN rightBound(s) ELSE s.Width - 1
wrapColumn(s) == IF withinHMargins(s, s.curX) THEN leftBound(s) ELSE 0

clampCursor(s) == [s EXCEPT !.curX = Within(@, 0, s.Width - 1),
                            !.curY = Within(@, 0, s.Height - 1)]
home(s) == [s EXCEPT !.curX = 0, !.curY = 0]
fullRegion(s) == [s EXCEPT !.scrollTop = 0, !.scrollBottom = s.Height - 1]
fullMargins(s) == [s EXCEPT !.leftMargin = 0, !.rightMargin = s.Width - 1]
noMargins(s) == [fullMargins(s) EXCEPT !.modes = @ \ {69}]
settle(s) == [s EXCEPT !.pendingWrap = FALSE]

-----------------------------------------------------------------------------
(* Moving rows and columns.  Shift(s, y1, y2, by) moves whole rows with    *)
(* their wrap flags; ShiftBox moves the cells between the left and right   *)
(* margins and leaves the flags.                                           *)

\* Mutant of ShiftRows: the wrap flags stay behind.
ShiftRowsOnly(s, y1, y2, by) ==
    [s EXCEPT !.Cells = [y \in Rows(s) |->
        IF ~ (y1 <= y /\ y <= y2) THEN @[y]
        ELSE IF y1 <= y + by /\ y + by <= y2 THEN @[y + by] ELSE makeRow(s.Width)]]

ShiftRows(s, y1, y2, by) ==
    LET From(y) == y + by
        Kept(y) == y1 <= From(y) /\ From(y) <= y2
        Inside(y) == y1 <= y /\ y <= y2
    IN [s EXCEPT
          !.Cells = [y \in Rows(s) |-> IF ~ Inside(y) THEN @[y]
                                       ELSE IF Kept(y) THEN @[From(y)] ELSE makeRow(s.Width)],
          !.wrapped = [y \in Rows(s) |-> IF Inside(y) THEN Kept(y) /\ @[From(y)] ELSE @[y]]]

(* The rectangle [y1..y2] x [x1..x2] shifted by dy rows and dx columns.    *)
ShiftBox(s, y1, y2, x1, x2, dy, dx) ==
    [s EXCEPT !.Cells = [y \in Rows(s) |-> [x \in Cols(s) |->
        IF ~ (y1 <= y /\ y <= y2 /\ x1 <= x /\ x <= x2) THEN @[y][x]
        ELSE IF y1 <= y + dy /\ y + dy <= y2 /\ x1 <= x + dx /\ x + dx <= x2
        THEN @[y + dy][x + dx] ELSE Blank]]]

\* Mutant of drainTopRow: the flag is read after the rows have moved.
drainTopRowLate(s) ==
    [s EXCEPT !.Drained = Append(@, [row |-> s.Cells[0],
                                     joined |-> s.wrapped[least(1, s.Height - 1)]])]

(* Row 0 goes to the lines waiting for the flush.                          *)
drainTopRow(s) ==
    [s EXCEPT !.Drained = Append(@, [row |-> s.Cells[0], joined |-> s.wrapped[0]])]
dropDrained(s) == [s EXCEPT !.Drained = <<>>]

ShiftLines(s, top, by) ==
    IF fullWidth(s) THEN ShiftRows(s, top, s.scrollBottom, by)
    ELSE ShiftBox(s, top, s.scrollBottom, leftBound(s), rightBound(s), by, 0)

(* Only a scroll of the whole screen feeds the scrollback.  The bottom row *)
(* is blanked even when the region is empty.                               *)
scrollUpOnce(s) ==
    LET whole == fullWidth(s) /\ s.scrollTop = 0 /\ s.scrollBottom = s.Height - 1
    IN ShiftLines(IF whole THEN drainTopRow(s) ELSE s, least(s.scrollTop, s.scrollBottom), 1)
scrollDownOnce(s) == ShiftLines(s, s.scrollTop, -1)

Repeat(Op(_), s, n) == FoldLeft(LAMBDA t, i : Op(t), s, [i \in 1 .. n |-> i])

scrollUp(s, n) == Repeat(scrollUpOnce, s, least(n, s.scrollBottom - s.scrollTop + 1))
scrollDown(s, n) == Repeat(scrollDownOnce, s, least(n, s.scrollBottom - s.scrollTop + 1))

inRegion(s) == s.scrollTop <= s.curY /\ s.curY <= s.scrollBottom

(* IL and DL: outside the region or the margins nothing; else the cursor   *)
(* goes to the left margin and the rows below it shift.                    *)
LineShift(s, by) ==
    IF ~ (inRegion(s) /\ withinHMargins(s, s.curX)) THEN s
    ELSE ShiftLines([settle(s) EXCEPT !.curX = leftBound(s)], s.curY, by)
insertLines(s, n) == LineShift(s, - n)
deleteLines(s, n) == LineShift(s, n)

insertChars(s, n) ==
    IF ~ withinHMargins(s, s.curX) THEN s
    ELSE ShiftBox(s, s.curY, s.curY, s.curX, rightBound(s), 0, - n)
deleteChars(s, n) ==
    IF ~ withinHMargins(s, s.curX) THEN s
    ELSE ShiftBox(s, s.curY, s.curY, s.curX, rightBound(s), 0, n)

ColumnShift(s, by) ==
    IF ~ (inRegion(s) /\ withinHMargins(s, s.curX)) THEN s
    ELSE ShiftBox(s, s.scrollTop, s.scrollBottom, s.curX, rightBound(s), 0, by)
insertColumns(s, n) == ColumnShift(s, - n)
deleteColumns(s, n) == ColumnShift(s, n)

shiftLeft(s, n) == ShiftBox(s, s.scrollTop, s.scrollBottom, 0, s.Width - 1, 0, n)
shiftRight(s, n) == ShiftBox(s, s.scrollTop, s.scrollBottom, 0, s.Width - 1, 0, - n)

scrollColumns(s, by) ==
    ShiftBox(s, s.scrollTop, s.scrollBottom, leftBound(s), rightBound(s), 0, by)
decBackIndex(s) ==
    CASE s.curX = leftBound(s) -> scrollColumns(settle(s), -1)
      [] s.curX # leftBound(s) /\ s.curX > 0 -> [settle(s) EXCEPT !.curX = @ - 1]
      [] OTHER -> settle(s)
decForwardIndex(s) ==
    CASE s.curX = rightBound(s) -> scrollColumns(settle(s), 1)
      [] s.curX # rightBound(s) /\ s.curX < s.Width - 1 -> [settle(s) EXCEPT !.curX = @ + 1]
      [] OTHER -> settle(s)

-----------------------------------------------------------------------------
(* Printing.                                                               *)

runeWidth(r) == IF r \in Wide THEN 2 ELSE 1
cell(s, r) == [ch |-> r, guard |-> s.pen]

(* The cursor is put on the first column of the next row.  Below the       *)
(* scroll region this scrolls the region and takes the cursor up into it.  *)
scrollIfNeeded(s) ==
    IF s.curY > s.scrollBottom THEN [scrollUpOnce(s) EXCEPT !.curY = s.scrollBottom] ELSE s
nextRow(s) == scrollIfNeeded([s EXCEPT !.curX = wrapColumn(s), !.curY = @ + 1])
markWrapContinuation(s) == IF fullWidth(s) THEN [s EXCEPT !.wrapped[s.curY] = TRUE] ELSE s
wrapLine(s) == markWrapContinuation(nextRow(s))

(* Write r at the cursor and, for a wide rune, its spacer beside it.       *)
writeRune(s, r) ==
    LET a == [s EXCEPT !.Cells[s.curY][s.curX] = cell(s, r), !.lastPrinted = <<r>>]
        b == [a EXCEPT !.curX = @ + 1]
    IN IF runeWidth(r) = 1 THEN a
       ELSE IF b.curX < b.Width THEN [b EXCEPT !.Cells[b.curY][b.curX] = cell(b, Spacer)] ELSE b

(* Advance, or stop at the edge with the wrap deferred.                    *)
advance(s) ==
    LET edge == least(wrapEdge(s), s.Width - 1)
    IN IF s.curX >= edge THEN [s EXCEPT !.curX = edge, !.pendingWrap = Is(s, 7)]
       ELSE [s EXCEPT !.curX = @ + 1]

put(s, r) ==
    LET a == IF s.pendingWrap THEN wrapLine(settle(s)) ELSE s
        b == IF runeWidth(r) = 2 /\ a.curX >= wrapEdge(a) /\ Is(a, 7)
             THEN wrapLine([a EXCEPT !.Cells[a.curY][a.curX] = Blank]) ELSE a
        c == IF s.InsertMode THEN insertChars(b, runeWidth(r)) ELSE b
    IN advance(writeRune(c, r))

repeatLastChar(s, n) ==
    IF s.lastPrinted = <<>> THEN s
    ELSE LET PutLast(t) == put(t, s.lastPrinted[1]) IN Repeat(PutLast, s, n)

-----------------------------------------------------------------------------
(* Cursor motion.                                                          *)

cursorUp(s, n) ==
    clampCursor([s EXCEPT !.curY =
        most(@ - n, IF @ >= s.scrollTop THEN s.scrollTop ELSE 0)])
cursorDown(s, n) ==
    clampCursor([s EXCEPT !.curY =
        least(@ + n, IF @ <= s.scrollBottom THEN s.scrollBottom ELSE s.Height - 1)])
cursorRight(s, n) ==
    clampCursor([s EXCEPT !.curX =
        least(@ + n, IF @ <= rightBound(s) THEN rightBound(s) ELSE s.Width - 1)])

originRow(s, y) ==
    IF Is(s, 6) THEN least(y + s.scrollTop, s.scrollBottom) ELSE least(y, s.Height - 1)
originCol(s, x) ==
    IF Is(s, 6) THEN least(x + leftBound(s), rightBound(s)) ELSE least(x, s.Width - 1)
cursorPosition(s, y, x) == [s EXCEPT !.curY = originRow(s, y), !.curX = originCol(s, x)]
originHome(s) ==
    IF Is(s, 6) THEN [s EXCEPT !.curY = s.scrollTop, !.curX = leftBound(s)] ELSE home(s)
columnHome(s) == [s EXCEPT !.curX = IF @ >= leftBound(s) THEN leftBound(s) ELSE 0]

(* BS: with reverse wrap on, the left margin leads back to the end of the  *)
(* previous row, and the top of the region to its bottom.                  *)
backspace(s) ==
    LET back == Is(s, 45) /\ Is(s, 7)
        left == leftBound(s)
        t == settle(s)
    IN CASE s.pendingWrap /\ back -> t
         [] ~ (s.pendingWrap /\ back) /\ s.curX > left -> [t EXCEPT !.curX = @ - 1]
         [] ~ s.pendingWrap /\ back /\ s.curX <= left ->
                [t EXCEPT !.curX = rightBound(s),
                          !.curY = IF @ > s.scrollTop THEN @ - 1 ELSE s.scrollBottom]
         [] ~ back /\ s.curX <= left ->
                [t EXCEPT !.curX = IF @ > 0 /\ @ < left THEN @ - 1 ELSE @]
cursorLeft(s, n) ==
    IF Is(s, 45) /\ Is(s, 7) THEN Repeat(backspace, s, n)
    ELSE clampCursor([s EXCEPT !.curX =
             most(@ - n, IF @ >= leftBound(s) THEN leftBound(s) ELSE 0)])

lineDown(s) ==
    CASE s.curY = s.scrollBottom -> IF withinHMargins(s, s.curX) THEN scrollUpOnce(s) ELSE s
      [] s.curY # s.scrollBottom /\ s.curY < s.Height - 1 -> [s EXCEPT !.curY = @ + 1]
      [] OTHER -> s
reverseIndex(s) ==
    CASE s.curY = s.scrollTop -> IF withinHMargins(s, s.curX) THEN scrollDownOnce(s) ELSE s
      [] s.curY # s.scrollTop /\ s.curY > 0 -> [s EXCEPT !.curY = @ - 1]
      [] OTHER -> s

-----------------------------------------------------------------------------
(* Tab stops: none set up (<<>>, a stop every TabSize columns) or a set of *)
(* columns with the width it was made for.                                 *)

initTabStops(s) == [len |-> s.Width, stops |-> {c \in Cols(s) : c > 0 /\ c % TabSize = 0}]
ownStops(s) == IF s.tabStops = <<>> THEN initTabStops(s) ELSE s.tabStops[1]
setTabStop(s) == [s EXCEPT !.tabStops = <<[ownStops(s) EXCEPT !.stops = @ \cup {s.curX}]>>]
clearTabStop(s) == [s EXCEPT !.tabStops = <<[ownStops(s) EXCEPT !.stops = @ \ {s.curX}]>>]
clearAllTabStops(s) == [s EXCEPT !.tabStops = <<[len |-> s.Width, stops |-> {}]>>]

nextTabStop(s, col) ==
    IF s.tabStops = <<>> THEN (col \div TabSize + 1) * TabSize
    ELSE LET after == {c \in s.tabStops[1].stops : c > col /\ c < s.Width}
         IN IF after = {} THEN s.Width ELSE CHOOSE c \in after : \A d \in after : c <= d
prevTabStop(s, col) ==
    IF s.tabStops = <<>> THEN IF col = 0 THEN 0 ELSE ((col - 1) \div TabSize) * TabSize
    ELSE LET before == {c \in s.tabStops[1].stops : c < col}
         IN IF before = {} THEN 0 ELSE CHOOSE c \in before : \A d \in before : c >= d

tabOnce(s) ==
    LET right == rightBound(s)
        next == nextTabStop(s, s.curX)
    IN [s EXCEPT !.curX = IF @ <= right /\ next > right THEN right ELSE least(next, s.Width - 1)]
tabBackOnce(s) == [s EXCEPT !.curX = prevTabStop(s, @)]

(* TAB in the deferred-wrap position stays there unless mode 41 is on.     *)
horizontalTab(s) ==
    CASE ~ s.pendingWrap -> tabOnce(s)
      [] s.pendingWrap /\ Is(s, 41) -> tabOnce(nextRow(settle(s)))
      [] OTHER -> s

resizeTabStops(s, w) ==
    IF s.tabStops = <<>> \/ w = s.Width THEN s.tabStops
    ELSE LET old == s.tabStops[1]
             fresh == {c \in old.len .. w - 1 : c > 0 /\ c % TabSize = 0}
         IN <<[len |-> w, stops |-> {c \in old.stops : c < w} \cup fresh]>>

-----------------------------------------------------------------------------
(* Erasing: spare is the set of protections an erase respects.             *)

eraseRegionMode(s, y1, x1, y2, x2, spare) ==
    [s EXCEPT !.Cells = [y \in Rows(s) |-> [x \in Cols(s) |->
        IF y1 <= y /\ y <= y2 /\ x1 <= x /\ x <= x2 /\ @[y][x].guard \cap spare = {}
        THEN Blank ELSE @[y][x]]]]
eraseAll(s) == eraseRegionMode(s, 0, 0, s.Height - 1, s.Width - 1, {})
clearWrapState(s) == [s EXCEPT !.wrapped = noWraps(s.Height)]
spared(selective) == IF selective THEN {"dec", "iso"} ELSE {"iso"}

eraseInDisplay(s, mode, selective) ==
    LET Erase(t, y1, x1, y2, x2) == eraseRegionMode(t, y1, x1, y2, x2, spared(selective))
        h == s.Height - 1
        w == s.Width - 1
    IN CASE mode = 0 -> Erase(Erase(s, s.curY, s.curX, s.curY, w), s.curY + 1, 0, h, w)
         [] mode = 1 -> Erase(Erase(s, 0, 0, s.curY - 1, w), s.curY, 0, s.curY, s.curX)
         [] mode = 2 -> clearWrapState(dropDrained(
                            IF selective THEN Erase(s, 0, 0, h, w) ELSE eraseAll(s)))
         [] mode = 3 -> [dropDrained(s) EXCEPT !.scrollbackCleared = TRUE]
eraseInLine(s, mode, selective) ==
    eraseRegionMode(s, s.curY, IF mode = 0 THEN s.curX ELSE 0,
                       s.curY, IF mode = 1 THEN s.curX ELSE s.Width - 1, spared(selective))
eraseChars(s, n) ==
    eraseRegionMode(s, s.curY, s.curX, s.curY, s.curX + n - 1, {"iso"})

(* A rectangle's corners, relative to the region in origin mode and kept   *)
(* inside it, else inside the screen.                                      *)
rowLimits(s) == IF Is(s, 6) THEN <<s.scrollTop, s.scrollBottom>> ELSE <<0, s.Height - 1>>
colLimits(s) == IF Is(s, 6) THEN <<leftBound(s), rightBound(s)>> ELSE <<0, s.Width - 1>>
cornerY(s, y) == Within(y + rowLimits(s)[1], rowLimits(s)[1], rowLimits(s)[2])
cornerX(s, x) == Within(x + colLimits(s)[1], colLimits(s)[1], colLimits(s)[2])
rectBounds(s, r) == [y1 |-> cornerY(s, r.y1), x1 |-> cornerX(s, r.x1),
                     y2 |-> cornerY(s, r.y2), x2 |-> cornerX(s, r.x2)]
inRect(b, y, x) == b.y1 <= y /\ y <= b.y2 /\ b.x1 <= x /\ x <= b.x2

fillRect(s, r, ch) ==
    LET b == rectBounds(s, r)
        filled == [ch |-> ch, guard |-> s.pen \cap {"dec"}]
    IN [s EXCEPT !.Cells = [y \in Rows(s) |-> [x \in Cols(s) |->
            IF inRect(b, y, x) THEN filled ELSE @[y][x]]]]
eraseRect(s, r, selective) ==
    LET b == rectBounds(s, r)
    IN eraseRegionMode(s, b.y1, b.x1, b.y2, b.x2, IF selective THEN {"dec"} ELSE {})
copyRect(s, r, dy, dx) ==
    LET b == rectBounds(s, r)
        y0 == cornerY(s, dy)
        x0 == cornerX(s, dx)
    IN [s EXCEPT !.Cells = [y \in Rows(s) |-> [x \in Cols(s) |->
            IF y >= y0 /\ x >= x0 /\ inRect(b, b.y1 + y - y0, b.x1 + x - x0)
            THEN @[b.y1 + y - y0][b.x1 + x - x0] ELSE @[y][x]]]]

decAlign(s) ==
    settle(home(noMargins(fullRegion(
        [s EXCEPT !.Cells = [y \in Rows(s) |-> [x \in Cols(s) |-> [ch |-> Align, guard |-> {}]]]]))))

-----------------------------------------------------------------------------
(* Saved cursors (DECSC, DECRC, mode 1048), one slot per screen buffer.    *)

saveCursor(s) ==
    LET slot == <<[x |-> s.curX, y |-> s.curY, origin |-> Is(s, 6),
                   pendingWrap |-> s.pendingWrap, protected |-> s.pen \cap {"dec"}]>>
    IN IF s.InAltScreen THEN [s EXCEPT !.altSaved = slot] ELSE [s EXCEPT !.mainSaved = slot]
restoreCursor(s) ==
    LET slot == IF s.InAltScreen THEN s.altSaved ELSE s.mainSaved
    IN IF slot = <<>> THEN settle(home(s))
       ELSE [s EXCEPT !.curX = least(slot[1].x, s.Width - 1),
                      !.curY = least(slot[1].y, s.Height - 1),
                      !.pendingWrap = slot[1].pendingWrap,
                      !.modes = IF slot[1].origin THEN @ \cup {6} ELSE @ \ {6},
                      !.pen = (@ \ {"dec"}) \cup slot[1].protected]

-----------------------------------------------------------------------------
(* The alternate screen.  1049 homes in a cleared buffer and restores the  *)
(* cursor on the way out; 47 keeps the buffer for the next visit.          *)

altCellsFit(s) == s.altCells # <<>> /\ DOMAIN s.altCells[1] = Rows(s)
                                    /\ DOMAIN s.altCells[1][0] = Cols(s)
\* Mutant of enterAltScreen: a set while already there saves the alternate screen.
enterAltScreenAgain(s, mode) ==
    LET main == [cells |-> s.Cells, wrapped |-> s.wrapped, x |-> s.curX, y |-> s.curY,
                 top |-> s.scrollTop, bottom |-> s.scrollBottom]
    IN fullRegion([s EXCEPT !.savedMain = <<main>>, !.Cells = makeRows(s.Height, s.Width),
                            !.wrapped = noWraps(s.Height), !.InAltScreen = TRUE])
enterAltScreen(s, mode) ==
    IF s.InAltScreen THEN s
    ELSE LET main == [cells |-> s.Cells, wrapped |-> s.wrapped, x |-> s.curX, y |-> s.curY,
                      top |-> s.scrollTop, bottom |-> s.scrollBottom]
             alt == IF mode = 1049 \/ ~ altCellsFit(s) THEN makeRows(s.Height, s.Width)
                    ELSE s.altCells[1]
             t == fullRegion([s EXCEPT !.savedMain = <<main>>, !.Cells = alt, !.altCells = <<>>,
                                       !.wrapped = noWraps(s.Height), !.InAltScreen = TRUE])
         IN IF mode = 1049 THEN home(t) ELSE t
exitAltScreen(s, mode) ==
    IF ~ s.InAltScreen \/ s.savedMain = <<>> THEN s
    ELSE LET main == s.savedMain[1]
             t == [s EXCEPT !.Cells = fitRows(main.cells, s.Height, s.Width),
                            !.wrapped = fitWraps(main.wrapped, s.Height),
                            !.altCells = IF mode = 47 THEN <<s.Cells>> ELSE <<>>,
                            !.scrollTop = main.top,
                            !.scrollBottom = least(main.bottom, s.Height - 1),
                            !.savedMain = <<>>, !.InAltScreen = FALSE]
             u == IF mode = 1049 THEN [t EXCEPT !.curX = main.x, !.curY = main.y] ELSE t
         IN [u EXCEPT !.curX = least(@, s.Width - 1), !.curY = least(@, s.Height - 1)]

-----------------------------------------------------------------------------
(* Modes, margins and resets.                                              *)

\* Mutant of setScrollRegion: the cursor stays where it was.
setScrollRegionOnly(s, top, bottom) ==
    IF top >= bottom THEN s
    ELSE settle([s EXCEPT !.scrollTop = top, !.scrollBottom = bottom])

setScrollRegion(s, top, bottom) ==
    IF top >= bottom THEN s
    ELSE settle(originHome([s EXCEPT !.scrollTop = top, !.scrollBottom = bottom]))
setLeftRightMargins(s, left, right) ==
    IF left >= right THEN s
    ELSE settle(originHome([s EXCEPT !.leftMargin = left, !.rightMargin = right]))

setColumnMode(s) ==
    LET t == settle(home(noMargins(fullRegion(s))))
    IN IF Is(s, 95) /\ s.conformanceLevel >= 65 THEN t ELSE dropDrained(eraseAll(t))

turnOn(s, mode) == [s EXCEPT !.modes = @ \cup {mode}]
turnOff(s, mode) == [s EXCEPT !.modes = @ \ {mode}]
setMode(s, mode) ==
    CASE mode = 3 -> setColumnMode(turnOn(s, 3))
      [] mode = 6 -> originHome(turnOn(s, 6))
      [] mode = 69 -> IF s.conformanceLevel >= 64 THEN turnOn(s, 69) ELSE s
      [] mode \in AltModes -> enterAltScreen(s, mode)
      [] mode = 1048 -> saveCursor(s)
      [] mode \in MouseModes -> [s EXCEPT !.modes = (@ \ MouseModes) \cup {mode}]
      [] mode \in FlagModes -> turnOn(s, mode)
      [] OTHER -> s
resetMode(s, mode) ==
    CASE mode = 3 -> setColumnMode(turnOff(s, 3))
      [] mode = 6 -> home(turnOff(s, 6))
      [] mode = 69 -> noMargins(s)
      [] mode \in AltModes -> dropDrained(exitAltScreen(s, mode))
      [] mode = 1048 -> restoreCursor(s)
      [] OTHER -> turnOff(s, mode)

(* DECRQM's answer, which XTSAVE records and XTRESTORE applies again; it   *)
(* does not know mode 41.                                                  *)
decModeStatus(s, mode) ==
    IF mode \in AltModes THEN s.InAltScreen ELSE Is(s, mode) /\ mode # 41
xtSaveMode(s, mode) ==
    [s EXCEPT !.savedModes = IF decModeStatus(s, mode) THEN @ \cup {mode} ELSE @ \ {mode}]
xtRestoreMode(s, mode) ==
    IF mode \in s.savedModes THEN setMode(s, mode) ELSE resetMode(s, mode)

softReset(s) ==
    settle(noMargins(fullRegion(
        [s EXCEPT !.modes = (@ \cap {12, 2026}) \cup {7, 25}, !.InsertMode = FALSE,
                  !.LineFeedNewLine = FALSE, !.pen = {}, !.mainSaved = <<>>, !.altSaved = <<>>])))
hardReset(s) ==
    LET t == clearWrapState(dropDrained(home(eraseAll(softReset(s)))))
    IN [t EXCEPT !.scrollbackCleared = TRUE, !.InAltScreen = FALSE, !.savedMain = <<>>,
                 !.altCells = <<>>, !.mainKbd = Legacy, !.altKbd = Legacy, !.tabStops = <<>>]

-----------------------------------------------------------------------------
(* Keyboard flags, a stack per screen buffer.                              *)

kbdPush(k, f) ==
    LET kept == IF Len(k.stack) >= MaxKbdStack THEN Tail(k.stack) ELSE k.stack
    IN [stack |-> Append(kept, k.flags), flags |-> f]
kbdPop(k, n) ==
    IF n > Len(k.stack) THEN Legacy
    ELSE [stack |-> SubSeq(k.stack, 1, Len(k.stack) - n), flags |-> k.stack[Len(k.stack) - n + 1]]
kbdSet(k, f, mode) ==
    [k EXCEPT !.flags = CASE mode = 1 -> f [] mode = 2 -> most(@, f) [] mode = 3 -> @ * (1 - f)]
activeKbd(s) == IF s.InAltScreen THEN s.altKbd ELSE s.mainKbd
withKbd(s, k) == IF s.InAltScreen THEN [s EXCEPT !.altKbd = k] ELSE [s EXCEPT !.mainKbd = k]

-----------------------------------------------------------------------------
(* Resize.  The alternate screen grows on top, the main one below.         *)

resizeHeight(s, h) ==
    LET grow == most(h - s.Height, 0)
        lift == IF s.InAltScreen THEN grow ELSE 0
    IN [s EXCEPT !.Height = h, !.curY = @ + lift,
                 !.Cells = [y \in 0 .. h - 1 |->
                     IF y - lift \in Rows(s) THEN @[y - lift] ELSE makeRow(s.Width)],
                 !.wrapped = [y \in 0 .. h - 1 |-> y - lift \in Rows(s) /\ @[y - lift]]]
resizeWidth(s, w) ==
    [s EXCEPT !.Width = w, !.Cells = fitRows(@, s.Height, w), !.tabStops = resizeTabStops(s, w)]
resizeSavedMain(s) ==
    IF s.savedMain = <<>> THEN s
    ELSE [s EXCEPT !.savedMain[1].cells = fitRows(@, s.Height, s.Width),
                   !.savedMain[1].x = least(@, s.Width - 1),
                   !.savedMain[1].y = least(@, s.Height - 1)]
Resized(s, h, w) ==
    resizeSavedMain(fullMargins(fullRegion(clampCursor(resizeWidth(resizeHeight(s, h), w)))))

-----------------------------------------------------------------------------
(* What the program writes, one control per step.                          *)

Become(t) == scr' = t

PrintRune(runes) == \E r \in runes : Become(put(scr, r))
RepeatLast == \E n \in Counts : Become(repeatLastChar(scr, n))

CarriageReturn == Become(settle(columnHome(scr)))
LineFeed ==
    LET s == settle(scr)
    IN Become(lineDown(IF s.LineFeedNewLine THEN [s EXCEPT !.curX = 0] ELSE s))
NextLine == Become(columnHome(lineDown(settle(scr))))
Index == Become(lineDown(settle(scr)))
ReverseIndex == Become(reverseIndex(settle(scr)))
Backspace == Become(backspace(scr))
BackIndex == Become(decBackIndex(scr))
ForwardIndex == Become(decForwardIndex(scr))

MoveBy ==
    \E n \in Counts :
        LET s == settle(scr)
        IN \/ Become(cursorUp(s, n))
           \/ Become(cursorDown(s, n))
           \/ Become(cursorRight(s, n))
           \/ Become([cursorDown(s, n) EXCEPT !.curX = leftBound(s)])
           \/ Become([cursorUp(s, n) EXCEPT !.curX = leftBound(s)])
MoveLeft == \E n \in Counts : Become(cursorLeft(settle(scr), n))
MoveTo ==
    \E y \in Rows(scr), x \in Cols(scr) :
        LET s == settle(scr)
        IN \/ Become(cursorPosition(s, y, x))
           \/ Become([s EXCEPT !.curX = originCol(s, x)])
           \/ Become([s EXCEPT !.curY = originRow(s, y)])
MoveRelative == \E n \in Counts : Become(clampCursor([settle(scr) EXCEPT !.curX = @ + n]))

TabForward == \E n \in Counts : Become(Repeat(tabOnce, settle(scr), n))
TabBackward == \E n \in Counts : Become(Repeat(tabBackOnce, settle(scr), n))
TabKey == Become(horizontalTab(scr))
TabStops == Become(setTabStop(scr)) \/ Become(clearTabStop(scr)) \/ Become(clearAllTabStops(scr))

EraseDisplay == \E mode \in 0 .. 3, selective \in BOOLEAN :
                    Become(eraseInDisplay(scr, mode, selective))
EraseLine == \E mode \in 0 .. 2, selective \in BOOLEAN :
                 Become(eraseInLine(scr, mode, selective))
EraseChars == \E n \in Counts : Become(eraseChars(scr, n))
Protect == \E on \in {{}, {"dec"}, {"iso"}} : Become([scr EXCEPT !.pen = on])

ShiftChars == \E n \in Counts : Become(insertChars(scr, n)) \/ Become(deleteChars(scr, n))
EditLines == \E n \in Counts : Become(insertLines(scr, n)) \/ Become(deleteLines(scr, n))
ScrollRegion == \E n \in Counts : Become(scrollUp(scr, n)) \/ Become(scrollDown(scr, n))
ShiftColumns ==
    \E n \in Counts : \/ Become(insertColumns(scr, n)) \/ Become(deleteColumns(scr, n))
                      \/ Become(shiftLeft(scr, n)) \/ Become(shiftRight(scr, n))

Rectangle(runes) ==
    \E y1, y2 \in Rows(scr), x1, x2 \in Cols(scr) :
        LET r == [y1 |-> y1, x1 |-> x1, y2 |-> y2, x2 |-> x2]
        IN \/ \E ch \in runes : Become(fillRect(scr, r, ch))
           \/ \E selective \in BOOLEAN : Become(eraseRect(scr, r, selective))
           \/ \E y \in Rows(scr), x \in Cols(scr) : Become(copyRect(scr, r, y, x))
ScreenAlign == Become(decAlign(scr))

SetRegion == \E top, bottom \in Rows(scr) : Become(setScrollRegion(scr, top, bottom))
SetMargins == /\ Is(scr, 69)
              /\ \E left, right \in Cols(scr) : Become(setLeftRightMargins(scr, left, right))
SaveCursor == Become(saveCursor(scr))
RestoreCursor == Become(restoreCursor(scr))

SetModes(modes) == \E mode \in modes : Become(setMode(scr, mode)) \/ Become(resetMode(scr, mode))
SaveModes(modes) ==
    \E mode \in modes : Become(xtSaveMode(scr, mode)) \/ Become(xtRestoreMode(scr, mode))
SetAnsiModes == \E on \in BOOLEAN : \/ Become([scr EXCEPT !.InsertMode = on])
                                    \/ Become([scr EXCEPT !.LineFeedNewLine = on])
SetConformance == \E level \in {63, 64, 65} : Become([scr EXCEPT !.conformanceLevel = level])
SoftReset == Become(softReset(scr))
HardReset == Become(hardReset(scr))

KeyboardFlags ==
    LET k == activeKbd(scr)
    IN \E f \in {0, 1} : \/ Become(withKbd(scr, kbdPush(k, f)))
                         \/ \E mode \in 1 .. 3 : Become(withKbd(scr, kbdSet(k, f, mode)))
                         \/ \E n \in Counts \ {0} : Become(withKbd(scr, kbdPop(k, n)))

(* From outside: the size of the viewport, and the flush.                  *)
Resize(heights, widths) == \E h \in heights, w \in widths : Become(Resized(scr, h, w))
DrainScrollback == scr.Drained # <<>> /\ Become(dropDrained(scr))
TakeScrollbackCleared == scr.scrollbackCleared /\ Become([scr EXCEPT !.scrollbackCleared = FALSE])

Init == \E h \in Heights, w \in Widths : scr = New(h, w)

-----------------------------------------------------------------------------
(* The indices the code uses without a check stay inside what they index:  *)
(* the cursor and the margins in the grid, every row as wide as the        *)
(* screen, the tab stops as many as the columns.                           *)
Fits ==
    /\ DOMAIN scr.Cells = Rows(scr) /\ DOMAIN scr.wrapped = Rows(scr)
    /\ \A y \in Rows(scr) : DOMAIN scr.Cells[y] = Cols(scr)
    /\ scr.curY \in Rows(scr) /\ scr.curX \in Cols(scr)
    /\ 0 <= scr.scrollTop /\ scr.scrollTop <= scr.scrollBottom /\ scr.scrollBottom < scr.Height
    /\ 0 <= scr.leftMargin /\ scr.leftMargin <= scr.rightMargin /\ scr.rightMargin < scr.Width
    /\ scr.tabStops # <<>> => scr.tabStops[1].len = scr.Width
    /\ scr.InAltScreen <=> scr.savedMain # <<>>
=============================================================================
