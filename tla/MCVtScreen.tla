----------------------------- MODULE MCVtScreen -----------------------------
(***************************************************************************)
(* Instances of VtScreen for TLC.  One grid under every control is too     *)
(* much for one state space, so a behavior has a program, chosen at the    *)
(* start, with the controls it writes and the sizes of its screen.         *)
(***************************************************************************)
EXTENDS VtScreen

CONSTANTS
    letter, wide,  \* the runes programs print, one narrow and one wide
    follower,      \* the rune a program opens a soft-wrapped row with
    CutRegions     \* may an alternate screen be left onto a region that a resize
                   \* in between has cut off (MCVtRegion.cfg shows what follows)

VARIABLES
    program,   \* what runs in the terminal
    taken,     \* the lines the flush has taken, for the printing program
    left       \* the main screen as it was when the alternate one came up

mcvars == <<scr, program, taken, left>>

(* For each program the size of its screen, how many scrolled-off lines it *)
(* may leave, and the sizes a resize may take.                             *)
Programs ==
    [print  |-> [h |-> 2, w |-> 2, lines |-> 2, hs |-> {}, ws |-> {}],
     rows   |-> [h |-> 3, w |-> 1, lines |-> 2, hs |-> {2, 3}, ws |-> {1}],
     alt    |-> [h |-> 2, w |-> 2, lines |-> 0, hs |-> {1, 2}, ws |-> {1, 2}],
     keys   |-> [h |-> 1, w |-> 1, lines |-> 0, hs |-> {}, ws |-> {}],
     origin |-> [h |-> 3, w |-> 3, lines |-> 1, hs |-> {}, ws |-> {}],
     region |-> [h |-> 3, w |-> 1, lines |-> 0, hs |-> {1, 2, 3}, ws |-> {1}],
     margin |-> [h |-> 2, w |-> 3, lines |-> 0, hs |-> {}, ws |-> {}],
     edit   |-> [h |-> 1, w |-> 2, lines |-> 0, hs |-> {}, ws |-> {}],
     modes  |-> [h |-> 1, w |-> 2, lines |-> 1, hs |-> {}, ws |-> {}],
     tabs   |-> [h |-> 1, w |-> 4, lines |-> 1, hs |-> {1}, ws |-> {2, 4, 5}]]

MCInit == /\ program \in DOMAIN Programs
          /\ scr = New(Programs[program].h, Programs[program].w)
          /\ taken = <<>> /\ left = <<>>

SomeResize == Resize(Programs[program].hs, Programs[program].ws)

(* Text, line breaks and cursor motion: narrow and wide runes.             *)
Printing ==
    \/ PrintRune({letter, wide}) \/ CarriageReturn \/ LineFeed \/ NextLine \/ Index
    \/ Backspace \/ MoveLeft \/ TabKey
(* Spaces, and a follower for every rune that opens a soft-wrapped row.           *)
RowEdits ==
    \/ PrintRune(IF scr.pendingWrap THEN {follower} ELSE {Space})
    \/ CarriageReturn \/ LineFeed \/ ReverseIndex \/ EditLines \/ ScrollRegion \/ SetRegion
    \/ EraseDisplay \/ HardReset \/ SomeResize \/ MoveTo \/ TakeScrollbackCleared
AltScreen == PrintRune({letter}) \/ LineFeed \/ SetModes(AltModes) \/ SomeResize
Keys == SetModes({1049}) \/ KeyboardFlags
Origin ==
    \/ PrintRune({Space}) \/ CarriageReturn \/ LineFeed \/ NextLine \/ ReverseIndex \/ Backspace
    \/ BackIndex \/ ForwardIndex \/ MoveBy \/ MoveLeft \/ MoveTo \/ TabForward
    \/ MoveRelative \/ TabBackward
    \/ SetRegion \/ SetMargins \/ SetModes({6, 45, 69})
(* A region, origin mode and a saved cursor, on screens that are entered,  *)
(* left and resized; then margins, on screens that are entered and left.   *)
Region ==
    \/ LineFeed \/ ReverseIndex \/ MoveTo \/ SaveCursor \/ RestoreCursor
    \/ SetRegion \/ SetModes({6} \cup AltModes) \/ SomeResize
Margin == LineFeed \/ MoveTo \/ SetMargins \/ SetModes({6, 69, 1049}) \/ SetAnsiModes
Editing ==
    \/ PrintRune({letter}) \/ RepeatLast \/ Protect \/ EraseLine \/ EraseChars \/ ShiftChars
    \/ ShiftColumns \/ Rectangle({follower}) \/ MoveTo \/ ScreenAlign
Modes ==
    \/ PrintRune({Space}) \/ SetModes({3, 69, 95, 1000, 1002}) \/ SaveModes({69, 1000, 1049})
    \/ SetAnsiModes \/ SetConformance \/ SoftReset \/ SetMargins
Tabs ==
    \/ PrintRune({Space}) \/ SetModes({41, 1048}) \/ SaveCursor \/ RestoreCursor
    \/ TabStops \/ TabForward \/ TabBackward \/ TabKey \/ MoveRelative \/ SomeResize

MCNext ==
    /\ UNCHANGED program
    /\ \/ /\ taken' = taken
          /\ \/ program = "print" /\ Printing
             \/ program = "rows" /\ RowEdits
             \/ program = "alt" /\ AltScreen
             \/ program = "keys" /\ Keys
             \/ program = "origin" /\ Origin
             \/ program = "region" /\ Region
             \/ program = "margin" /\ Margin
             \/ program = "edit" /\ Editing
             \/ program = "modes" /\ Modes
             \/ program = "tabs" /\ Tabs
       \/ /\ DrainScrollback
          /\ taken' = IF program = "print" THEN taken \o scr.Drained ELSE <<>>
    /\ Len(scr'.Drained) + Len(taken') <= Programs[program].lines
    /\ CutRegions \/ scr'.scrollTop <= scr'.scrollBottom
    /\ left' = IF program \notin {"alt", "keys"} \/ ~ scr'.InAltScreen THEN <<>>
               ELSE IF ~ scr.InAltScreen
               THEN <<[cells |-> scr.Cells, wrapped |-> scr.wrapped, kbd |-> scr.mainKbd,
                       h |-> scr.Height, w |-> scr.Width]>>
               ELSE [left EXCEPT ![1].h = least(@, scr'.Height), ![1].w = least(@, scr'.Width)]

MCSpec == MCInit /\ [][MCNext]_mcvars

-----------------------------------------------------------------------------
(* The printing program's lines, read from the lines taken, the lines      *)
(* waiting and the grid, are a roll of paper: nothing that scrolls off is  *)
(* lost, doubled or cut loose from the line it continues                   *)
(* (put, lineDown, scrollUpOnce, drainTopRow, DrainScrollback).            *)
gone == taken \o scr.Drained
Text(line) == [x \in DOMAIN line |-> line[x].ch]
PaperRoll == INSTANCE Paper WITH
    H <- 2, W <- 2, Narrow <- {letter}, Wide <- {wide}, Blank <- Space, Half <- Spacer,
    roll <- [i \in 1 .. Len(gone) + scr.Height |->
                 IF i <= Len(gone) THEN Text(gone[i].row) ELSE Text(scr.Cells[i - Len(gone) - 1])],
    joined <- [i \in 1 .. Len(gone) + scr.Height |->
                 IF i <= Len(gone) THEN gone[i].joined ELSE scr.wrapped[i - Len(gone) - 1]],
    row <- Len(gone) + scr.curY + 1, col <- scr.curX, full <- scr.pendingWrap
PrintsOnPaper ==
    /\ program = "print" => PaperRoll!Init
    /\ [][program = "print" => PaperRoll!Next \/ UNCHANGED PaperRoll!vars]_mcvars

(* A row that a soft wrap opened is marked as the continuation of the row  *)
(* before it wherever line edits, scrolls, resizes and drains have moved   *)
(* it since ("every site that moves whole rows must move it too").         *)
ContinuationKeepsFlag ==
    program = "rows" =>
        /\ \A y \in Rows(scr) : scr.Cells[y][0].ch = follower => scr.wrapped[y]
        /\ \A i \in 1 .. Len(scr.Drained) : scr.Drained[i].row[0].ch = follower => scr.Drained[i].joined

(* Cursor, region and margins stay on the screen, as long as no alternate  *)
(* screen is left onto a region that a resize has cut off (CutRegions).    *)
(* Under origin mode no control takes the cursor out of the region and the *)
(* margins (originRow, originCol, setScrollRegion, setLeftRightMargins,    *)
(* put), but for those that ask for neither: HPR, CBT, a restored cursor,  *)
(* a line feed that returns to column 0, the alternate screen come or gone *)
(* (Unconfined).                                                           *)
Inside(s) == inRegion(s) /\ withinHMargins(s, s.curX)
Unconfined ==
    \/ MoveRelative \/ TabBackward \/ RestoreCursor
    \/ scr.LineFeedNewLine /\ LineFeed
    \/ scr'.InAltScreen # scr.InAltScreen
Confined ==
    /\ []Fits
    /\ [][Is(scr', 6) /\ (Inside(scr) \/ ~ Is(scr, 6)) /\ program \in {"origin", "region", "margin"}
          => Inside(scr') \/ Unconfined]_mcvars

(* Leaving the alternate screen puts back the main screen: its cells, its  *)
(* wrap chains and its keyboard flags, as far as no resize in between has  *)
(* cut them (enterAltScreen, exitAltScreen, resizeSavedMain, activeKbd).   *)
AltRoundTrip ==
    [][left # <<>> /\ scr.InAltScreen /\ ~ scr'.InAltScreen =>
          /\ \A y \in 0 .. left[1].h - 1 :
                /\ scr'.wrapped[y] = left[1].wrapped[y]
                /\ \A x \in 0 .. left[1].w - 1 : scr'.Cells[y][x] = left[1].cells[y][x]
          /\ scr'.mainKbd = left[1].kbd]_mcvars

(* The cursor is on the screen ("the cursor stays in bounds across the     *)
(* resize", parser_fuzz_test.go:97; Resize, exitAltScreen).                *)
CursorOnScreen == scr.curY \in Rows(scr) /\ scr.curX \in Cols(scr)
=============================================================================
