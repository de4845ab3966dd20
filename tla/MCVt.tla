-------------------------------- MODULE MCVt --------------------------------
(***************************************************************************)
(* The terminal emulator for TLC, from the bytes of the program's output   *)
(* to the grid: the bytes of MCVtParser, the commands of MCVtCommands or   *)
(* the drawing of MCVtScreen, whichever kind of program is running.        *)
(***************************************************************************)
EXTENDS MCVtParser, MCVtCommands

CONSTANTS
    Narrow, Wide, Space, Spacer, Align, Heights, Widths, Counts, TabSize, MaxKbdStack,
    letter, wide, follower, CutRegions    \* of MCVtScreen

VARIABLES scr, drawing, taken, left
Grid == INSTANCE MCVtScreen WITH program <- drawing

gridVars == <<scr, drawing, taken, left>>
vtVars == <<mcvars, cvars, gridVars>>

ParserIdle == program = "none" /\ ParserInit /\ last = 0 /\ body = <<>>
GridIdle == drawing = "none" /\ scr = Grid!New(1, 1) /\ taken = <<>> /\ left = <<>>

VtInit ==
    \/ MCInit /\ CommandsIdle /\ GridIdle
    \/ ParserIdle /\ MCCommandsInit /\ GridIdle
    \/ ParserIdle /\ CommandsIdle /\ Grid!MCInit
VtNext ==
    \/ program # "none" /\ MCNext /\ UNCHANGED <<cvars, gridVars>>
    \/ topic # "none" /\ MCCommandsNext /\ UNCHANGED <<mcvars, gridVars>>
    \/ drawing # "none" /\ Grid!MCNext /\ UNCHANGED <<mcvars, cvars>>
VtSpec == VtInit /\ [][VtNext]_vtVars

-----------------------------------------------------------------------------
(* What the program writes is read as it was written: control sequences,   *)
(* strings and text (VtParser, over the bytes MCVtParser remembers).       *)
BytesAreRead == ParamsAreRead /\ StringsWhole /\ TextIsAccounted

(* Cursor, region and margins stay on the screen, as long as no alternate  *)
(* screen is left onto a region that a resize has cut off (CutRegions);    *)
(* under origin mode the cursor stays in the region and the margins, but   *)
(* for the controls MCVtScreen names (Unconfined).                         *)
Confined == Grid!Confined

(* A row a soft wrap opened stays marked wherever it is moved (screen.go). *)
ContinuationKeepsFlag == Grid!ContinuationKeepsFlag

(* The lines taken, the lines waiting and the grid are a roll of paper     *)
(* (Paper): nothing that scrolls off is lost, doubled or cut loose.        *)
PrintsOnPaper == Grid!PrintsOnPaper

(* The main screen comes back as the alternate one found it.               *)
AltRoundTrip == Grid!AltRoundTrip
=============================================================================
