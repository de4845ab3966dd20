----------------------------- MODULE VtCommands -----------------------------
(***************************************************************************)
(* What a program tells the terminal beside its text: titles and their     *)
(* stack, palette and clipboard, notifications, progress and the OSC 7501  *)
(* reports.  src/vt runs each on the parsed payload (dispatchOsc,          *)
(* windowManipulation); the consumer collects the one-shot results         *)
(* (TakeClipboard, TakePaletteChanged) after each chunk of output.         *)
(*                                                                         *)
(* The record term is the part of vt.Screen they touch, under its field    *)
(* names.  Titles, texts and colours are opaque values; what the payload   *)
(* syntax can get wrong is the form a field is given with.                 *)
(***************************************************************************)
EXTENDS ProgramStatus
LOCAL INSTANCE SequencesExt

CONSTANTS
    Titles,           \* window and icon titles
    Texts,            \* clipboard texts and notifications
    LastSlot,         \* the last dynamic colour (19)
    MaxTitleStack,    \* entries kept (maxTitleStack)
    StatusBound       \* bound: numbers drawn by nextStatusSeq

ASSUME CommandsAssumption == MaxTitleStack \in Nat \ {0} /\ LastSlot \in Nat /\ StatusBound \in Nat

VARIABLE term

Nothing == "nothing"
Theme == "theme"
NewTerm ==
    [Title |-> Nothing, iconTitle |-> Nothing, titleStack |-> <<>>,
     colours |-> [table \in {"palette", "special", "dynamic"} |-> [c \in {} |-> Theme]],
     paletteMade |-> FALSE,  \* paletteOverride # nil, which an emptied map is not
     paletteChanged |-> FALSE,
     selection |-> Nothing, pendingClipboard |-> Nothing, response |-> <<>>,
     Notification |-> Nothing, NotificationSeq |-> 0, Progress |-> -1, ProgressValue |-> -1,
     program |-> NoPrograms]

CommandsInit == term = NewTerm
NextStatusSeq(t) ==
    (IF t.NotificationSeq > t.program.seq THEN t.NotificationSeq ELSE t.program.seq) + 1

-----------------------------------------------------------------------------
(* OSC 0, 1, 2 and the title stack (CSI 22 t, CSI 23 t): a push keeps both *)
(* titles, a pop takes the entry whichever title it restores.              *)

SetTitle(which, title) ==
    term' = [term EXCEPT !.Title = IF which \in {0, 2} THEN title ELSE @,
                         !.iconTitle = IF which \in {0, 1} THEN title ELSE @]
pushTitle(t) ==
    LET all == Append(t.titleStack, [icon |-> t.iconTitle, window |-> t.Title])
        n == Len(all)
    IN [t EXCEPT !.titleStack = IF n > MaxTitleStack THEN SubSeq(all, n - MaxTitleStack + 1, n) ELSE all]
popTitle(t, which) ==
    LET n == Len(t.titleStack)
        top == t.titleStack[n]
    IN IF n = 0 THEN t
       ELSE [t EXCEPT !.titleStack = SubSeq(@, 1, n - 1),
                      !.iconTitle = IF which \in {0, 1} THEN top.icon ELSE @,
                      !.Title = IF which \in {0, 2} THEN top.window ELSE @]
PushTitle == term' = pushTitle(term)
PopTitle(which) == term' = popTitle(term, which)

-----------------------------------------------------------------------------
(* Colours: the palette (OSC 4), the special ones (OSC 4 from 256 on, OSC  *)
(* 5) and the dynamic slots (OSC 10 to 19), each a table of overrides over *)
(* the theme.  A spec names a table and an index and gives a colour, "?"   *)
(* to ask for it, or "bad".  Only the palette is painted with.             *)

Override(table, i, colour) == [c \in DOMAIN table \cup {i} |-> IF c = i THEN colour ELSE table[c]]
colorToWire(t, spec) ==
    IF spec.index \in DOMAIN t.colours[spec.table] THEN t.colours[spec.table][spec.index] ELSE Theme
setOrQuerySpecialColor(t, spec) ==
    CASE spec.colour = "?" -> [t EXCEPT !.response = Append(@, colorToWire(t, spec))]
      [] spec.colour = "bad" -> t
      [] OTHER -> [t EXCEPT !.colours[spec.table] = Override(@, spec.index, spec.colour),
                            !.paletteMade = @ \/ spec.table = "palette",
                            !.paletteChanged = @ \/ spec.table = "palette"]
handleOscPalette(t, specs) == FoldLeft(setOrQuerySpecialColor, t, specs)
(* OSC 10 with n colours sets n slots from 10 on, up to the last.          *)
handleOscColor(t, slot, given) ==
    handleOscPalette(t, [i \in {k \in DOMAIN given : slot + k - 1 <= LastSlot} |->
                            [table |-> "dynamic", index |-> slot + i - 1, colour |-> given[i]]])

Listed(t, table, listed) ==
    IF listed = {} THEN DOMAIN t.colours[table] ELSE listed \cap DOMAIN t.colours[table]
\* Mutant of handleOscPaletteReset: resetting listed colours schedules no repaint.
handleOscPaletteResetQuiet(t, listed) ==
    LET gone == Listed(t, "palette", listed)
    IN [t EXCEPT !.colours.palette = Drop(@, gone), !.paletteMade = @ /\ listed # {},
                 !.paletteChanged = @ \/ (listed = {} /\ t.paletteMade)]
handleOscPaletteReset(t, listed) ==
    LET gone == Listed(t, "palette", listed)
    IN [t EXCEPT !.colours.palette = Drop(@, gone), !.paletteMade = @ /\ listed # {},
                 !.paletteChanged = @ \/ gone # {} \/ (listed = {} /\ t.paletteMade)]
handleSpecialColorReset(t, listed) ==
    [t EXCEPT !.colours.special = Drop(@, Listed(t, "special", listed))]

(* OSC 52: "?" reads the selection back where that is allowed, a text sets *)
(* it and queues it for the browser, anything else clears the selection.   *)
handleOsc52(t, payload, allowReport) ==
    CASE payload = "?" ->
            IF allowReport THEN [t EXCEPT !.response = Append(@, t.selection)] ELSE t
      [] payload \in Texts -> [t EXCEPT !.selection = payload, !.pendingClipboard = payload]
      [] OTHER -> [t EXCEPT !.selection = Nothing]

Palette(specs) == term' = handleOscPalette(term, specs)
PaletteReset(listed) == term' = handleOscPaletteReset(term, listed)
SpecialReset(listed) == term' = handleSpecialColorReset(term, listed)
DynamicColours(slot, given) == term' = handleOscColor(term, slot, given)
DynamicReset(slot) == term' = [term EXCEPT !.colours.dynamic = Drop(@, {slot})]
Clipboard(payload, allowReport) == term' = handleOsc52(term, payload, allowReport)

(* What handlePTYData takes after a chunk of output.                       *)
Take == term' = [term EXCEPT !.paletteChanged = FALSE, !.pendingClipboard = Nothing, !.response = <<>>]

-----------------------------------------------------------------------------
(* OSC 9 and OSC 9;4.  A report without a usable state or percentage       *)
(* leaves the bar alone; 1 and 4 need a percentage, 0 and 3 take none.     *)

Notify(text) ==
    /\ NextStatusSeq(term) <= StatusBound
    /\ term' = IF text = Nothing THEN term
               ELSE [term EXCEPT !.Notification = text, !.NotificationSeq = NextStatusSeq(term)]
NoFields == -1
progressPercent(st, pr) ==
    CASE st \in {0, 3} -> [ok |-> TRUE, value |-> -1]
      [] st \notin {0, 3} /\ pr.form = "absent" -> [ok |-> st = 2, value |-> -1]
      [] st \notin {0, 3} /\ pr.form = "bad" -> [ok |-> FALSE, value |-> -1]
      [] OTHER -> [ok |-> TRUE, value |-> IF pr.n < 0 THEN 0 ELSE IF pr.n > 100 THEN 100 ELSE pr.n]
setProgress(t, st, pr) ==
    CASE st = NoFields -> [t EXCEPT !.Progress = 0, !.ProgressValue = -1]
      [] st \in 0 .. 4 ->
            IF progressPercent(st, pr).ok
            THEN [t EXCEPT !.Progress = st, !.ProgressValue = progressPercent(st, pr).value] ELSE t
      [] OTHER -> t
Progress(st, pr) == term' = setProgress(term, st, pr)

(* OSC 7501, the prompt mark of OSC 133, RIS and the exit of the process.  *)
handleOsc7501(pairs) ==
    LET r == parseProgramReport(pairs)
        c == [event |-> "report", id |-> r.id, rec |-> r.rec, seq |-> NextStatusSeq(term)]
    IN /\ NextStatusSeq(term) <= StatusBound
       /\ term' = IF r.ok THEN [term EXCEPT !.program = apply(@, c)] ELSE term
Prompt == term' = [term EXCEPT !.program = apply(@, Event("prompt"))]
Exited == ~ term.program.exited /\ term' = [term EXCEPT !.program = apply(@, Event("exit"))]
HardReset == term' = [term EXCEPT !.program = apply(@, Event("reset"))]

-----------------------------------------------------------------------------
(* No program left by an exited process is shown as working or waiting,    *)
(* what the screen believes is shown is what the records fold into, the    *)
(* numbers of the records and of the last occurrence were drawn, the table *)
(* keeps its bound, and a bar that has to show a percentage has one        *)
(* (programStatus.apply, store, fold, nextStatusSeq, setProgress).         *)
RecordsSound ==
    LET p == term.program
    IN /\ Cardinality(DOMAIN p.records) <= MaxRecords
       /\ p.exited => \A i \in DOMAIN p.records : p.records[i].state \notin Unfinished
       /\ p.shown = Shown(p.records)
       /\ p.occurrence <= p.seq /\ \A i \in DOMAIN p.records : p.records[i].touched \in 1 .. p.seq
       /\ p.seq # term.NotificationSeq \/ p.seq = 0
       /\ term.Progress \in {1, 4} => term.ProgressValue \in 0 .. 100
=============================================================================
