------------------------------- MODULE Viewers -------------------------------
(***************************************************************************)
(* What the viewers of one session tell its handler about themselves: the  *)
(* size each one wants and whether it has the focus.  The last size wins,  *)
(* a departure heals the size for those who stay (terminal.go:2209-2374),  *)
(* and the program is told the focus of the session (focus.go).            *)
(*                                                                         *)
(* A socket's read loop handles one message at a time but takes the        *)
(* registry's lock and the handler's one after the other, so the messages  *)
(* of two sockets interleave; at[c] is the step socket c is to take next.  *)
(* A size is applied to the scheduler of FlushScheduler, whose clients     *)
(* these are.                                                              *)
(* The session has started and its terminal is open: applySize and         *)
(* maybeHealSize return at once otherwise, and applySize also when the     *)
(* kernel refuses the size (terminal.go:2294-2315, 2344).                  *)
(***************************************************************************)
EXTENDS FlushScheduler

CONSTANTS
    Sizes,         \* sizes a viewer may want, after clampResize
    NoSize,        \* of a viewer that has not said
    Reader,        \* the goroutine that reads the program's output
    keepUnfocused  \* the handler's option of that name

ASSUME ViewersAssumption ==
    /\ Sizes \subseteq [cols : Nat, rows : Nat] /\ Sizes # {} /\ NoSize \notin Sizes
    /\ Reader \notin Clients

VARIABLES
    size,      \* of the terminal and the screen
    wants,     \* clientState: the size and focus each socket reported
    at,        \* the next step of each socket, and the size it concerns
    heal,      \* the heal timer
    healing,   \* what a heal that has fired has read, or NotHealing
    reports,   \* DEC 1004 is set
    told,      \* focusTold
    writing    \* reports derived but not yet written, by goroutine

viewerVars == <<size, wants, at, heal, healing, reports, told, writing>>

Said(cols, rows) == [cols |-> cols, rows |-> rows]
NoWish == [size |-> NoSize, focused |-> FALSE]
Step(what, d) == [step |-> what, size |-> d]
Resting == Step("rest", NoSize)
NotHealing == [stage |-> "rest", size |-> NoSize, seen |-> wants]

ViewersInit ==
    /\ size = (CHOOSE d \in Sizes : TRUE) /\ wants = [c \in Clients |-> NoWish] /\ at = [c \in Clients |-> Resting]
    /\ heal = "off" /\ healing = [stage |-> "rest", size |-> NoSize, seen |-> [c \in Clients |-> NoWish]]
    /\ reports = FALSE /\ told = "unknown"
    /\ writing = [g \in Clients \cup {Reader} |-> "none"]

sizeVars == <<size, heal, healing>>
focusVars == <<reports, told, writing>>
Reaches(c, s) == at' = [at EXCEPT ![c] = s]
Idle(c) == socket[c] = "attached" /\ at[c] = Resting

-----------------------------------------------------------------------------
(* DEC 1004.                                                               *)

anyFocused == \E c \in Attached : wants[c].focused

\* Goroutine g, under the handler's lock, derives the answer and takes the report
\* along, if there is one, to write it when the lock is released.
focusReportLocked(g, mode, focused) ==
    LET want == IF focused /\ ~keepUnfocused THEN "in" ELSE "out"
    IN  IF ~mode
        THEN told' = "unknown" /\ UNCHANGED writing
        ELSE told' = want /\ writing' = [writing EXCEPT ![g] = IF told = want THEN "none" ELSE want]

Write(g) ==
    /\ writing[g] # "none"
    /\ writing' = [writing EXCEPT ![g] = "none"]
    /\ UNCHANGED <<vars, sizeVars, wants, at, reports, told>>

\* Mutant of reportFocus: the answer is the socket's own, not the session's.
reportFocusOwn(c) ==
    /\ at[c].step = "report" /\ writing[c] = "none"
    /\ Reaches(c, [at[c] EXCEPT !.step = IF socket[c] = "away" THEN "heal" ELSE "rest"])
    /\ focusReportLocked(c, reports, wants[c].focused)
    /\ UNCHANGED <<vars, sizeVars, wants, reports>>
reportFocus(c) ==
    /\ at[c].step = "report" /\ writing[c] = "none"
    /\ Reaches(c, [at[c] EXCEPT !.step = IF socket[c] = "away" THEN "heal" ELSE "rest"])
    /\ focusReportLocked(c, reports, anyFocused)
    /\ UNCHANGED <<vars, sizeVars, wants, reports>>

\* The program's output, in which it may set or reset the mode: derived in the
\* same section of the lock.
SetFocusMode(on) ==
    /\ reports' = on /\ writing[Reader] = "none"
    /\ focusReportLocked(Reader, on, anyFocused)
    /\ UNCHANGED <<vars, sizeVars, wants, at>>

SetClientFocus(c, f) ==
    /\ Idle(c) /\ wants' = [wants EXCEPT ![c].focused = f]
    /\ Reaches(c, Step("report", NoSize))
    /\ UNCHANGED <<vars, sizeVars, focusVars>>

-----------------------------------------------------------------------------
(* Sizes.                                                                  *)

RecordSize(c, d) ==
    /\ Idle(c) /\ wants' = [wants EXCEPT ![c].size = d]
    /\ Reaches(c, Step("apply", d))
    /\ UNCHANGED <<vars, sizeVars, focusVars>>
handleResize(c) ==
    /\ at[c].step = "apply" /\ Reaches(c, Resting)
    /\ size' = at[c].size /\ applySize(at[c].size # size)
    /\ UNCHANGED <<resizes, wants, heal, healing, focusVars>>

\* The viewer leaves: its registration goes, then the focus is derived anew, then
\* a heal is armed if the size was its.
Depart(c) ==
    /\ Idle(c) /\ Leave(c)
    /\ Reaches(c, Step("report", wants[c].size)) /\ wants' = [wants EXCEPT ![c] = NoWish]
    /\ UNCHANGED <<sizeVars, focusVars>>
maybeHealSize(c) ==
    /\ at[c].step = "heal" /\ writing[c] = "none" /\ Reaches(c, Resting)
    /\ heal' = IF at[c].size = size THEN "armed" ELSE heal
    /\ UNCHANGED <<vars, size, healing, wants, focusVars>>
Arrive(c) ==
    at[c] = Resting /\ Register(c) /\ UNCHANGED viewerVars
AttachGoesOn(c) ==
    \/ AttachReset(c) /\ UNCHANGED viewerVars
    \/ /\ AttachPoke(c) /\ Reaches(c, Step("report", NoSize))
       /\ UNCHANGED <<wants, sizeVars, focusVars>>

Sized == {c \in Attached : wants[c].size # NoSize}
Smallest(S) == CHOOSE n \in S : \A k \in S : n <= k
\* Mutant of MinLiveSize: the size of the narrowest viewer.
MinLiveSizeOfOne ==
    LET c == CHOOSE c \in Sized : \A o \in Sized : wants[c].size.cols <= wants[o].size.cols
    IN  wants[c].size
MinLiveSize ==
    Said(Smallest({wants[c].size.cols : c \in Sized}), Smallest({wants[c].size.rows : c \in Sized}))

\* healSize reads the sizes under the registry's lock, looks at the screen under
\* the handler's, and takes that lock again to apply what it read.
HealFires ==
    /\ heal = "armed" /\ healing.stage = "rest" /\ heal' = "off"
    /\ healing' = IF Sized = {} THEN NotHealing
                  ELSE [stage |-> "look", size |-> MinLiveSize, seen |-> wants]
    /\ UNCHANGED <<vars, size, wants, at, focusVars>>
HealLooks ==
    /\ healing.stage = "look"
    /\ healing' = IF healing.size = size THEN NotHealing ELSE [healing EXCEPT !.stage = "apply"]
    /\ UNCHANGED <<vars, size, heal, wants, at, focusVars>>
HealApplies ==
    /\ healing.stage = "apply" /\ healing' = NotHealing
    /\ size' = healing.size /\ applySize(healing.size # size)
    /\ UNCHANGED <<resizes, wants, at, heal, focusVars>>

ViewersNext ==
    \/ \E c \in Clients :
        \/ Arrive(c) \/ AttachGoesOn(c)
        \/ Depart(c) \/ maybeHealSize(c) \/ handleResize(c) \/ reportFocus(c)
        \/ \E d \in Sizes : RecordSize(c, d)
        \/ \E f \in BOOLEAN : SetClientFocus(c, f)
    \/ \E g \in Clients \cup {Reader} : Write(g)
    \/ \E on \in BOOLEAN : SetFocusMode(on)
    \/ HealFires \/ HealLooks \/ HealApplies

\* The viewers of a session and its scheduler together.
ViewersSpec ==
    Init /\ ViewersInit
    /\ [][ViewersNext \/ ((Program \/ Flush \/ Cancelled \/ Tick) /\ UNCHANGED viewerVars)]_<<vars, viewerVars>>

-----------------------------------------------------------------------------

\* Once every change of a focus has been derived, the handler has told the
\* program, or is about to, what holds now, and no trigger is left to correct it
\* (focus.go:58): in any order of the sockets' and the program's own changes.
FocusIsCurrent ==
    (\A c \in Clients : at[c].step # "report") =>
        told = IF ~reports THEN "unknown" ELSE IF anyFocused /\ ~keepUnfocused THEN "in" ELSE "out"

\* After a heal every viewer who was there when it was computed, and has not
\* changed its mind since, sees the whole screen (client_registry.go:138).
HealFitsViewers ==
    [][HealApplies => \A c \in Sized :
        wants[c] = healing.seen[c] =>
            size'.cols <= wants[c].size.cols /\ size'.rows <= wants[c].size.rows]_<<vars, viewerVars>>

SizeSettled ==
    /\ heal = "off" /\ healing.stage = "rest"
    /\ \A c \in Clients : socket[c] \in {"away", "attached"} /\ at[c] = Resting
\* When nothing is left to settle nobody stays at the size of one who left: a
\* departure that heals nothing is one after which "some other client, or a live
\* resize, still holds the current size" (terminal.go:2333).
SizeIsHeld ==
    SizeSettled /\ Sized # {} =>
        size = MinLiveSize \/ \E c \in Sized : wants[c].size = size
=============================================================================
