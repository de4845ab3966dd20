--------------------------- MODULE FlushScheduler ---------------------------
(***************************************************************************)
(* The flush scheduler of terminal/terminal.go: one goroutine per session  *)
(* that sleeps on a one-slot channel, builds a frame under the handler's   *)
(* lock and writes it outside, spaced by a batch window and held back by   *)
(* DEC 2026 and by the redraw that follows a size change.                  *)
(*                                                                         *)
(* The screen is its Parts: the rows, and beside them the cursor, the modes *)
(* and the title, which Build compares with what it announced last and     *)
(* sends like a row.  Deadlines are the ticks left until they pass.        *)
(* Scrolled-off lines, the alternate screen and the resume gate are        *)
(* ScreenDelivery's; the size itself is Viewers'.                          *)
(***************************************************************************)
EXTENDS Integers

CONSTANTS
    Clients,       \* sockets that come and go
    Parts,         \* what a screen consists of
    Content,       \* what a part may show
    Unknown,       \* what a client shows of a part it was not sent
    Window,        \* ticks of a batch window (flushInterval)
    Quiet, Cap,    \* ticks of redrawSettleQuiet and redrawSettleCap
    MaxRearms,     \* redrawSettleMaxRearms
    Sync,          \* ticks a DEC 2026 hold lasts
    MaxResizes,    \* bound: size changes and synchronized updates of a
    MaxSyncs       \* behavior; one that makes them for ever is never shown

ASSUME FlushAssumption ==
    /\ {Window, Quiet, Cap, Sync} \subseteq Nat \ {0}
    /\ {MaxRearms, MaxResizes, MaxSyncs} \subseteq Nat
    /\ Content # {} /\ Unknown \notin Content

VARIABLES
    screen, palette, clip, \* the screen; pending repaint and clipboard signals
    sent,        \* the builder's cache, or NoCache after its Reset
    socket,      \* how far the attach of each client has come
    dirty,       \* the one-slot channel
    owed,        \* output is on the screen, its poke still to come
    loop,        \* where the scheduler stands
    wait,        \* ticks left of the wait it is in
    frame,       \* the frame on its way to the clients
    held,        \* ticks left of the DEC 2026 hold
    settle,      \* the redraw-settle hold
    view,        \* what each client shows
    resizes, syncs \* bounded counts

screenVars == <<screen, palette, clip, owed, syncs>>
holdVars == <<held, settle>>
loopVars == <<loop, wait, frame>>
clientVars == <<socket, view>>
vars == <<screenVars, sent, dirty, loopVars, holdVars, clientVars, resizes>>

NoCache == [p \in {} |-> Unknown]
NoFrame == [to |-> {}, changed |-> {}, rows |-> NoCache]
NoSettle == [on |-> FALSE, cap |-> 0, quiet |-> 0, rearms |-> 0, coalesce |-> FALSE]
Attached == {c \in Clients : socket[c] # "away"}
Nothing == [p \in Parts |-> Unknown]

Init ==
    /\ screen = [p \in Parts |-> CHOOSE x \in Content : TRUE]
    /\ palette = FALSE /\ clip = FALSE /\ owed = FALSE /\ syncs = 0
    /\ sent = NoCache /\ dirty = FALSE
    /\ loop = "idle" /\ wait = 0 /\ frame = NoFrame
    /\ held = 0 /\ settle = NoSettle
    /\ socket = [c \in Clients |-> "away"] /\ view = [c \in Clients |-> Nothing]
    /\ resizes = 0

markDirty == dirty' = TRUE

-----------------------------------------------------------------------------
(* handlePTYData: one read of the program's output, and its poke, which    *)
(* follows when the lock is released.                                      *)

\* Any output extends the quiet window of an armed redraw hold.
handlePTYData ==
    /\ loop # "ended" /\ ~owed /\ owed' = TRUE
    /\ settle' = IF settle.on THEN [settle EXCEPT !.quiet = Quiet] ELSE settle
    /\ UNCHANGED <<sent, dirty, loopVars, socket, resizes>>
Draw(p, x) ==
    /\ screen[p] # x /\ handlePTYData
    /\ screen' = [screen EXCEPT ![p] = x]
    /\ UNCHANGED <<palette, clip, syncs, held, view>>
\* OSC 4: what the clients show of every part is now wrong.
SetPalette ==
    /\ ~palette /\ handlePTYData
    /\ palette' = TRUE /\ view' = [c \in Clients |-> Nothing]
    /\ UNCHANGED <<screen, clip, syncs, held>>
CopyToClipboard ==
    handlePTYData /\ clip' = TRUE /\ UNCHANGED <<screen, palette, syncs, held, view>>
HoldFlush ==
    /\ syncs < MaxSyncs /\ handlePTYData
    /\ syncs' = syncs + 1 /\ held' = Sync
    /\ UNCHANGED <<screen, palette, clip, view>>
ReleaseFlush ==
    held > 0 /\ handlePTYData /\ held' = 0 /\ UNCHANGED <<screen, palette, clip, syncs, view>>
Poke ==
    /\ owed /\ owed' = FALSE /\ markDirty
    /\ UNCHANGED <<screen, palette, clip, syncs, sent, loopVars, holdVars, clientVars, resizes>>

-----------------------------------------------------------------------------
(* Clients attach in three steps, with the locks released between them:    *)
(* registration, the Reset of the builder, the poke.                       *)

Register(c) ==
    /\ socket[c] = "away" /\ socket' = [socket EXCEPT ![c] = "registered"]
    /\ view' = [view EXCEPT ![c] = Nothing]
    /\ UNCHANGED <<screenVars, sent, dirty, loopVars, holdVars, resizes>>
AttachReset(c) ==
    /\ socket[c] = "registered" /\ socket' = [socket EXCEPT ![c] = "reset"] /\ sent' = NoCache
    /\ UNCHANGED <<screenVars, dirty, loopVars, holdVars, view, resizes>>
AttachPoke(c) ==
    /\ socket[c] = "reset" /\ socket' = [socket EXCEPT ![c] = "attached"] /\ markDirty
    /\ UNCHANGED <<screenVars, sent, loopVars, holdVars, view, resizes>>
Leave(c) ==
    /\ socket[c] = "attached" /\ socket' = [socket EXCEPT ![c] = "away"]
    /\ view' = [view EXCEPT ![c] = Nothing]
    /\ UNCHANGED <<screenVars, sent, dirty, loopVars, holdVars, resizes>>

-----------------------------------------------------------------------------
(* A size: applySize and the redraw it lets settle.                        *)

armRedrawSettle == [on |-> TRUE, cap |-> Cap, quiet |-> Quiet, rearms |-> 0, coalesce |-> FALSE]
\* Nobody shows a screen of the new size yet; at an unchanged size the kernel
\* signals no redraw and only the Reset remains.
applySize(changed) ==
    /\ loop # "ended"
    /\ sent' = NoCache /\ markDirty
    /\ IF changed
       THEN settle' = armRedrawSettle /\ view' = [c \in Clients |-> Nothing]
       ELSE UNCHANGED <<settle, view>>
    /\ UNCHANGED <<screenVars, loopVars, held, socket>>
Resize(changed) ==
    /\ changed => resizes < MaxResizes
    /\ applySize(changed)
    /\ resizes' = IF changed THEN resizes + 1 ELSE resizes

Least(a, b) == IF a < b THEN a ELSE b
Most(a, b) == IF a < b THEN b ELSE a

\* What a look at the hold makes of it, and for how many ticks it holds on.
Look(s, ticks) == [settle |-> s, ticks |-> ticks]
\* Mutant of redrawHoldUntil: the update a lapse lets through is not made whole.
redrawHoldUntilDiff ==
    CASE ~settle.on                  -> Look(settle, 0)
      [] settle.on /\ settle.quiet = 0 -> Look([settle EXCEPT !.on = FALSE], 0)
      [] settle.on /\ settle.quiet > 0 /\ settle.cap = 0 ->
            IF settle.rearms >= MaxRearms THEN Look([settle EXCEPT !.on = FALSE], 0)
            ELSE Look([settle EXCEPT !.rearms = @ + 1, !.cap = Cap], 0)
      [] OTHER -> Look(settle, Least(settle.cap, settle.quiet))
redrawHoldUntil ==
    CASE ~settle.on                  -> Look(settle, 0)
      [] settle.on /\ settle.quiet = 0 -> Look([settle EXCEPT !.on = FALSE], 0)
      [] settle.on /\ settle.quiet > 0 /\ settle.cap = 0 ->
            IF settle.rearms >= MaxRearms THEN Look([settle EXCEPT !.on = FALSE], 0)
            ELSE Look([settle EXCEPT !.rearms = @ + 1, !.cap = Cap, !.coalesce = TRUE], 0)
      [] OTHER -> Look(settle, Least(settle.cap, settle.quiet))

-----------------------------------------------------------------------------
(* The scheduler.                                                          *)

Goes(where, ticks) == loop' = where /\ wait' = ticks

\* The parts that differ from what the cache says the clients were last sent.
Build(cache) == {p \in Parts : cache = NoCache \/ cache[p] # screen[p]}

\* Nobody is attached: nothing is rendered and every signal stays pending.
SuspendedPass ==
    /\ loop = "pass" /\ Attached = {} /\ Goes("window", Window)
    /\ UNCHANGED <<screenVars, sent, dirty, frame, holdVars, clientVars, resizes>>

\* buildFrame under the lock; a hold lets only the clipboard through.
buildFrame ==
    LET look  == redrawHoldUntil
        until == Most(held, look.ticks)
        cache == IF palette \/ (until = 0 /\ look.settle.coalesce) THEN NoCache ELSE sent
        changed == IF until = 0 THEN Build(cache) ELSE {}
    IN /\ loop = "pass" /\ Attached # {}
       /\ palette' = FALSE /\ clip' = FALSE
       /\ settle' = IF until = 0 THEN [look.settle EXCEPT !.coalesce = FALSE] ELSE look.settle
       /\ sent' = IF until = 0 THEN screen ELSE cache
       /\ IF changed = {} /\ ~clip
          THEN /\ frame' = NoFrame
               /\ IF until = 0 THEN Goes("window", Window) ELSE Goes("hold", until)
          ELSE /\ frame' = [to |-> Attached, changed |-> changed, rows |-> screen]
               /\ Goes(IF until = 0 THEN "write" ELSE "writeHeld", until)
       /\ UNCHANGED <<screen, owed, syncs, dirty, held, clientVars, resizes>>

\* dispatchFrame: the clients of the snapshot that are still there get it.
dispatchFrame ==
    /\ loop \in {"write", "writeHeld"}
    /\ view' = [c \in Clients |-> IF c \in frame.to \cap Attached
                 THEN [p \in Parts |-> IF p \in frame.changed THEN frame.rows[p] ELSE view[c][p]]
                 ELSE view[c]]
    /\ frame' = NoFrame
    /\ IF loop = "write" THEN Goes("window", Window) ELSE Goes("hold", wait)
    /\ UNCHANGED <<screenVars, sent, dirty, holdVars, socket, resizes>>

Wakes == dirty /\ dirty' = FALSE
Moves(where) ==
    loop' = where /\ UNCHANGED <<screenVars, sent, wait, frame, holdVars, clientVars, resizes>>

waitForDirty == loop = "idle" /\ Wakes /\ Moves("pass")

\* Mutant of waitForHoldRetry: only output ends the wait.
waitForHoldRetryUntimed == loop = "hold" /\ Wakes /\ Moves("pass")
waitForHoldRetry ==
    /\ loop = "hold"
    /\ Wakes \/ (wait = 0 /\ UNCHANGED dirty)
    /\ Moves("pass")

\* Mutant of waitForBatchWindow: a poke of the window is taken as it closes.
waitForBatchWindowTaken ==
    \/ loop = "window" /\ Wakes /\ Moves("late")
    \/ loop = "window" /\ wait = 0 /\ dirty' = FALSE /\ Moves("idle")
    \/ loop = "late" /\ wait = 0 /\ UNCHANGED dirty /\ Moves("pass")
\* A poke waits out the window; a quiet window ends the burst, and a poke at
\* its edge stays in the channel.
waitForBatchWindow ==
    \/ loop = "window" /\ Wakes /\ Moves("late")
    \/ loop = "window" /\ wait = 0 /\ UNCHANGED dirty /\ Moves("idle")
    \/ loop = "late" /\ wait = 0 /\ UNCHANGED dirty /\ Moves("pass")

\* The context is cancelled: every wait of the loop ends it.
Cancelled ==
    /\ loop \in {"idle", "hold", "window", "late"} /\ UNCHANGED dirty /\ Moves("ended")

Less(n) == IF n = 0 THEN 0 ELSE n - 1
Tick ==
    /\ loop # "ended"
    /\ wait' = Less(wait) /\ held' = Less(held)
    /\ settle' = [settle EXCEPT !.cap = Less(@), !.quiet = Less(@)]
    /\ UNCHANGED <<screenVars, sent, dirty, loop, frame, clientVars, resizes>>

Flush ==
    \/ SuspendedPass \/ buildFrame \/ dispatchFrame
    \/ waitForDirty \/ waitForHoldRetry \/ waitForBatchWindow
Program ==
    \/ \E p \in Parts, x \in Content : Draw(p, x)
    \/ SetPalette \/ CopyToClipboard \/ HoldFlush \/ ReleaseFlush \/ Poke
Attaching(c) == AttachReset(c) \/ AttachPoke(c)
Next ==
    \/ Program \/ Flush \/ Cancelled \/ Tick
    \/ \E c \in Clients : Register(c) \/ Attaching(c) \/ Leave(c)
    \/ \E changed \in BOOLEAN : Resize(changed)

\* Every goroutine that can go on does, and time passes.  The program and the
\* clients are free.
Fairness ==
    /\ WF_vars(Flush) /\ WF_vars(Tick) /\ WF_vars(Poke)
    /\ \A c \in Clients : WF_vars(Attaching(c))
Spec == Init /\ [][Next]_vars /\ Fairness

-----------------------------------------------------------------------------

\* A scheduler asleep with nothing to wake it (terminal.go:1311) has left nothing
\* undone: every client that finished its attach shows the screen, and no
\* clipboard text waits for somebody who is there.
AsleepIsShown ==
    (loop = "idle" /\ ~dirty /\ ~owed /\ \A c \in Clients : socket[c] \in {"away", "attached"})
        => /\ \A c \in Attached : view[c] = screen
           /\ Attached # {} => ~clip

\* A client that lags behind the screen is written to again and again, whatever
\* holds, bursts and arrivals come in between: a held redraw is not stranded by
\* a program that falls silent (terminal.go:1226).
LaggingAreWritten ==
    \A c \in Clients :
        \/ []<>(view[c] = screen \/ socket[c] # "attached" \/ loop = "ended")
        \/ []<><<dispatchFrame /\ c \in frame.to>>_vars

\* While the redraw of a size change has not settled, a client is only ever sent
\* whole screens, never a piece of a half-drawn one (terminal.go:1262).
UnsettledIsWhole ==
    [][loop = "pass" /\ settle'.on => frame'.changed \in {{}, Parts}]_vars
=============================================================================
