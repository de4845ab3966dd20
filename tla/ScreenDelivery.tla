--------------------------- MODULE ScreenDelivery ---------------------------
(***************************************************************************)
(* How a page comes to show what the terminal holds: the screen and its      *)
(* scrolled-off rows (vt), the retained lines, the frame builder and its     *)
(* dispatch and the resume batch (terminal/flush_builder.go, terminal.go),   *)
(* one page's socket, and the page's line store (PageStore).                 *)
(*                                                                         *)
(* One page is followed; `viewer' stands for any other socket the session    *)
(* has, a dead one of this page's included: it keeps the builder running and *)
(* its resumes reset it.  A row's content is the number of the output that   *)
(* wrote it.  The cursor, modes, title, bell, palette and clipboard are left *)
(* out, and the size is established and fixed.                               *)
(***************************************************************************)
EXTENDS PageStore, SequencesExt

CONSTANTS
    Height,             \* rows of the screen
    Capacities,         \* scrollback capacities a server may be configured with
    MaxReplayLines,     \* maxReplayLines
    MaxChunk,           \* lines in one scroll frame: maxScrollLinesPerFrame, replayChunk
    MaxOutput,          \* bound: steps of output
    MaxSockets,         \* bound: sockets the page opens
    MaxWire             \* bound: frames under way to the page

ASSUME SizeAssumption ==
    /\ {Height, MaxChunk, MaxReplayLines} \subseteq Nat \ {0}
    /\ Capacities \subseteq Nat
ASSUME BoundAssumption ==
    /\ {MaxOutput, MaxSockets, MaxWire} \subseteq Nat
    /\ Infinity \in Nat /\ Infinity > MaxOutput + Height /\ Blank = 0

VARIABLES
    \* vt.Screen: the rows, the main screen under the alternate one, and the
    \* rows scrolled off since the last drain.
    screen, saved, inAltScreen, drained,
    \* The handler: its scrollback, a clear to be told, and the frame builder.
    capacity, history, oldest, scrollbackClearedPending, builder,
    \* The flush pass between build and dispatch.
    frame,
    \* The page's socket on the server: its state, the haveThrough of its
    \* resume, and the batch handleResume holds writeMu for; the other socket.
    conn, asked, batch, viewer,
    \* Frames under way to the page, and the page.
    wire, store, acked,
    \* History of the run: rows the page gives up by rule, rows a first window
    \* frame runs ahead of, rows this socket will not bring, rows a heal raised the
    \* floor over and that no frame drew or brought since, and whether the socket has
    \* brought a window; bounds.
    forgone, awaited, missed, unproven, windowSeen, outputs, sockets

screenVars == <<screen, saved, inAltScreen, drained>>
logVars == <<capacity, history, oldest>>
connVars == <<conn, asked, batch>>
pageVars == <<store, acked>>
giveUpVars == <<forgone, awaited, missed, unproven, windowSeen>>
serverVars == <<screenVars, logVars, scrollbackClearedPending, builder, frame, viewer>>
vars == <<serverVars, connVars, wire, pageVars, giveUpVars, outputs, sockets>>

BlankScreen == [y \in 1..Height |-> Blank]

\* prevRowWires and prevBase: what was last sent, nothing after a Reset.
FreshBuilder == [rows |-> <<>>, base |-> 0, prevAlt |-> FALSE, prevAltValid |-> FALSE]
NoFrame == [built |-> FALSE]

Init ==
    /\ screen = BlankScreen /\ saved = BlankScreen /\ inAltScreen = FALSE /\ drained = <<>>
    /\ capacity \in Capacities /\ history = <<>> /\ oldest = 0
    /\ scrollbackClearedPending = FALSE /\ builder = FreshBuilder /\ frame = NoFrame
    /\ conn = "closed" /\ asked = -1 /\ batch = <<>> /\ viewer = FALSE
    /\ wire = <<>> /\ store = EmptyStore /\ acked = FALSE
    /\ forgone = {} /\ awaited = {} /\ missed = {} /\ unproven = {} /\ windowSeen = FALSE
    /\ outputs = 0 /\ sockets = 0

Screen(base, rows, alt, cleared) ==
    [type |-> "screen", base |-> base, height |-> Height, rows |-> rows,
     altActive |-> alt, scrollbackCleared |-> cleared]
Scroll(firstIndex, lines) == [type |-> "scroll", firstIndex |-> firstIndex, lines |-> lines]
ResumeAck(committed, first) ==
    [type |-> "resumeAck", committed |-> committed, oldest |-> first,
     historyPaging |-> capacity > MaxReplayLines]

Committed == Len(history)
Retained == oldest..(Committed - 1)

\* encodeScrollMsg over a run of lines, in frames of at most MaxChunk.
Chunks(firstIndex, lines) ==
    [k \in 1..((Len(lines) + MaxChunk - 1) \div MaxChunk) |->
        LET skip == (k - 1) * MaxChunk
        IN  Scroll(firstIndex + skip, SubSeq(lines, skip + 1, LowerOf(skip + MaxChunk, Len(lines))))]

-----------------------------------------------------------------------------
(* Output: what one read of the PTY makes of the screen (handlePTYData).     *)

Output ==
    /\ outputs < MaxOutput
    /\ outputs' = outputs + 1
    /\ UNCHANGED <<capacity, history, builder, frame, viewer, connVars, wire, pageVars,
                   giveUpVars, sockets>>

\* A line at the bottom margin: the top row scrolls off, in either screen.
PrintLine ==
    /\ Output
    /\ drained' = Append(drained, Head(screen))
    /\ screen' = Append(Tail(screen), outputs')
    /\ UNCHANGED <<saved, inAltScreen, oldest, scrollbackClearedPending>>

Redraw(y) ==
    /\ Output
    /\ screen' = [screen EXCEPT ![y] = outputs']
    /\ UNCHANGED <<saved, inAltScreen, drained, oldest, scrollbackClearedPending>>

EnterAltScreen ==
    /\ Output /\ ~inAltScreen
    /\ inAltScreen' = TRUE /\ saved' = screen /\ screen' = BlankScreen
    /\ UNCHANGED <<drained, oldest, scrollbackClearedPending>>

ExitAltScreen ==
    /\ Output /\ inAltScreen
    /\ inAltScreen' = FALSE /\ screen' = saved /\ saved' = BlankScreen
    /\ UNCHANGED <<drained, oldest, scrollbackClearedPending>>

\* ED3: the lines not yet drained go, the scrollback is cleared, and the next
\* frame will say so.
EraseSavedLines ==
    /\ Output
    /\ drained' = <<>> /\ oldest' = Committed /\ scrollbackClearedPending' = TRUE
    /\ UNCHANGED <<screen, saved, inAltScreen>>

-----------------------------------------------------------------------------
(* The flush pass.                                                           *)

AltTransitionPending == builder.prevAltValid /\ inAltScreen # builder.prevAlt

\* What a drain may add to the main screen's history.
MainLines == IF inAltScreen \/ AltTransitionPending THEN <<>> ELSE drained

Commit(lines) ==
    /\ history' = history \o lines
    /\ oldest' = Max({oldest, Len(history') - capacity})
    /\ UNCHANGED capacity

\* Drain into the scrollback.
Drain == drained' = <<>> /\ Commit(MainLines) /\ UNCHANGED <<screen, saved, inAltScreen>>

Reset == builder' = [builder EXCEPT !.rows = <<>>, !.base = 0]

\* retainSuspendedScrollback: a pass with no socket attached.
RetainSuspendedScrollback ==
    /\ frame = NoFrame /\ conn = "closed" /\ ~viewer /\ drained # <<>>
    /\ Drain
    /\ UNCHANGED <<scrollbackClearedPending, builder, frame, viewer, connVars, wire, pageVars,
                   giveUpVars, outputs, sockets>>

\* Mutant of ChangedRows: the cache holds across a change of screen.
ChangedRowsAcrossScreens(base) ==
    LET cached == IF builder.prevAltValid THEN builder.rows ELSE <<>>
        at(y) == base + y - builder.base
    IN  {y \in 1..Height : at(y) \notin DOMAIN cached \/ cached[at(y)] # screen[y]}

\* diffWindow: the rows whose content at their absolute index was not sent.  The
\* cache holds nothing on the first frame and across a change of screen.
ChangedRows(base) ==
    LET cached == IF builder.prevAltValid /\ ~AltTransitionPending THEN builder.rows ELSE <<>>
        at(y) == base + y - builder.base
    IN  {y \in 1..Height : at(y) \notin DOMAIN cached \/ cached[at(y)] # screen[y]}

\* Build.  With nothing to send there is no frame, and a pending clear waits for
\* one; a frame no socket of the page is registered for goes to the viewer.
BuildFrame ==
    LET base == Committed + Len(MainLines)
        changed == ChangedRows(base)
        empty == changed = {} /\ MainLines = <<>>
    IN  /\ frame = NoFrame /\ (conn # "closed" \/ viewer)
        /\ Drain
        /\ builder' = [rows |-> screen, base |-> base, prevAlt |-> inAltScreen,
                       prevAltValid |-> TRUE]
        /\ scrollbackClearedPending' = (scrollbackClearedPending /\ empty)
        /\ frame' = IF empty \/ conn = "closed" THEN NoFrame
                    ELSE [built |-> TRUE, resumed |-> conn # "open",
                          screen |-> Screen(base, [y \in changed |-> screen[y]], inAltScreen,
                                            scrollbackClearedPending),
                          scrollFirst |-> Committed, scroll |-> MainLines]
        /\ UNCHANGED <<viewer, connVars, wire, pageVars, giveUpVars, outputs, sockets>>

\* Mutant of FramePayloads: a frame built before the resume is sent whole.
FramePayloadsUngated ==
    (IF DOMAIN frame.screen.rows = {} THEN <<>> ELSE <<frame.screen>>)
        \o Chunks(frame.scrollFirst, frame.scroll)

\* What one client is written: a frame built before its resume snapshot keeps
\* only its scrolled-off lines.
FramePayloads ==
    (IF frame.resumed # (conn = "live") \/ DOMAIN frame.screen.rows = {} THEN <<>>
     ELSE <<frame.screen>>)
        \o Chunks(frame.scrollFirst, frame.scroll)

\* dispatchFrame, once the socket's writeMu is free.
DispatchFrame ==
    /\ frame # NoFrame /\ conn \in {"open", "live"}
    /\ Len(wire) + Len(FramePayloads) <= MaxWire
    /\ wire' = wire \o FramePayloads
    /\ frame' = NoFrame
    /\ UNCHANGED <<screenVars, logVars, scrollbackClearedPending, builder, viewer, connVars,
                   pageVars, giveUpVars, outputs, sockets>>

-----------------------------------------------------------------------------
(* Sockets and the resume.                                                   *)

\* The page connects, kept or reloaded, and says what it need not be sent.  The
\* socket is registered and the builder reset, taken as one step: what a pass
\* between the two would send, the page drops, and its resume resets again.
Connect ==
    /\ conn = "closed" /\ sockets < MaxSockets
    /\ sockets' = sockets + 1
    /\ conn' = "open" /\ acked' = FALSE
    /\ \/ UNCHANGED <<store, forgone, unproven>>
       \/ store' = EmptyStore /\ forgone' = {} /\ unproven' = {}
    /\ asked' = ReplayBoundary(store')
    /\ missed' = {} /\ windowSeen' = FALSE
    /\ Reset
    /\ UNCHANGED <<screenVars, logVars, scrollbackClearedPending, frame, viewer, batch, wire,
                   awaited, outputs>>

\* The socket dies with what it carried; the server may still have it registered.
Cut ==
    /\ conn # "closed"
    /\ conn' = "closed" /\ asked' = -1 /\ batch' = <<>> /\ wire' = <<>> /\ acked' = FALSE
    /\ frame' = NoFrame
    /\ viewer' \in {viewer, TRUE}
    /\ forgone' = forgone \cup awaited /\ awaited' = {}
    /\ UNCHANGED <<screenVars, logVars, scrollbackClearedPending, builder, store, missed,
                   unproven, windowSeen, outputs, sockets>>

ReplayStart(committed) == Max({asked + 1, committed - MaxReplayLines, 0})

\* The resumeAck, the whole window and the lines the page lacks; the lines first
\* when the window will put the page in the alternate screen.
ResumeBatch(committed, first, replay) ==
    LET window == <<Screen(committed, screen, inAltScreen, FALSE)>>
        lines == Chunks(first, replay)
    IN  <<ResumeAck(committed, oldest')>>
            \o (IF inAltScreen THEN lines \o window ELSE window \o lines)

\* handleResume up to the release of h.mu; writeMu stays held.
HandleResume ==
    /\ conn = "open"
    /\ Drain /\ Reset
    /\ LET committed == Len(history')
           first == Max({ReplayStart(committed), oldest'})
       IN  /\ batch' = ResumeBatch(committed, first, SubSeq(history', first + 1, committed))
           /\ forgone' = forgone \cup ((asked + 1)..(committed - MaxReplayLines - 1))
    /\ conn' = "batch"
    /\ UNCHANGED <<scrollbackClearedPending, frame, viewer, asked, wire, pageVars, awaited,
                   missed, unproven, windowSeen, outputs, sockets>>

WriteBatch ==
    /\ conn = "batch" /\ Len(wire) + Len(batch) <= MaxWire
    /\ wire' = wire \o batch /\ batch' = <<>> /\ conn' = "live"
    /\ UNCHANGED <<serverVars, asked, pageVars, giveUpVars, outputs, sockets>>

\* Another socket registers, resumes, or goes.
ViewerJoins ==
    /\ ~viewer /\ viewer' = TRUE
    /\ Reset
    /\ UNCHANGED <<screenVars, logVars, scrollbackClearedPending, frame, connVars, wire,
                   pageVars, giveUpVars, outputs, sockets>>

ViewerResumes ==
    /\ viewer /\ Drain /\ Reset
    /\ missed' = IF conn \in {"batch", "live"}
                 THEN missed \cup Committed..(Len(history') - 1)
                 ELSE missed
    /\ UNCHANGED <<scrollbackClearedPending, frame, viewer, connVars, wire, pageVars, forgone,
                   awaited, unproven, windowSeen, outputs, sockets>>

ViewerLeaves ==
    /\ viewer /\ viewer' = FALSE
    /\ UNCHANGED <<screenVars, logVars, scrollbackClearedPending, builder, frame, connVars, wire,
                   pageVars, giveUpVars, outputs, sockets>>

-----------------------------------------------------------------------------
(* The page's message handler.                                               *)

Take(type) ==
    /\ wire # <<>> /\ Head(wire).type = type
    /\ wire' = Tail(wire)
    /\ UNCHANGED <<serverVars, connVars, outputs, sockets>>

ReceiveResumeAck ==
    /\ Take("resumeAck")
    /\ acked' = TRUE
    /\ store' = ApplyResumeAck(store, Head(wire), asked, MaxReplayLines)
    /\ UNCHANGED giveUpVars

\* Before the resumeAck content is dropped, but for a clear.
ReceiveEarlyScreen ==
    LET m == Head(wire)
    IN  /\ Take("screen") /\ ~acked
        /\ store' = IF m.scrollbackCleared THEN ApplyScreen(store, [m EXCEPT !.height = 0])
                    ELSE store
        /\ forgone' = IF m.scrollbackCleared THEN forgone \cup 0..(m.base - 1) ELSE forgone
        /\ UNCHANGED <<acked, awaited, missed, unproven, windowSeen>>

ReceiveEarlyScroll ==
    /\ Take("scroll") /\ ~acked
    /\ UNCHANGED <<pageVars, giveUpVars>>

ReceiveScreen ==
    LET m == Head(wire)
    IN  /\ Take("screen") /\ acked
        /\ store' = ApplyScreen(store, m)
        /\ forgone' = IF m.scrollbackCleared THEN forgone \cup 0..(m.base - 1) ELSE forgone
        /\ windowSeen' = TRUE
        /\ awaited' = IF ~m.altActive /\ store.height = 0
                      THEN awaited \cup ((Highest(store) + 1)..(m.base - 1))
                      ELSE awaited
        /\ unproven' = {i \in unproven : i < store'.unconfirmedFrom}
        /\ UNCHANGED <<acked, missed>>

\* Rows another socket's resume drained, over which the floor is raised.
Passed(after) ==
    {i \in missed : store.unconfirmedFrom <= i /\ i < after.unconfirmedFrom}

ReceiveScroll ==
    LET m == Head(wire)
    IN  /\ Take("scroll") /\ acked
        /\ store' = ApplyScroll(store, m)
        /\ missed' = IF windowSeen THEN missed
                     ELSE missed \cup {m.firstIndex + k - 1 : k \in
                            {j \in DOMAIN m.lines : m.firstIndex + j - 1 >= ScrollLimit(store)}}
        /\ unproven' = (unproven \cup Healed(store, m) \cup Passed(store')) \ Brought(store, m)
        /\ UNCHANGED <<acked, forgone, awaited, windowSeen>>

-----------------------------------------------------------------------------
Next ==
    \/ PrintLine \/ \E y \in 1..Height : Redraw(y)
    \/ EnterAltScreen \/ ExitAltScreen \/ EraseSavedLines
    \/ RetainSuspendedScrollback \/ BuildFrame \/ DispatchFrame
    \/ Connect \/ Cut \/ HandleResume \/ WriteBatch
    \/ ViewerJoins \/ ViewerResumes \/ ViewerLeaves
    \/ ReceiveResumeAck \/ ReceiveEarlyScreen \/ ReceiveEarlyScroll
    \/ ReceiveScreen \/ ReceiveScroll

Spec == Init /\ [][Next]_vars

-----------------------------------------------------------------------------
(* Properties.                                                               *)

Rows == 0..MaxOutput

\* Types, and what ties the socket's phase to its batch and its frames.
TypeOK ==
    /\ screen \in [1..Height -> Rows] /\ saved \in [1..Height -> Rows]
    /\ inAltScreen \in BOOLEAN /\ drained \in Seq(Rows)
    /\ history \in Seq(Rows) /\ oldest \in 0..Committed /\ Committed - oldest <= capacity
    /\ conn \in {"closed", "open", "batch", "live"}
    /\ (batch # <<>>) = (conn = "batch")
    /\ conn = "closed" => wire = <<>> /\ frame = NoFrame /\ ~acked
    /\ Len(wire) <= MaxWire
    /\ Held(store) \subseteq 0..(MaxOutput + Height)
    /\ asked \in -1..(MaxOutput + Height) /\ ReplayBoundary(store) <= Highest(store)

\* Nothing is under way to the page, and the last pass sent what is on screen.
Settled ==
    /\ conn = "live" /\ acked /\ wire = <<>> /\ frame = NoFrame /\ drained = <<>>
    /\ builder = [rows |-> screen, base |-> Committed, prevAlt |-> inAltScreen,
                  prevAltValid |-> TRUE]

\* A page that resumed, with everything sent and delivered, shows the terminal's
\* screen: no frame built for an earlier state is applied after a later one, and
\* the diffs other sockets share leave this page nothing to miss.
ScreenShown ==
    Settled =>
        IF inAltScreen
        THEN store.alt /\ store.altRows = screen
        ELSE /\ ~store.alt /\ store.base = Committed /\ store.height = Height
             /\ \A y \in 1..Height : /\ Committed + y - 1 \in Held(store)
                                     /\ store.lines[Committed + y - 1] = screen[y]

\* Such a page holds every line the server retains, as the server committed it:
\* what it drew there before, from a window frame, is gone.  Not counted are the
\* lines the replay clamp skipped, those below an erase it was told of, those a
\* first window frame ran ahead of on a socket that died, and those the page
\* dropped because it was in the alternate screen when they were replayed.
HistoryShown ==
    Settled =>
        \A i \in Retained \ (forgone \cup missed \cup unproven) :
            i \in Held(store) /\ store.lines[i] = history[i + 1]

\* The rows the page tells the server it need not send again are the ones the
\* server committed, whatever window frames, clears and cuts came before; but for
\* those the heal of confirmRange raised the floor over.
ClaimedIsCommitted ==
    \A i \in Held(store) \ unproven : i <= ReplayBoundary(store) =>
        i < Committed /\ store.lines[i] = history[i + 1]

\* Every line the server could replay and the page says it need not is held: a
\* socket that dies between a window and its scrolled-off lines loses none, and of
\* what a heal raises the floor over only the rows above the oldest one held, and
\* lines that another socket's resume had drained.
ClaimedIsHeld ==
    \A i \in Retained \ unproven : i <= ReplayBoundary(store) =>
        i \in Held(store) \cup forgone \cup awaited

\* What store.ts says of the heal in confirmRange: it never raises the floor over a
\* row the store still holds.
HealSparesHeld == unproven \cap Held(store) = {}

\* What a page shows, once all is delivered, and what it claims at a resume is the
\* server's.
ScreenInv == TypeOK /\ ScreenShown /\ ClaimedIsCommitted

\* And of what the server retains it holds what it should: all of it once all is
\* delivered, and at any time what it claims.
HistoryHeld == HistoryShown /\ ClaimedIsHeld
=============================================================================
