---------------------------- MODULE HistoryPaging ----------------------------
(***************************************************************************)
(* How a page reads back what its terminal scrolled off: a capped store    *)
(* with a resident tail and a disposable cache (web/src/store.ts), the     *)
(* fetch trigger (render.ts), one request at a time with its timeout and   *)
(* its budget (connection.ts), and the server's answer from the ring       *)
(* (historyControl, terminal.go), against live frames, evictions, ED 3 and *)
(* reconnects.                                                             *)
(*                                                                         *)
(* The store is PageStore's, with its caps; what a row says is left out.   *)
(* The screen is the main one and keeps its size, the cap is one the       *)
(* consumer chose (so confirmPaging moves nothing), a frame carries at     *)
(* most one scrolled line, and a resume is answered in one step            *)
(* (ScreenDelivery has its interleavings).                                 *)
(***************************************************************************)
EXTENDS ScrollbackRing, PageStore

CONSTANTS
    Height,            \* rows of the window
    ResidentTailCap, BrowseCacheCap, PrefetchThreshold, PageSize, \* of the store
    MinPage, Burst,    \* HISTORY_MIN_PAGE, HISTORY_BURST
    FlushInBatch,      \* may the page draw between two frames written together
    LinesBefore,       \* bound: lines scrolled off before the page is opened
    MaxEvents,         \* bound: lines, erasures, cuts, losses and timers after that
    MaxScrolls         \* bound: moves of the reader

ASSUME PagingAssumption ==
    /\ {Height, ResidentTailCap, BrowseCacheCap, PageSize, MinPage, Burst} \subseteq Nat \ {0}
    /\ {LinesBefore, MaxEvents, MaxScrolls, PrefetchThreshold} \subseteq Nat
    /\ 2 * PrefetchThreshold + 1 < BrowseCacheCap /\ MinPage <= PageSize
    /\ FlushInBatch \in BOOLEAN /\ Infinity \in Nat

VARIABLES
    store,     \* LineStore
    reader,    \* the row at the top of the viewport, or Following
    due,       \* the renderer has a flush scheduled
    fetch,     \* HistoryState of the socket
    live,      \* the page has a socket and has resumed on it
    up,        \* history requests under way to the server
    answer,    \* the reply historyControl has read and not yet written
    frame,     \* the payloads of the frame built and not yet dispatched
    clearing,  \* scrollbackClearedPending, and below which index
    wire,      \* frames under way to the page
    told,      \* history: the erasure the page was told of: below which index, in
               \* a frame with which base
    doubt,     \* history: a late answer was taken for a clamp of the retry since the
               \* last resumeAck
    strays,    \* history: rows that came with an answer nobody waited for any more
    events, scrolls \* bounds

pageVars == <<store, reader, due, fetch>>
serverVars == <<answer, frame, clearing>>
linkVars == <<live, up, wire>>
ghosts == <<told, doubt, strays>>
pagingVars == <<pageVars, serverVars, linkVars, ghosts, events, scrolls>>
allVars == <<vars, pagingVars>>

NoRequest == [from |-> 0, end |-> 0]
Distance(a, b) == Greater(a, b) - Lesser(a, b)
Span(r) == r.from .. r.end - 1
NewStore ==
    [lines |-> <<>>, unconfirmedFrom |-> Infinity, erasedThrough |-> -1, base |-> 0, height |-> 0,
     browse |-> {}, evictedThrough |-> -1, serverOldest |-> -1, solicited |-> NoRequest,
     pagingFloor |-> 0]
newHistoryState ==
    [acked |-> FALSE, inFlight |-> NoRequest, effMax |-> PageSize, ceiling |-> PageSize,
     tokens |-> Burst, demand |-> FALSE, haveThrough |-> -1, replayMax |-> NoMax]
None == <<>>
Row == CHOOSE line \in Lines : TRUE
Following == -1
NoErasure == -1

PagingInit ==
    /\ store = NewStore /\ reader = Following /\ due = FALSE /\ fetch = newHistoryState
    /\ live = FALSE /\ up = <<>> /\ answer = None /\ frame = None /\ clearing = NoErasure
    /\ wire = <<>> /\ told = [below |-> 0, base |-> 0] /\ doubt = FALSE /\ strays = {}
    /\ events = 0 /\ scrolls = 0

-----------------------------------------------------------------------------
(* The store: what a row, and what the caps do to it.                      *)

Window(s) == IF s.height = 0 THEN {} ELSE s.base .. s.base + s.height - 1
TailRows(s) == Held(s) \ s.browse
\* forget: a row goes with its classification.
Forgotten(s) == [s EXCEPT !.browse = @ \cap Held(s)]
Forget(s, gone) == Forgotten(KeepOnly(s, Held(s) \ gone))
Lowest(S, n) == {i \in S : Cardinality({j \in S : j < i}) < n}
Uppermost(S, n) == {i \in S : Cardinality({j \in S : j > i}) < n}

tailBound(s) == Greater(ResidentTailCap, s.height)
evictionBatch(n) == Lesser(256, Greater(1, n \div 16))
\* The oldest tail rows go; the window and the newest row stay.
enforceCap(s) ==
    LET n == Cardinality(TailRows(s))
        spare == {i \in TailRows(s) \ Window(s) :
                    i < Highest(s) \/ (s.height > 0 /\ i >= s.base + s.height)}
        victims == Lowest(spare, n - (tailBound(s) - evictionBatch(tailBound(s)) + 1))
    IN IF n <= tailBound(s) THEN s
       ELSE [Forget(s, victims) EXCEPT !.evictedThrough = Max({@} \cup victims)]

\* applyLine: trimmed and erased rows come back only in the window or on request.
Refused(s, i) ==
    /\ i <= s.evictedThrough \/ i <= s.erasedThrough
    /\ i \notin Window(s) \cup Span(s.solicited)
applyLine(s, i, line, bulk) ==
    IF Refused(s, i) \/ (i \in Held(s) /\ s.lines[i] = line) THEN s
    ELSE LET put == [s EXCEPT !.lines =
                        [j \in DOMAIN @ \cup {i} |-> IF j = i THEN line ELSE @[j]]]
         IN IF bulk THEN put ELSE enforceCap(put)

\* The rows of a frame, one after the other; a page's are applied in bulk where
\* they are the ones asked for.
applyRows(s, first, lines, bulk) ==
    LET after[k \in 0..Len(lines)] ==
            IF k = 0 THEN s
            ELSE applyLine(after[k - 1], first + k - 1, lines[k], first + k - 1 \in bulk)
    IN  after[Len(lines)]

applyScroll(s, m) ==
    ConfirmRange(applyRows(s, m.firstIndex, m.lines, {}), m.firstIndex, Len(m.lines))

\* Mutant of applyScrollbackCleared: the request under way stands.
applyScrollbackClearedKeepingRequest(s, base) ==
    [Forgotten(ApplyScrollbackCleared(s, base)) EXCEPT !.pagingFloor = Greater(@, base)]

\* ED 3 also retracts the request and condemns what lies below.
applyScrollbackCleared(s, base) ==
    [Forgotten(ApplyScrollbackCleared(s, base)) EXCEPT
        !.solicited = NoRequest, !.pagingFloor = Greater(@, base)]

applyScreen(s, m) ==
    LET cleared == IF m.scrollbackCleared THEN applyScrollbackCleared(s, m.base) ELSE s
        moved == MarkUnconfirmedFrom([cleared EXCEPT !.base = m.base, !.height = Len(m.rows)],
                                     m.base)
    IN  enforceCap(Forgotten(TruncateBelowWindow(applyRows(moved, m.base, m.rows, {}))))

\* One pass of the cache's budget: the end farther from the reader goes first, up
\* to the first row near the reader.
Shed(s, target, at) ==
    LET band == s.browse \cap (at - PrefetchThreshold)..(at + PrefetchThreshold)
        fromTop == Distance(Max(s.browse), at) > Distance(at, Min(s.browse))
        n == Lesser(Cardinality(s.browse) - target, PageSize)
    IN  IF fromTop THEN Uppermost({i \in s.browse : \A j \in band : i > j}, n)
        ELSE Lowest({i \in s.browse : \A j \in band : i < j}, n)

\* Passes, until the target is met or nothing more may go.
enforceBrowseBudget(s, target, at) ==
    LET after[k \in 0..Cardinality(s.browse)] ==
            IF k = 0 THEN s
            ELSE IF Cardinality(after[k - 1].browse) <= target THEN after[k - 1]
            ELSE Forget(after[k - 1], Shed(after[k - 1], target, at))
    IN  after[Cardinality(s.browse)]

\* A page that was asked for: dropped whole once the request is retracted,
\* clipped to it otherwise.
applyHistoryScroll(s, m, at) ==
    LET asked == Span(s.solicited)
        put == applyRows(s, m.firstIndex, m.lines, asked)
        applied == {m.firstIndex + k - 1 : k \in DOMAIN m.lines} \cap asked \cap Held(put)
    IN  IF s.solicited = NoRequest THEN s
        ELSE IF applied = {} THEN enforceCap(put)
        ELSE enforceCap(enforceBrowseBudget([put EXCEPT !.browse = @ \cup applied],
                                            BrowseCacheCap, at))

\* noteResumeBounds, and predictReplayJump with the budget pass behind it: what
\* the page had before the replay will start is cache from now on, and the window
\* about to be replaced is retired.
applyResumeAck(s, m, f, at, following) ==
    LET noted == [s EXCEPT !.serverOldest = m.oldest, !.pagingFloor = Lesser(@, m.oldest)]
        predicted == Greater(m.oldest, m.committed - f.replayMax)
        stranded == {i \in Held(s) : i <= f.haveThrough}
        jumped == [noted EXCEPT !.browse = @ \cup stranded, !.base = 0, !.height = 0]
    IN  IF ~m.paging \/ predicted <= f.haveThrough + 1 \/ stranded = {} THEN noted
        ELSE enforceCap(enforceBrowseBudget(
                jumped, IF following THEN PrefetchThreshold ELSE BrowseCacheCap, at))

-----------------------------------------------------------------------------
(* The trigger.                                                            *)

\* The window's first row when following (index 0 while there is no window).
viewportAbs == IF reader = Following THEN store.base ELSE reader

\* absentEdgesNear: the gaps between two held rows, and the frontier below the
\* lowest where something older may be left, as ranges from .. end - 1.
Gaps(s) ==
    {[from |-> Max({j \in Held(s) : j < i}) + 1, end |-> i] :
        i \in {i \in Held(s) : i - 1 \notin Held(s) /\ i # Oldest(s)}}
Frontier(s) ==
    IF Oldest(s) > s.pagingFloor /\ (s.serverOldest < 0 \/ Oldest(s) > s.serverOldest)
    THEN {[from |-> s.pagingFloor, end |-> Oldest(s)]} ELSE {}
absentEdgesNear(s, at) ==
    {g \in Gaps(s) \cup Frontier(s) :
        /\ g.end > s.pagingFloor
        /\ g.from - PrefetchThreshold <= at /\ at <= g.end + PrefetchThreshold}
Nearest(gaps, at) == {g \in gaps : \A h \in gaps : Distance(at, g.end) <= Distance(at, h.end)}

\* The end of a gap nearest the reader, no more than the budget.
Request(s, gap, at, effMax) ==
    LET from == IF at >= gap.end THEN Max({gap.from, gap.end - effMax, s.pagingFloor})
                ELSE Greater(gap.from, s.pagingFloor)
    IN  [from |-> from, end |-> Lesser(from + effMax, gap.end)]

\* Mutant of maybeFetchHistory: a pacing denial drops the demand.
maybeFetchHistoryOnce(s, f, at) ==
    LET near == Nearest(absentEdgesNear(s, at), at)
        silent == near = {} \/ ~f.acked \/ f.inFlight # NoRequest \/ f.tokens = 0
    IN  \/ silent /\ store' = s /\ fetch' = f /\ up' = up
        \/ ~silent /\ \E gap \in near :
                LET r == Request(s, gap, at, f.effMax)
                IN  /\ store' = [s EXCEPT !.solicited = r]
                    /\ fetch' = [f EXCEPT !.inFlight = r, !.tokens = @ - 1]
                    /\ up' = Append(up, r)

\* maybeFetchHistory and requestHistory: one request at a time, and a pacing denial
\* is remembered.
maybeFetchHistory(s, f, at) ==
    LET near == Nearest(absentEdgesNear(s, at), at)
        silent == near = {} \/ ~f.acked \/ f.inFlight # NoRequest
    IN  \/ silent /\ store' = s /\ fetch' = f /\ up' = up
        \/ ~silent /\ f.tokens = 0 /\ store' = s /\ fetch' = [f EXCEPT !.demand = TRUE] /\ up' = up
        \/ ~silent /\ f.tokens > 0 /\ \E gap \in near :
                LET r == Request(s, gap, at, f.effMax)
                IN  /\ store' = [s EXCEPT !.solicited = r]
                    /\ fetch' = [f EXCEPT !.inFlight = r, !.tokens = @ - 1]
                    /\ up' = Append(up, r)

\* Between two frames written together, by a resume or by a pass, the page draws
\* nothing.  A frame's `batch' says that it follows another one so.
MayDraw == \A k \in DOMAIN wire : wire[k].batch => FlushInBatch \/ k > 1

\* The reader moves, and the scroll event runs the trigger.
Scroll(at) ==
    /\ MayDraw /\ scrolls < MaxScrolls /\ at # reader
    /\ at \in {Following} \cup {i \in Held(store) : i < store.base}
    /\ reader' = at /\ scrolls' = scrolls + 1
    /\ maybeFetchHistory(store, fetch, IF at = Following THEN store.base ELSE at)
    /\ UNCHANGED <<vars, due, serverVars, live, wire, ghosts, events>>

\* A frame is drawn: a reader whose row is gone is put on the next one, which
\* is the bottom where only the window is left; then the trigger runs.
flushRender ==
    LET left == {i \in Held(store) : reader <= i /\ i < store.base}
    IN  /\ MayDraw /\ due
        /\ due' = FALSE
        /\ reader' = IF reader = Following \/ left = {} THEN Following ELSE Min(left)
        /\ maybeFetchHistory(store, fetch, IF reader' = Following THEN store.base ELSE reader')
        /\ UNCHANGED <<vars, serverVars, live, wire, ghosts, events, scrolls>>

\* The pending demand fires.
demandTimer ==
    /\ MayDraw /\ fetch.demand
    /\ maybeFetchHistory(store, [fetch EXCEPT !.demand = FALSE], viewportAbs)
    /\ UNCHANGED <<vars, reader, due, serverVars, live, wire, ghosts, events, scrolls>>

RefillToken ==
    /\ fetch.tokens < Burst
    /\ fetch' = [fetch EXCEPT !.tokens = @ + 1]
    /\ UNCHANGED <<vars, store, reader, due, serverVars, linkVars, ghosts, events, scrolls>>

\* Nothing that could answer the page is under way.
Unanswered ==
    up = <<>> /\ answer = None /\ \A k \in DOMAIN wire : wire[k].answers = NoRequest

\* onHistoryDataTimeout, for an answer that is late or lost: half the failed size
\* is the ceiling to recover to.
onHistoryDataTimeout ==
    /\ fetch.inFlight # NoRequest
    /\ \/ Unanswered /\ events' = events
       \/ ~Unanswered /\ events < MaxEvents /\ events' = events + 1
    /\ fetch' = [fetch EXCEPT !.inFlight = NoRequest, !.demand = TRUE, !.effMax = MinPage,
                    !.ceiling = Greater(MinPage, Cardinality(Span(fetch.inFlight)) \div 2)]
    /\ store' = [store EXCEPT !.solicited = NoRequest]
    /\ UNCHANGED <<vars, reader, due, serverVars, linkVars, ghosts, scrolls>>

\* dropBrowseCache: the consumer's timer, on a hidden page or away from the cache.
dropBrowseCache ==
    /\ store.browse # {} /\ events < MaxEvents
    /\ store' = Forget(store, store.browse)
    /\ due' = TRUE /\ events' = events + 1
    /\ UNCHANGED <<vars, reader, fetch, serverVars, linkVars, ghosts, scrolls>>

-----------------------------------------------------------------------------
(* The server.  `erasedBelow', `answers' and `batch' are the model's marks. *)

ScreenFrame(base, erasedBelow, batch) ==
    [type |-> "screen", base |-> base, rows |-> [y \in 1..Height |-> Row],
     scrollbackCleared |-> erasedBelow # NoErasure, erasedBelow |-> erasedBelow,
     answers |-> NoRequest, batch |-> batch]
ScrollFrame(first, lines, answers, batch) ==
    [type |-> "scroll", firstIndex |-> first, lines |-> lines, answers |-> answers, batch |-> batch]
ResumeAck ==
    [type |-> "resumeAck", committed |-> committed, oldest |-> OldestIndex,
     paging |-> capacity > MaxReplayLines, answers |-> NoRequest, batch |-> FALSE]

\* A line scrolls off and is drained, into a frame where there is a page.
ScrollLine ==
    /\ frame = None
    /\ AppendGrowing(Row) \/ AppendEvicting(Row)
    /\ IF committed < LinesBefore THEN ~live /\ events' = events
       ELSE events < MaxEvents /\ events' = events + 1
    /\ IF ~live THEN UNCHANGED <<frame, clearing>>
       ELSE /\ frame' = <<ScreenFrame(committed', clearing, FALSE),
                         ScrollFrame(committed, <<Row>>, NoRequest, TRUE)>>
            /\ clearing' = NoErasure
    /\ UNCHANGED <<pageVars, answer, linkVars, ghosts, scrolls>>

\* A frame of the screen alone is worth building here when it tells of an erasure.
RedrawScreen ==
    /\ frame = None /\ live /\ clearing # NoErasure
    /\ frame' = <<ScreenFrame(committed, clearing, FALSE)>> /\ clearing' = NoErasure
    /\ UNCHANGED <<vars, pageVars, answer, linkVars, ghosts, events, scrolls>>

EraseSavedLines ==
    /\ committed >= LinesBefore /\ count > 0 /\ events < MaxEvents
    /\ Clear
    /\ clearing' = committed /\ events' = events + 1
    /\ UNCHANGED <<pageVars, answer, frame, linkVars, ghosts, scrolls>>

DispatchFrame ==
    /\ frame # None
    /\ wire' = wire \o frame /\ frame' = None
    /\ UNCHANGED <<vars, pageVars, answer, clearing, live, up, ghosts, events, scrolls>>

\* historyControl, in two steps: what it reads under h.mu, and what it writes
\* under the socket's writeMu.
ServeHistory ==
    /\ up # <<>> /\ answer = None
    /\ \E reply \in HistoryReplies(Head(up).from, Cardinality(Span(Head(up)))) :
        answer' = <<ScrollFrame(reply.first, reply.lines, Head(up), FALSE)>>
    /\ up' = Tail(up)
    /\ UNCHANGED <<vars, pageVars, frame, clearing, live, wire, ghosts, events, scrolls>>

WriteHistory ==
    /\ answer # None
    /\ wire' = wire \o answer /\ answer' = None
    /\ UNCHANGED <<vars, pageVars, frame, clearing, live, up, ghosts, events, scrolls>>

\* The server's own bucket is empty: the request is dropped without an answer.
ThrottleHistory ==
    /\ up # <<>> /\ answer = None /\ events < MaxEvents
    /\ up' = Tail(up) /\ events' = events + 1
    /\ UNCHANGED <<vars, pageVars, serverVars, live, wire, ghosts, scrolls>>

\* The socket dies, with what it carried.
Cut ==
    /\ live /\ events < MaxEvents
    /\ live' = FALSE /\ up' = <<>> /\ wire' = <<>> /\ answer' = None /\ frame' = None
    /\ fetch' = newHistoryState
    /\ store' = [store EXCEPT !.solicited = NoRequest]
    /\ events' = events + 1
    /\ UNCHANGED <<vars, reader, due, clearing, ghosts, scrolls>>

\* The page opens a socket, says what it holds and how much it wants, and the
\* server answers: the resumeAck, the window, and the lines the page lacks.
Resume ==
    /\ ~live /\ committed >= LinesBefore
    /\ live' = TRUE
    /\ fetch' = [newHistoryState EXCEPT
                    !.haveThrough = ReplayBoundary(store),
                    !.replayMax = Greater(1, ResidentTailCap - store.height)]
    /\ LET replay == LinesFrom(ReplayStart(fetch'.haveThrough, fetch'.replayMax))
       IN  wire' = <<ResumeAck, ScreenFrame(committed, NoErasure, TRUE)>>
                    \o (IF replay.lines = <<>> THEN <<>>
                        ELSE <<ScrollFrame(replay.first, replay.lines, NoRequest, TRUE)>>)
    /\ UNCHANGED <<vars, store, reader, due, serverVars, up, ghosts, events, scrolls>>

-----------------------------------------------------------------------------
(* The page's message handler.                                             *)

Take(type) ==
    /\ wire # <<>> /\ Head(wire).type = type
    /\ wire' = Tail(wire) /\ due' = TRUE
    /\ UNCHANGED <<vars, reader, serverVars, live, up, events, scrolls>>

ReceiveResumeAck ==
    /\ Take("resumeAck")
    /\ fetch' = [fetch EXCEPT !.acked = Head(wire).paging]
    /\ store' = applyResumeAck(store, Head(wire), fetch, viewportAbs, reader = Following)
    /\ doubt' = FALSE
    /\ UNCHANGED <<told, strays>>

ReceiveScreen ==
    LET m == Head(wire)
    IN  /\ Take("screen")
        /\ store' = applyScreen(store, m)
        /\ told' = IF m.scrollbackCleared
                   THEN [below |-> Greater(told.below, m.erasedBelow),
                         base |-> Greater(told.base, m.base)]
                   ELSE told
        /\ UNCHANGED <<fetch, doubt, strays>>

\* correlateHistoryReply: the reply is the frame that starts inside the request;
\* it completes the request if it ends inside, too.
Correlated(m) == m.firstIndex \in Span(fetch.inFlight)
Contained(m) == m.firstIndex + Len(m.lines) <= fetch.inFlight.end
\* What the reply proves gone.
RaisedFloor(m) ==
    IF m.lines = <<>> THEN fetch.inFlight.end
    ELSE IF m.firstIndex > fetch.inFlight.from THEN m.firstIndex ELSE 0

ReceiveHistoryReply ==
    LET m == Head(wire)
        page == applyHistoryScroll([store EXCEPT !.pagingFloor = Greater(@, RaisedFloor(m))],
                                   m, viewportAbs)
    IN  /\ Take("scroll") /\ Correlated(m)
        /\ IF Contained(m)
           THEN /\ fetch' = [fetch EXCEPT !.inFlight = NoRequest,
                                !.effMax = Lesser(2 * @, fetch.ceiling)]
                /\ store' = [page EXCEPT !.solicited = NoRequest]
           ELSE fetch' = fetch /\ store' = page
        /\ doubt' = (doubt \/ (RaisedFloor(m) > 0 /\ m.answers \notin {NoRequest, fetch.inFlight}))
        /\ UNCHANGED <<told, strays>>

ReceiveScroll ==
    LET m == Head(wire)
    IN  /\ Take("scroll") /\ ~Correlated(m)
        /\ store' = applyScroll(store, m)
        /\ strays' = IF m.answers = NoRequest THEN strays ELSE strays \cup Span(m.answers)
        /\ UNCHANGED <<fetch, told, doubt>>

-----------------------------------------------------------------------------
PagingNext ==
    \/ \E at \in {Following} \cup Held(store) : Scroll(at)
    \/ flushRender \/ demandTimer \/ RefillToken \/ onHistoryDataTimeout \/ dropBrowseCache
    \/ ScrollLine \/ RedrawScreen \/ Resume
    \/ EraseSavedLines \/ DispatchFrame \/ ServeHistory \/ WriteHistory \/ ThrottleHistory
    \/ Cut
    \/ ReceiveResumeAck \/ ReceiveScreen \/ ReceiveHistoryReply \/ ReceiveScroll

\* Frames arrive while the socket lives, the read loop serves, the page draws what
\* it has scheduled, timers fire, and a cut socket is opened again.
PagingFairness ==
    /\ WF_wire(wire # <<>> /\ wire' = Tail(wire))
    /\ WF_allVars(ServeHistory) /\ WF_allVars(WriteHistory) /\ WF_allVars(DispatchFrame)
    /\ WF_allVars(flushRender) /\ WF_allVars(demandTimer) /\ WF_allVars(RefillToken)
    /\ WF_allVars(Unanswered /\ onHistoryDataTimeout)
    /\ WF_allVars(Resume)

PagingSpec == Init /\ PagingInit /\ [][PagingNext]_allVars /\ PagingFairness

-----------------------------------------------------------------------------
(* Properties.                                                             *)

PagingTypeOK ==
    /\ reader \in {Following} \cup Nat /\ {due, live, doubt} \subseteq BOOLEAN
    /\ fetch.effMax \in MinPage..PageSize /\ fetch.ceiling \in MinPage..PageSize
    /\ fetch.tokens \in 0..Burst
    /\ \A k \in DOMAIN up : Cardinality(Span(up[k])) \in 1..PageSize

\* The budgets hold at every frame boundary, whatever mix of live lines, pages,
\* evictions and replays came before, and neither touches the other's rows.
BudgetsHold ==
    /\ Cardinality(TailRows(store)) <= tailBound(store)
    /\ store.browse \subseteq Held(store) /\ store.browse \cap Window(store) = {}
    /\ Cardinality(store.browse) <= Greater(BrowseCacheCap, 2 * PrefetchThreshold + 1)

\* The store's licence to take old rows is exactly the request under way, or
\* withdrawn.
LicenceIsTheRequest == store.solicited \in {NoRequest, fetch.inFlight}

\* What the page will not ask for any more is gone from the server, or erased,
\* unless a late answer was mistaken for the retry's since the last resumeAck.
FloorIsProven == doubt \/ store.pagingFloor <= Greater(OldestIndex, told.base)

\* A page that was told of an erasure shows none of it, whatever is under way; but
\* for what an answer brings that comes after its timeout.
ErasedStaysErased == \A i \in Held(store) \ strays : i >= told.below

\* A page's store, whatever order pages, live frames, erasures, reconnects and
\* timeouts reached it in.
PageIsSound ==
    PagingTypeOK /\ BudgetsHold /\ LicenceIsTheRequest /\ FloorIsProven /\ ErasedStaysErased

\* In the end every retained line near the reader is there: no gap is left for
\* want of an event, after any erasures, cuts, losses and timeouts.
NearIsHeld ==
    \A i \in OldestIndex..(committed - 1) :
        i >= told.base /\ Distance(i, viewportAbs) <= PrefetchThreshold => i \in Held(store)
GapsClose == <>[](committed < LinesBefore \/ doubt \/ (live /\ NearIsHeld))
=============================================================================
