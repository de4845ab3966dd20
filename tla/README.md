# TLA+ models of web-terminal-engine

web-terminal-engine runs shells and full-screen programs on a server and shows
them in browser tabs. A page may sleep, lose its network, come back on another
socket, or be opened twice; the server may restart. The specifications in this
directory state what must survive all of that, check it with TLC on small
instances, and prove the central parts with TLAPS for every instance.

Source paths are relative to the repository root, without the leading `src/`
that `PROJECT.json` uses.

## 1. The system

| component | code | state | operations | hard part |
|---|---|---|---|---|
| input ledger registry | `terminal/client_registry.go` | `sessions` (resume key to `sessionState`: owner, received, lastSeen), `clients`, per socket `session` and `fenced` | `Add`, `Remove`, `ResolveSession`, `ApplyInput`, idle GC, cap eviction, ack sweep | three critical sections under two locks; superseded sockets |
| reliable input channel | `web/src/connection.ts`, `terminal/terminal.go` | page: outbox, bytesSent, bytesAcked, lastServerEpoch; server: the ledger, lastAckSent, bootEpoch | `sendBinary`, resume, `applyAck`, `retransmitOutbox`, `handleResume`, ack sweep | lost and late messages, restarts, reclaimed ledgers |
| scrollback ring and readers | `terminal/scrollback.go`, `terminal/terminal.go` | `buf`, `start`, `count`, `committed` | `Append`, `Clear`, `LinesFrom`, `LinesRange`, `replayStart`, `historyControl` | ring arithmetic, absolute indices across eviction and ED 3 |
| socket read loop | `terminal/terminal.go` | v3/v4 framing latch, rate-limit buckets | control dispatch, text and binary input | a sentinel frame mistaken for input |
| flush scheduler and frame builder | `terminal/terminal.go`, `flush_builder.go` | dirty signal, holds, last rendered rows, `writeMu`, `resumeGen` | `flushLoop`, `flushBurst`, `buildFrame`, `dispatchFrame` | wake-ups, half-drawn screens, stale frames against a resume |
| process lifecycle | `terminal/terminal.go` | started, closed, procExitCh, exit error | `ensureStarted`, `Close`, `Shutdown`, the monitor | start racing close, last output before exit |
| size negotiation | `terminal/terminal.go`, `client_registry.go` | per-client size, applied size, redraw hold | resize, heal after a viewer leaves | debounced actions on a changed viewer set |
| focus reporting | `terminal/focus.go` | per-client focus, toldFocus | focus, DEC 1004 | transitions reported out of order |
| ephemeral input | `terminal/ephemeral_input.go` | a token bucket | one unacknowledged write | |
| ping and RTO | `terminal/ping.go`, `pingstat.go` | srtt, rttvar, failures | `Record`, `Backoff` | pong racing the timeout |
| session manager | `terminal/session_manager.go`, `session_set.go` | sessions, order, layout, orderGen, layoutGen, closed, restoring, activeClients | create, close, reap, shutdown, order, layout, capture, restore | create forks outside the lock; restore against clients |
| status stream | `terminal/events.go`, `session_manager.go`, page: `web/src/status-stream.ts` | trackers, subscribers and their buffers | three-phase sweep, subscribe, snapshot, seen floor, latches | stale reads, bounded buffers, reopened streams |
| OSC 7501 program records | `vt/osc7501.go` | bounded record table | report, clear, prompt, exit, reset, fold | a record evicted, dropped or kept wrongly is a wrong status for good |
| process containment and reap | `terminal/containment*.go`, `reap*.go`, `zombiereap*.go` | process tree, spawn registry | kill ladder, zombie sweep | a tree that forks while it is killed |
| automatic titles | `terminal/proctitle*.go` | confirmation window | procfs probe | |
| wire encoding | `terminal/wire_binary.go`, `web/src/wire-binary.ts` | none | encode, decode | boundaries of the integer widths |
| vt screen | `vt/screen.go`, `csi.go`, `tabstops.go`, `kitty.go` | cells, cursor, margins, modes, tab stops, keyboard-flag stacks, scrolled-off lines | one per control function, resize, drain | wrap-pending, margins, wide cells, alternate screen, resize |
| vt parser | `vt/parse.go`, `table.go`, `dcs.go`, `osc.go` | state, parameters, OSC and DCS buffers, UTF-8 assembly | one byte | sequences broken, cut, cancelled, too long |
| vt commands and pen | `vt/osc.go`, `sgr.go`, `csi.go` | titles, colours, clipboard, notification, progress, pen | OSC, window controls, SGR, DECRQSS | one-shot results another party collects |
| page: connection lifecycle | `web/src/connection.ts`, `reconnect.ts` | connState, timers, heartbeat | open, close, wake, switch session | two live sockets, timers of a socket gone |
| page: history paging | `web/src/connection.ts`, `render.ts` | one request in flight, tokens, budget | trigger, request, timeout, reply | late replies, gaps nobody asks for |
| page: line store | `web/src/store.ts`, `intervals.ts` | tail and browse cache by absolute index, floors | put, evict, trim | floors, holes |
| page: renderer, scroll, mouse, keyboard | `web/src/*.ts` | DOM, follow state, gesture state | | |

How they interact. A page opens a WebSocket and sends **resume** with the last
absolute line it holds and the number of bytes it has sent on its resume key.
The read loop of that socket calls `ResolveSession`, which finds or creates the
input ledger, takes it from the socket that held it (fencing that one), and
answers with a **resumeAck** and a batch: the current window, then a replay of
the scrollback. From then on the flush scheduler sends diffs and acks, and the
page sends input, resizes, focus, history requests. The session manager owns
the set of handlers and the arrangement shared by all viewers; a sweep every
250 ms turns handler state into status events for the subscribers of an SSE
stream.

What makes each right:

- *ledger registry*: one owner per ledger; a superseded socket never writes to
  the PTY on it again and does leave; a socket that was not superseded never
  loses its ledger; the ack counts exactly what the application was given; the
  retained set is bounded and no connected page's ledger is reclaimed.
- *reliable input*: every byte accepted from the keyboard runs once and in
  order, or the page says that input may have been lost.
- *scrollback*: an absolute index names one line for ever; a reader gets exactly
  the lines with the indices it is told; what is denied is really gone.
- *flush and resume*: a page's store converges to the screen and history with no
  hole and no stale repaint, whatever frames are in flight when it resumes.
- *history paging*: the page's two budgets hold, what it stops asking for is
  gone, what was erased stays away, and every gap near the reader closes.
- *flush scheduler*: it never sleeps on something a client has not been shown,
  and never shows half of a screen while a redraw settles.
- *viewers*: the terminal fits those who watch it, and the program knows whether
  anybody looks.
- *process lifecycle*: at most one child, none of its tree left after shutdown,
  the last screen before the close code, and an end for every session.
- *session manager*: the order is the live set; the layout names live sessions
  only and its selected pane shows one; a client's arrangement wins over a
  restore; nothing runs after shutdown.
- *status stream*: every subscriber ends with the current set, order and status;
  an occurrence has one number; the seen floor covers no unseen occurrence.
- *vt*: a stream is read as it was written wherever it is cut; what is printed is
  kept line by line, as on a roll of paper; a status record is the last that was
  reported and not taken back.

`PROJECT.json` lists every component with what is modelled of it, and under
`hazards` the places in the code where these can go wrong, each with the
properties that would catch it or the reason why there is none.

## 2. Modules

| module | models | role |
|---|---|---|
| `LedgerRegistry` | `client_registry.go` lock by lock, with the read loop, `handleResume` and `Remove` of each socket | detailed component |
| `ReliableInput` | what the input channel promises the user | abstract specification |
| `InputDelivery` | page, sockets, ledger, ack sweep, restarts, end to end | composition; implements `ReliableInput` |
| `RetainedLog` | what the scrollback promises its readers | abstract specification |
| `ScrollbackRing` | `scrollback.go` and its readers | detailed component; implements `RetainedLog` |
| `PageStore` | `web/src/store.ts` as operators: what a screen frame, a scroll frame and a resumeAck make of the page's lines | operators, no state |
| `HistoryPaging` | the page's reading back: the caps of the store, the fetch trigger, the request, the server's reply | composition over `ScrollbackRing` and `PageStore` |
| `ScreenDelivery` | screen, drain, frame builder, dispatch, resume batch, one page's socket and its store | composition |
| `FlushScheduler` | the scheduler goroutine with its holds and windows, the attach of clients | detailed component |
| `Viewers` | sizes and focus of several viewers, over the scheduler they resize | composition |
| `SessionProcess` | the child, the goroutines of its session, the monitor, the reap, the zombie sweep | detailed component |
| `SessionSet` | `session_manager.go` and `session_set.go`: the set, its order, its layout, restore and shutdown | detailed component |
| `ProgramStatus` | the OSC 7501 record table of `vt/osc7501.go` | operators, no state |
| `StatusStream` | the status sweep, its trackers, subscribers and their buffers | composition over `ProgramStatus` |
| `VtParser` | `vt/parse.go`, `table.go`, `dcs.go`, the payload rules of `osc.go` | detailed component |
| `VtCommands` | titles, colours, clipboard, notifications, progress, status reports | composition over `ProgramStatus` |
| `VtSgr` | the pen: SGR and the DECRQSS answer | detailed component |
| `Paper` | what a terminal promises of printed lines | abstract specification |
| `VtScreen` | the grid: `vt/screen.go`, `csi.go`, `tabstops.go`, `kitty.go` | detailed component; printing implements `Paper` |
| `*Proofs` | | TLAPS proofs about the module of that name (section 6) |
| `MC*` | | instances for TLC: symmetry sets, kinds of host, session or program |

The modules follow the code's own seams: everything that runs under one hold of
a lock is one action, and what a goroutine does between two holds is a step of
its own, which any other may precede. Handlers that touch two components appear
as one action of the module that composes them (`Viewers` resizes the scheduler
of `FlushScheduler`, `InputDelivery` moves ledger and channels together).

### LedgerRegistry

One action is one critical section, so that TLC interleaves the sections the way
goroutines can. `pc[s]` is where the goroutine of socket `s` is:

```
gone -Connect-> reading -ReadMessage-> frame -InputApplied-> counted -StampInput-> reading
                   |  (fenced)           |-InputUncounted-> reading
                   |                     |-InputRefused, PtyWriteFails-> ending
                   |                     '-ResolveHit/Miss-> leaving -ReleasePrevious-> taking
                   |                                          (only with another ledger)
                   |                        taking -TakeLedger/TakeRefused-> answering
                   |                        answering -Answer-> reading or ending
                   '-ReadError-> ending -Unregister-> departing -ReleaseOnExit-> gone
```

- `ResolveHit`/`ResolveMiss` are the section under `r.mu` (lookup or insert,
  idle GC, cap, attach by `Swap`), `ReleasePrevious` the one under `prev.mu`,
  `TakeLedger`/`TakeRefused` the one under `sess.mu`.
- `lastSeen` is abstracted to the order `older` in which ledgers were last
  stamped: the cap compares times only. The idle window is abstracted to "some
  moment": the GC may remove any set of unattached ledgers closed under
  "seen earlier". A ledger created in the same section is never in it.
- A ledger is a model value; one that neither the map nor a socket refers to is
  garbage, and `ResolveMiss` may use it as the new object.
- The closing of a superseded socket (`go prev.conn.CloseNow()`) is the set
  `closing`; `CloseSuperseded` is the read error it causes.
- `granted` and `applied` are history: the ack the last resume returned and the
  frames counted since.

### InputDelivery

The ledger is one step here; the sockets are FIFO channels `sent` and `down` that
`CutSocket` breaks at any moment, losing a suffix of each direction. A socket the page
has abandoned can still deliver what it had carried, after the next socket has
resumed. `ForgetLedger` is the GC or the cap (no socket attached), `Restart` replaces
the process. Bytes are numbered when they are typed; `applied` is what the PTY
was given, `warned` what `onServerRestart` covered. An ack carried in a content
frame and a bare `ackOnly` are one message: both only carry the count.

Two constants choose the environment. `TypingInHandshake = FALSE` means no byte
is typed between the resume and its ack; `ForgetUnacked = FALSE` means that a
ledger is only reclaimed once the page has been acknowledged a byte. The
passing runs set both to FALSE: outside them the code breaks its promise (the
findings below), and the passing runs show that it breaks it nowhere else. The
theorems of `InputDeliveryProofs` have them as hypotheses for the same reason.

### ScrollbackRing

The three branches of `Append` are three actions, `Clear` is ED 3, and the
readers are operators: `LinesRange`, `LinesFrom`, `ReplayStart` (with the bound
`MaxReplayLines` and the page's own `replayMax`), and `HistoryReplies`, the set
of replies `historyControl` may give (the byte budget cuts the page after some
line, so any non-empty prefix). A line is a value; its wrap flag is part of the
value. `history` is every line ever committed, which is what an index names.

### SessionSet

One action is one hold of `m.mu`, or one call on a handler made outside it.
`proc[id]` is the process behind a handler and its teardown, `hands[id]` the
goroutine outside the set that still has to put the session in or close it:

```
proc   unused -Mint-> forking -Insert-> running -CloseHandler-> ending -TeardownEnds-> gone
                         |-StartFails-> gone
                         '-InsertRefused-> running
hands  creator from Mint to Insert; closer, reaper or shutdown from the moment a
       session leaves the set (Close, Reap, Shutdown) until CloseHandler
```

- `idle` says that `idleWindow` has passed since `idleSince`; `Insert` and the
  last `Detach` set it back. `young` and `regretted` are history: the sessions
  created since, and those the reaper took although they were young or watched.
- `RestoreSessionSet` is `RestoreBegins`, one `RestoreCreate` (through
  `createWith`) or `RestoreSkip` per entry, `RestoreApplies` (which may come
  early: the context ended, the manager closed) and `RestoreReturns`. `orderGen`
  and `layoutGen` are only compared with their values at its start, so each is
  a flag.
- A stored layout names entries by index, `restore.stored`; `StoredLayouts` is
  what `ParseSessionSet` accepts. `Captured` is what `CaptureSessionSet` would
  write at any moment, for every set of sessions whose process exited cleanly.
- Removing from the order, restoring it and capturing it all keep some sessions
  in the order they have: `Filter`, which is defined by the places kept and not
  by recursion so that the proofs can follow it.
- The handle position, titles, aliases and tokens are data no property reads.

### PageStore and ScreenDelivery

Together they answer what a viewer cares about: does the page show what the
terminal holds? The server's half is `ScreenDelivery`, the page's store is the
record `PageStore` works on, and between them is the FIFO `wire`.

| state | code |
|---|---|
| `screen`, `saved`, `inAltScreen`, `drained` | `vt.Screen`: `Cells`, `savedMainCells`, `InAltScreen`, `Drained` |
| `history`, `oldest`, `capacity` | the scrollback ring: every line committed, the oldest retained index |
| `builder` | `flushFrameBuilder`: `prevRowWires`, `prevBase`, `prevAlt`, `prevAltValid` |
| `frame` | the `flushFrame` between `buildFrame` and the write to this socket; `resumed` is the captured `resumeGen` against the socket's (a socket resumes once) |
| `conn` | `open` (registered), `batch` (`handleResume` holds `writeMu`), `live` |
| `store` | `LineStore`: lines, `unconfirmedFrom`, `erasedThrough`, window, alternate grid |

- A row's content is the number of the output that wrote it, so rows from
  different moments are told apart. The actions of an application are a line at
  the bottom margin (`PrintLine`), a redrawn row, the alternate screen, and ED 3.
- `HandleResume` is the section under `h.mu`, `WriteBatch` the writes under
  `writeMu`. `DispatchFrame` needs `conn` outside `batch`: the lock. A frame
  built before the snapshot is sent without its screen (`FramePayloads`).
- `viewer` is any other socket. It matters to this page in three ways: it keeps
  the builder running when this page is away, its resume resets the diff, and
  its resume drains lines.
- `Connect` may come with the old store or, after a reload, an empty one.
- Five history variables say which lines a page may lack or have wrong: `forgone`
  (the replay clamp skipped them, or an erase it was told of covers them),
  `awaited` (a first window frame put the floor above them and their replay is
  under way; `Cut` moves them to `forgone`), `missed` (drained by the viewer's
  resume, or replayed while the page still showed the alternate screen),
  `unproven` (rows over which a heal of `confirmRange` raised the floor, held
  ones, `Healed`, or lines in `missed`, `Passed`, that no frame has drawn or
  brought since; finding 3), and `windowSeen`.
- Left out: cursor, modes, title, bell, palette and clipboard, resizes, ED 2,
  the timing of a pass (holds and batch window), the page's line cap, browse
  cache and paging floor. The page asks for the full `MaxReplayLines`.

### HistoryPaging

What scrolled off is kept by the server's ring (`ScrollbackRing`) and, in part,
by the page; this module is how the page reads back the rest.

| state | code |
|---|---|
| `store` | `LineStore`: `PageStore`'s record with `browse`, `evictedThrough` (`everEvictedThrough`), `serverOldest`, `solicited` (`solicitedPending`), `pagingFloor` |
| `reader` | the row at the top of the viewport, or `Following` |
| `due` | the renderer's scheduled frame |
| `fetch` | `HistoryState` of the socket: `acked`, `inFlight`, `effMax`, `ceiling`, `tokens`, `demand`, `haveThrough`, `replayMax` |
| `up`, `answer`, `frame`, `wire` | requests under way; the reply `historyControl` has read and not yet written; the frame built and not yet dispatched; frames under way to the page |

- `maybeFetchHistory` is the renderer's trigger with `requestHistory` behind it.
  It runs in `Scroll`, at the end of `flushRender`, and in `demandTimer`.
- `applyScreen`, `applyScroll`, `applyHistoryScroll` and `applyResumeAck` are
  PageStore's operations with the caps, the licence to take old rows and the
  paging floor; each ends in the code's own `enforceCap` or
  `enforceBrowseBudget`, which `Shed` follows victim by victim.
- `historyControl` is two steps, `ServeHistory` under `h.mu` and `WriteHistory`
  under `writeMu`, because an ED 3 or a live frame may come between them.
- The data timeout fires at any moment while an answer is under way (an event of
  the bounds) and surely when there is none.
- Four marks are history: `told` (the erasure the page was told of), `doubt` (a
  late answer was taken for a clamp of the retry, since the last resumeAck),
  `strays` (rows of an answer that came after its timeout), `erasedBelow` and
  `answers` in the frames.
- Left out: what a row says, the alternate screen (no trigger runs there), size
  changes, the change of the cap when the server declares paging (the consumer
  chose the cap), scroll frames of more than one live line, the read anchor's
  pixels. A resume is answered in one step.

### FlushScheduler and Viewers

`loop` is where the scheduler goroutine stands:

```
idle -waitForDirty-> pass -buildFrame-> write or writeHeld -dispatchFrame-> window or hold
                       |  (nothing to send)-> window or hold
                       '-SuspendedPass (nobody attached)-> window
hold   -waitForHoldRetry (poke or timer)-> pass
window -poke-> late -timer-> pass;  window -timer-> idle
```

- The screen is a function on `Parts`: a row, or one of the things `Build`
  compares beside the rows (cursor, modes, title). A deadline is the number of
  ticks left; any number of steps may fall between two ticks.
- `sent` is the builder's cache, `NoCache` after a `Reset`. `view[c]` is what a
  client shows; a size change or a palette change makes all of it unknown, since
  what was painted no longer fits.
- `owed` is the poke that `handlePTYData` gives after it has released the lock;
  the dirty channel is one slot, so `dirty` is a flag.
- `redrawHoldUntil` follows the code's two deadlines and its count of rearms; a
  lapse of the cap sets `coalesce`, so that what is let through is whole.
- A client attaches in three steps with no lock held between them: `Register`,
  `AttachReset`, `AttachPoke`.

`Viewers` adds what these clients say. `at[c]` is the next step of a socket's
read loop, because the registry's lock and the handler's are taken one after the
other: a size is recorded, then applied; a focus is recorded, then derived; a
departure removes the registration, then derives the focus, then decides about
the heal. A heal reads the sizes, looks at the screen, and applies, in three
steps. The goroutine that reads the program's output (`Reader`) sets DEC 1004.

### SessionProcess

`monitor` walks the code of the goroutine that waits for the child:

```
wait -> forget -> drain -> record -> [settle -> killAll ->] callback -> cancel -> closePTY
     -> scan <-> classify -> end            ([..] only with a cgroup)
```

- `starting = "forked"` is the time `ensureStarted` holds the handler's lock;
  who needs that lock has `LockFree` as a guard.
- The tree is a head and kids; `Fork` gives a kid the parent's kind, or lets it
  shed the terminal (`daemon`) or the reap marker too (`stray`). A process hit by
  SIGKILL is `dying` until it is gone.
- A scan of `/proc` is two steps: the pids are listed, then each is read.
  `slipped` remembers who was born of a live process between the two.
- The zombie sweep lists, then waits for each pid it does not own under the
  spawn lock. `found` says that its list names the head.
- Every bounded wait may run out at any moment (`cutShort`, `gaveUp`,
  `caller = "expired"`), which is all the model keeps of the durations.

### StatusStream and ProgramStatus

A sweep is `BeginSweep`, a `ReadScreen` and a `ReadExit` per session (no lock of
the manager held), and `CommitSweep`, which runs `sweepSession` for what is
still live; its events then leave one by one (`Broadcast`). `tr[s]` is the
`statusTracker`. A subscriber registers, takes a snapshot of what was committed,
then reads its bounded buffer; without room it is dropped. `view[c]` is the
page's copy, and `Final(c)` is what that copy becomes once the buffer and the
events about to be sent are read: it is decided by the last of them about each
session. `Next` is every action with every argument, for the proofs;
`MCStatusStream` gives it the arguments that matter. `ViewsConverge` has two
parts, which the proofs need different hypotheses for: `StatusesConverge` and
`TitlesConverge`. `ProgramStatus` is the record table as operators, used both here
and in `VtCommands`: `apply(p, event)` is a report, a prompt, an exit or a reset.

### VtParser, VtCommands, VtSgr, VtScreen

`VtParser` has the parser's state as one record and one byte as one step;
`vt.did` lists what the byte made the screen do. `VtCommands` and `VtSgr` take
over where a payload has been split, `VtScreen` where a control has been
dispatched: each method of `vt.Screen` is an operator from a screen to a screen,
and an action is one control (`PrintRune`, `EraseLine`, `SetModes` ...), a
`Resize`, or the flush taking the scrolled-off lines (`DrainScrollback`). A cell
is a rune and its protection attributes. `Paper` is an endless roll: printed
lines, their wraps and the cursor, with no scrolling; `MCVtScreen` maps the grid
and the lines the flush has taken onto it.

## 3. Runs

Every property of a passing run has a mutant (`PROJECT.json`, `mutants`): the
definition it names is replaced by a plausible bug, and the property fails.

| run | properties | shows |
|---|---|---|
| `registries` | `OwnershipInv`, `AckIsExact`, `CapHolds`, `AttachedStays`, `SupersededLeaves`, `ClosedEnds` | one owner per ledger, no fenced owner, no unfenced socket without its ledger, exact acks, the cap holds and takes no connected socket's ledger, superseded sockets leave; after a shutdown of the manager every process ends |
| `input_handshake_twice` | `AppliedInOrder` | **violated**: finding 1 |
| `page_link` | `DeliveryInv`, `KeepsPromise`, `OutboxDrains`, `RingHolds`, `RepliesAreHonest`, `KeepsNewest`, `PageIsSound`, `GapsClose` | what the page types: over cuts, a reclaimed ledger and a restart, at most once and in order, nothing vanishes unannounced, counters agree, implements `ReliableInput`, every byte is acknowledged in the end. What it reads back: slots and indices agree, reads, replays and history replies are exact, the ring is `RetainedLog`; a page that reads it back keeps its budgets, gives up only on lines that are gone, keeps nothing erased, and fills every gap near the reader in the end |
| `screen_delivery` | `ScreenInv`, `HistoryHeld` | a page with nothing under way shows the screen and holds the retained lines; what it claims at a resume is committed, and held, but for the rows a heal passed over |
| `heal_over_rows` | `HealSparesHeld` | **violated**: finding 3 |
| `flush_viewers` | `AsleepIsShown`, `LaggingAreWritten`, `UnsettledIsWhole`, `FocusIsCurrent`, `HealFitsViewers` | a sleeping scheduler owes nothing, a lagging client is written to, an unsettled redraw goes out whole; the focus told holds, a heal fits its viewers |
| `size_stranded` | `SizeIsHeld` | **violated**: finding 2 |
| `session_process` | `NothingOutlives`, `ExitIsWhole`, `EverythingEnds` | nothing runs when Shutdown has returned, an exit seen is a whole exit, every closed or ended session ends |
| `session_set` | `ArrangementInv`, `ClientsPrevail`, `RestoreRebuilds`, `NothingStranded`, `ReaperSpares` | order is the live set, layout shows it, captures parse, a client wins over a restore, an undisturbed restore rebuilds, nothing stranded, nothing reaped that is watched or new |
| `status_stream` | `ViewsConverge`, `CuesAreNumbered`, `MarksAndNotices` | a view agrees with the session when all is read, every cue has one number, marks and notices are neither early nor repeated |
| `vt` | `RecordsAreTheLast`, `TakesAreCurrent`, `StyleReproduced`, `Confined`, `ContinuationKeepsFlag`, `BytesAreRead`, `PrintsOnPaper`, `AltRoundTrip` | the parser reads what was written, records, colours, titles and clipboard are the last said, the pen comes back, the grid keeps printed lines and the alternate screen gives the main one back |
| `cursor_off_screen` | `CursorOnScreen` | **violated**: finding 4 |

## 4. Bounds, scenarios and fairness

Several modules have more behaviors than one state space holds. Their MC module
then chooses a kind of session, host, day or program at the start of each
behavior, and the kinds share a run: `MCScreenDelivery`, `MCSessionSet`,
`MCFlushViewers`, `MCSessionProcess`, `MCStatusStream`, `MCVt`. `MCRegistries`
and `MCPageLink` choose one of two components: `LedgerRegistry` or a small
`SessionSet`, `InputDelivery` or `HistoryPaging`; the other one stands still.

- `LedgerRegistry`: 2 sockets, 2 keys, 4 ledgers, cap 1. Two sockets that both
  move between two keys meet in every pair of critical sections; what a third
  could add is covered by the proofs, which are for any number of sockets. A cap
  of one makes every second key evict: the retained set holds an attached or a
  spare ledger, and the newcomer. Four ledgers are what the sockets and the map
  can refer to with one to spare; one counted frame per ledger tells an ack read
  before it from one read after.
- `InputDelivery`: 2 sockets, 3 bytes, outbox 2, 2 cuts, 1 reclaimed ledger, 1
  restart. It needs the socket in use and one that still delivers old bytes when
  it was superseded; a socket that ended is used again. Three bytes through an
  outbox of two make it full, trimmed in part, and refilled.
- `ScrollbackRing`: capacities 0 to 3 and 7 commits wrap twice; two kinds of
  line tell neighbours apart, and `TypeOK`'s `Len(history) = committed` keeps
  them honest.
- `HistoryPaging`: the run's fifth capacity, 8, is the page's ring. It is full
  when the page is opened, so the next line evicts. Tail cap 3 with a window of
  two, browse cap 5, threshold 1, pages of at most 2 and at least 1, one token:
  three pages overflow the cache, the reader's neighbourhood is narrower than it,
  and a budget can shrink and grow back. Two events (a line, an erasure, a cut, a
  refusal, an early timeout, a drop of the cache) and one move of the reader are
  enough for an eviction under a request, an answer after its timeout, and an
  erasure between a read and its write. Everything the run checks also held with
  pages of three (490,000 states), and `PageIsSound` with three events and two
  moves (8.5 million states) and with eleven other sets of constants (windows of
  one to four rows above and below the tail's cap, caps of one to 17, thresholds
  of zero to two, rings shallower and deeper than a replay; up to eight million
  states each, outside the run). The browse cap is one more than 2T + 1 < cap
  asks for, T = 1 being the threshold (section 5, *History paging*).
  `FlushInBatch` is FALSE: the page draws nothing between two frames that one
  resume or one pass writes (section 5 has what happens when it does).
- `ScreenDelivery`: 2 rows, so that one scrolls and one stays; a ring of two
  evicts at the third line, a ring of four is deeper than a replay, which is when
  the server declares paging. Chunks of one line make every replay and every
  burst several frames, so a cut can fall between them. Four outputs scroll a
  full ring out; three sockets are two reconnects, the second after a cut in the
  first one's batch. Eight kinds of session: eviction under reconnects, two
  reconnects, a deep ring, the alternate screen, ED 3, another socket, and two
  scripted ones of seven outputs that heal. In the first (a ring of one, three
  sockets) an erase is told on a socket that has not resumed, then lines raise the
  floor twice; `heal_over_rows` runs it, and `screen_delivery` includes it. In the
  second (a ring of two, two sockets) the page resumes after such an erase in the
  alternate screen, and another socket's resume drains a line that a heal then
  passes over: the proof of `HistoryIsHeld` led to it (section 6).
- `FlushScheduler`, `Viewers`: 2 clients (the one that lags and the one that
  comes or goes), 2 parts (a diff sends one of them), 2 contents. Windows of one
  tick, a cap of two, a DEC 2026 hold of two: enough for a wait to end before,
  with and after another. One size change and one synchronized update per
  behavior, two rearms as in the code. The sizes are 80x50, 100x24 and 60x20:
  two of them cross, so that a heal is neither's. Four days: every hold with one
  viewer; viewers that come and go without holds; sizes; focus. `size_stranded`
  has its own, calm day, on which no size changes while a heal is under way.
- `SessionProcess`: a head and 2 kids, 2 kill rounds, one chunk of output. The
  code has 8 rounds (`reapKillRounds`, `reap.go:30`) and so has a reserve the run
  does not need: two reach the last round with somebody left and with nobody; the
  proof is for any number. Either the head forks and is torn down, with and without a cgroup,
  or it has one child, output, clients and the zombie sweep. Two kids are one
  that forks the other while the scan reads the pids.
- `SessionSet`: 3 ids, 2 stored entries, capture limit 2, 2 viewers: a restored
  session, one a client created meanwhile, one that was there before. A stored
  order shows only with two entries. The capture limit is below the number of
  ids, so that it cuts. Three hosts: clients that write while one session is
  restored; two restored and a shutdown; the idle reaper with two sockets and a
  shutdown. In `registries` it has two ids and one entry, for liveness.
- `StatusStream`: scenario `notes` (one session, notifications of every class,
  progress, acknowledgements, exits), `reports` (OSC 7501 against one kind of
  notification), `viewers` (two sessions, one subscriber with a buffer of one,
  renames, reorders, creates, closes, acknowledgements of two numbers, since a
  mark may rise more than once between two sweeps). Three occurrences of a status make one
  repeat; one event of lag makes the second one drop the subscriber.
- `vt`: five byte programs (numbers, OSC, two of DCS, text), each with one byte of each
  kind the table tells apart and buffers of two or three; five topics (records,
  notes, titles, colours, pen); ten drawings (print, rows, alt, keys, origin,
  region, margin, edit, modes, tabs) on grids of at most three rows and five
  columns. Two rows and columns are where a wide rune meets the right edge and a
  line the bottom; margins need three. Of one drawing's controls every pair
  meets; controls of different drawings do not, and the split keeps together
  what the properties are about: `region` has a scroll region, origin mode and a
  saved cursor on screens that are entered, left and resized, `margin` has
  margins on screens that are entered and left. `CutRegions = FALSE` leaves out
  the one thing that takes region and cursor off the screen, an alternate screen
  left onto a region that a resize has cut off: `Confined` is about the rest, and
  `cursor_off_screen` has `CutRegions = TRUE` (section 5, finding 4). Outside the
  runs, all controls of the ten drawings together were simulated over 70 million
  states under the same restriction without a violation of `Confined`.

Deadlock is checked where the system goes on for ever. It is not in the runs
whose ids, outputs, sockets or typed bytes are used up (`registries`,
`session_*`, `page_link`, `screen_delivery`, `heal_over_rows`,
`input_handshake_twice`, `status_stream`, `vt`, `cursor_off_screen`): those behaviors may stop.

Fairness. In `LedgerRegistry` a goroutine that can run does (`Continue`), a
frame that was read is handled (`Handle`), and the close of a superseded socket
ends its read (`CloseSuperseded`); nobody is forced to connect, send or leave.
In `page_link` the component that was not chosen has no step to be fair to.
In `InputDelivery` the page retries while it has no socket (the reconnect loop
has no attempt limit), each end handles what arrives, each end notices a broken
connection in bounded time (page heartbeat, server ping), and the scheduler runs
when its dirty signal is set. Typing, cuts, reclaiming and restarts are not fair;
`CutSocket` is bounded, which is the assumption that connections eventually hold. In
`FlushScheduler` the loop's goroutine runs, time passes, the poke that follows an
output and the steps of an attach come; the program, resizes and departures are
free. In `SessionProcess` some goroutine, or a process that was killed, goes on
as long as one can: none of them can go on for ever, so all do; a program need
never end and nobody need call Shutdown. In `HistoryPaging` frames arrive
while the socket lives, the read loop serves and writes, the page draws what it
has scheduled, its timers fire, tokens come back, and a cut socket is opened
again; lines, erasures, cuts, refusals, early timeouts and the reader are free,
and bounded. In `SessionSet` whoever holds a handler
goes on (`Carry`): a fork returns, its creator takes the lock again, a session
taken out is closed, and a teardown ends, because the kill ladder is bounded.

## 5. Findings and observations

1. *A byte typed between resume and resumeAck runs twice.* `sendBinary` sends at
   once when the socket is open, and the ack, which was read before that byte
   arrived, leaves it in the outbox for `retransmitOutbox`. The ledger has then
   counted one byte twice, so a later ack may trim a byte that was not applied.
   `connection-outbox.test.ts:5-6` names this as the failure to avoid.
   (`input_handshake_twice`)
2. *A healed size strands those it was made for.* A heal takes the smallest
   columns and the smallest rows, which may be nobody's own size. When one of
   those viewers leaves, its size is not the terminal's, so `maybeHealSize` does
   nothing, and the other keeps the mixed size, although the comment at
   `terminal.go:2333` says that somebody else still holds it. (`size_stranded`)
3. *A heal claims rows nobody committed.* When a range arrives above a floor that
   lies below `oldest`, `confirmRange` sets the floor to `max(end, oldest)`, above
   every row the page holds between the two, and drops none. The comment at
   `store.ts:749` says that it never raises the floor over a row still held. Such
   a row may be one a window frame drew: after an erase told on a socket that had
   not resumed, a cut between a window and its lines, and a replay that starts
   higher, the page claims it at the next resume, and the line that took its
   place is never sent. Nor is a line the page does not hold, if another socket's
   resume had drained it and the heal raises the floor over it. `ScreenInv` and
   `HistoryHeld` hold for every other row (`unproven`). (`heal_over_rows`)
4. *The cursor leaves the screen.* A region set on the main screen is put aside
   with it (DECSTBM 2;3 of three rows, then `?1049h`). `resizeSavedMain` fits the
   saved cells to a resize, but not the region (`screen.go:507-529`), and
   `exitAltScreen` clamps only its bottom when it puts it back (`922-923`, `940`).
   After a resize to one row and `?1049l` the region begins below the screen, and
   origin mode (`?6h`) homes the cursor there. `parser_fuzz_test.go:97-99` states
   the opposite: "Invariant: the cursor stays in bounds across the resize". That
   test has one resize, and would have to write two sequences before it and two
   after.
   (`cursor_off_screen`)

Seen while modelling, and not the subject of a run. Each is excluded from the
passing properties by the definition in brackets, or not spoken of by them.

*Input.*
- A ledger reclaimed while the page was away is announced by one `ledgerLost`;
  when that ack is lost and the page had not been acknowledged anything, the
  next resume looks ordinary and replays what had run (`connection.ts:1305`;
  `InputDelivery` shows it with `ForgetUnacked = TRUE`).
- A first resume with bytes already queued is a key miss with claimed bytes, so
  the queue is dropped and a loss announced (`terminal.go:2067`) although the
  server lost nothing.
- With the cap reached and every other ledger attached, `evictOldestSession`
  sees the ledger just created as the only unattached one and evicts it; the
  comment's "oldest overall" is not reached (`client_registry.go:213`, `312-314`).

*Screen and scrollback.*
- A resume drains lines into the ring but writes them to its own socket only; a
  page already attached has a gap until it reconnects (`terminal.go:2090`
  against `1507-1510`; excluded by `missed`).
- The frame that tells of an erase may have a base above lines committed after
  it; the page drops them and refuses the chunks that would bring them back
  (`store.ts:1662`; excluded by `forgone`). An ED 3 that changes no row is told
  by no frame.
- On the main screen the window frame is written before the replay and puts the
  provisional floor at its base. If the socket dies between the two on a store
  that had no window yet, the next resume claims every line below that base
  (`store.ts:723-775`; excluded by `awaited`).
- In the alternate screen the replay goes first, but a page still in the
  alternate screen from before drops the replayed lines at or above its frozen
  window (`store.ts:675-684`; excluded by `missed`).
- `Build` discards main-screen lines that scrolled off in the same flush as the
  entry into the alternate screen, and a flush that spans an entry and an exit
  commits alternate-screen lines as history (`flush_builder.go:72-79`).

*Viewers.*
- A heal reads the sizes before a live resize and may be applied after it.
- Two goroutines may write their focus reports in another order than they
  derived them (`focus.go:14`). A reset and a set of DEC 1004 in one read leave
  the told state as it was.

*Sessions and processes.*
- Shutdown waits for the sessions it finds in the set, not for one that `Close`
  or the reaper took out just before (`session_manager.go:962` against `942-945`).
- The pidfd of a kill is opened after the scan without reading the membership
  again (`reap_linux.go:232`, `containment_linux.go:445`). `spawnForget` after
  `Wait` may drop the registration of a pid already used again. A double fork
  while `/proc` is read can slip a scan that otherwise finds nobody (`slipped`).
  Output of the last batch window before the exit may not be framed before 4001.

*Status stream.*
- A session created and closed between two sweeps has no tracker, so no removal
  is told; a subscriber whose snapshot fell in between keeps it (`events.go:341`,
  `353-358`; excluded by `removed`). A title or order that a
  snapshot took live, and that was changed back before the next sweep, stays
  wrong (`events.go:188`). Only the last of several notifications between two
  sweeps is classified.

*Terminal emulator.*
- A screen that grew while the alternate one was up leaves the main region with
  its old bottom (`screen.go:922-923`). The region is then no longer the whole
  screen, and what scrolls off it no longer reaches the scrollback
  (`csi.go:1302-1307`), until the program sets a region or the size changes again.
- Under origin mode the cursor leaves the region or the margins by HPR
  (`csi.go:94-97`), by CBT, which goes back to a tab stop left of the margin
  (`csi.go:672`), by a restored cursor, by a line feed under LNM, which returns
  to column 0 (`parse.go:277`), and when the alternate screen comes or goes.
  `Confined` names these (`Unconfined`), and TLC finds each of the five when it is
  taken off that list.
- OSC 104 without data marks the palette changed also when every colour set has
  been removed one by one (`osc.go:374-380`: the map is empty but not nil),
  although the comment at `osc.go:371` says "Only marks the palette changed if an
  override was actually removed": one repaint too many.
- Autowrap below the scroll region; a wide rune at the right margin without
  DECAWM; RI, SD and IL leave the drain tail's continuation stale; `pendingWrap`
  survives a resize; an OSC 52 that clears leaves an earlier pending text; lines
  lost by a resize in the alternate screen; SGR 21 then 4 sets both underlines
  (`sgr.go:192`).

*History paging.*
- When the renderer's frame callback runs between the window frame of a resume
  batch and its replay, the fetch trigger sends a history request, and a replay
  chunk whose first index lies inside the request is taken for its reply
  (`connection.ts:956-992`): `raisePagingFloor` then condemns retained lines
  (`store.ts:1256`) until the next resume. `FlushInBatch = TRUE` lets it happen
  when a replay is longer than a chunk or shorter than a page. The same happens
  between the window frame of a pass and its scrolled lines: when they are more
  than a chunk and a window, the gap asked for ends where the later chunks begin;
  and when the tail's cap is no larger than the window, the row that has just left
  the window is evicted and asked for again. A late reply to a
  request that timed out can be mistaken in the same way (acknowledged at
  `store.ts:786-789`; excluded by `doubt`).
- A reply that was read before an ED 3 and comes after its timeout, with no
  request out, is an ordinary scroll frame. `erasedThrough` covers rows the page
  held, not those it lacked and had asked for, so the erased rows land in the
  tail, which `store.ts:433-441` means to prevent (excluded by `strays`).
- `erasedThrough` may also cover lines committed after the erase (the base of the
  frame that tells of it, see *Screen and scrollback*), although
  `store.ts:439-440` says that no erased index is reused; the paging floor then
  lies above them, so they are not asked for either (excluded by `told.base`).
- A cache cap just above the reader's neighbourhood, 2T + 1 rows for a threshold
  T, is not enough: with T = 1, pages of 3 and a cap of 4 a reader between two
  gaps fetches a page whose rows are evicted as they arrive, and asks for it
  again for ever; with a cap of 5 TLC finds no such cycle. A cap that holds the
  neighbourhood and a page leaves room for both, and the shipped numbers do
  (2500 against 1001 + 1000).

## 6. Proofs

Every proof is checked by TLAPS for any value of the constants that the named
assumptions allow. Each rests on an inductive invariant, stronger than the
property; its parts are named definitions of the `*Proofs` module.

**LedgerRegistryProofs.** Sets of sockets, keys and ledgers of any size, any
cap; the two "none" values are not members. `LedgerInv` is the conjunction of
`TypeOK`, the properties and `Position`. `Position` is needed because the
properties speak of `attached` and `leaving` only through `pc`: it says that a
socket has a ledger to leave exactly between the swap and the release, that the
two differ, and that past the swap it is attached. None of the properties is
inductive alone: that a fenced socket owns nothing needs `OwnerAttached` (the
ledger it is moving to is not its own yet), and the converse `UnfencedKeepsLedger`
needs it to know that taking a ledger from an owner fences that owner.
`LedgerInvStep` has one step per action; the actions that only move `pc` share
`MoveStep`. The cap is a second invariant, `CapInv`: inserting one ledger adds
one to the cardinality and the eviction takes one away. That no step takes a
ledger from under a connected socket (`AttachedStays`) has one hard case, a
resume that misses: the ledger it inserts is not attached yet, so the cap has a
spare one to take, and need never take an attached one. Theorems: `LedgerTypes`,
`LedgersHaveTheirOwners`, `ResumeAckIsExact`, `RetainedLedgersAreCapped`,
`AttachedLedgersStay`.

**InputDeliveryProofs.** Any number of sockets, bytes, cuts, reclaims and
restarts, any outbox. The page and the ledger count the same bytes from
different beginnings, and the invariant `Sound` says when the two counts belong
together (`InStep`: the page is keyed to this boot and was acknowledged no more
than the ledger counts) and what that buys: `Floor + received` is the last byte
run (`AppliedIsTyped`), what travels to the ledger's owner is the next bytes
without a gap (`UpContinues`), and the outbox is the newest bytes, everything
older being run or covered by a notice (`OutboxIsTail`). Out of step the ledger
counts nothing, and nothing travels to it until the page has been answered
(`AnswersFit`, `WaitingIsQuiet`): an ack under way is of bytes decided
(`AcksAreHonest`), and one that says more than the ledger counts can only come
from a ledger reclaimed since (`Stranded`). Theorems: `InputIsDelivered` for
`DeliveryInv`; `PromiseIsKept`, that every step is one of `ReliableInput` or
stutters, which needs also that a notice covers no byte that may still be run
(`WarnedIsOld`); `NothingVanishes`, for what holds even when a ledger is
reclaimed before its first ack. Their hypotheses are the two constants of the
model: `TypingInHandshake = FALSE` in all three, because of finding 1, and
`ForgetUnacked = FALSE` in the first two, because of the first observation under
*Input*.

**HistoryPagingProofs.** The ring: any set of lines, any capacities, any number of
commits. The invariant is `TypeOK` and `SlotsMatchIndices`. The arithmetic is in
two lemmas about `%` (`WrapOnce`, `Unwrapped`) and two about the branches
(`GrowingStep`, `EvictingStep`): when the ring is full, the slot written is the
one of the oldest line, and every other retained line moves one position down.
Theorems: `RingTypes`, `RingSlotsMatchIndices`, `RingReadsAreExact` (from
`PositionsAreHistory`), both together as `RingIsExact`, `RingOldestNeverRetreats`.
From exact reads follow the replies: `ReplayFromInv` and `HistoryFromInv` give
`RingRepliesAreHonest` by arithmetic on the first index and the length of a read
(`ReadLength`, `PageIsHistory`). `RingKeepsNewest` is the refinement of
`RetainedLog`: the whole ring read out is the end of the history
(`RetainedIsEnd`), and a window over the end of a sequence follows an append
either by growing or by dropping its oldest line (`WindowSlides`).

The page that reads the ring back: any window, tail and browse caps, threshold,
page size, token burst and number of events. The specification is `PagingSpec`,
ring and page together. `PageIsSound` says something about the store only; for
that to be inductive, every frame under way has to fit the store that will take
it, and the frames each other. `PagingInv` has one conjunct for each of these
promises, stated over the state it speaks of rather than over variables, so that
a step that leaves that state alone keeps it by one lemma (`WireStays`,
`RequestsStay`, `FloorsStay`...):

- `StoreOK`: both budgets hold, the window is held whole, nothing is held past it
  and the cache lies below it. Most of the work is in the evictions: what
  remains is the upper end of the rows, cut where the cap is met (`CapHolds`),
  and `Shed` always has a victim while the cache is over its budget
  (`ShedTakesSome`), because the reader's neighbourhood of 2T + 1 rows fits in it;
  so it ends within the budget (`BudgetHolds`; the induction is over the passes, by
  the first pass that breaks the claim).
- `WireOK`: what each frame promises the store (`FrameOK`: a window is not behind
  the store's and not below an erasure the page knows of; live lines lie above
  the request; a reply lies in the request it answers, and denies only lines that
  are evicted) and how frames follow each other (`OrderOK`: live lines come right
  behind the window they scrolled out of, which ends where they end, and no older
  window comes behind a newer).
- `AckOK` and `SocketOK`: before the resumeAck the page asks for nothing, and no
  window, request or answer outlives its socket. `BuiltOK`: the frame between
  build and dispatch already fits everything in front of it.
- `RequestsOK`: a request names a gap below the window and no more than a page,
  and so does the licence to take old rows. `FloorsOK`: an erasure the page was
  told of is one the server made, and lies below its floor.

One lemma per action shows its step. The hard ones are the dispatch and the resume, which append
two frames to a wire of others, and the reply, where the floor may rise to the
first line that came: it came later than asked only because those before it are
evicted (`RaisedIsGone`). The hypothesis is `FlushInBatch = FALSE`: the page draws
nothing between two frames written together, for what happens otherwise is the
first observation under *History paging* in section 5. Without it `LiveOK` fails:
a request made between the two covers the lines of the second, which are then
taken for its reply. `PagingAssumption` asks besides that `Infinity`, "no floor",
is a number and that the neighbourhood of the reader is smaller than the cache.
Theorem: `PagesStaySound`.

**FlushViewersProofs.** The scheduler: any clients, parts, contents and timer bounds.
`OwedInv` follows one cache that stands for all clients: `CacheIsShown` says that
whatever the cache holds every client past its reset shows or has on the way to
it, `FrameIsUnderWay` that a frame exists exactly while one is being written,
and `NothingIsForgotten` that whatever the cache lacks is still to come: by the
dirty slot, by an owed poke, by a timer, or because the loop is in a pass.
Theorems: `SleepingSchedulerOwesNothing`, `UnsettledScreensAreWhole`.

The viewers: any clients and sizes. `ViewersInv` adds to the focus property
that a socket which is not attached wants nothing (`AbsentWantNothing`; without
it a departure could change the focus unnoticed) and that a heal under way fits
those it was computed for (`HealIsFit`), which needs that a minimum over a set of
naturals exists (`SmallestIsLeast`, by well-founded induction). The specification
is `ViewersSpec`, viewers and scheduler together. Theorems: `FocusToldIsCurrent`,
`HealsFit`.

**SessionProcessProofs.** Any tree, any number of kill rounds, any output.
`ProcessInv`: what exists before and after the start (`Beginning`), that the
monitor's copy of the status is the kernel's (`StatusIsKept`), that no output is
left unread where the drain has ended by itself (`OutputIsRead`), that the tree is
down when the monitor is past its scans, except for those `slipped` or given up
(`TreeIsDown`), and that who returned from Shutdown had closed (`CallerHasClosed`).
Theorems: `ShutdownLeavesNothing`, `ExitTellsAll`.

**SessionSetProofs.** Any set of ids, any limits, in two inductive invariants.
`HoldInv` is about the processes: the conjunction of `NothingStranded` and
`ReaperSpares` with what they need, `SetIsHeld` (a session of the set runs and is
in nobody's hands, so taking it out is what puts it into somebody's),
`ForkingIsHeld` (what is being forked is in the hands of who forks it),
`ClosedIsEmpty` (nothing enters after a shutdown), `IdleIsOld` (when the idle
window has passed, no session is younger than it) and the count of the sockets.

`ArrangeInv` is about the order and the layout, and needs more than they show.
`RestoreInv`: the sessions a restore created have left `forking` for good, each
stands for one entry, and the one being forked will be the next; without it a
session could enter twice, and two panes of the stored layout show one session.
`WrittenInv`: what a client wrote is remembered only while its flag is up, and
names only sessions that were started, so that no newcomer is among them and an
`Insert` cannot disturb what the client sees. `Rebuilt` is `RestoreRebuilds`
place by place, which `Append` and `Filter` preserve one place at a time.
`ArrangeStep` has one lemma for each action that writes one of these, and
`QuietStep` for all that do not; it takes `HoldInv` for granted where a session of
the set has to be one that runs. That a capture parses (`CaptureParses`) is not
inductive and need not be: `CaptureFits` has it in every state from the layout's
types and shape alone, by `NormalizedFits` and `NormalizedKeeps`.

Orders are sequences filtered again and again, and the induction this suggests is
out of reach. Instead `ListsExist` gives every set of places an increasing list,
`ListedRank` says that a place's rank is its position in it, and `FilterListed`
that filtering reads the sequence along it; from these follow that filtering
keeps what it should (`FilterHas`), composes (`FilterTwice`), ignores a newcomer
(`FilterAppended`) and leaves a prefix alone (`FilterKeepsFirst`). That naming as
many sessions as there are names them all (`NamesAll`) is a count. Theorems:
`NoProcessIsStranded`, `ReaperSparesTheLiving`, `ShutDownStaysEmpty`,
`ArrangementHolds`, `ClientsAreNotOverwritten`, `RestoresRebuild`.

**StatusStreamProofs.** Any sessions, subscribers, notifications, buffer and
record limit, and any events of a program. The invariant grows in three layers.
`CueInv` orders four readings of a session: what the tracker has consumed, what
the sweep before read, what the sweep under way has read and what the screen is
now. Each is no later than the next, and a number drawn between two of them is
above everything the earlier holds (`IsLater`), notifications and reports being
numbered together; what was consumed is what the sweep before read, except that
a session that ended may leave a notification (`Consumed`). So a sweep asked for
something new computes it, and numbers it, and numbers nothing else, which is
`CuesAreNumbered`. `NoticeInv` takes a
subscriber's buffer and what the sweep has still to broadcast as one sequence,
`Coming`: a snapshot, a broadcast and a drop each leave it alone, take its head,
or end it. The notifications in it rise, and rise above what the subscriber was
told, so no reconnection tells one twice. `StreamInv` adds `Streams`: the last
event about a session in `Coming` matches what is committed of it, and with none
the page shows it. A sweep appends at most one event per session and one exactly
when the page would otherwise be wrong; a snapshot that was taken while a sweep
was being broadcast is overtaken by the same events once more, which is why the
claim is about the last event and not about each. For titles this needs the
hypothesis `TitlesAreNew`, that no title that was changed is put back: the sweep
compares titles by value, so it misses a change there and back that a snapshot
came between (section 5). Statuses need no such hypothesis, because a status is
committed by a sweep only. The proof also corrected the property: a page's mark
was said to be either the last broadcast or the current one, but a snapshot may
fall between two acknowledgements; TLC shows it once the run acknowledges two
numbers, and the clause is now the interval from the one to the other. Theorems:
`CuesNumberedAlways`, `MarksAndNoticesAlways`, `StatusesConvergeAlways`,
`ViewsConvergeWithNewTitles`.

**ScreenDeliveryProofs.** Any height, ring, chunk and replay bound, any number of
outputs and sockets. `ScreenInv` puts together the builder, the frame between
build and dispatch, the batch, the wire and the page's store, and the invariant
`Inv` looks at them as one queue: `Pending` is the wire, then the batch, then
what the frame built will be written as (`Due`). Its scroll frames bring the
history at their indices (`Carried`), and its windows come in order, each above
every erase the page was told of and none above the last line committed
(`Ordered`). From these a row that is held below the floor or below an erase is
the server's line (`ClaimInv`), but for the rows of finding 3. For the screen,
`RowInv` follows each row of the builder's last screen: some frame under way
draws it and no later one disturbs it, or the page shows it and nothing under
way does; so a diff, which every socket shares, may leave out exactly the rows
that did not change. `DataInv` has the types of all of these. Half of the module
is lemmas about the store's operators (what `ApplyScreen`, `ApplyScroll` and
`ApplyResumeAck` hold, keep and confirm), and `BoundAssumption` asks that
`Infinity`, which stands for "no floor", is above every index.

For the lines that scrolled off (`HistoryHeld`), `HistoryInv` says where each
retained line is once the page's socket has resumed: the page holds it and no
frame under way spoils it, one will bring it that no later one spoils
(`WillBring`), it is in `missed`, or it is given up (`Covered`). That is not inductive alone, because
what a resume replays is what the page said it lacks: `BelowInv` has the
page's half (what lies below the floor is held or given up), `FloorInv` that the
floor is above every erase and every unproven row and not above the last line
committed, unless the page shows no window, `SocketInv` that a socket not yet
resumed asks for no more than it may, `AckInv` that there is one ack and it comes
before the content. The proof has one lemma per action; the hard ones are the
resume itself, whose chunks and first window have to cover everything from the
line asked for, and the two frames, where a window drawn over the floor or a heal
must not lose what a frame behind it brings. It found a behaviour the runs were
too small for: the alternate screen, an erase told early and another socket
together make the page claim a line it neither holds nor was ever sent, by a heal
over a line that socket's resume had drained. So `unproven` now counts such lines
(`Passed`), and the run has a session that meets it. Theorems: `ScreenIsRight`,
`HistoryIsHeld`.

What is only model-checked: everything under fairness (`SupersededLeaves`,
`OutboxDrains`, `KeepsPromise`'s liveness part, `ClosedEnds`, `LaggingAreWritten`,
`EverythingEnds`, `GapsClose`), which TLAPS does not reach; the titles of
`ViewsConverge` without the hypothesis of its theorem; the terminal emulator
(`RecordsAreTheLast`, `TakesAreCurrent`, `StyleReproduced`, `Confined`,
`ContinuationKeepsFlag`, `AltRoundTrip`, `PrintsOnPaper` and the parser), whose
operators are recursive or fold over data.

## 7. Not modelled, and why

- Rendering, DOM, key tables, mouse gestures, colour contrast, width tables: a
  view of other state, tables, or floating point.
- procfs probes, cgroup files and limits, HTTP routing, origin checks, text
  export: input and output of the operating system, or stateless.
- The byte layout of the wire: the models use decoded messages; the repository
  round-trips it with fuzz tests and golden files.
- Ephemeral input and ping: a token bucket and a failure count over real
  durations. A socket they close is `ReadError` in `LedgerRegistry`.
- The framing latch of the read loop and its rate limits.
- In `Viewers`: a session that has not started or whose terminal is closed, where
  `applySize` and `maybeHealSize` return at once (`terminal.go:2297`, `2344`), and
  a failing `pty.Setsize`, which leaves the size as it was. `HealFitsViewers` and
  `SizeIsHeld` are about the sizes that are applied.
- In `StatusStream`: `ViewsConverge` compares status, numbers, marks, title and
  removal; the order an event carries is modelled and not compared, since it may
  come back between two sweeps as a title may.
- One-sided: `TakesAreCurrent` asks that a change of colours is flagged and that
  the title stack is the end of what was pushed, not that nothing else is flagged
  or dropped; `BytesAreRead` asks of text that every byte is accounted for by a
  rune or a replacement; parameters and strings are compared exactly.
- In the modelled components: reuse of pids, a failed spawn, a failing random
  source, the detail of a panic (`SessionProcess`); titles, aliases, tokens and
  the 503 while restoring (`SessionSet`); percentages, automatic titles,
  secondary activity and keep-alives (`StatusStream`); cell colours, links,
  character sets and replies (`VtScreen`); title hex modes (`VtCommands`).
- Of the page: connection states, timers and wake-ups; of its store, the
  snapshot, the reset for a new epoch and the change of the cap with the
  capability.

## 8. Plan

| module | composes | properties | proof |
|---|---|---|---|
| `FramingLatch`, `PingTimeout` | the remaining controls of the read loop | no frame swallowed, dead socket closed in bounded time | |
| `ConnectionLifecycle` | the page's timers, wake-ups, session switches | one live socket, timers of a dead socket do nothing | |
| `ScrollFollow`, `MouseGesture` | small state machines of the page | follow resumes, one release per press | |
