-------------------------- MODULE FlushViewersProofs --------------------------
(***************************************************************************)
(* What the flush scheduler owes its clients and what the viewers of a     *)
(* session are owed, for any number of them, any screen, sizes and         *)
(* windows.                                                                *)
(***************************************************************************)
EXTENDS Viewers, WellFoundedInduction, TLAPS

-----------------------------------------------------------------------------
(* The scheduler: OwedInv is inductive.  It follows one cache that stands  *)
(* for every client and one bit that stands for all that is still to come. *)

Loops == {"idle", "pass", "write", "writeHeld", "hold", "window", "late", "ended"}
Stages == {"away", "registered", "reset", "attached"}
Screens == [Parts -> Content]
Settles == [on : BOOLEAN, cap : Nat, quiet : Nat, rearms : Nat, coalesce : BOOLEAN]
Frames == [to : SUBSET Clients, changed : SUBSET Parts, rows : Screens]

OwedTypes ==
    /\ screen \in Screens /\ palette \in BOOLEAN /\ clip \in BOOLEAN /\ owed \in BOOLEAN
    /\ sent \in Screens \cup {NoCache}
    /\ socket \in [Clients -> Stages]
    /\ dirty \in BOOLEAN /\ loop \in Loops
    /\ held \in Nat /\ settle \in Settles
    /\ view \in [Clients -> [Parts -> Content \cup {Unknown}]]

\* Between the building of a frame and its dispatch there is one; else none.
FrameIsUnderWay ==
    IF loop \in {"write", "writeHeld"} THEN frame \in Frames ELSE frame = NoFrame

\* What client c shows of part p once the frame under way has arrived.
Coming(c, p) == IF c \in frame.to /\ p \in frame.changed THEN frame.rows[p] ELSE view[c][p]

\* The cache is what every client shows or is about to be shown, but for those
\* who have not had it reset for them, and for a palette still to be repainted.
CacheIsShown ==
    palette \/ sent = NoCache \/
        \A c \in Clients : socket[c] \in {"reset", "attached"} =>
            \A p \in Parts : Coming(c, p) = sent[p]

\* Whatever a client has still to be sent, a pass is coming that looks at it.
PassComes ==
    \/ dirty \/ owed \/ loop \in {"pass", "late", "hold", "writeHeld", "ended"}
    \/ \E c \in Clients : socket[c] \in {"registered", "reset"}
NothingIsForgotten ==
    Attached # {} /\ (sent # screen \/ palette \/ clip) => PassComes

OwedInv == OwedTypes /\ FrameIsUnderWay /\ CacheIsShown /\ NothingIsForgotten

\* The windows and bounds are numbers.
LEMMA Bounds == {Window, Quiet, Cap, Sync, MaxRearms} \subseteq Nat /\ Quiet > 0 /\ Cap > 0
BY FlushAssumption

LEMMA OwedInit == Init => OwedInv
<1> SUFFICES ASSUME Init PROVE OwedInv
  OBVIOUS
<1>1. OwedTypes
  BY FlushAssumption DEF Init, OwedTypes, Screens, Stages, Loops, Settles, NoSettle, Nothing
<1>2. FrameIsUnderWay /\ CacheIsShown
  BY DEF Init, FrameIsUnderWay, CacheIsShown
<1>3. NothingIsForgotten
  BY DEF Init, NothingIsForgotten, Attached
<1> QED
  BY <1>1, <1>2, <1>3 DEF OwedInv

-----------------------------------------------------------------------------
(* The steps, by who takes them.                                             *)

\* What a program does to the screen owes a poke.
LEMMA OutputStep ==
    ASSUME OwedInv,
           \/ \E p \in Parts, x \in Content : Draw(p, x)
           \/ SetPalette \/ CopyToClipboard \/ HoldFlush \/ ReleaseFlush
    PROVE  OwedInv'
<1>1. owed' = TRUE /\ UNCHANGED <<sent, dirty, loopVars, socket, resizes>>
  BY DEF Draw, SetPalette, CopyToClipboard, HoldFlush, ReleaseFlush, handlePTYData
<1>2. OwedTypes'
  <2>1. screen' \in Screens /\ palette' \in BOOLEAN /\ clip' \in BOOLEAN
    BY DEF OwedInv, OwedTypes, Screens, Draw, SetPalette, CopyToClipboard, HoldFlush, ReleaseFlush
  <2>2. held' \in Nat /\ settle' \in Settles
    BY FlushAssumption DEF OwedInv, OwedTypes, Settles, Draw, SetPalette, CopyToClipboard, HoldFlush,
       ReleaseFlush, handlePTYData
  <2>3. view' \in [Clients -> [Parts -> Content \cup {Unknown}]]
    BY DEF OwedInv, OwedTypes, Draw, SetPalette, CopyToClipboard, HoldFlush, ReleaseFlush, Nothing
  <2> QED
    BY <1>1, <2>1, <2>2, <2>3 DEF OwedInv, OwedTypes, loopVars
<1>3. FrameIsUnderWay'
  BY <1>1 DEF OwedInv, FrameIsUnderWay, loopVars
<1>4. CacheIsShown'
  <2>1. palette' \/ (palette' = palette /\ view' = view)
    BY DEF Draw, SetPalette, CopyToClipboard, HoldFlush, ReleaseFlush
  <2> QED
    BY <1>1, <2>1 DEF OwedInv, CacheIsShown, Coming, loopVars
<1>5. NothingIsForgotten'
  BY <1>1 DEF NothingIsForgotten, PassComes
<1> QED
  BY <1>2, <1>3, <1>4, <1>5 DEF OwedInv

LEMMA PokeStep == ASSUME OwedInv, Poke PROVE OwedInv'
<1>1. OwedTypes' /\ FrameIsUnderWay'
  BY DEF OwedInv, OwedTypes, FrameIsUnderWay, Poke, markDirty, loopVars, holdVars, clientVars
<1>2. CacheIsShown'
  BY DEF OwedInv, CacheIsShown, Coming, Poke, markDirty, loopVars, holdVars, clientVars
<1>3. NothingIsForgotten'
  BY DEF Poke, markDirty, NothingIsForgotten, PassComes
<1> QED
  BY <1>1, <1>2, <1>3 DEF OwedInv

\* Who attaches is shown nothing yet: its registration promises the Reset, which
\* invalidates the cache, and the Reset the poke.
LEMMA ClientStep ==
    ASSUME OwedInv, NEW c \in Clients, Register(c) \/ Attaching(c) \/ Leave(c)
    PROVE  OwedInv'
<1>1. OwedTypes'
  <2>1. socket' \in [Clients -> Stages] /\ sent' \in Screens \cup {NoCache} /\ dirty' \in BOOLEAN
    BY DEF OwedInv, OwedTypes, Stages, Register, Attaching, AttachReset, AttachPoke, Leave, markDirty
  <2>2. view' \in [Clients -> [Parts -> Content \cup {Unknown}]]
    BY DEF OwedInv, OwedTypes, Register, Attaching, AttachReset, AttachPoke, Leave, Nothing
  <2> QED
    BY <2>1, <2>2 DEF OwedInv, OwedTypes, Register, Attaching, AttachReset, AttachPoke, Leave,
       screenVars, loopVars, holdVars
<1>2. FrameIsUnderWay'
  BY DEF OwedInv, FrameIsUnderWay, Register, Attaching, AttachReset, AttachPoke, Leave, loopVars
<1>3. CacheIsShown'
  <2>1. CASE Register(c) \/ Leave(c)
    <3>1. \A d \in Clients : socket'[d] \in {"reset", "attached"} =>
             socket[d] \in {"reset", "attached"} /\ view'[d] = view[d]
      BY <2>1 DEF OwedInv, OwedTypes, Register, Leave
    <3> QED
      BY <2>1, <3>1 DEF OwedInv, CacheIsShown, Coming, Register, Leave, screenVars, loopVars
  <2>2. CASE AttachReset(c)
    BY <2>2 DEF AttachReset, CacheIsShown
  <2>3. CASE AttachPoke(c)
    <3>1. \A d \in Clients : socket'[d] \in {"reset", "attached"} => socket[d] \in {"reset", "attached"}
      BY <2>3 DEF OwedInv, OwedTypes, AttachPoke
    <3> QED
      BY <2>3, <3>1 DEF OwedInv, CacheIsShown, Coming, AttachPoke, screenVars, loopVars
  <2> QED
    BY <2>1, <2>2, <2>3 DEF Attaching
<1>4. NothingIsForgotten'
  <2>1. CASE Register(c) \/ AttachReset(c)
    <3>1. socket'[c] \in {"registered", "reset"}
      BY <2>1 DEF OwedInv, OwedTypes, Register, AttachReset
    <3> QED
      BY <3>1 DEF NothingIsForgotten, PassComes
  <2>2. CASE AttachPoke(c)
    BY <2>2 DEF AttachPoke, markDirty, NothingIsForgotten, PassComes
  <2>3. CASE Leave(c)
    <3>1. UNCHANGED <<screenVars, sent, dirty, loopVars>> /\ Attached' \subseteq Attached
          /\ \A d \in Clients : socket[d] \in {"registered", "reset"} => socket'[d] = socket[d]
      BY <2>3 DEF OwedInv, OwedTypes, Leave, Attached
    <3> QED
      BY <3>1 DEF OwedInv, NothingIsForgotten, PassComes, screenVars, loopVars
  <2> QED
    BY <2>1, <2>2, <2>3 DEF Attaching
<1> QED
  BY <1>1, <1>2, <1>3, <1>4 DEF OwedInv

LEMMA ResizeStep ==
    ASSUME OwedInv, NEW changed \in BOOLEAN, Resize(changed) PROVE OwedInv'
<1>1. OwedTypes'
  <2>1. settle' \in Settles
    <3>1. armRedrawSettle \in Settles
      BY Bounds DEF armRedrawSettle, Settles
    <3> QED
      BY <3>1 DEF OwedInv, OwedTypes, Resize, applySize
  <2>2. view' \in [Clients -> [Parts -> Content \cup {Unknown}]]
    BY DEF OwedInv, OwedTypes, Resize, applySize, Nothing
  <2> QED
    BY <2>1, <2>2 DEF OwedInv, OwedTypes, Resize, applySize, markDirty, screenVars, loopVars
<1>2. FrameIsUnderWay'
  BY DEF OwedInv, FrameIsUnderWay, Resize, applySize, loopVars
<1>3. CacheIsShown' /\ NothingIsForgotten'
  BY DEF Resize, applySize, markDirty, CacheIsShown, NothingIsForgotten, PassComes
<1> QED
  BY <1>1, <1>2, <1>3 DEF OwedInv

-----------------------------------------------------------------------------
(* The scheduler's own steps.                                                *)

LEMMA LookFacts ==
    ASSUME OwedTypes
    PROVE  /\ redrawHoldUntil.settle \in Settles /\ redrawHoldUntil.ticks \in Nat
           /\ redrawHoldUntil.settle.on /\ redrawHoldUntil.ticks = 0 => redrawHoldUntil.settle.coalesce
<1> DEFINE off == [settle EXCEPT !.on = FALSE]
           more == [settle EXCEPT !.rearms = settle.rearms + 1, !.cap = Cap, !.coalesce = TRUE]
<1>1. settle.rearms + 1 \in Nat /\ Cap \in Nat
  BY Bounds DEF OwedTypes, Settles
<1>2. off \in Settles /\ ~off.on
  BY DEF OwedTypes, Settles
<1>3. more \in Settles /\ more.coalesce
  BY <1>1 DEF OwedTypes, Settles
<1>4. CASE settle.on /\ settle.quiet > 0 /\ settle.cap = 0
  <2>1. redrawHoldUntil = Look(off, 0) \/ redrawHoldUntil = Look(more, 0)
    BY <1>4 DEF redrawHoldUntil
  <2> HIDE DEF off, more
  <2> QED
    BY <1>2, <1>3, <2>1 DEF Look
<1>5. CASE ~settle.on \/ settle.quiet = 0
  <2>1. redrawHoldUntil = Look(off, 0) \/ (~settle.on /\ redrawHoldUntil = Look(settle, 0))
    BY <1>5 DEF redrawHoldUntil
  <2> HIDE DEF off
  <2> QED
    BY <1>2, <2>1 DEF Look, OwedTypes
<1>6. CASE settle.on /\ settle.quiet # 0 /\ settle.cap # 0
  <2>1. settle.quiet \in Nat \ {0} /\ settle.cap \in Nat \ {0}
    BY <1>6 DEF OwedTypes, Settles
  <2>2. redrawHoldUntil = Look(settle, Least(settle.cap, settle.quiet))
    BY <1>6, <2>1 DEF redrawHoldUntil
  <2> QED
    BY <2>1, <2>2 DEF OwedTypes, Look, Least
<1> QED
  BY <1>4, <1>5, <1>6 DEF OwedTypes, Settles

\* A frame at a moment nothing holds makes the cache the screen, and brings every
\* client what the cache before it lacked.
LEMMA BuildStep == ASSUME OwedInv, buildFrame PROVE OwedInv'
<1> DEFINE look == redrawHoldUntil
           until == Most(held, look.ticks)
           cache == IF palette \/ (until = 0 /\ look.settle.coalesce) THEN NoCache ELSE sent
           changed == IF until = 0 THEN Build(cache) ELSE {}
<1>1. look.settle \in Settles /\ look.ticks \in Nat /\ until \in Nat
  BY LookFacts DEF OwedInv, OwedTypes, Most
<1>2. /\ loop = "pass" /\ Attached # {} /\ palette' = FALSE /\ clip' = FALSE
      /\ settle' = IF until = 0 THEN [look.settle EXCEPT !.coalesce = FALSE] ELSE look.settle
      /\ sent' = IF until = 0 THEN screen ELSE cache
      /\ UNCHANGED <<screen, owed, syncs, dirty, held, clientVars, resizes>>
  BY DEF buildFrame
<1>3. \/ changed = {} /\ frame' = NoFrame /\ loop' = IF until = 0 THEN "window" ELSE "hold"
      \/ /\ frame' = [to |-> Attached, changed |-> changed, rows |-> screen]
         /\ loop' = IF until = 0 THEN "write" ELSE "writeHeld"
  BY DEF buildFrame, Goes
<1>4. OwedTypes'
  <2>1. settle' \in Settles
    BY <1>1, <1>2 DEF Settles
  <2>2. sent' \in Screens \cup {NoCache} /\ loop' \in Loops
    BY <1>2, <1>3 DEF OwedInv, OwedTypes, Loops
  <2> QED
    BY <1>2, <2>1, <2>2 DEF OwedInv, OwedTypes, clientVars
<1>5. FrameIsUnderWay'
  <2>1. Attached \subseteq Clients /\ changed \subseteq Parts
    BY DEF Attached, Build
  <2> QED
    BY <1>3, <2>1 DEF OwedInv, OwedTypes, FrameIsUnderWay, Frames
<1>6. CacheIsShown'
  <2>1. frame = NoFrame
    BY <1>2 DEF OwedInv, FrameIsUnderWay
  <2>2. CASE until = 0
    <3> SUFFICES ASSUME NEW c \in Clients, socket[c] \in {"reset", "attached"}, NEW p \in Parts
                 PROVE  Coming(c, p)' = screen[p]
      BY <1>2, <2>2 DEF CacheIsShown, clientVars
    <3>1. c \in Attached
      BY DEF Attached
    <3>2. CASE p \in changed
      BY <1>3, <2>2, <3>1, <3>2 DEF Coming
    <3>3. CASE p \notin changed
      <4>1. cache # NoCache /\ cache[p] = screen[p]
        BY <2>2, <3>3 DEF Build
      <4>2. sent = cache /\ view[c][p] = sent[p]
        BY <2>1, <4>1 DEF OwedInv, CacheIsShown, Coming, NoFrame
      <4>3. Coming(c, p)' = view[c][p]
        BY <1>2, <1>3, <2>2, <3>3 DEF Coming, NoFrame, clientVars
      <4> QED
        BY <4>1, <4>2, <4>3
    <3> QED
      BY <3>2, <3>3
  <2>3. CASE until # 0
    <3>1. changed = {} /\ sent' = cache
      BY <1>2, <2>3
    <3>2. \A c \in Clients, p \in Parts : Coming(c, p)' = view[c][p] /\ Coming(c, p) = view[c][p]
      BY <1>2, <1>3, <2>1, <3>1 DEF Coming, NoFrame, clientVars
    <3> QED
      BY <1>2, <3>1, <3>2 DEF OwedInv, CacheIsShown, clientVars
  <2> QED
    BY <2>2, <2>3
<1>7. NothingIsForgotten'
  BY <1>2, <1>3 DEF NothingIsForgotten, PassComes
<1> QED
  BY <1>4, <1>5, <1>6, <1>7 DEF OwedInv

LEMMA DispatchStep == ASSUME OwedInv, dispatchFrame PROVE OwedInv'
<1>1. frame \in Frames /\ frame' = NoFrame /\ UNCHANGED <<screenVars, sent, dirty, holdVars, socket, resizes>>
      /\ loop' = (IF loop = "write" THEN "window" ELSE "hold") /\ loop \in {"write", "writeHeld"}
  BY DEF OwedInv, FrameIsUnderWay, dispatchFrame, Goes
<1>2. \A c \in Clients : view'[c] =
        IF c \in frame.to \cap Attached
        THEN [p \in Parts |-> IF p \in frame.changed THEN frame.rows[p] ELSE view[c][p]] ELSE view[c]
  BY DEF dispatchFrame
<1>3. view' \in [Clients -> [Parts -> Content \cup {Unknown}]]
  BY <1>1 DEF OwedInv, OwedTypes, dispatchFrame, Frames, Screens
<1>4. OwedTypes' /\ FrameIsUnderWay'
  BY <1>1, <1>3 DEF OwedInv, OwedTypes, FrameIsUnderWay, Loops, screenVars, holdVars
<1>5. CacheIsShown'
  <2>1. \A c \in Clients, p \in Parts : socket[c] \in {"reset", "attached"} => Coming(c, p)' = Coming(c, p)
    BY <1>1, <1>2 DEF Coming, NoFrame, Attached
  <2> QED
    BY <1>1, <2>1 DEF OwedInv, CacheIsShown, screenVars
<1>6. NothingIsForgotten'
  BY <1>1 DEF OwedInv, NothingIsForgotten, PassComes, Attached, screenVars
<1> QED
  BY <1>4, <1>5, <1>6 DEF OwedInv

\* The waits: a wake-up is spent on a pass, and a wait that ends without one ends
\* where nothing is owed.
LEMMA WaitStep ==
    ASSUME OwedInv,
           SuspendedPass \/ waitForDirty \/ waitForHoldRetry \/ waitForBatchWindow \/ Cancelled \/ Tick
    PROVE  OwedInv'
<1>1. /\ UNCHANGED <<screenVars, sent, frame, clientVars>>
      /\ loop' \in Loops \ {"write", "writeHeld"} \/ loop' = loop
      /\ loop \notin {"write", "writeHeld"} \/ loop' = loop
  BY DEF SuspendedPass, waitForDirty, waitForHoldRetry, waitForBatchWindow, Cancelled, Tick, Moves, Goes,
     Wakes, Loops
<1>2. OwedTypes'
  <2>1. dirty' \in BOOLEAN /\ held' \in Nat /\ settle' \in Settles
    <3>1. CASE Tick
      <4>1. \A n \in Nat : Less(n) \in Nat
        BY DEF Less
      <4>2. settle.cap \in Nat /\ settle.quiet \in Nat
        BY DEF OwedInv, OwedTypes, Settles
      <4>3. [settle EXCEPT !.cap = Less(settle.cap), !.quiet = Less(settle.quiet)] \in Settles
        BY <4>1, <4>2 DEF OwedInv, OwedTypes, Settles
      <4> QED
        BY <3>1, <4>1, <4>3 DEF OwedInv, OwedTypes, Tick
    <3>2. CASE ~Tick
      BY <3>2 DEF OwedInv, OwedTypes, SuspendedPass, waitForDirty, waitForHoldRetry, waitForBatchWindow,
         Cancelled, Moves, Goes, Wakes, holdVars
    <3> QED
      BY <3>1, <3>2
  <2> QED
    BY <1>1, <2>1 DEF OwedInv, OwedTypes, screenVars, clientVars
<1>3. FrameIsUnderWay' /\ CacheIsShown'
  BY <1>1 DEF OwedInv, FrameIsUnderWay, CacheIsShown, Coming, screenVars, clientVars
<1>4. NothingIsForgotten'
  <2>1. CASE SuspendedPass
    BY <2>1 DEF SuspendedPass, NothingIsForgotten, Attached, clientVars
  <2>2. CASE waitForDirty \/ waitForHoldRetry \/ waitForBatchWindow \/ Cancelled \/ Tick
    <3>1. PassComes => PassComes'
      BY <1>1, <2>2 DEF PassComes, waitForDirty, waitForHoldRetry, waitForBatchWindow, Cancelled, Tick,
         Moves, Wakes, screenVars, clientVars
    <3> QED
      BY <1>1, <3>1 DEF OwedInv, NothingIsForgotten, Attached, screenVars, clientVars
  <2> QED
    BY <2>1, <2>2
<1> QED
  BY <1>2, <1>3, <1>4 DEF OwedInv

LEMMA OwedStep == OwedInv /\ [Next]_vars => OwedInv'
<1> SUFFICES ASSUME OwedInv, [Next]_vars PROVE OwedInv'
  OBVIOUS
<1>1. CASE Program
  BY <1>1, OutputStep, PokeStep DEF Program
<1>2. CASE Flush \/ Cancelled \/ Tick
  BY <1>2, BuildStep, DispatchStep, WaitStep DEF Flush
<1>3. CASE \E c \in Clients : Register(c) \/ Attaching(c) \/ Leave(c)
  BY <1>3, ClientStep
<1>4. CASE \E changed \in BOOLEAN : Resize(changed)
  BY <1>4, ResizeStep
<1>5. CASE UNCHANGED vars
  BY <1>5 DEF OwedInv, OwedTypes, FrameIsUnderWay, CacheIsShown, Coming, NothingIsForgotten, PassComes,
     Attached, vars, screenVars, loopVars, holdVars, clientVars
<1> QED
  BY <1>1, <1>2, <1>3, <1>4, <1>5 DEF Next

-----------------------------------------------------------------------------

(* A scheduler asleep with nothing to wake it has left nothing undone,     *)
(* whatever holds, bursts, arrivals and departures came before             *)
(* (flushLoop, terminal.go:1311).                                          *)
THEOREM SleepingSchedulerOwesNothing == Spec => []AsleepIsShown
<1>1. OwedInv => AsleepIsShown
  <2> SUFFICES ASSUME OwedInv, loop = "idle", ~dirty, ~owed,
                      \A c \in Clients : socket[c] \in {"away", "attached"}
               PROVE  /\ \A c \in Attached : view[c] = screen
                      /\ Attached # {} => ~clip
    BY DEF AsleepIsShown
  <2>1. Attached # {} => sent = screen /\ ~palette /\ ~clip
    BY DEF OwedInv, NothingIsForgotten, PassComes
  <2>2. ASSUME NEW c \in Attached PROVE view[c] = screen
    <3>1. frame = NoFrame
      BY DEF OwedInv, FrameIsUnderWay
    <3>2. CASE screen = NoCache
      <4>1. Parts = {}
        BY <3>2 DEF OwedInv, OwedTypes, Screens, NoCache
      <4> QED
        BY <4>1 DEF OwedInv, OwedTypes, Screens, Attached
    <3>3. CASE screen # NoCache
      <4>1. \A p \in Parts : view[c][p] = screen[p]
        BY <2>1, <3>1, <3>3 DEF OwedInv, CacheIsShown, Coming, NoFrame, Attached
      <4> QED
        BY <4>1 DEF OwedInv, OwedTypes, Screens, Attached
    <3> QED
      BY <3>2, <3>3
  <2> QED
    BY <2>1, <2>2
<1> QED
  BY <1>1, OwedInit, OwedStep, PTL DEF Spec

(* While the redraw of a size change has not settled, a client is only     *)
(* ever sent whole screens (redrawHoldUntil, buildFrame).                  *)
THEOREM UnsettledScreensAreWhole == Spec => UnsettledIsWhole
<1>1. OwedInv /\ [Next]_vars => [loop = "pass" /\ settle'.on => frame'.changed \in {{}, Parts}]_vars
  <2> SUFFICES ASSUME OwedInv, Next, loop = "pass", settle'.on PROVE frame'.changed \in {{}, Parts}
    OBVIOUS
  <2>1. CASE buildFrame
    <3> DEFINE look == redrawHoldUntil
               until == Most(held, look.ticks)
               cache == IF palette \/ (until = 0 /\ look.settle.coalesce) THEN NoCache ELSE sent
    <3>1. look.settle \in Settles /\ look.ticks \in Nat /\ look.settle.on
          /\ (look.ticks = 0 => look.settle.coalesce)
      <4>1. settle' = IF until = 0 THEN [look.settle EXCEPT !.coalesce = FALSE] ELSE look.settle
        BY <2>1 DEF buildFrame
      <4> QED
        BY <4>1, LookFacts DEF OwedInv, Settles
    <3>2. until = 0 => cache = NoCache
      BY <3>1 DEF OwedInv, OwedTypes, Most
    <3>3. until = 0 => Build(cache) = Parts
      BY <3>2 DEF Build
    <3> QED
      BY <2>1, <3>3 DEF buildFrame, NoFrame
  <2>2. CASE ~buildFrame
    <3>1. frame' = frame /\ frame = NoFrame
      BY <2>2 DEF OwedInv, FrameIsUnderWay, Next, Program, Flush, Draw, SetPalette, CopyToClipboard, HoldFlush,
         ReleaseFlush, handlePTYData, Poke, Register, Attaching, AttachReset, AttachPoke, Leave, Resize,
         applySize, SuspendedPass, dispatchFrame, waitForDirty, waitForHoldRetry, waitForBatchWindow,
         Cancelled, Tick, Moves, loopVars
    <3> QED
      BY <3>1 DEF NoFrame
  <2> QED
    BY <2>1, <2>2
<1> QED
  BY <1>1, OwedInit, OwedStep, PTL DEF Spec, UnsettledIsWhole

-----------------------------------------------------------------------------
(* The viewers: the program knows the focus that holds, and a heal fits    *)
(* those it was computed for.  Both rest on ViewersInv, in which a socket  *)
(* that is not attached wants nothing.                                     *)

Wishes == [size : Sizes \cup {NoSize}, focused : BOOLEAN]
Steps == [step : {"rest", "report", "heal", "apply"}, size : Sizes \cup {NoSize}]

ViewersTypes ==
    /\ socket \in [Clients -> {"away", "registered", "reset", "attached"}]
    /\ wants \in [Clients -> Wishes]
    /\ at \in [Clients -> Steps]
    /\ reports \in BOOLEAN
    /\ healing \in [stage : {"rest", "look", "apply"}, size : [cols : Nat, rows : Nat] \cup {NoSize},
                    seen : [Clients -> Wishes]]

\* A registration goes with the socket, and a new one starts unfocused and unsized.
AbsentWantNothing == \A c \in Clients : socket[c] # "attached" => wants[c] = NoWish

\* What a heal has read is no wider and no higher than anybody then wanted.
HealIsFit ==
    healing.stage # "rest" =>
        \A c \in Clients : healing.seen[c].size # NoSize =>
            /\ healing.size.cols <= healing.seen[c].size.cols
            /\ healing.size.rows <= healing.seen[c].size.rows

ViewersInv == ViewersTypes /\ AbsentWantNothing /\ HealIsFit /\ FocusIsCurrent

-----------------------------------------------------------------------------

\* The smallest of some numbers is one of them and none is smaller.
LEMMA SmallestIsLeast ==
    ASSUME NEW S \in SUBSET Nat, S # {}
    PROVE  Smallest(S) \in S /\ \A k \in S : Smallest(S) <= k
<1> DEFINE Below == {p \in Nat \X Nat : p[1] < p[2]}
<1>1. IsWellFoundedOn(Below, Nat)
  BY NatLessThanWellFounded DEF OpToRel
<1>2. PICK n \in S : \A k \in S : ~(<<k, n>> \in Below)
  <2> HIDE DEF Below
  <2> QED
    BY <1>1, WFMin
<1>3. ASSUME NEW k \in S PROVE n <= k
  <2>1. n \in Nat /\ k \in Nat
    OBVIOUS
  <2>2. ~(<<k, n>> \in Below)
    BY <1>2
  <2>3. ~(k < n)
    BY <2>1, <2>2
  <2> QED
    BY <2>1, <2>3
<1> QED
  BY <1>3 DEF Smallest

\* The size a heal reads fits every viewer that said what it wants.
LEMMA MinLiveSizeFits ==
    ASSUME ViewersTypes, Sized # {}
    PROVE  /\ MinLiveSize \in [cols : Nat, rows : Nat]
           /\ \A c \in Sized : /\ MinLiveSize.cols <= wants[c].size.cols
                               /\ MinLiveSize.rows <= wants[c].size.rows
<1> DEFINE Cols == {wants[c].size.cols : c \in Sized}
           Heights == {wants[c].size.rows : c \in Sized}
<1>1. \A c \in Sized : wants[c].size \in [cols : Nat, rows : Nat]
  BY ViewersAssumption DEF ViewersTypes, Wishes, Sized, Attached
<1>2. Cols \in SUBSET Nat /\ Cols # {} /\ Heights \in SUBSET Nat /\ Heights # {}
  BY <1>1
<1>3. MinLiveSize = [cols |-> Smallest(Cols), rows |-> Smallest(Heights)]
  BY DEF MinLiveSize, Said
<1>4. /\ Smallest(Cols) \in Cols /\ \A k \in Cols : Smallest(Cols) <= k
      /\ Smallest(Heights) \in Heights /\ \A k \in Heights : Smallest(Heights) <= k
  <2> HIDE DEF Cols, Heights
  <2> QED
    BY <1>2, SmallestIsLeast
<1> QED
  BY <1>2, <1>3, <1>4

-----------------------------------------------------------------------------
(* The steps.                                                                *)

LEMMA ViewersStart == Init /\ ViewersInit => ViewersInv
<1> SUFFICES ASSUME Init, ViewersInit PROVE ViewersInv
  OBVIOUS
<1>1. ViewersTypes
  BY DEF Init, ViewersInit, ViewersTypes, Wishes, Steps, NoWish, Resting, Step
<1>2. AbsentWantNothing /\ HealIsFit
  BY DEF ViewersInit, AbsentWantNothing, HealIsFit
<1>3. FocusIsCurrent
  BY DEF ViewersInit, FocusIsCurrent
<1> QED
  BY <1>1, <1>2, <1>3 DEF ViewersInv

\* The scheduler, and a size that is applied, leave the viewers alone.
LEMMA SizeStep ==
    ASSUME ViewersInv,
           \/ (Program \/ Flush \/ Cancelled \/ Tick) /\ UNCHANGED viewerVars
           \/ \E c \in Clients : handleResize(c) \/ maybeHealSize(c)
           \/ \E g \in Clients \cup {Reader} : Write(g)
    PROVE  ViewersInv'
<1>1. UNCHANGED <<socket, wants, reports, told, healing>>
  BY DEF Program, Draw, SetPalette, CopyToClipboard, HoldFlush, ReleaseFlush, handlePTYData, Poke, Flush,
     SuspendedPass, buildFrame, dispatchFrame, waitForDirty, waitForHoldRetry, waitForBatchWindow, Cancelled,
     Tick, Moves, clientVars, handleResize, maybeHealSize, Write, applySize, vars, sizeVars, focusVars, viewerVars
<1>2. /\ at' \in [Clients -> Steps]
      /\ \A c \in Clients : at[c].step = "report" => at'[c].step = "report"
  <2>1. CASE \E c \in Clients : handleResize(c) \/ maybeHealSize(c)
    <3>1. PICK c \in Clients : at' = [at EXCEPT ![c] = Resting] /\ at[c].step # "report"
      BY <2>1 DEF handleResize, maybeHealSize, Reaches
    <3>2. Resting \in Steps
      BY DEF Resting, Step, Steps
    <3> QED
      BY <3>1, <3>2 DEF ViewersInv, ViewersTypes
  <2>2. CASE at' = at
    BY <2>2 DEF ViewersInv, ViewersTypes
  <2> QED
    BY <2>1, <2>2 DEF Write, viewerVars
<1>3. ViewersTypes' /\ AbsentWantNothing' /\ HealIsFit'
  BY <1>1, <1>2 DEF ViewersInv, ViewersTypes, AbsentWantNothing, HealIsFit
<1>4. FocusIsCurrent'
  BY <1>1, <1>2 DEF ViewersInv, FocusIsCurrent, anyFocused, Attached
<1> QED
  BY <1>3, <1>4 DEF ViewersInv

\* A viewer comes, goes, or says what it wants: whoever may change the focus has
\* then still to report it.
LEMMA ViewerStep ==
    ASSUME ViewersInv, NEW c \in Clients, NEW d \in Sizes, NEW f \in BOOLEAN,
           Arrive(c) \/ AttachGoesOn(c) \/ Depart(c) \/ RecordSize(c, d) \/ SetClientFocus(c, f)
    PROVE  ViewersInv'
<1>1. UNCHANGED <<reports, told, healing>>
  BY DEF Arrive, AttachGoesOn, Depart, RecordSize, SetClientFocus, viewerVars, focusVars, sizeVars
<1>2. socket' \in [Clients -> {"away", "registered", "reset", "attached"}]
  BY DEF ViewersInv, ViewersTypes, Arrive, AttachGoesOn, Depart, RecordSize, SetClientFocus, Register,
     AttachReset, AttachPoke, Leave, vars, clientVars
<1>3. /\ wants' \in [Clients -> Wishes]
      /\ RecordSize(c, d) => \A e \in Clients : wants'[e].focused = wants[e].focused
  <2>1. /\ [wants[c] EXCEPT !.size = d] \in Wishes
        /\ [wants[c] EXCEPT !.size = d].focused = wants[c].focused
        /\ [wants[c] EXCEPT !.focused = f] \in Wishes /\ NoWish \in Wishes
    BY DEF ViewersInv, ViewersTypes, Wishes, NoWish
  <2>2. \/ wants' = wants
        \/ wants' = [wants EXCEPT ![c] = [wants[c] EXCEPT !.size = d]]
        \/ /\ ~RecordSize(c, d)
           /\ \/ wants' = [wants EXCEPT ![c] = [wants[c] EXCEPT !.focused = f]]
              \/ wants' = [wants EXCEPT ![c] = NoWish]
    <3>1. CASE RecordSize(c, d)
      BY <3>1 DEF RecordSize
    <3>2. CASE ~RecordSize(c, d)
      BY <3>2 DEF Arrive, AttachGoesOn, Depart, SetClientFocus, viewerVars
    <3> QED
      BY <3>1, <3>2
  <2> QED
    BY <2>1, <2>2 DEF ViewersInv, ViewersTypes
<1>4. at' \in [Clients -> Steps]
  BY <1>3 DEF ViewersInv, ViewersTypes, Wishes, Steps, Step, Reaches, Arrive, AttachGoesOn, Depart, RecordSize,
     SetClientFocus, viewerVars
<1>5. AbsentWantNothing'
  BY DEF ViewersInv, ViewersTypes, AbsentWantNothing, Arrive, AttachGoesOn, Depart, RecordSize, SetClientFocus,
     Idle, Register, AttachReset, AttachPoke, Leave, vars, clientVars, viewerVars
<1>6. FocusIsCurrent'
  <2>1. CASE at'[c].step = "report"
    BY <2>1 DEF FocusIsCurrent
  <2>2. CASE Arrive(c) \/ (AttachReset(c) /\ UNCHANGED viewerVars) \/ RecordSize(c, d)
    <3>1. \A e \in Clients : at[e].step = "report" => at'[e].step = "report"
      BY <2>2 DEF ViewersInv, ViewersTypes, Steps, Step, Resting, Idle, Reaches, Arrive, RecordSize, viewerVars
    <3>2. anyFocused' = anyFocused
      <4>1. \A e \in Clients : wants'[e].focused = wants[e].focused
        BY <1>3, <2>2 DEF Arrive, viewerVars
      <4>2. \A e \in Clients : wants[e].focused => socket[e] = "attached" /\ socket'[e] = "attached"
        BY <2>2 DEF ViewersInv, ViewersTypes, AbsentWantNothing, NoWish, Arrive, RecordSize, Register,
           AttachReset, vars, clientVars
      <4> QED
        BY <4>1, <4>2 DEF anyFocused, Attached
    <3> QED
      BY <1>1, <3>1, <3>2 DEF ViewersInv, FocusIsCurrent
  <2>3. CASE Depart(c) \/ SetClientFocus(c, f) \/ (AttachPoke(c) /\ Reaches(c, Step("report", NoSize)))
    <3>1. at'[c].step = "report"
      BY <2>3 DEF ViewersInv, ViewersTypes, Depart, SetClientFocus, Reaches, Step
    <3> QED
      BY <2>1, <3>1
  <2> QED
    BY <2>2, <2>3 DEF AttachGoesOn
<1> QED
  BY <1>1, <1>2, <1>3, <1>4, <1>5, <1>6 DEF ViewersInv, ViewersTypes, HealIsFit

\* Whoever derives the answer derives the one that holds.
LEMMA FocusStep ==
    ASSUME ViewersInv, (\E c \in Clients : reportFocus(c)) \/ (\E on \in BOOLEAN : SetFocusMode(on))
    PROVE  ViewersInv'
<1>1. UNCHANGED <<socket, wants, healing>>
  BY DEF reportFocus, SetFocusMode, vars, clientVars, sizeVars
<1>2. at' \in [Clients -> Steps] /\ reports' \in BOOLEAN
  BY DEF ViewersInv, ViewersTypes, Steps, reportFocus, SetFocusMode, Reaches
<1>3. told' = IF ~reports' THEN "unknown" ELSE IF anyFocused /\ ~keepUnfocused THEN "in" ELSE "out"
  <2>1. \A g, mode : focusReportLocked(g, mode, anyFocused) =>
           told' = IF ~mode THEN "unknown" ELSE IF anyFocused /\ ~keepUnfocused THEN "in" ELSE "out"
    BY DEF focusReportLocked
  <2>2. \E g : focusReportLocked(g, reports', anyFocused)
    BY DEF reportFocus, SetFocusMode
  <2> QED
    BY <2>1, <2>2
<1>4. FocusIsCurrent'
  BY <1>1, <1>3 DEF FocusIsCurrent, anyFocused, Attached
<1> QED
  BY <1>1, <1>2, <1>4 DEF ViewersInv, ViewersTypes, AbsentWantNothing, HealIsFit

LEMMA HealStep ==
    ASSUME ViewersInv, HealFires \/ HealLooks \/ HealApplies PROVE ViewersInv'
<1>1. UNCHANGED <<socket, wants, at, reports, told>>
  BY DEF HealFires, HealLooks, HealApplies, applySize, vars, clientVars, focusVars
<1>2. FocusIsCurrent' /\ AbsentWantNothing'
  BY <1>1 DEF ViewersInv, FocusIsCurrent, AbsentWantNothing, anyFocused, Attached
<1>3. /\ healing' \in [stage : {"rest", "look", "apply"}, size : [cols : Nat, rows : Nat] \cup {NoSize},
                       seen : [Clients -> Wishes]]
      /\ HealIsFit'
  <2>1. CASE HealFires /\ Sized # {}
    <3>1. healing' = [stage |-> "look", size |-> MinLiveSize, seen |-> wants]
      BY <2>1 DEF HealFires
    <3>2. \A c \in Clients : wants[c].size # NoSize => c \in Sized
      BY DEF ViewersInv, AbsentWantNothing, NoWish, Sized, Attached
    <3> QED
      BY <2>1, <3>1, <3>2, MinLiveSizeFits DEF ViewersInv, ViewersTypes, HealIsFit
  <2>2. CASE healing' = NotHealing
    BY <2>2 DEF ViewersInv, ViewersTypes, HealIsFit, NotHealing
  <2>3. CASE healing' = [healing EXCEPT !.stage = "apply"] /\ healing.stage = "look"
    BY <2>3 DEF ViewersInv, ViewersTypes, HealIsFit
  <2> QED
    BY <2>1, <2>2, <2>3 DEF HealFires, HealLooks, HealApplies
<1> QED
  BY <1>1, <1>2, <1>3 DEF ViewersInv, ViewersTypes

LEMMA ViewersStep ==
    ViewersInv /\ [ViewersNext \/ ((Program \/ Flush \/ Cancelled \/ Tick) /\ UNCHANGED viewerVars)]_<<vars, viewerVars>>
        => ViewersInv'
<1> SUFFICES ASSUME ViewersInv,
                    [ViewersNext \/ ((Program \/ Flush \/ Cancelled \/ Tick) /\ UNCHANGED viewerVars)]_<<vars, viewerVars>>
             PROVE  ViewersInv'
  OBVIOUS
<1>1. CASE ViewersNext
  <2>1. PICK d \in Sizes, f \in BOOLEAN : TRUE
    BY ViewersAssumption
  <2> QED
    BY <1>1, <2>1, SizeStep, ViewerStep, FocusStep, HealStep DEF ViewersNext
<1>2. CASE (Program \/ Flush \/ Cancelled \/ Tick) /\ UNCHANGED viewerVars
  BY <1>2, SizeStep
<1>3. CASE UNCHANGED <<vars, viewerVars>>
  BY <1>3 DEF ViewersInv, ViewersTypes, AbsentWantNothing, HealIsFit, FocusIsCurrent, anyFocused, Attached,
     vars, clientVars, viewerVars
<1> QED
  BY <1>1, <1>2, <1>3

-----------------------------------------------------------------------------

(* Once every change of a focus has been derived, the program has been     *)
(* told, or is about to be, what holds now: in any order of the sockets'   *)
(* arrivals, departures and focus events and of the program's own DEC 1004 *)
(* (focusReportLocked, reportFocus).                                       *)
THEOREM FocusToldIsCurrent == ViewersSpec => []FocusIsCurrent
<1>1. ViewersInv => FocusIsCurrent
  BY DEF ViewersInv
<1> QED
  BY <1>1, ViewersStart, ViewersStep, PTL DEF ViewersSpec

(* After a heal every viewer who was there when it was computed, and has   *)
(* not changed its mind since, sees the whole screen, though the sizes are *)
(* read under one lock and applied under another (MinLiveSize, healSize).  *)
THEOREM HealsFit == ViewersSpec => HealFitsViewers
<1> DEFINE Fits == HealApplies => \A c \in Sized :
                wants[c] = healing.seen[c] =>
                    size'.cols <= wants[c].size.cols /\ size'.rows <= wants[c].size.rows
<1>1. ViewersInv => [Fits]_<<vars, viewerVars>>
  BY DEF ViewersInv, HealIsFit, HealApplies, Sized, Attached
<1> QED
  BY <1>1, ViewersStart, ViewersStep, PTL DEF ViewersSpec, HealFitsViewers

=============================================================================
