------------------------ MODULE SessionProcessProofs ------------------------
(***************************************************************************)
(* What ends with a session and what its exit tells, for any tree of       *)
(* processes, any number of kill rounds and any output: ProcessInv is      *)
(* inductive.  That everything does end is liveness and stays with TLC.    *)
(***************************************************************************)
EXTENDS SessionProcess, TLAPS

ProcessTypes ==
    /\ contained \in BOOLEAN /\ closing \in BOOLEAN /\ cancelled \in BOOLEAN /\ ptyClosed \in BOOLEAN
    /\ procExit \in BOOLEAN /\ cutShort \in BOOLEAN /\ gaveUp \in BOOLEAN
    /\ state \in [Pids -> {"unborn", "live", "dying", "zombie", "gone"}] /\ kind \in [Pids -> Kin]
    /\ starting \in {"no", "forked", "done"} /\ done \in {"none", "open", "closed"}
    /\ running \subseteq {"reader", "flush", "monitor", "sampler"}
    /\ owned \subseteq {Head} /\ slipped \subseteq Kids
    /\ unread \in Nat /\ wrote \in Nat /\ shown \in Nat /\ shown + unread = wrote

\* Where the monitor stands, from each point on.
Ended == {"scan", "classify", "end"}
Exited == {"cancel", "closePTY"} \cup Ended
TornDown == {"callback"} \cup Exited
Recorded == {"settle", "killAll"} \cup TornDown
Drained == {"record"} \cup Recorded

\* Before the last goroutine has started there is only the head, if that.
Beginning ==
    /\ kind[Head] = "plain"
    /\ starting # "done" =>
        /\ running = {} /\ done = "none" /\ monitor = "wait" /\ owned = {} /\ state[Head] # "gone"
        /\ \A k \in Kids : state[k] = "unborn"
    /\ starting = "no" => state[Head] = "unborn"
    /\ starting = "forked" => ~closing
    /\ starting = "done" => done # "none"
    /\ done = "closed" => running = {}
    /\ starting = "done" /\ "monitor" \notin running => monitor = "end"

\* The head's status is the monitor's to collect, and becomes the exit.
StatusIsKept ==
    /\ monitor \in {"wait", "forget", "drain"} \cup Drained
    /\ monitor = "wait" => state[Head] # "gone" /\ (starting = "done" => owned = {Head})
    /\ monitor # "wait" => state[Head] = "gone" /\ werr = status
    /\ monitor \in Recorded => exitErr = status
    /\ procExit <=> monitor \in Exited

\* The reader leaves the output unread only for a Close or after the exit.
OutputIsRead ==
    /\ cancelled \/ ptyClosed => closing \/ procExit
    /\ starting = "done" /\ "reader" \notin running /\ ~closing /\ ~procExit =>
        unread = 0 /\ state[Head] \notin {"live", "dying"}
    /\ monitor \in Drained /\ ~closing /\ ~cutShort => unread = 0

\* The cgroup leaves nobody to run; the scan of a reap in its two halves.
TreeIsDown ==
    /\ contained /\ monitor \in TornDown => \A p \in Pids : state[p] # "live"
    /\ monitor = "classify" => \A p \in Alive : p \in listed \/ p \in slipped
    /\ monitor = "end" /\ ~gaveUp => \A k \in Alive \cap Marked : k \in slipped

CallerHasClosed ==
    /\ caller # "away" => closing
    /\ caller = "returned" => starting = "no" \/ done = "closed"

ProcessInv == ProcessTypes /\ Beginning /\ StatusIsKept /\ OutputIsRead /\ TreeIsDown /\ CallerHasClosed

LEMMA ProcessStart == Init => ProcessInv
<1> SUFFICES ASSUME Init PROVE ProcessInv
  OBVIOUS
<1> USE ProcessAssumption DEF Init, Ended, Exited, TornDown, Recorded, Drained
<1>1. ProcessTypes
  <2>1. state \in [Pids -> {"unborn", "live", "dying", "zombie", "gone"}] /\ kind \in [Pids -> Kin]
    BY DEF Kin
  <2>2. unread \in Nat /\ wrote \in Nat /\ shown \in Nat /\ shown + unread = wrote
    OBVIOUS
  <2> QED
    BY <2>1, <2>2 DEF ProcessTypes
<1>2. Beginning /\ StatusIsKept
  BY DEF Beginning, StatusIsKept, Pids
<1>3. OutputIsRead /\ TreeIsDown /\ CallerHasClosed
  BY DEF OutputIsRead, TreeIsDown, CallerHasClosed
<1> QED
  BY <1>1, <1>2, <1>3 DEF ProcessInv

-----------------------------------------------------------------------------
(* The steps, by who takes them.                                             *)

\* Clients, the scheduler, the sampler and the zombie sweep: the sweep finds the
\* head owned whenever it is there to be collected.
LEMMA BystanderStep ==
    ASSUME ProcessInv,
           \/ flushLoop \/ costSampleLoop \/ Attach \/ closeOnProcExit
           \/ findOrphanZombies \/ reapIfUnowned \/ UNCHANGED vars
    PROVE  ProcessInv'
<1>1. UNCHANGED <<kind, status, startVars, closeVars, done, outputVars, monitor, exitVars, reapVars, caller>>
  BY DEF flushLoop, costSampleLoop, Attach, closeOnProcExit, findOrphanZombies, reapIfUnowned, vars, procVars
<1>2. /\ running' \subseteq running
      /\ "monitor" \in running => "monitor" \in running'
      /\ "reader" \in running => "reader" \in running'
  BY DEF flushLoop, costSampleLoop, Attach, closeOnProcExit, findOrphanZombies, reapIfUnowned, Leaves, vars
<1>3. state' = state
  <2>1. CASE reapIfUnowned
    <3>1. state[Head] = "zombie" => Head \in owned
      BY <2>1 DEF ProcessInv, ProcessTypes, Beginning, StatusIsKept, reapIfUnowned, SpawnLockFree
    <3> QED
      BY <2>1, <3>1 DEF reapIfUnowned
  <2>2. CASE ~reapIfUnowned
    BY <2>2 DEF flushLoop, costSampleLoop, Attach, closeOnProcExit, findOrphanZombies, procVars, vars
  <2> QED
    BY <2>1, <2>2
<1>4. ProcessTypes' /\ CallerHasClosed'
  BY <1>1, <1>2, <1>3 DEF ProcessInv, ProcessTypes, CallerHasClosed, startVars, closeVars, outputVars, exitVars, reapVars
<1>5. Beginning' /\ StatusIsKept'
  BY <1>1, <1>2, <1>3 DEF ProcessInv, ProcessTypes, Beginning, StatusIsKept, startVars, closeVars, outputVars, exitVars, reapVars
<1>6. OutputIsRead' /\ TreeIsDown'
  BY <1>1, <1>2, <1>3 DEF ProcessInv, OutputIsRead, TreeIsDown, Alive, Marked, startVars, closeVars, outputVars, exitVars, reapVars
<1> QED
  BY <1>4, <1>5, <1>6 DEF ProcessInv

\* The processes: an ended head writes no more, and a child born behind a scan's
\* back has slipped, as have its children.
LEMMA TreeStep ==
    ASSUME ProcessInv,
           \/ Output \/ \E p \in Pids : Ends(p)
           \/ \E p \in Pids, k \in Kids, as \in Kin : Fork(p, k, as)
    PROVE  ProcessInv'
<1>1. UNCHANGED <<startVars, closeVars, running, done, reader, shown, monitor, exitVars, caller>>
  BY DEF Output, Ends, Fork, outputVars
<1>2. CASE Output
  <2>1. state[Head] = "live" /\ wrote' = wrote + 1 /\ unread' = unread + 1
        /\ UNCHANGED <<procVars, reapVars>> /\ ~ptyClosed
    BY <1>2 DEF Output
  <2>2. ProcessTypes' /\ Beginning' /\ StatusIsKept'
    BY <1>1, <2>1 DEF ProcessInv, ProcessTypes, Beginning, StatusIsKept, startVars, closeVars, exitVars, reapVars, procVars
  <2>3. monitor = "wait"
    BY <2>1 DEF ProcessInv, StatusIsKept
  <2>4. OutputIsRead'
    BY <1>1, <2>1, <2>3 DEF ProcessInv, OutputIsRead, Drained, Recorded, TornDown, Exited, Ended, startVars, closeVars,
       exitVars, procVars
  <2>5. TreeIsDown' /\ CallerHasClosed'
    BY <1>1, <2>1 DEF ProcessInv, TreeIsDown, CallerHasClosed, Alive, Marked, startVars, closeVars, exitVars, reapVars, procVars
  <2> QED
    BY <2>2, <2>4, <2>5 DEF ProcessInv
<1>3. ASSUME NEW p \in Pids, Ends(p) PROVE ProcessInv'
  <2>1. /\ p \in Alive /\ UNCHANGED <<kind, unread, wrote, reapVars>>
        /\ \A q \in Pids : q # p => state'[q] = state[q]
        /\ state'[p] \in {"zombie", "gone"} /\ (p = Head => state'[p] = "zombie")
        /\ state' \in [Pids -> {"unborn", "live", "dying", "zombie", "gone"}]
        /\ p # Head => status' = status
    BY <1>3 DEF ProcessInv, ProcessTypes, Ends, Alive, outputVars
  <2>2. ProcessTypes' /\ CallerHasClosed'
    BY <1>1, <2>1 DEF ProcessInv, ProcessTypes, CallerHasClosed, startVars, closeVars, exitVars, reapVars
  <2>3. Beginning'
    <3>1. starting # "done" => p = Head
      BY <2>1 DEF ProcessInv, Beginning, Alive, Pids
    <3>2. starting # "done" => \A k \in Kids : state'[k] = state[k]
      BY <2>1, <3>1, ProcessAssumption DEF Pids
    <3>3. starting = "no" => state[Head] = "unborn"
      BY DEF ProcessInv, Beginning
    <3>4. starting # "no"
      BY <2>1, <3>1, <3>3 DEF Alive
    <3>5. starting # "done" => state'[Head] # "gone"
      BY <2>1, <3>1
    <3> QED
      BY <1>1, <2>1, <3>2, <3>4, <3>5 DEF ProcessInv, Beginning, startVars, closeVars
  <2>6. StatusIsKept'
    <3>1. p = Head => monitor = "wait"
      BY <2>1 DEF ProcessInv, StatusIsKept, Alive
    <3>2. state'[Head] # state[Head] => p = Head
      BY <2>1 DEF Pids
    <3> QED
      BY <1>1, <2>1, <3>1, <3>2 DEF ProcessInv, StatusIsKept, Drained, Recorded, TornDown, Exited, Ended, startVars, exitVars
  <2>4. OutputIsRead'
    BY <1>1, <2>1 DEF ProcessInv, OutputIsRead, Alive, Pids, startVars, closeVars, exitVars
  <2>5. TreeIsDown'
    <3>1. Alive' \subseteq Alive
      BY <2>1 DEF Alive
    <3> QED
      BY <1>1, <2>1, <3>1 DEF ProcessInv, TreeIsDown, Alive, Marked, startVars, closeVars, exitVars, reapVars
  <2> QED
    BY <2>2, <2>3, <2>4, <2>5, <2>6 DEF ProcessInv
<1>4. ASSUME NEW p \in Pids, NEW k \in Kids, NEW as \in Kin, Fork(p, k, as) PROVE ProcessInv'
  <2>1. /\ state[p] = "live" /\ state[k] = "unborn" /\ starting = "done" /\ k # Head
        /\ state' = [state EXCEPT ![k] = "live"] /\ kind' = [kind EXCEPT ![k] = as]
        /\ slipped' = IF monitor = "classify" \/ p \in slipped THEN slipped \cup {k} ELSE slipped
        /\ UNCHANGED <<status, unread, wrote, listed, gaveUp>>
        /\ kind[p] = "stray" => as = "stray"
    BY <1>4, ProcessAssumption DEF Fork, outputVars
  <2>2. ProcessTypes' /\ CallerHasClosed'
    BY <1>1, <2>1 DEF ProcessInv, ProcessTypes, CallerHasClosed, Pids, startVars, closeVars, exitVars
  <2>3. Beginning' /\ StatusIsKept' /\ OutputIsRead'
    <3>1. state'[Head] = state[Head] /\ kind'[Head] = kind[Head]
      BY <2>1 DEF ProcessInv, ProcessTypes, Pids
    <3> QED
      BY <1>1, <2>1, <3>1 DEF ProcessInv, Beginning, StatusIsKept, OutputIsRead, startVars, closeVars, exitVars
  <2>4. TreeIsDown'
    <3>1. Alive' = Alive \cup {k} /\ p \in Alive /\ k \notin Alive
      BY <2>1 DEF ProcessInv, ProcessTypes, Alive, Pids
    <3>2. \A q \in Alive : q \in Marked' <=> q \in Marked
      BY <2>1, <3>1 DEF ProcessInv, ProcessTypes, Marked, Alive
    <3>3. k \in Marked' => p \in Marked
      BY <2>1 DEF ProcessInv, ProcessTypes, Marked, Pids
    <3>4. contained => monitor \notin TornDown
      BY <2>1 DEF ProcessInv, TreeIsDown
    <3> QED
      BY <1>1, <2>1, <3>1, <3>2, <3>3, <3>4 DEF ProcessInv, TreeIsDown, startVars
  <2> QED
    BY <2>2, <2>3, <2>4 DEF ProcessInv
<1> QED
  BY <1>2, <1>3, <1>4
-----------------------------------------------------------------------------
(* The handler: its start, its close, its reader.                            *)

LEMMA StartStep ==
    ASSUME ProcessInv, startSessionPTY \/ ensureStarted
    PROVE  ProcessInv'
<1>1. CASE startSessionPTY
  <2> USE <1>1 DEF startSessionPTY
  <2>1. /\ \A k \in Kids : state[k] = "unborn" /\ state'[k] = "unborn"
        /\ state[Head] = "unborn" /\ state'[Head] = "live" /\ monitor = "wait"
        /\ state' \in [Pids -> {"unborn", "live", "dying", "zombie", "gone"}]
    BY ProcessAssumption DEF ProcessInv, ProcessTypes, Beginning, Pids
  <2>2. ProcessTypes' /\ CallerHasClosed'
    BY <2>1 DEF ProcessInv, ProcessTypes, CallerHasClosed, startVars, closeVars, outputVars, exitVars, reapVars
  <2>3. Beginning' /\ StatusIsKept' /\ OutputIsRead'
    BY <2>1 DEF ProcessInv, Beginning, StatusIsKept, OutputIsRead, startVars, closeVars, outputVars, exitVars
  <2>4. TreeIsDown'
    BY <2>1 DEF ProcessInv, TreeIsDown, TornDown, Exited, Ended
  <2> QED
    BY <2>2, <2>3, <2>4 DEF ProcessInv
<1>2. CASE ensureStarted
  <2> USE <1>2 DEF ensureStarted
  <2>1. monitor = "wait" /\ owned' = {Head} /\ UNCHANGED state
    BY DEF ProcessInv, Beginning, procVars
  <2>2. ProcessTypes'
    BY <2>1 DEF ProcessInv, ProcessTypes, procVars, closeVars, outputVars, exitVars, reapVars
  <2>3. Beginning' /\ StatusIsKept' /\ OutputIsRead'
    BY <2>1 DEF ProcessInv, Beginning, StatusIsKept, OutputIsRead, Drained, Recorded, TornDown, Exited, Ended, procVars, closeVars, outputVars, exitVars
  <2>4. TreeIsDown' /\ CallerHasClosed'
    BY <2>1 DEF ProcessInv, Beginning, TreeIsDown, TornDown, Exited, Ended, CallerHasClosed, Alive, Marked, procVars, closeVars, reapVars
  <2> QED
    BY <2>2, <2>3, <2>4 DEF ProcessInv
<1> QED
  BY <1>1, <1>2

\* A kill changes who is live, not who is there.
LEMMA KillKeepsAll ==
    ASSUME NEW pids, ProcessTypes, Kill(pids)
    PROVE  /\ state' \in [Pids -> {"unborn", "live", "dying", "zombie", "gone"}]
           /\ \A p \in Pids : state'[p] # state[p] => state[p] = "live" /\ state'[p] = "dying"
           /\ \A p \in Pids \cap pids : state'[p] # "live"
BY DEF Kill, ProcessTypes

LEMMA CloseStep ==
    ASSUME ProcessInv, CloseAlone \/ Shutdown
    PROVE  ProcessInv'
<1>1. /\ Close /\ UNCHANGED <<kind, status, startVars, running, done, outputVars, monitor, exitVars, reapVars>>
      /\ caller' \in {caller, "waiting"}
  BY DEF CloseAlone, Shutdown
<1>2. /\ state' \in [Pids -> {"unborn", "live", "dying", "zombie", "gone"}]
      /\ \A p \in Pids : state'[p] # state[p] => state[p] = "live" /\ state'[p] = "dying"
      /\ starting # "done" => state' = state
  <2>1. starting # "done" => Kill({})
    BY <1>1 DEF Close
  <2>2. starting # "done" => \A p \in Pids : state'[p] = state[p]
    BY <2>1 DEF ProcessInv, ProcessTypes, Kill
  <2>3. \E pids : Kill(pids)
    BY <1>1 DEF Close
  <2>4. /\ state' \in [Pids -> {"unborn", "live", "dying", "zombie", "gone"}]
        /\ \A p \in Pids : state'[p] # state[p] => state[p] = "live" /\ state'[p] = "dying"
    BY <2>3, KillKeepsAll DEF ProcessInv
  <2>5. starting # "done" => state' = state
    BY <2>2, <2>4 DEF ProcessInv, ProcessTypes
  <2> QED
    BY <2>4, <2>5
<1>3. closing' /\ starting # "forked" /\ cancelled' \in BOOLEAN /\ ptyClosed' \in BOOLEAN
  BY <1>1 DEF Close, LockFree
<1>4. ProcessTypes' /\ CallerHasClosed'
  BY <1>1, <1>2, <1>3 DEF ProcessInv, ProcessTypes, CallerHasClosed, startVars, outputVars, exitVars, reapVars
<1>5. Beginning'
  BY <1>1, <1>2, <1>3 DEF ProcessInv, Beginning, startVars
<1>6. StatusIsKept' /\ OutputIsRead'
  BY <1>1, <1>2, <1>3 DEF ProcessInv, StatusIsKept, OutputIsRead, Pids, startVars, outputVars, exitVars
<1>7. TreeIsDown'
  <2>1. Alive' \subseteq Alive
    BY <1>2 DEF Alive
  <2> QED
    BY <1>1, <1>2, <2>1 DEF ProcessInv, TreeIsDown, Marked, Alive, startVars, reapVars
<1> QED
  BY <1>4, <1>5, <1>6, <1>7 DEF ProcessInv

LEMMA CallerStep ==
    ASSUME ProcessInv, waitClosed \/ AllDone
    PROVE  ProcessInv'
<1>1. UNCHANGED <<procVars, startVars, closeVars, running, outputVars, monitor, exitVars, reapVars>>
  BY DEF waitClosed, AllDone
<1>2. /\ done' # done => done = "open" /\ done' = "closed" /\ running = {}
      /\ caller' # caller => caller # "away"
      /\ done' \in {done, "closed"}
      /\ caller' = "returned" => caller = "returned" \/ done' \in {"none", "closed"}
      /\ done = "closed" => done' = "closed"
  BY DEF waitClosed, AllDone
<1>3. ProcessTypes' /\ Beginning'
  BY <1>1, <1>2 DEF ProcessInv, ProcessTypes, Beginning, procVars, startVars, closeVars, outputVars, exitVars, reapVars
<1>4. CallerHasClosed'
  <2>1. done' = "none" => starting # "done" /\ (closing => starting = "no")
    BY <1>2 DEF ProcessInv, ProcessTypes, Beginning
  <2> QED
    BY <1>1, <1>2, <2>1 DEF ProcessInv, CallerHasClosed, startVars, closeVars
<1>5. StatusIsKept' /\ OutputIsRead' /\ TreeIsDown'
  BY <1>1 DEF ProcessInv, StatusIsKept, OutputIsRead, TreeIsDown, Alive, Marked, procVars, startVars, closeVars, outputVars, exitVars, reapVars
<1> QED
  BY <1>3, <1>4, <1>5 DEF ProcessInv

\* The reader leaves for the context, for the closed master, or when nothing is
\* left to read and nobody to write it.
LEMMA ReaderStep ==
    ASSUME ProcessInv, readLoop
    PROVE  ProcessInv'
<1>1. UNCHANGED <<procVars, startVars, closeVars, done, monitor, exitVars, reapVars, caller>>
  BY DEF readLoop
<1>2. /\ unread' \in Nat /\ wrote' = wrote /\ shown' \in Nat /\ shown' + unread' = wrote'
      /\ unread = 0 => unread' = 0
      /\ running' \in {running, running \ {"reader"}} /\ "reader" \in running
      /\ running' # running => unread' = unread
  BY DEF ProcessInv, ProcessTypes, readLoop, Leaves, outputVars
<1>3. /\ "reader" \notin running' =>
             \/ cancelled \/ ptyClosed
             \/ unread' = 0 /\ ~HoldsTerminal
  BY DEF readLoop, Leaves, outputVars
<1>4. ProcessTypes' /\ Beginning' /\ StatusIsKept' /\ TreeIsDown' /\ CallerHasClosed'
  <2>1. ProcessTypes'
    BY <1>1, <1>2 DEF ProcessInv, ProcessTypes, procVars, startVars, closeVars, exitVars, reapVars
  <2>2. Beginning'
    BY <1>1, <1>2 DEF ProcessInv, Beginning, procVars, startVars, closeVars
  <2>3. StatusIsKept' /\ TreeIsDown' /\ CallerHasClosed'
    BY <1>1 DEF ProcessInv, StatusIsKept, TreeIsDown, CallerHasClosed, Alive, Marked, procVars, startVars, closeVars, exitVars, reapVars
  <2> QED
    BY <2>1, <2>2, <2>3
<1>5. OutputIsRead'
  <2>1. ~HoldsTerminal => state[Head] \notin {"live", "dying"}
    BY DEF ProcessInv, Beginning, HoldsTerminal, Alive, Pids
  <2>2. monitor \in Drained /\ ~closing /\ ~cutShort => unread' = 0
    BY <1>2 DEF ProcessInv, OutputIsRead
  <2> QED
    BY <1>1, <1>2, <1>3, <2>1, <2>2 DEF ProcessInv, OutputIsRead, procVars, startVars, closeVars, exitVars
<1> QED
  BY <1>4, <1>5 DEF ProcessInv

-----------------------------------------------------------------------------
(* The monitor.  It runs only once the start is over.                        *)

LEMMA MonitorStands ==
    ASSUME ProcessInv, NEW where, NEW next, At(where, next)
    PROVE  starting = "done" /\ "monitor" \in running /\ monitor = where /\ monitor' = next
BY DEF ProcessInv, Beginning, At

\* Up to the record of the exit.
LEMMA WaitStep ==
    ASSUME ProcessInv, cmdWait \/ spawnForget \/ awaitReadDrain \/ setExitError
    PROVE  ProcessInv'
<1>1. UNCHANGED <<kind, status, closeVars, contained, starting, running, done, outputVars, reapVars, caller, procExit>>
  BY DEF cmdWait, spawnForget, awaitReadDrain, setExitError, BeforeExit, procVars, exitVars
<1>2. starting = "done" /\ "monitor" \in running /\ ~procExit /\ ~procExit'
  BY <1>1 DEF ProcessInv, Beginning, StatusIsKept, Exited, Ended, cmdWait, spawnForget, awaitReadDrain, setExitError, At
<1> USE DEF Drained, Recorded, TornDown, Exited, Ended
<1>3. CASE cmdWait
  <2>1. /\ monitor = "wait" /\ monitor' = "forget" /\ state[Head] = "zombie" /\ werr' = status
        /\ state' = [state EXCEPT ![Head] = "gone"] /\ UNCHANGED <<owned, exitErr, cutShort>>
    BY <1>3 DEF ProcessInv, StatusIsKept, cmdWait, At
  <2>2. /\ state' \in [Pids -> {"unborn", "live", "dying", "zombie", "gone"}] /\ state'[Head] = "gone"
        /\ Alive' = Alive
    BY <2>1 DEF ProcessInv, ProcessTypes, Alive, Pids
  <2>3. ProcessTypes' /\ Beginning' /\ StatusIsKept'
    BY <1>1, <1>2, <2>1, <2>2 DEF ProcessInv, ProcessTypes, Beginning, StatusIsKept, closeVars, outputVars, reapVars
  <2>4. OutputIsRead' /\ TreeIsDown' /\ CallerHasClosed'
    BY <1>1, <1>2, <2>1, <2>2 DEF ProcessInv, OutputIsRead, TreeIsDown, CallerHasClosed, closeVars, outputVars
  <2> QED
    BY <2>3, <2>4 DEF ProcessInv
<1>4. CASE spawnForget \/ awaitReadDrain \/ setExitError
  <2>1. /\ UNCHANGED <<state, werr>> /\ owned' \subseteq owned /\ cutShort' \in BOOLEAN
        /\ \/ monitor = "forget" /\ monitor' = "drain" /\ UNCHANGED <<cutShort, exitErr>>
           \/ monitor = "drain" /\ monitor' = "record" /\ cutShort' = ("reader" \in running) /\ UNCHANGED exitErr
           \/ /\ monitor = "record" /\ monitor' \in {"settle", "callback"} /\ (monitor' = "callback" => ~contained)
              /\ exitErr' = werr /\ UNCHANGED cutShort
    <3>1. CASE spawnForget
      BY <3>1 DEF ProcessInv, ProcessTypes, spawnForget, At, procVars, exitVars
    <3>2. CASE awaitReadDrain
      BY <3>2 DEF ProcessInv, ProcessTypes, awaitReadDrain, At, procVars, exitVars
    <3>3. CASE setExitError
      BY <3>3 DEF ProcessInv, ProcessTypes, setExitError, At, procVars, exitVars
    <3> QED
      BY <1>4, <3>1, <3>2, <3>3
  <2>2. ProcessTypes' /\ Beginning'
    BY <1>1, <1>2, <2>1 DEF ProcessInv, ProcessTypes, Beginning, closeVars, outputVars, reapVars
  <2>3. StatusIsKept'
    BY <1>1, <1>2, <2>1 DEF ProcessInv, StatusIsKept
  <2>4. OutputIsRead'
    BY <1>1, <1>2, <2>1 DEF ProcessInv, OutputIsRead, closeVars, outputVars
  <2>5. TreeIsDown' /\ CallerHasClosed'
    BY <1>1, <1>2, <2>1 DEF ProcessInv, TreeIsDown, CallerHasClosed, closeVars
  <2> QED
    BY <2>2, <2>3, <2>4, <2>5 DEF ProcessInv
<1> QED
  BY <1>3, <1>4

\* From the record to the broadcast, with the cgroup's teardown.
LEMMA BroadcastStep ==
    ASSUME ProcessInv, waitDrained \/ killAll \/ closeProcExit
    PROVE  ProcessInv'
<1> USE DEF Drained, Recorded, TornDown, Exited, Ended
<1>1. /\ UNCHANGED <<kind, status, closeVars, startVars, running, done, outputVars, reapVars, caller, werr, exitErr, cutShort>>
      /\ starting = "done" /\ "monitor" \in running
      /\ \/ monitor = "settle" /\ monitor' \in {"callback", "killAll"} /\ UNCHANGED <<state, procExit>>
            /\ (monitor' = "callback" => Alive = {})
         \/ monitor = "killAll" /\ monitor' = "callback" /\ Kill(Pids) /\ UNCHANGED procExit
         \/ monitor = "callback" /\ monitor' = "cancel" /\ procExit' = TRUE /\ UNCHANGED state
  BY DEF ProcessInv, Beginning, waitDrained, killAll, closeProcExit, At, BeforeExit, procVars, exitVars, startVars
<1>2. /\ state' \in [Pids -> {"unborn", "live", "dying", "zombie", "gone"}]
      /\ \A p \in Pids : state'[p] # state[p] => state[p] = "live" /\ state'[p] = "dying"
      /\ monitor' = "callback" => \A p \in Pids : state'[p] # "live"
  BY <1>1, KillKeepsAll DEF ProcessInv, ProcessTypes, Alive
<1>3. state'[Head] = state[Head] /\ state[Head] = "gone"
  BY <1>1, <1>2 DEF ProcessInv, StatusIsKept, Pids
<1>4. ProcessTypes' /\ Beginning'
  BY <1>1, <1>2, <1>3 DEF ProcessInv, ProcessTypes, Beginning, closeVars, startVars, outputVars, reapVars
<1>5. StatusIsKept'
  BY <1>1, <1>3 DEF ProcessInv, StatusIsKept, startVars
<1>6. OutputIsRead' /\ CallerHasClosed'
  BY <1>1, <1>3 DEF ProcessInv, OutputIsRead, CallerHasClosed, closeVars, startVars, outputVars
<1>7. TreeIsDown'
  BY <1>1, <1>2 DEF ProcessInv, TreeIsDown, startVars
<1> QED
  BY <1>4, <1>5, <1>6, <1>7 DEF ProcessInv

\* After the broadcast: the context, the master, the reap.
LEMMA TeardownStep ==
    ASSUME ProcessInv,
           \/ cancelAtExit \/ closePTYLocked \/ ListPids \/ waitGone \/ killUntilGone
           \/ GiveUp \/ NobodyLeft \/ MonitorEnds
    PROVE  ProcessInv'
<1> USE DEF Drained, Recorded, TornDown, Exited, Ended
<1>1. /\ UNCHANGED <<kind, status, startVars, done, outputVars, exitVars, caller, closing>>
      /\ cancelled' \in BOOLEAN /\ ptyClosed' \in BOOLEAN /\ gaveUp' \in BOOLEAN /\ slipped' \subseteq Kids
      /\ starting = "done" /\ "monitor" \in running /\ monitor \in Exited /\ monitor' \in Exited
  BY DEF ProcessInv, ProcessTypes, Beginning, cancelAtExit, closePTYLocked, ListPids, waitGone, killUntilGone, GiveUp,
     NobodyLeft, MonitorEnds, At, AfterExit, procVars, closeVars, reapVars
<1>2. /\ running' = running \/ (running' = running \ {"monitor"} /\ monitor' = "end")
  BY DEF cancelAtExit, closePTYLocked, ListPids, waitGone, killUntilGone, GiveUp, NobodyLeft, MonitorEnds, At, Leaves
<1>3. UNCHANGED state \/ Kill(Members)
  BY DEF cancelAtExit, closePTYLocked, ListPids, waitGone, killUntilGone, GiveUp, NobodyLeft, MonitorEnds, procVars
<1>4. /\ state' \in [Pids -> {"unborn", "live", "dying", "zombie", "gone"}]
      /\ \A p \in Pids : state'[p] # state[p] => state[p] = "live" /\ state'[p] = "dying"
  BY <1>3, KillKeepsAll DEF ProcessInv, ProcessTypes
<1>5. state'[Head] = "gone" /\ state[Head] = "gone" /\ procExit /\ procExit'
  BY <1>1, <1>4 DEF ProcessInv, StatusIsKept, Pids, exitVars
<1>6. ProcessTypes' /\ Beginning'
  BY <1>1, <1>2, <1>4, <1>5 DEF ProcessInv, ProcessTypes, Beginning, startVars, outputVars, exitVars
<1>7. StatusIsKept' /\ OutputIsRead' /\ CallerHasClosed'
  BY <1>1, <1>2, <1>5 DEF ProcessInv, StatusIsKept, OutputIsRead, CallerHasClosed, startVars, outputVars, exitVars
<1>8. TreeIsDown'
  <2>1. Alive' = Alive
    BY <1>4 DEF Alive
  <2>2. contained' => \A p \in Pids : state'[p] # "live"
    BY <1>1, <1>4 DEF ProcessInv, TreeIsDown, startVars
  <2>3. monitor' = "classify" => \A p \in Alive : p \in listed' \/ p \in slipped'
    BY DEF cancelAtExit, closePTYLocked, ListPids, waitGone, killUntilGone, GiveUp, NobodyLeft, MonitorEnds, At
  <2>4. monitor' = "end" /\ ~gaveUp' => \A k \in Alive \cap Marked : k \in slipped'
    <3>1. CASE NobodyLeft
      BY <3>1 DEF ProcessInv, TreeIsDown, NobodyLeft, Members, At, reapVars
    <3>2. CASE MonitorEnds
      BY <3>2 DEF ProcessInv, TreeIsDown, MonitorEnds, At, reapVars
    <3> QED
      BY <3>1, <3>2 DEF cancelAtExit, closePTYLocked, ListPids, waitGone, killUntilGone, GiveUp, At
  <2>5. Marked' = Marked
    BY <1>1 DEF Marked
  <2> QED
    BY <2>1, <2>2, <2>3, <2>4, <2>5 DEF TreeIsDown
<1> QED
  BY <1>6, <1>7, <1>8 DEF ProcessInv

LEMMA ProcessStep == ProcessInv /\ [Next]_vars => ProcessInv'
BY BystanderStep, TreeStep, StartStep, CloseStep, CallerStep, ReaderStep, WaitStep, BroadcastStep, TeardownStep
   DEF Next, Processes, Monitor

LEMMA ProcessInvHolds == Spec => []ProcessInv
BY ProcessStart, ProcessStep, PTL DEF Spec

\* What terminal.go:601 says of a Shutdown that returned nil, for every tree: the
\* session runs nothing any more, its cgroup nobody, and who carries the marker
\* and lives was missed by the last scan or outlasted the kill rounds.
THEOREM ShutdownLeavesNothing == Spec => []NothingOutlives
<1>1. ProcessInv => NothingOutlives
  <2> SUFFICES ASSUME ProcessInv, caller = "returned" PROVE NothingOutlives
    BY DEF NothingOutlives
  <2>1. CASE starting = "no"
    BY <2>1, ProcessAssumption DEF ProcessInv, Beginning, NothingOutlives, Alive, Pids
  <2>2. CASE starting # "no"
    <3>1. done = "closed" /\ running = {} /\ starting = "done" /\ monitor = "end"
      BY <2>2 DEF ProcessInv, Beginning, CallerHasClosed
    <3>2. state[Head] = "gone"
      BY <3>1 DEF ProcessInv, StatusIsKept
    <3>3. /\ contained => \A k \in Kids : state[k] # "live"
          /\ ~gaveUp => \A k \in Alive \cap Marked : k \in slipped
      BY <3>1 DEF ProcessInv, TreeIsDown, TornDown, Exited, Ended, Pids
    <3>4. \A k \in Kids \cap Marked : state[k] = "live" => k \in Alive \cap Marked
      BY DEF Alive, Pids
    <3> QED
      BY <3>1, <3>2, <3>3, <3>4 DEF NothingOutlives, Alive
  <2> QED
    BY <2>1, <2>2
<1> QED
  BY <1>1, ProcessInvHolds, PTL

\* What terminal.go:965 orders: whoever sees the session exited finds the status
\* of its head, collected by nobody else, and all its output on the screen unless
\* a Close or the drain's bound cut it.
THEOREM ExitTellsAll == Spec => []ExitIsWhole
<1>1. ProcessInv => ExitIsWhole
  BY DEF ProcessInv, ProcessTypes, StatusIsKept, OutputIsRead, ExitIsWhole, Drained, Recorded, TornDown, Exited, Ended
<1> QED
  BY <1>1, ProcessInvHolds, PTL
=============================================================================
