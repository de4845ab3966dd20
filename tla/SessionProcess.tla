---------------------------- MODULE SessionProcess ----------------------------
(***************************************************************************)
(* The process of one session: ensureStarted forks it and starts the       *)
(* goroutines that serve it, the monitor waits for it and tears down what  *)
(* it leaves behind (terminal.go:572-1110, containment_linux.go, reap.go), *)
(* and the zombie sweep collects statuses beside them (zombiereap.go).     *)
(*                                                                         *)
(* The tree is Head and the Kids it may fork, of three kinds: a plain one  *)
(* keeps the terminal open, a daemon has left it, a stray has shed the reap *)
(* marker too.  A process that was sent SIGKILL is dying until it exits;   *)
(* SIGTERM and SIGHUP only suggest what a process may do anyway.  Every    *)
(* bounded wait may run out, and pids are not used twice.                  *)
(***************************************************************************)
EXTENDS Integers

CONSTANTS
    Head, Kids,    \* pids
    KillRounds,    \* reapKillRounds
    MaxOutput      \* bound: chunks of output of a behavior

ASSUME ProcessAssumption ==
    Head \notin Kids /\ KillRounds \in Nat \ {0} /\ MaxOutput \in Nat

VARIABLES
    contained, \* the session has a cgroup
    state, kind, \* the processes
    status,    \* how the head ended, as the kernel knows it
    starting,  \* ensureStarted: "no", "forked" (the handler's lock is held), "done"
    closing, cancelled, ptyClosed, \* shutdownRequested, the context, the PTY master
    owned, found, \* spawnRegistry, and whether the sweep's list names the head
    running, done, \* h.wg and h.done
    reader,    \* where readLoop stands: at its check or in its read
    unread, wrote, shown, \* output in the PTY, in all, on the screen
    monitor, werr, exitErr, procExit, \* the monitor and what it publishes
    listed, rounds, slipped, \* its reap scan; history: who was born while one was read
    cutShort, gaveUp, \* history: the drain, the reap ran out of their bounds
    caller,    \* of Shutdown
    socket     \* of a client

procVars == <<state, kind, status>>
startVars == <<contained, starting, owned>>
closeVars == <<closing, cancelled, ptyClosed>>
outputVars == <<reader, unread, wrote, shown>>
exitVars == <<werr, exitErr, procExit, cutShort>>
reapVars == <<listed, rounds, slipped, gaveUp>>
vars == <<procVars, startVars, closeVars, found, running, done, outputVars, monitor, exitVars,
          reapVars, caller, socket>>

Pids == {Head} \cup Kids
Alive == {p \in Pids : state[p] \in {"live", "dying"}}
Marked == {p \in Pids : kind[p] # "stray"}
Kin == {"plain", "daemon", "stray"}
HoldsTerminal == \E p \in Alive : kind[p] = "plain"

Init ==
    /\ contained \in BOOLEAN
    /\ state = [p \in Pids |-> "unborn"] /\ kind = [p \in Pids |-> "plain"] /\ status = "none"
    /\ starting = "no" /\ closing = FALSE /\ cancelled = FALSE /\ ptyClosed = FALSE
    /\ owned = {} /\ found = FALSE /\ running = {} /\ done = "none"
    /\ reader = "check" /\ unread = 0 /\ wrote = 0 /\ shown = 0
    /\ monitor = "wait" /\ werr = "none" /\ exitErr = "none" /\ procExit = FALSE
    /\ listed = {} /\ rounds = 0 /\ slipped = {} /\ cutShort = FALSE /\ gaveUp = FALSE
    /\ caller = "away" /\ socket = "open"

-----------------------------------------------------------------------------
(* The processes.                                                          *)

Output ==
    /\ state[Head] = "live" /\ ~ptyClosed /\ wrote < MaxOutput
    /\ wrote' = wrote + 1 /\ unread' = unread + 1
    /\ UNCHANGED <<procVars, startVars, closeVars, found, running, done, reader, shown, monitor,
                   exitVars, reapVars, caller, socket>>
\* A child starts as its parent is, or sheds the terminal or the marker as well.
Fork(p, k, as) ==
    /\ state[p] = "live" /\ state[k] = "unborn" /\ starting = "done"
    /\ kind[p] = "stray" => as = "stray"
    /\ kind[p] = "daemon" => as # "plain"
    /\ state' = [state EXCEPT ![k] = "live"] /\ kind' = [kind EXCEPT ![k] = as]
    /\ slipped' = IF monitor = "classify" \/ p \in slipped THEN slipped \cup {k} ELSE slipped
    /\ UNCHANGED <<status, startVars, closeVars, found, running, done, outputVars, monitor,
                   exitVars, listed, rounds, gaveUp, caller, socket>>
Ends(p) ==
    /\ p \in Alive
    /\ IF p # Head THEN state' = [state EXCEPT ![p] = "gone"] /\ UNCHANGED status
       ELSE /\ state' = [state EXCEPT ![p] = "zombie"]
            /\ status' \in IF state[p] = "dying" THEN {"killed"} ELSE {"clean", "crash"}
    /\ UNCHANGED <<kind, startVars, closeVars, found, running, done, outputVars, monitor,
                   exitVars, reapVars, caller, socket>>
Dies(p) == state[p] = "dying" /\ Ends(p)

Kill(pids) == state' = [p \in Pids |-> IF p \in pids /\ state[p] = "live" THEN "dying" ELSE state[p]]

-----------------------------------------------------------------------------
(* Start and end.  The handler's lock is held from the fork to the last    *)
(* goroutine's start, the spawn lock from the fork to the registration.    *)

LockFree == starting # "forked"
SpawnLockFree == starting # "forked"

\* Mutant of startSessionPTY: a closed handler starts all the same.
startSessionPTYClosed ==
    /\ starting = "no"
    /\ starting' = "forked" /\ state' = [state EXCEPT ![Head] = "live"]
    /\ UNCHANGED <<kind, status, contained, owned, closeVars, found, running, done, outputVars,
                   monitor, exitVars, reapVars, caller, socket>>
startSessionPTY ==
    /\ starting = "no" /\ ~closing
    /\ starting' = "forked" /\ state' = [state EXCEPT ![Head] = "live"]
    /\ UNCHANGED <<kind, status, contained, owned, closeVars, found, running, done, outputVars,
                   monitor, exitVars, reapVars, caller, socket>>
ensureStarted ==
    /\ starting = "forked" /\ starting' = "done"
    /\ owned' = owned \cup {Head}
    /\ running' = {"reader", "flush", "monitor"} \cup (IF contained THEN {"sampler"} ELSE {})
    /\ done' = "open"
    /\ UNCHANGED <<procVars, contained, closeVars, found, outputVars, monitor, exitVars, reapVars,
                   caller, socket>>

\* Close: the latch, the SIGKILL of the cancelled context, the PTY master.
Close ==
    /\ LockFree /\ closing' = TRUE
    /\ cancelled' = (starting = "done") /\ ptyClosed' = (starting = "done")
    /\ Kill(IF starting = "done" THEN {Head} ELSE {})
CloseAlone ==
    /\ ~closing /\ Close
    /\ UNCHANGED <<kind, status, startVars, found, running, done, outputVars, monitor, exitVars,
                   reapVars, caller, socket>>
Shutdown ==
    /\ caller = "away" /\ Close /\ caller' = "waiting"
    /\ UNCHANGED <<kind, status, startVars, found, running, done, outputVars, monitor, exitVars,
                   reapVars, socket>>
waitClosed ==
    /\ caller = "waiting"
    /\ caller' \in (IF done \in {"none", "closed"} THEN {"returned"} ELSE {"expired"})
    /\ UNCHANGED <<procVars, startVars, closeVars, found, running, done, outputVars, monitor,
                   exitVars, reapVars, socket>>
AllDone ==
    /\ done = "open" /\ running = {} /\ done' = "closed"
    /\ UNCHANGED <<procVars, startVars, closeVars, found, running, outputVars, monitor, exitVars,
                   reapVars, caller, socket>>

-----------------------------------------------------------------------------
(* The other goroutines of the session, and of its clients.                *)

Leaves(g) == running' = running \ {g}

readLoop ==
    /\ "reader" \in running
    /\ \/ reader = "check" /\ cancelled /\ Leaves("reader") /\ UNCHANGED outputVars
       \/ reader = "check" /\ ~cancelled /\ reader' = "read" /\ UNCHANGED <<running, unread, wrote, shown>>
       \/ /\ reader = "read" /\ ~ptyClosed /\ unread > 0
          /\ unread' = unread - 1 /\ shown' = shown + 1 /\ reader' = "check"
          /\ UNCHANGED <<running, wrote>>
       \/ /\ reader = "read" /\ (ptyClosed \/ (unread = 0 /\ ~HoldsTerminal))
          /\ Leaves("reader") /\ UNCHANGED outputVars
    /\ UNCHANGED <<procVars, startVars, closeVars, found, done, monitor, exitVars, reapVars, caller, socket>>
flushLoop ==
    /\ cancelled /\ Leaves("flush") /\ "flush" \in running
    /\ UNCHANGED <<procVars, startVars, closeVars, found, done, outputVars, monitor, exitVars,
                   reapVars, caller, socket>>
costSampleLoop ==
    /\ "sampler" \in running /\ (cancelled \/ exitErr # "none") /\ Leaves("sampler")
    /\ UNCHANGED <<procVars, startVars, closeVars, found, done, outputVars, monitor, exitVars,
                   reapVars, caller, socket>>

\* A client attached at the exit is closed at once, a later one when it has been
\* replayed the final screen or its grace is over.
Attach ==
    /\ socket = "closed" /\ procExit /\ socket' = "replaying"
    /\ UNCHANGED <<procVars, startVars, closeVars, found, running, done, outputVars, monitor,
                   exitVars, reapVars, caller>>
closeOnProcExit ==
    /\ procExit /\ socket \in {"open", "replaying"}
    /\ socket' = IF socket = "open" THEN "closed" ELSE "told"
    /\ UNCHANGED <<procVars, startVars, closeVars, found, running, done, outputVars, monitor,
                   exitVars, reapVars, caller>>

\* The zombie sweep lists the zombies of this server without a lock, then waits
\* for each it does not own under the spawn lock.
findOrphanZombies ==
    /\ ~found /\ state[Head] = "zombie" /\ found' = TRUE
    /\ UNCHANGED <<procVars, startVars, closeVars, running, done, outputVars, monitor, exitVars,
                   reapVars, caller, socket>>
\* Mutant of reapIfUnowned: the spawn lock is not taken.
reapIfUnownedUnlocked ==
    /\ found /\ found' = FALSE
    /\ state' = IF state[Head] = "zombie" /\ Head \notin owned
                THEN [state EXCEPT ![Head] = "gone"] ELSE state
    /\ UNCHANGED <<kind, status, startVars, closeVars, running, done, outputVars, monitor,
                   exitVars, reapVars, caller, socket>>
reapIfUnowned ==
    /\ found /\ SpawnLockFree /\ found' = FALSE
    /\ state' = IF state[Head] = "zombie" /\ Head \notin owned
                THEN [state EXCEPT ![Head] = "gone"] ELSE state
    /\ UNCHANGED <<kind, status, startVars, closeVars, running, done, outputVars, monitor,
                   exitVars, reapVars, caller, socket>>

-----------------------------------------------------------------------------
(* The monitor, up to the broadcast of the exit.                           *)

At(where, next) == "monitor" \in running /\ monitor = where /\ monitor' = next
\* What the steps up to the broadcast, and those after it, leave alone.
BeforeExit == UNCHANGED <<closeVars, contained, starting, found, running, done, outputVars,
                          reapVars, caller, socket>>

cmdWait ==
    /\ state[Head] \in {"zombie", "gone"} /\ At("wait", "forget")
    /\ state' = [state EXCEPT ![Head] = "gone"]
    /\ werr' = IF state[Head] = "zombie" THEN status ELSE "lost"
    /\ UNCHANGED <<kind, status, owned, exitErr, procExit, cutShort>> /\ BeforeExit
spawnForget ==
    /\ At("forget", "drain") /\ SpawnLockFree /\ owned' = owned \ {Head}
    /\ UNCHANGED <<procVars, exitVars>> /\ BeforeExit
\* Until the reader is done, or its second is over.
awaitReadDrain ==
    /\ At("drain", "record")
    /\ cutShort' = ("reader" \in running)
    /\ UNCHANGED <<procVars, owned, werr, exitErr, procExit>> /\ BeforeExit
\* setExitError; the cost sampler is stopped with the next step.
setExitError ==
    /\ LockFree /\ At("record", IF contained THEN "settle" ELSE "callback")
    /\ exitErr' = werr
    /\ UNCHANGED <<procVars, owned, werr, procExit, cutShort>> /\ BeforeExit

\* sessionCgroup.teardown: a settle window, SIGTERM and another one, then the
\* kernel kills every member at once, forks included; a last window.
waitDrained ==
    /\ At("settle", IF Alive = {} THEN "callback" ELSE "killAll")
    /\ UNCHANGED <<procVars, owned, exitVars>> /\ BeforeExit
killAll ==
    /\ At("killAll", "callback") /\ Kill(Pids)
    /\ UNCHANGED <<kind, status, owned, exitVars>> /\ BeforeExit

\* onProcessExit, whose panic is recovered after the deferred steps.
closeProcExit ==
    /\ At("callback", "cancel") /\ procExit' = TRUE
    /\ UNCHANGED <<procVars, owned, werr, exitErr, cutShort>> /\ BeforeExit

AfterExit == UNCHANGED <<startVars, found, done, outputVars, exitVars, caller, socket>>
cancelAtExit ==
    /\ At("cancel", "closePTY") /\ cancelled' = TRUE
    /\ UNCHANGED <<procVars, closing, ptyClosed, running, reapVars>> /\ AfterExit
\* Mutant of closePTYLocked: the master is left to Close.
closePTYLockedNot ==
    /\ At("closePTY", "scan") /\ LockFree
    /\ UNCHANGED <<procVars, closeVars, running, reapVars>> /\ AfterExit
closePTYLocked ==
    /\ At("closePTY", "scan") /\ LockFree /\ ptyClosed' = TRUE
    /\ UNCHANGED <<procVars, closing, cancelled, running, reapVars>> /\ AfterExit

-----------------------------------------------------------------------------
(* sessionReap.teardown: scans of /proc for the marker.  rounds counts the *)
(* scans: one before the settle window, one after it, then one a round of  *)
(* SIGKILL and a last one.                                                 *)

LastScan == KillRounds + 3
\* The pids are listed first, ...
ListPids ==
    /\ At("scan", "classify") /\ listed' = Alive /\ rounds' = rounds + 1 /\ slipped' = {}
    /\ UNCHANGED <<procVars, closeVars, running, gaveUp>> /\ AfterExit
\* ... then read one by one: who is still there and carries the marker.
Members == listed \cap Alive \cap Marked

\* A round: SIGKILL to everyone found, a window, the next scan.
killUntilGone ==
    /\ rounds \in 3 .. LastScan - 1 /\ Members # {}
    /\ At("classify", "scan") /\ Kill(Members)
    /\ UNCHANGED <<kind, status, closeVars, running, reapVars>> /\ AfterExit
\* The first two scans only wait, the second sends SIGTERM before.
waitGone ==
    /\ rounds < 3 /\ Members # {} /\ At("classify", "scan")
    /\ UNCHANGED <<procVars, closeVars, running, reapVars>> /\ AfterExit
GiveUp ==
    /\ rounds = LastScan /\ Members # {} /\ At("classify", "end") /\ gaveUp' = TRUE
    /\ UNCHANGED <<procVars, closeVars, running, listed, rounds, slipped>> /\ AfterExit
NobodyLeft ==
    /\ Members = {} /\ At("classify", "end")
    /\ UNCHANGED <<procVars, closeVars, running, reapVars>> /\ AfterExit
MonitorEnds ==
    /\ At("end", "end") /\ Leaves("monitor")
    /\ UNCHANGED <<procVars, closeVars, reapVars>> /\ AfterExit

Monitor ==
    \/ cmdWait \/ spawnForget \/ awaitReadDrain \/ setExitError \/ waitDrained \/ killAll
    \/ closeProcExit \/ cancelAtExit \/ closePTYLocked
    \/ ListPids \/ waitGone \/ killUntilGone \/ GiveUp \/ NobodyLeft \/ MonitorEnds
Processes ==
    \/ Output \/ \E p \in Pids : Ends(p)
    \/ \E p \in Pids, k \in Kids, as \in Kin : Fork(p, k, as)
Next ==
    \/ Processes \/ Monitor
    \/ startSessionPTY \/ ensureStarted \/ CloseAlone \/ Shutdown \/ waitClosed \/ AllDone
    \/ readLoop \/ flushLoop \/ costSampleLoop \/ Attach \/ closeOnProcExit
    \/ findOrphanZombies \/ reapIfUnowned

Goroutines ==
    \/ ensureStarted \/ Monitor \/ AllDone \/ readLoop \/ flushLoop \/ costSampleLoop
    \/ closeOnProcExit \/ \E p \in Pids : Dies(p)

\* As long as some goroutine can go on, or a killed process die, one does.  None
\* of them can go on for ever; a program need not ever end.
Fairness == WF_vars(Goroutines)
Spec == Init /\ [][Next]_vars /\ Fairness

-----------------------------------------------------------------------------

\* When Shutdown has returned nil, no goroutine of the session runs or ever will
\* (terminal.go:601), its head is not alive, and nobody of its cgroup is left to
\* run.  Without a cgroup whoever still carries the marker was born while the last
\* scan was reading the list it had made, or of a tree the kill rounds could not end.
NothingOutlives ==
    caller = "returned" =>
        /\ running = {} /\ Head \notin Alive
        /\ \A k \in Kids \cap Marked : state[k] = "live" => ~contained /\ (gaveUp \/ k \in slipped)
        /\ contained => \A k \in Kids : state[k] # "live"

\* Whoever sees the session exited sees the status its head ended with, which no
\* sweep has collected in the monitor's place, and on the screen all it wrote:
\* unless Close cut it off or the reader overran the bound (terminal.go:965).
ExitIsWhole ==
    procExit =>
        /\ exitErr = status
        /\ ~closing /\ ~cutShort => shown = wrote

\* A closed session ends altogether, whatever of its tree holds the terminal open;
\* so does one whose head ended, and its clients learn it.
EverythingEnds ==
    (starting = "done" /\ (closing \/ status # "none")) ~> (done = "closed" /\ socket # "open")
=============================================================================
