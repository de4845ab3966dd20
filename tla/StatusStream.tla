----------------------------- MODULE StatusStream -----------------------------
(***************************************************************************)
(* The status stream of terminal/events.go: a sweep reads every session's  *)
(* handler without the manager's lock, derives a status, numbers its       *)
(* occurrences and broadcasts what changed to subscribers with bounded     *)
(* buffers, which first take a snapshot of what was committed.             *)
(*                                                                         *)
(* screen is the part of a vt.Screen the sweep reads; OSC 7501 is          *)
(* ProgramStatus.  label stands for the stored titles and the alias.       *)
(* Percentages, the automatic title and the secondary activity, which the  *)
(* sweep compares and copies like the label, are left out.                 *)
(***************************************************************************)
EXTENDS ProgramStatus, SequencesExt

CONSTANTS
    Sessions,     \* session ids, each minted at most once
    Subs,         \* subscribers, as many as maxSubscribers lets in
    Class,        \* what the classifier says of each notification text
    QueueCap      \* events a subscriber may lag behind (subscriberBuffer)

ASSUME StreamAssumption == QueueCap \in Nat \ {0}

VARIABLES
    live, order, label,   \* the sessions, under the manager's lock
    screen,     \* what each session's program has told its terminal
    exit,       \* how its process ended
    tr,         \* statusTracker of each session
    sweep,      \* the sweep under way: its phase, what it has still to read, what it read
    pending,    \* events of the finished sweep still to be broadcast
    stage, queue, view,   \* subscribers: connection, buffer, the page's copy
    before,     \* history: what the sweep before read of each session
    removed,    \* history: the sessions a sweep reported removed
    told        \* history: the notifications each subscriber was shown, by session

sessionVars == <<live, order, label>>
programVars == <<screen, exit>>
subVars == <<stage, queue, view, told>>
historyVars == <<before, removed>>
vars == <<sessionVars, programVars, tr, sweep, pending, subVars, historyVars>>

NoClass == "unclassified"
NewScreen == [progress |-> -1, notifSeq |-> 0, notif |-> NoClass, program |-> NoPrograms]
NoTracker == [known |-> FALSE]
NewTracker ==
    [known |-> TRUE, lastStatus |-> "", lastLabel |-> 0, lastOrder |-> 0, lastReports |-> FALSE,
     latched |-> "", latchSeq |-> 0, notifSeen |-> 0, notifDelivered |-> 0,
     programOccurrence |-> 0, statusSeq |-> 0, seenSeq |-> 0, lastSeenSeq |-> 0]
NoSweep == [phase |-> "resting", todo |-> {}, exits |-> {}, read |-> [s \in {} |-> NewScreen]]

Init ==
    /\ live = {} /\ order = <<>> /\ label = [s \in Sessions |-> 0]
    /\ screen = [s \in Sessions |-> NewScreen] /\ exit = [s \in Sessions |-> "unborn"]
    /\ tr = [s \in Sessions |-> NoTracker] /\ sweep = NoSweep /\ pending = <<>>
    /\ stage = [c \in Subs |-> "away"] /\ queue = [c \in Subs |-> <<>>]
    /\ view = [c \in Subs |-> [s \in {} |-> NewTracker]]
    /\ before = [s \in Sessions |-> NewScreen] /\ removed = {} /\ told = [c \in Subs |-> [s \in Sessions |-> 0]]

-----------------------------------------------------------------------------
(* The programs: progress, a notification, a report; the exit of the       *)
(* process, which the handler knows before the screen does.                *)

NextStatusSeq(sc) == (IF sc.notifSeq > sc.program.seq THEN sc.notifSeq ELSE sc.program.seq) + 1
Running(s) == exit[s] = "running"
Shows(s, sc) == screen' = [screen EXCEPT ![s] = sc] /\ UNCHANGED <<sessionVars, exit, tr, sweep, pending, subVars, historyVars>>

SetProgress(s, st) == Running(s) /\ Shows(s, [screen[s] EXCEPT !.progress = st])
Notify(s, text) ==
    /\ Running(s)
    /\ Shows(s, [screen[s] EXCEPT !.notif = text, !.notifSeq = NextStatusSeq(screen[s])])
Change(s, event) == Shows(s, [screen[s] EXCEPT !.program = apply(@, event)])
Report(s, id, rec) ==
    /\ Running(s)
    /\ Change(s, [event |-> "report", id |-> id, rec |-> rec, seq |-> NextStatusSeq(screen[s])])
Prompt(s) == Running(s) /\ Change(s, Event("prompt"))
HardReset(s) == Running(s) /\ Change(s, Event("reset"))
Exit(s, how) ==
    /\ Running(s) /\ how \in {"clean", "crash"}
    /\ exit' = [exit EXCEPT ![s] = how]
    /\ UNCHANGED <<sessionVars, screen, tr, sweep, pending, subVars, historyVars>>
ProgramExited(s) ==
    exit[s] \in {"clean", "crash"} /\ ~ screen[s].program.exited /\ Change(s, Event("exit"))

-----------------------------------------------------------------------------
(* Clients: create, close, rename, reorder, acknowledge, withdraw a latch. *)

Create(s, name) ==
    /\ exit[s] = "unborn"
    /\ live' = live \cup {s} /\ order' = Append(order, s) /\ label' = [label EXCEPT ![s] = name]
    /\ exit' = [exit EXCEPT ![s] = "running"]
    /\ UNCHANGED <<screen, tr, sweep, pending, subVars, historyVars>>
Close(s) ==
    /\ s \in live
    /\ live' = live \ {s} /\ order' = SelectSeq(order, LAMBDA x : x # s)
    /\ UNCHANGED <<label, programVars, tr, sweep, pending, subVars, historyVars>>
SetSessionTitle(s, name) ==
    /\ s \in live /\ label' = [label EXCEPT ![s] = name]
    /\ UNCHANGED <<live, order, programVars, tr, sweep, pending, subVars, historyVars>>
SetSessionOrder(ids) ==
    /\ Len(ids) = Len(order) /\ ToSet(ids) = ToSet(order) /\ order' = ids
    /\ UNCHANGED <<live, label, programVars, tr, sweep, pending, subVars, historyVars>>

Min2(a, b) == IF a < b THEN a ELSE b
Max2(a, b) == IF a < b THEN b ELSE a
Tracks(s, t) ==
    tr' = [tr EXCEPT ![s] = t] /\ UNCHANGED <<sessionVars, programVars, sweep, pending, subVars, historyVars>>
\* Mutant of markSessionSeen: an acknowledgement of a later status is kept.
markSessionSeenAhead(s, seq) ==
    s \in live /\ tr[s].known /\ Tracks(s, [tr[s] EXCEPT !.seenSeq = Max2(@, seq)])
markSessionSeen(s, seq) ==
    /\ s \in live /\ tr[s].known
    /\ Tracks(s, [tr[s] EXCEPT !.seenSeq = Max2(@, Min2(seq, tr[s].statusSeq))])
WithdrawStatusLatch(s, want, seq) ==
    /\ want \in {"input", "done"}
    /\ tr[s].known /\ tr[s].latched = want /\ tr[s].latchSeq = seq
    /\ Tracks(s, [tr[s] EXCEPT !.latched = ""])

-----------------------------------------------------------------------------
(* The status of a session from what one sweep read of it, in.             *)

progressStatus(p) ==
    CASE p \in {1, 3} -> "working" [] p = 2 -> "failed" [] p = 4 -> "warning" [] OTHER -> ""
reportStatus ==
    [working |-> "working", blocked |-> "input", done |-> "done", error |-> "failed", idle |-> "idle"]

Latching(in, t) == in.notifSeq > t.notifSeen /\ Class[in.notif] # NoClass
applyNotification(in, t) ==
    [t EXCEPT !.notifSeen = Max2(@, in.notifSeq),
              !.latched = IF Latching(in, t) THEN Class[in.notif] ELSE @,
              !.latchSeq = IF Latching(in, t) THEN in.notifSeq ELSE @]

Result(t, status, fresh) == [t |-> t, status |-> status, fresh |-> fresh]
programStatusOf(in, t, latchedNow, advanced) ==
    LET p == Folded(in.program)
        status == reportStatus[p.state]
    IN IF t.latched # "" /\ t.latchSeq > p.seq THEN Result(t, t.latched, latchedNow)
       ELSE Result([t EXCEPT !.latched = ""], status, advanced /\ status \in {"input", "done", "failed"})
progressOrLatch(in, t, latchedNow) ==
    LET st == progressStatus(in.progress)
    IN CASE st # "" /\ ~ latchedNow /\ (t.latched = "" \/ in.progress # 4) ->
                Result([t EXCEPT !.latched = ""], st, FALSE)
         [] (st = "" \/ latchedNow \/ in.progress = 4) /\ t.latched # "" -> Result(t, t.latched, latchedNow)
         [] OTHER -> Result(t, "idle", FALSE)
\* Mutant of computeStatus: an occurrence is consumed only when it is shown.
computeStatusShown(in, how, t) ==
    LET noted == applyNotification(in, t)
        now == Latching(in, t)
        advanced == in.program.occurrence > t.programOccurrence
        r == programStatusOf(in, noted, now, advanced)
    IN CASE how # "running" -> Result(t, IF how = "crash" THEN "crashed" ELSE "exited", FALSE)
         [] how = "running" /\ in.program.reported ->
                [r EXCEPT !.t.programOccurrence = IF r.t.latched = "" THEN in.program.occurrence ELSE @]
         [] OTHER -> progressOrLatch(in, noted, now)
computeStatus(in, how, t) ==
    LET read == [t EXCEPT !.programOccurrence = in.program.occurrence]
        noted == applyNotification(in, read)
        now == Latching(in, t)
    IN CASE how # "running" -> Result(read, IF how = "crash" THEN "crashed" ELSE "exited", FALSE)
         [] how = "running" /\ in.program.reported ->
                programStatusOf(in, noted, now, in.program.occurrence > t.programOccurrence)
         [] OTHER -> progressOrLatch(in, noted, now)

-----------------------------------------------------------------------------
(* The sweep: snapshot the set, read each screen and then each exit, then  *)
(* commit under the lock.                                                  *)

BeginSweep ==
    /\ sweep.phase = "resting" /\ pending = <<>>
    /\ tr' = [s \in Sessions |-> IF s \in live /\ ~ tr[s].known THEN NewTracker ELSE tr[s]]
    /\ sweep' = [NoSweep EXCEPT !.phase = "reading", !.todo = live]
    /\ UNCHANGED <<sessionVars, programVars, pending, subVars, historyVars>>
ReadScreen(s) ==
    /\ s \in sweep.todo /\ sweep.exits = {}
    /\ sweep' = [sweep EXCEPT !.todo = @ \ {s}, !.exits = {s},
                   !.read = [x \in DOMAIN @ \cup {s} |->
                        IF x = s THEN [screen |-> screen[s], how |-> "running"] ELSE @[x]]]
    /\ UNCHANGED <<sessionVars, programVars, tr, pending, subVars, historyVars>>
ReadExit(s) ==
    /\ s \in sweep.exits
    /\ sweep' = [sweep EXCEPT !.exits = {}, !.read[s].how = exit[s]]
    /\ UNCHANGED <<sessionVars, programVars, tr, pending, subVars, historyVars>>

rankOf(s) == IF s \in ToSet(order) THEN CHOOSE i \in DOMAIN order : order[i] = s ELSE Len(order) + 1

(* One session: the new tracker and the event, none when nothing moved.    *)
sweepSession(s, in, how) ==
    LET old == tr[s]
        r == computeStatus(in, how, old)
        t == r.t
        reports == t.lastReports \/ in.progress >= 0 \/ in.program.seq # 0 \/ t.latched # ""
        notifNew == in.notifSeq > t.notifDelivered
        same == /\ r.status = t.lastStatus /\ label[s] = t.lastLabel /\ rankOf(s) = t.lastOrder
                /\ reports = t.lastReports /\ t.seenSeq = t.lastSeenSeq /\ ~ notifNew /\ ~ r.fresh
        new == [t EXCEPT !.statusSeq = IF r.status # t.lastStatus \/ r.fresh THEN @ + 1 ELSE @,
                         !.lastSeenSeq = t.seenSeq, !.lastStatus = r.status, !.lastLabel = label[s],
                         !.lastReports = reports, !.lastOrder = rankOf(s),
                         !.notifDelivered = IF notifNew THEN in.notifSeq ELSE @]
    IN IF same THEN [t |-> t, events |-> <<>>]
       ELSE [t |-> new,
             events |-> << [id |-> s, removed |-> FALSE, status |-> new.lastStatus,
                            statusSeq |-> new.statusSeq, seenSeq |-> new.seenSeq,
                            label |-> new.lastLabel, order |-> new.lastOrder,
                            notif |-> IF notifNew THEN in.notifSeq ELSE 0] >>]
Removed(s) ==
    [id |-> s, removed |-> TRUE, status |-> "exited", statusSeq |-> 0, seenSeq |-> 0,
     label |-> 0, order |-> 0, notif |-> 0]

(* The order of one sweep's events is the order of a Go map; they are      *)
(* about different sessions, and one order is taken here.                  *)
CommitSweep ==
    LET swept == DOMAIN sweep.read \cap live
        result == [s \in swept |-> sweepSession(s, sweep.read[s].screen, sweep.read[s].how)]
        changed == {s \in swept : result[s].events # <<>>}
        gone == {s \in Sessions \ live : tr[s].known}
    IN /\ sweep.phase = "reading" /\ sweep.todo = {} /\ sweep.exits = {}
       /\ tr' = [s \in Sessions |-> IF s \in swept THEN result[s].t
                                    ELSE IF s \in gone THEN NoTracker ELSE tr[s]]
       /\ pending' = [i \in DOMAIN SetToSeq(changed) |-> result[SetToSeq(changed)[i]].events[1]]
                     \o [i \in DOMAIN SetToSeq(gone) |-> Removed(SetToSeq(gone)[i])]
       /\ before' = [s \in Sessions |-> IF s \in swept THEN sweep.read[s].screen ELSE before[s]]
       /\ removed' = removed \cup gone
       /\ sweep' = NoSweep
       /\ UNCHANGED <<sessionVars, programVars, subVars>>

(* One event to every subscriber; one without room is dropped.             *)
Listening(c) == stage[c] \in {"subscribed", "streaming"}
\* Mutant of Broadcast: a subscriber without room misses the event and stays.
BroadcastSkipping ==
    /\ pending # <<>> /\ pending' = Tail(pending)
    /\ queue' = [c \in Subs |-> IF Listening(c) /\ Len(queue[c]) < QueueCap
                                THEN Append(queue[c], Head(pending)) ELSE queue[c]]
    /\ UNCHANGED <<sessionVars, programVars, tr, sweep, stage, view, told, historyVars>>
Broadcast ==
    /\ pending # <<>> /\ pending' = Tail(pending)
    /\ queue' = [c \in Subs |-> IF Listening(c) /\ Len(queue[c]) < QueueCap
                                THEN Append(queue[c], Head(pending)) ELSE queue[c]]
    /\ stage' = [c \in Subs |-> IF Listening(c) /\ Len(queue[c]) = QueueCap
                                THEN "dropped" ELSE stage[c]]
    /\ UNCHANGED <<sessionVars, programVars, tr, sweep, view, told, historyVars>>

-----------------------------------------------------------------------------
(* A subscriber: subscribe, take the snapshot, then read its buffer.       *)

committedOf(t) ==
    IF ~ t.known THEN [status |-> "idle", statusSeq |-> 0, seenSeq |-> 0]
    ELSE IF t.lastStatus = "" THEN [status |-> "idle", statusSeq |-> 0, seenSeq |-> 0]
    ELSE [status |-> t.lastStatus, statusSeq |-> t.statusSeq, seenSeq |-> t.seenSeq]
Entry(status, statusSeq, seenSeq, name, at) ==
    [status |-> status, statusSeq |-> statusSeq, seenSeq |-> seenSeq, label |-> name, order |-> at]
snapshot ==
    [s \in live |-> LET k == committedOf(tr[s])
                    IN Entry(k.status, k.statusSeq, k.seenSeq, label[s], rankOf(s))]
EntryOf(e) == Entry(e.status, e.statusSeq, e.seenSeq, e.label, e.order)
Applied(copy, e) ==
    IF e.removed THEN [s \in DOMAIN copy \ {e.id} |-> copy[s]]
    ELSE [s \in DOMAIN copy \cup {e.id} |-> IF s = e.id THEN EntryOf(e) ELSE copy[s]]

Subscribe(c) ==
    /\ stage[c] = "away"
    /\ stage' = [stage EXCEPT ![c] = "subscribed"]
    /\ UNCHANGED <<sessionVars, programVars, tr, sweep, pending, queue, view, told, historyVars>>
TakeSnapshot(c) ==
    /\ stage[c] = "subscribed"
    /\ stage' = [stage EXCEPT ![c] = "streaming"] /\ view' = [view EXCEPT ![c] = snapshot]
    /\ UNCHANGED <<sessionVars, programVars, tr, sweep, pending, queue, told, historyVars>>
Receive(c) ==
    /\ stage[c] \in {"streaming", "dropped"} /\ queue[c] # <<>>
    /\ LET e == Head(queue[c])
       IN /\ view' = [view EXCEPT ![c] = Applied(@, e)]
          /\ told' = [told EXCEPT ![c][e.id] = IF e.notif = 0 THEN @ ELSE e.notif]
    /\ queue' = [queue EXCEPT ![c] = Tail(@)]
    /\ UNCHANGED <<sessionVars, programVars, tr, sweep, pending, stage, historyVars>>
(* The page leaves, or finds its channel closed and drained.               *)
Leave(c) ==
    /\ Listening(c) \/ (stage[c] = "dropped" /\ queue[c] = <<>>)
    /\ stage' = [stage EXCEPT ![c] = "away"] /\ queue' = [queue EXCEPT ![c] = <<>>]
    /\ view' = [view EXCEPT ![c] = [s \in {} |-> NewTracker]]
    /\ UNCHANGED <<sessionVars, programVars, tr, sweep, pending, told, historyVars>>

-----------------------------------------------------------------------------
(* Everybody at once.                                                      *)

Reported == [state : ProgramStates \cup {"clear"}, kind : ProgramKinds \cup {""},
             app : Apps \cup {NoApp}, touched : {0}]
Next ==
    \/ \E s \in Sessions :
        \/ \E st \in 0 .. 4 : SetProgress(s, st)
        \/ \E text \in DOMAIN Class : Notify(s, text)
        \/ \E id \in Ids, rec \in Reported : Report(s, id, rec)
        \/ Prompt(s) \/ HardReset(s) \/ ProgramExited(s)
        \/ \E how \in {"clean", "crash"} : Exit(s, how)
        \/ Close(s)
        \/ \E name \in Nat : Create(s, name) \/ SetSessionTitle(s, name)
        \/ \E seq \in Nat : markSessionSeen(s, seq)
        \/ \E want \in {"input", "done"}, seq \in Nat : WithdrawStatusLatch(s, want, seq)
        \/ ReadScreen(s) \/ ReadExit(s)
    \/ \E ids \in Seq(Sessions) : SetSessionOrder(ids)
    \/ BeginSweep \/ CommitSweep \/ Broadcast
    \/ \E c \in Subs : Subscribe(c) \/ TakeSnapshot(c) \/ Receive(c) \/ Leave(c)
Spec == Init /\ [][Next]_vars

-----------------------------------------------------------------------------
(* Properties.                                                             *)

(* A sweep numbers every cue and invents none: a status that calls for     *)
(* attention and was asked for anew, by a notification or by a report that *)
(* changed what the session shows, gets a number of its own even when it   *)
(* repeats the one before; and a number rises only with the status or with *)
(* such news (computeStatus, programStatusOf, numberOccurrence).           *)
Asked(in, was) ==
    (IF in.notifSeq > was.notifSeq THEN {Class[in.notif]} ELSE {})
    \cup (IF in.program.reported /\ in.program.occurrence > was.program.occurrence
          THEN {reportStatus[Folded(in.program).state]} ELSE {})
CuesAreNumbered ==
    [][\A s \in Sessions : tr[s].known /\ tr'[s].known =>
        LET in == sweep.read[s].screen
            news == Asked(in, before[s])
            committed == sweep.phase = "reading" /\ sweep'.phase = "resting" /\ s \in live
            rises == tr'[s].statusSeq > tr[s].statusSeq
        IN /\ rises => committed
           /\ committed =>
                /\ rises => tr'[s].lastStatus # tr[s].lastStatus \/ tr'[s].lastStatus \in news
                /\ tr'[s].lastStatus \in news \cap {"input", "done", "failed"} => rises
                /\ tr'[s].lastStatus # tr[s].lastStatus => rises]_vars

(* With all that is queued and about to be sent read, a subscriber shows   *)
(* for every session swept what the last sweep committed, whatever raced   *)
(* with its snapshot, its title or one the next sweep will correct as long *)
(* as a title that was changed does not come back, and none that a sweep   *)
(* reported removed (diffStatuses, broadcast, subscribe before snapshot).  *)
Coming(c) == queue[c] \o pending
About(q, s) == {i \in DOMAIN q : q[i].id = s}
Latest(q, s) == q[CHOOSE i \in About(q, s) : \A j \in About(q, s) : j <= i]
Stays(c) ==
    {s \in Sessions : IF About(Coming(c), s) = {} THEN s \in DOMAIN view[c]
                      ELSE ~ Latest(Coming(c), s).removed}
Final(c) ==
    [s \in Stays(c) |-> IF About(Coming(c), s) = {} THEN view[c][s]
                        ELSE EntryOf(Latest(Coming(c), s))]
Committed(s) == s \in live /\ tr[s].known /\ tr[s].lastStatus # ""
StatusesConverge ==
    \A c \in Subs : stage[c] = "streaming" =>
        \A s \in Sessions :
            /\ Committed(s) =>
                 /\ s \in DOMAIN Final(c)
                 /\ Final(c)[s].status = tr[s].lastStatus /\ Final(c)[s].statusSeq = tr[s].statusSeq
                 /\ Final(c)[s].seenSeq \in tr[s].lastSeenSeq .. tr[s].seenSeq
            /\ s \in removed => s \notin DOMAIN Final(c)
TitlesConverge ==
    \A c \in Subs : stage[c] = "streaming" =>
        \A s \in Sessions : Committed(s) => Final(c)[s].label = label[s] \/ tr[s].lastLabel # label[s]
ViewsConverge == StatusesConverge /\ TitlesConverge

(* Nobody puts back a title that was changed: labels are numbered in the   *)
(* order they are given (SetSessionTitle).                                 *)
TitlesAreNew == [][\A s \in Sessions : label'[s] = label[s] \/ label'[s] > label[s]]_vars

(* A reader's mark never passes the last status numbered, neither falls,   *)
(* and no subscriber is told of a notification twice (markSessionSeen,     *)
(* sweepSession).                                                          *)
MarksAndNotices ==
    [][/\ \A s \in Sessions : tr[s].known /\ tr'[s].known =>
            /\ tr'[s].seenSeq <= tr'[s].statusSeq
            /\ tr'[s].seenSeq >= tr[s].seenSeq /\ tr'[s].statusSeq >= tr[s].statusSeq
       /\ \A c \in Subs : told'[c] # told[c] =>
            \A s \in Sessions : Head(queue[c]).id = s => told'[c][s] > told[c][s]]_vars
=============================================================================
