---------------------------- MODULE MCStatusStream ----------------------------
(***************************************************************************)
(* Two instances of StatusStream in one run: one session whose program     *)
(* says everything it can, and sessions that come, go and are renamed      *)
(* under the eyes of subscribers.                                          *)
(***************************************************************************)
EXTENDS StatusStream

CONSTANTS
    StatusBound,   \* bound: numbers a program draws
    OccurrenceBound,   \* bound: occurrences of a status numbered
    Scenarios      \* which instances run

VARIABLE scenario
mcvars == <<vars, scenario>>

MCIds == {<<>>, <<"a">>}
MCApps == {}
MCClass == [ask |-> "input", finished |-> "done", chat |-> NoClass]

MCInit ==
    /\ scenario \in Scenarios
    /\ IF scenario = "viewers" THEN Init
       ELSE LET s == CHOOSE x \in Sessions : TRUE
            IN /\ live = {s} /\ order = <<s>> /\ label = [x \in Sessions |-> 0]
               /\ screen = [x \in Sessions |-> NewScreen]
               /\ exit = [x \in Sessions |-> IF x = s THEN "running" ELSE "unborn"]
               /\ tr = [x \in Sessions |-> NoTracker] /\ sweep = NoSweep /\ pending = <<>>
               /\ stage = [c \in Subs |-> "away"] /\ queue = [c \in Subs |-> <<>>]
               /\ view = [c \in Subs |-> [x \in {} |-> NewTracker]]
               /\ before = [x \in Sessions |-> NewScreen] /\ removed = {}
               /\ told = [c \in Subs |-> [x \in Sessions |-> 0]]

Room(s) == NextStatusSeq(screen[s]) <= StatusBound - (IF scenario = "notes" THEN 1 ELSE 0)
Rec(st) == [NoRecord EXCEPT !.state = st]

Ends ==
    \E s \in live : ProgramExited(s) \/ \E how \in {"clean", "crash"} : Exit(s, how)
Notes ==
    \E s \in live :
        \/ Room(s) /\ \E text \in DOMAIN MCClass : Notify(s, text)
        \/ \E st \in {1, 2, 4} : SetProgress(s, st) /\ screen' # screen
        \/ \E seq \in {StatusBound + 1} : markSessionSeen(s, seq) /\ tr' # tr
Reports ==
    \E s \in live :
        \/ Room(s) /\ Notify(s, "finished")
        \/ Room(s) /\ \E id \in Ids, st \in {"working", "blocked", "done", "clear"} : Report(s, id, Rec(st))
        \/ (Prompt(s) \/ HardReset(s)) /\ screen' # screen
Withdraw ==
    \E s \in live, want \in {"input", "done"}, seq \in 1 .. StatusBound : WithdrawStatusLatch(s, want, seq)
Sweep ==
    \/ BeginSweep /\ \A s \in live : tr[s].known => tr[s].statusSeq < OccurrenceBound
    \/ sweep.todo # {} /\ ReadScreen(CHOOSE s \in sweep.todo : TRUE)
    \/ \E s \in Sessions : ReadExit(s)
    \/ CommitSweep

(* One of the sessions notifies, the others are renamed.                   *)
Noisy == CHOOSE s \in Sessions : TRUE
Viewers ==
    \/ \E s \in Sessions : Create(s, 0) \/ Close(s)
    \/ \E s \in Sessions \ {Noisy} : label[s] < 1 /\ SetSessionTitle(s, label[s] + 1)
    \/ SetSessionOrder(Reverse(order)) /\ order' # order
    \/ Noisy \in live /\ screen[Noisy] = NewScreen /\ Notify(Noisy, "ask")
    \/ \E seq \in 1 .. 2 : markSessionSeen(Noisy, seq) /\ tr' # tr
    \/ \E c \in Subs : Subscribe(c) \/ TakeSnapshot(c) \/ Receive(c) \/ Leave(c)
    \/ Broadcast

MCNext ==
    /\ UNCHANGED scenario
    /\ \/ Sweep
       \/ scenario = "notes" /\ (Notes \/ Withdraw \/ Ends \/ Broadcast)
       \/ scenario = "reports" /\ (Reports \/ Withdraw \/ Ends \/ Broadcast)
       \/ scenario = "viewers" /\ Viewers
MCSpec == MCInit /\ [][MCNext]_mcvars
=============================================================================
