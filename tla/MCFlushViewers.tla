---------------------------- MODULE MCFlushViewers ----------------------------
(***************************************************************************)
(* The scheduler and the viewers for TLC.  All of it at once is too much   *)
(* for one state space, so each behavior has its day: one viewer and every *)
(* kind of hold; viewers that come and go and no hold; and viewers who      *)
(* change their sizes, on a calm day never while a heal is under way, or   *)
(* their focus, under a scheduler that is not looking.                     *)
(***************************************************************************)
EXTENDS Viewers

CONSTANTS first, Days
VARIABLE day

OnDay ==
    \/ /\ day = "holds" /\ ~palette /\ ~clip
       /\ \A c \in Clients \ {first} : socket[c] = "away"
    \/ day = "crowd" /\ resizes = 0 /\ syncs = 0
    \/ /\ day \in {"sizes", "calm"} /\ told = "unknown" /\ ~ anyFocused
    \/ day = "focus" /\ Sized = {}

MCInit == Init /\ ViewersInit /\ day \in Days
MCNext ==
    /\ \/ day \in {"holds", "crowd"} /\ Next /\ UNCHANGED viewerVars
       \/ day \in {"sizes", "focus", "calm"} /\ ViewersNext
    /\ day = "calm" /\ healing.stage # "rest" => healing' # healing
    /\ UNCHANGED day /\ OnDay'
MCSpec == MCInit /\ [][MCNext]_<<vars, viewerVars, day>> /\ Fairness

MCSizes == {Said(80, 50), Said(100, 24), Said(60, 20)}
=============================================================================
