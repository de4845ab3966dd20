--------------------------- MODULE MCSessionProcess ---------------------------
(***************************************************************************)
(* The session's process for TLC: either a head that forks, under nobody's *)
(* eyes, or one with a single child, output, clients and the zombie sweep. *)
(***************************************************************************)
EXTENDS SessionProcess

CONSTANTS first
VARIABLE family

OnFamily ==
    IF family
    THEN /\ ~found /\ wrote = 0 /\ status # "crash" /\ socket # "replaying"
         /\ closing => caller \in {"waiting", "returned"}
         /\ (\E k \in Kids : state[k] # "unborn") => state[first] # "unborn"
    ELSE \A k \in Kids \ {first} : state[k] = "unborn"

MCInit == Init /\ family \in BOOLEAN
MCNext == Next /\ UNCHANGED family /\ OnFamily'
MCSpec == MCInit /\ [][MCNext]_<<vars, family>> /\ Fairness
=============================================================================
