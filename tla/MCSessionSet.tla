----------------------------- MODULE MCSessionSet -----------------------------
(***************************************************************************)
(* Instances of SessionSet for TLC.  All that a manager can meet at once is  *)
(* too much for one state space, so each behavior has a host, chosen at the  *)
(* start: what it does and what it may meet.                                 *)
(***************************************************************************)
EXTENDS SessionSet, TLC

VARIABLE host

\* A host whose clients arrange their tabs while it restores one session; one
\* that restores two and may shut down meanwhile; one with the idle reaper, a
\* socket or two, and a shutdown.
Hosts ==
    {[entries |-> 1, viewers |-> 0, writes |-> TRUE, reaps |-> FALSE, ends |-> FALSE],
     [entries |-> 2, viewers |-> 0, writes |-> FALSE, reaps |-> FALSE, ends |-> TRUE],
     [entries |-> 1, viewers |-> 2, writes |-> FALSE, reaps |-> TRUE, ends |-> TRUE]}

OnHost(h) ==
    /\ restore.size <= h.entries
    /\ activeClients <= h.viewers
    /\ h.writes \/ (~orderWritten /\ ~layoutWritten)
    /\ h.reaps \/ ~idle
    /\ h.ends \/ ~closed

HostInit == Init /\ host \in Hosts

HostNext == Next /\ UNCHANGED host /\ OnHost(host)'

HostSpec == HostInit /\ [][HostNext]_<<vars, host>>

Symmetry == Permutations(Ids)
=============================================================================
