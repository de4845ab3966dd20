----------------------------- MODULE MCRegistries -----------------------------
(***************************************************************************)
(* The two registries of a server for TLC, one of them at a time: the input  *)
(* ledgers of a session, whose sockets come and go, and the manager's set of *)
(* sessions, whose processes do.                                             *)
(***************************************************************************)
EXTENDS LedgerRegistry

CONSTANTS Ids, None, MaxEntries, MaxSetSessions, MaxViewers     \* of SessionSet

VARIABLES
    half,           \* the registry that this run is of
    managed, order, layout, closed, proc, hands, activeClients, viewers, idle, restoring,
    restore, orderWritten, layoutWritten, shutdown, arranged, chosen, young, regretted, host
Manager == INSTANCE MCSessionSet WITH sessions <- managed

managerVars == <<managed, order, layout, closed, proc, hands, activeClients, viewers, idle,
                 restoring, restore, orderWritten, layoutWritten, shutdown, arranged, chosen,
                 young, regretted, host>>

\* A host that never shuts down has nothing to show of ClosedEnds.
RegistriesInit ==
    /\ half \in {"ledgers", "sessions"}
    /\ Init /\ Manager!HostInit
    /\ host.ends /\ (half = "ledgers" => host.reaps)
RegistriesNext ==
    /\ UNCHANGED half
    /\ \/ half = "ledgers" /\ Next /\ UNCHANGED managerVars
       \/ half = "sessions" /\ Manager!HostNext /\ UNCHANGED vars

\* No fair action is possible in the half that is not run: nothing is connected
\* there and nothing minted.
RegistriesSpec ==
    RegistriesInit /\ [][RegistriesNext]_<<vars, managerVars, half>>
        /\ Fairness /\ Manager!Fairness

-----------------------------------------------------------------------------
\* After Shutdown every process the manager started ends.
ClosedEnds == Manager!ClosedEnds
=============================================================================
