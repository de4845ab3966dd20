------------------------------ MODULE SessionSet ------------------------------
(***************************************************************************)
(* The set of sessions a SessionManager holds, the display order and the     *)
(* pane layout every viewer shares (terminal/session_manager.go), and their  *)
(* capture and restore (terminal/session_set.go).                            *)
(*                                                                         *)
(* An action is one hold of m.mu, or one call on a handler made outside it:  *)
(* createWith forks between two holds, and whoever takes a session out of    *)
(* the set closes its handler after releasing the lock.  orderGen and        *)
(* layoutGen are only ever compared with their values at the start of a      *)
(* restore, so each is a flag: a client wrote since.                         *)
(***************************************************************************)
EXTENDS Naturals, Sequences, FiniteSets, Functions

CONSTANTS
    Ids,            \* session ids; one is minted at most once
    None,           \* an empty pane, no session
    MaxEntries,     \* bound: sessions of a stored set
    MaxSetSessions, \* MaxSessionSetSessions
    MaxViewers      \* bound: sockets attached at a time

ASSUME NoneAssumption == None \notin Ids /\ None \notin Nat
ASSUME BoundAssumption == {MaxEntries, MaxSetSessions, MaxViewers} \subseteq Nat

VARIABLES
    sessions, order, layout,    \* the shared arrangement
    closed,
    proc,           \* a handler: its process and the teardown of it
    hands,          \* who, outside the set, has still to do something about it
    activeClients, viewers, idle,   \* the clients present; has idleWindow passed
    restoring,
    restore,        \* the latest RestoreSessionSet call
    orderWritten, layoutWritten,    \* orderGen, layoutGen moved since it began
    shutdown,       \* the Shutdown call and its victims
    arranged, chosen,   \* history: the client's latest order and layout since a restore began
    young, regretted    \* history: the reaper's mistakes

arrangementVars == <<sessions, order, layout>>
clientVars == <<activeClients, viewers, idle>>
restoreVars == <<restoring, restore>>
writtenVars == <<orderWritten, layoutWritten, arranged, chosen>>
reapVars == <<young, regretted>>
vars == <<arrangementVars, closed, proc, hands, clientVars, restoreVars,
          writtenVars, shutdown, reapVars>>

Sides == {"left", "right"}
LayoutOf(S) == [left : S \cup {None}, right : S \cup {None},
                selected : Sides, open : BOOLEAN]

DefaultLayout == [left |-> None, right |-> None, selected |-> "left", open |-> FALSE]

\* A restore is creating the entry at next (cur is the session being forked for
\* it), or has applied the arrangement.
NoRestore == [phase |-> "none", stored |-> DefaultLayout, created |-> <<>>, cur |-> None, size |-> 0]

TypeOK ==
    /\ sessions \in SUBSET Ids
    /\ order \in Seq(Ids)
    /\ layout \in LayoutOf(Ids)
    /\ closed \in BOOLEAN
    /\ proc \in [Ids -> {"unused", "forking", "running", "ending", "gone"}]
    /\ hands \in [Ids -> {"nobody", "creator", "closer", "reaper", "shutdown"}]
    /\ activeClients \in Nat /\ viewers \in SUBSET Ids /\ idle \in BOOLEAN
    /\ restoring \in BOOLEAN
    /\ restore.phase \in {"none", "creating", "applied"}
    /\ restore.stored \in LayoutOf(1..restore.size)
    /\ restore.created \in Seq(Ids \cup {None}) /\ Len(restore.created) <= restore.size
    /\ restore.cur \in Ids \cup {None}
    /\ orderWritten \in BOOLEAN /\ layoutWritten \in BOOLEAN
    /\ shutdown \in [phase : {"no", "waiting", "returned", "expired"}, victims : SUBSET Ids]
    /\ arranged \in Seq(Ids) /\ chosen \in LayoutOf(Ids)
    /\ young \in SUBSET Ids /\ regretted \in SUBSET Ids

Init ==
    /\ sessions = {} /\ order = <<>> /\ layout = DefaultLayout
    /\ closed = FALSE
    /\ proc = [id \in Ids |-> "unused"]
    /\ hands = [id \in Ids |-> "nobody"]
    /\ activeClients = 0 /\ viewers = {} /\ idle = FALSE
    /\ restoring = FALSE /\ restore = NoRestore
    /\ orderWritten = FALSE /\ layoutWritten = FALSE
    /\ shutdown = [phase |-> "no", victims |-> {}]
    /\ arranged = <<>> /\ chosen = DefaultLayout
    /\ young = {} /\ regretted = {}

-----------------------------------------------------------------------------
(* Orders.                                                                   *)

\* Filtering by place rather than by recursion, which the proofs cannot follow:
\* the k-th element of s that is in S is at the place with k such places up to it.
PlacesOf(s, S) == {i \in DOMAIN s : s[i] \in S}
UpTo(places, i) == {j \in places : j <= i}
Filter(s, S) ==
    [k \in 1..Cardinality(PlacesOf(s, S)) |->
        s[CHOOSE i \in PlacesOf(s, S) : Cardinality(UpTo(PlacesOf(s, S), i)) = k]]

-----------------------------------------------------------------------------
(* Layouts.                                                                  *)

Other(side) == IF side = "left" THEN "right" ELSE "left"
Shown(l, side) == IF side = "left" THEN l.left ELSE l.right
Panes(l) == {l.left, l.right} \ {None}

\* invalidShape finds nothing to complain of.
ValidShape(l) ==
    /\ l.open \/ (l.right = None /\ l.selected = "left")
    /\ l.left = None \/ l.left # l.right
    /\ Shown(l, l.selected) = None => Shown(l, Other(l.selected)) = None

\* A pane showing nobody in S becomes empty.
Emptied(l, S) ==
    [l EXCEPT !.left = IF @ \in S THEN @ ELSE None, !.right = IF @ \in S THEN @ ELSE None]

\* normalizeSetLayout over the ids of a set: a closed split shows the left pane
\* alone, the selection moves to a shown pane, two empty panes show the first
\* session, and an empty set has the default layout.
Normalized(l, ids) ==
    LET shut == IF l.open THEN l ELSE [l EXCEPT !.right = None, !.selected = "left"]
        moved == IF Shown(shut, shut.selected) = None /\ Panes(shut) # {}
                 THEN [shut EXCEPT !.selected = Other(@)] ELSE shut
    IN  IF ids = <<>> THEN DefaultLayout
        ELSE IF Panes(moved) # {} THEN moved
        ELSE IF moved.selected = "left" THEN [moved EXCEPT !.left = ids[1]]
        ELSE [moved EXCEPT !.right = ids[1]]

NormalizedPanes(l, ids) == Normalized(Emptied(l, Range(ids)), ids)

-----------------------------------------------------------------------------
(* Creating a session: two holds of m.mu around the fork.                    *)

\* The first hold, for a client or the host.
Mint(id) ==
    /\ ~closed
    /\ proc[id] = "unused"
    /\ proc' = [proc EXCEPT ![id] = "forking"]
    /\ hands' = [hands EXCEPT ![id] = "creator"]
    /\ UNCHANGED <<arrangementVars, closed, clientVars, writtenVars, shutdown, reapVars>>

ClientCreate(id) == Mint(id) /\ UNCHANGED restoreVars

\* The restore, if it was creating id, has its answer.
Answered(id, answer) ==
    restore' = IF restore.cur = id
               THEN [restore EXCEPT !.cur = None, !.created = Append(@, answer)] ELSE restore

\* StartEager fails.
StartFails(id) ==
    /\ proc[id] = "forking"
    /\ proc' = [proc EXCEPT ![id] = "gone"]
    /\ hands' = [hands EXCEPT ![id] = "nobody"]
    /\ Answered(id, None)
    /\ UNCHANGED <<arrangementVars, closed, clientVars, restoring, writtenVars, shutdown, reapVars>>

\* What the second hold does to the set: newest last, and shown when nothing is.
Enter(id) ==
    /\ sessions' = sessions \cup {id}
    /\ order' = Append(order, id)
    /\ layout' = IF Panes(layout) = {} THEN [layout EXCEPT !.left = id, !.selected = "left"]
                 ELSE layout
    /\ young' = young \cup {id}
    /\ proc' = [proc EXCEPT ![id] = "running"]

\* Mutants of Insert: the manager is not asked again whether it was shut down;
\* the idle clock is not set back.
InsertUnchecked(id) ==
    /\ proc[id] = "forking"
    /\ Enter(id)
    /\ idle' = FALSE
    /\ hands' = [hands EXCEPT ![id] = "nobody"]
    /\ Answered(id, id)
    /\ UNCHANGED <<closed, activeClients, viewers, restoring, writtenVars, shutdown, regretted>>
InsertIdle(id) ==
    /\ ~closed
    /\ proc[id] = "forking"
    /\ Enter(id)
    /\ hands' = [hands EXCEPT ![id] = "nobody"]
    /\ Answered(id, id)
    /\ UNCHANGED <<closed, clientVars, restoring, writtenVars, shutdown, regretted>>

Insert(id) ==
    /\ ~closed
    /\ proc[id] = "forking"
    /\ Enter(id)
    /\ idle' = FALSE
    /\ hands' = [hands EXCEPT ![id] = "nobody"]
    /\ Answered(id, id)
    /\ UNCHANGED <<closed, activeClients, viewers, restoring, writtenVars, shutdown, regretted>>

\* Mutant of InsertRefused: nobody closes what was started.
InsertRefusedQuietly(id) ==
    /\ closed
    /\ proc[id] = "forking"
    /\ proc' = [proc EXCEPT ![id] = "running"]
    /\ hands' = [hands EXCEPT ![id] = "nobody"]
    /\ Answered(id, None)
    /\ UNCHANGED <<arrangementVars, closed, clientVars, restoring, writtenVars, shutdown, reapVars>>

\* Shutdown ran while the process forked: the creator closes what it started.
InsertRefused(id) ==
    /\ closed
    /\ proc[id] = "forking"
    /\ proc' = [proc EXCEPT ![id] = "running"]
    /\ hands' = [hands EXCEPT ![id] = "closer"]
    /\ Answered(id, None)
    /\ UNCHANGED <<arrangementVars, closed, clientVars, restoring, writtenVars, shutdown, reapVars>>

-----------------------------------------------------------------------------
(* Leaving the set.                                                          *)

\* Close takes the session out of the set, the order and the layout.
Close(id) ==
    /\ id \in sessions
    /\ sessions' = sessions \ {id}
    /\ order' = Filter(order, Ids \ {id})
    /\ layout' = NormalizedPanes(layout, order')
    /\ hands' = [hands EXCEPT ![id] = "closer"]
    /\ young' = young \ {id}
    /\ UNCHANGED <<closed, proc, clientVars, restoreVars, writtenVars, shutdown, regretted>>

\* Everything leaves at once, into the hands of who.
Empty(who) ==
    /\ sessions' = {} /\ order' = <<>> /\ layout' = DefaultLayout
    /\ hands' = [id \in Ids |-> IF id \in sessions THEN who ELSE hands[id]]
    /\ young' = {}

\* maybeReap: nobody has been here for the idle window.
Reap ==
    /\ activeClients = 0
    /\ sessions # {}
    /\ idle
    /\ Empty("reaper")
    /\ regretted' = regretted \cup ((young \cup viewers) \cap sessions)
    /\ UNCHANGED <<closed, proc, clientVars, restoreVars, writtenVars, shutdown>>

\* Whoever took a session out calls Handler.Close; the teardown goes on alone.
CloseHandler(id) ==
    /\ hands[id] \in {"closer", "reaper", "shutdown"}
    /\ hands' = [hands EXCEPT ![id] = "nobody"]
    /\ proc' = [proc EXCEPT ![id] = "ending"]
    /\ UNCHANGED <<arrangementVars, closed, clientVars, restoreVars, writtenVars, shutdown, reapVars>>

TeardownEnds(id) ==
    /\ proc[id] = "ending"
    /\ proc' = [proc EXCEPT ![id] = "gone"]
    /\ UNCHANGED <<arrangementVars, closed, hands, clientVars, restoreVars,
                   writtenVars, shutdown, reapVars>>

Shutdown ==
    /\ shutdown.phase = "no"
    /\ closed' = TRUE
    /\ Empty("shutdown")
    /\ shutdown' = [phase |-> "waiting", victims |-> sessions]
    /\ UNCHANGED <<proc, clientVars, restoreVars, writtenVars, regretted>>

\* Every victim was closed and waited for, and the reap loop has returned.
ShutdownReturns ==
    /\ shutdown.phase = "waiting"
    /\ \A id \in shutdown.victims : proc[id] = "gone"
    /\ \A id \in Ids : hands[id] # "reaper"
    /\ shutdown' = [shutdown EXCEPT !.phase = "returned"]
    /\ UNCHANGED <<arrangementVars, closed, proc, hands, clientVars, restoreVars,
                   writtenVars, reapVars>>

\* The budget ran out during the waits, which follow the closes.
ShutdownExpires ==
    /\ shutdown.phase = "waiting"
    /\ \A id \in Ids : hands[id] # "shutdown"
    /\ shutdown' = [shutdown EXCEPT !.phase = "expired"]
    /\ UNCHANGED <<arrangementVars, closed, proc, hands, clientVars, restoreVars,
                   writtenVars, reapVars>>

-----------------------------------------------------------------------------
(* Clients: their presence, and their order and layout.                      *)

\* WebSocketHandler: the lookup and the count are one hold.
Attach(id) ==
    /\ id \in sessions \ viewers
    /\ activeClients < MaxViewers
    /\ viewers' = viewers \cup {id}
    /\ activeClients' = activeClients + 1
    /\ UNCHANGED <<arrangementVars, closed, proc, hands, idle, restoreVars,
                   writtenVars, shutdown, reapVars>>

\* clientDisconnected: with the last client the idle window starts.
Detach(id) ==
    /\ id \in viewers
    /\ viewers' = viewers \ {id}
    /\ activeClients' = activeClients - 1
    /\ idle' = IF activeClients' = 0 THEN FALSE ELSE idle
    /\ UNCHANGED <<arrangementVars, closed, proc, hands, restoreVars,
                   writtenVars, shutdown, reapVars>>

\* idleWindow has passed since idleSince, so also since every session present
\* was created.
IdleWindowPasses ==
    /\ ~idle
    /\ idle' = TRUE
    /\ young' = {}
    /\ UNCHANGED <<arrangementVars, closed, proc, hands, activeClients, viewers,
                   restoreVars, writtenVars, shutdown, regretted>>

\* The live set exactly: as many, all live, none twice.
NamesLiveSet(ids) ==
    /\ Len(ids) = Cardinality(sessions)
    /\ Range(ids) \subseteq sessions
    /\ IsInjective(ids)

SetSessionOrder(ids) ==
    /\ NamesLiveSet(ids)
    /\ order' = ids
    /\ orderWritten' = TRUE
    /\ arranged' = IF restore.phase = "none" THEN arranged ELSE ids
    /\ UNCHANGED <<sessions, layout, closed, proc, hands, clientVars, restoreVars,
                   layoutWritten, chosen, shutdown, reapVars>>

\* LayoutOK: the shape holds, the selected pane shows a session when there is
\* one to show, and both panes name live sessions.
LayoutFits(l) ==
    /\ ValidShape(l)
    /\ sessions # {} => Shown(l, l.selected) # None
    /\ Panes(l) \subseteq sessions

SetPaneLayout(l) ==
    /\ LayoutFits(l)
    /\ layout' = l
    /\ layoutWritten' = TRUE
    /\ chosen' = IF restore.phase = "none" THEN chosen ELSE l
    /\ UNCHANGED <<sessions, order, closed, proc, hands, clientVars, restoreVars,
                   orderWritten, arranged, shutdown, reapVars>>

-----------------------------------------------------------------------------
(* RestoreSessionSet.                                                        *)

\* The layouts ParseSessionSet lets through for a set of n sessions.
StoredLayouts(n) == {l \in LayoutOf(1..n) : ValidShape(l)}

RestoreBegins(n, stored) ==
    /\ ~restoring
    /\ restoring' = TRUE
    /\ restore' = [phase |-> "creating", stored |-> stored, created |-> <<>>,
                   cur |-> None, size |-> n]
    /\ orderWritten' = FALSE /\ layoutWritten' = FALSE
    /\ arranged' = <<>> /\ chosen' = DefaultLayout
    /\ UNCHANGED <<arrangementVars, closed, proc, hands, clientVars, shutdown, reapVars>>

Creating == restore.phase = "creating" /\ restore.cur = None
Unfinished == Creating /\ Len(restore.created) < restore.size

RestoreCreate(id) ==
    /\ Unfinished
    /\ Mint(id)
    /\ restore' = [restore EXCEPT !.cur = id]
    /\ UNCHANGED restoring

\* The plan skips the entry.
RestoreSkip ==
    /\ Unfinished
    /\ restore' = [restore EXCEPT !.created = Append(@, None)]
    /\ UNCHANGED <<arrangementVars, closed, proc, hands, clientVars, restoring,
                   writtenVars, shutdown, reapVars>>

\* The live sessions that replaced stored ones, in index order.
Restored == Filter(restore.created, sessions)

\* Mutant of RestoredOrder: the others come first.
RestoredOrderLast == Filter(order, Ids \ Range(Restored)) \o Restored

\* restoredOrder: those first, then every other in its order.
RestoredOrder == Restored \o Filter(order, Ids \ Range(Restored))

\* The stored layout with each index replaced by its session, if that is live.
Replaced(i) == IF i # None /\ i \in DOMAIN restore.created THEN restore.created[i] ELSE None
RestoredLayout == [restore.stored EXCEPT !.left = Replaced(@), !.right = Replaced(@)]

\* Mutant of RestoreApplies: the order is imposed on a client that wrote its own.
RestoreAppliesOrder ==
    /\ Creating
    /\ restore' = [restore EXCEPT !.phase = "applied"]
    /\ IF Restored = <<>> THEN UNCHANGED <<order, layout>>
       ELSE /\ order' = RestoredOrder
            /\ layout' = IF layoutWritten THEN layout ELSE NormalizedPanes(RestoredLayout, order')
    /\ UNCHANGED <<sessions, closed, proc, hands, clientVars, restoring, writtenVars, shutdown, reapVars>>
\* applyRestoredLocked, after the last entry or after the restore was stopped
\* before one (its context ended, the manager closed).
RestoreApplies ==
    /\ Creating
    /\ restore' = [restore EXCEPT !.phase = "applied"]
    /\ IF Restored = <<>> THEN UNCHANGED <<order, layout>>
       ELSE /\ order' = IF orderWritten THEN order ELSE RestoredOrder
            /\ layout' = IF layoutWritten THEN layout ELSE NormalizedPanes(RestoredLayout, order')
    /\ UNCHANGED <<sessions, closed, proc, hands, clientVars, restoring, writtenVars, shutdown, reapVars>>

RestoreReturns ==
    /\ restoring
    /\ restore.phase = "applied"
    /\ restoring' = FALSE
    /\ UNCHANGED <<arrangementVars, closed, proc, hands, clientVars, restore,
                   writtenVars, shutdown, reapVars>>

-----------------------------------------------------------------------------
\* CaptureSessionSet: the sessions that did not exit cleanly, in order, up to the
\* limit, with the layout cut down to them.
Kept(exited) ==
    LET there == Filter(order, Ids \ exited)
    IN  IF Len(there) <= MaxSetSessions THEN there ELSE SubSeq(there, 1, MaxSetSessions)

\* Mutant of Captured: the layout is cut down and not put in order.
CapturedRaw(exited) == Emptied(layout, Range(Kept(exited)))
Captured(exited) == NormalizedPanes(layout, Kept(exited))

-----------------------------------------------------------------------------

\* What goes on without a client or the host asking for it.
Carry(id) ==
    \/ StartFails(id) \/ Insert(id) \/ InsertRefused(id)
    \/ CloseHandler(id)
    \/ TeardownEnds(id)

Next ==
    \/ \E id \in Ids :
        \/ ClientCreate(id) \/ RestoreCreate(id) \/ Carry(id)
        \/ Close(id) \/ Attach(id) \/ Detach(id)
    \/ Reap \/ IdleWindowPasses
    \/ Shutdown \/ ShutdownReturns \/ ShutdownExpires
    \/ \E n \in 0..Cardinality(Ids) : \E ids \in [1..n -> Ids] : SetSessionOrder(ids)
    \/ \E l \in LayoutOf(Ids) : SetPaneLayout(l)
    \/ \E n \in 1..MaxEntries : \E stored \in StoredLayouts(n) : RestoreBegins(n, stored)
    \/ RestoreSkip \/ RestoreApplies \/ RestoreReturns

Spec == Init /\ [][Next]_vars

\* A fork returns, its creator goes on, a handler in somebody's hands is closed,
\* and a teardown ends (the kill ladder is bounded).
Fairness == \A id \in Ids : WF_vars(Carry(id))

FairSpec == Spec /\ Fairness

-----------------------------------------------------------------------------
(* Properties.                                                               *)

\* order holds exactly the live sessions, each once, through creates, closes,
\* client writes and restores that interleave.
OrderIsLiveSet == IsInjective(order) /\ Range(order) = sessions

\* The layout every viewer shares keeps its shape, shows live sessions only, and
\* its selected pane shows one as long as there is one.
LayoutShowsLive == LayoutFits(layout)

\* A running process is in the set or in the hands of somebody who will put it
\* there or close it: no step drops a process that nothing tears down.
NothingStranded ==
    \A id \in Ids : proc[id] \in {"forking", "running"} =>
        id \in sessions \/ hands[id] # "nobody"

\* After Shutdown no session is left to anyone: the set stays empty and every
\* process ends, also one that was being forked meanwhile.
ClosedEnds == closed ~> (\A id \in Ids : proc[id] \in {"unused", "gone"})

\* The reaper takes no session that is being watched and none that was created
\* within the idle window.
ReaperSpares == regretted = {}

\* Whatever a client arranged since the last restore began stands: its order
\* among the sessions still live, ...
ClientOrderStands ==
    Filter(order, Range(arranged)) = Filter(arranged, sessions)

\* ... and its layout as long as it shows live sessions.
ClientLayoutStands ==
    Panes(chosen) # {} /\ Panes(chosen) \subseteq sessions =>
        layout = chosen

\* A restore whose sessions are all there, and over which no client wrote, puts
\* them first in the stored order and shows the stored layout; sessions created
\* meanwhile come after.
RestoreRebuilds ==
    LET r == restore
    IN  /\ r.phase = "applied" /\ Len(r.created) = r.size
        /\ Range(r.created) \subseteq sessions
        /\ ~orderWritten /\ ~layoutWritten
        => /\ SubSeq(order, 1, r.size) = r.created
           /\ Panes(r.stored) # {} => layout = RestoredLayout

\* Whatever was captured, ParseSessionSet accepts, and restoring it would show
\* what was captured.
CaptureParses ==
    \A exited \in SUBSET sessions :
        LET l == Captured(exited)
        IN  /\ ValidShape(l)
            /\ Panes(l) \subseteq Range(Kept(exited))
            /\ Kept(exited) # <<>> => Panes(l) # {}
            /\ NormalizedPanes(l, Kept(exited)) = l

\* The order and the layout fit the live sessions and can be stored.
ArrangementInv == TypeOK /\ OrderIsLiveSet /\ LayoutShowsLive /\ CaptureParses

\* No restore overwrites what a client arranged meanwhile.
ClientsPrevail == ClientOrderStands /\ ClientLayoutStands
=============================================================================
