-------------------------- MODULE MCScreenDelivery --------------------------
(***************************************************************************)
(* Instances of ScreenDelivery for TLC.  All that a session can meet at once *)
(* is too much for one state space, so each behavior has a session, chosen   *)
(* at the start: what its application does and who looks at it.              *)
(***************************************************************************)
EXTENDS ScreenDelivery

CONSTANT Behaviors   \* the sessions of this run
VARIABLE session

\* A page that reconnects while the scrollback evicts; one that reconnects twice;
\* one whose ring is deeper than a replay; an application that uses the alternate
\* screen; one that erases its saved lines; another socket looking on.  The last
\* two follow a script: an erase that a page is told of on a socket that has not
\* resumed, after which its provisional floor is healed, twice; and such an erase
\* before a resume in the alternate screen, after which another socket's resume
\* drains a line, over which the floor is healed.
Plain == [outputs |-> 3, sockets |-> 2, capacity |-> 2, alt |-> FALSE, erases |-> FALSE,
          viewer |-> FALSE, script |-> <<>>, during |-> <<>>]
Behavior ==
    [evicts   |-> [Plain EXCEPT !.outputs = 4],
     returns  |-> [Plain EXCEPT !.sockets = 3],
     deep     |-> [Plain EXCEPT !.capacity = 4],
     alt      |-> [Plain EXCEPT !.alt = TRUE],
     erases   |-> [Plain EXCEPT !.erases = TRUE],
     watched  |-> [Plain EXCEPT !.outputs = 2, !.viewer = TRUE],
     heals    |-> [Plain EXCEPT !.outputs = 7, !.erases = TRUE, !.capacity = 1, !.sockets = 3,
                        !.script = <<"print", "print", "erase", "print", "redraw", "print", "print">>],
     drained  |-> [Plain EXCEPT !.outputs = 7, !.erases = TRUE, !.alt = TRUE, !.viewer = TRUE,
                        !.script = <<"print", "print", "erase", "enter", "exit", "print", "print">>,
                        !.during = <<"batch", "batch", "closed", "open", "batch">>]]

InSession(p) ==
    /\ outputs <= p.outputs /\ sockets <= p.sockets
    /\ p.alt \/ ~inAltScreen
    /\ p.erases \/ ~scrollbackClearedPending
    /\ p.viewer \/ ~viewer

\* The page of a script keeps its store and connects at three moments; another socket
\* comes, and goes, while it is away.  A script may say where the page's socket is at
\* its first outputs.
Scripted(p) ==
    p.script # <<>> =>
        /\ sockets' # sockets => store' = store /\ outputs \in {0, 3, p.outputs}
        /\ viewer' # viewer => outputs = 2 /\ conn = "closed"
        /\ outputs' # outputs /\ outputs' \in DOMAIN p.during => conn = p.during[outputs']
        /\ outputs' # outputs =>
           CASE p.script[outputs'] = "print"  -> PrintLine
             [] p.script[outputs'] = "redraw" -> Redraw(1)
             [] p.script[outputs'] = "erase"  -> EraseSavedLines
             [] p.script[outputs'] = "enter"  -> EnterAltScreen
             [] p.script[outputs'] = "exit"   -> ExitAltScreen

SessionInit == Init /\ session \in Behaviors /\ capacity = Behavior[session].capacity

SessionNext ==
    Next /\ UNCHANGED session /\ InSession(Behavior[session])' /\ Scripted(Behavior[session])

SessionSpec == SessionInit /\ [][SessionNext]_<<vars, session>>
=============================================================================
