----------------------------- MODULE MCPageLink -----------------------------
(***************************************************************************)
(* What a page and its server keep right over a lossy link, for TLC, one   *)
(* at a time: the bytes typed at the page, and the lines the terminal      *)
(* scrolled off, read back.  The ring by itself takes every capacity up to *)
(* 3 and enough commits to wrap the largest twice; the page reads a ring   *)
(* of eight lines.                                                         *)
(***************************************************************************)
EXTENDS HistoryPaging, InputDelivery

VARIABLE traffic  \* what this run is of, the keys or the lines
pageLinkVars == <<traffic, allVars, inputVars>>

RingAlone == capacity < LinesBefore /\ committed < 7 /\ Next /\ UNCHANGED pagingVars
LinesNext == RingAlone \/ (capacity = LinesBefore /\ PagingNext)
LinesInit == Init /\ PagingInit /\ buf = [i \in Slots |-> Row]

\* A page that has resumed and types nothing: no fair step of InputDelivery is possible.
Quiet(s) ==
    /\ typed = 0 /\ outbox = <<>> /\ bytesSent = 0 /\ bytesAcked = 0
    /\ lastServerEpoch = 1 /\ sock = s /\ answered = TRUE /\ warned = {}
    /\ sent = [t \in Sockets |-> <<>>] /\ down = [t \in Sockets |-> <<>>]
    /\ linked = [t \in Sockets |-> t = s]
    /\ bootEpoch = 1 /\ known = TRUE /\ received = 0 /\ owner = s
    /\ conn = [t \in Sockets |-> IF t = s THEN "reading" ELSE "closed"]
    /\ fenced = [t \in Sockets |-> FALSE] /\ reply = [t \in Sockets |-> NoReply]
    /\ lastAckSent = [t \in Sockets |-> 0]
    /\ dirty = FALSE /\ applied = <<>> /\ cuts = 0 /\ forgets = 0

\* Nor is one of the lines while none is committed.
LinkInit ==
    \/ traffic = "keys" /\ InputInit /\ LinesInit /\ capacity = 0
    \/ traffic = "lines" /\ Quiet(CHOOSE s \in Sockets : TRUE) /\ LinesInit
LinkNext ==
    /\ UNCHANGED traffic
    /\ \/ traffic = "keys" /\ InputNext /\ UNCHANGED allVars
       \/ traffic = "lines" /\ LinesNext /\ UNCHANGED inputVars
LinkSpec ==
    LinkInit /\ [][LinkNext]_pageLinkVars /\ Fairness /\ PagingFairness

=============================================================================
