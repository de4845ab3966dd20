---------------------------- MODULE InputDelivery ----------------------------
(***************************************************************************)
(* Reliable input, end to end, for one page: the outbox and its counters in  *)
(* web/src/connection.ts, the sockets between, and the page's ledger in      *)
(* terminal/client_registry.go with the acks handleResume and the flush      *)
(* scheduler send.  A page uses one resume key and resumes once per socket.  *)
(*                                                                         *)
(* A socket may outlive the page's interest in it: bytes sent before the     *)
(* page gave it up can reach the server after the next socket has resumed.   *)
(* Bytes are numbered as they are typed, the outbox is one sequence of them, *)
(* and a ledger step is atomic (LedgerRegistry models it lock by lock).      *)
(***************************************************************************)
EXTENDS Naturals, Sequences, FiniteSetsExt

CONSTANTS
    Sockets, NoSocket,
    MaxTyped,           \* bound: bytes typed
    MaxOutbox,          \* MAX_OUTBOX_BYTES
    MaxCuts,            \* bound: connections lost
    MaxForgets,         \* bound: ledgers reclaimed while the page was away
    MaxBoots,           \* bound: server processes, the first included
    TypingInHandshake,  \* may keys be typed between the resume and its ack
    ForgetUnacked       \* may a ledger be reclaimed that never acked a byte

ASSUME NoSocketAssumption == NoSocket \notin Sockets
ASSUME InputBoundAssumption ==
    /\ {MaxTyped, MaxOutbox, MaxCuts, MaxForgets} \subseteq Nat /\ MaxBoots \in Nat \ {0}
    /\ {TypingInHandshake, ForgetUnacked} \subseteq BOOLEAN

VARIABLES
    \* The page: ResumeState, the socket it uses, and whether that socket's
    \* resumeAck arrived.  warned are the bytes onServerRestart covered.
    typed, outbox, bytesSent, bytesAcked, lastServerEpoch, sock, answered, warned,
    \* Each socket: messages under way and whether it still carries them.
    sent, down, linked,
    \* The server: its boot, the page's ledger, and its side of each socket.
    bootEpoch, known, received, owner, conn, fenced, reply, lastAckSent, dirty,
    \* History and bounds.
    applied, cuts, forgets

outboxVars == <<typed, outbox, bytesSent, bytesAcked, lastServerEpoch, sock, answered, warned>>
wireVars == <<sent, down, linked>>
connVars == <<conn, fenced, reply, lastAckSent>>
ledgerVars == <<bootEpoch, known, received, owner, applied>>
boundVars == <<cuts, forgets>>
inputVars == <<outboxVars, wireVars, connVars, ledgerVars, dirty, boundVars>>

Bytes == 1..MaxTyped
Input(b) == [type |-> "input", byte |-> b]
ResumeFrame(n) == [type |-> "resume", sentBytes |-> n]
AckOnly(n) == [type |-> "ackOnly", received |-> n]
ResumeReply(n, epoch, lost) ==
    [type |-> "resumeAck", received |-> n, epoch |-> epoch, ledgerLost |-> lost]

NoReply == [received |-> 0, ledgerLost |-> FALSE]

\* The server's side of a socket: no goroutine, its read loop, handleResume
\* between the ledger and the write of the resumeAck.
Conn == {"closed", "reading", "answering"}

Upward == [type : {"input"}, byte : Bytes] \cup [type : {"resume"}, sentBytes : Nat]
Downward ==
    [type : {"ackOnly"}, received : Nat] \cup
    [type : {"resumeAck"}, received : Nat, epoch : Nat, ledgerLost : BOOLEAN]

PageTypes ==
    /\ typed \in 0..MaxTyped
    /\ outbox \in Seq(Bytes) /\ Len(outbox) <= MaxOutbox
    /\ bytesSent \in Nat /\ bytesAcked \in 0..bytesSent
    /\ Len(outbox) = bytesSent - bytesAcked
    /\ lastServerEpoch \in 0..MaxBoots
    /\ sock \in Sockets \cup {NoSocket}
    /\ answered \in BOOLEAN
    /\ warned \subseteq Bytes

WireTypes ==
    /\ sent \in [Sockets -> Seq(Upward)] /\ down \in [Sockets -> Seq(Downward)]
    /\ linked \in [Sockets -> BOOLEAN]

ServerTypes ==
    /\ bootEpoch \in 1..MaxBoots
    /\ known \in BOOLEAN
    /\ received \in Nat
    /\ owner \in Sockets \cup {NoSocket}
    /\ conn \in [Sockets -> Conn]
    /\ fenced \in [Sockets -> BOOLEAN]
    /\ reply \in [Sockets -> [received : Nat, ledgerLost : BOOLEAN]]
    /\ lastAckSent \in [Sockets -> Nat]
    /\ dirty \in BOOLEAN
    /\ applied \in Seq(Bytes)

InputTypeOK ==
    /\ PageTypes /\ WireTypes /\ ServerTypes
    /\ cuts \in 0..MaxCuts /\ forgets \in 0..MaxForgets

InputInit ==
    /\ typed = 0 /\ outbox = <<>> /\ bytesSent = 0 /\ bytesAcked = 0
    /\ lastServerEpoch = 0 /\ sock = NoSocket /\ answered = FALSE /\ warned = {}
    /\ sent = [s \in Sockets |-> <<>>]
    /\ down = [s \in Sockets |-> <<>>]
    /\ linked = [s \in Sockets |-> FALSE]
    /\ bootEpoch = 1 /\ known = FALSE /\ received = 0 /\ owner = NoSocket
    /\ conn = [s \in Sockets |-> "closed"]
    /\ fenced = [s \in Sockets |-> FALSE]
    /\ reply = [s \in Sockets |-> NoReply]
    /\ lastAckSent = [s \in Sockets |-> 0]
    /\ dirty = FALSE
    /\ applied = <<>> /\ cuts = 0 /\ forgets = 0

-----------------------------------------------------------------------------
(* The wire.  A socket that no longer carries swallows what is sent on it.   *)

Carry(channel, s, msgs) == IF linked[s] THEN [channel EXCEPT ![s] = @ \o msgs] ELSE channel

Inputs(bytes) == [i \in DOMAIN bytes |-> Input(bytes[i])]

\* The connection breaks, and from each direction a suffix is lost.
CutSocket(s) ==
    /\ linked[s]
    /\ cuts < MaxCuts
    /\ cuts' = cuts + 1
    /\ linked' = [linked EXCEPT ![s] = FALSE]
    /\ \E n \in 0..Len(sent[s]) : sent' = [sent EXCEPT ![s] = SubSeq(@, 1, n)]
    /\ \E n \in 0..Len(down[s]) : down' = [down EXCEPT ![s] = SubSeq(@, 1, n)]
    /\ UNCHANGED <<outboxVars, connVars, ledgerVars, dirty, forgets>>

-----------------------------------------------------------------------------
(* The page.                                                                 *)

\* The open handler: the resume leaves first, and from here on the page counts
\* as connected.
Open(s) ==
    /\ sock = NoSocket
    /\ conn[s] = "closed"
    /\ sock' = s
    /\ answered' = FALSE
    /\ linked' = [linked EXCEPT ![s] = TRUE]
    /\ sent' = [sent EXCEPT ![s] = <<ResumeFrame(bytesSent)>>]
    /\ down' = [down EXCEPT ![s] = <<>>]
    /\ conn' = [conn EXCEPT ![s] = "reading"]
    /\ UNCHANGED <<typed, outbox, bytesSent, bytesAcked, lastServerEpoch, warned,
                   fenced, reply, lastAckSent, ledgerVars, dirty, boundVars>>

\* sendBinary: the byte is queued, and sent at once when a socket is open.
Type ==
    /\ typed < MaxTyped
    /\ Len(outbox) < MaxOutbox
    /\ sock = NoSocket \/ answered \/ TypingInHandshake
    /\ typed' = typed + 1
    /\ outbox' = Append(outbox, typed')
    /\ bytesSent' = bytesSent + 1
    /\ sent' = IF sock = NoSocket THEN sent ELSE Carry(sent, sock, <<Input(typed')>>)
    /\ UNCHANGED <<bytesAcked, lastServerEpoch, sock, answered, warned, down, linked,
                   connVars, ledgerVars, dirty, boundVars>>

\* applyAck: acks are cumulative, a stale one changes nothing, and the outbox
\* keeps what is unacknowledged.
AckTo(n) == IF n <= bytesAcked THEN bytesAcked ELSE Min({n, bytesSent})

\* Mutant of Unacked: nothing is trimmed.
UnackedKeepsAll(n) == outbox

Unacked(n) == SubSeq(outbox, AckTo(n) - bytesAcked + 1, Len(outbox))

\* The message at the head of the socket in use; frames of a socket the page
\* gave up are never looked at.
Receives(s, type) ==
    /\ sock = s
    /\ down[s] # <<>>
    /\ Head(down[s]).type = type
    /\ down' = [down EXCEPT ![s] = Tail(@)]

RecvAck(s) ==
    /\ Receives(s, "ackOnly")
    /\ LET n == Head(down[s]).received
       IN  /\ outbox' = Unacked(n)
           /\ bytesAcked' = AckTo(n)
    /\ UNCHANGED <<typed, bytesSent, lastServerEpoch, sock, answered, warned,
                   sent, linked, connVars, ledgerVars, dirty, boundVars>>

\* Another boot of the server, or a ledger that is not the one the counters are
\* keyed to: the server cannot vouch for what was sent.
Restarted(ack) == lastServerEpoch # 0 /\ ack.epoch # lastServerEpoch
Forgot(ack) == ack.ledgerLost \/ (ack.received = 0 /\ bytesAcked > 0)

RecvResumeAck(s) ==
    /\ Receives(s, "resumeAck")
    /\ answered' = TRUE
    /\ lastServerEpoch' = Head(down[s]).epoch

\* The outbox is dropped, with a notice when it held anything.
RecvLoss(s) ==
    /\ RecvResumeAck(s)
    /\ Restarted(Head(down[s])) \/ Forgot(Head(down[s]))
    /\ bytesSent' = 0 /\ bytesAcked' = 0 /\ outbox' = <<>>
    /\ warned' = warned \cup Range(outbox)
    /\ UNCHANGED <<typed, sock, sent, linked, connVars, ledgerVars, dirty, boundVars>>

\* The outbox is trimmed to the ledger and what is left of it is sent again.
RecvResume(s) ==
    /\ RecvResumeAck(s)
    /\ ~Restarted(Head(down[s])) /\ ~Forgot(Head(down[s]))
    /\ LET n == Head(down[s]).received
       IN  /\ outbox' = Unacked(n)
           /\ bytesAcked' = AckTo(n)
           /\ sent' = Carry(sent, s, Inputs(outbox'))
    /\ UNCHANGED <<typed, bytesSent, sock, warned, linked, connVars, ledgerVars, dirty, boundVars>>

\* The page notices that its socket is gone (close event, heartbeat) and will
\* open another.
Abandon(s) ==
    /\ sock = s
    /\ ~linked[s]
    /\ sock' = NoSocket
    /\ answered' = FALSE
    /\ down' = [down EXCEPT ![s] = <<>>]
    /\ UNCHANGED <<typed, outbox, bytesSent, bytesAcked, lastServerEpoch, warned,
                   sent, linked, connVars, ledgerVars, dirty, boundVars>>

-----------------------------------------------------------------------------
(* The server: the read loop of a socket.                                    *)

Reads(s, type) ==
    /\ conn[s] = "reading"
    /\ ~fenced[s]
    /\ sent[s] # <<>>
    /\ Head(sent[s]).type = type
    /\ sent' = [sent EXCEPT ![s] = Tail(@)]

\* A resume finds or creates the page's ledger and takes it; the ack is read at
\* that moment and a previous owner is fenced.
TakeLedger(s) ==
    /\ Reads(s, "resume")
    /\ known' = TRUE
    /\ owner' = s
    /\ fenced' = [t \in Sockets |-> fenced[t] \/ (t = owner /\ t # s)]
    /\ reply' = [reply EXCEPT ![s] =
            [received |-> received, ledgerLost |-> ~known /\ Head(sent[s]).sentBytes > 0]]
    /\ conn' = [conn EXCEPT ![s] = "answering"]
    /\ UNCHANGED <<outboxVars, down, linked, lastAckSent, bootEpoch, received, applied,
                   dirty, boundVars>>

\* handleResume sends the resumeAck, unless the socket was superseded already.
AnswerResume(s) ==
    /\ conn[s] = "answering"
    /\ conn' = [conn EXCEPT ![s] = "reading"]
    /\ reply' = [reply EXCEPT ![s] = NoReply]
    /\ IF fenced[s]
       THEN UNCHANGED <<down, lastAckSent, dirty>>
       ELSE /\ down' = Carry(down, s,
                    <<ResumeReply(reply[s].received, bootEpoch, reply[s].ledgerLost)>>)
            /\ lastAckSent' = [lastAckSent EXCEPT ![s] = reply[s].received]
            /\ dirty' = TRUE
    /\ UNCHANGED <<outboxVars, sent, linked, fenced, ledgerVars, boundVars>>

\* Mutant of ApplyInput: nothing wakes the scheduler for the ack.
ApplyInputQuietly(s) ==
    /\ Reads(s, "input")
    /\ owner = s
    /\ received' = received + 1
    /\ applied' = Append(applied, Head(sent[s]).byte)
    /\ UNCHANGED <<outboxVars, down, linked, connVars, bootEpoch, known, owner, dirty, boundVars>>

\* Mutant of ApplyInput: a superseded socket still writes.
ApplyInputByAnyone(s) ==
    /\ conn[s] = "reading" /\ sent[s] # <<>> /\ Head(sent[s]).type = "input"
    /\ sent' = [sent EXCEPT ![s] = Tail(@)]
    /\ received' = received + 1
    /\ applied' = Append(applied, Head(sent[s]).byte)
    /\ dirty' = TRUE
    /\ UNCHANGED <<outboxVars, down, linked, connVars, bootEpoch, known, owner, boundVars>>

\* Input of the owner is written to the PTY and counted as one step, and the
\* scheduler is woken so that it is acknowledged even when nothing is echoed.
ApplyInput(s) ==
    /\ Reads(s, "input")
    /\ owner = s
    /\ received' = received + 1
    /\ applied' = Append(applied, Head(sent[s]).byte)
    /\ dirty' = TRUE
    /\ UNCHANGED <<outboxVars, down, linked, connVars, bootEpoch, known, owner, boundVars>>

\* The read loop ends: the connection broke (with or without reading what still
\* arrived) or a resume elsewhere superseded it.  A departing owner gives up
\* the ledger.
EndConn(s) ==
    /\ conn[s] = "reading"
    /\ fenced[s] \/ ~linked[s]
    /\ conn' = [conn EXCEPT ![s] = "closed"]
    /\ linked' = [linked EXCEPT ![s] = FALSE]
    /\ fenced' = [fenced EXCEPT ![s] = FALSE]
    /\ lastAckSent' = [lastAckSent EXCEPT ![s] = 0]
    /\ sent' = [sent EXCEPT ![s] = <<>>]
    /\ owner' = IF owner = s THEN NoSocket ELSE owner
    /\ UNCHANGED <<outboxVars, down, reply, bootEpoch, known, received, applied, dirty, boundVars>>

-----------------------------------------------------------------------------
(* The server: the flush scheduler, the retention of ledgers, the process.   *)

\* A socket is attached to the ledger from its resume until its loop ends.
Attached(s) ==
    conn[s] = "answering" \/ (conn[s] = "reading" /\ (owner = s \/ fenced[s]))

\* A pass of the scheduler tells every attached socket a count it was not told,
\* in a content frame or, when there is none, in a bare ack.
FlushPass ==
    /\ dirty
    /\ dirty' = FALSE
    /\ LET targets == {s \in Sockets : Attached(s) /\ received # lastAckSent[s]}
       IN  /\ down' = [s \in Sockets |->
                    IF s \in targets /\ linked[s]
                    THEN Append(down[s], AckOnly(received)) ELSE down[s]]
           /\ lastAckSent' = [s \in Sockets |->
                    IF s \in targets THEN received ELSE lastAckSent[s]]
    /\ UNCHANGED <<outboxVars, sent, linked, conn, fenced, reply, ledgerVars, boundVars>>

\* The idle GC or the cap reclaims the ledger while no socket is attached to it.
ForgetLedger ==
    /\ known
    /\ forgets < MaxForgets
    /\ \A s \in Sockets : ~Attached(s)
    /\ bytesAcked > 0 \/ ForgetUnacked
    /\ known' = FALSE
    /\ received' = 0
    /\ forgets' = forgets + 1
    /\ UNCHANGED <<outboxVars, wireVars, connVars, bootEpoch, owner, applied, dirty, cuts>>

\* The server process is replaced: its ledgers and its ends of the sockets are
\* gone; what it had sent may still arrive.
Restart ==
    /\ bootEpoch < MaxBoots
    /\ bootEpoch' = bootEpoch + 1
    /\ known' = FALSE /\ received' = 0 /\ owner' = NoSocket
    /\ conn' = [s \in Sockets |-> "closed"]
    /\ fenced' = [s \in Sockets |-> FALSE]
    /\ reply' = [s \in Sockets |-> NoReply]
    /\ lastAckSent' = [s \in Sockets |-> 0]
    /\ dirty' = FALSE
    /\ linked' = [s \in Sockets |-> FALSE]
    /\ sent' = [s \in Sockets |-> <<>>]
    /\ UNCHANGED <<outboxVars, down, applied, boundVars>>

-----------------------------------------------------------------------------

\* What the page and the server do about a socket without being made to.
Progress(s) ==
    \/ Open(s)
    \/ RecvAck(s) \/ RecvLoss(s) \/ RecvResume(s)
    \/ Abandon(s)
    \/ TakeLedger(s) \/ AnswerResume(s) \/ ApplyInput(s) \/ EndConn(s)

InputNext ==
    \/ Type \/ FlushPass \/ ForgetLedger \/ Restart
    \/ \E s \in Sockets : Progress(s) \/ CutSocket(s)

InputSpec == InputInit /\ [][InputNext]_inputVars

\* The page retries as long as it has no socket, frames that arrive are handled
\* at either end, each end notices a broken connection in bounded time (the
\* heartbeats), and the scheduler runs when woken.  Nothing makes a user type, a
\* connection break or a server restart.
Fairness ==
    /\ WF_inputVars(FlushPass)
    /\ WF_inputVars(\E s \in Sockets : Open(s))
    /\ \A s \in Sockets :
        /\ WF_inputVars(RecvAck(s) \/ RecvLoss(s) \/ RecvResume(s))
        /\ WF_inputVars(Abandon(s))
        /\ WF_inputVars(TakeLedger(s) \/ AnswerResume(s) \/ ApplyInput(s))
        /\ WF_inputVars(EndConn(s))

FairSpec == InputSpec /\ Fairness

-----------------------------------------------------------------------------
(* Properties.                                                               *)

\* The application reads every byte at most once and in the order typed, across
\* reconnects, superseded sockets, forgotten ledgers and restarts.
AppliedInOrder ==
    \A i, j \in DOMAIN applied : i < j => applied[i] < applied[j]

\* No keystroke vanishes: a byte that left the outbox was run, or the page said
\* that input may have been lost.
NoSilentLoss ==
    1..typed \subseteq Range(outbox) \cup Range(applied) \cup warned

\* While the counters and the ledger belong together, the page has not been
\* acknowledged more than the ledger counts, nor the ledger counted more than
\* the page sent.  (They do not across a loss the page was not told of yet.)
CountersAgree ==
    sock # NoSocket /\ answered /\ owner = sock /\ linked[sock] =>
        bytesAcked <= received /\ received <= bytesSent

\* At most once, in order, nothing dropped without notice, and two counters that
\* can still be compared.
DeliveryInv == InputTypeOK /\ AppliedInOrder /\ NoSilentLoss /\ CountersAgree

\* The page and the server implement the promise.
Reliable == INSTANCE ReliableInput WITH
    accepted <- typed, delivered <- applied

KeepsPromise == Reliable!Spec

\* Every accepted byte is acknowledged in the end, even by an application that
\* echoes nothing: the outbox does not stay full.
OutboxDrains == []<>(outbox = <<>>)

=============================================================================
