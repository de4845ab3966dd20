------------------------- MODULE InputDeliveryProofs -------------------------
(***************************************************************************)
(* Reliable input, for any number of sockets, bytes, cuts, reclaims and      *)
(* server processes: what the page promises (DeliveryInv) holds, and every   *)
(* step is one of the promise (ReliableInput).                               *)
(*                                                                         *)
(* The argument is about two counters that may drift apart.  They are in     *)
(* step while the page is keyed to this boot and was acknowledged no more    *)
(* than the ledger counts (InStep); then Floor + received is the last byte   *)
(* run, and what travels to the ledger's owner starts with the next one      *)
(* (UpContinues).  Once out of step, the ledger counts nothing, and nothing  *)
(* travels to it before the page was answered and has put itself in step     *)
(* (AnswersFit, WaitingIsQuiet).                                             *)
(***************************************************************************)
EXTENDS InputDelivery, SequenceTheorems, TLAPS

\* The byte before the first one the page's counters count.
Floor == typed - bytesSent

\* Bytes decided: run, or covered by a notice.
Decided(n) == 1..n \subseteq Range(applied) \cup warned

\* The counters of the page and the ledger belong together.
InStep == lastServerEpoch \in {0, bootEpoch} /\ bytesAcked <= received

\* The outbox holds the newest bytes, and every older one is decided.
OutboxIsTail ==
    /\ bytesSent <= typed
    /\ \A i \in 1..Len(outbox) : outbox[i] = typed - Len(outbox) + i
    /\ Decided(typed - Len(outbox))

\* What was run, in order, and how far.
AppliedIsTyped ==
    /\ \A i \in 1..Len(applied) : applied[i] <= typed
    /\ InStep => received <= bytesSent /\ Decided(Floor + received)
    /\ ForgetUnacked = FALSE =>
            /\ AppliedInOrder
            /\ InStep => \A i \in 1..Len(applied) : applied[i] <= Floor + received
    /\ ~InStep => received = 0
    /\ ~known => received = 0
    /\ lastServerEpoch <= bootEpoch
    /\ lastServerEpoch = 0 => bytesAcked = 0 /\ received = 0 /\ Len(applied) = 0

\* A socket carries only while the page uses it and the server reads it.
LinksAreHeld ==
    \A s \in Sockets :
        /\ linked[s] => sock = s /\ conn[s] # "closed"
        /\ sock # s => Len(down[s]) = 0
        /\ owner = s => conn[s] # "closed" /\ ~fenced[s] /\ known
        /\ fenced[s] => conn[s] # "closed"
        /\ conn[s] = "closed" => Len(sent[s]) = 0
        /\ conn[s] = "answering" => owner = s \/ fenced[s]
        /\ conn[s] = "reading" /\ ~Attached(s) => Len(down[s]) = 0

\* A resume travels alone, and input only behind the answer to one.
UpIsOrdered ==
    \A s \in Sockets : \A i \in 1..Len(sent[s]) :
        /\ sent[s][i].type = "resume" => Len(sent[s]) = 1 /\ ~Attached(s)
        /\ sent[s][i].type = "input" =>
                /\ Attached(s) /\ conn[s] = "reading" /\ lastServerEpoch # 0
                /\ sock = s => answered

\* Input under way to the ledger's owner starts with the byte the ledger lacks
\* and has no gap; on the page's own socket it reaches to the newest byte.
UpContinues ==
    \A s \in Sockets : owner = s =>
        /\ Len(sent[s]) > 0 => InStep /\ Len(sent[s]) <= bytesSent - received
        /\ \A i \in 1..Len(sent[s]) : sent[s][i] = Input(Floor + received + i)
        /\ sock = s /\ answered /\ linked[s] =>
                InStep /\ Len(sent[s]) = bytesSent - received

\* The ledger was reclaimed under a page that had not been told of it; nothing
\* can reach its successor before the page has been answered anew.
Stranded == received = 0 /\ ~linked[sock] /\ (owner # NoSocket => Len(sent[owner]) = 0)

\* A count the page may be told: of bytes decided, and no more than the ledger
\* counts while they are in step.
Honest(n) ==
    /\ n <= bytesSent /\ Decided(Floor + n)
    /\ InStep => n <= received \/ Stranded
    /\ lastServerEpoch = 0 => n = 0

\* A resumeAck, or the reply it will carry, of the page's socket.
Fits(n, epoch, lost) ==
    /\ Honest(n)
    /\ epoch \in 1..bootEpoch /\ epoch >= lastServerEpoch
    /\ epoch = bootEpoch => received \in {n, 0}
    /\ linked[sock] => epoch = bootEpoch /\ received = n
    /\ lost => n = 0
    /\ lastServerEpoch # 0 /\ epoch # lastServerEpoch => n = 0
    /\ \A i \in 1..Len(down[sock]) : down[sock][i].received = n
    /\ owner # NoSocket => Len(sent[owner]) = 0

\* Every count under way to the page is of bytes decided.
AcksAreHonest ==
    sock # NoSocket => \A i \in 1..Len(down[sock]) : Honest(down[sock][i].received)

\* A socket's resume is answered once, and the page knows when.
AnswerIsAlone ==
    sock # NoSocket =>
        /\ \A i \in 1..Len(down[sock]) : down[sock][i].type = "resumeAck" =>
                /\ ~answered /\ conn[sock] # "answering"
                /\ conn[sock] = "reading" => Attached(sock)
        /\ \A i, j \in 1..Len(down[sock]) :
                down[sock][i].type = "resumeAck" /\ down[sock][j].type = "resumeAck" => i = j
        /\ answered => /\ conn[sock] = "closed" \/ (conn[sock] = "reading" /\ Attached(sock))
                       /\ lastServerEpoch # 0

\* The answer under way, and the one handleResume is about to send.
AnswersFit ==
    sock # NoSocket =>
        /\ \A i \in 1..Len(down[sock]) : down[sock][i].type = "resumeAck" =>
                Fits(down[sock][i].received, down[sock][i].epoch, down[sock][i].ledgerLost)
        /\ conn[sock] = "answering" /\ linked[sock] /\ ~fenced[sock] =>
                Fits(reply[sock].received, bootEpoch, reply[sock].ledgerLost)

\* While the page waits for the answer nothing is run.
WaitingIsQuiet ==
    sock # NoSocket /\ ~answered /\ Attached(sock) /\ owner # NoSocket =>
        Len(sent[owner]) = 0

Sound ==
    /\ OutboxIsTail /\ AppliedIsTyped
    /\ LinksAreHeld /\ UpIsOrdered /\ UpContinues
    /\ AcksAreHonest /\ AnswerIsAlone /\ AnswersFit /\ WaitingIsQuiet

DeliveryProofInv == InputTypeOK /\ Sound

-----------------------------------------------------------------------------
(* Operators.                                                                *)

LEMMA MinOfTwo ==
    ASSUME NEW a \in Nat, NEW b \in Nat
    PROVE  Min({a, b}) = IF a <= b THEN a ELSE b
<1> DEFINE m == IF a <= b THEN a ELSE b
<1>1. m \in {a, b} /\ \A y \in {a, b} : m <= y
  OBVIOUS
<1>2. \A x \in {a, b} : (\A y \in {a, b} : x <= y) => x = m
  OBVIOUS
<1> QED BY <1>1, <1>2 DEF Min

LEMMA AckToBounds ==
    ASSUME InputTypeOK, NEW n \in Nat
    PROVE  /\ AckTo(n) \in bytesAcked..bytesSent
           /\ n <= bytesSent => AckTo(n) = IF n <= bytesAcked THEN bytesAcked ELSE n
           /\ AckTo(n) = bytesAcked \/ AckTo(n) <= n
<1>1. bytesAcked \in Nat /\ bytesSent \in Nat /\ bytesAcked <= bytesSent
  BY DEF InputTypeOK, PageTypes
<1> QED BY <1>1, MinOfTwo DEF AckTo

LEMMA UnackedIs ==
    ASSUME InputTypeOK, NEW n \in Nat
    PROVE  /\ Unacked(n) \in Seq(Bytes)
           /\ Len(Unacked(n)) = bytesSent - AckTo(n)
           /\ \A i \in 1..Len(Unacked(n)) : Unacked(n)[i] = outbox[AckTo(n) - bytesAcked + i]
<1>1. /\ bytesAcked \in Nat /\ bytesSent \in Nat /\ outbox \in Seq(Bytes)
      /\ Len(outbox) = bytesSent - bytesAcked
  BY DEF InputTypeOK, PageTypes
<1>2. AckTo(n) \in Nat /\ bytesAcked <= AckTo(n) /\ AckTo(n) <= bytesSent
  BY AckToBounds, <1>1
<1> DEFINE k == AckTo(n) - bytesAcked
<1>3. k \in Nat /\ k <= Len(outbox)
  BY <1>1, <1>2
<1> HIDE DEF k
<1>4. /\ SubSeq(outbox, k + 1, Len(outbox)) \in Seq(Bytes)
      /\ Len(SubSeq(outbox, k + 1, Len(outbox))) = Len(outbox) - k
      /\ \A i \in 1..(Len(outbox) - k) :
            SubSeq(outbox, k + 1, Len(outbox))[i] = outbox[k + i]
  <2>1. \A i \in (k + 1)..Len(outbox) : outbox[i] \in Bytes
    BY <1>1, <1>3
  <2>2. k + 1 \in Int /\ Len(outbox) \in Int
    BY <1>1, <1>3
  <2>3. /\ SubSeq(outbox, k + 1, Len(outbox)) \in Seq(Bytes)
        /\ Len(SubSeq(outbox, k + 1, Len(outbox))) =
             IF k + 1 <= Len(outbox) THEN Len(outbox) - (k + 1) + 1 ELSE 0
        /\ \A i \in 1..(Len(outbox) - (k + 1) + 1) :
             SubSeq(outbox, k + 1, Len(outbox))[i] = outbox[(k + 1) + i - 1]
    BY <2>1, <2>2, SubSeqProperties
  <2>4. Len(outbox) - (k + 1) + 1 = Len(outbox) - k
    BY <1>1, <1>3
  <2>5. \A i \in 1..(Len(outbox) - k) : (k + 1) + i - 1 = k + i
    BY <1>1, <1>3
  <2> QED BY <1>1, <1>3, <2>3, <2>4, <2>5
<1>5. Unacked(n) = SubSeq(outbox, k + 1, Len(outbox))
  BY DEF Unacked, k
<1>6. Len(outbox) - k = bytesSent - AckTo(n)
  BY <1>1, <1>2 DEF k
<1> QED BY <1>4, <1>5, <1>6 DEF k

\* A message taken from the head of a channel.
LEMMA TailIs ==
    ASSUME NEW S, NEW q \in Seq(S), q # <<>>
    PROVE  /\ Head(q) = q[1] /\ Head(q) \in S
           /\ Tail(q) \in Seq(S) /\ Len(Tail(q)) = Len(q) - 1 /\ Len(q) \in Nat \ {0}
           /\ \A i \in 1..Len(Tail(q)) : Tail(q)[i] = q[i + 1] /\ i + 1 \in 1..Len(q)
BY HeadTailProperties, EmptySeq

LEMMA PrefixIs ==
    ASSUME NEW S, NEW q \in Seq(S), NEW n \in 0..Len(q)
    PROVE  /\ SubSeq(q, 1, n) \in Seq(S) /\ Len(SubSeq(q, 1, n)) = n
           /\ \A i \in 1..n : SubSeq(q, 1, n)[i] = q[i]
<1>1. Len(q) \in Nat /\ \A i \in 1..n : q[i] \in S
  OBVIOUS
<1> QED BY <1>1, SubSeqProperties

LEMMA InputsAre ==
    ASSUME NEW q \in Seq(Bytes)
    PROVE  /\ Inputs(q) \in Seq(Upward) /\ Len(Inputs(q)) = Len(q)
           /\ \A i \in 1..Len(q) : Inputs(q)[i] = Input(q[i])
<1>1. Len(q) \in Nat /\ DOMAIN q = 1..Len(q) /\ \A i \in 1..Len(q) : q[i] \in Bytes
  OBVIOUS
<1>2. \A i \in 1..Len(q) : Input(q[i]) \in Upward
  BY <1>1 DEF Input, Upward
<1>3. Inputs(q) \in [1..Len(q) -> Upward]
  BY <1>1, <1>2 DEF Inputs
<1> QED BY <1>1, <1>3 DEF Inputs

LEMMA CarryUp ==
    ASSUME InputTypeOK, NEW s \in Sockets, NEW msgs \in Seq(Upward)
    PROVE  /\ Carry(sent, s, msgs) \in [Sockets -> Seq(Upward)]
           /\ \A t \in Sockets \ {s} : Carry(sent, s, msgs)[t] = sent[t]
           /\ Carry(sent, s, msgs)[s] = IF linked[s] THEN sent[s] \o msgs ELSE sent[s]
BY ConcatProperties DEF InputTypeOK, WireTypes, Carry

LEMMA CarryDown ==
    ASSUME InputTypeOK, NEW s \in Sockets, NEW msgs \in Seq(Downward)
    PROVE  /\ Carry(down, s, msgs) \in [Sockets -> Seq(Downward)]
           /\ \A t \in Sockets \ {s} : Carry(down, s, msgs)[t] = down[t]
           /\ Carry(down, s, msgs)[s] = IF linked[s] THEN down[s] \o msgs ELSE down[s]
BY ConcatProperties DEF InputTypeOK, WireTypes, Carry

LEMMA RangeAppend ==
    ASSUME NEW S, NEW q \in Seq(S), NEW e \in S
    PROVE  Range(Append(q, e)) = Range(q) \cup {e}
<1>1. Len(q) \in Nat /\ DOMAIN q = 1..Len(q) /\ DOMAIN Append(q, e) = 1..(Len(q) + 1)
  OBVIOUS
<1>2. \A i \in 1..Len(q) : Append(q, e)[i] = q[i]
  OBVIOUS
<1>3. Append(q, e)[Len(q) + 1] = e
  OBVIOUS
<1> QED BY <1>1, <1>2, <1>3 DEF Range

-----------------------------------------------------------------------------
(* Types.                                                                    *)

\* Messages stay messages.
LEMMA MessageTypes ==
    /\ \A b \in Bytes : Input(b) \in Upward
    /\ \A n \in Nat : ResumeFrame(n) \in Upward /\ AckOnly(n) \in Downward
    /\ \A n, e \in Nat, lost \in BOOLEAN : ResumeReply(n, e, lost) \in Downward
BY DEF Input, ResumeFrame, AckOnly, ResumeReply, Upward, Downward

\* What a message carries, by its type.
LEMMA MessageFields ==
    /\ \A m \in Upward : /\ m.type \in {"input", "resume"}
                         /\ m.type = "input" => m.byte \in Bytes /\ m = Input(m.byte)
                         /\ m.type = "resume" => m.sentBytes \in Nat
    /\ \A m \in Downward : /\ m.type \in {"ackOnly", "resumeAck"} /\ m.received \in Nat
                           /\ m.type = "resumeAck" => m.epoch \in Nat /\ m.ledgerLost \in BOOLEAN
BY DEF Input, Upward, Downward

\* The bounds are numbers.
LEMMA Numbers ==
    /\ MaxTyped \in Nat /\ MaxOutbox \in Nat /\ MaxCuts \in Nat
    /\ MaxForgets \in Nat /\ MaxBoots \in Nat \ {0}
BY InputBoundAssumption

\* The page's variables, the wire's and the server's, when left alone.
LEMMA PageUnchanged == PageTypes /\ UNCHANGED outboxVars => PageTypes'
BY DEF PageTypes, outboxVars
LEMMA WireUnchanged == WireTypes /\ UNCHANGED wireVars => WireTypes'
BY DEF WireTypes, wireVars
LEMMA ServerUnchanged ==
    ServerTypes /\ UNCHANGED <<connVars, ledgerVars, dirty>> => ServerTypes'
BY DEF ServerTypes, connVars, ledgerVars
LEMMA BoundsUnchanged == InputTypeOK /\ UNCHANGED boundVars =>
    cuts' \in 0..MaxCuts /\ forgets' \in 0..MaxForgets
BY DEF InputTypeOK, boundVars

LEMMA TypeInit == InputInit => InputTypeOK
<1> SUFFICES ASSUME InputInit PROVE InputTypeOK
  OBVIOUS
<1>1. PageTypes
  <2>1. <<>> \in Seq(Bytes) /\ Len(<<>>) = 0
    OBVIOUS
  <2>2. outbox \in Seq(Bytes) /\ Len(outbox) = 0 /\ 0 <= MaxOutbox
    BY <2>1, Numbers DEF InputInit
  <2>3. typed \in 0..MaxTyped /\ lastServerEpoch \in 0..MaxBoots
    BY Numbers DEF InputInit
  <2>4. /\ bytesSent = 0 /\ bytesAcked = 0 /\ sock = NoSocket /\ answered = FALSE
        /\ warned = {}
    BY DEF InputInit
  <2>5. Len(outbox) <= MaxOutbox /\ Len(outbox) = bytesSent - bytesAcked
    BY <2>2, <2>4, Numbers
  <2>6. bytesSent \in Nat /\ bytesAcked \in 0..bytesSent /\ warned \subseteq Bytes
    BY <2>4
  <2> QED BY <2>2, <2>3, <2>4, <2>5, <2>6 DEF PageTypes
<1>2. WireTypes
  BY DEF InputInit, WireTypes
<1>3. ServerTypes
  <2>1. <<>> \in Seq(Bytes) /\ NoReply \in [received : Nat, ledgerLost : BOOLEAN]
    BY DEF NoReply
  <2>2. bootEpoch \in 1..MaxBoots
    BY Numbers DEF InputInit
  <2> QED BY <2>1, <2>2 DEF InputInit, ServerTypes, Conn
<1> QED BY <1>1, <1>2, <1>3, Numbers DEF InputInit, InputTypeOK

LEMMA TypeCut == ASSUME InputTypeOK, NEW s \in Sockets, CutSocket(s) PROVE InputTypeOK'
<1>1. PICK n \in 0..Len(sent[s]) : sent' = [sent EXCEPT ![s] = SubSeq(@, 1, n)]
  BY DEF CutSocket
<1>2. PICK m \in 0..Len(down[s]) : down' = [down EXCEPT ![s] = SubSeq(@, 1, m)]
  BY DEF CutSocket
<1>3. SubSeq(sent[s], 1, n) \in Seq(Upward) /\ SubSeq(down[s], 1, m) \in Seq(Downward)
  BY PrefixIs DEF InputTypeOK, WireTypes
<1>4. WireTypes'
  BY <1>1, <1>2, <1>3 DEF InputTypeOK, WireTypes, CutSocket
<1>5. PageTypes' /\ ServerTypes'
  BY PageUnchanged, ServerUnchanged DEF InputTypeOK, CutSocket
<1> QED BY <1>4, <1>5, Numbers DEF InputTypeOK, CutSocket

LEMMA TypeOpen == ASSUME InputTypeOK, NEW s \in Sockets, Open(s) PROVE InputTypeOK'
<1>1. <<ResumeFrame(bytesSent)>> \in Seq(Upward)
  BY MessageTypes DEF InputTypeOK, PageTypes
<1>2. WireTypes'
  BY <1>1 DEF InputTypeOK, WireTypes, Open
<1>3. PageTypes'
  BY DEF InputTypeOK, PageTypes, Open
<1>4. ServerTypes'
  BY DEF InputTypeOK, ServerTypes, Open, ledgerVars, Conn
<1> QED BY <1>2, <1>3, <1>4 DEF InputTypeOK, Open, boundVars

LEMMA TypeType == ASSUME InputTypeOK, Type PROVE InputTypeOK'
<1>1. typed \in Nat /\ typed' = typed + 1 /\ typed' \in 0..MaxTyped /\ typed' \in Bytes
  BY Numbers DEF Type, InputTypeOK, PageTypes, Bytes
<1>2. /\ outbox' \in Seq(Bytes) /\ Len(outbox') = Len(outbox) + 1
      /\ Len(outbox) < MaxOutbox /\ Len(outbox) \in Nat
  BY <1>1, AppendProperties, LenProperties DEF Type, InputTypeOK, PageTypes
<1>3. <<Input(typed')>> \in Seq(Upward)
  BY <1>1, MessageTypes
<1>4. sent' \in [Sockets -> Seq(Upward)]
  <2>1. CASE sock = NoSocket
    BY <2>1 DEF Type, InputTypeOK, WireTypes
  <2>2. CASE sock # NoSocket
    <3>1. sock \in Sockets
      BY <2>2 DEF InputTypeOK, PageTypes
    <3> QED BY <1>3, <2>2, <3>1, CarryUp DEF Type
  <2> QED BY <2>1, <2>2
<1>5. PageTypes'
  BY <1>1, <1>2, Numbers DEF InputTypeOK, PageTypes, Type
<1>6. WireTypes'
  BY <1>4 DEF InputTypeOK, WireTypes, Type
<1>7. ServerTypes'
  BY ServerUnchanged DEF InputTypeOK, Type
<1> QED BY <1>5, <1>6, <1>7, BoundsUnchanged DEF InputTypeOK, Type

LEMMA TypeReceives ==
    ASSUME InputTypeOK, NEW s \in Sockets, NEW type, Receives(s, type)
    PROVE  /\ Head(down[s]) \in Downward /\ Head(down[s]).received \in Nat
           /\ down' \in [Sockets -> Seq(Downward)]
BY TailIs, MessageFields DEF InputTypeOK, WireTypes, Receives

LEMMA TypeUnacked ==
    ASSUME InputTypeOK, NEW n \in Nat
    PROVE  /\ Unacked(n) \in Seq(Bytes) /\ Len(Unacked(n)) <= MaxOutbox
           /\ AckTo(n) \in 0..bytesSent /\ Len(Unacked(n)) = bytesSent - AckTo(n)
<1>1. /\ bytesAcked \in Nat /\ bytesSent \in Nat /\ bytesSent - bytesAcked <= MaxOutbox
  BY DEF InputTypeOK, PageTypes
<1>2. AckTo(n) \in bytesAcked..bytesSent
  BY AckToBounds
<1>3. Unacked(n) \in Seq(Bytes) /\ Len(Unacked(n)) = bytesSent - AckTo(n)
  BY UnackedIs
<1>4. /\ AckTo(n) \in 0..bytesSent
      /\ bytesSent - AckTo(n) <= MaxOutbox
  BY <1>1, <1>2, Numbers
<1> QED BY <1>3, <1>4

LEMMA TypeRecvAck == ASSUME InputTypeOK, NEW s \in Sockets, RecvAck(s) PROVE InputTypeOK'
<1> DEFINE n == Head(down[s]).received
<1>1. n \in Nat /\ down' \in [Sockets -> Seq(Downward)]
  BY TypeReceives DEF RecvAck
<1>2. /\ outbox' = Unacked(n) /\ bytesAcked' = AckTo(n)
      /\ UNCHANGED <<typed, bytesSent, lastServerEpoch, sock, answered, warned>>
  BY DEF RecvAck
<1> HIDE DEF n
<1>3. PageTypes'
  BY <1>1, <1>2, TypeUnacked DEF InputTypeOK, PageTypes
<1>4. WireTypes'
  BY <1>1 DEF InputTypeOK, WireTypes, RecvAck
<1>5. ServerTypes'
  BY ServerUnchanged DEF InputTypeOK, RecvAck
<1> QED BY <1>3, <1>4, <1>5, BoundsUnchanged DEF InputTypeOK, RecvAck

LEMMA TypeRecvResumeAck ==
    ASSUME InputTypeOK, NEW s \in Sockets, RecvResumeAck(s), Head(down[s]).epoch <= MaxBoots
    PROVE  /\ Head(down[s]).received \in Nat
           /\ down' \in [Sockets -> Seq(Downward)]
           /\ answered' = TRUE /\ lastServerEpoch' \in 0..MaxBoots
<1>1. Receives(s, "resumeAck")
  BY DEF RecvResumeAck
<1>2. Head(down[s]).epoch \in Nat
  BY <1>1, TypeReceives, MessageFields DEF Receives
<1> QED BY <1>1, <1>2, TypeReceives, Numbers DEF RecvResumeAck

LEMMA TypeRecvLoss ==
    ASSUME InputTypeOK, NEW s \in Sockets, RecvLoss(s), Head(down[s]).epoch <= MaxBoots
    PROVE  InputTypeOK'
<1>1. Range(outbox) \subseteq Bytes /\ <<>> \in Seq(Bytes) /\ Len(<<>>) = 0
  BY DEF InputTypeOK, PageTypes, Range
<1>2. RecvResumeAck(s)
  BY DEF RecvLoss
<1>3. PageTypes'
  <2>1. outbox' \in Seq(Bytes) /\ Len(outbox') = 0 /\ 0 <= MaxOutbox /\ warned' \subseteq Bytes
    BY <1>1, Numbers DEF InputTypeOK, PageTypes, RecvLoss
  <2>2. answered' = TRUE /\ lastServerEpoch' \in 0..MaxBoots
    BY <1>2, TypeRecvResumeAck
  <2> QED BY <2>1, <2>2 DEF InputTypeOK, PageTypes, RecvLoss
<1>4. WireTypes'
  BY <1>2, TypeRecvResumeAck DEF InputTypeOK, WireTypes, RecvLoss
<1>5. ServerTypes'
  BY ServerUnchanged DEF InputTypeOK, RecvLoss
<1> QED BY <1>3, <1>4, <1>5, BoundsUnchanged DEF InputTypeOK, RecvLoss

LEMMA TypeRecvResume ==
    ASSUME InputTypeOK, NEW s \in Sockets, RecvResume(s), Head(down[s]).epoch <= MaxBoots
    PROVE  InputTypeOK'
<1>1. RecvResumeAck(s)
  BY DEF RecvResume
<1> DEFINE n == Head(down[s]).received
<1>2. n \in Nat
  BY <1>1, TypeRecvResumeAck
<1>3. outbox' = Unacked(n) /\ bytesAcked' = AckTo(n) /\ sent' = Carry(sent, s, Inputs(outbox'))
  BY DEF RecvResume
<1> HIDE DEF n
<1>4. sent' \in [Sockets -> Seq(Upward)]
  BY <1>2, <1>3, TypeUnacked, InputsAre, CarryUp
<1>5. PageTypes'
  BY <1>1, <1>2, <1>3, TypeRecvResumeAck, TypeUnacked DEF InputTypeOK, PageTypes, RecvResume
<1>6. WireTypes'
  BY <1>1, <1>4, TypeRecvResumeAck DEF InputTypeOK, WireTypes, RecvResume
<1>7. ServerTypes'
  BY ServerUnchanged DEF InputTypeOK, RecvResume
<1> QED BY <1>5, <1>6, <1>7, BoundsUnchanged DEF InputTypeOK, RecvResume

LEMMA TypeAbandon == ASSUME InputTypeOK, NEW s \in Sockets, Abandon(s) PROVE InputTypeOK'
<1>1. PageTypes'
  BY DEF InputTypeOK, PageTypes, Abandon
<1>2. WireTypes'
  BY DEF InputTypeOK, WireTypes, Abandon
<1>3. ServerTypes'
  BY ServerUnchanged DEF InputTypeOK, Abandon
<1> QED BY <1>1, <1>2, <1>3, BoundsUnchanged DEF InputTypeOK, Abandon

LEMMA TypeReads ==
    ASSUME InputTypeOK, NEW s \in Sockets, NEW type, Reads(s, type)
    PROVE  /\ Head(sent[s]) \in Upward
           /\ sent' \in [Sockets -> Seq(Upward)]
BY TailIs, MessageFields DEF InputTypeOK, WireTypes, Reads

LEMMA TypeTakeLedger == ASSUME InputTypeOK, NEW s \in Sockets, TakeLedger(s) PROVE InputTypeOK'
<1>1. sent' \in [Sockets -> Seq(Upward)]
  BY TypeReads DEF TakeLedger
<1>2. /\ known' = TRUE /\ owner' = s
      /\ fenced' = [t \in Sockets |-> fenced[t] \/ (t = owner /\ t # s)]
      /\ conn' = [conn EXCEPT ![s] = "answering"]
      /\ UNCHANGED <<outboxVars, down, linked, lastAckSent, bootEpoch, received, applied,
                     dirty, boundVars>>
  BY DEF TakeLedger
<1>3. reply' \in [Sockets -> [received : Nat, ledgerLost : BOOLEAN]]
  BY DEF TakeLedger, InputTypeOK, ServerTypes
<1>4. ServerTypes'
  BY <1>2, <1>3 DEF InputTypeOK, ServerTypes, Conn
<1>5. WireTypes'
  BY <1>1, <1>2 DEF InputTypeOK, WireTypes
<1> QED BY <1>2, <1>4, <1>5, PageUnchanged, BoundsUnchanged DEF InputTypeOK

LEMMA TypeAnswerResume == ASSUME InputTypeOK, NEW s \in Sockets, AnswerResume(s) PROVE InputTypeOK'
<1>1. reply[s] \in [received : Nat, ledgerLost : BOOLEAN] /\ bootEpoch \in Nat
  BY Numbers DEF InputTypeOK, ServerTypes
<1>2. <<ResumeReply(reply[s].received, bootEpoch, reply[s].ledgerLost)>> \in Seq(Downward)
  BY <1>1, MessageTypes
<1>3. down' \in [Sockets -> Seq(Downward)]
  BY <1>2, CarryDown, ZenonT(60) DEF AnswerResume, InputTypeOK, WireTypes
<1>4. lastAckSent' \in [Sockets -> Nat] /\ dirty' \in BOOLEAN
  BY <1>1 DEF AnswerResume, InputTypeOK, ServerTypes
<1>5. reply' \in [Sockets -> [received : Nat, ledgerLost : BOOLEAN]]
  BY DEF AnswerResume, InputTypeOK, ServerTypes, NoReply
<1>6. ServerTypes'
  BY <1>4, <1>5 DEF InputTypeOK, ServerTypes, AnswerResume, ledgerVars, Conn
<1>7. WireTypes'
  BY <1>3 DEF InputTypeOK, WireTypes, AnswerResume
<1> QED BY <1>6, <1>7, PageUnchanged, BoundsUnchanged DEF InputTypeOK, AnswerResume

LEMMA TypeApplyInput == ASSUME InputTypeOK, NEW s \in Sockets, ApplyInput(s) PROVE InputTypeOK'
<1>1. Reads(s, "input")
  BY DEF ApplyInput
<1>2. Head(sent[s]).byte \in Bytes /\ sent' \in [Sockets -> Seq(Upward)]
  BY <1>1, TypeReads, MessageFields DEF Reads
<1>3. applied' \in Seq(Bytes)
  BY <1>2, AppendProperties DEF ApplyInput, InputTypeOK, ServerTypes
<1>4. ServerTypes'
  BY <1>3 DEF InputTypeOK, ServerTypes, ApplyInput, connVars
<1>5. WireTypes'
  BY <1>2 DEF InputTypeOK, WireTypes, ApplyInput
<1> QED BY <1>4, <1>5, PageUnchanged, BoundsUnchanged DEF InputTypeOK, ApplyInput

LEMMA TypeEndConn == ASSUME InputTypeOK, NEW s \in Sockets, EndConn(s) PROVE InputTypeOK'
<1>1. ServerTypes'
  BY DEF InputTypeOK, ServerTypes, EndConn, Conn
<1>2. WireTypes'
  BY DEF InputTypeOK, WireTypes, EndConn
<1> QED BY <1>1, <1>2, PageUnchanged, BoundsUnchanged DEF InputTypeOK, EndConn

LEMMA TypeFlushPass == ASSUME InputTypeOK, FlushPass PROVE InputTypeOK'
<1> DEFINE targets == {s \in Sockets : Attached(s) /\ received # lastAckSent[s]}
<1>1. /\ down' = [s \in Sockets |-> IF s \in targets /\ linked[s]
                                    THEN Append(down[s], AckOnly(received)) ELSE down[s]]
      /\ lastAckSent' = [s \in Sockets |-> IF s \in targets THEN received ELSE lastAckSent[s]]
  BY DEF FlushPass
<1> HIDE DEF targets
<1>2. \A s \in Sockets : Append(down[s], AckOnly(received)) \in Seq(Downward)
  BY MessageTypes, AppendProperties DEF InputTypeOK, WireTypes, ServerTypes
<1>3. down' \in [Sockets -> Seq(Downward)] /\ lastAckSent' \in [Sockets -> Nat]
  BY <1>1, <1>2 DEF InputTypeOK, WireTypes, ServerTypes
<1>4. ServerTypes'
  BY <1>3 DEF InputTypeOK, ServerTypes, FlushPass, ledgerVars
<1>5. WireTypes'
  BY <1>3 DEF InputTypeOK, WireTypes, FlushPass
<1> QED BY <1>4, <1>5, PageUnchanged, BoundsUnchanged DEF InputTypeOK, FlushPass

LEMMA TypeForget == ASSUME InputTypeOK, ForgetLedger PROVE InputTypeOK'
<1>1. ServerTypes'
  BY DEF InputTypeOK, ServerTypes, ForgetLedger, connVars
<1>2. forgets' \in 0..MaxForgets
  BY Numbers DEF InputTypeOK, ForgetLedger
<1> QED BY <1>1, <1>2, PageUnchanged, WireUnchanged DEF InputTypeOK, ForgetLedger

LEMMA TypeRestart == ASSUME InputTypeOK, Restart PROVE InputTypeOK'
<1>1. /\ NoReply \in [received : Nat, ledgerLost : BOOLEAN]
      /\ <<>> \in Seq(Upward)
  BY DEF NoReply
<1>2. bootEpoch' \in 1..MaxBoots
  BY Numbers DEF InputTypeOK, ServerTypes, Restart
<1>3. ServerTypes'
  BY <1>1, <1>2 DEF InputTypeOK, ServerTypes, Restart, Conn
<1>4. WireTypes'
  BY <1>1 DEF InputTypeOK, WireTypes, Restart
<1> QED BY <1>3, <1>4, PageUnchanged, BoundsUnchanged DEF InputTypeOK, Restart

-----------------------------------------------------------------------------
(* The steps.                                                                *)

\* What the types say of the numbers and of the sockets in use.
LEMMA Facts ==
    ASSUME InputTypeOK
    PROVE  /\ typed \in Nat /\ bytesSent \in Nat /\ bytesAcked \in Nat /\ bytesAcked <= bytesSent
           /\ Len(outbox) \in Nat /\ Len(outbox) = bytesSent - bytesAcked
           /\ received \in Nat /\ lastServerEpoch \in Nat /\ bootEpoch \in Nat /\ bootEpoch > 0
           /\ sock # NoSocket => sock \in Sockets
           /\ owner # NoSocket => owner \in Sockets
           /\ \A t \in Sockets : Len(sent[t]) \in Nat /\ Len(down[t]) \in Nat
<1>1. /\ typed \in Nat /\ bytesSent \in Nat /\ bytesAcked \in Nat /\ bytesAcked <= bytesSent
      /\ Len(outbox) \in Nat /\ Len(outbox) = bytesSent - bytesAcked /\ lastServerEpoch \in Nat
      /\ sock # NoSocket => sock \in Sockets
  BY LenProperties, Numbers DEF InputTypeOK, PageTypes
<1>2. /\ received \in Nat /\ bootEpoch \in Nat /\ bootEpoch > 0
      /\ owner # NoSocket => owner \in Sockets
  BY Numbers DEF InputTypeOK, ServerTypes
<1>3. \A t \in Sockets : Len(sent[t]) \in Nat /\ Len(down[t]) \in Nat
  BY LenProperties DEF InputTypeOK, WireTypes
<1> QED BY <1>1, <1>2, <1>3

\* Steps that move no counter.
LEMMA CountersKept ==
    ASSUME OutboxIsTail, AppliedIsTyped,
           UNCHANGED <<typed, outbox, bytesSent, bytesAcked, lastServerEpoch, warned>>,
           UNCHANGED <<bootEpoch, known, received, applied>>
    PROVE  OutboxIsTail' /\ AppliedIsTyped'
BY DEF OutboxIsTail, AppliedIsTyped, AppliedInOrder, InStep, Decided, Floor

\* Steps that run nothing and leave the page's floor.
LEMMA HonestKept ==
    ASSUME UNCHANGED <<typed, bytesSent, lastServerEpoch, warned, received, applied>>,
           InStep' => InStep, Stranded => Stranded'
    PROVE  \A k : Honest(k) => Honest(k)'
BY DEF Honest, Decided, Floor

\* The connection breaks: what is left of either direction is a beginning of it.
LEMMA CutStep ==
    ASSUME InputTypeOK, Sound, NEW s \in Sockets, CutSocket(s)
    PROVE  Sound'
<1>1. /\ sock = s /\ linked[s] /\ conn[s] # "closed" /\ s # NoSocket
      /\ linked' = [linked EXCEPT ![s] = FALSE]
      /\ UNCHANGED <<outboxVars, connVars, ledgerVars, dirty, forgets>>
  BY NoSocketAssumption DEF CutSocket, Sound, LinksAreHeld
<1>2. PICK n \in 0..Len(sent[s]) : sent' = [sent EXCEPT ![s] = SubSeq(@, 1, n)]
  BY DEF CutSocket
<1>3. PICK m \in 0..Len(down[s]) : down' = [down EXCEPT ![s] = SubSeq(@, 1, m)]
  BY DEF CutSocket
<1>4. /\ Len(sent'[s]) = n /\ Len(sent[s]) \in Nat /\ \A i \in 1..n : sent'[s][i] = sent[s][i]
      /\ \A t \in Sockets \ {s} : sent'[t] = sent[t]
  BY <1>2, PrefixIs, LenProperties DEF InputTypeOK, WireTypes
<1>5. /\ Len(down'[s]) = m /\ Len(down[s]) \in Nat /\ \A i \in 1..m : down'[s][i] = down[s][i]
      /\ \A t \in Sockets \ {s} : down'[t] = down[t]
  BY <1>3, PrefixIs, LenProperties DEF InputTypeOK, WireTypes
<1>6. \A t \in Sockets : Attached(t)' = Attached(t)
  BY <1>1 DEF Attached, connVars, ledgerVars
<1>7. InStep' = InStep
  BY <1>1 DEF InStep, outboxVars, ledgerVars
<1>8. OutboxIsTail' /\ AppliedIsTyped'
  BY <1>1, CountersKept DEF Sound, outboxVars, ledgerVars
<1>9. LinksAreHeld'
  BY <1>1, <1>4, <1>5, <1>6 DEF Sound, LinksAreHeld, InputTypeOK, WireTypes, outboxVars, connVars, ledgerVars
<1>10. UpIsOrdered'
  BY <1>1, <1>4, <1>6 DEF Sound, UpIsOrdered, outboxVars, connVars
<1>11. UpContinues'
  <2> SUFFICES ASSUME NEW t \in Sockets, owner' = t
               PROVE  /\ Len(sent'[t]) > 0 => InStep' /\ Len(sent'[t]) <= bytesSent' - received'
                      /\ \A i \in 1..Len(sent'[t]) : sent'[t][i] = Input(Floor' + received' + i)
                      /\ ~(sock' = t /\ answered' /\ linked'[t])
    BY DEF UpContinues
  <2>1. owner = t /\ Floor' = Floor /\ received' = received /\ bytesSent' = bytesSent
    BY <1>1 DEF outboxVars, ledgerVars, Floor
  <2>2. /\ Len(sent[t]) > 0 => InStep /\ Len(sent[t]) <= bytesSent - received
        /\ \A i \in 1..Len(sent[t]) : sent[t][i] = Input(Floor + received + i)
    BY <2>1 DEF Sound, UpContinues
  <2>3. /\ Len(sent'[t]) \in Nat /\ Len(sent[t]) \in Nat /\ Len(sent'[t]) <= Len(sent[t])
        /\ \A i \in 1..Len(sent'[t]) : sent'[t][i] = sent[t][i]
    BY <1>4
  <2>4. sock' = t => ~linked'[t]
    BY <1>1 DEF outboxVars, InputTypeOK, WireTypes
  <2> QED BY <1>7, <2>1, <2>2, <2>3, <2>4, Facts
<1>16. \A k : Honest(k) => Honest(k)'
  BY <1>1, <1>7, HonestKept DEF Stranded, outboxVars, ledgerVars
<1>12. AcksAreHonest'
  BY <1>1, <1>5, <1>16 DEF Sound, AcksAreHonest, outboxVars
<1>13. AnswerIsAlone'
  BY <1>1, <1>5, <1>6, SMTT(60) DEF Sound, AnswerIsAlone, outboxVars, connVars
<1>14. AnswersFit'
  <2>1. /\ sock' = s /\ ~linked'[s] /\ owner' = owner
        /\ received' = received /\ bootEpoch' = bootEpoch /\ lastServerEpoch' = lastServerEpoch
    BY <1>1 DEF outboxVars, ledgerVars, InputTypeOK, WireTypes
  <2>2. owner # NoSocket /\ Len(sent[owner]) = 0 => Len(sent'[owner]) = 0
    BY <1>4, Facts
  <2> QED BY <1>1, <1>5, <1>16, <2>1, <2>2, SMTT(60) DEF Sound, AnswersFit, Fits
<1>15. WaitingIsQuiet'
  <2>1. owner # NoSocket /\ Len(sent[owner]) = 0 => Len(sent'[owner]) = 0
    BY <1>4, Facts
  <2> QED BY <1>1, <1>6, <2>1 DEF Sound, WaitingIsQuiet, outboxVars, ledgerVars
<1> QED BY <1>8, <1>9, <1>10, <1>11, <1>12, <1>13, <1>14, <1>15 DEF Sound

\* The page gives the socket up.
LEMMA AbandonStep ==
    ASSUME InputTypeOK, Sound, NEW s \in Sockets, Abandon(s)
    PROVE  Sound'
<1>1. /\ sock = s /\ ~linked[s] /\ sock' = NoSocket /\ ~answered'
      /\ down' = [down EXCEPT ![s] = <<>>] /\ Len(down'[s]) = 0
      /\ \A t \in Sockets \ {s} : down'[t] = down[t]
      /\ UNCHANGED <<typed, outbox, bytesSent, bytesAcked, lastServerEpoch, warned>>
      /\ UNCHANGED <<sent, linked, connVars, ledgerVars>>
  BY DEF Abandon, InputTypeOK, WireTypes
<1>2. \A t \in Sockets : Attached(t)' = Attached(t)
  BY <1>1 DEF Attached, connVars, ledgerVars
<1>3. InStep' = InStep
  BY <1>1 DEF InStep, ledgerVars
<1>4. OutboxIsTail' /\ AppliedIsTyped'
  BY <1>1, CountersKept DEF Sound, ledgerVars
<1>5. LinksAreHeld'
  BY <1>1, <1>2 DEF Sound, LinksAreHeld, InputTypeOK, WireTypes, connVars, ledgerVars
<1>6. UpIsOrdered'
  BY <1>1, <1>2, NoSocketAssumption DEF Sound, UpIsOrdered, connVars
<1>7. UpContinues'
  BY <1>1, <1>3, NoSocketAssumption DEF Sound, UpContinues, Floor, ledgerVars
<1>8. AcksAreHonest' /\ AnswerIsAlone' /\ AnswersFit' /\ WaitingIsQuiet'
  BY <1>1 DEF AcksAreHonest, AnswerIsAlone, AnswersFit, WaitingIsQuiet
<1> QED BY <1>4, <1>5, <1>6, <1>7, <1>8 DEF Sound

\* A ledger is reclaimed.  A page that was acknowledged a byte is not in step
\* with what takes its place; one that was not cannot tell.
LEMMA ForgetStep ==
    ASSUME InputTypeOK, Sound, ForgetLedger
    PROVE  Sound'
<1>1. /\ bytesAcked > 0 \/ ForgetUnacked
      /\ known' = FALSE /\ received' = 0
      /\ \A t \in Sockets : ~Attached(t)
      /\ UNCHANGED <<outboxVars, wireVars, connVars, bootEpoch, owner, applied>>
  BY DEF ForgetLedger
<1>2. owner = NoSocket
  <2>1. \A t \in Sockets : conn[t] \in {"closed", "reading", "answering"}
    BY DEF InputTypeOK, ServerTypes, Conn
  <2> QED BY <1>1, <2>1 DEF Sound, LinksAreHeld, Attached, InputTypeOK, ServerTypes
<1>3. \A t \in Sockets : Attached(t)' = Attached(t)
  BY <1>1 DEF Attached, connVars
<1>4. /\ InStep' => ForgetUnacked # FALSE
      /\ InStep' => bytesAcked = 0
      /\ bytesAcked = 0 /\ lastServerEpoch \in {0, bootEpoch} => InStep /\ InStep'
  <2>1. bytesAcked \in Nat /\ received \in Nat
    BY Facts
  <2>2. bytesAcked' = bytesAcked /\ received' = 0 /\ lastServerEpoch' = lastServerEpoch
        /\ bootEpoch' = bootEpoch
    BY <1>1 DEF outboxVars
  <2>3. InStep' => bytesAcked = 0
    BY <2>1, <2>2 DEF InStep
  <2>4. bytesAcked = 0 => ForgetUnacked # FALSE
    BY <1>1
  <2>5. bytesAcked = 0 /\ lastServerEpoch \in {0, bootEpoch} => InStep /\ InStep'
    BY <2>1, <2>2 DEF InStep
  <2> QED BY <2>3, <2>4, <2>5
<1>14. InStep' => InStep
  <2>1. InStep' => lastServerEpoch \in {0, bootEpoch}
    BY <1>1 DEF InStep, outboxVars
  <2> QED BY <1>4, <2>1
<1>5. OutboxIsTail'
  BY <1>1 DEF Sound, OutboxIsTail, Decided, outboxVars
<1>6. AppliedIsTyped'
  <2>1. InStep' => Decided(Floor + 0) /\ 0 <= bytesSent
    <3>1. InStep' => Floor + 0 = typed - Len(outbox)
      BY <1>4, Facts DEF Floor
    <3> QED BY <3>1, Facts DEF Sound, OutboxIsTail
  <2> QED BY <1>1, <1>4, <2>1
          DEF Sound, AppliedIsTyped, AppliedInOrder, Decided, Floor, outboxVars
<1>7. LinksAreHeld'
  BY <1>1, <1>2, <1>3, NoSocketAssumption DEF Sound, LinksAreHeld, outboxVars, wireVars, connVars
<1>8. UpIsOrdered'
  BY <1>1, <1>3 DEF Sound, UpIsOrdered, outboxVars, wireVars, connVars
<1>9. UpContinues'
  BY <1>1, <1>2, NoSocketAssumption DEF UpContinues
<1>15. sock # NoSocket => linked[sock] \/ \A k : Honest(k) => Honest(k)'
  BY <1>1, <1>2, <1>14 DEF Honest, Stranded, Decided, Floor, outboxVars, wireVars
<1>16. sock # NoSocket /\ linked[sock] => Len(down[sock]) = 0 /\ conn[sock] # "answering"
  <2>1. sock # NoSocket => sock \in Sockets
    BY DEF InputTypeOK, PageTypes
  <2>2. sock # NoSocket => conn[sock] # "answering" /\ (linked[sock] => conn[sock] = "reading")
    BY <1>1, <2>1 DEF Attached, Sound, LinksAreHeld, InputTypeOK, ServerTypes, Conn
  <2> QED BY <1>1, <2>1, <2>2 DEF Sound, LinksAreHeld
<1>10. AcksAreHonest'
  BY <1>1, <1>15, <1>16 DEF Sound, AcksAreHonest, outboxVars, wireVars
<1>11. AnswerIsAlone'
  BY <1>1, <1>3, Facts DEF Sound, AnswerIsAlone, outboxVars, wireVars, connVars
<1>12. AnswersFit'
  BY <1>1, <1>2, <1>15, <1>16 DEF Sound, AnswersFit, Fits, outboxVars, wireVars, connVars
<1>13. WaitingIsQuiet'
  BY <1>1, <1>2 DEF WaitingIsQuiet
<1> QED BY <1>5, <1>6, <1>7, <1>8, <1>9, <1>10, <1>11, <1>12, <1>13 DEF Sound

\* Another server process: whoever was answered by an earlier one is not in
\* step, and whoever was not had sent nothing.
LEMMA RestartStep ==
    ASSUME InputTypeOK, Sound, Restart
    PROVE  Sound'
<1>1. /\ bootEpoch' = bootEpoch + 1 /\ bootEpoch \in Nat /\ received' = 0 /\ owner' = NoSocket
      /\ \A t \in Sockets : /\ conn'[t] = "closed" /\ ~fenced'[t] /\ ~linked'[t]
                            /\ sent'[t] = <<>> /\ Len(sent'[t]) = 0
      /\ UNCHANGED <<outboxVars, down, applied>>
  BY DEF Restart, InputTypeOK, ServerTypes
<1>2. \A t \in Sockets : ~Attached(t)'
  BY <1>1 DEF Attached
<1>3. /\ typed \in Nat /\ bytesSent \in Nat /\ bytesAcked \in Nat /\ Len(outbox) = bytesSent - bytesAcked
      /\ lastServerEpoch \in Nat
  BY DEF InputTypeOK, PageTypes
<1>4. InStep' => lastServerEpoch = 0
  BY <1>1, <1>3 DEF InStep, outboxVars, Sound, AppliedIsTyped
<1>5. OutboxIsTail'
  BY <1>1 DEF Sound, OutboxIsTail, Decided, outboxVars
<1>6. AppliedIsTyped'
  <2>1. lastServerEpoch = 0 => Len(applied) = 0 /\ bytesAcked = 0 /\ received = 0
    BY DEF Sound, AppliedIsTyped
  <2>2. lastServerEpoch = 0 => typed - Len(outbox) = Floor + 0
    BY <1>3, <2>1 DEF Floor
  <2>3. lastServerEpoch = 0 => Decided(Floor + 0)
    BY <2>2 DEF Sound, OutboxIsTail
  <2> QED BY <1>1, <1>3, <1>4, <2>1, <2>3
          DEF Sound, AppliedIsTyped, AppliedInOrder, Decided, Floor, outboxVars
<1>7. LinksAreHeld'
  BY <1>1, <1>2, NoSocketAssumption DEF Sound, LinksAreHeld, outboxVars
<1>8. UpIsOrdered'
  BY <1>1 DEF UpIsOrdered
<1>9. UpContinues'
  BY <1>1, NoSocketAssumption DEF UpContinues
<1>14. sock # NoSocket => \A k : Honest(k) => Honest(k)'
  BY <1>1, Facts DEF Honest, Stranded, Decided, Floor, outboxVars
<1>10. AcksAreHonest'
  BY <1>1, <1>14 DEF Sound, AcksAreHonest, outboxVars
<1>11. AnswerIsAlone'
  BY <1>1, <1>2 DEF Sound, AnswerIsAlone, outboxVars, InputTypeOK, PageTypes
<1>12. AnswersFit'
  <2>1. sock # NoSocket => sock \in Sockets
    BY DEF InputTypeOK, PageTypes
  <2>2. lastServerEpoch = 0 => InStep /\ received = 0
    BY <1>3 DEF InStep, Sound, AppliedIsTyped
  <2> QED BY <1>1, <1>14, <2>1, <2>2 DEF Sound, AnswersFit, Fits, outboxVars
<1>13. WaitingIsQuiet'
  BY <1>1 DEF WaitingIsQuiet
<1> QED BY <1>5, <1>6, <1>7, <1>8, <1>9, <1>10, <1>11, <1>12, <1>13 DEF Sound

\* A new socket: it carries the resume and belongs to nobody yet.
LEMMA OpenStep ==
    ASSUME InputTypeOK, Sound, NEW s \in Sockets, Open(s)
    PROVE  Sound'
<1>1. /\ sock = NoSocket /\ conn[s] = "closed" /\ sock' = s /\ s # NoSocket /\ answered' = FALSE
      /\ linked'[s] /\ conn'[s] = "reading" /\ down'[s] = <<>> /\ Len(down'[s]) = 0
      /\ sent'[s] = <<ResumeFrame(bytesSent)>> /\ Len(sent'[s]) = 1
      /\ \A i \in 1..Len(sent'[s]) : sent'[s][i].type = "resume"
      /\ \A t \in Sockets \ {s} : /\ linked'[t] = linked[t] /\ conn'[t] = conn[t]
                                  /\ sent'[t] = sent[t] /\ down'[t] = down[t]
      /\ UNCHANGED <<typed, outbox, bytesSent, bytesAcked, lastServerEpoch, warned,
                     fenced, reply, ledgerVars>>
  BY NoSocketAssumption DEF Open, InputTypeOK, WireTypes, ServerTypes, ResumeFrame
<1>2. owner # s /\ ~fenced[s] /\ ~Attached(s)' /\ \A t \in Sockets \ {s} : Attached(t)' = Attached(t)
  BY <1>1 DEF Sound, LinksAreHeld, Attached, ledgerVars
<1>3. InStep' = InStep
  BY <1>1 DEF InStep, ledgerVars
<1>4. OutboxIsTail' /\ AppliedIsTyped'
  BY <1>1, CountersKept DEF Sound, ledgerVars
<1>5. LinksAreHeld'
  <2> SUFFICES ASSUME NEW t \in Sockets
               PROVE  /\ linked'[t] => sock' = t /\ conn'[t] # "closed"
                      /\ sock' # t => Len(down'[t]) = 0
                      /\ owner' = t => conn'[t] # "closed" /\ ~fenced'[t] /\ known'
                      /\ fenced'[t] => conn'[t] # "closed"
                      /\ conn'[t] = "closed" => Len(sent'[t]) = 0
                      /\ conn'[t] = "answering" => owner' = t \/ fenced'[t]
                      /\ conn'[t] = "reading" /\ ~Attached(t)' => Len(down'[t]) = 0
    BY DEF LinksAreHeld
  <2>1. owner' = owner /\ fenced' = fenced /\ known' = known
    BY <1>1 DEF ledgerVars
  <2>2. CASE t = s
    BY <1>1, <1>2, <2>1, <2>2
  <2>3. CASE t # s
    <3>1. sock # t /\ sock' # t
      BY <1>1, <2>3, NoSocketAssumption
    <3>2. /\ linked'[t] = linked[t] /\ conn'[t] = conn[t] /\ sent'[t] = sent[t] /\ down'[t] = down[t]
          /\ Attached(t)' = Attached(t)
      BY <1>1, <1>2, <2>3
    <3> QED BY <2>1, <3>1, <3>2 DEF Sound, LinksAreHeld
  <2> QED BY <2>2, <2>3
<1>6. UpIsOrdered'
  BY <1>1, <1>2 DEF Sound, UpIsOrdered
<1>7. UpContinues'
  <2> SUFFICES ASSUME NEW t \in Sockets, owner' = t
               PROVE  /\ Len(sent'[t]) > 0 => InStep' /\ Len(sent'[t]) <= bytesSent' - received'
                      /\ \A i \in 1..Len(sent'[t]) : sent'[t][i] = Input(Floor' + received' + i)
                      /\ sock' # t
    BY DEF UpContinues
  <2>1. owner = t /\ t # s /\ Floor' = Floor /\ received' = received
    BY <1>1, <1>2 DEF ledgerVars, Floor
  <2> QED BY <1>1, <1>3, <2>1 DEF Sound, UpContinues
<1>8. AcksAreHonest' /\ AnswerIsAlone' /\ AnswersFit' /\ WaitingIsQuiet'
  BY <1>1, <1>2 DEF AcksAreHonest, AnswerIsAlone, AnswersFit, WaitingIsQuiet
<1> QED BY <1>4, <1>5, <1>6, <1>7, <1>8 DEF Sound

\* A key: the byte joins the outbox and, once the socket was answered, the wire.
LEMMA TypeStep ==
    ASSUME InputTypeOK, Sound, TypingInHandshake = FALSE, Type
    PROVE  Sound'
<1>1. /\ sock = NoSocket \/ answered
      /\ typed' = typed + 1 /\ bytesSent' = bytesSent + 1 /\ outbox' = Append(outbox, typed + 1)
      /\ sent' = IF sock = NoSocket THEN sent ELSE Carry(sent, sock, <<Input(typed + 1)>>)
      /\ UNCHANGED <<bytesAcked, lastServerEpoch, sock, answered, warned, down, linked>>
      /\ UNCHANGED <<connVars, ledgerVars>>
  BY DEF Type
<1>2. Floor' = Floor /\ InStep' = InStep
  BY <1>1, Facts DEF Floor, InStep, ledgerVars
<1>3. \A t \in Sockets : Attached(t)' = Attached(t)
  BY <1>1 DEF Attached, connVars, ledgerVars
<1>4. typed + 1 \in Bytes
  BY Numbers DEF Type, InputTypeOK, PageTypes, Bytes
<1>5. /\ Len(outbox') = Len(outbox) + 1 /\ outbox'[Len(outbox) + 1] = typed + 1
      /\ \A i \in 1..Len(outbox) : outbox'[i] = outbox[i]
  BY <1>1, <1>4, AppendProperties DEF InputTypeOK, PageTypes
<1>6. ASSUME NEW t \in Sockets
      PROVE  \/ sent'[t] = sent[t] /\ ~(sock = t /\ linked[t])
             \/ /\ sock = t /\ linked[t] /\ Len(sent'[t]) = Len(sent[t]) + 1
                /\ sent'[t][Len(sent[t]) + 1] = Input(typed + 1)
                /\ \A i \in 1..Len(sent[t]) : sent'[t][i] = sent[t][i]
  <2>1. CASE sock = NoSocket
    BY <1>1, <2>1, NoSocketAssumption
  <2>2. CASE sock # NoSocket
    <3>1. sock \in Sockets /\ <<Input(typed + 1)>> \in Seq(Upward) /\ sent[t] \in Seq(Upward)
      BY <1>4, <2>2, Facts, MessageTypes DEF InputTypeOK, WireTypes
    <3>2. /\ Len(sent[t] \o <<Input(typed + 1)>>) = Len(sent[t]) + 1
          /\ (sent[t] \o <<Input(typed + 1)>>)[Len(sent[t]) + 1] = Input(typed + 1)
          /\ \A i \in 1..Len(sent[t]) : (sent[t] \o <<Input(typed + 1)>>)[i] = sent[t][i]
      BY <3>1, ConcatProperties
    <3>3. sent' = Carry(sent, sock, <<Input(typed + 1)>>)
      BY <1>1, <2>2
    <3>4. CASE t = sock
      BY <3>1, <3>2, <3>3, <3>4, CarryUp
    <3>5. CASE t # sock
      BY <3>1, <3>3, <3>5, CarryUp
    <3> QED BY <3>4, <3>5
  <2> QED BY <2>1, <2>2
<1>7. OutboxIsTail'
  <2>0. bytesSent <= typed /\ \A i \in 1..Len(outbox) : outbox[i] = typed - Len(outbox) + i
    BY DEF Sound, OutboxIsTail
  <2>1. typed' - Len(outbox') = typed - Len(outbox) /\ bytesSent' <= typed'
    <3>1. typed' = typed + 1 /\ bytesSent' = bytesSent + 1 /\ Len(outbox') = Len(outbox) + 1
      BY <1>1, <1>5
    <3> QED BY <2>0, <3>1, Facts
  <2>2. \A i \in 1..Len(outbox') : outbox'[i] = typed' - Len(outbox') + i
    <3> TAKE i \in 1..Len(outbox')
    <3>1. i \in 1..Len(outbox) \/ i = Len(outbox) + 1
      BY <1>5, Facts
    <3>2. typed - Len(outbox) + (Len(outbox) + 1) = typed + 1
      BY Facts
    <3> QED BY <1>5, <2>0, <2>1, <3>1, <3>2
  <2>3. Decided(typed - Len(outbox))'
    BY <1>1, <2>1 DEF Sound, OutboxIsTail, Decided, ledgerVars
  <2> QED BY <2>1, <2>2, <2>3 DEF OutboxIsTail
<1>8. AppliedIsTyped'
  <2>1. \A i \in 1..Len(applied) : applied[i] \in Nat
    <3>1. applied \in Seq(Bytes)
      BY DEF InputTypeOK, ServerTypes
    <3>2. \A b \in Bytes : b \in Nat
      BY DEF Bytes
    <3>3. \A i \in 1..Len(applied) : applied[i] \in Bytes
      BY <3>1
    <3> QED BY <3>2, <3>3
  <2>2. /\ \A i \in 1..Len(applied) : applied[i] <= typed + 1
        /\ InStep => received <= bytesSent + 1
    BY <2>1, Facts DEF Sound, AppliedIsTyped
  <2>3. \A k : Decided(k)' = Decided(k)
    BY <1>1 DEF Decided, ledgerVars
  <2> QED BY <1>1, <1>2, <2>2, <2>3 DEF Sound, AppliedIsTyped, AppliedInOrder, ledgerVars
<1>9. LinksAreHeld'
  <2> SUFFICES ASSUME NEW t \in Sockets, conn[t] = "closed" PROVE Len(sent'[t]) = 0
    BY <1>1, <1>3 DEF Sound, LinksAreHeld, connVars, ledgerVars
  <2> QED BY <1>6 DEF Sound, LinksAreHeld
<1>10. sock # NoSocket /\ linked[sock] =>
          answered /\ conn[sock] = "reading" /\ Attached(sock) /\ lastServerEpoch # 0
  BY <1>1, Facts DEF Sound, LinksAreHeld, AnswerIsAlone
<1>11. UpIsOrdered'
  <2> SUFFICES ASSUME NEW t \in Sockets, NEW i \in 1..Len(sent'[t])
               PROVE  /\ sent'[t][i].type = "resume" => Len(sent'[t]) = 1 /\ ~Attached(t)
                      /\ sent'[t][i].type = "input" =>
                              /\ Attached(t) /\ conn[t] = "reading" /\ lastServerEpoch # 0
                              /\ sock = t => answered
    BY <1>1, <1>3 DEF UpIsOrdered, connVars
  <2>1. CASE sent'[t] = sent[t]
    BY <2>1 DEF Sound, UpIsOrdered
  <2>2. CASE /\ sock = t /\ linked[t] /\ Len(sent'[t]) = Len(sent[t]) + 1
             /\ sent'[t][Len(sent[t]) + 1] = Input(typed + 1)
             /\ \A k \in 1..Len(sent[t]) : sent'[t][k] = sent[t][k]
    <3>1. Input(typed + 1).type = "input"
      BY DEF Input
    <3>2. i \in 1..Len(sent[t]) \/ i = Len(sent[t]) + 1
      BY <2>2, Facts
    <3>3. i \in 1..Len(sent[t]) => sent[t][i].type # "resume"
      BY <1>10, <2>2, NoSocketAssumption DEF Sound, UpIsOrdered
    <3> QED BY <1>10, <2>2, <3>1, <3>2, <3>3, NoSocketAssumption
  <2> QED BY <1>6, <2>1, <2>2
<1>12. UpContinues'
  <2>0. /\ owner' = owner /\ received' = received /\ bytesSent' = bytesSent + 1
        /\ sock' = sock /\ answered' = answered /\ linked' = linked
    BY <1>1 DEF ledgerVars
  <2> SUFFICES ASSUME NEW t \in Sockets, owner' = t
               PROVE  /\ Len(sent'[t]) > 0 => InStep' /\ Len(sent'[t]) <= bytesSent' - received'
                      /\ \A i \in 1..Len(sent'[t]) : sent'[t][i] = Input(Floor' + received' + i)
                      /\ sock' = t /\ answered' /\ linked'[t] =>
                            InStep' /\ Len(sent'[t]) = bytesSent' - received'
    BY DEF UpContinues
  <2> SUFFICES /\ Len(sent'[t]) > 0 => InStep /\ Len(sent'[t]) <= bytesSent + 1 - received
               /\ \A i \in 1..Len(sent'[t]) : sent'[t][i] = Input(Floor + received + i)
               /\ sock = t /\ answered /\ linked[t] =>
                     InStep /\ Len(sent'[t]) = bytesSent + 1 - received
    <3>1. (~answered' <=> ~answered) /\ (~linked'[t] <=> ~linked[t]) /\ (InStep' <=> InStep)
      BY <1>2, <2>0
    <3>2. \A i : Input(Floor' + received' + i) = Input(Floor + received + i)
      BY <1>2, <2>0
    <3>3. bytesSent' - received' = bytesSent + 1 - received
      BY <2>0, Facts
    <3> QED BY <2>0, <3>1, <3>2, <3>3
  <2>1. /\ Len(sent[t]) > 0 => InStep /\ Len(sent[t]) <= bytesSent - received
        /\ \A i \in 1..Len(sent[t]) : sent[t][i] = Input(Floor + received + i)
        /\ sock = t /\ answered /\ linked[t] => InStep /\ Len(sent[t]) = bytesSent - received
    BY <2>0 DEF Sound, UpContinues
  <2>2. CASE sent'[t] = sent[t] /\ ~(sock = t /\ linked[t])
    BY <2>1, <2>2, Facts
  <2>3. CASE /\ sock = t /\ linked[t] /\ Len(sent'[t]) = Len(sent[t]) + 1
             /\ sent'[t][Len(sent[t]) + 1] = Input(typed + 1)
             /\ \A k \in 1..Len(sent[t]) : sent'[t][k] = sent[t][k]
    <3>1. InStep /\ Len(sent[t]) = bytesSent - received
      BY <1>10, <2>1, <2>3, NoSocketAssumption
    <3>2. typed + 1 = Floor + received + (Len(sent[t]) + 1)
      BY <3>1, Facts DEF Floor
    <3>3. \A i \in 1..Len(sent'[t]) : i \in 1..Len(sent[t]) \/ i = Len(sent[t]) + 1
      BY <2>3, Facts
    <3>4. \A i \in 1..Len(sent'[t]) : sent'[t][i] = Input(Floor + received + i)
      BY <2>1, <2>3, <3>2, <3>3
    <3> QED BY <2>3, <3>1, <3>4, Facts
  <2> QED BY <1>6, <2>2, <2>3
<1>13. AcksAreHonest'
  <2>1. sock # NoSocket => \A i \in 1..Len(down[sock]) : down[sock][i].received \in Nat
    BY Facts, MessageFields DEF InputTypeOK, WireTypes
  <2>2. sock # NoSocket /\ Stranded => Stranded'
    <3> SUFFICES ASSUME sock # NoSocket, Stranded PROVE Stranded'
      OBVIOUS
    <3>1. owner # NoSocket => sent'[owner] = sent[owner]
      BY <1>6, Facts DEF Stranded
    <3> QED BY <1>1, <3>1 DEF Stranded, ledgerVars
  <2>3. sock # NoSocket => \A k \in Nat : Honest(k) => Honest(k)'
    BY <1>1, <1>2, <2>2, Facts DEF Honest, Decided, ledgerVars
  <2> QED BY <1>1, <2>1, <2>3 DEF Sound, AcksAreHonest
<1>14. AnswerIsAlone'
  BY <1>1, <1>3, Facts DEF Sound, AnswerIsAlone, connVars
<1>15. AnswersFit'
  BY <1>1 DEF Sound, AnswerIsAlone, AnswersFit, connVars
<1>16. WaitingIsQuiet'
  BY <1>1 DEF WaitingIsQuiet
<1> QED BY <1>7, <1>8, <1>9, <1>11, <1>12, <1>13, <1>14, <1>15, <1>16 DEF Sound

\* A frame is taken from the socket in use.
LEMMA Taken ==
    ASSUME InputTypeOK, NEW s \in Sockets, NEW type, Receives(s, type)
    PROVE  /\ sock = s /\ s # NoSocket
           /\ Head(down[s]) = down[s][1] /\ Head(down[s]) \in Downward /\ Head(down[s]).type = type
           /\ Len(down[s]) \in Nat /\ 1 \in 1..Len(down[s]) /\ Len(down'[s]) = Len(down[s]) - 1
           /\ \A i \in 1..Len(down'[s]) : down'[s][i] = down[s][i + 1] /\ i + 1 \in 1..Len(down[s])
           /\ \A t \in Sockets \ {s} : down'[t] = down[t]
<1>1. /\ sock = s /\ down[s] # <<>> /\ Head(down[s]).type = type
      /\ down' = [down EXCEPT ![s] = Tail(@)] /\ down[s] \in Seq(Downward)
      /\ down \in [Sockets -> Seq(Downward)]
  BY DEF Receives, InputTypeOK, WireTypes
<1>2. down'[s] = Tail(down[s]) /\ \A t \in Sockets \ {s} : down'[t] = down[t]
  BY <1>1
<1>3. /\ Head(down[s]) = down[s][1] /\ Head(down[s]) \in Downward
      /\ Len(Tail(down[s])) = Len(down[s]) - 1 /\ Len(down[s]) \in Nat \ {0}
      /\ \A i \in 1..Len(Tail(down[s])) : /\ Tail(down[s])[i] = down[s][i + 1]
                                          /\ i + 1 \in 1..Len(down[s])
  BY <1>1, TailIs
<1> QED BY <1>1, <1>2, <1>3, NoSocketAssumption

\* What is left under way after a frame was taken is as sound as before.
LEMMA LeftUnderWay ==
    ASSUME InputTypeOK, Sound, NEW s \in Sockets, NEW type, Receives(s, type),
           InStep' => InStep, InStep => InStep' \/ Stranded,
           UNCHANGED <<typed, bytesSent, lastServerEpoch, sock, answered, warned>>,
           UNCHANGED <<sent, linked, connVars, ledgerVars>>
    PROVE  LinksAreHeld' /\ UpIsOrdered' /\ UpContinues' /\ AcksAreHonest' /\ AnswerIsAlone'
           /\ AnswersFit' /\ WaitingIsQuiet'
<1>1. /\ sock = s /\ s # NoSocket
      /\ Len(down[s]) \in Nat /\ 1 \in 1..Len(down[s]) /\ Len(down'[s]) = Len(down[s]) - 1
      /\ \A i \in 1..Len(down'[s]) : down'[s][i] = down[s][i + 1] /\ i + 1 \in 1..Len(down[s])
      /\ \A t \in Sockets \ {s} : down'[t] = down[t]
  BY Taken
<1>2. \A t \in Sockets : Attached(t)' = Attached(t)
  BY DEF Attached, connVars, ledgerVars
<1>3. \A k : Honest(k) => Honest(k)'
  BY HonestKept DEF Stranded, ledgerVars
<1>4. LinksAreHeld'
  BY <1>1, <1>2 DEF Sound, LinksAreHeld, connVars, ledgerVars
<1>5. UpIsOrdered'
  BY <1>2 DEF Sound, UpIsOrdered, connVars
<1>6. UpContinues'
  BY <1>1, NoSocketAssumption DEF Sound, UpContinues, Stranded, Floor, ledgerVars
<1>7. AcksAreHonest'
  BY <1>1, <1>3 DEF Sound, AcksAreHonest
<1>8. AnswerIsAlone'
  <2>1. \A i, j \in 1..Len(down'[s]) :
            down'[s][i].type = "resumeAck" /\ down'[s][j].type = "resumeAck" => i = j
    <3> SUFFICES ASSUME NEW i \in 1..Len(down'[s]), NEW j \in 1..Len(down'[s]),
                        down'[s][i].type = "resumeAck", down'[s][j].type = "resumeAck"
                 PROVE  i = j
      OBVIOUS
    <3>1. i + 1 = j + 1
      BY <1>1 DEF Sound, AnswerIsAlone
    <3> QED BY <3>1
  <2> QED BY <1>1, <1>2, <2>1 DEF Sound, AnswerIsAlone, connVars
<1>9. AnswersFit'
  <2>1. \A n, e, lost : Fits(n, e, lost) => Fits(n, e, lost)'
    BY <1>1, <1>3, SMTT(60) DEF Fits, ledgerVars
  <2> QED BY <1>1, <2>1 DEF Sound, AnswersFit, connVars, ledgerVars
<1>10. WaitingIsQuiet'
  BY <1>1, <1>2 DEF Sound, WaitingIsQuiet, ledgerVars
<1> QED BY <1>4, <1>5, <1>6, <1>7, <1>8, <1>9, <1>10

LEMMA AckToHonest ==
    ASSUME InputTypeOK, NEW n \in Nat, n <= bytesSent
    PROVE  /\ AckTo(n) \in Nat /\ bytesAcked <= AckTo(n) /\ AckTo(n) <= bytesSent
           /\ AckTo(n) = bytesAcked \/ AckTo(n) = n
<1>1. bytesAcked \in Nat /\ bytesSent \in Nat
  BY Facts
<1>2. /\ AckTo(n) \in bytesAcked..bytesSent
      /\ AckTo(n) = IF n <= bytesAcked THEN bytesAcked ELSE n
  BY AckToBounds
<1> QED BY <1>1, <1>2

\* The outbox trimmed to an honest count still is the tail.
LEMMA Trimmed ==
    ASSUME InputTypeOK, OutboxIsTail, NEW n \in Nat, n <= bytesSent, Decided(Floor + n)
    PROVE  /\ \A i \in 1..Len(Unacked(n)) : Unacked(n)[i] = typed - Len(Unacked(n)) + i
           /\ Decided(typed - Len(Unacked(n)))
<1>1. /\ AckTo(n) \in Nat /\ bytesAcked <= AckTo(n) /\ AckTo(n) <= bytesSent
      /\ AckTo(n) = bytesAcked \/ AckTo(n) = n
  BY AckToHonest
<1>2. /\ Len(Unacked(n)) = bytesSent - AckTo(n)
      /\ \A i \in 1..Len(Unacked(n)) : Unacked(n)[i] = outbox[AckTo(n) - bytesAcked + i]
  BY UnackedIs
<1>3. \A i \in 1..Len(outbox) : outbox[i] = typed - Len(outbox) + i
  BY DEF OutboxIsTail
<1>4. ASSUME NEW i \in 1..Len(Unacked(n))
      PROVE  Unacked(n)[i] = typed - Len(Unacked(n)) + i
  <2>1. AckTo(n) - bytesAcked + i \in 1..Len(outbox)
    BY <1>1, <1>2, Facts
  <2>2. Unacked(n)[i] = typed - Len(outbox) + (AckTo(n) - bytesAcked + i)
    BY <1>2, <1>3, <2>1
  <2>3. /\ typed \in Nat /\ Len(outbox) = bytesSent - bytesAcked /\ i \in Int
        /\ bytesSent \in Nat /\ bytesAcked \in Nat
    BY Facts
  <2>4. /\ Len(Unacked(n)) = bytesSent - AckTo(n) /\ AckTo(n) \in Nat
    BY <1>1, <1>2
  <2> QED BY <2>2, <2>3, <2>4
<1>5. Decided(typed - Len(Unacked(n)))
  <2>1. typed - Len(Unacked(n)) = Floor + AckTo(n)
    BY <1>1, <1>2, Facts DEF Floor
  <2>2. CASE AckTo(n) = n
    BY <2>1, <2>2
  <2>3. CASE AckTo(n) = bytesAcked
    <3>1. Floor + bytesAcked = typed - Len(outbox)
      BY Facts DEF Floor
    <3> QED BY <2>1, <2>3, <3>1 DEF OutboxIsTail
  <2> QED BY <1>1, <2>2, <2>3
<1> QED BY <1>4, <1>5

\* An acknowledgement: what the page is told is no more than what was run.
LEMMA RecvAckStep ==
    ASSUME InputTypeOK, Sound, NEW s \in Sockets, RecvAck(s)
    PROVE  Sound'
<1> DEFINE n == Head(down[s]).received
<1>1. /\ Receives(s, "ackOnly") /\ outbox' = Unacked(n) /\ bytesAcked' = AckTo(n)
      /\ UNCHANGED <<typed, bytesSent, lastServerEpoch, sock, answered, warned>>
      /\ UNCHANGED <<sent, linked, connVars, ledgerVars>>
  BY DEF RecvAck
<1>2. n \in Nat /\ Honest(n)
  BY <1>1, Taken, TypeReceives DEF Sound, AcksAreHonest
<1> HIDE DEF n
<1>3. /\ n <= bytesSent /\ Decided(Floor + n) /\ (InStep => n <= received \/ Stranded)
      /\ lastServerEpoch = 0 => n = 0
  BY <1>2 DEF Honest
<1>4. /\ AckTo(n) \in Nat /\ bytesAcked <= AckTo(n) /\ AckTo(n) <= bytesSent
      /\ AckTo(n) = bytesAcked \/ AckTo(n) = n
  BY <1>2, <1>3, AckToHonest
<1>5. (InStep' => InStep) /\ (InStep => InStep' \/ Stranded)
  <2>1. InStep => AckTo(n) <= received \/ Stranded
    BY <1>3, <1>4 DEF InStep
  <2>2. AckTo(n) <= received => bytesAcked <= received
    BY <1>4, Facts
  <2> QED BY <1>1, <2>1, <2>2 DEF InStep, ledgerVars
<1>6. OutboxIsTail'
  <2>1. /\ \A i \in 1..Len(Unacked(n)) : Unacked(n)[i] = typed - Len(Unacked(n)) + i
        /\ Decided(typed - Len(Unacked(n))) /\ bytesSent <= typed
    BY <1>2, <1>3, Trimmed DEF Sound, OutboxIsTail
  <2> QED BY <1>1, <2>1 DEF OutboxIsTail, Decided, ledgerVars
<1>7. AppliedIsTyped'
  <2>1. lastServerEpoch = 0 => bytesAcked = 0 /\ received = 0
    BY DEF Sound, AppliedIsTyped
  <2>2. lastServerEpoch = 0 => AckTo(n) = 0
    BY <1>3, <1>4, <2>1
  <2>3. ~InStep' => received = 0
    BY <1>5 DEF Sound, AppliedIsTyped, Stranded
  <2> QED BY <1>1, <1>5, <2>2, <2>3
          DEF Sound, AppliedIsTyped, AppliedInOrder, Decided, Floor, ledgerVars
<1> QED BY <1>1, <1>5, <1>6, <1>7, LeftUnderWay DEF Sound

\* The answer reaches the page: it fits, nothing else under way answers, and
\* nothing is on its way up from a socket in use.
LEMMA AnswerTaken ==
    ASSUME InputTypeOK, Sound, NEW s \in Sockets, RecvResumeAck(s),
           sock' = sock, UNCHANGED <<linked, connVars, ledgerVars>>
    PROVE  LET ack == down[s][1] IN
           /\ Fits(ack.received, ack.epoch, ack.ledgerLost)
           /\ ack = Head(down[s]) /\ ack.received \in Nat /\ ack.epoch \in Nat
           /\ answered' = TRUE /\ lastServerEpoch' = ack.epoch
           /\ sock = s /\ s # NoSocket /\ ~answered /\ Len(sent[s]) = 0
           /\ conn[s] # "answering" /\ (conn[s] = "reading" => Attached(s))
           /\ linked[s] => conn[s] = "reading"
           /\ \A i \in 1..Len(down'[s]) : /\ down'[s][i] = down[s][i + 1]
                                          /\ i + 1 \in 1..Len(down[s])
                                          /\ down'[s][i].type # "resumeAck"
           /\ \A t \in Sockets : /\ t # s => down'[t] = down[t]
                                 /\ Attached(t)' = Attached(t)
                                 /\ Len(down[t]) = 0 => Len(down'[t]) = 0
           /\ AnswerIsAlone' /\ AnswersFit' /\ WaitingIsQuiet'
<1> DEFINE ack == down[s][1]
<1>1. /\ Receives(s, "resumeAck") /\ answered' = TRUE /\ lastServerEpoch' = Head(down[s]).epoch
  BY DEF RecvResumeAck
<1>2. /\ sock = s /\ s # NoSocket /\ Head(down[s]) = ack /\ ack \in Downward
      /\ ack.type = "resumeAck"
      /\ Len(down[s]) \in Nat /\ 1 \in 1..Len(down[s]) /\ Len(down'[s]) = Len(down[s]) - 1
      /\ \A i \in 1..Len(down'[s]) : down'[s][i] = down[s][i + 1] /\ i + 1 \in 1..Len(down[s])
      /\ \A t \in Sockets \ {s} : down'[t] = down[t]
  BY <1>1, Taken
<1>3. ack.received \in Nat /\ ack.epoch \in Nat
  BY <1>2, MessageFields
<1>4. Fits(ack.received, ack.epoch, ack.ledgerLost)
  BY <1>2 DEF Sound, AnswersFit
<1>5. /\ ~answered /\ conn[s] # "answering" /\ (conn[s] = "reading" => Attached(s))
  BY <1>2 DEF Sound, AnswerIsAlone
<1>6. linked[s] => conn[s] = "reading"
  BY <1>5 DEF Sound, LinksAreHeld, InputTypeOK, ServerTypes, Conn
<1>7. Len(sent[s]) = 0
  <2>1. conn[s] = "closed" \/ Attached(s)
    BY <1>5 DEF InputTypeOK, ServerTypes, Conn
  <2>2. \A i \in 1..Len(sent[s]) : sent[s][i].type \in {"input", "resume"}
    BY MessageFields DEF InputTypeOK, WireTypes
  <2>3. Len(sent[s]) \in Nat
    BY Facts
  <2>4. conn[s] = "closed" => Len(sent[s]) = 0
    BY DEF Sound, LinksAreHeld
  <2>5. Attached(s) => ~(1 \in 1..Len(sent[s]))
    BY <1>2, <1>5, <2>2 DEF Sound, UpIsOrdered
  <2> QED BY <2>1, <2>3, <2>4, <2>5
<1>8. \A i \in 1..Len(down'[s]) : down'[s][i].type # "resumeAck"
  <2> TAKE i \in 1..Len(down'[s])
  <2>1. i + 1 # 1 /\ i + 1 \in 1..Len(down[s]) /\ down'[s][i] = down[s][i + 1]
    BY <1>2
  <2> QED BY <1>2, <2>1 DEF Sound, AnswerIsAlone
<1>9. \A t \in Sockets : Attached(t)' = Attached(t) /\ conn'[t] = conn[t]
  BY DEF Attached, connVars, ledgerVars
<1>10. \A t \in Sockets : Len(down[t]) = 0 => Len(down'[t]) = 0
  BY <1>2
<1>11. lastServerEpoch' # 0
  BY <1>1, <1>2, <1>3, <1>4, Facts DEF Fits
<1>12. AnswerIsAlone'
  <2>1. conn[s] = "closed" \/ (conn[s] = "reading" /\ Attached(s))
    BY <1>5 DEF InputTypeOK, ServerTypes, Conn
  <2> QED BY <1>2, <1>8, <1>9, <1>11, <2>1 DEF AnswerIsAlone
<1>13. AnswersFit'
  BY <1>2, <1>5, <1>8, <1>9 DEF AnswersFit
<1>14. WaitingIsQuiet'
  BY <1>1 DEF WaitingIsQuiet
<1> QED BY <1>1, <1>2, <1>3, <1>4, <1>5, <1>6, <1>7, <1>8, <1>9, <1>10, <1>12, <1>13, <1>14

\* The page is told that its counters are void: it counts from the newest byte,
\* and the outbox is covered by the notice.
LEMMA RecvLossStep ==
    ASSUME InputTypeOK, Sound, NEW s \in Sockets, RecvLoss(s)
    PROVE  Sound'
<1> DEFINE ack == down[s][1]
<1> DEFINE n == ack.received
<1>1. /\ RecvResumeAck(s)
      /\ Restarted(Head(down[s])) \/ Forgot(Head(down[s]))
      /\ bytesSent' = 0 /\ bytesAcked' = 0 /\ outbox' = <<>> /\ Len(outbox') = 0
      /\ warned' = warned \cup Range(outbox)
      /\ UNCHANGED <<typed, sock, sent, linked, connVars, ledgerVars>>
  BY DEF RecvLoss
<1>2. /\ Fits(n, ack.epoch, ack.ledgerLost)
      /\ ack = Head(down[s]) /\ n \in Nat /\ ack.epoch \in Nat
      /\ answered' = TRUE /\ lastServerEpoch' = ack.epoch
      /\ sock = s /\ s # NoSocket /\ ~answered /\ Len(sent[s]) = 0
      /\ \A i \in 1..Len(down'[s]) : /\ down'[s][i] = down[s][i + 1]
                                     /\ i + 1 \in 1..Len(down[s])
      /\ \A t \in Sockets : /\ t # s => down'[t] = down[t]
                            /\ Attached(t)' = Attached(t)
                            /\ Len(down[t]) = 0 => Len(down'[t]) = 0
      /\ AnswerIsAlone' /\ AnswersFit' /\ WaitingIsQuiet'
  BY <1>1, AnswerTaken
<1> HIDE DEF ack
<1>3. n = 0
  BY <1>1, <1>2 DEF Fits, Restarted, Forgot
<1>4. Floor' = typed
  BY <1>1, Facts DEF Floor
<1>5. Decided(typed)'
  <2>1. \A k \in 1..typed : k \in 1..(typed - Len(outbox)) \/ k - (typed - Len(outbox)) \in 1..Len(outbox)
    BY Facts
  <2>2. \A i \in 1..Len(outbox) : outbox[i] = typed - Len(outbox) + i /\ outbox[i] \in Range(outbox)
    BY DEF Sound, OutboxIsTail, Range, InputTypeOK, PageTypes
  <2>3. \A k \in 1..typed : typed - Len(outbox) + (k - (typed - Len(outbox))) = k
    BY Facts
  <2>4. \A k \in 1..typed : k \in 1..(typed - Len(outbox)) \/ k \in Range(outbox)
    <3> TAKE k \in 1..typed
    <3>1. k - (typed - Len(outbox)) \in 1..Len(outbox) => k \in Range(outbox)
      BY <2>2, <2>3
    <3> QED BY <2>1, <3>1
  <2>5. \A k \in 1..(typed - Len(outbox)) : k \in Range(applied) \cup warned
    BY DEF Sound, OutboxIsTail, Decided
  <2>6. \A k \in 1..typed : k \in Range(applied) \cup (warned \cup Range(outbox))
    BY <2>4, <2>5
  <2> QED BY <1>1, <2>6 DEF Decided, ledgerVars
<1>6. InStep' <=> ack.epoch = bootEpoch
  BY <1>1, <1>2, Facts DEF InStep, Fits, ledgerVars
<1>7. received = 0
  <2>1. CASE ack.epoch = bootEpoch
    BY <1>2, <1>3, <2>1 DEF Fits
  <2>2. CASE ack.epoch # bootEpoch
    <3>1. lastServerEpoch = 0 \/ lastServerEpoch # bootEpoch
      BY <1>2, <2>2, Facts DEF Fits
    <3> QED BY <3>1 DEF Sound, AppliedIsTyped, InStep
  <2> QED BY <2>1, <2>2
<1>8. OutboxIsTail'
  <2>1. typed - 0 = typed /\ 0 <= typed
    BY Facts
  <2> QED BY <1>1, <1>5, <2>1 DEF OutboxIsTail
<1>9. AppliedIsTyped'
  <2>1. typed + received = typed
    BY <1>7, Facts
  <2>2. ack.epoch <= bootEpoch /\ ack.epoch # 0
    BY <1>2, Facts DEF Fits
  <2> QED BY <1>1, <1>2, <1>4, <1>5, <1>7, <2>1, <2>2
          DEF Sound, AppliedIsTyped, AppliedInOrder, ledgerVars
<1>10. LinksAreHeld'
  BY <1>1, <1>2 DEF Sound, LinksAreHeld, connVars, ledgerVars
<1>11. UpIsOrdered'
  <2>1. lastServerEpoch' # 0
    BY <1>2, Facts DEF Fits
  <2> QED BY <1>1, <1>2, <2>1 DEF Sound, UpIsOrdered, connVars
<1>12. UpContinues'
  <2> SUFFICES ASSUME NEW t \in Sockets, owner' = t
               PROVE  /\ Len(sent'[t]) > 0 => InStep' /\ Len(sent'[t]) <= bytesSent' - received'
                      /\ \A i \in 1..Len(sent'[t]) : sent'[t][i] = Input(Floor' + received' + i)
                      /\ sock' = t /\ answered' /\ linked'[t] =>
                            InStep' /\ Len(sent'[t]) = bytesSent' - received'
    BY DEF UpContinues
  <2>1. owner = t /\ sent' = sent /\ received' = 0 /\ bytesSent' = 0 /\ sock' = s /\ linked' = linked
    BY <1>1, <1>2, <1>7 DEF ledgerVars
  <2>2. Len(sent'[t]) = 0
    BY <1>2, <2>1, NoSocketAssumption DEF Fits
  <2>3. linked[s] => InStep'
    BY <1>2, <1>6 DEF Fits
  <2> QED BY <2>1, <2>2, <2>3
<1>13. AcksAreHonest'
  <2>1. Honest(0)'
    <3>1. typed + 0 = typed
      BY Facts
    <3> QED BY <1>1, <1>4, <1>5, <1>7, <3>1 DEF Honest, ledgerVars
  <2>2. \A i \in 1..Len(down'[s]) : down'[s][i].received = 0
    BY <1>2, <1>3 DEF Fits
  <2> QED BY <1>1, <1>2, <2>1, <2>2 DEF AcksAreHonest
<1> QED BY <1>2, <1>8, <1>9, <1>10, <1>11, <1>12, <1>13 DEF Sound

\* The page is answered by the ledger it knows: it trims to the count and sends
\* again exactly what the ledger lacks.
LEMMA RecvResumeStep ==
    ASSUME InputTypeOK, Sound, NEW s \in Sockets, RecvResume(s)
    PROVE  Sound'
<1> DEFINE ack == down[s][1]
<1> DEFINE n == ack.received
<1> DEFINE a == AckTo(n)
<1>1. /\ RecvResumeAck(s)
      /\ ~Restarted(Head(down[s])) /\ ~Forgot(Head(down[s]))
      /\ outbox' = Unacked(Head(down[s]).received) /\ bytesAcked' = AckTo(Head(down[s]).received)
      /\ sent' = Carry(sent, s, Inputs(outbox'))
      /\ UNCHANGED <<typed, bytesSent, sock, warned, linked, connVars, ledgerVars>>
  BY DEF RecvResume
<1>2. /\ Fits(n, ack.epoch, ack.ledgerLost)
      /\ ack = Head(down[s]) /\ n \in Nat /\ ack.epoch \in Nat
      /\ answered' = TRUE /\ lastServerEpoch' = ack.epoch
      /\ sock = s /\ s # NoSocket /\ ~answered /\ Len(sent[s]) = 0
      /\ linked[s] => conn[s] = "reading" /\ Attached(s)
      /\ \A i \in 1..Len(down'[s]) : /\ down'[s][i] = down[s][i + 1]
                                     /\ i + 1 \in 1..Len(down[s])
      /\ \A t \in Sockets : /\ t # s => down'[t] = down[t]
                            /\ Attached(t)' = Attached(t)
                            /\ Len(down[t]) = 0 => Len(down'[t]) = 0
      /\ AnswerIsAlone' /\ AnswersFit' /\ WaitingIsQuiet'
  BY <1>1, AnswerTaken
<1>3. /\ outbox' = Unacked(n) /\ bytesAcked' = a
      /\ lastServerEpoch # 0 => ack.epoch = lastServerEpoch
      /\ n = 0 => ~(bytesAcked > 0)
  BY <1>1, <1>2 DEF Restarted, Forgot
<1> HIDE DEF ack
<1>4. Honest(n) /\ n <= bytesSent /\ Decided(Floor + n) /\ (InStep => n <= received \/ Stranded)
  BY <1>2 DEF Fits, Honest
<1>5. /\ a \in Nat /\ bytesAcked <= a /\ a <= bytesSent
      /\ a = bytesAcked \/ a = n
  BY <1>2, <1>4, AckToHonest
<1>6. Len(Unacked(n)) = bytesSent - a /\ Unacked(n) \in Seq(Bytes)
  BY <1>2, UnackedIs
<1>7. /\ \A i \in 1..Len(Unacked(n)) : Unacked(n)[i] = typed - Len(Unacked(n)) + i
      /\ Decided(typed - Len(Unacked(n))) /\ bytesSent <= typed
  BY <1>2, <1>4, Trimmed DEF Sound, OutboxIsTail
<1> HIDE DEF a
<1>8. /\ InStep' <=> ack.epoch = bootEpoch /\ a <= received
      /\ ack.epoch # 0 /\ ack.epoch <= bootEpoch
  <2>1. ack.epoch # 0 /\ ack.epoch <= bootEpoch
    BY <1>2, Facts DEF Fits
  <2> QED BY <1>1, <1>2, <1>3, <2>1 DEF InStep, ledgerVars
<1>9. InStep' => InStep
  <2> SUFFICES ASSUME ack.epoch = bootEpoch, a <= received PROVE InStep
    BY <1>8
  <2>1. lastServerEpoch \in {0, bootEpoch}
    BY <1>3
  <2>2. bytesAcked \in Nat /\ received \in Nat
    BY Facts
  <2>3. bytesAcked <= received
    BY <1>5, <2>2
  <2> QED BY <2>1, <2>3 DEF InStep
<1>10. InStep => InStep' \/ received = 0
  <2> SUFFICES ASSUME InStep PROVE InStep' \/ received = 0
    OBVIOUS
  <2>1. a <= received \/ received = 0
    BY <1>4, <1>5 DEF InStep, Stranded
  <2>2. CASE lastServerEpoch = 0
    BY <2>2 DEF Sound, AppliedIsTyped
  <2>3. CASE lastServerEpoch # 0
    BY <1>3, <1>8, <2>1, <2>3 DEF InStep
  <2> QED BY <2>2, <2>3
<1>11. linked[s] => InStep' /\ a = received
  <2> SUFFICES ASSUME linked[s] PROVE InStep' /\ a = received
    OBVIOUS
  <2>1. ack.epoch = bootEpoch /\ received = n
    BY <1>2 DEF Fits
  <2>2. InStep
    <3> SUFFICES ASSUME ~InStep PROVE FALSE
      OBVIOUS
    <3>1. received = 0
      BY DEF Sound, AppliedIsTyped
    <3>2. bytesAcked = 0
      BY <1>3, <2>1, <3>1, Facts
    <3> QED BY <1>3, <2>1, <3>1, <3>2 DEF InStep
  <2>3. bytesAcked <= n
    BY <2>1, <2>2 DEF InStep
  <2>4. a = n
    <3>1. a = IF n <= bytesAcked THEN bytesAcked ELSE n
      BY <1>2, <1>4, AckToBounds DEF a
    <3>2. bytesAcked \in Nat
      BY Facts
    <3> QED BY <1>2, <2>3, <3>1, <3>2
  <2> QED BY <1>2, <1>8, <2>1, <2>4
<1>12. ASSUME NEW t \in Sockets
       PROVE  \/ sent'[t] = sent[t] /\ (t = s => ~linked[s])
              \/ /\ t = s /\ linked[s] /\ Len(sent'[t]) = bytesSent - a
                 /\ \A i \in 1..Len(sent'[t]) : sent'[t][i] = Input(typed - (bytesSent - a) + i)
  <2>1. sent' = Carry(sent, s, Inputs(Unacked(n)))
    BY <1>1, <1>3
  <2>2. /\ Inputs(Unacked(n)) \in Seq(Upward) /\ Len(Inputs(Unacked(n))) = bytesSent - a
        /\ \A i \in 1..(bytesSent - a) : Inputs(Unacked(n))[i] = Input(typed - (bytesSent - a) + i)
    BY <1>6, <1>7, InputsAre
  <2>3. sent[s] = <<>>
    BY <1>2, EmptySeq DEF InputTypeOK, WireTypes
  <2>4. <<>> \o Inputs(Unacked(n)) = Inputs(Unacked(n))
    BY <2>2
  <2>5. CASE t = s /\ linked[s]
    <3>1. sent'[s] = Inputs(Unacked(n))
      BY <2>1, <2>2, <2>3, <2>4, <2>5, CarryUp
    <3> QED BY <2>2, <2>5, <3>1
  <2>6. CASE ~(t = s /\ linked[s])
    BY <2>1, <2>2, <2>6, CarryUp, ZenonT(60)
  <2> QED BY <2>5, <2>6
<1>13. OutboxIsTail'
  BY <1>1, <1>3, <1>7 DEF OutboxIsTail, Decided, ledgerVars
<1>14. AppliedIsTyped'
  <2>1. ~InStep' => received = 0
    BY <1>10 DEF Sound, AppliedIsTyped
  <2> QED BY <1>1, <1>2, <1>8, <1>9, <2>1
          DEF Sound, AppliedIsTyped, AppliedInOrder, Decided, Floor, ledgerVars
<1>15. LinksAreHeld'
  <2>1. \A t \in Sockets : conn[t] = "closed" => sent'[t] = sent[t]
    BY <1>2, <1>12
  <2> QED BY <1>1, <1>2, <2>1 DEF Sound, LinksAreHeld, connVars, ledgerVars
<1>16. UpIsOrdered'
  <2> SUFFICES ASSUME NEW t \in Sockets, NEW i \in 1..Len(sent'[t])
               PROVE  /\ sent'[t][i].type = "resume" => Len(sent'[t]) = 1 /\ ~Attached(t)'
                      /\ sent'[t][i].type = "input" =>
                              /\ Attached(t)' /\ conn'[t] = "reading" /\ lastServerEpoch' # 0
                              /\ sock' = t => answered'
    BY DEF UpIsOrdered
  <2>1. conn' = conn /\ lastServerEpoch' # 0 /\ answered' /\ Attached(t)' = Attached(t)
    BY <1>1, <1>2, <1>8 DEF connVars
  <2>2. CASE sent'[t] = sent[t]
    BY <2>1, <2>2 DEF Sound, UpIsOrdered
  <2>3. CASE /\ t = s /\ linked[s] /\ Len(sent'[t]) = bytesSent - a
             /\ \A k \in 1..Len(sent'[t]) : sent'[t][k] = Input(typed - (bytesSent - a) + k)
    <3>1. \A b : Input(b).type = "input"
      BY DEF Input
    <3>2. sent'[t][i].type = "input"
      BY <2>3, <3>1
    <3> QED BY <1>2, <2>1, <2>3, <3>2
  <2> QED BY <1>12, <2>2, <2>3
<1>17. UpContinues'
  <2> SUFFICES ASSUME NEW t \in Sockets, owner' = t
               PROVE  /\ Len(sent'[t]) > 0 => InStep' /\ Len(sent'[t]) <= bytesSent' - received'
                      /\ \A i \in 1..Len(sent'[t]) : sent'[t][i] = Input(Floor' + received' + i)
                      /\ sock' = t /\ answered' /\ linked'[t] =>
                            InStep' /\ Len(sent'[t]) = bytesSent' - received'
    BY DEF UpContinues
  <2>1. /\ owner = t /\ received' = received /\ bytesSent' = bytesSent /\ sock' = s
        /\ linked' = linked /\ Floor' = Floor
    BY <1>1, <1>2 DEF ledgerVars, Floor
  <2>2. Len(sent[t]) = 0
    BY <1>2, <2>1, NoSocketAssumption DEF Fits
  <2>3. CASE sent'[t] = sent[t] /\ (t = s => ~linked[s])
    BY <2>1, <2>2, <2>3
  <2>4. CASE /\ t = s /\ linked[s] /\ Len(sent'[t]) = bytesSent - a
             /\ \A i \in 1..Len(sent'[t]) : sent'[t][i] = Input(typed - (bytesSent - a) + i)
    <3>1. InStep' /\ a = received
      BY <1>11, <2>4
    <3>2. typed - (bytesSent - a) = Floor + received
      BY <1>5, <3>1, Facts DEF Floor
    <3>3. bytesSent - a = bytesSent - received
      BY <3>1
    <3> QED BY <2>1, <2>4, <3>1, <3>2, <3>3, Facts
  <2> QED BY <1>12, <2>3, <2>4
<1>18. AcksAreHonest'
  <2>1. Stranded => Stranded'
    <3> SUFFICES ASSUME Stranded PROVE Stranded'
      OBVIOUS
    <3>1. owner # NoSocket => sent'[owner] = sent[owner]
      BY <1>2, <1>12, Facts DEF Stranded
    <3> QED BY <1>1, <3>1 DEF Stranded, ledgerVars
  <2>2. \A k : Honest(k) => Honest(k)'
    BY <1>1, <1>8, <1>9, <1>2, <2>1 DEF Honest, Decided, Floor, ledgerVars
  <2> QED BY <1>1, <1>2, <2>2 DEF Sound, AcksAreHonest
<1> QED BY <1>2, <1>13, <1>14, <1>15, <1>16, <1>17, <1>18 DEF Sound

\* The ledger's own count is of bytes decided.
LEMMA CountIsHonest == InputTypeOK /\ Sound => Honest(received)
<1> SUFFICES ASSUME InputTypeOK, Sound PROVE Honest(received)
  OBVIOUS
<1>1. CASE InStep
  BY <1>1, Facts DEF Sound, AppliedIsTyped, Honest
<1>2. CASE ~InStep
  <2>1. received = 0
    BY <1>2 DEF Sound, AppliedIsTyped
  <2>2. \A k \in 1..(Floor + 0) : k \in 1..(typed - Len(outbox))
    BY Facts DEF Floor
  <2>3. Decided(Floor + 0)
    BY <2>2 DEF Sound, OutboxIsTail, Decided
  <2> QED BY <1>2, <2>1, <2>3, Facts DEF Honest
<1> QED BY <1>1, <1>2

\* A message is taken off a socket by its read loop.
LEMMA ReadOff ==
    ASSUME InputTypeOK, NEW s \in Sockets, NEW type, Reads(s, type)
    PROVE  /\ conn[s] = "reading" /\ ~fenced[s]
           /\ Head(sent[s]) = sent[s][1] /\ sent[s][1] \in Upward /\ sent[s][1].type = type
           /\ Len(sent[s]) \in Nat /\ 1 \in 1..Len(sent[s]) /\ Len(sent'[s]) = Len(sent[s]) - 1
           /\ \A i \in 1..Len(sent'[s]) : sent'[s][i] = sent[s][i + 1] /\ i + 1 \in 1..Len(sent[s])
           /\ \A t \in Sockets \ {s} : sent'[t] = sent[t]
<1>1. /\ conn[s] = "reading" /\ ~fenced[s] /\ sent[s] # <<>> /\ Head(sent[s]).type = type
      /\ sent' = [sent EXCEPT ![s] = Tail(@)] /\ sent[s] \in Seq(Upward)
      /\ sent \in [Sockets -> Seq(Upward)]
  BY DEF Reads, InputTypeOK, WireTypes
<1>2. sent'[s] = Tail(sent[s]) /\ \A t \in Sockets \ {s} : sent'[t] = sent[t]
  BY <1>1
<1>3. /\ Head(sent[s]) = sent[s][1] /\ Head(sent[s]) \in Upward
      /\ Len(Tail(sent[s])) = Len(sent[s]) - 1 /\ Len(sent[s]) \in Nat \ {0}
      /\ \A i \in 1..Len(Tail(sent[s])) : Tail(sent[s])[i] = sent[s][i + 1] /\ i + 1 \in 1..Len(sent[s])
  BY <1>1, TailIs
<1> QED BY <1>1, <1>2, <1>3

\* A resume takes the ledger: its answer is fixed here, and whoever had the
\* ledger is fenced.
LEMMA TakeLedgerStep ==
    ASSUME InputTypeOK, Sound, NEW s \in Sockets, TakeLedger(s)
    PROVE  Sound'
<1>1. /\ Reads(s, "resume") /\ known' = TRUE /\ owner' = s
      /\ \A t \in Sockets : fenced'[t] <=> fenced[t] \/ (t = owner /\ t # s)
      /\ reply'[s].received = received /\ (reply'[s].ledgerLost => ~known)
      /\ conn'[s] = "answering" /\ \A t \in Sockets \ {s} : conn'[t] = conn[t]
      /\ UNCHANGED <<typed, outbox, bytesSent, bytesAcked, lastServerEpoch, warned>>
      /\ UNCHANGED <<sock, answered, down, linked, bootEpoch, received, applied>>
  BY DEF TakeLedger, InputTypeOK, ServerTypes, outboxVars
<1>2. /\ conn[s] = "reading" /\ ~fenced[s] /\ ~Attached(s) /\ Len(sent'[s]) = 0
      /\ \A t \in Sockets \ {s} : sent'[t] = sent[t]
  <2>1. /\ conn[s] = "reading" /\ ~fenced[s] /\ sent[s][1].type = "resume" /\ 1 \in 1..Len(sent[s])
        /\ Len(sent'[s]) = Len(sent[s]) - 1 /\ \A t \in Sockets \ {s} : sent'[t] = sent[t]
    BY <1>1, ReadOff
  <2>2. Len(sent[s]) = 1 /\ ~Attached(s)
    BY <2>1 DEF Sound, UpIsOrdered
  <2> QED BY <2>1, <2>2
<1>3. owner # s /\ Len(down[s]) = 0 /\ s # NoSocket
  BY <1>2, NoSocketAssumption DEF Attached, Sound, LinksAreHeld
<1>4. Attached(s)' /\ \A t \in Sockets \ {s} : Attached(t)' <=> Attached(t)
  BY <1>1, <1>2, <1>3 DEF Attached
<1>5. InStep' = InStep /\ \A k : Honest(k) => Honest(k)'
  <2>1. InStep' = InStep
    BY <1>1 DEF InStep
  <2>2. Stranded => Stranded'
    BY <1>1, <1>2 DEF Stranded
  <2> QED BY <1>1, <2>1, <2>2, HonestKept
<1>6. ~(sock = s /\ answered)
  BY <1>2, <1>3 DEF Sound, AnswerIsAlone
<1>7. OutboxIsTail' /\ AppliedIsTyped'
  BY <1>1, <1>5 DEF Sound, OutboxIsTail, AppliedIsTyped, AppliedInOrder, Decided, Floor
<1>8. LinksAreHeld'
  <2> SUFFICES ASSUME NEW t \in Sockets
               PROVE  /\ linked'[t] => sock' = t /\ conn'[t] # "closed"
                      /\ sock' # t => Len(down'[t]) = 0
                      /\ owner' = t => conn'[t] # "closed" /\ ~fenced'[t] /\ known'
                      /\ fenced'[t] => conn'[t] # "closed"
                      /\ conn'[t] = "closed" => Len(sent'[t]) = 0
                      /\ conn'[t] = "answering" => owner' = t \/ fenced'[t]
                      /\ conn'[t] = "reading" /\ ~Attached(t)' => Len(down'[t]) = 0
    BY DEF LinksAreHeld
  <2>1. CASE t = s
    BY <1>1, <1>2, <1>3, <2>1 DEF Sound, LinksAreHeld
  <2>2. CASE t # s
    BY <1>1, <1>2, <1>4, <2>2 DEF Sound, LinksAreHeld
  <2> QED BY <2>1, <2>2
<1>9. UpIsOrdered'
  <2> SUFFICES ASSUME NEW t \in Sockets, NEW i \in 1..Len(sent'[t])
               PROVE  /\ sent'[t][i].type = "resume" => Len(sent'[t]) = 1 /\ ~Attached(t)'
                      /\ sent'[t][i].type = "input" =>
                              /\ Attached(t)' /\ conn'[t] = "reading" /\ lastServerEpoch' # 0
                              /\ sock' = t => answered'
    BY DEF UpIsOrdered
  <2>1. t # s
    BY <1>2
  <2> QED BY <1>1, <1>2, <1>4, <2>1 DEF Sound, UpIsOrdered
<1>10. UpContinues'
  <2> SUFFICES ASSUME NEW t \in Sockets, owner' = t
               PROVE  /\ Len(sent'[t]) > 0 => InStep' /\ Len(sent'[t]) <= bytesSent' - received'
                      /\ \A i \in 1..Len(sent'[t]) : sent'[t][i] = Input(Floor' + received' + i)
                      /\ ~(sock' = t /\ answered')
    BY DEF UpContinues
  <2> QED BY <1>1, <1>2, <1>6
<1>11. AcksAreHonest'
  BY <1>1, <1>5 DEF Sound, AcksAreHonest
<1>12. AnswerIsAlone'
  BY <1>1, <1>3, <1>4, <1>6, Facts DEF Sound, AnswerIsAlone
<1>13. AnswersFit'
  <2>1. CASE sock = s
    <3> SUFFICES Fits(reply[sock].received, bootEpoch, reply[sock].ledgerLost)'
      BY <1>1, <1>3, <2>1 DEF AnswersFit
    <3>1. Honest(reply[sock].received)'
      <4>1. received <= bytesSent /\ Decided(Floor + received) /\ (lastServerEpoch = 0 => received = 0)
        BY CountIsHonest DEF Honest
      <4>2. /\ sock' = s /\ reply'[s].received = received /\ bytesSent' = bytesSent
            /\ Floor' = Floor /\ received' = received /\ received <= received
            /\ lastServerEpoch' = lastServerEpoch
            /\ \A k : Decided(k)' = Decided(k)
        BY <1>1, <2>1, Facts DEF Floor, Decided
      <4> QED BY <4>1, <4>2 DEF Honest, Decided
    <3>2. reply'[s].ledgerLost => received = 0
      BY <1>1 DEF Sound, AppliedIsTyped
    <3>3. lastServerEpoch # 0 /\ bootEpoch # lastServerEpoch => received = 0
      BY DEF InStep, Sound, AppliedIsTyped
    <3>4. bootEpoch \in 1..bootEpoch /\ bootEpoch >= lastServerEpoch
      BY Facts DEF Sound, AppliedIsTyped
    <3> QED BY <1>1, <1>2, <1>3, <2>1, <3>1, <3>2, <3>3, <3>4 DEF Fits
  <2>2. CASE sock # s
    <3>1. sock # NoSocket /\ conn[sock] = "answering" => fenced'[sock]
      BY <1>1, <2>2, Facts DEF Sound, LinksAreHeld
    <3>2. \A n, e, lost : Fits(n, e, lost) => Fits(n, e, lost)'
      BY <1>1, <1>2, <1>5 DEF Fits
    <3> QED BY <1>1, <2>2, <3>1, <3>2, Facts DEF Sound, AnswersFit
  <2> QED BY <2>1, <2>2
<1>14. WaitingIsQuiet'
  BY <1>1, <1>2 DEF WaitingIsQuiet
<1> QED BY <1>7, <1>8, <1>9, <1>10, <1>11, <1>12, <1>13, <1>14 DEF Sound

\* The read loop ends: what it had not read is gone, and with it its hold on
\* the ledger.
LEMMA EndConnStep ==
    ASSUME InputTypeOK, Sound, NEW s \in Sockets, EndConn(s)
    PROVE  Sound'
<1>1. /\ conn[s] = "reading" /\ conn'[s] = "closed" /\ ~linked'[s] /\ ~fenced'[s]
      /\ sent'[s] = <<>> /\ Len(sent'[s]) = 0
      /\ owner' = IF owner = s THEN NoSocket ELSE owner
      /\ \A t \in Sockets \ {s} : /\ conn'[t] = conn[t] /\ linked'[t] = linked[t]
                                  /\ fenced'[t] = fenced[t] /\ sent'[t] = sent[t]
      /\ UNCHANGED <<typed, outbox, bytesSent, bytesAcked, lastServerEpoch, warned>>
      /\ UNCHANGED <<bootEpoch, known, received, applied>>
      /\ UNCHANGED <<sock, answered, down, reply>>
  BY DEF EndConn, InputTypeOK, ServerTypes, WireTypes, outboxVars
<1>2. ~Attached(s)' /\ \A t \in Sockets \ {s} : Attached(t)' <=> Attached(t)
  BY <1>1, NoSocketAssumption DEF Attached
<1>3. InStep' = InStep
  BY <1>1 DEF InStep
<1>4. OutboxIsTail' /\ AppliedIsTyped'
  BY <1>1, CountersKept DEF Sound
<1>5. \A t \in Sockets : owner' = t => owner = t /\ t # s
  BY <1>1, NoSocketAssumption
<1>6. LinksAreHeld'
  <2> SUFFICES ASSUME NEW t \in Sockets
               PROVE  /\ linked'[t] => sock' = t /\ conn'[t] # "closed"
                      /\ sock' # t => Len(down'[t]) = 0
                      /\ owner' = t => conn'[t] # "closed" /\ ~fenced'[t] /\ known'
                      /\ fenced'[t] => conn'[t] # "closed"
                      /\ conn'[t] = "closed" => Len(sent'[t]) = 0
                      /\ conn'[t] = "answering" => owner' = t \/ fenced'[t]
                      /\ conn'[t] = "reading" /\ ~Attached(t)' => Len(down'[t]) = 0
    BY DEF LinksAreHeld
  <2>1. CASE t = s
    BY <1>1, <1>5, <2>1 DEF Sound, LinksAreHeld
  <2>2. CASE t # s
    BY <1>1, <1>2, <1>5, <2>2 DEF Sound, LinksAreHeld
  <2> QED BY <2>1, <2>2
<1>7. UpIsOrdered'
  BY <1>1, <1>2 DEF Sound, UpIsOrdered
<1>8. UpContinues'
  <2> SUFFICES ASSUME NEW t \in Sockets, owner' = t
               PROVE  /\ Len(sent'[t]) > 0 => InStep' /\ Len(sent'[t]) <= bytesSent' - received'
                      /\ \A i \in 1..Len(sent'[t]) : sent'[t][i] = Input(Floor' + received' + i)
                      /\ sock' = t /\ answered' /\ linked'[t] =>
                            InStep' /\ Len(sent'[t]) = bytesSent' - received'
    BY DEF UpContinues
  <2>1. owner = t /\ sent'[t] = sent[t] /\ linked'[t] = linked[t] /\ Floor' = Floor
    BY <1>1, <1>5 DEF Floor
  <2> QED BY <1>1, <1>3, <2>1 DEF Sound, UpContinues
<1>11. owner' # NoSocket => owner' = owner /\ Len(sent'[owner]) = Len(sent[owner])
  BY <1>1, Facts
<1>14. sock # NoSocket => \A k : Honest(k) => Honest(k)'
  <2>1. sock # NoSocket /\ Stranded => Stranded'
    BY <1>1, <1>11, Facts DEF Stranded
  <2> QED BY <1>1, <1>3, <2>1, HonestKept
<1>9. AcksAreHonest'
  BY <1>1, <1>14 DEF Sound, AcksAreHonest
<1>10. AnswerIsAlone'
  BY <1>1, <1>2, Facts DEF Sound, AnswerIsAlone
<1>12. AnswersFit'
  <2>1. sock # NoSocket /\ linked'[sock] => linked[sock]
    BY <1>1, Facts
  <2>2. \A n, e, lost : sock # NoSocket /\ Fits(n, e, lost) => Fits(n, e, lost)'
    BY <1>1, <1>11, <1>14, <2>1 DEF Fits
  <2> QED BY <1>1, <2>1, <2>2, Facts DEF Sound, AnswersFit
<1>13. WaitingIsQuiet'
  BY <1>1, <1>2, <1>11, Facts DEF Sound, WaitingIsQuiet
<1> QED BY <1>4, <1>6, <1>7, <1>8, <1>9, <1>10, <1>12, <1>13 DEF Sound

\* The owner's byte is run: it is the one the ledger lacks.
LEMMA ApplyInputStep ==
    ASSUME InputTypeOK, Sound, NEW s \in Sockets, ApplyInput(s)
    PROVE  Sound'
<1> DEFINE byte == Floor + received + 1
<1>1. /\ Reads(s, "input") /\ owner = s /\ s # NoSocket /\ received' = received + 1
      /\ applied' = Append(applied, Head(sent[s]).byte)
      /\ UNCHANGED <<typed, outbox, bytesSent, bytesAcked, lastServerEpoch, warned>>
      /\ UNCHANGED <<sock, answered, down, linked, connVars, bootEpoch, known, owner>>
  BY NoSocketAssumption DEF ApplyInput, outboxVars
<1>2. /\ conn[s] = "reading" /\ Head(sent[s]) = sent[s][1] /\ sent[s][1] \in Upward
      /\ sent[s][1].type = "input"
      /\ Len(sent[s]) \in Nat /\ 1 \in 1..Len(sent[s]) /\ Len(sent'[s]) = Len(sent[s]) - 1
      /\ \A i \in 1..Len(sent'[s]) : sent'[s][i] = sent[s][i + 1] /\ i + 1 \in 1..Len(sent[s])
      /\ \A t \in Sockets \ {s} : sent'[t] = sent[t]
  BY <1>1, ReadOff
<1>3. /\ Attached(s) /\ lastServerEpoch # 0
      /\ sock = s => answered
      /\ \A i \in 1..Len(sent[s]) : sent[s][i].type # "resume"
  BY <1>2 DEF Sound, UpIsOrdered
<1>4. /\ InStep /\ Len(sent[s]) <= bytesSent - received
      /\ \A i \in 1..Len(sent[s]) : sent[s][i] = Input(Floor + received + i)
      /\ sock = s /\ answered /\ linked[s] => Len(sent[s]) = bytesSent - received
  BY <1>1, <1>2 DEF Sound, UpContinues
<1>5. /\ sent[s][1].byte = byte /\ byte \in Bytes /\ byte <= typed
      /\ received + 1 <= bytesSent /\ Floor \in Int
  <2>1. \A b : Input(b).byte = b
    BY DEF Input
  <2>2. sent[s][1].byte = byte
    BY <1>2, <1>4, <2>1
  <2>3. received + 1 <= bytesSent /\ Floor \in Int
    BY <1>2, <1>4, Facts, SMTT(60) DEF Floor
  <2>4. byte <= typed
    BY <2>3, Facts DEF Floor
  <2> QED BY <1>2, <2>2, <2>3, <2>4, MessageFields
<1>6. /\ applied' = Append(applied, byte) /\ applied \in Seq(Bytes)
      /\ Range(applied') = Range(applied) \cup {byte}
      /\ Len(applied) \in Nat /\ Len(applied') = Len(applied) + 1
      /\ applied'[Len(applied) + 1] = byte
      /\ \A i \in 1..Len(applied) : applied'[i] = applied[i]
  <2>1. applied' = Append(applied, byte) /\ applied \in Seq(Bytes)
    BY <1>1, <1>2, <1>5 DEF InputTypeOK, ServerTypes
  <2> QED BY <1>5, <2>1, RangeAppend, AppendProperties, LenProperties
<1> HIDE DEF byte
<1>7. InStep'
  <2>1. bytesAcked <= received /\ bytesAcked \in Nat /\ received \in Nat
    BY <1>4, Facts DEF InStep
  <2> QED BY <1>1, <1>4, <2>1 DEF InStep
<1>8. /\ Floor' = Floor /\ \A k : Decided(k) => Decided(k)'
  BY <1>1, <1>6 DEF Floor, Decided
<1>9. \A t \in Sockets : Attached(t)' = Attached(t) /\ conn'[t] = conn[t] /\ fenced'[t] = fenced[t]
  BY <1>1 DEF Attached, connVars
<1>10. OutboxIsTail'
  BY <1>1, <1>8 DEF Sound, OutboxIsTail
<1>11. AppliedIsTyped'
  <2>1. \A i \in 1..Len(applied) :
            applied[i] \in Nat /\ (ForgetUnacked = FALSE => applied[i] <= Floor + received)
    <3>1. \A b \in Bytes : b \in Nat
      BY DEF Bytes
    <3>2. \A i \in 1..Len(applied) : applied[i] \in Bytes
      BY <1>6
    <3> QED BY <1>4, <3>1, <3>2 DEF Sound, AppliedIsTyped
  <2>2. \A i \in 1..Len(applied') : i \in 1..Len(applied) \/ i = Len(applied) + 1
    BY <1>6
  <2>3. byte = Floor + received + 1 /\ byte = Floor + received' /\ received \in Nat
    BY <1>1, <1>5, Facts DEF byte
  <2>4. \A i \in 1..Len(applied') :
            applied'[i] <= typed /\ (ForgetUnacked = FALSE => applied'[i] <= byte)
    <3> TAKE i \in 1..Len(applied')
    <3>1. CASE i \in 1..Len(applied)
      BY <1>5, <1>6, <2>1, <2>3, <3>1 DEF Sound, AppliedIsTyped
    <3>2. CASE i = Len(applied) + 1
      BY <1>5, <1>6, <2>3, <3>2
    <3> QED BY <2>2, <3>1, <3>2
  <2>5. ForgetUnacked = FALSE => AppliedInOrder'
    <3> SUFFICES ASSUME ForgetUnacked = FALSE,
                        NEW i \in 1..Len(applied'), NEW j \in 1..Len(applied'), i < j
                 PROVE  applied'[i] < applied'[j]
      <4>1. DOMAIN applied' = 1..Len(applied')
        BY <1>5, <1>6, AppendProperties
      <4> QED BY <4>1 DEF AppliedInOrder
    <3>1. CASE j \in 1..Len(applied)
      <4>1. i \in 1..Len(applied)
        BY <1>6, <3>1
      <4> QED BY <1>6, <3>1, <4>1 DEF Sound, AppliedIsTyped, AppliedInOrder
    <3>2. CASE j = Len(applied) + 1
      <4>1. i \in 1..Len(applied)
        BY <1>6, <3>2
      <4> QED BY <1>5, <1>6, <2>1, <2>3, <3>2, <4>1
    <3> QED BY <2>2, <3>1, <3>2
  <2>6. \A k \in 1..(Floor + received') : k \in Range(applied') \cup warned'
    <3>1. \A k \in 1..byte : k \in 1..(Floor + received) \/ k = byte
      BY <1>5, <2>3
    <3>2. \A k \in 1..(Floor + received) : k \in Range(applied) \cup warned
      BY <1>4 DEF Sound, AppliedIsTyped, Decided
    <3>3. \A k \in 1..byte : k \in Range(applied) \cup {byte} \cup warned
      BY <3>1, <3>2
    <3> QED BY <1>1, <1>6, <2>3, <3>3
  <2>7. received' <= bytesSent /\ known
    BY <1>1, <1>5 DEF Sound, LinksAreHeld
  <2>8. /\ known' /\ lastServerEpoch' # 0 /\ lastServerEpoch' <= bootEpoch'
        /\ bytesSent' = bytesSent /\ typed' = typed
    BY <1>1, <1>3, <2>7 DEF Sound, AppliedIsTyped
  <2> QED BY <1>7, <1>8, <2>3, <2>4, <2>5, <2>6, <2>7, <2>8 DEF AppliedIsTyped, Decided
<1>12. LinksAreHeld'
  BY <1>1, <1>2, <1>9 DEF Sound, LinksAreHeld
<1>13. UpIsOrdered'
  <2> SUFFICES ASSUME NEW t \in Sockets, NEW i \in 1..Len(sent'[t])
               PROVE  /\ sent'[t][i].type = "resume" => Len(sent'[t]) = 1 /\ ~Attached(t)'
                      /\ sent'[t][i].type = "input" =>
                              /\ Attached(t)' /\ conn'[t] = "reading" /\ lastServerEpoch' # 0
                              /\ sock' = t => answered'
    BY DEF UpIsOrdered
  <2>1. CASE t = s
    BY <1>1, <1>2, <1>3, <1>9, <2>1
  <2>2. CASE t # s
    BY <1>1, <1>2, <1>9, <2>2, SMTT(60) DEF Sound, UpIsOrdered
  <2> QED BY <2>1, <2>2
<1>14. UpContinues'
  <2> SUFFICES ASSUME NEW t \in Sockets, owner' = t
               PROVE  /\ Len(sent'[t]) > 0 => InStep' /\ Len(sent'[t]) <= bytesSent' - received'
                      /\ \A i \in 1..Len(sent'[t]) : sent'[t][i] = Input(Floor' + received' + i)
                      /\ sock' = t /\ answered' /\ linked'[t] =>
                            InStep' /\ Len(sent'[t]) = bytesSent' - received'
    BY DEF UpContinues
  <2>1. /\ t = s /\ sock' = sock /\ (answered' <=> answered) /\ (linked'[s] <=> linked[s])
        /\ bytesSent' = bytesSent
    BY <1>1
  <2>0. bytesSent \in Nat /\ received \in Nat /\ Floor \in Int /\ received' = received + 1
    BY <1>1, <1>5, Facts
  <2>2. /\ bytesSent - received' = bytesSent - received - 1
        /\ \A i \in Int : Floor + received + (i + 1) = Floor + received' + i
    BY <2>0
  <2>3. Len(sent'[s]) <= bytesSent - received'
    <3>1. Len(sent'[s]) = Len(sent[s]) - 1 /\ Len(sent[s]) <= bytesSent - received /\ Len(sent[s]) \in Nat
      BY <1>2, <1>4
    <3> QED BY <2>0, <2>2, <3>1
  <2>4. \A i \in 1..Len(sent'[s]) : sent'[s][i] = Input(Floor + received' + i)
    <3> SUFFICES ASSUME NEW i \in 1..Len(sent'[s])
                 PROVE  sent'[s][i] = Input(Floor + received' + i)
      OBVIOUS
    <3>1. sent'[s][i] = sent[s][i + 1] /\ i + 1 \in 1..Len(sent[s])
      BY <1>2
    <3>2. sent[s][i + 1] = Input(Floor + received + (i + 1))
      BY <1>4, <3>1
    <3>3. Floor + received + (i + 1) = Floor + received' + i
      BY <2>2
    <3> QED BY <3>1, <3>2, <3>3
  <2>5. sock = s /\ answered /\ linked[s] => Len(sent'[s]) = bytesSent - received'
    BY <1>2, <1>4, <2>2
  <2> QED BY <1>7, <1>8, <2>1, <2>3, <2>4, <2>5
<1>15. AcksAreHonest'
  <2>1. sock # NoSocket => \A i \in 1..Len(down[sock]) : down[sock][i].received \in Nat
    BY Facts, MessageFields DEF InputTypeOK, WireTypes
  <2>2. \A k \in Nat : Honest(k) => Honest(k)'
    <3> SUFFICES ASSUME NEW k \in Nat, Honest(k) PROVE Honest(k)'
      OBVIOUS
    <3>1. ~Stranded
      BY <1>1, <1>2 DEF Stranded
    <3>2. k <= received'
      BY <1>1, <1>4, <3>1, Facts DEF Honest
    <3> QED BY <1>1, <1>8, <3>2 DEF Honest
  <2> QED BY <1>1, <2>1, <2>2 DEF Sound, AcksAreHonest
<1>16. AnswerIsAlone'
  BY <1>1, <1>9, Facts DEF Sound, AnswerIsAlone
<1>17. \A n, e, lost : ~Fits(n, e, lost)
  BY <1>1, <1>2 DEF Fits
<1>18. AnswersFit'
  BY <1>1, <1>17 DEF Sound, AnswersFit, connVars
<1>19. WaitingIsQuiet'
  <2>1. sock # NoSocket /\ Attached(sock) => answered
    BY <1>1, <1>2 DEF Sound, WaitingIsQuiet
  <2> QED BY <1>1, <1>9, <2>1, Facts DEF WaitingIsQuiet
<1> QED BY <1>10, <1>11, <1>12, <1>13, <1>14, <1>15, <1>16, <1>18, <1>19 DEF Sound

\* handleResume's answer leaves, unless a later resume fenced it.
LEMMA AnswerResumeStep ==
    ASSUME InputTypeOK, Sound, NEW s \in Sockets, AnswerResume(s)
    PROVE  Sound'
<1> DEFINE n == reply[s].received
<1> DEFINE msg == ResumeReply(n, bootEpoch, reply[s].ledgerLost)
<1>1. /\ conn[s] = "answering" /\ conn'[s] = "reading" /\ s # NoSocket
      /\ \A t \in Sockets \ {s} : conn'[t] = conn[t] /\ reply'[t] = reply[t]
      /\ UNCHANGED <<typed, outbox, bytesSent, bytesAcked, lastServerEpoch, warned>>
      /\ UNCHANGED <<bootEpoch, known, received, applied>>
      /\ UNCHANGED <<sock, answered, sent, linked, fenced, owner>>
  BY NoSocketAssumption DEF AnswerResume, InputTypeOK, ServerTypes, outboxVars, ledgerVars
<1>2. /\ n \in Nat /\ msg \in Downward
      /\ msg.type = "resumeAck" /\ msg.received = n /\ msg.epoch = bootEpoch
      /\ msg.ledgerLost = reply[s].ledgerLost
  <2>1. n \in Nat /\ reply[s].ledgerLost \in BOOLEAN /\ bootEpoch \in Nat
    BY Facts DEF InputTypeOK, ServerTypes
  <2> QED BY <2>1, MessageTypes DEF ResumeReply
<1>3. \/ down' = down /\ (fenced[s] \/ ~linked[s])
      \/ /\ linked[s] /\ ~fenced[s] /\ sock = s /\ Len(down[s]) \in Nat
         /\ Len(down'[s]) = Len(down[s]) + 1 /\ down'[s][Len(down[s]) + 1] = msg
         /\ \A i \in 1..Len(down[s]) : down'[s][i] = down[s][i]
         /\ \A t \in Sockets \ {s} : down'[t] = down[t]
  <2>1. CASE fenced[s]
    BY <2>1 DEF AnswerResume
  <2>2. CASE ~fenced[s]
    <3>1. down' = Carry(down, s, <<msg>>)
      BY <2>2 DEF AnswerResume
    <3>2. CASE ~linked[s]
      BY <3>1, <3>2 DEF Carry
    <3>3. CASE linked[s]
      <4>1. down[s] \in Seq(Downward) /\ <<msg>> \in Seq(Downward)
        BY <1>2 DEF InputTypeOK, WireTypes
      <4>2. down'[s] = down[s] \o <<msg>> /\ \A t \in Sockets \ {s} : down'[t] = down[t]
        BY <3>1, <3>3, <4>1, CarryDown
      <4>3. /\ Len(down[s] \o <<msg>>) = Len(down[s]) + 1
            /\ (down[s] \o <<msg>>)[Len(down[s]) + 1] = msg
            /\ \A i \in 1..Len(down[s]) : (down[s] \o <<msg>>)[i] = down[s][i]
        BY <4>1, ConcatProperties
      <4>4. sock = s /\ Len(down[s]) \in Nat
        BY <3>3, Facts DEF Sound, LinksAreHeld
      <4> QED BY <2>2, <3>3, <4>2, <4>3, <4>4
    <3> QED BY <3>2, <3>3
  <2> QED BY <2>1, <2>2
<1> HIDE DEF msg, n
<1>4. \A t \in Sockets : Attached(t)' <=> Attached(t)
  <2>1. owner = s \/ fenced[s]
    BY <1>1 DEF Sound, LinksAreHeld
  <2> QED BY <1>1, <2>1 DEF Attached
<1>5. InStep' = InStep /\ \A k : Honest(k) => Honest(k)'
  BY <1>1, HonestKept DEF InStep, Stranded
<1>6. linked[s] /\ ~fenced[s] /\ sock = s => Fits(n, bootEpoch, reply[s].ledgerLost)
  BY <1>1 DEF Sound, AnswersFit, n
<1>7. sock = s => ~answered /\ \A i \in 1..Len(down[s]) : down[s][i].type # "resumeAck"
  BY <1>1 DEF Sound, AnswerIsAlone
<1>8. OutboxIsTail' /\ AppliedIsTyped'
  BY <1>1, CountersKept DEF Sound
<1>9. LinksAreHeld'
  <2> SUFFICES ASSUME NEW t \in Sockets
               PROVE  /\ linked'[t] => sock' = t /\ conn'[t] # "closed"
                      /\ sock' # t => Len(down'[t]) = 0
                      /\ owner' = t => conn'[t] # "closed" /\ ~fenced'[t] /\ known'
                      /\ fenced'[t] => conn'[t] # "closed"
                      /\ conn'[t] = "closed" => Len(sent'[t]) = 0
                      /\ conn'[t] = "answering" => owner' = t \/ fenced'[t]
                      /\ conn'[t] = "reading" /\ ~Attached(t)' => Len(down'[t]) = 0
    BY DEF LinksAreHeld
  <2>1. Attached(s)
    BY <1>1 DEF Attached
  <2>2. CASE t = s
    BY <1>1, <1>3, <1>4, <2>1, <2>2 DEF Sound, LinksAreHeld
  <2>3. CASE t # s
    BY <1>1, <1>3, <1>4, <2>3 DEF Sound, LinksAreHeld
  <2> QED BY <2>2, <2>3
<1>10. UpIsOrdered'
  BY <1>1, <1>4 DEF Sound, UpIsOrdered
<1>11. UpContinues'
  BY <1>1, <1>5 DEF Sound, UpContinues, Floor
<1>12. ASSUME down' = down, fenced[s] \/ ~linked[s]
       PROVE  AcksAreHonest' /\ AnswerIsAlone' /\ AnswersFit'
  <2>1. AcksAreHonest'
    BY <1>1, <1>5, <1>12 DEF Sound, AcksAreHonest
  <2>2. AnswerIsAlone'
    BY <1>1, <1>4, <1>7, <1>12, Facts DEF Sound, AnswerIsAlone
  <2>3. AnswersFit'
    <3>1. \A k, e, lost : Fits(k, e, lost) => Fits(k, e, lost)'
      BY <1>1, <1>5, <1>12 DEF Fits
    <3>2. sock # NoSocket /\ conn'[sock] = "answering" =>
             sock # s /\ conn[sock] = "answering" /\ reply'[sock] = reply[sock]
      BY <1>1, Facts
    <3> QED BY <1>1, <1>12, <3>1, <3>2 DEF Sound, AnswersFit
  <2> QED BY <2>1, <2>2, <2>3
<1>13. ASSUME linked[s], ~fenced[s], sock = s, Len(down[s]) \in Nat,
              Len(down'[s]) = Len(down[s]) + 1, down'[s][Len(down[s]) + 1] = msg,
              \A i \in 1..Len(down[s]) : down'[s][i] = down[s][i]
       PROVE  AcksAreHonest' /\ AnswerIsAlone' /\ AnswersFit'
  <2>1. \A i \in 1..Len(down'[s]) : i \in 1..Len(down[s]) \/ i = Len(down[s]) + 1
    BY <1>13
  <2>2. Fits(n, bootEpoch, reply[s].ledgerLost) /\ Honest(n)
    BY <1>6, <1>13 DEF Fits
  <2>3. \A i \in 1..Len(down'[s]) : down'[s][i].received = n
    BY <1>2, <1>13, <2>1, <2>2 DEF Fits
  <2>4. AcksAreHonest'
    BY <1>1, <1>5, <1>13, <2>2, <2>3 DEF AcksAreHonest
  <2>5. \A i \in 1..Len(down'[s]) : down'[s][i].type = "resumeAck" => i = Len(down[s]) + 1
    BY <1>7, <1>13, <2>1
  <2>6. AnswerIsAlone'
    <3>1. Attached(s)'
      BY <1>1, <1>4 DEF Attached
    <3> QED BY <1>1, <1>7, <1>13, <2>5, <3>1 DEF AnswerIsAlone
  <2>7. AnswersFit'
    <3>1. Fits(n, bootEpoch, reply[s].ledgerLost) /\ conn'[s] # "answering"
      BY <1>1, <2>2
    <3>2. \A k, e, lost : Fits(k, e, lost) /\ k = n => Fits(k, e, lost)'
      BY <1>1, <1>5, <1>13, <2>3 DEF Fits
    <3>3. \A k, e, lost : k = n /\ e = bootEpoch /\ lost = reply[s].ledgerLost => Fits(k, e, lost)'
      BY <2>2, <3>2
    <3>4. \A i \in 1..Len(down'[s]) : down'[s][i].type = "resumeAck" =>
            /\ down'[s][i].received = n /\ down'[s][i].epoch = bootEpoch
            /\ down'[s][i].ledgerLost = reply[s].ledgerLost
      BY <1>2, <1>13, <2>5
    <3> QED BY <1>1, <1>13, <3>1, <3>3, <3>4 DEF AnswersFit
  <2> QED BY <2>4, <2>6, <2>7
<1>14. WaitingIsQuiet'
  BY <1>1, <1>4, Facts DEF Sound, WaitingIsQuiet
<1> QED BY <1>3, <1>8, <1>9, <1>10, <1>11, <1>12, <1>13, <1>14 DEF Sound

\* A pass of the scheduler: the counts it sends are the ledger's.
LEMMA FlushPassStep ==
    ASSUME InputTypeOK, Sound, FlushPass
    PROVE  Sound'
<1>1. /\ UNCHANGED <<typed, outbox, bytesSent, bytesAcked, lastServerEpoch, warned>>
      /\ UNCHANGED <<bootEpoch, known, received, applied>>
      /\ UNCHANGED <<sock, answered, sent, linked, conn, fenced, reply, owner>>
  BY DEF FlushPass, outboxVars, ledgerVars
<1>2. ASSUME NEW t \in Sockets
      PROVE  \/ down'[t] = down[t]
             \/ /\ sock = t /\ t # NoSocket /\ linked[t] /\ Attached(t)
                /\ Len(down'[t]) = Len(down[t]) + 1
                /\ down'[t][Len(down[t]) + 1] = AckOnly(received)
                /\ \A i \in 1..Len(down[t]) : down'[t][i] = down[t][i]
  <2>1. \/ down'[t] = down[t]
        \/ linked[t] /\ Attached(t) /\ down'[t] = Append(down[t], AckOnly(received))
    BY DEF FlushPass
  <2>2. down[t] \in Seq(Downward) /\ AckOnly(received) \in Downward
    BY Facts, MessageTypes DEF InputTypeOK, WireTypes
  <2>3. linked[t] => sock = t /\ t # NoSocket
    BY NoSocketAssumption DEF Sound, LinksAreHeld
  <2> QED BY <2>1, <2>2, <2>3, AppendProperties
<1>3. AckOnly(received).type = "ackOnly" /\ AckOnly(received).received = received
  BY DEF AckOnly
<1>4. \A t \in Sockets : Attached(t)' = Attached(t)
  BY <1>1 DEF Attached
<1>5. InStep' = InStep /\ \A k : Honest(k) => Honest(k)'
  BY <1>1, HonestKept DEF InStep, Stranded
<1>6. sock # NoSocket =>
        \A i \in 1..Len(down'[sock]) :
            \/ i \in 1..Len(down[sock]) /\ down'[sock][i] = down[sock][i]
            \/ linked[sock] /\ down'[sock][i] = AckOnly(received)
  <2> SUFFICES ASSUME sock # NoSocket, NEW i \in 1..Len(down'[sock])
               PROVE  \/ i \in 1..Len(down[sock]) /\ down'[sock][i] = down[sock][i]
                      \/ linked[sock] /\ down'[sock][i] = AckOnly(received)
    OBVIOUS
  <2>1. sock \in Sockets /\ Len(down[sock]) \in Nat
    BY Facts
  <2>2. i \in 1..(Len(down[sock]) + 1) => i \in 1..Len(down[sock]) \/ i = Len(down[sock]) + 1
    BY <2>1
  <2> QED BY <1>2, <2>1, <2>2
<1>7. OutboxIsTail' /\ AppliedIsTyped'
  BY <1>1, CountersKept DEF Sound
<1>8. LinksAreHeld'
  <2>1. \A t \in Sockets : sock # t \/ ~Attached(t) => down'[t] = down[t]
    BY <1>2
  <2> QED BY <1>1, <1>4, <2>1 DEF Sound, LinksAreHeld
<1>9. UpIsOrdered' /\ WaitingIsQuiet'
  BY <1>1, <1>4, Facts DEF Sound, UpIsOrdered, WaitingIsQuiet
<1>10. UpContinues'
  BY <1>1, <1>5 DEF Sound, UpContinues, Floor
<1>11. AcksAreHonest'
  BY <1>1, <1>3, <1>5, <1>6, CountIsHonest DEF Sound, AcksAreHonest
<1>12. AnswerIsAlone'
  <2>1. sock # NoSocket =>
          \A i \in 1..Len(down'[sock]) : down'[sock][i].type = "resumeAck" =>
             i \in 1..Len(down[sock]) /\ down'[sock][i] = down[sock][i]
    BY <1>3, <1>6
  <2> QED BY <1>1, <1>4, <2>1, Facts, ZenonT(60) DEF Sound, AnswerIsAlone
<1>13. AnswersFit'
  <2>1. \A n, e, lost : sock # NoSocket /\ Fits(n, e, lost) => Fits(n, e, lost)'
    BY <1>1, <1>3, <1>5, <1>6 DEF Fits
  <2> QED BY <1>1, <1>3, <1>6, <2>1 DEF Sound, AnswersFit
<1> QED BY <1>7, <1>8, <1>9, <1>10, <1>11, <1>12, <1>13 DEF Sound

-----------------------------------------------------------------------------
(* The theorems.                                                             *)

LEMMA SoundInit == InputInit => Sound
<1> SUFFICES ASSUME InputInit PROVE Sound
  OBVIOUS
<1>1. /\ typed = 0 /\ outbox = <<>> /\ Len(outbox) = 0 /\ bytesSent = 0 /\ bytesAcked = 0
      /\ lastServerEpoch = 0 /\ sock = NoSocket /\ received = 0 /\ owner = NoSocket
      /\ applied = <<>> /\ Len(applied) = 0 /\ DOMAIN applied = {}
      /\ \A t \in Sockets : /\ Len(sent[t]) = 0 /\ Len(down[t]) = 0 /\ ~linked[t]
                            /\ conn[t] = "closed" /\ ~fenced[t] /\ t # NoSocket
  BY NoSocketAssumption DEF InputInit
<1>2. bootEpoch = 1
  BY DEF InputInit
<1>3. OutboxIsTail /\ AppliedIsTyped
  BY <1>1, <1>2 DEF OutboxIsTail, AppliedIsTyped, AppliedInOrder, InStep, Decided, Floor
<1>4. LinksAreHeld /\ UpIsOrdered /\ UpContinues
  BY <1>1 DEF LinksAreHeld, UpIsOrdered, UpContinues
<1>5. AcksAreHonest /\ AnswerIsAlone /\ AnswersFit /\ WaitingIsQuiet
  BY <1>1 DEF AcksAreHonest, AnswerIsAlone, AnswersFit, WaitingIsQuiet
<1> QED BY <1>3, <1>4, <1>5 DEF Sound

\* The epoch in an answer is one the server had.
LEMMA EpochIsBoot ==
    ASSUME InputTypeOK, Sound, NEW s \in Sockets, RecvResumeAck(s)
    PROVE  Head(down[s]).epoch <= MaxBoots
<1>1. /\ sock = s /\ s # NoSocket /\ Head(down[s]) = down[s][1]
      /\ down[s][1].type = "resumeAck" /\ 1 \in 1..Len(down[s])
  BY Taken DEF RecvResumeAck
<1>2. Fits(down[s][1].received, down[s][1].epoch, down[s][1].ledgerLost)
  BY <1>1 DEF Sound, AnswersFit
<1>3. down[s][1].epoch \in 1..bootEpoch /\ bootEpoch \in 1..MaxBoots
  BY <1>2 DEF Fits, InputTypeOK, ServerTypes
<1>4. bootEpoch \in Nat /\ MaxBoots \in Nat
  BY Facts, Numbers
<1> QED BY <1>1, <1>3, <1>4

LEMMA Unchanged == ASSUME InputTypeOK, Sound, UNCHANGED inputVars PROVE InputTypeOK' /\ Sound'
<1>1. /\ UNCHANGED <<outboxVars, wireVars, connVars, ledgerVars, dirty, boundVars>>
      /\ UNCHANGED <<sent, down, linked>>
  BY DEF inputVars, wireVars
<1>2. InputTypeOK'
  BY <1>1, PageUnchanged, WireUnchanged, ServerUnchanged, BoundsUnchanged DEF InputTypeOK
<1>3. /\ InStep' = InStep
      /\ \A k : Honest(k) => Honest(k)'
      /\ \A t \in Sockets : Attached(t)' = Attached(t)
  BY <1>1, HonestKept DEF InStep, Stranded, Attached, outboxVars, connVars, ledgerVars
<1>4. OutboxIsTail' /\ AppliedIsTyped'
  BY <1>1, CountersKept DEF Sound, outboxVars, ledgerVars
<1>5. LinksAreHeld' /\ UpIsOrdered'
  BY <1>1, <1>3 DEF Sound, LinksAreHeld, UpIsOrdered, outboxVars, connVars, ledgerVars
<1>6. UpContinues'
  BY <1>1, <1>3 DEF Sound, UpContinues, Floor, outboxVars, ledgerVars
<1>7. AcksAreHonest' /\ AnswerIsAlone'
  BY <1>1, <1>3, Facts DEF Sound, AcksAreHonest, AnswerIsAlone, outboxVars, connVars
<1>8. AnswersFit'
  <2>1. \A n, e, lost : Fits(n, e, lost) => Fits(n, e, lost)'
    BY <1>1, <1>3 DEF Fits, outboxVars, ledgerVars
  <2> QED BY <1>1, <2>1 DEF Sound, AnswersFit, outboxVars, connVars, ledgerVars
<1>9. WaitingIsQuiet'
  BY <1>1, <1>3, Facts DEF Sound, WaitingIsQuiet, outboxVars, ledgerVars
<1> QED BY <1>2, <1>4, <1>5, <1>6, <1>7, <1>8, <1>9 DEF Sound

LEMMA DeliveryStep ==
    ASSUME TypingInHandshake = FALSE, DeliveryProofInv, [InputNext]_inputVars
    PROVE  DeliveryProofInv'
<1>1. InputTypeOK /\ Sound
  BY DEF DeliveryProofInv
<1>2. CASE Type
  BY <1>1, <1>2, TypeType, TypeStep DEF DeliveryProofInv
<1>3. CASE FlushPass
  BY <1>1, <1>3, TypeFlushPass, FlushPassStep DEF DeliveryProofInv
<1>4. CASE ForgetLedger
  BY <1>1, <1>4, TypeForget, ForgetStep DEF DeliveryProofInv
<1>5. CASE Restart
  BY <1>1, <1>5, TypeRestart, RestartStep DEF DeliveryProofInv
<1>6. ASSUME NEW s \in Sockets, CutSocket(s) PROVE DeliveryProofInv'
  BY <1>1, <1>6, TypeCut, CutStep DEF DeliveryProofInv
<1>7. ASSUME NEW s \in Sockets, Progress(s) PROVE DeliveryProofInv'
  <2>1. CASE Open(s)
    BY <1>1, <2>1, TypeOpen, OpenStep DEF DeliveryProofInv
  <2>2. CASE RecvAck(s)
    BY <1>1, <2>2, TypeRecvAck, RecvAckStep DEF DeliveryProofInv
  <2>3. CASE RecvLoss(s)
    <3>1. Head(down[s]).epoch <= MaxBoots
      BY <1>1, <2>3, EpochIsBoot DEF RecvLoss
    <3> QED BY <1>1, <2>3, <3>1, TypeRecvLoss, RecvLossStep DEF DeliveryProofInv
  <2>4. CASE RecvResume(s)
    <3>1. Head(down[s]).epoch <= MaxBoots
      BY <1>1, <2>4, EpochIsBoot DEF RecvResume
    <3> QED BY <1>1, <2>4, <3>1, TypeRecvResume, RecvResumeStep DEF DeliveryProofInv
  <2>5. CASE Abandon(s)
    BY <1>1, <2>5, TypeAbandon, AbandonStep DEF DeliveryProofInv
  <2>6. CASE TakeLedger(s)
    BY <1>1, <2>6, TypeTakeLedger, TakeLedgerStep DEF DeliveryProofInv
  <2>7. CASE AnswerResume(s)
    BY <1>1, <2>7, TypeAnswerResume, AnswerResumeStep DEF DeliveryProofInv
  <2>8. CASE ApplyInput(s)
    BY <1>1, <2>8, TypeApplyInput, ApplyInputStep DEF DeliveryProofInv
  <2>9. CASE EndConn(s)
    BY <1>1, <2>9, TypeEndConn, EndConnStep DEF DeliveryProofInv
  <2> QED BY <1>7, <2>1, <2>2, <2>3, <2>4, <2>5, <2>6, <2>7, <2>8, <2>9 DEF Progress
<1>8. CASE UNCHANGED inputVars
  BY <1>1, <1>8, Unchanged DEF DeliveryProofInv
<1> QED BY <1>2, <1>3, <1>4, <1>5, <1>6, <1>7, <1>8 DEF InputNext

\* What every step keeps entails what the page promises.
LEMMA DeliveryFollows ==
    DeliveryProofInv => /\ InputTypeOK /\ NoSilentLoss /\ CountersAgree
                        /\ ForgetUnacked = FALSE => DeliveryInv
<1> SUFFICES ASSUME DeliveryProofInv
             PROVE  /\ InputTypeOK /\ NoSilentLoss /\ CountersAgree
                    /\ ForgetUnacked = FALSE => AppliedInOrder
  BY DEF DeliveryInv
<1>1. InputTypeOK /\ Sound
  BY DEF DeliveryProofInv
<1>2. NoSilentLoss
  <2>1. \A i \in 1..Len(outbox) : outbox[i] = typed - Len(outbox) + i /\ outbox[i] \in Range(outbox)
    BY <1>1 DEF Sound, OutboxIsTail, Range, InputTypeOK, PageTypes
  <2>2. \A k \in 1..(typed - Len(outbox)) : k \in Range(applied) \cup warned
    BY <1>1 DEF Sound, OutboxIsTail, Decided
  <2>3. ASSUME NEW k \in 1..typed
        PROVE  k \in Range(outbox) \cup Range(applied) \cup warned
    <3>1. \/ k \in 1..(typed - Len(outbox))
          \/ /\ k - (typed - Len(outbox)) \in 1..Len(outbox)
             /\ typed - Len(outbox) + (k - (typed - Len(outbox))) = k
      <4>1. typed \in Nat /\ Len(outbox) \in Nat
        BY <1>1, Facts
      <4> QED BY <4>1
    <3>2. CASE k \in 1..(typed - Len(outbox))
      BY <2>2, <3>2
    <3>3. CASE /\ k - (typed - Len(outbox)) \in 1..Len(outbox)
               /\ typed - Len(outbox) + (k - (typed - Len(outbox))) = k
      BY <2>1, <3>3
    <3> QED BY <3>1, <3>2, <3>3
  <2> QED BY <2>3 DEF NoSilentLoss
<1>3. CountersAgree
  <2> SUFFICES ASSUME sock # NoSocket, answered, owner = sock, linked[sock]
               PROVE  bytesAcked <= received /\ received <= bytesSent
    BY DEF CountersAgree
  <2>1. InStep
    BY <1>1, Facts DEF Sound, UpContinues
  <2> QED BY <1>1, <2>1 DEF Sound, AppliedIsTyped, InStep
<1> QED BY <1>1, <1>2, <1>3 DEF Sound, AppliedIsTyped

\* Across cut, abandoned and superseded sockets, reclaimed ledgers and server
\* restarts, a byte is run at most once and in order, none vanishes without a
\* notice, and the counters of an answered page agree with its ledger
\* (dispatchInput, handleResume, applyAck, handleServerRestart).
THEOREM InputIsDelivered ==
    ASSUME TypingInHandshake = FALSE, ForgetUnacked = FALSE
    PROVE  InputSpec => []DeliveryInv
<1>1. InputInit => DeliveryProofInv
  BY TypeInit, SoundInit DEF DeliveryProofInv
<1>2. DeliveryProofInv /\ [InputNext]_inputVars => DeliveryProofInv'
  BY DeliveryStep
<1>3. DeliveryProofInv => DeliveryInv
  BY DeliveryFollows
<1> QED BY <1>1, <1>2, <1>3, PTL DEF InputSpec

\* Of that, what a ledger reclaimed at any moment cannot break, even one that
\* never acknowledged a byte: bytes may then be run again, but none vanishes
\* unannounced, and the counters are comparable whenever the page uses them.
THEOREM NothingVanishes ==
    ASSUME TypingInHandshake = FALSE
    PROVE  InputSpec => [](NoSilentLoss /\ CountersAgree)
<1>1. InputInit => DeliveryProofInv
  BY TypeInit, SoundInit DEF DeliveryProofInv
<1>2. DeliveryProofInv /\ [InputNext]_inputVars => DeliveryProofInv'
  BY DeliveryStep
<1>3. DeliveryProofInv => NoSilentLoss /\ CountersAgree
  BY DeliveryFollows
<1> QED BY <1>1, <1>2, <1>3, PTL DEF InputSpec

\* A notice covers only bytes the counters no longer count.
WarnedIsOld == \A b \in warned : b <= Floor

LEMMA WarnedInit == InputInit => WarnedIsOld
BY DEF InputInit, WarnedIsOld

LEMMA WarnedStep ==
    ASSUME DeliveryProofInv, WarnedIsOld, [InputNext]_inputVars
    PROVE  WarnedIsOld'
<1>1. InputTypeOK /\ OutboxIsTail
  BY DEF DeliveryProofInv, Sound
<1>2. CASE UNCHANGED <<typed, bytesSent, warned>>
  BY <1>2 DEF WarnedIsOld, Floor
<1>3. CASE Type
  <2>1. Floor' = Floor /\ warned' = warned
    BY <1>1, <1>3, Facts DEF Type, Floor
  <2> QED BY <2>1 DEF WarnedIsOld
<1>4. ASSUME NEW s \in Sockets, RecvLoss(s) PROVE WarnedIsOld'
  <2>1. typed' = typed /\ bytesSent' = 0 /\ warned' = warned \cup Range(outbox)
    BY <1>4 DEF RecvLoss
  <2>2. typed \in Nat /\ bytesSent \in Nat /\ Len(outbox) \in Nat
    BY <1>1, Facts
  <2>3. \A b \in warned : b <= typed
    <3>1. \A b \in warned : b \in Nat /\ b <= Floor
      BY <1>1 DEF WarnedIsOld, InputTypeOK, PageTypes, Bytes
    <3> QED BY <2>2, <3>1 DEF Floor
  <2>4. \A b \in Range(outbox) : b <= typed
    <3>1. DOMAIN outbox = 1..Len(outbox)
      BY <1>1 DEF InputTypeOK, PageTypes
    <3> QED BY <1>1, <2>2, <3>1 DEF OutboxIsTail, Range
  <2>5. Floor' = typed
    BY <2>1, <2>2 DEF Floor
  <2> QED BY <2>1, <2>3, <2>4, <2>5 DEF WarnedIsOld
<1> QED
  <2>1. CASE FlushPass \/ ForgetLedger \/ Restart \/ UNCHANGED inputVars
    BY <1>2, <2>1 DEF FlushPass, ForgetLedger, Restart, inputVars, outboxVars
  <2>2. ASSUME NEW s \in Sockets, Progress(s) \/ CutSocket(s) PROVE WarnedIsOld'
    <3>1. RecvLoss(s) \/ UNCHANGED <<typed, bytesSent, warned>>
      BY <2>2 DEF Progress, CutSocket, Open, RecvAck, RecvResume, Abandon, TakeLedger, AnswerResume,
         ApplyInput, EndConn, outboxVars
    <3> QED BY <1>2, <1>4, <3>1
  <2> QED BY <1>3, <2>1, <2>2 DEF InputNext

LEMMA MinIs ==
    ASSUME NEW S, S \subseteq Nat, NEW m \in S, \A y \in S : m <= y
    PROVE  Min(S) = m
<1>1. \A x \in S : (\A y \in S : x <= y) => x = m
  OBVIOUS
<1> QED BY <1>1 DEF Min

\* What the promise calls pending is what the counters call not run.
LEMMA PendingIs ==
    Reliable!Pending = 1..typed \ (Range(applied) \cup warned)
BY DEF Reliable!Pending, Reliable!Range, Range

LEMMA PendingFollows ==
    ASSUME DeliveryProofInv
    PROVE  Reliable!Pending \subseteq Range(outbox) /\ Range(outbox) \subseteq 1..typed
<1>1. InputTypeOK /\ NoSilentLoss /\ OutboxIsTail
  BY DeliveryFollows DEF DeliveryProofInv, Sound
<1>2. DOMAIN outbox = 1..Len(outbox) /\ \A i \in 1..Len(outbox) : outbox[i] \in Bytes
  BY <1>1 DEF InputTypeOK, PageTypes
<1>3. typed \in Nat /\ Len(outbox) \in Nat
  BY <1>1, Facts
<1>4. \A i \in 1..Len(outbox) : outbox[i] \in 1..typed
  BY <1>1, <1>2, <1>3 DEF OutboxIsTail, Bytes
<1>5. Range(outbox) \subseteq 1..typed
  BY <1>2, <1>4 DEF Range
<1>6. Reliable!Pending \subseteq Range(outbox)
  BY <1>1, PendingIs DEF NoSilentLoss
<1> QED BY <1>5, <1>6

\* The byte a read loop runs is the oldest pending one.
LEMMA AppliesOldest ==
    ASSUME ForgetUnacked = FALSE, DeliveryProofInv, WarnedIsOld,
           NEW s \in Sockets, ApplyInput(s)
    PROVE  Reliable!Deliver
<1> DEFINE byte == Floor + received + 1
<1>1. InputTypeOK /\ Sound
  BY DEF DeliveryProofInv
<1>2. /\ Reads(s, "input") /\ owner = s /\ applied' = Append(applied, Head(sent[s]).byte)
      /\ UNCHANGED <<typed, warned>>
  BY DEF ApplyInput, outboxVars
<1>3. Head(sent[s]) = sent[s][1] /\ Len(sent[s]) \in Nat /\ 1 \in 1..Len(sent[s]) /\ sent[s][1] \in Upward
      /\ sent[s][1].type = "input"
  BY <1>1, <1>2, ReadOff
<1>4. /\ InStep /\ Len(sent[s]) <= bytesSent - received
      /\ sent[s][1] = Input(byte)
  BY <1>1, <1>2, <1>3 DEF Sound, UpContinues
<1>5. Head(sent[s]).byte = byte /\ byte \in Bytes
  BY <1>3, <1>4, MessageFields DEF Input
<1>6. /\ typed \in Nat /\ bytesSent \in Nat /\ received \in Nat /\ Floor \in Int
      /\ bytesSent <= typed
  BY <1>1, Facts DEF Floor, Sound, OutboxIsTail
<1>7. byte <= typed /\ byte \in Nat /\ byte >= 1
  BY <1>3, <1>4, <1>5, <1>6 DEF Floor, Bytes
<1>8. byte \notin warned
  BY <1>6 DEF WarnedIsOld
<1>9. byte \notin Range(applied)
  <2>1. applied \in Seq(Bytes)
    BY <1>1 DEF InputTypeOK, ServerTypes
  <2>2. \A i \in 1..Len(applied) : applied[i] <= Floor + received
    BY <1>1, <1>4 DEF Sound, AppliedIsTyped
  <2> QED BY <1>6, <2>1, <2>2 DEF Range
<1>10. \A k \in 1..(Floor + received) : k \in Range(applied) \cup warned
  BY <1>1, <1>4 DEF Sound, AppliedIsTyped, Decided
<1> HIDE DEF byte
<1>11. byte \in Reliable!Pending
  BY <1>6, <1>7, <1>8, <1>9, PendingIs
<1>12. \A k \in Reliable!Pending : byte <= k
  <2> SUFFICES ASSUME NEW k \in 1..typed, k \notin Range(applied) \cup warned PROVE byte <= k
    BY PendingIs
  <2>1. k \notin 1..(Floor + received) /\ k \in Nat /\ k >= 1
    BY <1>10
  <2> QED BY <1>6, <2>1 DEF byte
<1>13. Reliable!Pending \subseteq Nat
  BY PendingIs
<1>14. Reliable!Min(Reliable!Pending) = byte
  BY <1>11, <1>12, <1>13, MinIs DEF Reliable!Min, Min
<1> QED BY <1>2, <1>5, <1>11, <1>14 DEF Reliable!Deliver

LEMMA PromiseInit == InputInit => Reliable!Init
BY DEF InputInit, Reliable!Init

LEMMA PromiseStep ==
    ASSUME ForgetUnacked = FALSE, DeliveryProofInv, WarnedIsOld, [InputNext]_inputVars
    PROVE  [Reliable!Next]_(Reliable!vars)
<1>1. CASE UNCHANGED <<typed, applied, warned>>
  BY <1>1 DEF Reliable!vars
<1>2. CASE Type
  BY <1>2 DEF Type, ledgerVars, Reliable!Next, Reliable!Accept
<1>3. ASSUME NEW s \in Sockets, RecvLoss(s) PROVE [Reliable!Next]_(Reliable!vars)
  <2>1. warned' = warned \cup Range(outbox) /\ typed' = typed /\ applied' = applied
    BY <1>3 DEF RecvLoss, ledgerVars
  <2>2. Reliable!Warn
    BY <2>1, PendingFollows DEF Reliable!Warn
  <2> QED BY <2>2 DEF Reliable!Next
<1>4. ASSUME NEW s \in Sockets, ApplyInput(s) PROVE [Reliable!Next]_(Reliable!vars)
  BY <1>4, AppliesOldest DEF Reliable!Next
<1> QED
  <2>1. CASE FlushPass \/ ForgetLedger \/ Restart \/ UNCHANGED inputVars
    BY <1>1, <2>1 DEF FlushPass, ForgetLedger, Restart, inputVars, outboxVars, ledgerVars
  <2>2. ASSUME NEW s \in Sockets, Progress(s) \/ CutSocket(s) PROVE [Reliable!Next]_(Reliable!vars)
    <3>1. RecvLoss(s) \/ ApplyInput(s) \/ UNCHANGED <<typed, applied, warned>>
      BY <2>2 DEF Progress, CutSocket, Open, RecvAck, RecvResume, Abandon, TakeLedger, AnswerResume,
         EndConn, outboxVars, ledgerVars
    <3> QED BY <1>1, <1>3, <1>4, <3>1
  <2> QED BY <1>2, <2>1, <2>2 DEF InputNext

\* Whatever the page, the sockets and the server do is a step of the promise:
\* the byte a ledger runs is the oldest undecided one, so none is run twice,
\* out of order or after a gap, and a notice covers all that is undecided.
THEOREM PromiseIsKept ==
    ASSUME TypingInHandshake = FALSE, ForgetUnacked = FALSE
    PROVE  InputSpec => Reliable!Safety
<1>1. InputInit => DeliveryProofInv /\ WarnedIsOld
  BY TypeInit, SoundInit, WarnedInit DEF DeliveryProofInv
<1>2. DeliveryProofInv /\ WarnedIsOld /\ [InputNext]_inputVars => DeliveryProofInv' /\ WarnedIsOld'
  BY DeliveryStep, WarnedStep
<1>3. DeliveryProofInv /\ WarnedIsOld /\ [InputNext]_inputVars => [Reliable!Next]_(Reliable!vars)
  BY PromiseStep
<1> QED BY <1>1, <1>2, <1>3, PromiseInit, PTL DEF InputSpec, Reliable!Safety
=============================================================================
