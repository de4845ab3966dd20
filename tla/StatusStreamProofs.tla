-------------------------- MODULE StatusStreamProofs --------------------------
(***************************************************************************)
(* What the status stream keeps, for any sessions, pages, classifier and   *)
(* buffer: every cue is numbered and none is made up, marks and notices    *)
(* only rise, and every page ends up with what the last sweep committed.   *)
(*                                                                         *)
(* The invariant grows in three layers.  CueInv relates what a tracker     *)
(* has consumed to what the sweep before read and to the screen now.       *)
(* NoticeInv adds the events on their way to a subscriber, its buffer and  *)
(* the sweep's broadcast taken as one sequence: the notifications in it    *)
(* rise above what was shown.  StreamInv adds that the last event about a  *)
(* session tells what is committed of it, and that a page with none on     *)
(* its way shows it.                                                       *)
(***************************************************************************)
EXTENDS StatusStream, FunctionTheorems, FiniteSetTheorems, WellFoundedInduction, NaturalsInduction, TLAPS

-----------------------------------------------------------------------------
(* Sequences of anything.                                                  *)

IsSeq(q) == Len(q) \in Nat /\ q = [i \in 1..Len(q) |-> q[i]]

LEMMA SeqParts ==
    ASSUME NEW q, IsSeq(q)
    PROVE  /\ DOMAIN q = 1..Len(q) /\ Len(q) \in Nat
           /\ q = <<>> <=> Len(q) = 0
           /\ \E X : q \in Seq(X) /\ \A i \in DOMAIN q : q[i] \in X
<1>1. DOMAIN q = 1..Len(q) /\ Len(q) \in Nat
  BY DEF IsSeq
<1> DEFINE X == {q[i] : i \in 1..Len(q)}
<1>2. q \in [1..Len(q) -> X]
  BY DEF IsSeq
<1>3. q \in Seq(X)
  BY <1>1, <1>2
<1> QED BY <1>1, <1>3

LEMMA SeqsAre == ASSUME NEW X, NEW q \in Seq(X) PROVE IsSeq(q)
BY DEF IsSeq

LEMMA AppendIs ==
    ASSUME NEW q, IsSeq(q), NEW e
    PROVE  /\ IsSeq(Append(q, e)) /\ Len(Append(q, e)) = Len(q) + 1
           /\ Append(q, e)[Len(q) + 1] = e
           /\ \A i \in 1..Len(q) : Append(q, e)[i] = q[i]
<1>1. PICK X : q \in Seq(X)
  BY SeqParts
<1>2. q \in Seq(X \cup {e}) /\ e \in X \cup {e}
  <2>1. Len(q) \in Nat /\ q \in [1..Len(q) -> X]
    BY <1>1
  <2> QED BY <2>1
<1> DEFINE Y == X \cup {e}
<1> HIDE DEF Y
<1>3. q \in Seq(Y) /\ e \in Y
  BY <1>2 DEF Y
<1>4. /\ Append(q, e) \in Seq(Y) /\ Len(Append(q, e)) = Len(q) + 1
      /\ Append(q, e)[Len(q) + 1] = e /\ \A i \in 1..Len(q) : Append(q, e)[i] = q[i]
  BY <1>3
<1>5. IsSeq(Append(q, e))
  BY <1>4, SeqsAre
<1> QED BY <1>4, <1>5

LEMMA TailIs ==
    ASSUME NEW q, IsSeq(q), q # <<>>
    PROVE  /\ IsSeq(Tail(q)) /\ Len(q) >= 1 /\ Len(Tail(q)) = Len(q) - 1 /\ Head(q) = q[1]
           /\ \A i \in 1..(Len(q) - 1) : Tail(q)[i] = q[i + 1]
<1>1. PICK X : q \in Seq(X)
  BY SeqParts
<1>2. Tail(q) \in Seq(X)
  BY <1>1
<1>3. /\ Len(q) >= 1 /\ Len(Tail(q)) = Len(q) - 1 /\ Head(q) = q[1]
      /\ \A i \in 1..(Len(q) - 1) : Tail(q)[i] = q[i + 1]
  BY <1>1
<1>4. IsSeq(Tail(q))
  BY <1>2, SeqsAre
<1> QED BY <1>3, <1>4

LEMMA ConcatIs ==
    ASSUME NEW q, IsSeq(q), NEW r, IsSeq(r)
    PROVE  /\ IsSeq(q \o r) /\ Len(q \o r) = Len(q) + Len(r)
           /\ \A i \in 1..Len(q) : (q \o r)[i] = q[i]
           /\ \A i \in 1..Len(r) : (q \o r)[Len(q) + i] = r[i]
<1>1. PICK X : q \in Seq(X)
  BY SeqParts
<1>2. PICK Y : r \in Seq(Y)
  BY SeqParts
<1> DEFINE Z == X \cup Y
<1>3. q \in Seq(Z) /\ r \in Seq(Z)
  <2>1. /\ Len(q) \in Nat /\ q \in [1..Len(q) -> X]
        /\ Len(r) \in Nat /\ r \in [1..Len(r) -> Y]
    BY <1>1, <1>2
  <2> QED BY <2>1
<1> HIDE DEF Z
<1>4. /\ q \o r \in Seq(Z) /\ Len(q \o r) = Len(q) + Len(r)
      /\ \A i \in 1..Len(q) : (q \o r)[i] = q[i]
      /\ \A i \in 1..Len(r) : (q \o r)[Len(q) + i] = r[i]
  BY <1>3
<1>5. IsSeq(q \o r)
  BY <1>4, SeqsAre
<1> QED BY <1>4, <1>5

\* A set of numbers up to n that is not empty has a greatest one.
LEMMA Greatest ==
    ASSUME NEW n \in Nat, NEW T \in SUBSET (1..n), T # {}
    PROVE  \E i \in T : \A j \in T : j <= i
<1> DEFINE Above == {p \in Nat \X Nat : p[1] < p[2]}
           U == {n - i : i \in T}
<1>1. IsWellFoundedOn(Above, Nat)
  BY NatLessThanWellFounded DEF OpToRel
<1> HIDE DEF Above
<1>2. U \in SUBSET Nat /\ U # {}
  <2>1. \A i \in T : n - i \in Nat
    OBVIOUS
  <2> QED BY <2>1
<1>3. PICK u \in U : \A v \in U : ~(<<v, u>> \in Above)
  BY <1>1, <1>2, WFMin
<1>4. PICK i \in T : u = n - i
  BY <1>3
<1>5. ASSUME NEW j \in T PROVE j <= i
  <2>1. n - j \in U
    OBVIOUS
  <2>2. ~(<<n - j, n - i>> \in Above)
    BY <1>3, <1>4, <2>1
  <2> QED BY <2>2 DEF Above
<1> QED BY <1>5

\* SetToSeq lists a finite set, each member once.
LEMMA Listed ==
    ASSUME NEW S, IsFiniteSet(S)
    PROVE  LET q == SetToSeq(S)
           IN  /\ IsSeq(q)
               /\ \A i \in DOMAIN q : q[i] \in S
               /\ \A i, j \in DOMAIN q : q[i] = q[j] => i = j
               /\ \A x \in S : \E i \in DOMAIN q : q[i] = x
<1> DEFINE n == Cardinality(S)
           q == SetToSeq(S)
<1>1. n \in Nat
  BY FS_CardinalityType
<1>2. ExistsBijection(1..n, S)
  BY FS_CardinalityType
<1>3. \E f \in [1..n -> S] : IsInjective(f)
  BY <1>2 DEF ExistsBijection, Bijection, Injection
<1>4. q \in [1..n -> S] /\ IsInjective(q)
  BY <1>3 DEF SetToSeq
<1> HIDE DEF q, n
<1>5. q \in Seq(S) /\ Len(q) = n /\ DOMAIN q = 1..n
  BY <1>1, <1>4
<1>6. \A i, j \in DOMAIN q : q[i] = q[j] => i = j
  BY <1>4 DEF IsInjective
<1> DEFINE R == {q[i] : i \in 1..n}
<1>7. R \subseteq S
  BY <1>4
<1>8. Cardinality(R) = n /\ IsFiniteSet(R)
  <2>1. q \in [1..n -> R] /\ \A x \in R : \E i \in 1..n : q[i] = x
    BY <1>4
  <2>2. q \in Bijection(1..n, R)
    BY <1>5, <1>6, <2>1, Fun_IsBij
  <2>3. IsFiniteSet(1..n) /\ Cardinality(1..n) = n
    BY <1>1, FS_Interval
  <2> HIDE DEF R
  <2> QED BY <2>2, <2>3, FS_Bijection DEF ExistsBijection
<1>9. R = S
  BY <1>7, <1>8, FS_Subset DEF n
<1> QED BY <1>5, <1>6, <1>9, SeqsAre DEF q

-----------------------------------------------------------------------------
(* One session under one sweep.                                            *)

ScreenFields == {"progress", "notifSeq", "notif", "program"}
ProgramFields == {"records", "shown", "seq", "occurrence", "reported", "exited"}
TrackerFields ==
    {"known", "lastStatus", "lastLabel", "lastOrder", "lastReports", "latched", "latchSeq",
     "notifSeen", "notifDelivered", "programOccurrence", "statusSeq", "seenSeq", "lastSeenSeq"}

\* A screen as far as it is numbered, and a tracker; a status only changes with a report.
Screened(sc) ==
    /\ DOMAIN sc = ScreenFields /\ DOMAIN sc.program = ProgramFields
    /\ sc.notifSeq \in Nat /\ sc.program.seq \in Nat /\ sc.program.occurrence \in Nat
    /\ sc.program.occurrence <= sc.program.seq
Tracked(t) ==
    /\ DOMAIN t = TrackerFields /\ t.known = TRUE
    /\ {t.latchSeq, t.notifSeen, t.notifDelivered, t.programOccurrence} \subseteq Nat
    /\ {t.statusSeq, t.seenSeq, t.lastSeenSeq} \subseteq Nat
    /\ t.latchSeq <= t.notifSeen /\ t.lastSeenSeq <= t.seenSeq /\ t.seenSeq <= t.statusSeq

\* What computeStatus leaves alone.
Carried(t, old) ==
    /\ DOMAIN t = TrackerFields
    /\ t.known = old.known /\ t.lastStatus = old.lastStatus /\ t.lastLabel = old.lastLabel
    /\ t.lastOrder = old.lastOrder /\ t.lastReports = old.lastReports
    /\ t.notifDelivered = old.notifDelivered /\ t.statusSeq = old.statusSeq
    /\ t.seenSeq = old.seenSeq /\ t.lastSeenSeq = old.lastSeenSeq

\* What the notification read has done to the latch before anything else looks at it.
ReadBy(in, old) == applyNotification(in, [old EXCEPT !.programOccurrence = in.program.occurrence])

IsRead(t, in, old) == t = ReadBy(in, old)
IsComputed(r, in, how, old) == r = computeStatus(in, how, old)
Occurred(t, in, old) == t = [old EXCEPT !.programOccurrence = in.program.occurrence]
Kept(t, noted) == t = noted \/ t = [noted EXCEPT !.latched = ""]

LEMMA Noted ==
    ASSUME NEW in, NEW old, Screened(in), Tracked(old)
    PROVE  /\ Carried(ReadBy(in, old), old)
           /\ ReadBy(in, old).programOccurrence = in.program.occurrence
           /\ ReadBy(in, old).notifSeen = Max2(old.notifSeen, in.notifSeq)
           /\ Latching(in, old) => /\ ReadBy(in, old).latched = Class[in.notif]
                                   /\ ReadBy(in, old).latchSeq = in.notifSeq
           /\ ~ Latching(in, old) => /\ ReadBy(in, old).latched = old.latched
                                     /\ ReadBy(in, old).latchSeq = old.latchSeq
BY DEF ReadBy, Screened, Tracked, Carried, TrackerFields, applyNotification, Latching

Attention == {"input", "done", "failed"}
Said(in) == reportStatus[Folded(in.program).state]
Advanced(in, old) == in.program.occurrence > old.programOccurrence

\* What a running session shows, by the ways there are: a notification newer than
\* the reports, the reports, progress, a latch, nothing.
LEMMA ComputedRunning ==
    ASSUME NEW in, NEW old, Screened(in), Tracked(old), NEW t, IsRead(t, in, old),
           NEW r, IsComputed(r, in, "running", old)
    PROVE  /\ Kept(r.t, t)
           /\ \/ /\ in.program.reported /\ t.latched # "" /\ t.latchSeq > in.program.occurrence
                 /\ r.status = t.latched /\ (r.fresh <=> Latching(in, old))
              \/ /\ in.program.reported /\ ~(t.latched # "" /\ t.latchSeq > in.program.occurrence)
                 /\ r.status = Said(in)
                 /\ (r.fresh <=> Advanced(in, old) /\ Said(in) \in Attention)
              \/ ~ in.program.reported /\ ~ Latching(in, old) /\ ~ r.fresh
              \/ /\ ~ in.program.reported /\ t.latched # ""
                 /\ r.status = t.latched /\ (r.fresh <=> Latching(in, old))
              \/ ~ in.program.reported /\ t.latched = "" /\ r.status = "idle" /\ ~ r.fresh
<1> DEFINE now == Latching(in, old)
<1>1. r = IF in.program.reported THEN programStatusOf(in, t, now, Advanced(in, old))
          ELSE progressOrLatch(in, t, now)
  BY DEF computeStatus, ReadBy, Advanced, IsRead, IsComputed
<1> HIDE DEF now
<1>2. CASE in.program.reported
  <2>1. Folded(in.program).seq = in.program.occurrence
    BY DEF Folded
  <2>2. CASE t.latched # "" /\ t.latchSeq > in.program.occurrence
    <3>1. r = Result(t, t.latched, now)
      BY <1>1, <1>2, <2>1, <2>2 DEF programStatusOf
    <3>2. r.t = t /\ r.status = t.latched /\ (r.fresh <=> Latching(in, old))
      BY <3>1 DEF now, Result
    <3> QED BY <1>2, <2>2, <3>2 DEF Kept
  <2>3. CASE ~(t.latched # "" /\ t.latchSeq > in.program.occurrence)
    <3>1. r = Result([t EXCEPT !.latched = ""], Said(in), Advanced(in, old) /\ Said(in) \in Attention)
      BY <1>1, <1>2, <2>1, <2>3 DEF programStatusOf, Attention, Said
    <3>2. /\ r.t = [t EXCEPT !.latched = ""] /\ r.status = Said(in)
          /\ (r.fresh <=> Advanced(in, old) /\ Said(in) \in Attention)
      BY <3>1 DEF Result
    <3> QED BY <1>2, <2>3, <3>2 DEF Kept
  <2> QED BY <2>2, <2>3
<1>3. CASE ~ in.program.reported
  <2> DEFINE st == progressStatus(in.progress)
  <2>1. r = CASE st # "" /\ ~ now /\ (t.latched = "" \/ in.progress # 4) ->
                   Result([t EXCEPT !.latched = ""], st, FALSE)
            [] (st = "" \/ now \/ in.progress = 4) /\ t.latched # "" -> Result(t, t.latched, now)
            [] OTHER -> Result(t, "idle", FALSE)
    BY <1>1, <1>3 DEF progressOrLatch
  <2> HIDE DEF st
  <2>2. \/ ~ now /\ r = Result([t EXCEPT !.latched = ""], st, FALSE)
        \/ t.latched # "" /\ r = Result(t, t.latched, now)
        \/ t.latched = "" /\ r = Result(t, "idle", FALSE)
    BY <2>1
  <2>3. CASE ~ now /\ r = Result([t EXCEPT !.latched = ""], st, FALSE)
    <3>1. r.t = [t EXCEPT !.latched = ""] /\ ~ r.fresh
      BY <2>3 DEF Result
    <3> QED BY <1>3, <2>3, <3>1 DEF now, Kept
  <2>4. CASE t.latched # "" /\ r = Result(t, t.latched, now)
    <3>1. r.t = t /\ r.status = t.latched /\ (r.fresh <=> Latching(in, old))
      BY <2>4 DEF now, Result
    <3> QED BY <1>3, <2>4, <3>1 DEF Kept
  <2>5. CASE t.latched = "" /\ r = Result(t, "idle", FALSE)
    <3>1. r.t = t /\ r.status = "idle" /\ ~ r.fresh
      BY <2>5 DEF Result
    <3> QED BY <1>3, <2>5, <3>1 DEF Kept
  <2> QED BY <2>2, <2>3, <2>4, <2>5
<1> QED BY <1>2, <1>3

LEMMA ComputedExited ==
    ASSUME NEW in, NEW old, NEW how, how # "running", NEW r, IsComputed(r, in, how, old)
    PROVE  /\ Occurred(r.t, in, old)
           /\ r.status \in {"crashed", "exited"} /\ ~ r.fresh
<1>1. r = Result([old EXCEPT !.programOccurrence = in.program.occurrence],
                 IF how = "crash" THEN "crashed" ELSE "exited", FALSE)
  BY DEF computeStatus, IsComputed
<1> QED BY <1>1 DEF Result, Occurred

LEMMA Computed ==
    ASSUME NEW in, NEW how, NEW old, Screened(in), Tracked(old),
           NEW r, IsComputed(r, in, how, old)
    PROVE  /\ Carried(r.t, old)
           /\ r.t.programOccurrence = in.program.occurrence
           /\ r.t.notifSeen = IF how = "running" THEN Max2(old.notifSeen, in.notifSeq) ELSE old.notifSeen
           /\ r.t.latchSeq \in Nat /\ r.t.latchSeq <= r.t.notifSeen
<1>1. CASE how # "running"
  <2>1. Occurred(r.t, in, old)
    BY <1>1, ComputedExited
  <2> QED BY <1>1, <2>1 DEF Occurred, Tracked, Carried, TrackerFields
<1>2. CASE how = "running"
  <2>0. PICK t : IsRead(t, in, old)
    BY DEF IsRead
  <2>1. /\ Carried(t, old) /\ t.programOccurrence = in.program.occurrence
        /\ t.notifSeen = Max2(old.notifSeen, in.notifSeq)
        /\ t.latchSeq = in.notifSeq \/ t.latchSeq = old.latchSeq
    BY <2>0, Noted DEF IsRead
  <2>2. t.latchSeq \in Nat /\ t.latchSeq <= t.notifSeen
    BY <2>1 DEF Max2, Screened, Tracked
  <2>3. IsComputed(r, in, "running", old)
    BY <1>2
  <2>4. Kept(r.t, t)
    BY <2>3, <2>0, ComputedRunning
  <2>5. CASE r.t = [t EXCEPT !.latched = ""]
    <3>1. /\ DOMAIN r.t = TrackerFields
          /\ \A f \in TrackerFields : f # "latched" => r.t[f] = t[f]
      BY <2>1, <2>5 DEF Carried
    <3> QED BY <1>2, <2>1, <2>2, <3>1 DEF Carried, TrackerFields
  <2> QED BY <1>2, <2>1, <2>2, <2>4, <2>5 DEF Kept
<1> QED BY <1>1, <1>2

\* News are never made up: a fresh occurrence comes of a notification not seen
\* yet, or of a change of the reported status.
LEMMA FreshIsNews ==
    ASSUME NEW in, NEW how, NEW old, Screened(in), Tracked(old),
           NEW r, IsComputed(r, in, how, old), r.fresh
    PROVE  /\ how = "running"
           /\ \/ in.notifSeq > old.notifSeen /\ r.status = Class[in.notif]
              \/ in.program.reported /\ Advanced(in, old) /\ r.status = Said(in)
<1>1. how = "running"
  BY ComputedExited
<1>2. PICK t : IsRead(t, in, old)
  BY DEF IsRead
<1>3. Latching(in, old) => in.notifSeq > old.notifSeen /\ t.latched = Class[in.notif]
  BY <1>2, Noted DEF Latching, IsRead
<1>4. IsComputed(r, in, "running", old)
  BY <1>1
<1> QED BY <1>1, <1>2, <1>3, <1>4, ComputedRunning

\* And none is lost: a status that calls for attention and is what a new
\* notification, or a new report, asked for is a fresh occurrence.
LEMMA NewsAreFresh ==
    ASSUME NEW in, NEW how, NEW old, Screened(in), Tracked(old),
           NEW r, IsComputed(r, in, how, old), r.status \in Attention,
           \/ /\ in.notifSeq > old.notifSeen /\ r.status = Class[in.notif]
              /\ in.notifSeq > in.program.occurrence \/ Advanced(in, old)
           \/ /\ in.program.reported /\ Advanced(in, old) /\ r.status = Said(in)
              /\ old.latchSeq < in.program.occurrence
    PROVE  r.fresh
<1>1. how = "running"
  BY ComputedExited DEF Attention
<1>2. PICK t : IsRead(t, in, old)
  BY DEF IsRead
<1>3. /\ Latching(in, old) => t.latched = Class[in.notif] /\ t.latchSeq = in.notifSeq
      /\ ~ Latching(in, old) => t.latched = old.latched /\ t.latchSeq = old.latchSeq
  BY <1>2, Noted DEF IsRead
<1>4. Latching(in, old) <=> in.notifSeq > old.notifSeen /\ Class[in.notif] # NoClass
  BY DEF Latching
<1>5. NoClass \notin Attention /\ "" \notin Attention /\ "idle" \notin Attention
  BY DEF NoClass, Attention
<1>6. /\ in.notifSeq \in Nat /\ in.program.occurrence \in Nat /\ old.latchSeq \in Nat
  BY DEF Screened, Tracked
<1>7. \/ /\ in.program.reported /\ t.latched # "" /\ t.latchSeq > in.program.occurrence
         /\ r.status = t.latched /\ (r.fresh <=> Latching(in, old))
      \/ /\ in.program.reported /\ ~(t.latched # "" /\ t.latchSeq > in.program.occurrence)
         /\ r.status = Said(in) /\ (r.fresh <=> Advanced(in, old) /\ Said(in) \in Attention)
      \/ ~ in.program.reported /\ ~ Latching(in, old)
      \/ ~ in.program.reported /\ t.latched # "" /\ (r.fresh <=> Latching(in, old))
      \/ ~ in.program.reported /\ t.latched = "" /\ r.status = "idle"
  <2>1. IsComputed(r, in, "running", old)
    BY <1>1
  <2> QED BY <2>1, <1>2, ComputedRunning
<1>8. CASE /\ in.notifSeq > old.notifSeen /\ r.status = Class[in.notif]
           /\ in.notifSeq > in.program.occurrence \/ Advanced(in, old)
  <2>1. Latching(in, old) /\ t.latched = r.status /\ t.latchSeq = in.notifSeq /\ t.latched # ""
    BY <1>3, <1>4, <1>5, <1>8
  <2> QED BY <1>5, <1>6, <1>7, <1>8, <2>1
<1>9. CASE /\ in.program.reported /\ Advanced(in, old) /\ r.status = Said(in)
           /\ old.latchSeq < in.program.occurrence
  <2>1. ~ Latching(in, old) => ~(t.latchSeq > in.program.occurrence)
    BY <1>3, <1>6, <1>9
  <2>2. r.status \in Attention
    OBVIOUS
  <2> QED BY <1>7, <1>9, <2>1, <2>2
<1> QED BY <1>8, <1>9

-----------------------------------------------------------------------------
(* The inductive invariant.                                                *)

\* What the variables are made of, and how far a session can have come.
Shapes ==
    /\ DOMAIN screen = Sessions /\ DOMAIN before = Sessions /\ DOMAIN exit = Sessions
    /\ DOMAIN tr = Sessions /\ DOMAIN label = Sessions
    /\ live \subseteq Sessions /\ removed \subseteq Sessions
    /\ \A s \in Sessions :
         /\ Screened(screen[s]) /\ Screened(before[s]) /\ label[s] \in Nat
         /\ tr[s] = NoTracker \/ Tracked(tr[s])
         /\ s \in live \/ tr[s].known \/ s \in removed => exit[s] # "unborn"
         /\ s \in removed => s \notin live /\ ~ tr[s].known

\* A sweep under way reads the sessions it found, all of them tracked.
Sweeping ==
    /\ DOMAIN sweep = {"phase", "todo", "exits", "read"}
    /\ sweep.phase \in {"resting", "reading"}
    /\ sweep.todo \subseteq Sessions /\ DOMAIN sweep.read \subseteq Sessions
    /\ sweep.exits \subseteq DOMAIN sweep.read /\ \A s, x \in sweep.exits : s = x
    /\ \A s \in sweep.todo : s \notin DOMAIN sweep.read
    /\ \A s \in DOMAIN sweep.read :
         DOMAIN sweep.read[s] = {"screen", "how"} /\ Screened(sweep.read[s].screen)
    /\ sweep.phase = "resting" => sweep.todo = {} /\ DOMAIN sweep.read = {}
    /\ sweep.phase = "reading" =>
         \A s \in Sessions :
            /\ s \in sweep.todo \cup DOMAIN sweep.read => tr[s].known
            /\ s \in live /\ tr[s].known => s \in sweep.todo \cup DOMAIN sweep.read

\* A screen b read after a: a number drawn in between is above all of a's.
IsLater(a, b) ==
    /\ b.notifSeq >= a.notifSeq /\ b.program.seq >= a.program.seq
    /\ b.program.occurrence >= a.program.occurrence
    /\ b.notifSeq > a.notifSeq => b.notifSeq > a.program.seq
    /\ b.program.occurrence > a.program.occurrence => b.program.occurrence > a.notifSeq

\* What a tracker has consumed is what the sweep before read; of a session that
\* ended, the notification may have been left.
Consumed(s) == tr[s].notifSeen = before[s].notifSeq
CuesOf(s) ==
    /\ IsLater(before[s], screen[s])
    /\ tr[s].known => /\ tr[s].programOccurrence = before[s].program.occurrence
                      /\ tr[s].notifSeen <= before[s].notifSeq
                      /\ exit[s] = "running" => Consumed(s)
    /\ exit[s] = "unborn" \/ (s \in live /\ ~ tr[s].known) => before[s] = NewScreen
    /\ s \in DOMAIN sweep.read =>
         /\ IsLater(before[s], sweep.read[s].screen) /\ IsLater(sweep.read[s].screen, screen[s])
         /\ s \notin sweep.exits => IF sweep.read[s].how = "running" THEN Consumed(s)
                                    ELSE exit[s] # "running"
Cues == \A s \in Sessions : CuesOf(s)

\* Only finitely many sessions are swept at a time.
Finite == IsFiniteSet(live) /\ IsFiniteSet({s \in Sessions : tr[s].known})

\* The buffers hold events about sessions; one sweep reports a session once.
Events ==
    /\ sweep.phase = "reading" => pending = <<>>
    /\ IsSeq(pending) /\ DOMAIN queue = Subs /\ DOMAIN stage = Subs /\ DOMAIN view = Subs
    /\ \A c \in Subs : /\ IsSeq(queue[c]) /\ Len(queue[c]) <= QueueCap
                       /\ stage[c] = "away" => queue[c] = <<>>
    /\ \A i \in DOMAIN pending : pending[i].id \in Sessions
    /\ \A c \in Subs : \A i \in DOMAIN queue[c] : queue[c][i].id \in Sessions
    /\ \A i, j \in DOMAIN pending : pending[i].id = pending[j].id => i = j

\* The notifications on their way to a subscriber are newer than those it was
\* shown, and rise; none is newer than what the session's tracker delivered.
Delivered(s) == IF tr[s].known THEN tr[s].notifDelivered ELSE 0
Counts(s) == tr[s].known \/ s \in live \/ exit[s] = "unborn"
Rises(q, shown) ==
    /\ \A i \in DOMAIN q : q[i].notif \in Nat /\ (q[i].notif # 0 => q[i].notif > shown[q[i].id])
    /\ \A i, j \in DOMAIN q :
         i < j /\ q[i].id = q[j].id /\ q[i].notif # 0 /\ q[j].notif # 0 => q[i].notif < q[j].notif
Bounded(q) == \A i \in DOMAIN q : Counts(q[i].id) => q[i].notif <= Delivered(q[i].id)
NoticesOf(c) ==
    /\ told[c] \in [Sessions -> Nat]
    /\ \A s \in Sessions : Counts(s) => told[c][s] <= Delivered(s)
    /\ Rises(Coming(c), told[c]) /\ Bounded(Coming(c))
Notices == DOMAIN told = Subs /\ \A c \in Subs : NoticesOf(c)

\* The last event about a session tells what is committed of it.
Matches(e) ==
    IF e.removed THEN e.id \in removed
    ELSE /\ tr[e.id].known
         /\ e.status = tr[e.id].lastStatus /\ e.statusSeq = tr[e.id].statusSeq
         /\ e.seenSeq = tr[e.id].lastSeenSeq /\ e.label = tr[e.id].lastLabel
IsLast(q, i) == \A j \in DOMAIN q : q[j].id = q[i].id => j <= i
\* A page that no event about a session is on its way to shows it as committed.
UpToDate(c, s) ==
    /\ Committed(s) => /\ s \in DOMAIN view[c]
                       /\ view[c][s].status = tr[s].lastStatus
                       /\ view[c][s].statusSeq = tr[s].statusSeq
                       /\ view[c][s].seenSeq \in tr[s].lastSeenSeq .. tr[s].seenSeq
    /\ s \in removed => s \notin DOMAIN view[c]
Streams ==
    /\ \A i \in DOMAIN pending : Matches(pending[i])
    /\ \A c \in Subs : Listening(c) =>
         \A i \in DOMAIN Coming(c) : IsLast(Coming(c), i) => Matches(Coming(c)[i])
    /\ \A c \in Subs : stage[c] = "streaming" =>
         \A s \in Sessions : About(Coming(c), s) = {} => UpToDate(c, s)

\* Its title is the session's, or one that the next sweep finds changed.
Titled(c, s) ==
    Committed(s) => view[c][s].label = label[s] \/ tr[s].lastLabel # label[s]
Titles ==
    /\ \A s \in Sessions : tr[s].known => tr[s].lastLabel \in Nat /\ tr[s].lastLabel <= label[s]
    /\ \A c \in Subs : stage[c] = "streaming" =>
         \A s \in Sessions : About(Coming(c), s) = {} => Titled(c, s)
-----------------------------------------------------------------------------
(* What the programs and the clients do, as the invariant sees it.         *)

\* A session's screen moves on.
Moved(s, sc) == exit[s] # "unborn" /\ Screened(sc) /\ IsLater(screen[s], sc) /\ Shows(s, sc)

\* A client moves the mark up, or takes a latch back.
Remains(t, old) ==
    /\ t.lastStatus = old.lastStatus /\ t.lastLabel = old.lastLabel /\ t.statusSeq = old.statusSeq
    /\ t.lastSeenSeq = old.lastSeenSeq /\ t.seenSeq >= old.seenSeq
    /\ t.notifSeen = old.notifSeen /\ t.notifDelivered = old.notifDelivered
    /\ t.programOccurrence = old.programOccurrence
Marked(s, t) == Tracked(tr[s]) /\ Tracked(t) /\ Remains(t, tr[s]) /\ Tracks(s, t)

LEMMA NextNumber ==
    ASSUME NEW sc, Screened(sc)
    PROVE  /\ NextStatusSeq(sc) \in Nat /\ NextStatusSeq(sc) > sc.notifSeq
           /\ NextStatusSeq(sc) > sc.program.seq
BY DEF NextStatusSeq, Screened

LEMMA Notifies ==
    ASSUME NEW sc, Screened(sc), NEW text
    PROVE  LET new == [sc EXCEPT !.notif = text, !.notifSeq = NextStatusSeq(sc)]
           IN  Screened(new) /\ IsLater(sc, new)
<1> DEFINE new == [sc EXCEPT !.notif = text, !.notifSeq = NextStatusSeq(sc)]
<1>1. /\ DOMAIN new = ScreenFields /\ new.program = sc.program /\ new.notifSeq = NextStatusSeq(sc)
  BY DEF Screened, ScreenFields
<1> HIDE DEF new
<1>2. Screened(new) /\ IsLater(sc, new)
  BY <1>1, NextNumber DEF Screened, IsLater
<1> QED BY <1>2 DEF new

LEMMA Progresses ==
    ASSUME NEW sc, Screened(sc), NEW st
    PROVE  LET new == [sc EXCEPT !.progress = st]
           IN  Screened(new) /\ IsLater(sc, new)
<1> DEFINE new == [sc EXCEPT !.progress = st]
<1>1. DOMAIN new = ScreenFields /\ new.program = sc.program /\ new.notifSeq = sc.notifSeq
  BY DEF Screened, ScreenFields
<1> HIDE DEF new
<1>2. Screened(new) /\ IsLater(sc, new)
  BY <1>1 DEF Screened, IsLater
<1> QED BY <1>2 DEF new

LEMMA Changes7501 ==
    ASSUME NEW sc, Screened(sc), NEW e, e.event = "report" => e.seq = NextStatusSeq(sc)
    PROVE  LET new == [sc EXCEPT !.program = apply(@, e)]
           IN  Screened(new) /\ IsLater(sc, new)
<1> DEFINE new == [sc EXCEPT !.program = apply(@, e)]
           p == sc.program
           q == apply(p, e)
<1>1. /\ DOMAIN new = ScreenFields /\ new.program = q /\ new.notifSeq = sc.notifSeq
  BY DEF Screened, ScreenFields
<1>2. DOMAIN p = ProgramFields
  BY DEF Screened
<1>3. /\ DOMAIN q = ProgramFields
      /\ q.seq = IF e.event = "report" THEN e.seq ELSE p.seq
      /\ q.occurrence = p.occurrence \/ (e.event = "report" /\ q.occurrence = e.seq)
  BY <1>2 DEF apply, ProgramFields
<1> HIDE DEF new, q
<1>4. CASE e.event = "report"
  <2>1. Screened(new)
    BY <1>1, <1>3, <1>4, NextNumber DEF Screened
  <2>2. IsLater(sc, new)
    BY <1>1, <1>3, <1>4, NextNumber DEF Screened, IsLater
  <2> QED BY <2>1, <2>2 DEF new
<1>5. CASE e.event # "report"
  <2>1. q.seq = p.seq /\ q.occurrence = p.occurrence
    BY <1>3, <1>5
  <2>2. Screened(new) /\ IsLater(sc, new)
    BY <1>1, <1>3, <2>1 DEF Screened, IsLater
  <2> QED BY <2>2 DEF new
<1> QED BY <1>4, <1>5

LEMMA ProgramsMove ==
    ASSUME Shapes, NEW s \in Sessions,
           \/ \E st \in 0 .. 4 : SetProgress(s, st)
           \/ \E text \in DOMAIN Class : Notify(s, text)
           \/ \E id \in Ids, rec \in Reported : Report(s, id, rec)
           \/ Prompt(s) \/ HardReset(s) \/ ProgramExited(s)
    PROVE  \E sc : Moved(s, sc)
<1>1. Screened(screen[s])
  BY DEF Shapes
<1>2. ASSUME NEW st, SetProgress(s, st) PROVE \E sc : Moved(s, sc)
  BY <1>1, <1>2, Progresses DEF SetProgress, Running, Moved
<1>3. ASSUME NEW text, Notify(s, text) PROVE \E sc : Moved(s, sc)
  BY <1>1, <1>3, Notifies DEF Notify, Running, Moved
<1>4. ASSUME NEW e, e.event = "report" => e.seq = NextStatusSeq(screen[s]), exit[s] # "unborn", Change(s, e)
      PROVE  \E sc : Moved(s, sc)
  BY <1>1, <1>4, Changes7501 DEF Change, Moved
<1>5. ASSUME NEW id, NEW rec, Report(s, id, rec) PROVE \E sc : Moved(s, sc)
  <2> DEFINE e == [event |-> "report", id |-> id, rec |-> rec, seq |-> NextStatusSeq(screen[s])]
  <2>1. e.seq = NextStatusSeq(screen[s]) /\ Change(s, e) /\ exit[s] # "unborn"
    BY <1>5 DEF Report, Running
  <2> HIDE DEF e
  <2> QED BY <1>4, <2>1
<1>6. ASSUME NEW kind, kind # "report", exit[s] # "unborn", Change(s, Event(kind)) PROVE \E sc : Moved(s, sc)
  <2>1. Event(kind).event # "report"
    BY <1>6 DEF Event
  <2> QED BY <1>4, <1>6, <2>1
<1>7. CASE Prompt(s) \/ HardReset(s) \/ ProgramExited(s)
  BY <1>6, <1>7 DEF Prompt, HardReset, ProgramExited, Running
<1> QED BY <1>2, <1>3, <1>5, <1>7

LEMMA ClientsMark ==
    ASSUME Shapes, NEW s \in Sessions,
           \/ \E seq \in Nat : markSessionSeen(s, seq)
           \/ \E want \in {"input", "done"}, seq \in Nat : WithdrawStatusLatch(s, want, seq)
    PROVE  \E t : Marked(s, t)
<1> DEFINE old == tr[s]
<1>1. old.known => Tracked(old)
  BY DEF Shapes, NoTracker
<1>2. ASSUME NEW seq \in Nat, markSessionSeen(s, seq) PROVE \E t : Marked(s, t)
  <2> DEFINE t == [old EXCEPT !.seenSeq = Max2(@, Min2(seq, old.statusSeq))]
  <2>1. Tracked(old) /\ Tracks(s, t)
    BY <1>1, <1>2 DEF markSessionSeen
  <2>2. /\ DOMAIN t = TrackerFields /\ t.seenSeq = Max2(old.seenSeq, Min2(seq, old.statusSeq))
        /\ \A f \in TrackerFields : f # "seenSeq" => t[f] = old[f]
    BY <2>1 DEF Tracked
  <2>3. t.seenSeq \in Nat /\ old.seenSeq <= t.seenSeq /\ t.seenSeq <= old.statusSeq
    BY <2>1, <2>2 DEF Max2, Min2, Tracked
  <2> HIDE DEF t, old
  <2>4. Tracked(t) /\ Remains(t, old)
    BY <2>1, <2>2, <2>3 DEF Tracked, Remains, TrackerFields
  <2> QED BY <2>1, <2>4 DEF Marked, old
<1>3. ASSUME NEW want, NEW seq, WithdrawStatusLatch(s, want, seq) PROVE \E t : Marked(s, t)
  <2> DEFINE t == [old EXCEPT !.latched = ""]
  <2>1. Tracked(old) /\ Tracks(s, t)
    BY <1>1, <1>3 DEF WithdrawStatusLatch
  <2>2. DOMAIN t = TrackerFields /\ \A f \in TrackerFields : f # "latched" => t[f] = old[f]
    BY <2>1 DEF Tracked
  <2> HIDE DEF t, old
  <2>3. Tracked(t) /\ Remains(t, old)
    BY <2>1, <2>2 DEF Tracked, Remains, TrackerFields
  <2> QED BY <2>1, <2>3 DEF Marked, old
<1> QED BY <1>2, <1>3

\* What one sweep makes of one session: the new tracker, and at most one event,
\* none only when all that is shown of the session stays.
IsSwept(w, s, in, how) == w = sweepSession(s, in, how)
Tells(e, s, t, old, in) ==
    /\ e.id = s /\ e.removed = FALSE
    /\ e.status = t.lastStatus /\ e.statusSeq = t.statusSeq /\ e.seenSeq = t.lastSeenSeq
    /\ e.label = t.lastLabel
    /\ e.notif = 0 \/ (e.notif = in.notifSeq /\ in.notifSeq > old.notifDelivered)

\* What of a screen a tracker has taken in.
Consumes(t, old, in, how) ==
    /\ t.programOccurrence = in.program.occurrence
    /\ t.notifSeen = IF how = "running" THEN Max2(old.notifSeen, in.notifSeq) ELSE old.notifSeen
    /\ t.notifDelivered = Max2(old.notifDelivered, in.notifSeq)

\* What a sweep makes of a session: w, from the status r computed for it.
SweptTo(w, s, in, how, r) ==
    /\ Tracked(w.t) /\ Consumes(w.t, tr[s], in, how)
    /\ w.t.lastStatus = r.status /\ w.t.seenSeq = tr[s].seenSeq /\ w.t.lastLabel = label[s]
    /\ w.t.statusSeq = IF r.status # tr[s].lastStatus \/ r.fresh THEN tr[s].statusSeq + 1
                       ELSE tr[s].statusSeq
    /\ \/ /\ w.events = <<>> /\ w.t.lastStatus = tr[s].lastStatus
          /\ w.t.statusSeq = tr[s].statusSeq /\ w.t.lastSeenSeq = tr[s].lastSeenSeq
          /\ w.t.lastLabel = tr[s].lastLabel
       \/ \E e : w.events = <<e>> /\ Tells(e, s, w.t, tr[s], in)

LEMMA Swept ==
    ASSUME Shapes, NEW s \in Sessions, Tracked(tr[s]), NEW in, Screened(in), NEW how,
           NEW w, IsSwept(w, s, in, how), NEW r, IsComputed(r, in, how, tr[s])
    PROVE  SweptTo(w, s, in, how, r)
<1> DEFINE old == tr[s]
           t == r.t
           reports == t.lastReports \/ in.progress >= 0 \/ in.program.seq # 0 \/ t.latched # ""
           notifNew == in.notifSeq > t.notifDelivered
           same == /\ r.status = t.lastStatus /\ label[s] = t.lastLabel /\ rankOf(s) = t.lastOrder
                   /\ reports = t.lastReports /\ t.seenSeq = t.lastSeenSeq /\ ~ notifNew /\ ~ r.fresh
           new == [t EXCEPT !.statusSeq = IF r.status # t.lastStatus \/ r.fresh THEN @ + 1 ELSE @,
                            !.lastSeenSeq = t.seenSeq, !.lastStatus = r.status, !.lastLabel = label[s],
                            !.lastReports = reports, !.lastOrder = rankOf(s),
                            !.notifDelivered = IF notifNew THEN in.notifSeq ELSE @]
           event == [id |-> s, removed |-> FALSE, status |-> new.lastStatus,
                     statusSeq |-> new.statusSeq, seenSeq |-> new.seenSeq,
                     label |-> new.lastLabel, order |-> new.lastOrder,
                     notif |-> IF notifNew THEN in.notifSeq ELSE 0]
<1>1. w = IF same THEN [t |-> t, events |-> <<>>] ELSE [t |-> new, events |-> <<event>>]
  BY DEF IsSwept, IsComputed, sweepSession
<1>2. /\ Carried(t, old) /\ t.programOccurrence = in.program.occurrence
      /\ t.notifSeen = IF how = "running" THEN Max2(old.notifSeen, in.notifSeq) ELSE old.notifSeen
      /\ t.latchSeq \in Nat /\ t.latchSeq <= t.notifSeen
  BY Computed
<1>3. Tracked(t)
  <2>1. t.notifSeen \in Nat
    BY <1>2 DEF Max2, Tracked, Screened
  <2>2. Tracked(old)
    OBVIOUS
  <2> HIDE DEF t, old
  <2> QED BY <1>2, <2>1, <2>2 DEF Tracked, Carried, Screened
<1>4. /\ t.lastStatus = old.lastStatus /\ t.lastLabel = old.lastLabel /\ t.statusSeq = old.statusSeq
      /\ t.seenSeq = old.seenSeq /\ t.lastSeenSeq = old.lastSeenSeq
      /\ t.notifDelivered = old.notifDelivered
  BY <1>2 DEF Carried
<1>5. /\ DOMAIN new = TrackerFields
      /\ new.statusSeq = IF r.status # t.lastStatus \/ r.fresh THEN t.statusSeq + 1 ELSE t.statusSeq
      /\ new.lastSeenSeq = t.seenSeq /\ new.lastStatus = r.status /\ new.lastLabel = label[s]
      /\ new.notifDelivered = IF notifNew THEN in.notifSeq ELSE t.notifDelivered
      /\ new.known = t.known /\ new.latchSeq = t.latchSeq /\ new.notifSeen = t.notifSeen
      /\ new.programOccurrence = t.programOccurrence /\ new.seenSeq = t.seenSeq
  BY <1>3 DEF Tracked, TrackerFields
<1>6. /\ event.id = s /\ event.removed = FALSE /\ event.status = new.lastStatus
      /\ event.statusSeq = new.statusSeq /\ event.seenSeq = new.seenSeq
      /\ event.label = new.lastLabel /\ event.notif = IF notifNew THEN in.notifSeq ELSE 0
  OBVIOUS
<1>7. /\ same => r.status = t.lastStatus /\ label[s] = t.lastLabel /\ ~ notifNew /\ ~ r.fresh
  OBVIOUS
<1>8. notifNew <=> in.notifSeq > t.notifDelivered
  OBVIOUS
<1>9. /\ in.notifSeq \in Nat /\ old.notifDelivered \in Nat
  BY DEF Screened, Tracked
<1>10. CASE same
  <2>1. w.t = t /\ w.events = <<>>
    BY <1>1, <1>10
  <2> HIDE DEF t, new, event, same, notifNew, reports, old
  <2>2. t.notifDelivered = Max2(old.notifDelivered, in.notifSeq)
    BY <1>4, <1>7, <1>8, <1>9, <1>10 DEF Max2
  <2> QED BY <1>2, <1>3, <1>4, <1>7, <1>10, <2>1, <2>2 DEF old, Consumes, SweptTo
<1>11. CASE ~ same
  <2>1. w.t = new /\ w.events = <<event>>
    BY <1>1, <1>11
  <2> HIDE DEF t, new, event, same, notifNew, reports, old
  <2>2. new.notifDelivered = Max2(old.notifDelivered, in.notifSeq)
    BY <1>4, <1>5, <1>8, <1>9 DEF Max2
  <2>3. Tracked(new)
    <3>1. new.statusSeq \in Nat /\ new.statusSeq >= t.statusSeq
      BY <1>3, <1>5 DEF Tracked
    <3>2. new.notifDelivered \in Nat
      BY <1>9, <2>2 DEF Max2
    <3> QED BY <1>3, <1>5, <3>1, <3>2 DEF Tracked
  <2>4. event.notif = 0 \/ (event.notif = in.notifSeq /\ in.notifSeq > old.notifDelivered)
    BY <1>4, <1>6, <1>8
  <2>5. Tells(event, s, new, old, in)
    BY <1>5, <1>6, <2>4 DEF Tells
  <2>6. \E e : w.events = <<e>> /\ Tells(e, s, w.t, old, in)
    BY <2>1, <2>5
  <2> QED BY <1>2, <1>4, <1>5, <2>1, <2>2, <2>3, <2>6 DEF old, Consumes, SweptTo
<1> QED BY <1>10, <1>11

-----------------------------------------------------------------------------
(* Every step, as the sessions and the sweep see it.                       *)

Aside == UNCHANGED <<live, label, programVars, tr, sweep, historyVars>>

LEMMA Steps ==
    ASSUME Shapes, Next
    PROVE  \/ \E s \in Sessions :
                \/ \E sc : Moved(s, sc)
                \/ \E how \in {"clean", "crash"} : Exit(s, how)
                \/ Close(s)
                \/ \E name \in Nat : Create(s, name) \/ SetSessionTitle(s, name)
                \/ \E t : Marked(s, t)
                \/ ReadScreen(s) \/ ReadExit(s)
           \/ BeginSweep \/ CommitSweep \/ Aside
<1>1. ASSUME NEW s \in Sessions,
             \/ \E st \in 0 .. 4 : SetProgress(s, st)
             \/ \E text \in DOMAIN Class : Notify(s, text)
             \/ \E id \in Ids, rec \in Reported : Report(s, id, rec)
             \/ Prompt(s) \/ HardReset(s) \/ ProgramExited(s)
      PROVE  \E sc : Moved(s, sc)
  BY <1>1, ProgramsMove
<1>2. ASSUME NEW s \in Sessions,
             \/ \E seq \in Nat : markSessionSeen(s, seq)
             \/ \E want \in {"input", "done"}, seq \in Nat : WithdrawStatusLatch(s, want, seq)
      PROVE  \E t : Marked(s, t)
  BY <1>2, ClientsMark
<1>3. ASSUME \/ \E ids \in Seq(Sessions) : SetSessionOrder(ids)
             \/ Broadcast
             \/ \E c \in Subs : Subscribe(c) \/ TakeSnapshot(c) \/ Receive(c) \/ Leave(c)
      PROVE  Aside
  BY <1>3 DEF SetSessionOrder, Broadcast, Subscribe, TakeSnapshot, Receive, Leave, Aside,
       sessionVars, programVars, historyVars
<1> QED BY <1>1, <1>2, <1>3 DEF Next

\* What a commit does to one session.
SweptNow(s) == s \in DOMAIN sweep.read /\ s \in live
LEMMA Commits ==
    ASSUME Shapes, Sweeping, CommitSweep
    PROVE  /\ DOMAIN tr' = Sessions /\ DOMAIN before' = Sessions /\ sweep' = NoSweep
           /\ UNCHANGED <<live, label, screen, exit>> /\ sweep.exits = {}
           /\ removed' = removed \cup {s \in Sessions \ live : tr[s].known}
           /\ \A s \in Sessions : SweptNow(s) =>
                \E w, r : /\ SweptTo(w, s, sweep.read[s].screen, sweep.read[s].how, r)
                          /\ IsComputed(r, sweep.read[s].screen, sweep.read[s].how, tr[s])
                          /\ Tracked(tr[s]) /\ Screened(sweep.read[s].screen)
                          /\ tr'[s] = w.t /\ before'[s] = sweep.read[s].screen
           /\ \A s \in Sessions : ~ SweptNow(s) =>
                before'[s] = before[s] /\ tr'[s] = NoTracker /\ ~ tr'[s].known
           /\ \A s \in Sessions : s \in live /\ tr[s].known => SweptNow(s)
           /\ \A s \in Sessions : SweptNow(s) => tr[s].known
<1> DEFINE swept == DOMAIN sweep.read \cap live
           gone == {s \in Sessions \ live : tr[s].known}
           One(s) == sweepSession(s, sweep.read[s].screen, sweep.read[s].how)
<1>1. /\ tr' = [s \in Sessions |-> IF s \in swept THEN [x \in swept |-> One(x)][s].t
                                   ELSE IF s \in gone THEN NoTracker ELSE tr[s]]
      /\ before' = [s \in Sessions |-> IF s \in swept THEN sweep.read[s].screen ELSE before[s]]
      /\ removed' = removed \cup gone /\ sweep' = NoSweep
      /\ UNCHANGED <<live, label, screen, exit>> /\ sweep.exits = {}
      /\ sweep.phase = "reading" /\ sweep.todo = {}
  BY DEF CommitSweep, sessionVars, programVars
<1>2. \A s \in Sessions : s \in live /\ tr[s].known => SweptNow(s)
  BY <1>1 DEF Sweeping, SweptNow
<1>3. \A s \in Sessions : SweptNow(s) => tr[s].known /\ Tracked(tr[s]) /\ Screened(sweep.read[s].screen)
  BY <1>1 DEF Sweeping, SweptNow, Shapes, NoTracker
<1>4. ASSUME NEW s \in Sessions, SweptNow(s)
      PROVE  \E w, r : /\ SweptTo(w, s, sweep.read[s].screen, sweep.read[s].how, r)
                       /\ IsComputed(r, sweep.read[s].screen, sweep.read[s].how, tr[s])
                       /\ Tracked(tr[s]) /\ Screened(sweep.read[s].screen)
                       /\ tr'[s] = w.t /\ before'[s] = sweep.read[s].screen
  <2>1. tr'[s] = One(s).t /\ before'[s] = sweep.read[s].screen
    BY <1>1, <1>4 DEF SweptNow
  <2>2. PICK in, how, w : in = sweep.read[s].screen /\ how = sweep.read[s].how /\ w = One(s)
    OBVIOUS
  <2>3. PICK r : IsComputed(r, in, how, tr[s])
    BY DEF IsComputed
  <2>4. Tracked(tr[s]) /\ Screened(in) /\ IsSwept(w, s, in, how)
    BY <1>3, <1>4, <2>2 DEF IsSwept
  <2>5. SweptTo(w, s, in, how, r)
    BY <2>3, <2>4, Swept
  <2> QED BY <2>1, <2>2, <2>3, <2>4, <2>5
<1>5. ASSUME NEW s \in Sessions, ~ SweptNow(s)
      PROVE  before'[s] = before[s] /\ tr'[s] = NoTracker /\ ~ tr'[s].known
  <2>1. tr'[s] = NoTracker
    BY <1>1, <1>2, <1>5 DEF SweptNow, Shapes, Tracked
  <2> QED BY <1>1, <1>5, <2>1 DEF SweptNow, NoTracker
<1> QED BY <1>1, <1>2, <1>3, <1>4, <1>5

LEMMA SweptDelivers ==
    ASSUME Shapes, Sweeping, CommitSweep, NEW s \in Sessions, SweptNow(s)
    PROVE  /\ tr[s].known /\ tr'[s].known /\ tr[s].notifDelivered \in Nat
           /\ sweep.read[s].screen.notifSeq \in Nat
           /\ tr'[s].notifDelivered = Max2(tr[s].notifDelivered, sweep.read[s].screen.notifSeq)
           /\ tr'[s].seenSeq = tr[s].seenSeq /\ tr'[s].lastLabel = label[s]
           /\ Tracked(tr'[s])
           /\ tr'[s].programOccurrence = sweep.read[s].screen.program.occurrence
           /\ tr'[s].notifSeen = IF sweep.read[s].how = "running"
                                 THEN Max2(tr[s].notifSeen, sweep.read[s].screen.notifSeq) ELSE tr[s].notifSeen
<1> DEFINE in == sweep.read[s].screen
           how == sweep.read[s].how
<1>1. PICK w, r : SweptTo(w, s, in, how, r) /\ Tracked(tr[s]) /\ Screened(in) /\ tr'[s] = w.t
  BY Commits
<1> HIDE DEF in, how
<1>2. Tracked(w.t) /\ w.t.seenSeq = tr[s].seenSeq /\ w.t.lastLabel = label[s] /\ Consumes(w.t, tr[s], in, how)
  BY <1>1 DEF SweptTo
<1>3. /\ tr[s].known /\ tr'[s].known /\ tr[s].notifDelivered \in Nat /\ in.notifSeq \in Nat
      /\ Tracked(tr'[s])
  BY <1>1, <1>2 DEF Tracked, Screened
<1> QED BY <1>1, <1>2, <1>3 DEF in, how, Consumes

\* The trackers a sweep starts with.
LEMMA Begins ==
    ASSUME Shapes, BeginSweep
    PROVE  /\ DOMAIN tr' = Sessions /\ sweep.phase = "resting" /\ pending = <<>>
           /\ UNCHANGED <<live, label, screen, exit, before, removed>>
           /\ sweep' = [NoSweep EXCEPT !.phase = "reading", !.todo = live]
           /\ \A s \in Sessions :
                /\ s \in live /\ ~ tr[s].known => tr'[s] = NewTracker /\ Tracked(tr'[s])
                /\ s \notin live \/ tr[s].known => tr'[s] = tr[s]
                /\ tr'[s].known <=> s \in live \/ tr[s].known
<1>1. Tracked(NewTracker)
  BY DEF NewTracker, Tracked, TrackerFields
<1> QED BY <1>1 DEF BeginSweep, Shapes, sessionVars, programVars, historyVars, Tracked, NewTracker, NoTracker

LEMMA ShapesStep ==
    ASSUME Shapes, Sweeping, Next
    PROVE  Shapes'
<1>1. ASSUME NEW s \in Sessions, NEW sc, Moved(s, sc) PROVE Shapes'
  BY <1>1 DEF Shapes, Moved, Shows, sessionVars, historyVars
<1>2. ASSUME NEW s \in Sessions, NEW how \in {"clean", "crash"}, Exit(s, how) PROVE Shapes'
  BY <1>2 DEF Shapes, Exit, sessionVars, historyVars
<1>3. ASSUME NEW s \in Sessions, Close(s) PROVE Shapes'
  BY <1>3 DEF Shapes, Close, programVars, historyVars
<1>4. ASSUME NEW s \in Sessions, NEW name \in Nat, Create(s, name) PROVE Shapes'
  BY <1>4 DEF Shapes, Create, historyVars
<1>5. ASSUME NEW s \in Sessions, NEW name \in Nat, SetSessionTitle(s, name) PROVE Shapes'
  BY <1>5 DEF Shapes, SetSessionTitle, programVars, historyVars
<1>6. ASSUME NEW s \in Sessions, NEW t, Marked(s, t) PROVE Shapes'
  <2>1. t.known /\ tr[s].known
    BY <1>6 DEF Marked, Tracked
  <2> QED BY <1>6, <2>1 DEF Shapes, Marked, Tracks, sessionVars, programVars, historyVars
<1>7. ASSUME NEW s \in Sessions, ReadScreen(s) \/ ReadExit(s) PROVE Shapes'
  BY <1>7 DEF Shapes, ReadScreen, ReadExit, sessionVars, programVars, historyVars
<1>8. ASSUME BeginSweep PROVE Shapes'
  BY <1>8, Begins DEF Shapes
<1>9. ASSUME CommitSweep PROVE Shapes'
  <2>1. ASSUME NEW s \in Sessions, SweptNow(s)
        PROVE  Tracked(tr'[s]) /\ Screened(before'[s]) /\ tr[s].known
    <3>1. PICK w, r :
             /\ SweptTo(w, s, sweep.read[s].screen, sweep.read[s].how, r)
             /\ Tracked(tr[s]) /\ Screened(sweep.read[s].screen)
             /\ tr'[s] = w.t /\ before'[s] = sweep.read[s].screen
      BY <1>9, <2>1, Commits
    <3>2. Tracked(w.t)
      BY <3>1 DEF SweptTo
    <3> QED BY <3>1, <3>2 DEF Tracked
  <2>2. \A s \in Sessions : tr'[s] = NoTracker \/ Tracked(tr'[s])
    BY <1>9, <2>1, Commits
  <2>3. \A s \in Sessions : Screened(before'[s])
    BY <1>9, <2>1, Commits DEF Shapes
  <2>4. \A s \in Sessions : tr'[s].known => SweptNow(s)
    BY <1>9, Commits
  <2>5. \A s \in Sessions : s \in live \/ tr'[s].known \/ s \in removed' => exit[s] # "unborn"
    BY <1>9, <2>4, Commits DEF Shapes, SweptNow
  <2>6. \A s \in Sessions : s \in removed' => s \notin live /\ ~ tr'[s].known
    BY <1>9, <2>4, Commits DEF Shapes, SweptNow
  <2> QED BY <1>9, <2>2, <2>3, <2>5, <2>6, Commits DEF Shapes
<1>10. ASSUME Aside PROVE Shapes'
  BY <1>10 DEF Shapes, Aside, programVars, historyVars
<1> QED BY <1>1, <1>2, <1>3, <1>4, <1>5, <1>6, <1>7, <1>8, <1>9, <1>10, Steps

LEMMA SweepingStep ==
    ASSUME Shapes, Sweeping, Next
    PROVE  Sweeping'
<1>1. ASSUME NEW s \in Sessions, NEW sc, Moved(s, sc) PROVE Sweeping'
  BY <1>1 DEF Sweeping, Moved, Shows, sessionVars, historyVars
<1>2. ASSUME NEW s \in Sessions, NEW how \in {"clean", "crash"}, Exit(s, how) PROVE Sweeping'
  BY <1>2 DEF Sweeping, Exit, sessionVars, historyVars
<1>3. ASSUME NEW s \in Sessions, Close(s) PROVE Sweeping'
  BY <1>3 DEF Sweeping, Close, programVars, historyVars
<1>4. ASSUME NEW s \in Sessions, NEW name \in Nat, Create(s, name) PROVE Sweeping'
  <2>1. ~ tr[s].known
    BY <1>4 DEF Shapes, Create
  <2> QED BY <1>4, <2>1 DEF Sweeping, Create, historyVars
<1>5. ASSUME NEW s \in Sessions, NEW name \in Nat, SetSessionTitle(s, name) PROVE Sweeping'
  BY <1>5 DEF Sweeping, SetSessionTitle, programVars, historyVars
<1>6. ASSUME NEW s \in Sessions, NEW t, Marked(s, t) PROVE Sweeping'
  <2>1. \A x \in Sessions : tr'[x].known <=> tr[x].known
    BY <1>6 DEF Marked, Tracked, Shapes, Tracks
  <2> QED BY <1>6, <2>1 DEF Sweeping, Marked, Tracks, sessionVars, programVars, historyVars
<1>7. ASSUME NEW s \in Sessions, ReadScreen(s) PROVE Sweeping'
  <2> DEFINE entry == [screen |-> screen[s], how |-> "running"]
  <2>1. /\ s \in sweep.todo /\ sweep.exits = {} /\ UNCHANGED <<live, tr>>
        /\ sweep' = [sweep EXCEPT !.todo = @ \ {s}, !.exits = {s},
                        !.read = [x \in DOMAIN @ \cup {s} |-> IF x = s THEN entry ELSE @[x]]]
    BY <1>7 DEF ReadScreen, sessionVars
  <2>2. DOMAIN entry = {"screen", "how"} /\ Screened(entry.screen)
    BY DEF Shapes
  <2> HIDE DEF entry
  <2>3. /\ DOMAIN sweep' = {"phase", "todo", "exits", "read"} /\ sweep'.phase = sweep.phase
        /\ sweep'.todo = sweep.todo \ {s} /\ sweep'.exits = {s}
        /\ sweep'.read = [x \in DOMAIN sweep.read \cup {s} |-> IF x = s THEN entry ELSE sweep.read[x]]
    BY <2>1 DEF Sweeping
  <2>4. sweep.phase = "reading"
    BY <2>1 DEF Sweeping
  <2> QED BY <2>1, <2>2, <2>3, <2>4 DEF Sweeping
<1>8. ASSUME NEW s \in Sessions, ReadExit(s) PROVE Sweeping'
  <2>1. /\ s \in sweep.exits /\ UNCHANGED <<live, tr>>
        /\ sweep' = [sweep EXCEPT !.exits = {}, !.read[s].how = exit[s]]
    BY <1>8 DEF ReadExit, sessionVars
  <2>2. /\ DOMAIN sweep' = {"phase", "todo", "exits", "read"} /\ sweep'.phase = sweep.phase
        /\ sweep'.todo = sweep.todo /\ sweep'.exits = {}
        /\ sweep'.read = [sweep.read EXCEPT ![s].how = exit[s]]
    BY <2>1 DEF Sweeping
  <2>3. /\ DOMAIN sweep'.read = DOMAIN sweep.read
        /\ \A x \in DOMAIN sweep.read : /\ DOMAIN sweep'.read[x] = {"screen", "how"}
                                        /\ sweep'.read[x].screen = sweep.read[x].screen
    BY <2>2 DEF Sweeping
  <2> QED BY <2>1, <2>2, <2>3 DEF Sweeping
<1>9. ASSUME BeginSweep PROVE Sweeping'
  <2>1. /\ DOMAIN sweep' = {"phase", "todo", "exits", "read"} /\ sweep'.phase = "reading"
        /\ sweep'.todo = live /\ sweep'.exits = {} /\ DOMAIN sweep'.read = {}
    BY <1>9, Begins DEF NoSweep
  <2> QED BY <1>9, <2>1, Begins DEF Sweeping, Shapes
<1>10. ASSUME CommitSweep PROVE Sweeping'
  BY <1>10, Commits DEF Sweeping, NoSweep
<1>11. ASSUME Aside PROVE Sweeping'
  BY <1>11 DEF Sweeping, Aside, programVars, historyVars
<1> QED BY <1>1, <1>2, <1>3, <1>4, <1>5, <1>6, <1>7, <1>8, <1>9, <1>10, <1>11, Steps

LEMMA LaterThanItself == ASSUME NEW a, Screened(a) PROVE IsLater(a, a)
BY DEF IsLater, Screened

LEMMA LaterAndLater ==
    ASSUME NEW a, NEW b, NEW c, Screened(a), Screened(b), Screened(c), IsLater(a, b), IsLater(b, c)
    PROVE  IsLater(a, c)
<1>1. /\ a.notifSeq \in Nat /\ a.program.seq \in Nat /\ a.program.occurrence \in Nat
      /\ b.notifSeq \in Nat /\ b.program.seq \in Nat /\ b.program.occurrence \in Nat
      /\ c.notifSeq \in Nat /\ c.program.seq \in Nat /\ c.program.occurrence \in Nat
  BY DEF Screened
<1> QED BY <1>1 DEF IsLater

LEMMA CuesStep ==
    ASSUME Shapes, Sweeping, Cues, Next
    PROVE  Cues'
<1>0. \A s \in Sessions : CuesOf(s)
  BY DEF Cues
<1>a. \A s \in Sessions : Screened(screen[s]) /\ Screened(before[s])
  BY DEF Shapes
<1>b. Shapes'
  BY ShapesStep
<1> SUFFICES ASSUME NEW x \in Sessions PROVE CuesOf(x)'
  BY DEF Cues
<1>1. ASSUME NEW s \in Sessions, NEW sc, Moved(s, sc) PROVE CuesOf(x)'
  <2>1. UNCHANGED <<live, exit, tr, sweep, before>> /\ screen' = [screen EXCEPT ![s] = sc]
    BY <1>1 DEF Moved, Shows, sessionVars, historyVars
  <2>2. screen'[x] = screen[x] \/ (IsLater(screen[x], screen'[x]) /\ Screened(screen'[x]))
    BY <1>1, <2>1 DEF Moved, Shapes
  <2>3. IsLater(before[x], screen[x]) => IsLater(before[x], screen'[x])
    BY <1>a, <2>2, LaterAndLater
  <2>4. x \in DOMAIN sweep.read /\ IsLater(sweep.read[x].screen, screen[x])
            => IsLater(sweep.read[x].screen, screen'[x])
    <3>1. x \in DOMAIN sweep.read => Screened(sweep.read[x].screen)
      BY DEF Sweeping
    <3> QED BY <1>a, <2>2, <3>1, LaterAndLater
  <2> QED BY <1>0, <2>1, <2>3, <2>4 DEF CuesOf, Consumed
<1>2. ASSUME NEW s \in Sessions, NEW how \in {"clean", "crash"}, Exit(s, how) PROVE CuesOf(x)'
  <2>1. /\ UNCHANGED <<live, screen, tr, sweep, before>> /\ exit[s] = "running"
        /\ exit' = [exit EXCEPT ![s] = how]
    BY <1>2 DEF Exit, Running, sessionVars, historyVars
  <2>2. /\ exit'[x] = "running" => exit[x] = "running"
        /\ exit'[x] = "unborn" => exit[x] = "unborn"
    BY <2>1 DEF Shapes
  <2> QED BY <1>0, <2>1, <2>2 DEF CuesOf, Consumed
<1>3. ASSUME NEW s \in Sessions, Close(s) PROVE CuesOf(x)'
  BY <1>0, <1>3 DEF CuesOf, Consumed, Close, programVars, historyVars
<1>4. ASSUME NEW s \in Sessions, NEW name \in Nat, Create(s, name) PROVE CuesOf(x)'
  <2>1. /\ UNCHANGED <<screen, tr, sweep, before>> /\ exit[s] = "unborn" /\ ~ tr[s].known
        /\ live' = live \cup {s} /\ exit' = [exit EXCEPT ![s] = "running"]
    BY <1>4 DEF Create, historyVars, Shapes
  <2>2. s \notin DOMAIN sweep.read
    BY <2>1 DEF Sweeping
  <2>3. CASE x = s
    BY <1>0, <2>1, <2>2, <2>3 DEF CuesOf, Consumed, Shapes
  <2>4. CASE x # s
    <3>1. exit'[x] = exit[x] /\ (x \in live' <=> x \in live)
      BY <2>1, <2>4
    <3> QED BY <1>0, <2>1, <3>1 DEF CuesOf, Consumed
  <2> QED BY <2>3, <2>4
<1>5. ASSUME NEW s \in Sessions, NEW name \in Nat, SetSessionTitle(s, name) PROVE CuesOf(x)'
  BY <1>0, <1>5 DEF CuesOf, Consumed, SetSessionTitle, programVars, historyVars
<1>6. ASSUME NEW s \in Sessions, NEW t, Marked(s, t) PROVE CuesOf(x)'
  <2>1. /\ UNCHANGED <<live, screen, exit, sweep, before>>
        /\ tr'[x].known <=> tr[x].known
        /\ tr'[x].programOccurrence = tr[x].programOccurrence \/ ~ tr[x].known
        /\ tr'[x].notifSeen = tr[x].notifSeen \/ ~ tr[x].known
    BY <1>6 DEF Marked, Tracked, Remains, Tracks, Shapes, sessionVars, programVars, historyVars
  <2>2. x \in DOMAIN sweep.read => tr[x].known
    BY DEF Sweeping
  <2> QED BY <1>0, <2>1, <2>2 DEF CuesOf, Consumed
<1>7. ASSUME NEW s \in Sessions, ReadScreen(s) PROVE CuesOf(x)'
  <2> DEFINE entry == [screen |-> screen[s], how |-> "running"]
  <2>1. /\ s \in sweep.todo /\ sweep.exits = {} /\ UNCHANGED <<live, screen, exit, tr, before>>
        /\ sweep' = [sweep EXCEPT !.todo = @ \ {s}, !.exits = {s},
                        !.read = [y \in DOMAIN @ \cup {s} |-> IF y = s THEN entry ELSE @[y]]]
    BY <1>7 DEF ReadScreen, sessionVars, programVars, historyVars
  <2>2. entry.screen = screen[s]
    OBVIOUS
  <2> HIDE DEF entry
  <2>3. /\ sweep'.exits = {s} /\ (x \in DOMAIN sweep'.read <=> x \in DOMAIN sweep.read \cup {s})
        /\ x # s /\ x \in DOMAIN sweep.read => sweep'.read[x] = sweep.read[x]
        /\ x = s => sweep'.read[x].screen = screen[x]
    BY <2>1, <2>2 DEF Sweeping
  <2>4. IsLater(screen[x], screen[x])
    BY <1>a, LaterThanItself
  <2>5. CASE x = s
    BY <1>0, <2>1, <2>3, <2>4, <2>5 DEF CuesOf, Consumed
  <2>6. CASE x # s
    BY <1>0, <2>1, <2>3, <2>6 DEF CuesOf, Consumed
  <2> QED BY <2>5, <2>6
<1>8. ASSUME NEW s \in Sessions, ReadExit(s) PROVE CuesOf(x)'
  <2>1. /\ s \in sweep.exits /\ UNCHANGED <<live, screen, exit, tr, before>>
        /\ sweep' = [sweep EXCEPT !.exits = {}, !.read[s].how = exit[s]]
    BY <1>8 DEF ReadExit, sessionVars, programVars, historyVars
  <2>2. /\ sweep'.exits = {} /\ sweep'.read = [sweep.read EXCEPT ![s].how = exit[s]]
    BY <2>1 DEF Sweeping
  <2>3. /\ DOMAIN sweep'.read = DOMAIN sweep.read /\ s \in DOMAIN sweep.read
        /\ x \in DOMAIN sweep.read => /\ sweep'.read[x].screen = sweep.read[x].screen
                                      /\ x = s => sweep'.read[x].how = exit[s]
                                      /\ x # s => sweep'.read[x].how = sweep.read[x].how
    BY <2>1, <2>2 DEF Sweeping
  <2>4. sweep.exits \subseteq DOMAIN sweep.read /\ tr[s].known
    BY <2>3 DEF Sweeping
  <2>5. CASE x = s
    BY <1>0, <2>1, <2>2, <2>3, <2>4, <2>5 DEF CuesOf, Consumed
  <2>6. CASE x # s
    <3>1. x \notin sweep.exits
      BY <2>1, <2>6 DEF Sweeping
    <3> QED BY <1>0, <2>1, <2>2, <2>3, <2>6, <3>1 DEF CuesOf, Consumed
  <2> QED BY <2>5, <2>6
<1>9. ASSUME BeginSweep PROVE CuesOf(x)'
  <2>1. DOMAIN sweep'.read = {}
    BY <1>9, Begins DEF NoSweep
  <2>2. CASE x \in live /\ ~ tr[x].known
    <3>1. before'[x] = NewScreen /\ tr'[x] = NewTracker /\ screen'[x] = screen[x] /\ before'[x] = before[x]
      BY <1>0, <1>9, <2>2, Begins DEF CuesOf
    <3>2. /\ NewTracker.programOccurrence = 0 /\ NewTracker.notifSeen = 0
          /\ NewScreen.program.occurrence = 0 /\ NewScreen.notifSeq = 0
      BY DEF NewTracker, NewScreen, NoPrograms
    <3> QED BY <1>0, <1>9, <2>1, <3>1, <3>2, Begins DEF CuesOf, Consumed
  <2>3. CASE x \notin live \/ tr[x].known
    BY <1>0, <1>9, <2>1, <2>3, Begins DEF CuesOf, Consumed
  <2> QED BY <2>2, <2>3
<1>10. ASSUME CommitSweep PROVE CuesOf(x)'
  <2>1. DOMAIN sweep'.read = {} /\ UNCHANGED <<live, screen, exit>>
    BY <1>10, Commits DEF NoSweep
  <2>2. CASE ~ SweptNow(x)
    <3>1. before'[x] = before[x] /\ ~ tr'[x].known /\ (x \in live => ~ tr[x].known)
      BY <1>10, <2>2, Commits
    <3> QED BY <1>0, <2>1, <3>1 DEF CuesOf
  <2>3. CASE SweptNow(x)
    <3> DEFINE in == sweep.read[x].screen
               how == sweep.read[x].how
    <3>1. Tracked(tr[x]) /\ Screened(in) /\ before'[x] = in
      BY <1>10, <2>3, Commits
    <3>2. /\ tr'[x].programOccurrence = in.program.occurrence
          /\ tr'[x].notifSeen = IF how = "running" THEN Max2(tr[x].notifSeen, in.notifSeq) ELSE tr[x].notifSeen
      BY <1>10, <2>3, SweptDelivers
    <3>3. /\ IsLater(before[x], in) /\ IsLater(in, screen[x])
          /\ IF how = "running" THEN Consumed(x) ELSE exit[x] # "running"
          /\ tr[x].notifSeen <= before[x].notifSeq
      BY <1>0, <1>10, <2>3, Commits DEF CuesOf, SweptNow
    <3>4. /\ in.notifSeq \in Nat /\ before[x].notifSeq \in Nat /\ tr[x].notifSeen \in Nat
          /\ before[x].notifSeq <= in.notifSeq
      BY <1>a, <3>1, <3>3 DEF Screened, Tracked, IsLater
    <3>5. tr'[x].notifSeen <= in.notifSeq /\ (exit[x] = "running" => tr'[x].notifSeen = in.notifSeq)
      BY <3>2, <3>3, <3>4 DEF Max2, Consumed
    <3>6. exit[x] # "unborn" /\ tr'[x].known
      <4>1. tr[x].known /\ Tracked(tr'[x])
        BY <1>10, <2>3, SweptDelivers
      <4> QED BY <3>1, <4>1 DEF Shapes, Tracked
    <3> HIDE DEF in, how
    <3> QED BY <2>1, <3>1, <3>2, <3>3, <3>5, <3>6 DEF CuesOf, Consumed
  <2> QED BY <2>2, <2>3
<1>11. ASSUME Aside PROVE CuesOf(x)'
  BY <1>0, <1>11 DEF CuesOf, Consumed, Aside, programVars, historyVars
<1> QED BY <1>1, <1>2, <1>3, <1>4, <1>5, <1>6, <1>7, <1>8, <1>9, <1>10, <1>11, Steps

-----------------------------------------------------------------------------
(* Every cue is numbered, and none is made up.                             *)

CueInv == Shapes /\ Sweeping /\ Cues

LEMMA CueInit == ASSUME Init PROVE CueInv
<1>1. Screened(NewScreen) /\ IsLater(NewScreen, NewScreen)
  BY DEF Screened, ScreenFields, ProgramFields, NewScreen, NoPrograms, IsLater
<1>2. ~ NoTracker.known
  BY DEF NoTracker
<1>3. Shapes
  BY <1>1, <1>2 DEF Shapes, Init
<1>4. Sweeping
  <2>1. /\ DOMAIN NoSweep = {"phase", "todo", "exits", "read"} /\ NoSweep.phase = "resting"
        /\ NoSweep.todo = {} /\ NoSweep.exits = {} /\ DOMAIN NoSweep.read = {}
    BY DEF NoSweep
  <2> QED BY <2>1 DEF Sweeping, Init
<1>5. Cues
  <2>1. DOMAIN NoSweep.read = {}
    BY DEF NoSweep
  <2> QED BY <1>1, <1>2, <2>1 DEF Cues, CuesOf, Init
<1> QED BY <1>3, <1>4, <1>5 DEF CueInv

LEMMA CueStep == ASSUME CueInv, [Next]_vars PROVE CueInv'
<1>1. CASE Next
  BY <1>1, ShapesStep, SweepingStep, CuesStep DEF CueInv
<1>2. CASE UNCHANGED vars
  BY <1>2 DEF CueInv, Shapes, Sweeping, Cues, CuesOf, Consumed, vars, sessionVars, programVars, historyVars
<1> QED BY <1>1, <1>2

LEMMA CueInvariant == Spec => []CueInv
<1>1. Init => CueInv
  BY CueInit
<1>2. CueInv /\ [Next]_vars => CueInv'
  BY CueStep
<1> QED BY <1>1, <1>2, PTL DEF Spec

\* A step that commits no sweep leaves a session's number alone.
LEMMA NumbersStay ==
    ASSUME Shapes, Sweeping, Next, NEW s \in Sessions, tr[s].known, tr'[s].known
    PROVE  \/ CommitSweep /\ sweep.phase = "reading" /\ sweep'.phase = "resting" /\ SweptNow(s)
           \/ /\ tr'[s].statusSeq = tr[s].statusSeq /\ tr'[s].seenSeq >= tr[s].seenSeq
              /\ ~(sweep.phase = "reading" /\ sweep'.phase = "resting")
<1>1. tr[s].seenSeq >= tr[s].seenSeq
  BY DEF Shapes, Tracked, NoTracker
<1>2. CASE tr' = tr /\ sweep'.phase = sweep.phase
  BY <1>1, <1>2
<1>3. ASSUME NEW x \in Sessions, \/ \E sc : Moved(x, sc)
                                 \/ \E how \in {"clean", "crash"} : Exit(x, how)
                                 \/ Close(x)
                                 \/ \E name \in Nat : Create(x, name) \/ SetSessionTitle(x, name)
      PROVE  tr' = tr /\ sweep' = sweep
  BY <1>3 DEF Moved, Shows, Exit, Close, Create, SetSessionTitle, sessionVars, programVars, historyVars
<1>4. ASSUME NEW x \in Sessions, NEW t, Marked(x, t)
      PROVE  tr'[s].statusSeq = tr[s].statusSeq /\ tr'[s].seenSeq >= tr[s].seenSeq /\ sweep' = sweep
  BY <1>1, <1>4 DEF Marked, Remains, Tracks, Shapes, sessionVars, programVars, historyVars
<1>5. ASSUME NEW x \in Sessions, ReadScreen(x) \/ ReadExit(x) PROVE tr' = tr /\ sweep'.phase = sweep.phase
  BY <1>5 DEF ReadScreen, ReadExit, Sweeping
<1>6. CASE BeginSweep
  BY <1>1, <1>6, Begins
<1>7. CASE CommitSweep
  <2>1. sweep.phase = "reading" /\ sweep'.phase = "resting"
    BY <1>7, Commits DEF CommitSweep, NoSweep
  <2>2. SweptNow(s)
    BY <1>7, Commits
  <2> QED BY <1>7, <2>1, <2>2
<1>8. CASE Aside
  BY <1>2, <1>8 DEF Aside
<1> QED BY <1>1, <1>2, <1>3, <1>4, <1>5, <1>6, <1>7, <1>8, Steps

\* What a commit asked of one session, and what it answered.
LEMMA Answered ==
    ASSUME CueInv, CommitSweep, NEW s \in Sessions, SweptNow(s)
    PROVE  LET in == sweep.read[s].screen
               news == Asked(in, before[s])
               rises == tr'[s].statusSeq > tr[s].statusSeq
           IN  /\ rises => tr'[s].lastStatus # tr[s].lastStatus \/ tr'[s].lastStatus \in news
               /\ tr'[s].lastStatus \in news \cap Attention => rises
               /\ tr'[s].lastStatus # tr[s].lastStatus => rises
<1> DEFINE in == sweep.read[s].screen
           how == sweep.read[s].how
           old == tr[s]
           news == Asked(in, before[s])
<1>0. Shapes /\ Sweeping /\ Cues
  BY DEF CueInv
<1>1. PICK w, r : /\ SweptTo(w, s, in, how, r) /\ IsComputed(r, in, how, old)
                  /\ Tracked(old) /\ Screened(in) /\ tr'[s] = w.t /\ before'[s] = in
  BY <1>0, Commits
<1>2. /\ tr'[s].lastStatus = r.status
      /\ tr'[s].statusSeq = IF r.status # old.lastStatus \/ r.fresh THEN old.statusSeq + 1 ELSE old.statusSeq
  BY <1>1 DEF SweptTo
<1>3. tr'[s].statusSeq > old.statusSeq <=> r.status # old.lastStatus \/ r.fresh
  <2>1. old.statusSeq \in Nat
    BY <1>1 DEF Tracked
  <2> QED BY <1>2, <2>1
<1>4. /\ IsLater(before[s], in) /\ Screened(before[s])
      /\ old.programOccurrence = before[s].program.occurrence /\ old.notifSeen <= before[s].notifSeq
      /\ IF how = "running" THEN old.notifSeen = before[s].notifSeq ELSE exit[s] # "running"
  BY <1>0, <1>1, Commits DEF Cues, CuesOf, Consumed, SweptNow, Shapes, Tracked
<1> DEFINE noted == in.notifSeq > before[s].notifSeq
           raised == in.program.reported /\ in.program.occurrence > before[s].program.occurrence
<1>5. \A st : st \in news <=> (noted /\ st = Class[in.notif]) \/ (raised /\ st = Said(in))
  BY DEF Asked, Said
<1>6. /\ in.notifSeq \in Nat /\ in.program.occurrence \in Nat /\ old.latchSeq \in Nat
      /\ old.notifSeen \in Nat /\ before[s].notifSeq \in Nat /\ before[s].program.occurrence \in Nat
      /\ before[s].program.seq \in Nat /\ before[s].program.occurrence <= before[s].program.seq
      /\ old.latchSeq <= old.notifSeen
  BY <1>1, <1>4 DEF Screened, Tracked
<1>7. raised <=> in.program.reported /\ Advanced(in, old)
  BY <1>4 DEF Advanced
<1>8. r.fresh => r.status \in news
  <2>1. CASE r.fresh
    <3>1. /\ how = "running"
          /\ \/ in.notifSeq > old.notifSeen /\ r.status = Class[in.notif]
             \/ in.program.reported /\ Advanced(in, old) /\ r.status = Said(in)
      BY <1>1, <2>1, FreshIsNews
    <3>2. old.notifSeen = before[s].notifSeq
      BY <1>4, <3>1
    <3> QED BY <1>5, <1>7, <3>1, <3>2
  <2> QED BY <2>1
<1>9. r.status \in news \cap Attention => r.fresh
  <2>1. CASE r.status \in Attention /\ noted /\ r.status = Class[in.notif]
    <3>1. in.notifSeq > old.notifSeen
      BY <1>4, <1>6, <2>1
    <3>2. in.notifSeq > in.program.occurrence \/ Advanced(in, old)
      BY <1>4, <1>6, <2>1 DEF IsLater, Advanced
    <3> QED BY <1>1, <2>1, <3>1, <3>2, NewsAreFresh
  <2>2. CASE r.status \in Attention /\ raised /\ r.status = Said(in)
    <3>1. old.latchSeq < in.program.occurrence
      BY <1>4, <1>6, <2>2 DEF IsLater
    <3> QED BY <1>1, <1>7, <2>2, <3>1, NewsAreFresh
  <2> QED BY <1>5, <2>1, <2>2
<1> HIDE DEF in, how, old, news
<1> QED BY <1>2, <1>3, <1>8, <1>9 DEF in, how, old, news

LEMMA CuesNumbered ==
    ASSUME CueInv, [Next]_vars, NEW s \in Sessions, tr[s].known, tr'[s].known
    PROVE  LET in == sweep.read[s].screen
               news == Asked(in, before[s])
               committed == sweep.phase = "reading" /\ sweep'.phase = "resting" /\ s \in live
               rises == tr'[s].statusSeq > tr[s].statusSeq
           IN /\ rises => committed
              /\ committed =>
                   /\ rises => tr'[s].lastStatus # tr[s].lastStatus \/ tr'[s].lastStatus \in news
                   /\ tr'[s].lastStatus \in news \cap {"input", "done", "failed"} => rises
                   /\ tr'[s].lastStatus # tr[s].lastStatus => rises
<1>1. CASE CommitSweep /\ sweep.phase = "reading" /\ sweep'.phase = "resting" /\ SweptNow(s)
  BY <1>1, Answered DEF Attention, SweptNow
<1>2. CASE /\ tr'[s].statusSeq = tr[s].statusSeq /\ tr'[s].seenSeq >= tr[s].seenSeq
           /\ ~(sweep.phase = "reading" /\ sweep'.phase = "resting")
  <2>1. tr[s].statusSeq \in Nat
    BY DEF CueInv, Shapes, Tracked, NoTracker
  <2> QED BY <1>2, <2>1
<1>3. CASE UNCHANGED vars
  <2>1. tr[s].statusSeq \in Nat /\ tr' = tr /\ sweep' = sweep
    BY <1>3 DEF CueInv, Shapes, Tracked, NoTracker, vars
  <2> QED BY <2>1
<1> QED BY <1>1, <1>2, <1>3, NumbersStay DEF CueInv

(* The number of a status rises with every cue anew, be it the same one,   *)
(* and with nothing else, for whatever sessions, subscribers and           *)
(* notifications (sweepSession, computeStatus).                            *)
THEOREM CuesNumberedAlways == Spec => CuesAreNumbered
<1>1. CueInv /\ [Next]_vars =>
        (\A s \in Sessions : tr[s].known /\ tr'[s].known =>
           LET in == sweep.read[s].screen
               news == Asked(in, before[s])
               committed == sweep.phase = "reading" /\ sweep'.phase = "resting" /\ s \in live
               rises == tr'[s].statusSeq > tr[s].statusSeq
           IN /\ rises => committed
              /\ committed =>
                   /\ rises => tr'[s].lastStatus # tr[s].lastStatus \/ tr'[s].lastStatus \in news
                   /\ tr'[s].lastStatus \in news \cap {"input", "done", "failed"} => rises
                   /\ tr'[s].lastStatus # tr[s].lastStatus => rises)
  BY CuesNumbered
<1> QED BY <1>1, CueInvariant, PTL DEF Spec, CuesAreNumbered

-----------------------------------------------------------------------------
(* The buffers.                                                            *)

LEMMA NumberedIsSeq ==
    ASSUME NEW n \in Nat, NEW f, f = [i \in 1..n |-> f[i]]
    PROVE  IsSeq(f) /\ Len(f) = n
<1> DEFINE X == {f[i] : i \in 1..n}
<1>1. f \in [1..n -> X]
  OBVIOUS
<1>2. f \in Seq(X) /\ Len(f) = n
  BY <1>1
<1> QED BY <1>2, SeqsAre

LEMMA SameSeq ==
    ASSUME NEW q, IsSeq(q), NEW r, IsSeq(r), Len(q) = Len(r), \A i \in 1..Len(q) : q[i] = r[i]
    PROVE  q = r
BY DEF IsSeq

LEMMA FiniteStep ==
    ASSUME Shapes, Sweeping, Finite, Next
    PROVE  Finite'
<1> DEFINE Known == {s \in Sessions : tr[s].known}
<1>1. IsFiniteSet(live) /\ IsFiniteSet(Known)
  BY DEF Finite
<1>2. CASE live' \subseteq live /\ Known' \subseteq Known
  <2>1. IsFiniteSet(live') /\ IsFiniteSet(Known')
    BY <1>1, <1>2, FS_Subset
  <2> QED BY <2>1 DEF Finite
<1>3. ASSUME NEW x \in Sessions, NEW name, Create(x, name) PROVE Finite'
  <2>1. live' = live \cup {x} /\ Known' = Known
    BY <1>3 DEF Create
  <2> QED BY <1>1, <2>1, FS_AddElement DEF Finite
<1>4. ASSUME NEW x \in Sessions, \/ \E sc : Moved(x, sc)
                                 \/ \E how \in {"clean", "crash"} : Exit(x, how)
                                 \/ Close(x)
                                 \/ \E name \in Nat : SetSessionTitle(x, name)
      PROVE  live' \subseteq live /\ Known' \subseteq Known
  BY <1>4 DEF Moved, Shows, Exit, Close, SetSessionTitle, sessionVars, programVars, historyVars
<1>5. ASSUME NEW x \in Sessions, NEW t, Marked(x, t)
      PROVE  live' \subseteq live /\ Known' \subseteq Known
  BY <1>5 DEF Marked, Tracked, Tracks, Shapes, sessionVars, programVars, historyVars
<1>6. ASSUME NEW x \in Sessions, ReadScreen(x) \/ ReadExit(x)
      PROVE  live' \subseteq live /\ Known' \subseteq Known
  BY <1>6 DEF ReadScreen, ReadExit, sessionVars
<1>7. CASE BeginSweep
  <2>1. live' = live /\ Known' = Known \cup live
    BY <1>7, Begins DEF Shapes
  <2> QED BY <1>1, <2>1, FS_Union DEF Finite
<1>8. CASE CommitSweep
  <2>1. live' \subseteq live /\ Known' \subseteq Known
    BY <1>8, Commits
  <2> QED BY <1>2, <2>1
<1>9. CASE Aside
  BY <1>2, <1>9 DEF Aside
<1> QED BY <1>2, <1>3, <1>4, <1>5, <1>6, <1>7, <1>8, <1>9, Steps

\* The events of a sweep: one for each session that is shown anew, one for each
\* that is gone.
Reporting(e, s) ==
    \/ SweptNow(s) /\ e.id = s /\ Tells(e, s, tr'[s], tr[s], sweep.read[s].screen)
    \/ s \notin live /\ tr[s].known /\ e = Removed(s)
Rests(s) ==
    /\ tr'[s].lastStatus = tr[s].lastStatus /\ tr'[s].statusSeq = tr[s].statusSeq
    /\ tr'[s].lastSeenSeq = tr[s].lastSeenSeq /\ tr'[s].lastLabel = tr[s].lastLabel

LEMMA SweepReports ==
    ASSUME Shapes, Sweeping, Finite, CommitSweep
    PROVE  /\ IsSeq(pending') /\ queue' = queue /\ UNCHANGED <<stage, view, told>>
           /\ \A i \in DOMAIN pending' : \E s \in Sessions : pending'[i].id = s /\ Reporting(pending'[i], s)
           /\ \A i, j \in DOMAIN pending' : pending'[i].id = pending'[j].id => i = j
           /\ \A s \in Sessions : SweptNow(s) =>
                Rests(s) \/ \E i \in DOMAIN pending' : pending'[i].id = s
           /\ \A s \in Sessions : s \notin live /\ tr[s].known =>
                \E i \in DOMAIN pending' : pending'[i].id = s
<1> DEFINE swept == DOMAIN sweep.read \cap live
           One(s) == sweepSession(s, sweep.read[s].screen, sweep.read[s].how)
           result == [s \in swept |-> One(s)]
           changed == {s \in swept : result[s].events # <<>>}
           gone == {s \in Sessions \ live : tr[s].known}
           A == SetToSeq(changed)
           B == SetToSeq(gone)
           F == [i \in DOMAIN A |-> result[A[i]].events[1]]
           G == [i \in DOMAIN B |-> Removed(B[i])]
<1>1. /\ pending' = F \o G /\ queue' = queue /\ UNCHANGED <<stage, view, told>>
      /\ tr' = [s \in Sessions |-> IF s \in swept THEN result[s].t
                                   ELSE IF s \in gone THEN NoTracker ELSE tr[s]]
  BY DEF CommitSweep, subVars
<1>2. IsFiniteSet(changed) /\ IsFiniteSet(gone)
  <2>1. changed \subseteq live /\ gone \subseteq {s \in Sessions : tr[s].known}
    OBVIOUS
  <2> HIDE DEF changed, gone
  <2> QED BY <2>1, FS_Subset DEF Finite
<1>3. /\ IsSeq(A) /\ \A i \in DOMAIN A : A[i] \in changed
      /\ \A i, j \in DOMAIN A : A[i] = A[j] => i = j
      /\ \A x \in changed : \E i \in DOMAIN A : A[i] = x
  <2> HIDE DEF changed, gone
  <2> QED BY <1>2, Listed
<1>4. /\ IsSeq(B) /\ \A i \in DOMAIN B : B[i] \in gone
      /\ \A i, j \in DOMAIN B : B[i] = B[j] => i = j
      /\ \A x \in gone : \E i \in DOMAIN B : B[i] = x
  <2> HIDE DEF changed, gone
  <2> QED BY <1>2, Listed
<1>5. ASSUME NEW s \in Sessions, s \in swept
      PROVE  /\ tr'[s] = One(s).t
             /\ s \in changed => Reporting(One(s).events[1], s) /\ One(s).events[1].id = s
             /\ s \notin changed => Rests(s)
  <2>1. SweptNow(s) /\ Tracked(tr[s]) /\ Screened(sweep.read[s].screen)
    BY <1>5, Commits DEF SweptNow
  <2>2. PICK r : IsComputed(r, sweep.read[s].screen, sweep.read[s].how, tr[s])
    BY DEF IsComputed
  <2>3. PICK w : IsSwept(w, s, sweep.read[s].screen, sweep.read[s].how) /\ w = One(s)
    BY DEF IsSwept
  <2>4. tr'[s] = w.t /\ result[s] = w
    BY <1>1, <1>5, <2>3
  <2>5. \/ /\ w.events = <<>> /\ w.t.lastStatus = tr[s].lastStatus
           /\ w.t.statusSeq = tr[s].statusSeq /\ w.t.lastSeenSeq = tr[s].lastSeenSeq
           /\ w.t.lastLabel = tr[s].lastLabel
        \/ \E e : w.events = <<e>> /\ Tells(e, s, w.t, tr[s], sweep.read[s].screen)
    <3> DEFINE in == sweep.read[s].screen
               how == sweep.read[s].how
    <3>1. SweptTo(w, s, in, how, r)
      BY <2>1, <2>2, <2>3, Swept
    <3> HIDE DEF in, how
    <3>2. \/ /\ w.events = <<>> /\ w.t.lastStatus = tr[s].lastStatus
             /\ w.t.statusSeq = tr[s].statusSeq /\ w.t.lastSeenSeq = tr[s].lastSeenSeq
             /\ w.t.lastLabel = tr[s].lastLabel
          \/ \E e : w.events = <<e>> /\ Tells(e, s, w.t, tr[s], in)
      BY <3>1 DEF SweptTo
    <3> QED BY <3>2 DEF in
  <2>6. s \in changed => \E e : w.events = <<e>> /\ Tells(e, s, w.t, tr[s], sweep.read[s].screen)
    BY <2>4, <2>5
  <2>7. s \in changed => Reporting(w.events[1], s) /\ w.events[1].id = s
    BY <2>1, <2>4, <2>6 DEF Reporting, Tells
  <2>8. s \notin changed => Rests(s)
    <3>1. s \notin changed => w.events = <<>>
      BY <1>5, <2>4
    <3>2. \A e : <<e>> # <<>>
      OBVIOUS
    <3> QED BY <2>4, <2>5, <3>1, <3>2 DEF Rests
  <2> QED BY <2>3, <2>4, <2>7, <2>8
<1>6. \A i \in DOMAIN A : /\ F[i] = One(A[i]).events[1] /\ A[i] \in Sessions /\ A[i] \in swept
                          /\ A[i] \in changed
  BY <1>3 DEF Shapes
<1>7. \A i \in DOMAIN B : B[i] \in Sessions /\ G[i] = Removed(B[i]) /\ G[i].id = B[i] /\ Reporting(G[i], B[i])
  BY <1>4 DEF Removed, Reporting
<1>8. \A i \in DOMAIN A : F[i].id = A[i] /\ Reporting(F[i], A[i])
  BY <1>5, <1>6
<1>9. IsSeq(F) /\ Len(F) = Len(A) /\ IsSeq(G) /\ Len(G) = Len(B)
  <2>1. DOMAIN A = 1..Len(A) /\ Len(A) \in Nat /\ DOMAIN B = 1..Len(B) /\ Len(B) \in Nat
    BY <1>3, <1>4, SeqParts
  <2> HIDE DEF A, B, result
  <2>2. F = [i \in 1..Len(A) |-> F[i]] /\ G = [i \in 1..Len(B) |-> G[i]]
    BY <2>1
  <2> HIDE DEF F, G
  <2>3. IsSeq(F) /\ Len(F) = Len(A)
    BY <2>1, <2>2, NumberedIsSeq
  <2>4. IsSeq(G) /\ Len(G) = Len(B)
    BY <2>1, <2>2, NumberedIsSeq
  <2> QED BY <2>3, <2>4
<1>10. \A s \in changed : s \in swept /\ s \in Sessions /\ s \in live
  BY DEF Shapes
<1>11. \A s \in Sessions : SweptNow(s) <=> s \in swept
  BY DEF SweptNow
<1>12. \A s \in gone : s \notin live
  OBVIOUS
<1>13. \A s \in Sessions : s \notin live /\ tr[s].known => s \in gone
  OBVIOUS
<1> HIDE DEF A, B, F, G, changed, gone, swept, result, One
<1>14. /\ IsSeq(pending') /\ Len(pending') = Len(A) + Len(B) /\ Len(A) \in Nat /\ Len(B) \in Nat
       /\ DOMAIN pending' = 1..(Len(A) + Len(B)) /\ DOMAIN A = 1..Len(A) /\ DOMAIN B = 1..Len(B)
       /\ \A i \in 1..Len(A) : pending'[i] = F[i]
       /\ \A i \in 1..Len(B) : pending'[Len(A) + i] = G[i]
  <2>0. ASSUME NEW q, NEW r, q = F, r = G
        PROVE  /\ IsSeq(q \o r) /\ Len(q \o r) = Len(q) + Len(r)
               /\ \A i \in 1..Len(q) : (q \o r)[i] = q[i]
               /\ \A i \in 1..Len(r) : (q \o r)[Len(q) + i] = r[i]
    <3>1. IsSeq(q) /\ IsSeq(r)
      BY <1>9, <2>0
    <3> QED BY <3>1, ConcatIs
  <2>1. /\ IsSeq(F \o G) /\ Len(F \o G) = Len(F) + Len(G)
        /\ \A i \in 1..Len(F) : (F \o G)[i] = F[i]
        /\ \A i \in 1..Len(G) : (F \o G)[Len(F) + i] = G[i]
    BY <2>0
  <2>2. /\ Len(A) \in Nat /\ Len(B) \in Nat /\ DOMAIN A = 1..Len(A) /\ DOMAIN B = 1..Len(B)
        /\ DOMAIN (F \o G) = 1..Len(F \o G)
    BY <1>3, <1>4, <2>1, SeqParts
  <2>3. /\ IsSeq(F \o G) /\ Len(F \o G) = Len(A) + Len(B)
        /\ \A i \in 1..Len(A) : (F \o G)[i] = F[i]
        /\ \A i \in 1..Len(B) : (F \o G)[Len(A) + i] = G[i]
    BY <1>9, <2>1
  <2>4. DOMAIN (F \o G) = 1..(Len(A) + Len(B))
    BY <2>2, <2>3
  <2> QED BY <1>1, <2>2, <2>3, <2>4
<1>15. ASSUME NEW i \in DOMAIN pending'
       PROVE  \/ i \in DOMAIN A /\ pending'[i] = F[i]
              \/ i - Len(A) \in DOMAIN B /\ pending'[i] = G[i - Len(A)] /\ i \notin DOMAIN A
  <2>1. CASE i <= Len(A)
    BY <1>14, <2>1
  <2>2. CASE ~(i <= Len(A))
    <3>1. i - Len(A) \in 1..Len(B) /\ Len(A) + (i - Len(A)) = i
      BY <1>14, <2>2
    <3> QED BY <1>14, <2>2, <3>1
  <2> QED BY <2>1, <2>2
<1>16. \A i \in DOMAIN pending' : \E s \in Sessions : pending'[i].id = s /\ Reporting(pending'[i], s)
  BY <1>6, <1>7, <1>8, <1>15
<1>17. ASSUME NEW i \in DOMAIN pending', NEW j \in DOMAIN pending', pending'[i].id = pending'[j].id
       PROVE  i = j
  <2>1. CASE i \in DOMAIN A /\ j \in DOMAIN A /\ pending'[i] = F[i] /\ pending'[j] = F[j]
    BY <1>3, <1>8, <1>17, <2>1
  <2>2. CASE /\ i - Len(A) \in DOMAIN B /\ j - Len(A) \in DOMAIN B
             /\ pending'[i] = G[i - Len(A)] /\ pending'[j] = G[j - Len(A)]
    <3>1. i - Len(A) = j - Len(A)
      BY <1>4, <1>7, <1>17, <2>2
    <3>2. i \in Nat /\ j \in Nat /\ Len(A) \in Nat
      BY <1>14
    <3> QED BY <3>1, <3>2
  <2>3. ASSUME NEW a \in DOMAIN A, NEW b \in DOMAIN B, F[a].id = G[b].id PROVE FALSE
    BY <1>4, <1>6, <1>7, <1>8, <1>10, <1>12, <2>3
  <2> QED BY <1>15, <1>17, <2>1, <2>2, <2>3
<1>18. ASSUME NEW s \in Sessions, SweptNow(s)
       PROVE  Rests(s) \/ \E i \in DOMAIN pending' : pending'[i].id = s
  <2>1. CASE s \in changed
    <3>1. PICK i \in DOMAIN A : A[i] = s
      BY <1>3, <2>1
    <3>2. i \in DOMAIN pending' /\ pending'[i] = F[i]
      BY <1>14
    <3> QED BY <1>8, <3>1, <3>2
  <2> QED BY <1>5, <1>11, <1>18, <2>1
<1>19. ASSUME NEW s \in Sessions, s \notin live, tr[s].known
       PROVE  \E i \in DOMAIN pending' : pending'[i].id = s
  <2>1. PICK i \in DOMAIN B : B[i] = s
    BY <1>4, <1>13, <1>19
  <2>2. Len(A) + i \in DOMAIN pending' /\ pending'[Len(A) + i] = G[i]
    BY <1>14
  <2> QED BY <1>7, <2>1, <2>2
<1> QED BY <1>1, <1>14, <1>16, <1>17, <1>18, <1>19

\* Who touches the buffers.
Quiet == UNCHANGED <<pending, subVars>>
LEMMA Flows ==
    ASSUME Next
    PROVE  Quiet \/ CommitSweep \/ Broadcast
           \/ \E c \in Subs : Subscribe(c) \/ TakeSnapshot(c) \/ Receive(c) \/ Leave(c)
<1>1. ASSUME NEW s \in Sessions,
             \/ \E st \in 0 .. 4 : SetProgress(s, st)
             \/ \E text \in DOMAIN Class : Notify(s, text)
             \/ \E id \in Ids, rec \in Reported : Report(s, id, rec)
             \/ Prompt(s) \/ HardReset(s) \/ ProgramExited(s)
      PROVE  Quiet
  BY <1>1 DEF SetProgress, Notify, Report, Prompt, HardReset, ProgramExited, Change, Shows, Quiet
<1>2. ASSUME NEW s \in Sessions,
             \/ \E how \in {"clean", "crash"} : Exit(s, how)
             \/ Close(s)
             \/ \E name \in Nat : Create(s, name) \/ SetSessionTitle(s, name)
             \/ \E seq \in Nat : markSessionSeen(s, seq)
             \/ \E want \in {"input", "done"}, seq \in Nat : WithdrawStatusLatch(s, want, seq)
             \/ ReadScreen(s) \/ ReadExit(s)
      PROVE  Quiet
  BY <1>2 DEF Exit, Close, Create, SetSessionTitle, markSessionSeen, WithdrawStatusLatch, Tracks,
       ReadScreen, ReadExit, Quiet
<1>3. (\E ids \in Seq(Sessions) : SetSessionOrder(ids)) \/ BeginSweep => Quiet
  BY DEF SetSessionOrder, BeginSweep, Quiet
<1> QED BY <1>1, <1>2, <1>3 DEF Next

\* A sweep under way has nothing left to broadcast.
Idle == sweep.phase = "reading" => pending = <<>>
LEMMA IdleStep == ASSUME Shapes, Sweeping, Idle, Next PROVE Idle'
<1>1. CASE CommitSweep
  BY <1>1, Commits DEF Idle, NoSweep
<1>2. CASE BeginSweep
  BY <1>2, Begins, Flows DEF Idle, BeginSweep
<1>3. CASE sweep'.phase = sweep.phase /\ (pending' = pending \/ pending # <<>>)
  BY <1>3 DEF Idle, Sweeping
<1>4. ASSUME NEW s \in Sessions, ReadScreen(s) \/ ReadExit(s) PROVE sweep'.phase = sweep.phase
  BY <1>4 DEF ReadScreen, ReadExit, Sweeping
<1>5. ASSUME NEW s \in Sessions, \/ \E sc : Moved(s, sc)
                                 \/ \E how \in {"clean", "crash"} : Exit(s, how)
                                 \/ Close(s)
                                 \/ \E name \in Nat : Create(s, name) \/ SetSessionTitle(s, name)
                                 \/ \E t : Marked(s, t)
      PROVE  sweep' = sweep
  BY <1>5 DEF Moved, Shows, Exit, Close, Create, SetSessionTitle, Marked, Tracks
<1>6. Aside => sweep' = sweep
  BY DEF Aside
<1>7. CommitSweep \/ pending' = pending \/ pending # <<>>
  BY Flows DEF Quiet, Broadcast, Subscribe, TakeSnapshot, Receive, Leave
<1> QED BY <1>1, <1>2, <1>3, <1>4, <1>5, <1>6, <1>7, Steps

LEMMA EventsStep ==
    ASSUME Shapes, Sweeping, Finite, Events, Next
    PROVE  Events'
<1>1. Idle'
  BY IdleStep DEF Idle, Events
<1>2. CASE Quiet
  BY <1>1, <1>2 DEF Idle, Events, Quiet, subVars
<1>3. CASE CommitSweep
  <2>1. \A i \in DOMAIN pending' : pending'[i].id \in Sessions
    BY <1>3, SweepReports
  <2> QED BY <1>1, <1>3, <2>1, SweepReports DEF Idle, Events
<1>4. CASE Broadcast
  <2>1. pending # <<>> /\ pending' = Tail(pending) /\ UNCHANGED view
    BY <1>4 DEF Broadcast
  <2>2. /\ IsSeq(pending') /\ Len(pending) >= 1 /\ Len(pending') = Len(pending) - 1
        /\ Head(pending) = pending[1] /\ \A i \in 1..(Len(pending) - 1) : pending'[i] = pending[i + 1]
    BY <2>1, TailIs DEF Events
  <2>3. DOMAIN pending = 1..Len(pending) /\ DOMAIN pending' = 1..Len(pending') /\ Len(pending) \in Nat
    BY <2>2, SeqParts DEF Events
  <2>4. /\ \A i \in DOMAIN pending' : i + 1 \in DOMAIN pending /\ pending'[i] = pending[i + 1]
        /\ 1 \in DOMAIN pending
    BY <2>2, <2>3
  <2>5. /\ \A i \in DOMAIN pending' : pending'[i].id \in Sessions
        /\ \A i, j \in DOMAIN pending' : pending'[i].id = pending'[j].id => i = j
    BY <2>3, <2>4 DEF Events
  <2>6. DOMAIN queue' = Subs /\ DOMAIN stage' = Subs
    BY <1>4 DEF Broadcast
  <2>7. ASSUME NEW c \in Subs
        PROVE  /\ IsSeq(queue'[c]) /\ \A i \in DOMAIN queue'[c] : queue'[c][i].id \in Sessions
               /\ Len(queue'[c]) <= QueueCap
               /\ stage'[c] = "away" => queue'[c] = <<>>
    <3>1. \/ queue'[c] = queue[c] /\ (stage'[c] = stage[c] \/ stage'[c] = "dropped")
          \/ /\ queue'[c] = Append(queue[c], Head(pending)) /\ stage'[c] # "away"
             /\ Len(queue[c]) < QueueCap
      BY <1>4 DEF Broadcast, Listening
    <3>2. CASE queue'[c] = queue[c] /\ (stage'[c] = stage[c] \/ stage'[c] = "dropped")
      BY <3>2 DEF Events
    <3>3. CASE /\ queue'[c] = Append(queue[c], Head(pending)) /\ stage'[c] # "away"
               /\ Len(queue[c]) < QueueCap
      <4>1. /\ IsSeq(queue'[c]) /\ Len(queue'[c]) = Len(queue[c]) + 1
            /\ queue'[c][Len(queue[c]) + 1] = Head(pending)
            /\ \A i \in 1..Len(queue[c]) : queue'[c][i] = queue[c][i]
        BY <3>3, AppendIs DEF Events
      <4>2. DOMAIN queue[c] = 1..Len(queue[c]) /\ DOMAIN queue'[c] = 1..Len(queue'[c]) /\ Len(queue[c]) \in Nat
        BY <4>1, SeqParts DEF Events
      <4>3. Head(pending).id \in Sessions
        BY <2>2, <2>4 DEF Events
      <4>4. \A i \in DOMAIN queue'[c] : i \in DOMAIN queue[c] \/ i = Len(queue[c]) + 1
        BY <4>1, <4>2
      <4> QED BY <3>3, <4>1, <4>2, <4>3, <4>4, StreamAssumption DEF Events
    <3> QED BY <3>1, <3>2, <3>3
  <2> QED BY <1>1, <2>1, <2>2, <2>5, <2>6, <2>7 DEF Idle, Events
<1>5. ASSUME NEW c \in Subs, Subscribe(c) \/ TakeSnapshot(c) \/ Leave(c) PROVE Events'
  <2>1. IsSeq(<<>>) /\ DOMAIN <<>> = {} /\ Len(<<>>) <= QueueCap
    BY StreamAssumption DEF IsSeq
  <2>2. /\ pending' = pending /\ DOMAIN queue' = Subs /\ DOMAIN stage' = Subs /\ DOMAIN view' = Subs
        /\ queue'[c] = queue[c] \/ queue'[c] = <<>>
        /\ stage'[c] = "away" => queue'[c] = <<>>
        /\ \A x \in Subs : x # c => queue'[x] = queue[x] /\ stage'[x] = stage[x]
    BY <1>5 DEF Events, Subscribe, TakeSnapshot, Leave
  <2>3. \A x \in Subs : queue'[x] = queue[x] \/ queue'[x] = <<>>
    BY <2>2
  <2>4. \A x \in Subs : /\ IsSeq(queue'[x]) /\ Len(queue'[x]) <= QueueCap
                         /\ \A i \in DOMAIN queue'[x] : queue'[x][i].id \in Sessions
    BY <2>1, <2>3 DEF Events
  <2>5. \A x \in Subs : stage'[x] = "away" => queue'[x] = <<>>
    BY <2>2 DEF Events
  <2> QED BY <1>1, <2>2, <2>4, <2>5 DEF Idle, Events
<1>6. ASSUME NEW c \in Subs, Receive(c) PROVE Events'
  <2>1. /\ pending' = pending /\ stage' = stage /\ queue[c] # <<>> /\ stage[c] # "away"
        /\ queue' = [queue EXCEPT ![c] = Tail(@)] /\ DOMAIN view' = Subs
    BY <1>6 DEF Receive, Events
  <2>2. /\ queue'[c] = Tail(queue[c]) /\ \A x \in Subs : x # c => queue'[x] = queue[x]
        /\ DOMAIN queue' = Subs
    BY <2>1 DEF Events
  <2>3. /\ IsSeq(Tail(queue[c])) /\ Len(queue[c]) >= 1 /\ Len(Tail(queue[c])) = Len(queue[c]) - 1
        /\ \A i \in 1..(Len(queue[c]) - 1) : Tail(queue[c])[i] = queue[c][i + 1]
    BY <2>1, TailIs DEF Events
  <2>4. /\ DOMAIN queue[c] = 1..Len(queue[c]) /\ Len(queue[c]) \in Nat
        /\ DOMAIN Tail(queue[c]) = 1..Len(Tail(queue[c]))
    BY <2>3, SeqParts DEF Events
  <2>5. \A i \in DOMAIN Tail(queue[c]) : i + 1 \in DOMAIN queue[c] /\ Tail(queue[c])[i] = queue[c][i + 1]
    BY <2>3, <2>4
  <2>6. \A i \in DOMAIN Tail(queue[c]) : Tail(queue[c])[i].id \in Sessions
    BY <2>5 DEF Events
  <2>7. \A x \in Subs : /\ IsSeq(queue'[x]) /\ Len(queue'[x]) <= QueueCap
                         /\ \A i \in DOMAIN queue'[x] : queue'[x][i].id \in Sessions
    <3>1. Len(queue[c]) <= QueueCap
      BY DEF Events
    <3>2. Len(Tail(queue[c])) <= QueueCap
      BY <2>3, <2>4, <3>1, StreamAssumption
    <3> QED BY <2>2, <2>3, <2>6, <3>2 DEF Events
  <2> QED BY <1>1, <2>1, <2>2, <2>7 DEF Idle, Events
<1> QED BY <1>2, <1>3, <1>4, <1>5, <1>6, Flows

-----------------------------------------------------------------------------
(* What is still to come to a subscriber, from its buffer and the sweep.   *)

LEMMA Joined ==
    ASSUME NEW q, IsSeq(q), NEW p, IsSeq(p)
    PROVE  /\ IsSeq(q \o p) /\ Len(q) \in Nat /\ Len(p) \in Nat /\ Len(q \o p) = Len(q) + Len(p)
           /\ DOMAIN (q \o p) = 1..(Len(q) + Len(p)) /\ DOMAIN q = 1..Len(q) /\ DOMAIN p = 1..Len(p)
           /\ \A i \in 1..Len(q) : (q \o p)[i] = q[i]
           /\ \A i \in 1..Len(p) : (q \o p)[Len(q) + i] = p[i]
           /\ \A i \in 1..(Len(q) + Len(p)) : ~(i <= Len(q)) =>
                i - Len(q) \in 1..Len(p) /\ (q \o p)[i] = p[i - Len(q)]
<1>1. /\ IsSeq(q \o p) /\ Len(q \o p) = Len(q) + Len(p)
      /\ \A i \in 1..Len(q) : (q \o p)[i] = q[i]
      /\ \A i \in 1..Len(p) : (q \o p)[Len(q) + i] = p[i]
  BY ConcatIs
<1>2. /\ Len(q) \in Nat /\ Len(p) \in Nat /\ DOMAIN q = 1..Len(q) /\ DOMAIN p = 1..Len(p)
      /\ DOMAIN (q \o p) = 1..Len(q \o p)
  BY <1>1, SeqParts
<1>3. ASSUME NEW i \in 1..(Len(q) + Len(p)), ~(i <= Len(q))
      PROVE  i - Len(q) \in 1..Len(p) /\ (q \o p)[i] = p[i - Len(q)]
  <2>1. i - Len(q) \in 1..Len(p) /\ Len(q) + (i - Len(q)) = i
    BY <1>2, <1>3
  <2> QED BY <1>1, <2>1
<1>4. DOMAIN (q \o p) = 1..(Len(q) + Len(p))
  BY <1>1, <1>2
<1> QED BY <1>1, <1>2, <1>3, <1>4

LEMMA EmptyIs == IsSeq(<<>>) /\ Len(<<>>) = 0 /\ DOMAIN <<>> = {}
BY DEF IsSeq

LEMMA JoinedEmpty == ASSUME NEW p, IsSeq(p) PROVE <<>> \o p = p /\ p \o <<>> = p
<1>1. /\ IsSeq(<<>> \o p) /\ Len(<<>> \o p) = Len(p) /\ Len(p) \in Nat
      /\ \A i \in 1..Len(p) : (<<>> \o p)[i] = p[i]
  <2>1. /\ IsSeq(<<>> \o p) /\ Len(<<>> \o p) = Len(<<>>) + Len(p) /\ Len(p) \in Nat
        /\ \A i \in 1..Len(p) : (<<>> \o p)[Len(<<>>) + i] = p[i]
    BY EmptyIs, Joined
  <2> QED BY <2>1, EmptyIs
<1>2. /\ IsSeq(p \o <<>>) /\ Len(p \o <<>>) = Len(p) /\ \A i \in 1..Len(p) : (p \o <<>>)[i] = p[i]
  <2>1. /\ IsSeq(p \o <<>>) /\ Len(p \o <<>>) = Len(p) + Len(<<>>) /\ Len(p) \in Nat
        /\ \A i \in 1..Len(p) : (p \o <<>>)[i] = p[i]
    BY EmptyIs, Joined
  <2> QED BY <2>1, EmptyIs
<1>3. <<>> \o p = p
  BY <1>1, SameSeq
<1>4. p \o <<>> = p
  <2>1. Len(p) = Len(p \o <<>>) /\ \A i \in 1..Len(p) : p[i] = (p \o <<>>)[i]
    BY <1>2
  <2> QED BY <1>2, <2>1, SameSeq
<1> QED BY <1>3, <1>4

LEMMA PassOn ==
    ASSUME NEW q, IsSeq(q), NEW p, IsSeq(p), p # <<>>
    PROVE  Append(q, Head(p)) \o Tail(p) = q \o p
<1>1. /\ IsSeq(Tail(p)) /\ Len(p) >= 1 /\ Len(Tail(p)) = Len(p) - 1 /\ Head(p) = p[1]
      /\ \A i \in 1..(Len(p) - 1) : Tail(p)[i] = p[i + 1]
  BY TailIs
<1> DEFINE a == Append(q, Head(p))
<1>2. /\ IsSeq(a) /\ Len(a) = Len(q) + 1 /\ a[Len(q) + 1] = p[1]
      /\ \A i \in 1..Len(q) : a[i] = q[i]
  BY <1>1, AppendIs
<1> DEFINE b == Tail(p)
<1>3. /\ IsSeq(b) /\ Len(b) = Len(p) - 1 /\ \A i \in 1..(Len(p) - 1) : b[i] = p[i + 1]
  BY <1>1
<1> HIDE DEF a, b
<1>4. /\ IsSeq(a \o b) /\ Len(a \o b) = Len(a) + Len(b)
      /\ \A i \in 1..Len(a) : (a \o b)[i] = a[i]
      /\ \A i \in 1..(Len(a) + Len(b)) : ~(i <= Len(a)) =>
           i - Len(a) \in 1..Len(b) /\ (a \o b)[i] = b[i - Len(a)]
  <2>1. IsSeq(a) /\ IsSeq(b)
    BY <1>2, <1>3
  <2> QED BY <2>1, Joined
<1>5. /\ IsSeq(q \o p) /\ Len(q \o p) = Len(q) + Len(p) /\ Len(q) \in Nat /\ Len(p) \in Nat
      /\ \A i \in 1..Len(q) : (q \o p)[i] = q[i]
      /\ \A i \in 1..Len(p) : (q \o p)[Len(q) + i] = p[i]
  BY Joined
<1>6. Len(a \o b) = Len(q \o p)
  BY <1>1, <1>2, <1>3, <1>4, <1>5
<1>7. ASSUME NEW i \in 1..Len(a \o b) PROVE (a \o b)[i] = (q \o p)[i]
  <2>1. CASE i <= Len(q)
    BY <1>2, <1>4, <1>5, <1>7, <2>1
  <2>2. CASE i = Len(q) + 1
    <3>1. (a \o b)[i] = p[1]
      BY <1>2, <1>4, <1>5, <2>2
    <3>2. (q \o p)[Len(q) + 1] = p[1]
      BY <1>1, <1>5
    <3> QED BY <2>2, <3>1, <3>2
  <2>3. CASE i > Len(q) + 1
    <3>1. /\ i - Len(a) \in 1..Len(b) /\ (a \o b)[i] = b[i - Len(a)]
      BY <1>2, <1>3, <1>4, <1>5, <2>3
    <3>2. b[i - Len(a)] = p[(i - Len(a)) + 1] /\ (i - Len(a)) + 1 = i - Len(q)
      BY <1>2, <1>3, <1>5, <3>1
    <3>3. i - Len(q) \in 1..Len(p) /\ Len(q) + (i - Len(q)) = i
      BY <1>2, <1>3, <1>5, <3>1
    <3>4. (q \o p)[i] = p[i - Len(q)]
      BY <1>5, <3>3
    <3> QED BY <3>1, <3>2, <3>4
  <2> QED BY <1>2, <1>3, <1>4, <1>5, <1>7, <2>1, <2>2, <2>3
<1>8. a \o b = q \o p
  BY <1>4, <1>5, <1>6, <1>7, SameSeq
<1> QED BY <1>8 DEF a, b

LEMMA TakeOff ==
    ASSUME NEW q, IsSeq(q), q # <<>>, NEW p, IsSeq(p)
    PROVE  q \o p # <<>> /\ Tail(q) \o p = Tail(q \o p) /\ Head(q \o p) = Head(q)
<1> DEFINE b == Tail(q)
           j == q \o p
           t == Tail(j)
<1>1. /\ IsSeq(b) /\ Len(q) >= 1 /\ Len(b) = Len(q) - 1 /\ Head(q) = q[1]
      /\ \A i \in 1..(Len(q) - 1) : b[i] = q[i + 1]
  BY TailIs
<1>2. /\ IsSeq(j) /\ Len(j) = Len(q) + Len(p) /\ Len(q) \in Nat /\ Len(p) \in Nat
      /\ \A i \in 1..Len(q) : j[i] = q[i]
      /\ \A i \in 1..Len(p) : j[Len(q) + i] = p[i]
  BY Joined
<1>3. j # <<>>
  BY <1>1, <1>2, SeqParts
<1>4. /\ IsSeq(t) /\ Len(t) = Len(j) - 1 /\ Head(j) = j[1]
      /\ \A i \in 1..(Len(j) - 1) : t[i] = j[i + 1]
  BY <1>2, <1>3, TailIs
<1> HIDE DEF b, j, t
<1>5. /\ IsSeq(b \o p) /\ Len(b \o p) = Len(b) + Len(p)
      /\ \A i \in 1..Len(b) : (b \o p)[i] = b[i]
      /\ \A i \in 1..(Len(b) + Len(p)) : ~(i <= Len(b)) =>
           i - Len(b) \in 1..Len(p) /\ (b \o p)[i] = p[i - Len(b)]
  <2>1. IsSeq(b)
    BY <1>1
  <2> QED BY <2>1, Joined
<1>6. Len(b \o p) = Len(t)
  BY <1>1, <1>2, <1>4, <1>5
<1>7. ASSUME NEW i \in 1..Len(b \o p) PROVE (b \o p)[i] = t[i]
  <2>0. t[i] = j[i + 1]
    BY <1>1, <1>2, <1>4, <1>5
  <2>1. CASE i <= Len(b)
    <3>1. (b \o p)[i] = q[i + 1] /\ i + 1 \in 1..Len(q)
      BY <1>1, <1>2, <1>5, <2>1
    <3> QED BY <1>2, <2>0, <3>1
  <2>2. CASE ~(i <= Len(b))
    <3>1. i - Len(b) \in 1..Len(p) /\ (b \o p)[i] = p[i - Len(b)]
      BY <1>5, <2>2
    <3>2. Len(q) + (i - Len(b)) = i + 1
      BY <1>1, <1>2
    <3> QED BY <1>2, <2>0, <3>1, <3>2
  <2> QED BY <2>1, <2>2
<1>8. b \o p = t
  BY <1>4, <1>5, <1>6, <1>7, SameSeq
<1>9. j[1] = q[1]
  BY <1>1, <1>2
<1> QED BY <1>1, <1>3, <1>4, <1>8, <1>9 DEF b, j, t

\* A sequence is thinner than another when it is what is left of it.
Thinner(r, q) ==
    \E h \in [DOMAIN r -> DOMAIN q] :
        /\ \A i \in DOMAIN r : r[i] = q[h[i]]
        /\ \A i, j \in DOMAIN r : i < j => h[i] < h[j]

LEMMA ThinnerSelf == ASSUME NEW q, IsSeq(q) PROVE Thinner(q, q)
<1> DEFINE h == [i \in DOMAIN q |-> i]
<1>1. h \in [DOMAIN q -> DOMAIN q] /\ \A i \in DOMAIN q : h[i] = i
  OBVIOUS
<1> HIDE DEF h
<1> QED BY <1>1 DEF Thinner

LEMMA ThinnerTail == ASSUME NEW q, IsSeq(q), q # <<>> PROVE Thinner(Tail(q), q)
<1> DEFINE h == [i \in DOMAIN Tail(q) |-> i + 1]
<1>1. /\ IsSeq(Tail(q)) /\ Len(Tail(q)) = Len(q) - 1
      /\ \A i \in 1..(Len(q) - 1) : Tail(q)[i] = q[i + 1]
  BY TailIs
<1>2. DOMAIN Tail(q) = 1..(Len(q) - 1) /\ DOMAIN q = 1..Len(q) /\ Len(q) \in Nat
  BY <1>1, SeqParts
<1>3. \A i \in DOMAIN Tail(q) : i + 1 \in DOMAIN q /\ i \in Nat
  BY <1>2
<1>4. h \in [DOMAIN Tail(q) -> DOMAIN q] /\ \A i \in DOMAIN Tail(q) : h[i] = i + 1
  BY <1>3
<1> HIDE DEF h
<1>5. \A i, j \in DOMAIN Tail(q) : i < j => h[i] < h[j]
  BY <1>3, <1>4
<1>6. \A i \in DOMAIN Tail(q) : Tail(q)[i] = q[h[i]]
  BY <1>1, <1>2, <1>4
<1> QED BY <1>4, <1>5, <1>6 DEF Thinner

LEMMA ThinnerSecond == ASSUME NEW q, IsSeq(q), NEW p, IsSeq(p) PROVE Thinner(p, q \o p)
<1> DEFINE h == [i \in DOMAIN p |-> Len(q) + i]
<1>1. /\ Len(q) \in Nat /\ Len(p) \in Nat /\ DOMAIN (q \o p) = 1..(Len(q) + Len(p))
      /\ DOMAIN p = 1..Len(p) /\ \A i \in 1..Len(p) : (q \o p)[Len(q) + i] = p[i]
  BY Joined
<1>2. h \in [DOMAIN p -> DOMAIN (q \o p)] /\ \A i \in DOMAIN p : h[i] = Len(q) + i
  BY <1>1
<1> HIDE DEF h
<1>3. \A i, j \in DOMAIN p : i < j => h[i] < h[j]
  BY <1>1, <1>2
<1>4. \A i \in DOMAIN p : p[i] = (q \o p)[h[i]]
  BY <1>1, <1>2
<1> QED BY <1>2, <1>3, <1>4 DEF Thinner

LEMMA ThinnerSkip ==
    ASSUME NEW q, IsSeq(q), NEW p, IsSeq(p), p # <<>>
    PROVE  Thinner(q \o Tail(p), q \o p)
<1> DEFINE b == Tail(p)
           h == [i \in DOMAIN (q \o b) |-> IF i <= Len(q) THEN i ELSE i + 1]
<1>1. /\ IsSeq(b) /\ Len(p) >= 1 /\ Len(b) = Len(p) - 1
      /\ \A i \in 1..(Len(p) - 1) : b[i] = p[i + 1]
  BY TailIs
<1> HIDE DEF b
<1>2. /\ DOMAIN (q \o b) = 1..(Len(q) + Len(b))
      /\ \A i \in 1..Len(q) : (q \o b)[i] = q[i]
      /\ \A i \in 1..(Len(q) + Len(b)) : ~(i <= Len(q)) =>
           i - Len(q) \in 1..Len(b) /\ (q \o b)[i] = b[i - Len(q)]
  <2>1. IsSeq(b)
    BY <1>1
  <2> QED BY <2>1, Joined
<1>3. /\ Len(q) \in Nat /\ Len(p) \in Nat /\ DOMAIN (q \o p) = 1..(Len(q) + Len(p))
      /\ \A i \in 1..Len(q) : (q \o p)[i] = q[i]
      /\ \A i \in 1..Len(p) : (q \o p)[Len(q) + i] = p[i]
  BY Joined
<1>4. \A i \in DOMAIN (q \o b) : /\ h[i] = IF i <= Len(q) THEN i ELSE i + 1
                                 /\ h[i] \in DOMAIN (q \o p) /\ i \in Nat
  BY <1>1, <1>2, <1>3
<1>5. h \in [DOMAIN (q \o b) -> DOMAIN (q \o p)]
  BY <1>4
<1> HIDE DEF h
<1>6. \A i, j \in DOMAIN (q \o b) : i < j => h[i] < h[j]
  BY <1>3, <1>4
<1>7. ASSUME NEW i \in DOMAIN (q \o b) PROVE (q \o b)[i] = (q \o p)[h[i]]
  <2>1. CASE i <= Len(q)
    BY <1>2, <1>3, <1>4, <1>7, <2>1
  <2>2. CASE ~(i <= Len(q))
    <3>1. i - Len(q) \in 1..Len(b) /\ (q \o b)[i] = b[i - Len(q)]
      BY <1>2, <2>2
    <3>2. b[i - Len(q)] = p[(i - Len(q)) + 1] /\ (i - Len(q)) + 1 \in 1..Len(p)
      BY <1>1, <1>3, <3>1
    <3>3. Len(q) + ((i - Len(q)) + 1) = h[i]
      BY <1>3, <1>4, <2>2
    <3> QED BY <1>3, <3>1, <3>2, <3>3
  <2> QED BY <2>1, <2>2
<1> QED BY <1>5, <1>6, <1>7 DEF Thinner, b

LEMMA ComingIs ==
    ASSUME Events, NEW c \in Subs
    PROVE  /\ IsSeq(Coming(c)) /\ DOMAIN Coming(c) = 1..Len(Coming(c)) /\ Len(Coming(c)) \in Nat
           /\ \A i \in DOMAIN Coming(c) : Coming(c)[i].id \in Sessions
<1>1. IsSeq(queue[c]) /\ IsSeq(pending)
  BY DEF Events
<1>2. /\ IsSeq(Coming(c)) /\ Len(queue[c]) \in Nat /\ Len(pending) \in Nat
      /\ DOMAIN Coming(c) = 1..(Len(queue[c]) + Len(pending))
      /\ DOMAIN queue[c] = 1..Len(queue[c]) /\ DOMAIN pending = 1..Len(pending)
      /\ \A i \in 1..Len(queue[c]) : Coming(c)[i] = queue[c][i]
      /\ \A i \in 1..(Len(queue[c]) + Len(pending)) : ~(i <= Len(queue[c])) =>
           i - Len(queue[c]) \in 1..Len(pending) /\ Coming(c)[i] = pending[i - Len(queue[c])]
  <2> DEFINE q == queue[c]
             p == pending
  <2>1. IsSeq(q) /\ IsSeq(p) /\ Coming(c) = q \o p
    BY <1>1 DEF Coming
  <2> HIDE DEF q, p
  <2>2. /\ IsSeq(q \o p) /\ Len(q) \in Nat /\ Len(p) \in Nat
        /\ DOMAIN (q \o p) = 1..(Len(q) + Len(p)) /\ DOMAIN q = 1..Len(q) /\ DOMAIN p = 1..Len(p)
        /\ \A i \in 1..Len(q) : (q \o p)[i] = q[i]
        /\ \A i \in 1..(Len(q) + Len(p)) : ~(i <= Len(q)) =>
             i - Len(q) \in 1..Len(p) /\ (q \o p)[i] = p[i - Len(q)]
    BY <2>1, Joined
  <2> QED BY <2>1, <2>2 DEF q, p
<1>3. DOMAIN Coming(c) = 1..Len(Coming(c)) /\ Len(Coming(c)) \in Nat
  BY <1>2, SeqParts
<1>4. ASSUME NEW i \in DOMAIN Coming(c) PROVE Coming(c)[i].id \in Sessions
  <2>1. CASE i <= Len(queue[c])
    <3>1. i \in DOMAIN queue[c] /\ Coming(c)[i] = queue[c][i]
      BY <1>2, <2>1
    <3> QED BY <3>1 DEF Events
  <2>2. CASE ~(i <= Len(queue[c]))
    <3>1. i - Len(queue[c]) \in DOMAIN pending /\ Coming(c)[i] = pending[i - Len(queue[c])]
      BY <1>2, <2>2
    <3> QED BY <3>1 DEF Events
  <2> QED BY <2>1, <2>2
<1> QED BY <1>2, <1>3, <1>4

\* What a step other than a commit does to one subscriber.
Untouched(c) ==
    /\ Coming(c)' = Coming(c) /\ told'[c] = told[c] /\ view'[c] = view[c]
    /\ stage'[c] = stage[c] \/ (stage[c] = "away" /\ stage'[c] = "subscribed" /\ queue[c] = <<>>)
Snapshots(c) == TakeSnapshot(c) /\ Coming(c)' = Coming(c) /\ told'[c] = told[c] /\ view'[c] = snapshot
Takes(c) ==
    /\ Coming(c) # <<>> /\ Coming(c)' = Tail(Coming(c)) /\ stage'[c] = stage[c]
    /\ LET e == Head(Coming(c))
       IN  /\ view'[c] = Applied(view[c], e)
           /\ told'[c] = [told[c] EXCEPT ![e.id] = IF e.notif = 0 THEN @ ELSE e.notif]
Loses(c) == ~ Listening(c)' /\ Thinner(Coming(c)', Coming(c)) /\ told'[c] = told[c]

LEMMA ComingFlows ==
    ASSUME Events, Next, ~ CommitSweep, DOMAIN told = Subs, NEW c \in Subs
    PROVE  Untouched(c) \/ Snapshots(c) \/ Takes(c) \/ Loses(c)
<1>0. IsSeq(queue[c]) /\ IsSeq(pending)
  BY DEF Events
<1>a. Coming(c) = queue[c] \o pending /\ Coming(c)' = queue'[c] \o pending'
  BY DEF Coming
<1>1. CASE Quiet
  BY <1>1 DEF Quiet, subVars, Untouched, Coming
<1>2. CASE Broadcast
  <2>1. pending # <<>> /\ pending' = Tail(pending) /\ view' = view /\ told' = told
    BY <1>2 DEF Broadcast
  <2>2. CASE Listening(c) /\ Len(queue[c]) < QueueCap
    <3>1. Len(queue[c]) # QueueCap
      BY <1>0, <2>2, StreamAssumption DEF IsSeq
    <3>2. queue'[c] = Append(queue[c], Head(pending)) /\ stage'[c] = stage[c]
      BY <1>2, <2>2, <3>1 DEF Broadcast
    <3>3. Coming(c)' = Coming(c)
      BY <1>0, <1>a, <2>1, <3>2, PassOn
    <3> QED BY <2>1, <3>2, <3>3 DEF Untouched
  <2>3. CASE ~(Listening(c) /\ Len(queue[c]) < QueueCap)
    <3>1. queue'[c] = queue[c]
      BY <1>2, <2>3 DEF Broadcast
    <3>2. Thinner(Coming(c)', Coming(c))
      BY <1>0, <1>a, <2>1, <3>1, ThinnerSkip
    <3>3. CASE ~ Listening(c) \/ Len(queue[c]) = QueueCap
      <4>1. stage'[c] = "dropped" \/ (stage'[c] = stage[c] /\ ~ Listening(c))
        BY <1>2, <3>3 DEF Broadcast
      <4> QED BY <2>1, <3>2, <4>1 DEF Loses, Listening
    <3>4. CASE Listening(c) /\ Len(queue[c]) # QueueCap
      <4>1. Len(queue[c]) <= QueueCap /\ Len(queue[c]) \in Nat
        BY <1>0 DEF Events, IsSeq
      <4> QED BY <2>3, <3>4, <4>1, StreamAssumption
    <3> QED BY <3>3, <3>4
  <2> QED BY <2>2, <2>3
<1>3. ASSUME NEW x \in Subs, Subscribe(x) PROVE Untouched(c)
  <2>1. /\ pending' = pending /\ queue' = queue /\ view' = view /\ told' = told
        /\ stage[x] = "away" /\ stage' = [stage EXCEPT ![x] = "subscribed"]
    BY <1>3 DEF Subscribe
  <2>2. stage'[c] = stage[c] \/ (stage[c] = "away" /\ stage'[c] = "subscribed" /\ queue[c] = <<>>)
    BY <2>1 DEF Events
  <2> QED BY <1>a, <2>1, <2>2 DEF Untouched
<1>4. ASSUME NEW x \in Subs, TakeSnapshot(x) PROVE Untouched(c) \/ Snapshots(c)
  <2>1. /\ pending' = pending /\ queue' = queue /\ told' = told
        /\ stage' = [stage EXCEPT ![x] = "streaming"] /\ view' = [view EXCEPT ![x] = snapshot]
    BY <1>4 DEF TakeSnapshot
  <2>2. Coming(c)' = Coming(c)
    BY <1>a, <2>1
  <2>3. CASE x = c
    BY <1>4, <2>1, <2>2, <2>3 DEF Snapshots, Events
  <2>4. CASE x # c
    BY <2>1, <2>2, <2>4 DEF Untouched, Events
  <2> QED BY <2>3, <2>4
<1>5. ASSUME NEW x \in Subs, Receive(x) PROVE Untouched(c) \/ Takes(c)
  <2> DEFINE e == Head(queue[x])
  <2>1. /\ pending' = pending /\ queue' = [queue EXCEPT ![x] = Tail(@)] /\ stage' = stage
        /\ queue[x] # <<>> /\ view' = [view EXCEPT ![x] = Applied(@, e)]
        /\ told' = [told EXCEPT ![x][e.id] = IF e.notif = 0 THEN @ ELSE e.notif]
    BY <1>5 DEF Receive
  <2> HIDE DEF e
  <2>2. CASE x = c
    <3>1. /\ Coming(c) # <<>> /\ Coming(c)' = Tail(Coming(c)) /\ Head(Coming(c)) = e
      BY <1>0, <1>a, <2>1, <2>2, TakeOff DEF Events, e
    <3>2. /\ view'[c] = Applied(view[c], e)
          /\ told'[c] = [told[c] EXCEPT ![e.id] = IF e.notif = 0 THEN @ ELSE e.notif]
      BY <2>1, <2>2 DEF Events
    <3> QED BY <2>1, <3>1, <3>2 DEF Takes
  <2>3. CASE x # c
    <3>1. queue'[c] = queue[c] /\ view'[c] = view[c] /\ told'[c] = told[c]
      BY <2>1, <2>3 DEF Events
    <3> QED BY <1>a, <2>1, <3>1 DEF Untouched
  <2> QED BY <2>2, <2>3
<1>6. ASSUME NEW x \in Subs, Leave(x) PROVE Untouched(c) \/ Loses(c)
  <2>1. /\ pending' = pending /\ queue' = [queue EXCEPT ![x] = <<>>] /\ told' = told
        /\ stage' = [stage EXCEPT ![x] = "away"]
        /\ view' = [view EXCEPT ![x] = [s \in {} |-> NewTracker]]
    BY <1>6 DEF Leave
  <2>2. CASE x = c
    <3>1. queue'[c] = <<>> /\ stage'[c] = "away"
      BY <2>1, <2>2 DEF Events
    <3>2. Coming(c)' = pending
      BY <1>0, <1>a, <2>1, <3>1, JoinedEmpty
    <3>3. Thinner(Coming(c)', Coming(c))
      BY <1>0, <1>a, <3>2, ThinnerSecond
    <3> QED BY <2>1, <3>1, <3>3 DEF Loses, Listening
  <2>3. CASE x # c
    <3>1. queue'[c] = queue[c] /\ view'[c] = view[c] /\ stage'[c] = stage[c]
      BY <2>1, <2>3 DEF Events
    <3> QED BY <1>a, <2>1, <3>1 DEF Untouched
  <2> QED BY <2>2, <2>3
<1> QED BY <1>1, <1>2, <1>3, <1>4, <1>5, <1>6, Flows

-----------------------------------------------------------------------------
(* Nobody is told twice.                                                   *)

LEMMA CountsStay ==
    ASSUME Shapes, Sweeping, Next, NEW s \in Sessions
    PROVE  /\ Delivered(s) \in Nat /\ Delivered(s)' \in Nat
           /\ Counts(s)' => Counts(s) /\ Delivered(s)' >= Delivered(s)
<1>1. Delivered(s) \in Nat
  BY DEF Delivered, Shapes, Tracked, NoTracker
<1>2. Shapes'
  BY ShapesStep
<1>3. Delivered(s)' \in Nat
  BY <1>2 DEF Delivered, Shapes, Tracked, NoTracker
<1>4. ASSUME tr'[s] = tr[s] PROVE Delivered(s)' = Delivered(s)
  BY <1>4 DEF Delivered
<1>5. ASSUME tr'[s] = tr[s], s \in live' => s \in live \/ exit[s] = "unborn",
             exit'[s] = "unborn" => exit[s] = "unborn"
      PROVE  Counts(s)' => Counts(s) /\ Delivered(s)' >= Delivered(s)
  BY <1>1, <1>4, <1>5 DEF Counts
<1>6. ASSUME NEW x \in Sessions, \/ \E sc : Moved(x, sc)
                                 \/ \E how \in {"clean", "crash"} : Exit(x, how)
                                 \/ Close(x)
                                 \/ \E name \in Nat : Create(x, name) \/ SetSessionTitle(x, name)
                                 \/ ReadScreen(x) \/ ReadExit(x)
      PROVE  /\ tr'[s] = tr[s] /\ (s \in live' => s \in live \/ exit[s] = "unborn")
             /\ exit'[s] = "unborn" => exit[s] = "unborn"
  BY <1>6 DEF Moved, Shows, Exit, Close, Create, SetSessionTitle, ReadScreen, ReadExit, Running,
       Shapes, sessionVars, programVars, historyVars
<1>7. ASSUME NEW x \in Sessions, NEW t, Marked(x, t)
      PROVE  Counts(s)' => Counts(s) /\ Delivered(s)' >= Delivered(s)
  <2>1. /\ UNCHANGED <<live, exit>> /\ (tr'[s].known <=> tr[s].known)
        /\ tr[s].known => tr'[s].notifDelivered = tr[s].notifDelivered
    BY <1>7 DEF Marked, Tracked, Remains, Tracks, Shapes, sessionVars, programVars
  <2>2. Delivered(s)' = Delivered(s)
    BY <2>1 DEF Delivered
  <2> QED BY <1>1, <2>1, <2>2 DEF Counts
<1>8. CASE BeginSweep
  <2>1. /\ UNCHANGED <<live, exit>> /\ (tr'[s].known <=> s \in live \/ tr[s].known)
        /\ tr'[s] = tr[s] \/ (tr'[s] = NewTracker /\ ~ tr[s].known)
    BY <1>8, Begins
  <2>2. Delivered(s)' = Delivered(s)
    <3>1. NewTracker.notifDelivered = 0
      BY DEF NewTracker
    <3> QED BY <2>1, <3>1 DEF Delivered
  <2> QED BY <1>1, <2>1, <2>2 DEF Counts
<1>9. CASE CommitSweep
  <2>1. UNCHANGED <<live, exit>>
    BY <1>9, Commits
  <2>2. CASE SweptNow(s)
    <3>1. tr[s].known /\ tr'[s].known /\ tr'[s].notifDelivered >= tr[s].notifDelivered
      BY <1>9, <2>2, SweptDelivers DEF Max2
    <3> QED BY <1>1, <1>3, <3>1 DEF Counts, Delivered
  <2>3. CASE ~ SweptNow(s)
    <3>1. ~ tr'[s].known /\ (s \in live => ~ tr[s].known)
      BY <1>9, <2>3, Commits
    <3>2. exit[s] = "unborn" => ~ tr[s].known
      BY DEF Shapes
    <3> QED BY <1>1, <1>3, <2>1, <3>1, <3>2 DEF Counts, Delivered
  <2> QED BY <2>2, <2>3
<1>10. CASE Aside
  <2>1. tr'[s] = tr[s] /\ live' = live /\ exit' = exit
    BY <1>10 DEF Aside, programVars
  <2> QED BY <1>1, <1>3, <1>5, <2>1
<1> QED BY <1>1, <1>3, <1>5, <1>6, <1>7, <1>8, <1>9, <1>10, Steps

LEMMA BoundedStays ==
    ASSUME Shapes, Sweeping, Next, NEW q, Bounded(q),
           \A i \in DOMAIN q : q[i].id \in Sessions /\ q[i].notif \in Nat
    PROVE  Bounded(q)'
<1> SUFFICES ASSUME NEW i \in DOMAIN q, Counts(q[i].id)' PROVE q[i].notif <= Delivered(q[i].id)'
  BY DEF Bounded
<1>1. q[i].id \in Sessions /\ q[i].notif \in Nat
  OBVIOUS
<1>2. /\ Delivered(q[i].id) \in Nat /\ Delivered(q[i].id)' \in Nat
      /\ Counts(q[i].id) /\ Delivered(q[i].id)' >= Delivered(q[i].id)
  BY <1>1, CountsStay
<1> QED BY <1>1, <1>2 DEF Bounded

LEMMA ThinnerRises ==
    ASSUME NEW q, NEW r, NEW shown, Thinner(r, q), Rises(q, shown)
    PROVE  Rises(r, shown)
<1>1. PICK h \in [DOMAIN r -> DOMAIN q] : /\ \A i \in DOMAIN r : r[i] = q[h[i]]
                                          /\ \A i, j \in DOMAIN r : i < j => h[i] < h[j]
  BY DEF Thinner
<1>2. \A i \in DOMAIN r : h[i] \in DOMAIN q
  BY <1>1
<1> QED BY <1>1, <1>2 DEF Rises

LEMMA ThinnerBounded ==
    ASSUME NEW q, NEW r, Thinner(r, q), Bounded(q)
    PROVE  Bounded(r)
BY DEF Thinner, Bounded

\* The first event is taken: the notifications after it are newer.
LEMMA TakenRises ==
    ASSUME NEW q, IsSeq(q), q # <<>>, NEW shown, NEW shown2, Rises(q, shown), DOMAIN shown = Sessions,
           q[1].id \in Sessions,
           shown2 = [shown EXCEPT ![q[1].id] = IF q[1].notif = 0 THEN @ ELSE q[1].notif]
    PROVE  Rises(Tail(q), shown2)
<1>1. /\ IsSeq(Tail(q)) /\ Len(Tail(q)) = Len(q) - 1 /\ Len(q) >= 1
      /\ \A i \in 1..(Len(q) - 1) : Tail(q)[i] = q[i + 1]
  BY TailIs
<1>2. DOMAIN Tail(q) = 1..(Len(q) - 1) /\ DOMAIN q = 1..Len(q) /\ Len(q) \in Nat
  BY <1>1, SeqParts
<1>3. \A i \in DOMAIN Tail(q) : i + 1 \in DOMAIN q /\ 1 < i + 1 /\ Tail(q)[i] = q[i + 1] /\ i \in Nat
  BY <1>1, <1>2
<1>4. 1 \in DOMAIN q
  BY <1>1, <1>2
<1>5. ASSUME NEW i \in DOMAIN Tail(q)
      PROVE  /\ Tail(q)[i].notif \in Nat
             /\ Tail(q)[i].notif # 0 => Tail(q)[i].notif > shown2[Tail(q)[i].id]
  <2> DEFINE e == q[i + 1]
  <2>1. /\ Tail(q)[i] = e /\ e.notif \in Nat /\ (e.notif # 0 => e.notif > shown[e.id])
        /\ q[1].id = e.id /\ q[1].notif # 0 /\ e.notif # 0 => q[1].notif < e.notif
    BY <1>3, <1>4 DEF Rises
  <2>2. shown2[e.id] = IF e.id = q[1].id /\ q[1].notif # 0 THEN q[1].notif ELSE shown[e.id]
    OBVIOUS
  <2> HIDE DEF e
  <2>3. q[1].notif \in Nat
    BY <1>4 DEF Rises
  <2> QED BY <2>1, <2>2, <2>3
<1>6. ASSUME NEW i \in DOMAIN Tail(q), NEW j \in DOMAIN Tail(q), i < j, Tail(q)[i].id = Tail(q)[j].id,
             Tail(q)[i].notif # 0, Tail(q)[j].notif # 0
      PROVE  Tail(q)[i].notif < Tail(q)[j].notif
  <2>1. i + 1 < j + 1
    BY <1>3, <1>6
  <2> QED BY <1>3, <1>6, <2>1 DEF Rises
<1> QED BY <1>5, <1>6 DEF Rises

\* The events of a sweep follow what is on its way.
LEMMA ReportedRises ==
    ASSUME Shapes, Sweeping, Finite, Events, NEW c \in Subs, NoticesOf(c), CommitSweep
    PROVE  Rises(Coming(c), told[c])' /\ Bounded(Coming(c))'
<1>q. PICK q : q = queue[c]
  OBVIOUS
<1>p. PICK p : p = pending'
  OBVIOUS
<1> DEFINE j == q \o p
<1>1. /\ q = Coming(c) /\ Coming(c)' = j /\ IsSeq(q) /\ IsSeq(p) /\ told'[c] = told[c]
  <2>1. pending = <<>> /\ queue' = queue /\ told' = told /\ IsSeq(p)
    BY <1>p, SweepReports DEF CommitSweep, Events
  <2>2. IsSeq(queue[c])
    BY DEF Events
  <2> QED BY <1>q, <1>p, <2>1, <2>2, JoinedEmpty DEF Coming
<1>2. /\ Rises(q, told[c]) /\ Bounded(q)
      /\ \A s \in Sessions : told[c][s] \in Nat /\ (Counts(s) => told[c][s] <= Delivered(s))
  BY <1>1 DEF NoticesOf
<1>3. \A i \in DOMAIN q : q[i].id \in Sessions /\ q[i].notif \in Nat
  BY <1>q, <1>2 DEF Events, Rises
\* The new ones.
<1>4. ASSUME NEW k \in DOMAIN p
      PROVE  /\ p[k].id \in Sessions /\ p[k].notif \in Nat
             /\ Counts(p[k].id)' => p[k].notif <= Delivered(p[k].id)'
             /\ p[k].notif # 0 => Counts(p[k].id) /\ p[k].notif > Delivered(p[k].id)
  <2>1. PICK s \in Sessions : p[k].id = s /\ Reporting(p[k], s)
    BY <1>p, SweepReports
  <2>2. Delivered(s) \in Nat /\ Delivered(s)' \in Nat
    <3>1. Delivered(s) \in Nat
      BY DEF Delivered, Shapes, Tracked, NoTracker
    <3>2. Delivered(s)' \in Nat
      BY SweptDelivers, Commits DEF Delivered, Tracked
    <3> QED BY <3>1, <3>2
  <2>3. CASE SweptNow(s) /\ Tells(p[k], s, tr'[s], tr[s], sweep.read[s].screen)
    <3> DEFINE n == sweep.read[s].screen.notifSeq
    <3>1. /\ tr[s].known /\ tr'[s].known /\ tr[s].notifDelivered \in Nat /\ n \in Nat
          /\ tr'[s].notifDelivered = Max2(tr[s].notifDelivered, n)
      BY <2>3, SweptDelivers
    <3>2. p[k].notif = 0 \/ (p[k].notif = n /\ n > tr[s].notifDelivered)
      BY <2>3 DEF Tells
    <3> HIDE DEF n
    <3>3. Delivered(s) = tr[s].notifDelivered /\ Delivered(s)' = tr'[s].notifDelivered /\ Counts(s)
      BY <3>1 DEF Delivered, Counts
    <3>4. tr'[s].notifDelivered >= n
      BY <3>1 DEF Max2
    <3> QED BY <2>1, <2>2, <3>1, <3>2, <3>3, <3>4
  <2>4. CASE p[k] = Removed(s)
    <3>1. p[k].notif = 0
      BY <2>4 DEF Removed
    <3> QED BY <2>1, <2>2, <3>1
  <2> QED BY <2>1, <2>3, <2>4 DEF Reporting
<1>5. \A a, b \in DOMAIN p : p[a].id = p[b].id => a = b
  BY <1>p, SweepReports
<1>6. /\ DOMAIN j = 1..(Len(q) + Len(p)) /\ DOMAIN q = 1..Len(q) /\ DOMAIN p = 1..Len(p)
      /\ Len(q) \in Nat /\ Len(p) \in Nat
      /\ \A i \in 1..Len(q) : j[i] = q[i]
      /\ \A i \in 1..(Len(q) + Len(p)) : ~(i <= Len(q)) => i - Len(q) \in 1..Len(p) /\ j[i] = p[i - Len(q)]
  <2>1. IsSeq(q) /\ IsSeq(p)
    BY <1>1
  <2> HIDE DEF j
  <2>2. /\ DOMAIN (q \o p) = 1..(Len(q) + Len(p)) /\ DOMAIN q = 1..Len(q) /\ DOMAIN p = 1..Len(p)
        /\ Len(q) \in Nat /\ Len(p) \in Nat
        /\ \A i \in 1..Len(q) : (q \o p)[i] = q[i]
        /\ \A i \in 1..Len(p) : (q \o p)[Len(q) + i] = p[i]
        /\ \A i \in 1..(Len(q) + Len(p)) : ~(i <= Len(q)) =>
             i - Len(q) \in 1..Len(p) /\ (q \o p)[i] = p[i - Len(q)]
    BY <2>1, Joined
  <2> QED BY <2>2 DEF j
<1> HIDE DEF j
<1>7. ASSUME NEW i \in DOMAIN j
      PROVE  (i \in DOMAIN q /\ j[i] = q[i]) \/ (i - Len(q) \in DOMAIN p /\ j[i] = p[i - Len(q)] /\ i > Len(q))
  BY <1>6
<1>8. ASSUME NEW i \in DOMAIN j
      PROVE  j[i].notif \in Nat /\ (j[i].notif # 0 => j[i].notif > told[c][j[i].id])
  <2>1. CASE i \in DOMAIN q /\ j[i] = q[i]
    BY <1>2, <2>1 DEF Rises
  <2>2. ASSUME NEW k \in DOMAIN p, j[i] = p[k]
        PROVE  j[i].notif \in Nat /\ (j[i].notif # 0 => j[i].notif > told[c][j[i].id])
    <3>1. Delivered(p[k].id) \in Nat
      BY <1>4 DEF Delivered, Shapes, Tracked, NoTracker
    <3> QED BY <1>2, <1>4, <2>2, <3>1
  <2> QED BY <1>7, <2>1, <2>2
<1>9. ASSUME NEW i \in DOMAIN j, NEW l \in DOMAIN j, i < l, j[i].id = j[l].id,
             j[i].notif # 0, j[l].notif # 0
      PROVE  j[i].notif < j[l].notif
  <2>1. CASE i \in DOMAIN q /\ j[i] = q[i] /\ l \in DOMAIN q /\ j[l] = q[l]
    BY <1>2, <1>9, <2>1 DEF Rises
  <2>2. ASSUME i \in DOMAIN q, j[i] = q[i], NEW k \in DOMAIN p, j[l] = p[k] PROVE j[i].notif < j[l].notif
    <3>1. /\ Counts(p[k].id) /\ p[k].notif > Delivered(p[k].id) /\ p[k].notif \in Nat
          /\ q[i].notif \in Nat
      BY <1>3, <1>4, <1>9, <2>2
    <3>2. q[i].notif <= Delivered(q[i].id)
      BY <1>2, <1>9, <2>2, <3>1 DEF Bounded
    <3>3. Delivered(p[k].id) \in Nat
      BY <1>4 DEF Delivered, Shapes, Tracked, NoTracker
    <3> QED BY <1>9, <2>2, <3>1, <3>2, <3>3
  <2>3. CASE /\ i - Len(q) \in DOMAIN p /\ j[i] = p[i - Len(q)]
             /\ l - Len(q) \in DOMAIN p /\ j[l] = p[l - Len(q)]
    <3>1. i - Len(q) = l - Len(q)
      BY <1>5, <1>9, <2>3
    <3>2. i = l
      BY <1>6, <3>1
    <3> QED BY <1>6, <1>9, <3>2
  <2>4. CASE i > Len(q) /\ l \in DOMAIN q
    BY <1>6, <1>9, <2>4
  <2> QED BY <1>7, <2>1, <2>2, <2>3, <2>4
<1>10. Rises(j, told[c])
  BY <1>8, <1>9 DEF Rises
<1>11. Bounded(j)'
  <2>1. Bounded(q)'
    BY <1>2, <1>3, BoundedStays DEF Next
  <2>2. ASSUME NEW i \in DOMAIN j, Counts(j[i].id)' PROVE j[i].notif <= Delivered(j[i].id)'
    BY <1>4, <1>7, <2>1, <2>2 DEF Bounded
  <2> QED BY <2>2 DEF Bounded
<1> QED BY <1>1, <1>10, <1>11

LEMMA NoticesStep ==
    ASSUME Shapes, Sweeping, Finite, Events, Notices, Next
    PROVE  Notices'
<1>1. DOMAIN told' = Subs
  BY Flows DEF Notices, Quiet, subVars, CommitSweep, Broadcast, Subscribe, TakeSnapshot, Receive, Leave
<1> SUFFICES ASSUME NEW c \in Subs PROVE NoticesOf(c)'
  BY <1>1 DEF Notices
<1>2. NoticesOf(c) /\ DOMAIN told = Subs
  BY DEF Notices
<1>3. \A s \in Sessions : /\ Delivered(s) \in Nat /\ Delivered(s)' \in Nat
                          /\ Counts(s)' => Counts(s) /\ Delivered(s)' >= Delivered(s)
  BY CountsStay
<1>4. ASSUME told'[c] = told[c]
      PROVE  /\ told'[c] \in [Sessions -> Nat]
             /\ \A s \in Sessions : Counts(s)' => told'[c][s] <= Delivered(s)'
  BY <1>2, <1>3, <1>4 DEF NoticesOf
<1>5. CASE CommitSweep
  <2>1. told'[c] = told[c]
    BY <1>5, SweepReports
  <2>2. Rises(Coming(c), told[c])' /\ Bounded(Coming(c))'
    BY <1>2, <1>5, ReportedRises
  <2> QED BY <1>4, <2>1, <2>2 DEF NoticesOf
<1>6. ASSUME ~ CommitSweep PROVE NoticesOf(c)'
  <2>q. PICK q : q = Coming(c)
    OBVIOUS
  <2>r. PICK r : r = Coming(c)'
    OBVIOUS
  <2>1. /\ Rises(q, told[c]) /\ Bounded(q) /\ IsSeq(q) /\ DOMAIN q = 1..Len(q)
        /\ \A i \in DOMAIN q : q[i].id \in Sessions /\ q[i].notif \in Nat
    BY <1>2, <2>q, ComingIs DEF NoticesOf, Rises
  <2>2. Bounded(q)'
    BY <2>1, BoundedStays
  <2>3. CASE r = q /\ told'[c] = told[c]
    BY <1>4, <2>r, <2>1, <2>2, <2>3 DEF NoticesOf
  <2>4. CASE Thinner(r, q) /\ told'[c] = told[c]
    <3>1. Rises(r, told'[c])
      BY <2>1, <2>4, ThinnerRises
    <3>2. Bounded(r)'
      BY <2>2, <2>4 DEF Thinner, Bounded
    <3> QED BY <1>4, <2>r, <2>4, <3>1, <3>2 DEF NoticesOf
  <2>5. CASE /\ q # <<>> /\ r = Tail(q)
             /\ told'[c] = [told[c] EXCEPT ![q[1].id] = IF q[1].notif = 0 THEN @ ELSE q[1].notif]
    <3>1. 1 \in DOMAIN q
      BY <2>1, <2>5, TailIs
    <3>2. q[1].id \in Sessions /\ q[1].notif \in Nat
      BY <2>1, <3>1
    <3>3. DOMAIN told[c] = Sessions
      BY <1>2 DEF NoticesOf
    <3>4. Rises(r, told'[c])
      BY <2>1, <2>5, <3>2, <3>3, TakenRises
    <3>5. Thinner(r, q)
      BY <2>1, <2>5, ThinnerTail
    <3>6. Bounded(r)'
      BY <2>2, <3>5 DEF Thinner, Bounded
    <3>7. ASSUME NEW s \in Sessions
          PROVE  Counts(s)' => told'[c][s] <= Delivered(s)'
      <4>1. CASE told'[c][s] = told[c][s]
        BY <1>2, <1>3, <4>1 DEF NoticesOf
      <4>2. CASE s = q[1].id /\ told'[c][s] = q[1].notif
        BY <2>2, <3>1, <3>2, <4>2 DEF Bounded
      <4> QED BY <2>5, <3>2, <3>3, <4>1, <4>2
    <3>8. told'[c] \in [Sessions -> Nat]
      BY <1>2, <2>5, <3>2 DEF NoticesOf
    <3> QED BY <2>r, <3>4, <3>6, <3>7, <3>8 DEF NoticesOf
  <2>6. ASSUME Takes(c)
        PROVE  /\ q # <<>> /\ r = Tail(q)
               /\ told'[c] = [told[c] EXCEPT ![q[1].id] = IF q[1].notif = 0 THEN @ ELSE q[1].notif]
    <3>1. q # <<>> => Head(q) = q[1]
      BY <2>1, TailIs
    <3> QED BY <2>q, <2>r, <2>6, <3>1 DEF Takes
  <2>7. Untouched(c) \/ Snapshots(c) \/ Takes(c) \/ Loses(c)
    BY <1>2, <1>6, ComingFlows
  <2>8. Untouched(c) \/ Snapshots(c) => r = q /\ told'[c] = told[c]
    BY <2>q, <2>r DEF Untouched, Snapshots
  <2>9. Loses(c) => Thinner(r, q) /\ told'[c] = told[c]
    BY <2>q, <2>r DEF Loses
  <2> QED BY <2>3, <2>4, <2>5, <2>6, <2>7, <2>8, <2>9
<1> QED BY <1>5, <1>6

NoticeInv == CueInv /\ Finite /\ Events /\ Notices

LEMMA NoticeInit == ASSUME Init PROVE NoticeInv
<1>1. CueInv
  BY CueInit
<1>2. ~ NoTracker.known
  BY DEF NoTracker
<1>3. Finite
  <2>1. live = {} /\ {s \in Sessions : tr[s].known} = {}
    BY <1>2 DEF Init
  <2> QED BY <2>1, FS_EmptySet DEF Finite
<1>4. IsSeq(<<>>) /\ Len(<<>>) = 0 /\ DOMAIN <<>> = {} /\ <<>> \o <<>> = <<>>
  BY EmptyIs, JoinedEmpty
<1>5. Events
  BY <1>4, StreamAssumption DEF Events, Init
<1>6. \A c \in Subs : Coming(c) = <<>>
  BY <1>4 DEF Coming, Init
<1>7. Notices
  <2>1. \A s \in Sessions : Delivered(s) = 0
    BY <1>2 DEF Delivered, Init
  <2>2. \A c \in Subs : told[c] \in [Sessions -> Nat] /\ \A s \in Sessions : told[c][s] = 0
    BY DEF Init
  <2>3. \A c \in Subs : Rises(Coming(c), told[c]) /\ Bounded(Coming(c))
    BY <1>4, <1>6 DEF Rises, Bounded
  <2> QED BY <2>1, <2>2, <2>3 DEF Notices, NoticesOf, Init
<1> QED BY <1>1, <1>3, <1>5, <1>7 DEF NoticeInv

LEMMA NoticeStep == ASSUME NoticeInv, [Next]_vars PROVE NoticeInv'
<1>1. CueInv'
  BY CueStep DEF NoticeInv
<1>2. CASE Next
  <2>1. Shapes /\ Sweeping /\ Finite /\ Events /\ Notices
    BY DEF NoticeInv, CueInv
  <2>2. Finite' /\ Events' /\ Notices'
    BY <1>2, <2>1, FiniteStep, EventsStep, NoticesStep
  <2> QED BY <1>1, <2>2 DEF NoticeInv
<1>3. CASE UNCHANGED vars
  <2>u. /\ live' = live /\ tr' = tr /\ exit' = exit /\ pending' = pending /\ queue' = queue
        /\ stage' = stage /\ view' = view /\ told' = told /\ sweep' = sweep
    BY <1>3 DEF vars, sessionVars, programVars, subVars
  <2>1. Finite' /\ Events'
    BY <2>u DEF NoticeInv, Finite, Events
  <2>2. ASSUME NEW c \in Subs PROVE NoticesOf(c)'
    <3>1. NoticesOf(c)
      BY DEF NoticeInv, Notices
    <3>2. Coming(c)' = Coming(c) /\ \A s \in Sessions : (Counts(s)' <=> Counts(s)) /\ Delivered(s)' = Delivered(s)
      BY <2>u DEF Coming, Counts, Delivered
    <3>3. Rises(Coming(c)', told'[c]) /\ Bounded(Coming(c))'
      BY <2>u, <3>1, <3>2 DEF NoticesOf, Bounded, Counts, Delivered
    <3> QED BY <2>u, <3>1, <3>2, <3>3 DEF NoticesOf
  <2>3. Notices'
    BY <2>u, <2>2 DEF NoticeInv, Notices
  <2> QED BY <1>1, <2>1, <2>3 DEF NoticeInv
<1> QED BY <1>2, <1>3

LEMMA NoticeInvariant == Spec => []NoticeInv
<1>1. Init => NoticeInv
  BY NoticeInit
<1>2. NoticeInv /\ [Next]_vars => NoticeInv'
  BY NoticeStep
<1> QED BY <1>1, <1>2, PTL DEF Spec

LEMMA MarksStep ==
    ASSUME NoticeInv, [Next]_vars, NEW s \in Sessions, tr[s].known, tr'[s].known
    PROVE  /\ tr'[s].seenSeq <= tr'[s].statusSeq
           /\ tr'[s].seenSeq >= tr[s].seenSeq /\ tr'[s].statusSeq >= tr[s].statusSeq
<1>1. Shapes /\ Sweeping /\ Shapes'
  BY NoticeStep DEF NoticeInv, CueInv
<1>2. Tracked(tr[s]) /\ Tracked(tr'[s])
  BY <1>1 DEF Shapes, NoTracker
<1>3. tr[s].seenSeq \in Nat /\ tr[s].statusSeq \in Nat /\ tr'[s].seenSeq <= tr'[s].statusSeq
  BY <1>2 DEF Tracked
<1>4. CASE Next
  <2>1. CASE CommitSweep /\ SweptNow(s)
    <3>1. PICK w, r : /\ SweptTo(w, s, sweep.read[s].screen, sweep.read[s].how, r)
                      /\ Screened(sweep.read[s].screen) /\ tr'[s] = w.t
      BY <1>1, <2>1, Commits
    <3>2. /\ w.t.seenSeq = tr[s].seenSeq
          /\ w.t.statusSeq = IF r.status # tr[s].lastStatus \/ r.fresh THEN tr[s].statusSeq + 1
                             ELSE tr[s].statusSeq
      BY <3>1 DEF SweptTo
    <3> QED BY <1>3, <3>1, <3>2
  <2> QED BY <1>1, <1>3, <1>4, <2>1, NumbersStay
<1>5. CASE UNCHANGED vars
  BY <1>3, <1>5 DEF vars
<1> QED BY <1>4, <1>5

LEMMA ToldStep ==
    ASSUME NoticeInv, [Next]_vars, NEW c \in Subs, told'[c] # told[c], NEW s \in Sessions, Head(queue[c]).id = s
    PROVE  told'[c][s] > told[c][s]
<1>1. Shapes /\ Sweeping /\ Finite /\ Events /\ NoticesOf(c) /\ DOMAIN told = Subs
  BY DEF NoticeInv, CueInv, Notices
<1>2. CASE UNCHANGED vars
  BY <1>2 DEF vars, subVars
<1>3. CASE CommitSweep
  BY <1>1, <1>3, SweepReports
<1>4. CASE Next /\ ~ CommitSweep
  <2>1. Takes(c)
    BY <1>1, <1>4, ComingFlows DEF Untouched, Snapshots, Loses
  <2>2. queue[c] # <<>>
    <3>1. ASSUME NEW x \in Subs, Receive(x), x # c PROVE FALSE
      <4>1. told'[c] = told[c]
        BY <1>1, <3>1 DEF Receive
      <4> QED BY <4>1
    <3>2. \E x \in Subs : Receive(x)
      BY <1>4, Flows DEF Quiet, subVars, Broadcast, Subscribe, TakeSnapshot, Leave
    <3> QED BY <3>1, <3>2 DEF Receive
  <2>3. PICK q : q = Coming(c)
    OBVIOUS
  <2>4. q # <<>> /\ IsSeq(q) /\ Head(q) = Head(queue[c]) /\ Head(q) = q[1] /\ 1 \in DOMAIN q
    <3>1. IsSeq(queue[c]) /\ IsSeq(pending)
      BY <1>1 DEF Events
    <3>2. q # <<>> /\ IsSeq(q) /\ Head(q) = Head(queue[c])
      BY <2>2, <2>3, <3>1, TakeOff, Joined DEF Coming
    <3> QED BY <3>2, TailIs, SeqParts
  <2>5. /\ q[1].id = s /\ q[1].notif \in Nat
        /\ q[1].notif # 0 => q[1].notif > told[c][s]
    BY <1>1, <2>3, <2>4 DEF NoticesOf, Rises
  <2>6. told'[c] = [told[c] EXCEPT ![s] = IF q[1].notif = 0 THEN @ ELSE q[1].notif]
    BY <2>1, <2>3, <2>4, <2>5 DEF Takes
  <2>7. told[c] \in [Sessions -> Nat]
    BY <1>1 DEF NoticesOf
  <2>8. CASE q[1].notif = 0
    BY <1>1, <2>6, <2>7, <2>8 DEF NoticesOf
  <2>9. CASE q[1].notif # 0
    BY <2>5, <2>6, <2>7, <2>9
  <2> QED BY <2>8, <2>9
<1> QED BY <1>2, <1>3, <1>4

(* A reader's mark stays at or below the last status numbered and neither  *)
(* falls, and what a subscriber is told of a session's notifications only  *)
(* rises, over whatever reconnections and dropped events (markSessionSeen, *)
(* sweepSession, Broadcast).                                               *)
THEOREM MarksAndNoticesAlways == Spec => MarksAndNotices
<1>1. NoticeInv /\ [Next]_vars =>
        /\ \A s \in Sessions : tr[s].known /\ tr'[s].known =>
             /\ tr'[s].seenSeq <= tr'[s].statusSeq
             /\ tr'[s].seenSeq >= tr[s].seenSeq /\ tr'[s].statusSeq >= tr[s].statusSeq
        /\ \A c \in Subs : told'[c] # told[c] =>
             \A s \in Sessions : Head(queue[c]).id = s => told'[c][s] > told[c][s]
  BY MarksStep, ToldStep
<1> QED BY <1>1, NoticeInvariant, PTL DEF Spec, MarksAndNotices

-----------------------------------------------------------------------------
(* Every page ends up with what is committed.                              *)

\* Between two commits, what is committed of a session stays.
LEMMA CommittedStays ==
    ASSUME Shapes, Sweeping, Next, ~ CommitSweep, NEW s \in Sessions
    PROVE  /\ removed' = removed
           /\ \/ /\ tr[s].known /\ tr'[s].known
                 /\ tr'[s].lastStatus = tr[s].lastStatus /\ tr'[s].statusSeq = tr[s].statusSeq
                 /\ tr'[s].lastSeenSeq = tr[s].lastSeenSeq /\ tr'[s].lastLabel = tr[s].lastLabel
                 /\ tr'[s].seenSeq >= tr[s].seenSeq /\ (s \in live' => s \in live)
              \/ ~ tr[s].known /\ (tr'[s] = NewTracker \/ ~ tr'[s].known)
<1>1. tr[s].known => tr[s].seenSeq >= tr[s].seenSeq
  BY DEF Shapes, Tracked, NoTracker
<1>2. ASSUME tr'[s] = tr[s], removed' = removed, tr[s].known /\ s \in live' => s \in live
      PROVE  /\ removed' = removed
             /\ \/ /\ tr[s].known /\ tr'[s].known
                   /\ tr'[s].lastStatus = tr[s].lastStatus /\ tr'[s].statusSeq = tr[s].statusSeq
                   /\ tr'[s].lastSeenSeq = tr[s].lastSeenSeq /\ tr'[s].lastLabel = tr[s].lastLabel
                   /\ tr'[s].seenSeq >= tr[s].seenSeq /\ (s \in live' => s \in live)
                \/ ~ tr[s].known /\ (tr'[s] = NewTracker \/ ~ tr'[s].known)
  BY <1>1, <1>2
<1>3. ASSUME NEW x \in Sessions, \/ \E sc : Moved(x, sc)
                                 \/ \E how \in {"clean", "crash"} : Exit(x, how)
                                 \/ Close(x)
                                 \/ \E name \in Nat : Create(x, name) \/ SetSessionTitle(x, name)
                                 \/ ReadScreen(x) \/ ReadExit(x)
      PROVE  tr'[s] = tr[s] /\ removed' = removed /\ (tr[s].known /\ s \in live' => s \in live)
  BY <1>3 DEF Moved, Shows, Exit, Close, Create, SetSessionTitle, ReadScreen, ReadExit,
       Shapes, sessionVars, programVars, historyVars
<1>4. ASSUME NEW x \in Sessions, NEW t, Marked(x, t), x # s
      PROVE  tr'[s] = tr[s] /\ removed' = removed /\ live' = live
  BY <1>4 DEF Marked, Tracks, Shapes, sessionVars, historyVars
<1>5. ASSUME NEW t, Marked(s, t)
      PROVE  /\ removed' = removed /\ live' = live /\ tr[s].known /\ tr'[s].known
             /\ tr'[s].lastStatus = tr[s].lastStatus /\ tr'[s].statusSeq = tr[s].statusSeq
             /\ tr'[s].lastSeenSeq = tr[s].lastSeenSeq /\ tr'[s].lastLabel = tr[s].lastLabel
             /\ tr'[s].seenSeq >= tr[s].seenSeq
  BY <1>5 DEF Marked, Tracks, Remains, Tracked, Shapes, sessionVars, historyVars
<1>6. CASE BeginSweep
  BY <1>1, <1>6, Begins
<1>7. CASE Aside
  <2>1. tr'[s] = tr[s] /\ removed' = removed /\ live' = live
    BY <1>7 DEF Aside, historyVars
  <2> QED BY <1>2, <2>1
<1>8. ASSUME NEW x \in Sessions, NEW t, Marked(x, t)
      PROVE  /\ removed' = removed
             /\ \/ /\ tr[s].known /\ tr'[s].known
                   /\ tr'[s].lastStatus = tr[s].lastStatus /\ tr'[s].statusSeq = tr[s].statusSeq
                   /\ tr'[s].lastSeenSeq = tr[s].lastSeenSeq /\ tr'[s].lastLabel = tr[s].lastLabel
                   /\ tr'[s].seenSeq >= tr[s].seenSeq /\ (s \in live' => s \in live)
                \/ ~ tr[s].known /\ (tr'[s] = NewTracker \/ ~ tr'[s].known)
  BY <1>2, <1>4, <1>5, <1>8
<1> QED BY <1>2, <1>3, <1>6, <1>7, <1>8, Steps

LEMMA MatchesStays ==
    ASSUME Shapes, Sweeping, Next, ~ CommitSweep, NEW e, e.id \in Sessions, Matches(e)
    PROVE  Matches(e)'
<1>1. PICK s \in Sessions : s = e.id
  OBVIOUS
<1>2. /\ removed' = removed
      /\ \/ /\ tr[s].known /\ tr'[s].known
            /\ tr'[s].lastStatus = tr[s].lastStatus /\ tr'[s].statusSeq = tr[s].statusSeq
            /\ tr'[s].lastSeenSeq = tr[s].lastSeenSeq /\ tr'[s].lastLabel = tr[s].lastLabel
         \/ ~ tr[s].known
  BY CommittedStays
<1> QED BY <1>1, <1>2 DEF Matches

LEMMA TrackedIs ==
    ASSUME Shapes, NEW s \in Sessions, tr[s].known
    PROVE  /\ tr[s].seenSeq \in Nat /\ tr[s].lastSeenSeq \in Nat
           /\ tr[s].lastSeenSeq <= tr[s].seenSeq /\ s \notin removed
<1>1. Tracked(tr[s]) /\ s \notin removed
  BY DEF Shapes, NoTracker
<1> QED BY <1>1 DEF Tracked

\* What a page shows of a session, when nothing moved it.
SameView(c, s) ==
    /\ (s \in DOMAIN view'[c] <=> s \in DOMAIN view[c])
    /\ (s \in DOMAIN view[c] => view'[c][s] = view[c][s])

LEMMA UpToDateStays ==
    ASSUME Shapes, Sweeping, Next, ~ CommitSweep, NEW c \in Subs, NEW s \in Sessions,
           SameView(c, s), UpToDate(c, s)
    PROVE  UpToDate(c, s)'
<1>1. /\ removed' = removed
      /\ \/ /\ tr[s].known /\ tr'[s].known
            /\ tr'[s].lastStatus = tr[s].lastStatus /\ tr'[s].statusSeq = tr[s].statusSeq
            /\ tr'[s].lastSeenSeq = tr[s].lastSeenSeq /\ tr'[s].lastLabel = tr[s].lastLabel
            /\ tr'[s].seenSeq >= tr[s].seenSeq /\ (s \in live' => s \in live)
         \/ ~ tr[s].known /\ (tr'[s] = NewTracker \/ ~ tr'[s].known)
  BY CommittedStays
<1>2. NewTracker.lastStatus = ""
  BY DEF NewTracker
<1>3. Committed(s)' => Committed(s)
  BY <1>1, <1>2 DEF Committed
<1>4. CASE Committed(s)'
  <2>1. /\ tr'[s].lastStatus = tr[s].lastStatus /\ tr'[s].statusSeq = tr[s].statusSeq
        /\ tr'[s].lastSeenSeq = tr[s].lastSeenSeq /\ tr'[s].seenSeq >= tr[s].seenSeq
    BY <1>1, <1>3, <1>4 DEF Committed
  <2>2. tr[s].seenSeq \in Nat /\ tr[s].lastSeenSeq \in Nat
    BY <1>3, <1>4, TrackedIs DEF Committed
  <2>3. Shapes' /\ tr'[s].known
    BY <1>4, ShapesStep DEF Committed
  <2>4. tr'[s].seenSeq \in Nat
    BY <2>3 DEF Shapes, Tracked, NoTracker
  <2>5. s \in DOMAIN view[c] /\ view[c][s].seenSeq \in tr[s].lastSeenSeq .. tr[s].seenSeq
    BY <1>3, <1>4 DEF UpToDate
  <2>6. view[c][s].seenSeq \in tr'[s].lastSeenSeq .. tr'[s].seenSeq
    BY <2>1, <2>2, <2>4, <2>5
  <2> QED BY <1>1, <1>3, <1>4, <2>1, <2>5, <2>6 DEF UpToDate, SameView
<1>5. CASE ~ Committed(s)'
  BY <1>1, <1>5 DEF UpToDate, SameView
<1> QED BY <1>4, <1>5

\* A snapshot shows what is committed, and no session that is gone.
LEMMA SnapshotShows ==
    ASSUME Shapes, NEW s \in Sessions
    PROVE  /\ Committed(s) =>
                /\ s \in DOMAIN snapshot /\ snapshot[s].status = tr[s].lastStatus
                /\ snapshot[s].statusSeq = tr[s].statusSeq /\ snapshot[s].label = label[s]
                /\ snapshot[s].seenSeq \in tr[s].lastSeenSeq .. tr[s].seenSeq
           /\ s \in removed => s \notin DOMAIN snapshot
<1>1. DOMAIN snapshot = live
  BY DEF snapshot
<1>2. ASSUME Committed(s)
      PROVE  /\ s \in DOMAIN snapshot /\ snapshot[s].status = tr[s].lastStatus
             /\ snapshot[s].statusSeq = tr[s].statusSeq /\ snapshot[s].label = label[s]
             /\ snapshot[s].seenSeq \in tr[s].lastSeenSeq .. tr[s].seenSeq
  <2>1. s \in live /\ tr[s].known /\ tr[s].lastStatus # ""
    BY <1>2 DEF Committed
  <2> DEFINE k == committedOf(tr[s])
  <2>2. k.status = tr[s].lastStatus /\ k.statusSeq = tr[s].statusSeq /\ k.seenSeq = tr[s].seenSeq
    BY <2>1 DEF committedOf
  <2>3. snapshot[s] = Entry(k.status, k.statusSeq, k.seenSeq, label[s], rankOf(s))
    BY <2>1 DEF snapshot
  <2> HIDE DEF k
  <2>4. /\ snapshot[s].status = k.status /\ snapshot[s].label = label[s]
        /\ snapshot[s].statusSeq = k.statusSeq /\ snapshot[s].seenSeq = k.seenSeq
    BY <2>3 DEF Entry
  <2>5. tr[s].seenSeq \in Nat /\ tr[s].lastSeenSeq \in Nat /\ tr[s].lastSeenSeq <= tr[s].seenSeq
    BY <2>1, TrackedIs
  <2>6. k.seenSeq \in tr[s].lastSeenSeq .. tr[s].seenSeq
    BY <2>2, <2>5
  <2> QED BY <1>1, <2>1, <2>2, <2>4, <2>6
<1>3. s \in removed => s \notin live
  BY DEF Shapes
<1> QED BY <1>1, <1>2, <1>3

\* A session shown by an event that is read.
LEMMA AppliedShows ==
    ASSUME NEW copy, NEW e, NEW s
    PROVE  /\ e.id = s /\ e.removed => s \notin DOMAIN Applied(copy, e)
           /\ e.id = s /\ ~ e.removed =>
                s \in DOMAIN Applied(copy, e) /\ Applied(copy, e)[s] = EntryOf(e)
           /\ e.id # s =>
                /\ s \in DOMAIN Applied(copy, e) <=> s \in DOMAIN copy
                /\ (s \in DOMAIN copy => Applied(copy, e)[s] = copy[s])
<1>1. CASE e.removed
  <2>1. Applied(copy, e) = [x \in DOMAIN copy \ {e.id} |-> copy[x]]
    BY <1>1 DEF Applied
  <2> HIDE DEF Applied
  <2> QED BY <1>1, <2>1
<1>2. CASE ~ e.removed
  <2> DEFINE f == EntryOf(e)
  <2>1. Applied(copy, e) = [x \in DOMAIN copy \cup {e.id} |-> IF x = e.id THEN f ELSE copy[x]]
    BY <1>2 DEF Applied
  <2> HIDE DEF f
  <2>2. /\ DOMAIN Applied(copy, e) = DOMAIN copy \cup {e.id}
        /\ Applied(copy, e)[e.id] = f
        /\ s \in DOMAIN copy /\ s # e.id => Applied(copy, e)[s] = copy[s]
    BY <2>1
  <2> QED BY <1>2, <2>2 DEF f
<1> QED BY <1>1, <1>2

\* How it comes that no event about a session is on its way: none was, the
\* snapshot is taken, or the last one is read.
LastRead(c, s) ==
    \E i \in DOMAIN Coming(c) :
        /\ Coming(c)[i].id = s /\ IsLast(Coming(c), i)
        /\ Coming(c)[i].removed => s \notin DOMAIN view'[c]
        /\ ~ Coming(c)[i].removed => s \in DOMAIN view'[c] /\ view'[c][s] = EntryOf(Coming(c)[i])
LEMMA ShownBecause ==
    ASSUME Events, DOMAIN told = Subs, Next, ~ CommitSweep, NEW c \in Subs, NEW s \in Sessions,
           stage'[c] = "streaming", About(Coming(c)', s) = {}
    PROVE  \/ stage[c] = "streaming" /\ About(Coming(c), s) = {} /\ SameView(c, s)
           \/ view'[c] = snapshot
           \/ stage[c] = "streaming" /\ LastRead(c, s)
<1>1. Untouched(c) \/ Snapshots(c) \/ Takes(c)
  BY ComingFlows DEF Loses, Listening
<1>2. CASE Untouched(c)
  BY <1>2 DEF Untouched, SameView, About
<1>3. CASE Snapshots(c)
  BY <1>3 DEF Snapshots
<1>4. CASE Takes(c)
  <2>q. PICK q : q = Coming(c)
    OBVIOUS
  <2>r. PICK r : r = Coming(c)'
    OBVIOUS
  <2>1. /\ q # <<>> /\ r = Tail(q) /\ stage[c] = "streaming"
        /\ view'[c] = Applied(view[c], Head(q))
    BY <2>q, <2>r, <1>4 DEF Takes
  <2>2. IsSeq(q) /\ DOMAIN q = 1..Len(q) /\ Len(q) \in Nat
    BY <2>q, ComingIs
  <2>3. /\ IsSeq(r) /\ Len(q) >= 1 /\ Len(r) = Len(q) - 1 /\ Head(q) = q[1]
        /\ \A i \in 1..(Len(q) - 1) : r[i] = q[i + 1]
    BY <2>1, <2>2, TailIs
  <2>4. DOMAIN r = 1..(Len(q) - 1)
    BY <2>3, SeqParts
  <2>5. ASSUME NEW j \in DOMAIN q, q[j].id = s PROVE j = 1
    <3>1. j # 1 => j - 1 \in DOMAIN r /\ r[j - 1] = q[(j - 1) + 1] /\ (j - 1) + 1 = j
      BY <2>2, <2>3, <2>4
    <3>2. \A i \in DOMAIN r : r[i].id # s
      BY <2>r DEF About
    <3> QED BY <2>5, <3>1, <3>2
  <2>6. 1 \in DOMAIN q
    BY <2>2, <2>3
  <2>7. view'[c] = Applied(view[c], q[1])
    BY <2>1, <2>3
  <2>8. CASE q[1].id = s
    <3>1. IsLast(q, 1)
      BY <2>5, <2>8 DEF IsLast
    <3>2. /\ q[1].removed => s \notin DOMAIN view'[c]
          /\ ~ q[1].removed => s \in DOMAIN view'[c] /\ view'[c][s] = EntryOf(q[1])
      BY <2>7, <2>8, AppliedShows
    <3> QED BY <2>q, <2>1, <2>6, <2>8, <3>1, <3>2 DEF LastRead
  <2>9. CASE q[1].id # s
    <3>1. \A j \in DOMAIN q : q[j].id # s
      BY <2>5, <2>9
    <3>2. About(q, s) = {}
      BY <3>1 DEF About
    <3>3. SameView(c, s)
      BY <2>7, <2>9, AppliedShows DEF SameView
    <3> QED BY <2>q, <2>1, <3>2, <3>3
  <2> QED BY <2>8, <2>9
<1> QED BY <1>1, <1>2, <1>3, <1>4

\* A session that a sweep has nothing to say of: it rests, or it is not committed.
LEMMA Unsaid ==
    ASSUME Shapes, Sweeping, Finite, Events, CommitSweep, NEW c \in Subs, NEW s \in Sessions,
           About(Coming(c)', s) = {}
    PROVE  /\ About(Coming(c), s) = {} /\ view' = view /\ stage' = stage /\ label' = label /\ live' = live
           /\ (s \in removed' <=> s \in removed)
           /\ \/ SweptNow(s) /\ Rests(s) /\ tr'[s].seenSeq = tr[s].seenSeq /\ tr'[s].lastLabel = label[s]
                 /\ tr[s].known
              \/ ~ tr'[s].known
<1>q. PICK q : q = queue[c]
  OBVIOUS
<1>p. PICK p : p = pending'
  OBVIOUS
<1>1. /\ q = Coming(c) /\ Coming(c)' = q \o p /\ IsSeq(q) /\ IsSeq(p)
      /\ view' = view /\ stage' = stage
  <2>1. pending = <<>> /\ queue' = queue /\ IsSeq(p) /\ view' = view /\ stage' = stage
    BY <1>p, SweepReports DEF CommitSweep, Events
  <2>2. IsSeq(queue[c])
    BY DEF Events
  <2> QED BY <1>q, <1>p, <2>1, <2>2, JoinedEmpty DEF Coming
<1>2. PICK j : j = q \o p
  OBVIOUS
<1>3. /\ DOMAIN j = 1..(Len(q) + Len(p)) /\ DOMAIN q = 1..Len(q) /\ DOMAIN p = 1..Len(p)
      /\ Len(q) \in Nat /\ Len(p) \in Nat
      /\ \A i \in 1..Len(q) : j[i] = q[i]
      /\ \A i \in 1..Len(p) : j[Len(q) + i] = p[i]
  BY <1>1, <1>2, Joined
<1>4. \A i \in DOMAIN j : j[i].id # s
  BY <1>1, <1>2 DEF About
<1>5. /\ \A i \in DOMAIN q : i \in DOMAIN j /\ j[i] = q[i]
      /\ \A i \in DOMAIN p : Len(q) + i \in DOMAIN j /\ j[Len(q) + i] = p[i]
  BY <1>3
<1>6. (\A i \in DOMAIN q : q[i].id # s) /\ (\A i \in DOMAIN p : p[i].id # s)
  BY <1>4, <1>5
<1>7. About(q, s) = {}
  BY <1>6 DEF About
<1>8. /\ SweptNow(s) => Rests(s)
      /\ s \in live \/ ~ tr[s].known
  BY <1>p, <1>6, SweepReports
<1>9. /\ removed' = removed \cup {x \in Sessions \ live : tr[x].known} /\ label' = label /\ live' = live
      /\ ~ SweptNow(s) => ~ tr'[s].known
  BY Commits
<1>10. SweptNow(s) => tr'[s].seenSeq = tr[s].seenSeq /\ tr'[s].lastLabel = label[s] /\ tr[s].known
  BY SweptDelivers
<1> QED BY <1>1, <1>7, <1>8, <1>9, <1>10

\* Every event still to be broadcast tells what is committed.
LEMMA PendingMatches ==
    ASSUME Shapes, Sweeping, Finite, Events, Streams, Next,
           NEW i \in DOMAIN pending', NEW e, e = pending'[i]
    PROVE  Matches(e)'
<1>1. CASE CommitSweep
  <2>1. PICK s \in Sessions : e.id = s /\ Reporting(e, s)
    BY <1>1, SweepReports
  <2>2. CASE SweptNow(s) /\ Tells(e, s, tr'[s], tr[s], sweep.read[s].screen)
    <3>1. tr'[s].known
      BY <1>1, <2>2, SweptDelivers
    <3> QED BY <2>1, <2>2, <3>1 DEF Matches, Tells
  <2>3. CASE s \notin live /\ tr[s].known /\ e = Removed(s)
    <3>1. s \in removed' /\ e.removed /\ e.id = s
      BY <1>1, <2>3, Commits DEF Removed
    <3> QED BY <3>1 DEF Matches
  <2> QED BY <2>1, <2>2, <2>3 DEF Reporting
<1>2. CASE ~ CommitSweep
  <2>1. pending' = pending \/ (pending # <<>> /\ pending' = Tail(pending))
    BY <1>2, Flows DEF Quiet, Broadcast, Subscribe, TakeSnapshot, Receive, Leave
  <2>2. PICK k \in DOMAIN pending : e = pending[k]
    <3>1. CASE pending # <<>> /\ pending' = Tail(pending)
      <4>1. IsSeq(pending)
        BY DEF Events
      <4>2. Thinner(pending', pending)
        BY <3>1, <4>1, ThinnerTail
      <4> QED BY <4>2 DEF Thinner
    <3> QED BY <2>1, <3>1
  <2>3. e.id \in Sessions /\ Matches(e)
    BY <2>2 DEF Events, Streams
  <2> QED BY <1>2, <2>3, MatchesStays
<1> QED BY <1>1, <1>2

\* What a subscriber will be told last of a session is what is committed of it.
LEMMA ComingMatches ==
    ASSUME Shapes, Sweeping, Finite, Events, Streams, DOMAIN told = Subs, Next,
           NEW c \in Subs, Listening(c)',
           NEW i \in DOMAIN Coming(c)', IsLast(Coming(c), i)', NEW e, e = Coming(c)'[i]
    PROVE  Matches(e)'
<1>1. CASE CommitSweep
  <2>q. PICK q : q = queue[c]
    OBVIOUS
  <2>p. PICK p : p = pending'
    OBVIOUS
  <2>j. PICK j : j = q \o p
    OBVIOUS
  <2>1. /\ q = Coming(c) /\ Coming(c)' = j /\ IsSeq(q) /\ IsSeq(p) /\ Listening(c)
    <3>1. pending = <<>> /\ queue' = queue /\ IsSeq(p) /\ stage' = stage
      BY <1>1, <2>p, SweepReports DEF CommitSweep, Events
    <3>2. IsSeq(queue[c])
      BY DEF Events
    <3> QED BY <2>q, <2>p, <2>j, <3>1, <3>2, JoinedEmpty DEF Coming, Listening
  <2>2. /\ DOMAIN j = 1..(Len(q) + Len(p)) /\ DOMAIN q = 1..Len(q) /\ DOMAIN p = 1..Len(p)
        /\ Len(q) \in Nat /\ Len(p) \in Nat
        /\ \A a \in 1..Len(q) : j[a] = q[a]
        /\ \A a \in 1..Len(p) : j[Len(q) + a] = p[a]
        /\ \A a \in 1..(Len(q) + Len(p)) : ~(a <= Len(q)) =>
             a - Len(q) \in 1..Len(p) /\ j[a] = p[a - Len(q)]
    <3>1. IsSeq(q) /\ IsSeq(p)
      BY <2>1
    <3>2. /\ DOMAIN (q \o p) = 1..(Len(q) + Len(p)) /\ DOMAIN q = 1..Len(q) /\ DOMAIN p = 1..Len(p)
          /\ Len(q) \in Nat /\ Len(p) \in Nat
          /\ \A a \in 1..Len(q) : (q \o p)[a] = q[a]
          /\ \A a \in 1..Len(p) : (q \o p)[Len(q) + a] = p[a]
          /\ \A a \in 1..(Len(q) + Len(p)) : ~(a <= Len(q)) =>
               a - Len(q) \in 1..Len(p) /\ (q \o p)[a] = p[a - Len(q)]
      BY <3>1, Joined
    <3> QED BY <2>j, <3>2
  <2>3. i \in DOMAIN j /\ e = j[i] /\ \A a \in DOMAIN j : j[a].id = e.id => a <= i
    BY <2>1 DEF IsLast
  <2>4. CASE ~(i <= Len(q))
    <3>1. i - Len(q) \in DOMAIN p /\ e = p[i - Len(q)]
      BY <2>2, <2>3, <2>4
    <3> QED BY <2>p, <3>1, PendingMatches
  <2>5. CASE i <= Len(q)
    <3>1. i \in DOMAIN q /\ e = q[i]
      BY <2>2, <2>3, <2>5
    <3>2. ASSUME NEW a \in DOMAIN p PROVE p[a].id # e.id
      <4>1. Len(q) + a \in DOMAIN j /\ j[Len(q) + a] = p[a] /\ ~(Len(q) + a <= i)
        BY <2>2, <2>3, <2>5
      <4> QED BY <2>3, <4>1
    <3>3. ASSUME NEW a \in DOMAIN q, q[a].id = e.id PROVE a <= i
      <4>1. a \in DOMAIN j /\ j[a] = q[a]
        BY <2>2
      <4> QED BY <2>3, <3>3, <4>1
    <3>4. IsLast(q, i)
      BY <3>1, <3>3 DEF IsLast
    <3>5. Matches(e) /\ e.id \in Sessions
      BY <2>1, <3>1, <3>4, ComingIs DEF Streams
    <3>6. PICK s \in Sessions : s = e.id
      BY <3>5
    <3>7. /\ SweptNow(s) => Rests(s)
          /\ s \in live \/ ~ tr[s].known
      BY <1>1, <2>p, <3>2, <3>6, SweepReports
    <3>8. CASE e.removed
      <4>1. s \in removed'
        BY <1>1, <3>5, <3>6, <3>8, Commits DEF Matches
      <4> QED BY <3>6, <3>8, <4>1 DEF Matches
    <3>9. CASE ~ e.removed
      <4>1. /\ tr[s].known /\ e.status = tr[s].lastStatus /\ e.statusSeq = tr[s].statusSeq
            /\ e.seenSeq = tr[s].lastSeenSeq /\ e.label = tr[s].lastLabel
        BY <3>5, <3>6, <3>9 DEF Matches
      <4>2. SweptNow(s)
        BY <1>1, <3>7, <4>1, Commits
      <4>3. tr'[s].known
        BY <1>1, <4>2, SweptDelivers
      <4> QED BY <3>6, <3>7, <3>9, <4>1, <4>2, <4>3 DEF Matches, Rests
    <3> QED BY <3>8, <3>9
  <2> QED BY <2>4, <2>5
<1>2. CASE ~ CommitSweep
  <2>q. PICK q : q = Coming(c)
    OBVIOUS
  <2>r. PICK r : r = Coming(c)'
    OBVIOUS
  <2>1. IsSeq(q) /\ DOMAIN q = 1..Len(q) /\ Len(q) \in Nat /\ \A k \in DOMAIN q : q[k].id \in Sessions
    BY <2>q, ComingIs
  <2>2. i \in DOMAIN r /\ e = r[i] /\ \A a \in DOMAIN r : r[a].id = e.id => a <= i
    BY <2>r DEF IsLast
  <2>3. Untouched(c) \/ Snapshots(c) \/ Takes(c)
    BY <1>2, ComingFlows DEF Loses
  <2>4. ASSUME NEW k \in DOMAIN q, e = q[k], Matches(e) PROVE Matches(e)'
    <3>1. e.id \in Sessions
      BY <2>1, <2>4
    <3> QED BY <1>2, <2>4, <3>1, MatchesStays
  <2>5. CASE r = q /\ Listening(c)
    <3>1. IsLast(q, i) /\ i \in DOMAIN q
      BY <2>2, <2>5 DEF IsLast
    <3>2. Matches(q[i])
      BY <2>q, <2>5, <3>1 DEF Streams
    <3> QED BY <2>2, <2>4, <2>5, <3>1, <3>2
  <2>6. CASE r = q /\ queue[c] = <<>>
    <3>1. IsSeq(pending)
      BY DEF Events
    <3>2. q = pending
      BY <2>q, <2>6, <3>1, JoinedEmpty DEF Coming
    <3>3. Matches(q[i])
      BY <2>2, <2>6, <3>2 DEF Streams
    <3> QED BY <2>2, <2>4, <2>6, <3>3
  <2>7. CASE q # <<>> /\ r = Tail(q) /\ Listening(c)
    <3>1. /\ IsSeq(r) /\ Len(q) >= 1 /\ Len(r) = Len(q) - 1
          /\ \A a \in 1..(Len(q) - 1) : r[a] = q[a + 1]
      BY <2>1, <2>7, TailIs
    <3>2. DOMAIN r = 1..(Len(q) - 1)
      BY <3>1, SeqParts
    <3>3. i + 1 \in DOMAIN q /\ e = q[i + 1] /\ i \in Nat
      BY <2>1, <2>2, <3>1, <3>2
    <3>4. ASSUME NEW a \in DOMAIN q, q[a].id = e.id PROVE a <= i + 1
      <4>1. CASE a = 1
        BY <3>3, <4>1
      <4>2. CASE a # 1
        <5>1. a - 1 \in DOMAIN r /\ r[a - 1] = q[(a - 1) + 1] /\ (a - 1) + 1 = a
          BY <2>1, <3>1, <3>2, <4>2
        <5>2. a - 1 <= i
          BY <2>2, <3>4, <5>1
        <5> QED BY <2>1, <3>3, <5>2
      <4> QED BY <4>1, <4>2
    <3>5. IsLast(q, i + 1)
      BY <3>3, <3>4 DEF IsLast
    <3>6. Matches(q[i + 1])
      BY <2>q, <2>7, <3>3, <3>5 DEF Streams
    <3> QED BY <2>4, <3>3, <3>6
  <2>8. Untouched(c) => r = q /\ (Listening(c) \/ queue[c] = <<>>)
    BY <2>q, <2>r DEF Untouched, Listening
  <2>9. Snapshots(c) => r = q /\ Listening(c)
    BY <2>q, <2>r DEF Snapshots, TakeSnapshot, Listening
  <2>10. Takes(c) => q # <<>> /\ r = Tail(q) /\ Listening(c)
    BY <2>q, <2>r DEF Takes, Listening
  <2> QED BY <2>3, <2>5, <2>6, <2>7, <2>8, <2>9, <2>10
<1> QED BY <1>1, <1>2

LEMMA UpToDateStep ==
    ASSUME Shapes, Sweeping, Finite, Events, Streams, DOMAIN told = Subs, Next,
           NEW c \in Subs, stage'[c] = "streaming", NEW s \in Sessions, About(Coming(c)', s) = {}
    PROVE  UpToDate(c, s)'
<1>0. Shapes'
  BY ShapesStep
<1>1. CASE CommitSweep
  <2>1. /\ About(Coming(c), s) = {} /\ view' = view /\ stage' = stage /\ live' = live
        /\ (s \in removed' <=> s \in removed)
        /\ \/ SweptNow(s) /\ Rests(s) /\ tr'[s].seenSeq = tr[s].seenSeq /\ tr[s].known
           \/ ~ tr'[s].known
    BY <1>1, Unsaid
  <2>2. UpToDate(c, s)
    BY <2>1 DEF Streams
  <2>3. CASE Committed(s)'
    <3>1. Committed(s) /\ Rests(s) /\ tr'[s].seenSeq = tr[s].seenSeq
      BY <2>1, <2>3 DEF Committed, Rests
    <3> QED BY <2>1, <2>2, <3>1 DEF UpToDate, Rests
  <2> QED BY <2>1, <2>2, <2>3 DEF UpToDate
<1>2. CASE ~ CommitSweep
  <2>1. \/ stage[c] = "streaming" /\ About(Coming(c), s) = {} /\ SameView(c, s)
        \/ view'[c] = snapshot
        \/ stage[c] = "streaming" /\ LastRead(c, s)
    BY <1>2, ShownBecause
  <2>2. CASE stage[c] = "streaming" /\ About(Coming(c), s) = {} /\ SameView(c, s)
    <3>1. UpToDate(c, s)
      BY <2>2 DEF Streams
    <3> QED BY <1>2, <2>2, <3>1, UpToDateStays
  <2>3. /\ removed' = removed
        /\ \/ /\ tr[s].known /\ tr'[s].known
              /\ tr'[s].lastStatus = tr[s].lastStatus /\ tr'[s].statusSeq = tr[s].statusSeq
              /\ tr'[s].lastSeenSeq = tr[s].lastSeenSeq /\ tr'[s].lastLabel = tr[s].lastLabel
              /\ tr'[s].seenSeq >= tr[s].seenSeq /\ (s \in live' => s \in live)
           \/ ~ tr[s].known /\ (tr'[s] = NewTracker \/ ~ tr'[s].known)
    BY <1>2, CommittedStays
  <2>4. Committed(s)' => Committed(s)
    <3>1. NewTracker.lastStatus = ""
      BY DEF NewTracker
    <3> QED BY <2>3, <3>1 DEF Committed
  <2>5. Committed(s)' => tr'[s].seenSeq \in Nat /\ tr[s].seenSeq \in Nat /\ tr[s].lastSeenSeq \in Nat
                         /\ tr[s].lastSeenSeq <= tr[s].seenSeq
    <3>1. Committed(s) => tr[s].seenSeq \in Nat /\ tr[s].lastSeenSeq \in Nat
                          /\ tr[s].lastSeenSeq <= tr[s].seenSeq
      BY TrackedIs DEF Committed
    <3>2. ASSUME tr'[s].known PROVE tr'[s].seenSeq \in Nat
      BY <1>0, <3>2 DEF Shapes, Tracked, NoTracker
    <3> QED BY <2>4, <3>1, <3>2 DEF Committed
  <2>6. CASE view'[c] = snapshot
    <3>1. /\ Committed(s) =>
               /\ s \in DOMAIN view'[c] /\ view'[c][s].status = tr[s].lastStatus
               /\ view'[c][s].statusSeq = tr[s].statusSeq
               /\ view'[c][s].seenSeq \in tr[s].lastSeenSeq .. tr[s].seenSeq
          /\ s \in removed => s \notin DOMAIN view'[c]
      BY <2>6, SnapshotShows
    <3>2. Committed(s)' => view'[c][s].seenSeq \in tr'[s].lastSeenSeq .. tr'[s].seenSeq
      <4> SUFFICES ASSUME Committed(s)'
                   PROVE  view'[c][s].seenSeq \in tr'[s].lastSeenSeq .. tr'[s].seenSeq
        OBVIOUS
      <4>1. /\ tr'[s].lastSeenSeq = tr[s].lastSeenSeq /\ tr'[s].seenSeq >= tr[s].seenSeq
            /\ view'[c][s].seenSeq \in tr[s].lastSeenSeq .. tr[s].seenSeq
        BY <2>3, <2>4, <3>1 DEF Committed
      <4> QED BY <2>5, <4>1
    <3> QED BY <2>3, <2>4, <3>1, <3>2 DEF UpToDate, Committed
  <2>7. CASE stage[c] = "streaming" /\ LastRead(c, s)
    <3>1. PICK e : \E i \in DOMAIN Coming(c) :
            /\ e = Coming(c)[i] /\ e.id = s /\ IsLast(Coming(c), i)
            /\ e.removed => s \notin DOMAIN view'[c]
            /\ ~ e.removed => s \in DOMAIN view'[c] /\ view'[c][s] = EntryOf(e)
      BY <2>7 DEF LastRead
    <3>2. Matches(e)
      BY <2>7, <3>1 DEF Streams, Listening
    <3>3. CASE e.removed
      <4>1. s \in removed'
        BY <2>3, <3>1, <3>2, <3>3 DEF Matches
      <4>2. ~ Committed(s)'
        BY <1>0, <4>1 DEF Shapes, Committed
      <4> QED BY <3>1, <3>3, <4>2 DEF UpToDate
    <3>4. CASE ~ e.removed
      <4>1. /\ tr[s].known /\ e.status = tr[s].lastStatus /\ e.statusSeq = tr[s].statusSeq
            /\ e.seenSeq = tr[s].lastSeenSeq
        BY <3>1, <3>2, <3>4 DEF Matches
      <4>2. s \notin removed'
        BY <2>3, <4>1, TrackedIs
      <4>3. /\ view'[c][s].status = e.status /\ view'[c][s].statusSeq = e.statusSeq
            /\ view'[c][s].seenSeq = e.seenSeq
        BY <3>1, <3>4 DEF EntryOf, Entry
      <4>4. Committed(s)' => view'[c][s].seenSeq \in tr'[s].lastSeenSeq .. tr'[s].seenSeq
        BY <2>3, <2>5, <4>1, <4>3
      <4> QED BY <2>3, <3>1, <3>4, <4>1, <4>2, <4>3, <4>4 DEF UpToDate
    <3> QED BY <3>3, <3>4
  <2> QED BY <2>1, <2>2, <2>6, <2>7
<1> QED BY <1>1, <1>2

LEMMA StreamsStep ==
    ASSUME Shapes, Sweeping, Finite, Events, Streams, DOMAIN told = Subs, Next
    PROVE  Streams'
<1>1. ASSUME NEW i \in DOMAIN pending' PROVE (Matches(pending[i]))'
  <2>1. PICK e : e = pending'[i]
    OBVIOUS
  <2>2. Matches(e)'
    BY <1>1, <2>1, PendingMatches
  <2> QED BY <2>1, <2>2 DEF Matches
<1>2. ASSUME NEW c \in Subs, Listening(c)', NEW i \in DOMAIN Coming(c)', IsLast(Coming(c), i)'
      PROVE  (Matches(Coming(c)[i]))'
  <2>1. PICK e : e = Coming(c)'[i]
    OBVIOUS
  <2>2. Matches(e)'
    BY <1>2, <2>1, ComingMatches
  <2> QED BY <2>1, <2>2 DEF Matches
<1>3. ASSUME NEW c \in Subs, stage'[c] = "streaming", NEW s \in Sessions, About(Coming(c)', s) = {}
      PROVE  UpToDate(c, s)'
  BY <1>3, UpToDateStep
<1> QED BY <1>1, <1>2, <1>3 DEF Streams

\* A title that changes is a new one.
Renames == \A s \in Sessions : label'[s] = label[s] \/ label'[s] > label[s]

LEMMA TitlesStep ==
    ASSUME Shapes, Sweeping, Finite, Events, Streams, Titles, DOMAIN told = Subs, Next, Renames
    PROVE  Titles'
<1>0. Shapes'
  BY ShapesStep
<1>1. \A s \in Sessions : label[s] \in Nat /\ label'[s] \in Nat
  BY <1>0 DEF Shapes
<1>2. \A s \in Sessions : tr[s].known => tr[s].lastLabel \in Nat /\ tr[s].lastLabel <= label[s]
  BY DEF Titles
<1>3. ASSUME NEW s \in Sessions, ~ CommitSweep
      PROVE  \/ tr[s].known /\ tr'[s].known /\ tr'[s].lastLabel = tr[s].lastLabel
             \/ ~ tr[s].known /\ (tr'[s] = NewTracker \/ ~ tr'[s].known)
  BY <1>3, CommittedStays
<1>4. NewTracker.lastStatus = "" /\ NewTracker.lastLabel = 0
  BY DEF NewTracker
<1>5. ASSUME NEW s \in Sessions, tr'[s].known
      PROVE  tr'[s].lastLabel \in Nat /\ tr'[s].lastLabel <= label'[s]
  <2>1. CASE CommitSweep
    <3>1. SweptNow(s) /\ label' = label
      BY <1>5, <2>1, Commits
    <3>2. tr'[s].lastLabel = label[s]
      BY <2>1, <3>1, SweptDelivers
    <3> QED BY <1>1, <3>1, <3>2
  <2>2. CASE ~ CommitSweep
    <3>1. label[s] \in Nat /\ label'[s] \in Nat /\ (label'[s] = label[s] \/ label'[s] > label[s])
      BY <1>1 DEF Renames
    <3>2. CASE tr[s].known /\ tr'[s].lastLabel = tr[s].lastLabel
      <4>1. tr[s].lastLabel \in Nat /\ tr[s].lastLabel <= label[s]
        BY <1>2, <3>2
      <4> QED BY <3>1, <3>2, <4>1
    <3>3. CASE tr'[s] = NewTracker
      <4>1. tr'[s].lastLabel = 0
        BY <1>4, <3>3
      <4>2. 0 <= label'[s]
        BY <3>1
      <4> QED BY <4>1, <4>2
    <3> QED BY <1>3, <1>5, <2>2, <3>2, <3>3
  <2> QED BY <2>1, <2>2
<1>6. ASSUME NEW c \in Subs, stage'[c] = "streaming", NEW s \in Sessions, About(Coming(c)', s) = {},
             Committed(s)'
      PROVE  view'[c][s].label = label'[s] \/ tr'[s].lastLabel # label'[s]
  <2>1. CASE CommitSweep
    <3>1. /\ About(Coming(c), s) = {} /\ view' = view /\ stage' = stage /\ label' = label /\ live' = live
          /\ \/ SweptNow(s) /\ Rests(s) /\ tr'[s].lastLabel = label[s] /\ tr[s].known
             \/ ~ tr'[s].known
      BY <1>6, <2>1, Unsaid
    <3>2. Rests(s) /\ tr'[s].lastLabel = label[s] /\ Committed(s)
      BY <1>6, <3>1 DEF Committed, Rests
    <3>3. Titled(c, s)
      BY <1>6, <3>1 DEF Titles
    <3> QED BY <3>1, <3>2, <3>3 DEF Titled, Rests
  <2>2. CASE ~ CommitSweep
    <3>1. tr[s].known /\ tr'[s].lastLabel = tr[s].lastLabel /\ s \in live /\ tr[s].lastStatus # ""
      BY <1>4, <1>6, <2>2, CommittedStays DEF Committed
    <3>2. tr[s].lastLabel \in Nat /\ tr[s].lastLabel <= label[s]
      BY <1>2, <3>1
    <3>3. label'[s] # label[s] => tr'[s].lastLabel # label'[s]
      <4>1. label[s] \in Nat /\ label'[s] \in Nat /\ (label'[s] = label[s] \/ label'[s] > label[s])
        BY <1>1 DEF Renames
      <4>2. tr[s].lastLabel # label'[s] \/ label'[s] = label[s]
        BY <3>2, <4>1
      <4> QED BY <3>1, <4>2
    <3>4. \/ stage[c] = "streaming" /\ About(Coming(c), s) = {} /\ SameView(c, s)
          \/ view'[c] = snapshot
          \/ stage[c] = "streaming" /\ LastRead(c, s)
      BY <1>6, <2>2, ShownBecause
    <3>5. CASE stage[c] = "streaming" /\ About(Coming(c), s) = {} /\ SameView(c, s)
      <4>1. UpToDate(c, s) /\ Titled(c, s) /\ Committed(s)
        BY <3>1, <3>5 DEF Streams, Titles, Committed
      <4>2. view'[c][s] = view[c][s]
        BY <3>5, <4>1 DEF UpToDate, SameView
      <4> QED BY <3>1, <3>3, <4>1, <4>2 DEF Titled
    <3>6. CASE view'[c] = snapshot
      <4>1. view'[c][s].label = label[s]
        BY <3>1, <3>6, SnapshotShows DEF Committed
      <4> QED BY <3>3, <4>1
    <3>7. CASE stage[c] = "streaming" /\ LastRead(c, s)
      <4>1. PICK e : \E i \in DOMAIN Coming(c) :
              /\ e = Coming(c)[i] /\ e.id = s /\ IsLast(Coming(c), i)
              /\ ~ e.removed => s \in DOMAIN view'[c] /\ view'[c][s] = EntryOf(e)
        BY <3>7 DEF LastRead
      <4>2. Matches(e) /\ s \notin removed
        BY <3>1, <3>7, <4>1, TrackedIs DEF Streams, Listening
      <4>3. ~ e.removed /\ e.label = tr[s].lastLabel
        BY <4>1, <4>2 DEF Matches
      <4>4. view'[c][s].label = e.label
        BY <4>1, <4>3 DEF EntryOf, Entry
      <4> QED BY <3>1, <4>3, <4>4
    <3> QED BY <3>4, <3>5, <3>6, <3>7
  <2> QED BY <2>1, <2>2
<1> QED BY <1>5, <1>6 DEF Titles, Titled

StreamInv == NoticeInv /\ Streams

LEMMA StreamInit == ASSUME Init PROVE StreamInv /\ Titles
<1>1. NoticeInv
  BY NoticeInit
<1>2. \A c \in Subs : stage[c] = "away" /\ ~ Listening(c)
  BY DEF Init, Listening
<1>3. DOMAIN pending = {}
  BY EmptyIs DEF Init
<1>4. \A s \in Sessions : ~ tr[s].known
  BY DEF Init, NoTracker
<1> QED BY <1>1, <1>2, <1>3, <1>4 DEF StreamInv, Streams, Titles

LEMMA StreamStep == ASSUME StreamInv, [Next]_vars PROVE StreamInv'
<1>1. NoticeInv'
  BY NoticeStep DEF StreamInv
<1>2. CASE Next
  <2>1. Shapes /\ Sweeping /\ Finite /\ Events /\ Streams /\ DOMAIN told = Subs
    BY DEF StreamInv, NoticeInv, CueInv, Notices
  <2>2. Streams'
    BY <1>2, <2>1, StreamsStep
  <2> QED BY <1>1, <2>2 DEF StreamInv
<1>3. CASE UNCHANGED vars
  <2>u. /\ live' = live /\ tr' = tr /\ removed' = removed /\ pending' = pending /\ queue' = queue
        /\ stage' = stage /\ view' = view
    BY <1>3 DEF vars, sessionVars, subVars, historyVars
  <2>c. \A c \in Subs : Coming(c)' = Coming(c)
    BY <2>u DEF Coming
  <2>m. ASSUME NEW e, Matches(e) PROVE Matches(e)'
    BY <2>u, <2>m DEF Matches
  <2>s. Streams
    BY DEF StreamInv
  <2>1. ASSUME NEW i \in DOMAIN pending' PROVE (Matches(pending[i]))'
    <3>1. PICK e : e = pending[i]
      OBVIOUS
    <3>2. Matches(e)'
      BY <2>u, <2>s, <2>m, <2>1, <3>1 DEF Streams
    <3> QED BY <2>u, <3>1, <3>2 DEF Matches
  <2>2. ASSUME NEW c \in Subs, Listening(c)', NEW i \in DOMAIN Coming(c)', IsLast(Coming(c), i)'
        PROVE  (Matches(Coming(c)[i]))'
    <3>1. PICK e : e = Coming(c)[i]
      OBVIOUS
    <3>2. Listening(c) /\ IsLast(Coming(c), i) /\ i \in DOMAIN Coming(c)
      BY <2>u, <2>c, <2>2 DEF Listening, IsLast
    <3>3. Matches(e)'
      BY <2>s, <2>m, <3>1, <3>2 DEF Streams
    <3>4. e = Coming(c)'[i]
      BY <2>c, <3>1
    <3> QED BY <3>3, <3>4 DEF Matches
  <2>3. ASSUME NEW c \in Subs, stage'[c] = "streaming", NEW s \in Sessions, About(Coming(c)', s) = {}
        PROVE  UpToDate(c, s)'
    <3>1. UpToDate(c, s)
      BY <2>u, <2>c, <2>s, <2>3 DEF Streams
    <3> QED BY <2>u, <3>1 DEF UpToDate, Committed
  <2>4. Streams'
    BY <2>1, <2>2, <2>3 DEF Streams
  <2> QED BY <1>1, <2>4 DEF StreamInv
<1> QED BY <1>2, <1>3

\* What a page will show of a session.
LEMMA FinalIs ==
    ASSUME Events, NEW c \in Subs, NEW s \in Sessions
    PROVE  /\ About(Coming(c), s) = {} =>
                /\ s \in DOMAIN Final(c) <=> s \in DOMAIN view[c]
                /\ (s \in DOMAIN Final(c) => Final(c)[s] = view[c][s])
           /\ About(Coming(c), s) # {} =>
                \E e : \E i \in DOMAIN Coming(c) :
                    /\ e = Coming(c)[i] /\ e.id = s /\ IsLast(Coming(c), i)
                    /\ s \in DOMAIN Final(c) <=> ~ e.removed
                    /\ (s \in DOMAIN Final(c) => Final(c)[s] = EntryOf(e))
<1> DEFINE q == Coming(c)
<1>1. /\ DOMAIN Final(c) = Stays(c)
      /\ s \in Stays(c) => Final(c)[s] = IF About(q, s) = {} THEN view[c][s] ELSE EntryOf(Latest(q, s))
  BY DEF Final
<1>2. s \in Stays(c) <=> IF About(q, s) = {} THEN s \in DOMAIN view[c] ELSE ~ Latest(q, s).removed
  BY DEF Stays
<1>3. IsSeq(q) /\ DOMAIN q = 1..Len(q) /\ Len(q) \in Nat
  BY ComingIs
<1> HIDE DEF q
<1>4. ASSUME About(q, s) # {}
      PROVE  \E i \in DOMAIN q : q[i].id = s /\ IsLast(q, i) /\ Latest(q, s) = q[i]
  <2> DEFINE T == About(q, s)
             i == CHOOSE k \in T : \A j \in T : j <= k
  <2>1. T \in SUBSET (1..Len(q)) /\ T # {}
    BY <1>3, <1>4 DEF About
  <2>2. Latest(q, s) = q[i]
    BY DEF Latest
  <2> HIDE DEF T
  <2>3. i \in T /\ \A j \in T : j <= i
    BY <1>3, <2>1, Greatest
  <2> HIDE DEF i
  <2>4. i \in DOMAIN q /\ q[i].id = s /\ IsLast(q, i)
    BY <2>3 DEF T, About, IsLast
  <2> QED BY <2>2, <2>4
<1>5. CASE About(q, s) = {}
  BY <1>1, <1>2, <1>5 DEF q
<1>6. CASE About(q, s) # {}
  <2>1. PICK i \in DOMAIN q : q[i].id = s /\ IsLast(q, i) /\ Latest(q, s) = q[i]
    BY <1>4, <1>6
  <2>2. /\ s \in DOMAIN Final(c) <=> ~ q[i].removed
        /\ (s \in DOMAIN Final(c) => Final(c)[s] = EntryOf(q[i]))
    BY <1>1, <1>2, <1>6, <2>1
  <2> QED BY <1>6, <2>1, <2>2 DEF q
<1> QED BY <1>5, <1>6

LEMMA StatusesAreCommitted == ASSUME StreamInv PROVE StatusesConverge
<1>1. Shapes /\ Events /\ Streams
  BY DEF StreamInv, NoticeInv, CueInv
<1> SUFFICES ASSUME NEW c \in Subs, stage[c] = "streaming", NEW s \in Sessions
             PROVE  /\ Committed(s) =>
                         /\ s \in DOMAIN Final(c)
                         /\ Final(c)[s].status = tr[s].lastStatus /\ Final(c)[s].statusSeq = tr[s].statusSeq
                         /\ Final(c)[s].seenSeq \in tr[s].lastSeenSeq .. tr[s].seenSeq
                    /\ s \in removed => s \notin DOMAIN Final(c)
  BY DEF StatusesConverge
<1>2. CASE About(Coming(c), s) = {}
  <2>1. /\ s \in DOMAIN Final(c) <=> s \in DOMAIN view[c]
        /\ (s \in DOMAIN Final(c) => Final(c)[s] = view[c][s])
    BY <1>1, <1>2, FinalIs
  <2>2. UpToDate(c, s)
    BY <1>1, <1>2 DEF Streams
  <2> QED BY <2>1, <2>2 DEF UpToDate
<1>3. CASE About(Coming(c), s) # {}
  <2>1. PICK e : \E i \in DOMAIN Coming(c) :
          /\ e = Coming(c)[i] /\ e.id = s /\ IsLast(Coming(c), i)
          /\ s \in DOMAIN Final(c) <=> ~ e.removed
          /\ (s \in DOMAIN Final(c) => Final(c)[s] = EntryOf(e))
    BY <1>1, <1>3, FinalIs
  <2>2. Matches(e)
    BY <1>1, <2>1 DEF Streams, Listening
  <2>3. tr[s].known => tr[s].seenSeq \in Nat /\ tr[s].lastSeenSeq \in Nat
                       /\ tr[s].lastSeenSeq <= tr[s].seenSeq /\ s \notin removed
    BY <1>1, TrackedIs
  <2>4. CASE e.removed
    BY <2>1, <2>2, <2>3, <2>4 DEF Matches, Committed
  <2>5. CASE ~ e.removed
    <3>1. /\ tr[s].known /\ e.status = tr[s].lastStatus /\ e.statusSeq = tr[s].statusSeq
          /\ e.seenSeq = tr[s].lastSeenSeq
      BY <2>1, <2>2, <2>5 DEF Matches
    <3>2. s \in DOMAIN Final(c) /\ Final(c)[s] = EntryOf(e)
      BY <2>1, <2>5
    <3>3. /\ Final(c)[s].status = e.status /\ Final(c)[s].statusSeq = e.statusSeq
          /\ Final(c)[s].seenSeq = e.seenSeq
      BY <3>2 DEF EntryOf, Entry
    <3>4. Final(c)[s].seenSeq \in tr[s].lastSeenSeq .. tr[s].seenSeq
      BY <2>3, <3>1, <3>3
    <3> QED BY <2>3, <3>1, <3>2, <3>3, <3>4
  <2> QED BY <2>4, <2>5
<1> QED BY <1>2, <1>3

LEMMA TitlesAreCommitted == ASSUME StreamInv, Titles PROVE TitlesConverge
<1>1. Shapes /\ Events /\ Streams
  BY DEF StreamInv, NoticeInv, CueInv
<1> SUFFICES ASSUME NEW c \in Subs, stage[c] = "streaming", NEW s \in Sessions, Committed(s)
             PROVE  Final(c)[s].label = label[s] \/ tr[s].lastLabel # label[s]
  BY DEF TitlesConverge
<1>2. s \in DOMAIN Final(c)
  BY StatusesAreCommitted DEF StatusesConverge
<1>3. CASE About(Coming(c), s) = {}
  <2>1. Final(c)[s] = view[c][s]
    BY <1>1, <1>2, <1>3, FinalIs
  <2>2. Titled(c, s)
    BY <1>3 DEF Titles
  <2> QED BY <2>1, <2>2 DEF Titled
<1>4. CASE About(Coming(c), s) # {}
  <2>1. PICK e : \E i \in DOMAIN Coming(c) :
          /\ e = Coming(c)[i] /\ e.id = s /\ IsLast(Coming(c), i)
          /\ s \in DOMAIN Final(c) <=> ~ e.removed
          /\ (s \in DOMAIN Final(c) => Final(c)[s] = EntryOf(e))
    BY <1>1, <1>4, FinalIs
  <2>2. Matches(e) /\ ~ e.removed
    BY <1>1, <1>2, <2>1 DEF Streams, Listening
  <2>3. e.label = tr[s].lastLabel
    BY <2>1, <2>2 DEF Matches
  <2>4. Final(c)[s].label = e.label
    BY <1>2, <2>1 DEF EntryOf, Entry
  <2> QED BY <2>3, <2>4
<1> QED BY <1>3, <1>4

LEMMA StreamInvariant == Spec => []StreamInv
<1>1. Init => StreamInv
  BY StreamInit
<1>2. StreamInv /\ [Next]_vars => StreamInv'
  BY StreamStep
<1> QED BY <1>1, <1>2, PTL DEF Spec

(* With all that is queued and about to be sent read, a page shows of      *)
(* every session swept the status, its number and the mark that the last   *)
(* sweep committed, and no session reported removed, for any number of     *)
(* sessions, pages and events in a buffer (diffStatuses, broadcast,        *)
(* subscribe before snapshot).                                             *)
THEOREM StatusesConvergeAlways == Spec => []StatusesConverge
<1>1. StreamInv => StatusesConverge
  BY StatusesAreCommitted
<1> QED BY <1>1, StreamInvariant, PTL

(* And its title, as long as a title that was changed does not come back:  *)
(* the sweep compares titles by value, so it cannot tell one put back      *)
(* between two sweeps from one that never changed.                         *)
THEOREM ViewsConvergeWithNewTitles == Spec /\ TitlesAreNew => []ViewsConverge
<1>1. Init => StreamInv /\ Titles
  BY StreamInit
<1>2. /\ StreamInv /\ Titles /\ [Next]_vars
      /\ [\A s \in Sessions : label'[s] = label[s] \/ label'[s] > label[s]]_vars
      => StreamInv' /\ Titles'
  <2> SUFFICES ASSUME StreamInv, Titles, [Next]_vars,
                      [\A s \in Sessions : label'[s] = label[s] \/ label'[s] > label[s]]_vars
               PROVE  StreamInv' /\ Titles'
    OBVIOUS
  <2>1. StreamInv'
    BY StreamStep
  <2>2. CASE UNCHANGED vars
    BY <2>1, <2>2 DEF Titles, Titled, Committed, Coming, vars, sessionVars, subVars
  <2>3. CASE Next /\ \A s \in Sessions : label'[s] = label[s] \/ label'[s] > label[s]
    <3>1. Shapes /\ Sweeping /\ Finite /\ Events /\ Streams /\ DOMAIN told = Subs
      BY DEF StreamInv, NoticeInv, CueInv, Notices
    <3> QED BY <2>1, <2>3, <3>1, TitlesStep DEF Renames
  <2> QED BY <2>2, <2>3
<1>3. StreamInv /\ Titles => ViewsConverge
  BY StatusesAreCommitted, TitlesAreCommitted DEF ViewsConverge
<1> QED BY <1>1, <1>2, <1>3, PTL DEF Spec, TitlesAreNew

=============================================================================
