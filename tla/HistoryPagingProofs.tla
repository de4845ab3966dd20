------------------------- MODULE HistoryPagingProofs -------------------------
(***************************************************************************)
(* The ring arithmetic for every capacity: whatever mix of growth, eviction  *)
(* and clearing came before, slot (start + i) % size holds the i-th retained *)
(* line, so a read returns the committed lines under their own indices.  And *)
(* the page that reads it back: what its store, its requests and the frames  *)
(* under way promise each other, whatever order they meet in.                *)
(***************************************************************************)
EXTENDS HistoryPaging, SequenceTheorems, FiniteSetTheorems, WellFoundedInduction,
        NaturalsInduction, TLAPS

\* Ring positions wrap once at most.
LEMMA WrapOnce ==
    ASSUME NEW n \in Nat \ {0}, NEW x \in 0..(n - 1), NEW i \in 0..n
    PROVE  (x + i) % n = IF x + i < n THEN x + i ELSE x + i - n
<1>1. CASE x + i < n
  BY <1>1
<1>2. CASE x + i >= n
  BY <1>2
<1> QED BY <1>1, <1>2

\* A position inside the array stays where it is.
LEMMA Unwrapped ==
    ASSUME NEW n \in Nat \ {0}, NEW i \in 0..(n - 1)
    PROVE  i % n = i
<1>1. 0 \in 0..(n - 1) /\ i \in 0..n
  OBVIOUS
<1>2. (0 + i) % n = IF 0 + i < n THEN 0 + i ELSE 0 + i - n
  BY <1>1, WrapOnce
<1>3. 0 + i = i /\ i < n
  OBVIOUS
<1> QED BY <1>2, <1>3

\* In a full ring, positions from the slot past start are the positions from
\* start shifted by one; only the last of them is start itself.
LEMMA FullRing ==
    ASSUME NEW n \in Nat \ {0}, NEW x \in 0..(n - 1), NEW i \in 0..(n - 1)
    PROVE  /\ (x + 1) % n \in 0..(n - 1)
           /\ (((x + 1) % n) + i) % n = (x + (i + 1)) % n
           /\ (x + (i + 1)) % n \in 0..(n - 1)
           /\ (x + (i + 1)) % n = x <=> i = n - 1
<1> DEFINE y == IF x + 1 < n THEN x + 1 ELSE 0
<1>1. y \in 0..(n - 1) /\ 1 \in 0..n /\ i \in 0..n /\ i + 1 \in 0..n
  OBVIOUS
<1>2. (x + 1) % n = y
  <2>1. 1 \in 0..n
    BY <1>1
  <2>2. (x + 1) % n = IF x + 1 < n THEN x + 1 ELSE x + 1 - n
    <3> DEFINE one == 1
    <3> HIDE DEF one
    <3>1. one \in 0..n
      BY <2>1 DEF one
    <3>2. (x + one) % n = IF x + one < n THEN x + one ELSE x + one - n
      BY <3>1, WrapOnce
    <3> QED BY <3>2 DEF one
  <2>3. x + 1 < n \/ x + 1 - n = 0
    OBVIOUS
  <2> QED BY <2>2, <2>3
<1>3. (y + i) % n = IF y + i < n THEN y + i ELSE y + i - n
  BY <1>1, WrapOnce
<1>4. (x + (i + 1)) % n = IF x + (i + 1) < n THEN x + (i + 1) ELSE x + (i + 1) - n
  <2> DEFINE j == i + 1
  <2>1. j \in 0..n
    BY <1>1
  <2> HIDE DEF j
  <2>2. (x + j) % n = IF x + j < n THEN x + j ELSE x + j - n
    BY <2>1, WrapOnce
  <2> QED BY <2>2 DEF j
<1> QED BY <1>1, <1>2, <1>3, <1>4

RingInv == TypeOK /\ SlotsMatchIndices

\* The empty ring.
LEMMA RingInvInit == Init => RingInv
BY CapacityAssumption
DEF Init, RingInv, TypeOK, SlotsMatchIndices, Slots

\* A committed line extends the history.
LEMMA CommitExtends ==
    ASSUME TypeOK, NEW line \in Lines, Commit(line)
    PROVE  /\ committed' = committed + 1
           /\ history' \in Seq(Lines) /\ Len(history') = committed'
           /\ history'[committed + 1] = line
           /\ \A j \in 1..committed : history'[j] = history[j]
BY DEF TypeOK, Commit

\* Appending while there is room.
LEMMA GrowingStep ==
    ASSUME RingInv, NEW line \in Lines, AppendGrowing(line)
    PROVE  RingInv'
<1>1. /\ capacity' = capacity /\ capacity \in Nat /\ capacity > 0
      /\ start' = start /\ start = 0
      /\ size \in Nat /\ size < capacity /\ size' = size + 1
      /\ count = size /\ count' = size + 1
      /\ buf' = [buf EXCEPT ![size] = line] /\ buf \in [0..(capacity - 1) -> Lines]
      /\ committed \in Nat /\ count <= committed
      /\ Commit(line)
  BY CapacityAssumption DEF RingInv, TypeOK, SlotsMatchIndices, AppendGrowing, Slots
<1>2. TypeOK'
  BY <1>1, CommitExtends DEF RingInv, TypeOK, Slots
<1>3. \A i \in 0..(count' - 1) : At(i)' = history'[committed' - count' + i + 1]
  <2> SUFFICES ASSUME NEW i \in 0..(count' - 1)
               PROVE  At(i)' = history'[committed' - count' + i + 1]
    OBVIOUS
  <2>1. At(i)' = buf'[i]
    <3> DEFINE n == size + 1
    <3>1. n \in Nat \ {0} /\ i \in 0..(n - 1)
      BY <1>1
    <3> HIDE DEF n
    <3>2. i % n = i
      BY <3>1, Unwrapped
    <3>3. start' + i = i /\ size' = n
      BY <1>1, <3>1 DEF n
    <3>4. At(i)' = buf'[(start' + i) % size']
      BY DEF At
    <3> QED BY <3>2, <3>3, <3>4
  <2>2. CASE i = size
    BY <1>1, <2>1, <2>2, CommitExtends DEF RingInv
  <2>3. CASE i < size
    <3>1. At(i) = history[committed - count + i + 1]
      BY <1>1, <2>3 DEF RingInv, SlotsMatchIndices
    <3>2. At(i) = buf[i]
      <4>1. size \in Nat \ {0} /\ i \in 0..(size - 1)
        BY <1>1, <2>3
      <4>2. i % size = i
        BY <4>1, Unwrapped
      <4>3. start + i = i
        BY <1>1, <4>1
      <4>4. At(i) = buf[(start + i) % size]
        BY DEF At
      <4> QED BY <4>2, <4>3, <4>4
    <3>3. At(i)' = buf[i]
      BY <1>1, <2>1, <2>3
    <3>4. committed - count + i + 1 \in 1..committed
      BY <1>1, <2>3
    <3>5. committed' - count' = committed - count
      BY <1>1, CommitExtends DEF RingInv
    <3> DEFINE j == committed - count + i + 1
    <3> HIDE DEF j
    <3>6. history'[j] = history[j]
      BY <1>1, <3>4, CommitExtends DEF RingInv, j
    <3>7. committed' - count' + i + 1 = j
      BY <3>5 DEF j
    <3>8. At(i) = history[j]
      BY <3>1 DEF j
    <3> QED BY <3>2, <3>3, <3>6, <3>7, <3>8
  <2> QED BY <1>1, <2>2, <2>3
<1>4. SlotsMatchIndices'
  <2>1. committed' = committed + 1
    BY <1>1 DEF Commit
  <2>2. count' = size' /\ start' = 0 /\ count' <= committed'
    BY <1>1, <2>1
  <2> QED BY <1>3, <2>2 DEF SlotsMatchIndices
<1> QED BY <1>2, <1>4 DEF RingInv

\* Appending at capacity: one store and one advance are the whole eviction.
LEMMA EvictingStep ==
    ASSUME RingInv, NEW line \in Lines, AppendEvicting(line)
    PROVE  RingInv'
<1>1. /\ capacity' = capacity /\ capacity \in Nat \ {0}
      /\ size = capacity /\ size' = size
      /\ count = capacity /\ count' = count
      /\ start \in 0..(capacity - 1)
      /\ start' = (start + 1) % capacity
      /\ buf' = [buf EXCEPT ![start] = line] /\ buf \in [0..(capacity - 1) -> Lines]
      /\ committed \in Nat /\ count <= committed
      /\ Commit(line)
  BY CapacityAssumption DEF RingInv, TypeOK, SlotsMatchIndices, AppendEvicting, Slots
<1>2. start' \in 0..(capacity - 1)
  BY <1>1, FullRing
<1>3. TypeOK'
  BY <1>1, <1>2, CommitExtends DEF RingInv, TypeOK, Slots
<1>4. \A i \in 0..(count' - 1) : At(i)' = history'[committed' - count' + i + 1]
  <2> SUFFICES ASSUME NEW i \in 0..(capacity - 1)
               PROVE  At(i)' = history'[committed' - count' + i + 1]
    BY <1>1
  <2> DEFINE slot == (start + (i + 1)) % capacity
  <2>1. slot \in 0..(capacity - 1) /\ (slot = start <=> i = capacity - 1)
    BY <1>1, FullRing
  <2>2. At(i)' = buf'[slot]
    <3>1. (start' + i) % capacity = slot
      BY <1>1, FullRing, ZenonT(60)
    <3> QED BY <1>1, <3>1 DEF At
  <2>3. CASE i = capacity - 1
    <3>1. buf'[slot] = line
      BY <1>1, <2>1, <2>3
    <3> QED BY <1>1, <2>2, <2>3, <3>1, CommitExtends DEF RingInv
  <2>4. CASE i < capacity - 1
    <3>1. buf'[slot] = At(i + 1)
      BY <1>1, <2>1, <2>4 DEF At
    <3>2. At(i + 1) = history[committed - count + (i + 1) + 1]
      <4>1. i + 1 \in 0..(count - 1)
        BY <1>1, <2>4
      <4> QED BY <4>1 DEF RingInv, SlotsMatchIndices
    <3> QED BY <1>1, <2>2, <2>4, <3>1, <3>2, CommitExtends DEF RingInv
  <2> QED BY <1>1, <2>3, <2>4
<1>5. SlotsMatchIndices'
  <2>1. committed' = committed + 1
    BY <1>1 DEF Commit
  <2>2. count' = size' /\ ~(size' < capacity') /\ count' <= committed'
    BY <1>1, <2>1
  <2> QED BY <1>4, <2>2 DEF SlotsMatchIndices
<1> QED BY <1>3, <1>5 DEF RingInv

\* Every step preserves the invariant.
LEMMA RingInvStep == RingInv /\ [Next]_vars => RingInv'
<1> SUFFICES ASSUME RingInv, [Next]_vars PROVE RingInv'
  OBVIOUS
<1>1. ASSUME NEW line \in Lines, AppendDisabled(line) PROVE RingInv'
  <2>1. capacity = 0 /\ Commit(line) /\ UNCHANGED <<capacity, buf, size, start, count>>
    BY <1>1 DEF AppendDisabled
  <2>2. count = 0 /\ count' = 0 /\ size' = 0 /\ start' = 0
    BY <2>1 DEF RingInv, TypeOK
  <2> QED BY <2>1, <2>2, CommitExtends DEF RingInv, TypeOK, SlotsMatchIndices, Slots
<1>2. ASSUME NEW line \in Lines, AppendGrowing(line) PROVE RingInv'
  BY <1>2, GrowingStep
<1>3. ASSUME NEW line \in Lines, AppendEvicting(line) PROVE RingInv'
  BY <1>3, EvictingStep
<1>4. CASE Clear
  BY <1>4, CapacityAssumption DEF Clear, RingInv, TypeOK, SlotsMatchIndices, Slots
<1>5. CASE UNCHANGED vars
  BY <1>5 DEF vars, RingInv, TypeOK, SlotsMatchIndices, Slots, At
<1> QED BY <1>1, <1>2, <1>3, <1>4, <1>5 DEF Next

\* The ring arithmetic is right in every reachable state, for every capacity.
THEOREM RingInvHolds == Spec => []RingInv
<1> QED BY RingInvInit, RingInvStep, PTL DEF Spec

\* The scrollback ring keeps its types.
THEOREM RingTypes == Spec => []TypeOK
<1>1. RingInv => TypeOK
  BY DEF RingInv
<1> QED BY <1>1, RingInvHolds, PTL

\* Slot (start + i) % len(buf) holds the i-th retained line.
THEOREM RingSlotsMatchIndices == Spec => []SlotsMatchIndices
<1>1. RingInv => SlotsMatchIndices
  BY DEF RingInv
<1> QED BY <1>1, RingInvHolds, PTL

\* What a client was told is trimmed stays trimmed, in every run: an append
\* raises the committed total at least as fast as the count, and Clear empties
\* the ring upwards.
THEOREM RingOldestNeverRetreats == Spec => OldestNeverRetreats
<1>1. RingInv /\ [Next]_vars => [OldestIndex' >= OldestIndex]_vars
  <2> SUFFICES ASSUME RingInv, Next PROVE OldestIndex' >= OldestIndex
    OBVIOUS
  <2>1. committed \in Nat /\ count \in Nat
    BY CapacityAssumption DEF RingInv, TypeOK
  <2> QED BY <2>1 DEF Next, Clear, AppendDisabled, AppendGrowing, AppendEvicting,
             Commit, OldestIndex
<1> QED BY <1>1, RingInvHolds, PTL DEF Spec, OldestNeverRetreats

\* What a read copies out, position by position.
LEMMA PositionsAreHistory ==
    ASSUME RingInv, NEW from \in OldestIndex..(committed - 1), NEW take \in 1..(committed - from)
    PROVE  Positions(from - OldestIndex, take) = SubSeq(history, from + 1, from + take)
<1>1. /\ committed \in Nat /\ count \in Nat /\ count <= committed
      /\ history \in Seq(Lines) /\ Len(history) = committed
  BY CapacityAssumption DEF RingInv, TypeOK, SlotsMatchIndices
<1>2. from \in Nat /\ committed - count <= from /\ from < committed
  BY <1>1 DEF OldestIndex
<1>3. ASSUME NEW i \in 1..take
      PROVE  At(from - OldestIndex + i - 1) = history[from + i]
  <2> DEFINE k == from - OldestIndex + i - 1
  <2>1. k \in 0..(count - 1) /\ committed - count + k + 1 = from + i
    BY <1>1, <1>2 DEF OldestIndex
  <2> HIDE DEF k
  <2>2. At(k) = history[committed - count + k + 1]
    BY <2>1 DEF RingInv, SlotsMatchIndices
  <2>3. At(k) = history[from + i]
    BY <2>1, <2>2
  <2> QED BY <2>3 DEF k
<1>4. SubSeq(history, from + 1, from + take) = [i \in 1..take |-> history[from + i]]
  BY <1>1, <1>2
<1> QED BY <1>3, <1>4 DEF Positions

\* So the invariant makes every read exact.
LEMMA ReadsFromInv == RingInv => ReadsAreExact
<1> SUFFICES ASSUME RingInv, NEW abs \in 0..(committed + 1)
             PROVE  LET read == LinesFrom(abs)
                    IN  /\ read.lines = SubSeq(history, read.first + 1, committed)
                        /\ read.first = Lesser(Greater(abs, OldestIndex), committed)
  BY DEF ReadsAreExact
<1>1. /\ committed \in Nat /\ count \in Nat /\ count <= committed
      /\ history \in Seq(Lines) /\ Len(history) = committed
      /\ abs \in Nat
  BY CapacityAssumption DEF RingInv, TypeOK, SlotsMatchIndices
<1>2. CASE count = 0 \/ abs >= committed
  <2>1. LinesFrom(abs) = [first |-> committed, lines |-> <<>>]
    BY <1>2 DEF LinesFrom, LinesRange, Nothing
  <2>2. SubSeq(history, committed + 1, committed) = <<>>
    BY <1>1
  <2>3. Lesser(Greater(abs, OldestIndex), committed) = committed
    BY <1>1, <1>2 DEF Lesser, Greater, OldestIndex
  <2>4. LinesFrom(abs).first = committed /\ LinesFrom(abs).lines = <<>>
    BY <2>1
  <2> QED BY <2>2, <2>3, <2>4, Zenon
<1>3. CASE count > 0 /\ abs < committed
  <2> DEFINE from == Greater(abs, OldestIndex)
  <2>1. from \in OldestIndex..(committed - 1)
    BY <1>1, <1>3 DEF Greater, OldestIndex
  <2>2. /\ Lesser(count - (from - OldestIndex), count) = committed - from
        /\ Lesser(from, committed) = from
    BY <1>1, <2>1 DEF Lesser, OldestIndex
  <2>3. LinesFrom(abs) =
          [first |-> from, lines |-> Positions(from - OldestIndex, committed - from)]
    BY <1>1, <1>3, <2>2 DEF LinesFrom, LinesRange
  <2> HIDE DEF from
  <2>4. LinesFrom(abs).lines = Positions(from - OldestIndex, committed - from)
    BY <2>3
  <2>5. LinesFrom(abs).first = from
    BY <2>3
  <2>6. LinesFrom(abs).lines = SubSeq(history, from + 1, committed)
    <3>1. committed - from \in 1..(committed - from) /\ from + (committed - from) = committed
      BY <1>1, <2>1 DEF OldestIndex
    <3> QED BY <2>1, <2>4, <3>1, PositionsAreHistory, Zenon
  <2>7. Lesser(Greater(abs, OldestIndex), committed) = from
    BY <2>2 DEF from
  <2> QED BY <2>5, <2>6, <2>7, Zenon
<1> QED BY <1>1, <1>2, <1>3

\* A read from any index returns exactly the committed lines from there, or
\* from the oldest retained one, on.
THEOREM RingReadsAreExact == Spec => []ReadsAreExact
<1> QED BY ReadsFromInv, RingInvHolds, PTL

\* The two together, as the runs check them.
THEOREM RingIsExact == Spec => []RingHolds
<1>1. TypeOK /\ ReadsAreExact => RingHolds
  BY DEF RingHolds
<1> QED BY <1>1, RingTypes, RingReadsAreExact, PTL

-----------------------------------------------------------------------------
(* What a page is sent.                                                      *)

\* The bounds every lemma below needs.
LEMMA Bounds ==
    RingInv =>
        /\ committed \in Nat /\ count \in Nat /\ count <= committed
        /\ OldestIndex \in 0..committed /\ OldestIndex = committed - count
        /\ history \in Seq(Lines) /\ Len(history) = committed
BY CapacityAssumption DEF RingInv, TypeOK, SlotsMatchIndices, OldestIndex

\* How long an exact read is.
LEMMA ReadLength ==
    ASSUME RingInv, NEW abs \in 0..(committed + 1)
    PROVE  LET read == LinesFrom(abs)
           IN  /\ read.first = Lesser(Greater(abs, OldestIndex), committed)
               /\ Len(read.lines) = committed - read.first
<1> DEFINE read == LinesFrom(abs)
           first == Lesser(Greater(abs, OldestIndex), committed)
<1>1. read.lines = SubSeq(history, first + 1, committed) /\ read.first = first
  BY ReadsFromInv, Zenon DEF ReadsAreExact
<1>2. first \in 0..committed
  BY Bounds DEF Lesser, Greater
<1> HIDE DEF first
<1>3. Len(SubSeq(history, first + 1, committed)) = committed - first
  BY <1>2, Bounds
<1> HIDE DEF read
<1>4. Len(read.lines) = committed - read.first
  BY <1>1, <1>3
<1> QED BY <1>1, <1>4 DEF first, read

\* The replay of a resume, for every bound and every client.
LEMMA ReplayFromInv == RingInv => ReplayReachesScreen
<1> SUFFICES ASSUME RingInv,
                    NEW haveThrough \in -1..committed,
                    NEW replayMax \in 0..(MaxReplayLines + 1)
             PROVE  LET bound == IF replayMax = NoMax THEN MaxReplayLines ELSE replayMax
                        read == LinesFrom(ReplayStart(haveThrough, replayMax))
                        n == Len(read.lines)
                    IN  /\ read.first + n = committed
                        /\ n <= bound
                        /\ haveThrough < committed /\ read.first > haveThrough + 1 =>
                                read.first = OldestIndex \/ n = Lesser(bound, MaxReplayLines)
                        /\ read.first <= haveThrough => n = 0
  BY DEF ReplayReachesScreen
<1> DEFINE bound == IF replayMax = NoMax THEN MaxReplayLines ELSE Lesser(MaxReplayLines, replayMax)
           from == Greater(haveThrough + 1, 0)
           abs == IF committed > bound THEN Greater(from, committed - bound) ELSE from
           read == LinesFrom(abs)
<1>1. ReplayStart(haveThrough, replayMax) = abs
  BY DEF ReplayStart
<1>2. /\ MaxReplayLines \in Nat \ {0} /\ replayMax \in Nat
      /\ bound \in Nat \ {0}
      /\ bound = Lesser(IF replayMax = NoMax THEN MaxReplayLines ELSE replayMax, MaxReplayLines)
  BY BoundAssumption DEF Lesser, NoMax
<1>3. from = haveThrough + 1 /\ from \in 0..(committed + 1)
  BY Bounds DEF Greater
<1> HIDE DEF bound, from
<1>4. abs \in 0..(committed + 1) /\ abs >= from
      /\ (abs > from => abs = committed - bound) /\ abs >= committed - bound
  BY <1>2, <1>3, Bounds DEF Greater
<1> HIDE DEF abs
<1>5. /\ read.first = Lesser(Greater(abs, OldestIndex), committed)
      /\ Len(read.lines) = committed - read.first
  BY <1>4, ReadLength
<1> DEFINE first == Lesser(Greater(abs, OldestIndex), committed)
<1>6. /\ first \in 0..committed /\ committed - first <= bound
      /\ haveThrough < committed /\ first > haveThrough + 1 =>
            first = OldestIndex \/ committed - first = bound
      /\ first <= haveThrough => first = committed
  BY <1>2, <1>3, <1>4, Bounds DEF Lesser, Greater
<1>7. bound <= IF replayMax = NoMax THEN MaxReplayLines ELSE replayMax
  BY <1>2 DEF Lesser, NoMax
<1> HIDE DEF first, read
<1>8. read.first = first
  BY <1>5 DEF first
<1> DEFINE n == Len(read.lines)
<1>9. n = committed - first
  BY <1>5, <1>8
<1> HIDE DEF n
<1>10. /\ first + n = committed
       /\ n <= IF replayMax = NoMax THEN MaxReplayLines ELSE replayMax
       /\ haveThrough < committed /\ first > haveThrough + 1 =>
             first = OldestIndex \/ n = bound
       /\ first <= haveThrough => n = 0
  BY <1>2, <1>6, <1>7, <1>9, Bounds
<1> QED BY <1>1, <1>2, <1>8, <1>10 DEF n, read

\* A page of history inside the retained range.
LEMMA PageIsHistory ==
    ASSUME RingInv, NEW from \in OldestIndex..(committed - 1), NEW lim \in (from + 1)..committed
    PROVE  LinesRange(from, lim - from).lines = SubSeq(history, from + 1, lim)
<1>1. /\ count # 0 /\ ~(from >= committed) /\ ~(lim - from <= 0)
      /\ Greater(from, OldestIndex) = from
      /\ Lesser(count - (from - OldestIndex), lim - from) = lim - from
      /\ lim - from \in 1..(committed - from) /\ from + (lim - from) = lim
  BY Bounds DEF Greater, Lesser
<1>2. LinesRange(from, lim - from) =
        [first |-> from, lines |-> Positions(from - OldestIndex, lim - from)]
  BY <1>1 DEF LinesRange
<1>3. Positions(from - OldestIndex, lim - from) = SubSeq(history, from + 1, lim)
  BY <1>1, PositionsAreHistory, Zenon
<1> QED BY <1>2, <1>3

\* What a history reply says is so, for every request.
LEMMA HistoryFromInv == RingInv => HistoryReplyIsHonest
<1> SUFFICES ASSUME RingInv, NEW fromAbs \in 0..committed, NEW maxLines \in 1..3,
                    NEW reply \in HistoryReplies(fromAbs, maxLines)
             PROVE  LET n == Len(reply.lines)
                    IN  /\ fromAbs <= reply.first /\ reply.first + n <= fromAbs + maxLines
                        /\ reply.lines = SubSeq(history, reply.first + 1, reply.first + n)
                        /\ reply.first > fromAbs => reply.first = OldestIndex
                        /\ n = 0 /\ fromAbs < committed =>
                                Lesser(fromAbs + maxLines, committed) <= OldestIndex
  BY DEF HistoryReplyIsHonest
<1> DEFINE from == Greater(fromAbs, OldestIndex)
           lim == Lesser(fromAbs + maxLines, committed)
           page == IF from < lim THEN LinesRange(from, lim - from).lines ELSE <<>>
<1>a. /\ committed \in Nat /\ OldestIndex \in 0..committed
      /\ fromAbs \in Nat /\ fromAbs <= committed /\ maxLines \in Nat /\ maxLines >= 1
  BY Bounds
<1>b. /\ from \in Nat /\ fromAbs <= from /\ from >= OldestIndex
      /\ from > fromAbs => from = OldestIndex
  BY <1>a DEF Greater
<1>c. /\ lim \in 0..committed /\ lim <= fromAbs + maxLines
      /\ fromAbs < committed => lim > fromAbs
  BY <1>a DEF Lesser
<1>1. /\ from \in Nat /\ lim \in 0..committed /\ fromAbs <= from
      /\ from > fromAbs => from = OldestIndex
      /\ from >= OldestIndex /\ lim <= fromAbs + maxLines
      /\ ~(from < lim) /\ fromAbs < committed => lim <= OldestIndex
  <2> HIDE DEF from, lim
  <2> QED BY <1>a, <1>b, <1>c
<1>2. HistoryReplies(fromAbs, maxLines) =
        IF page = <<>> THEN {[first |-> fromAbs, lines |-> <<>>]}
        ELSE {[first |-> from, lines |-> lines] : lines \in Prefixes(page)}
  BY DEF HistoryReplies
<1> HIDE DEF from, lim
<1>3. CASE from < lim
  <2>1. from \in OldestIndex..(committed - 1) /\ lim \in (from + 1)..committed
    BY <1>1, <1>3, Bounds
  <2>2. page = SubSeq(history, from + 1, lim)
    BY <1>3, <2>1, PageIsHistory
  <2> HIDE DEF page
  <2>3. /\ page \in Seq(Lines) /\ Len(page) = lim - from
        /\ \A i \in 1..(lim - from) : page[i] = history[from + i]
    <3>1. from \in Nat /\ lim \in Nat /\ from < lim /\ lim <= Len(history)
      BY <1>1, <1>3, Bounds
    <3>2. SubSeq(history, from + 1, lim) = [i \in 1..(lim - from) |-> history[from + i]]
      BY <3>1, Bounds
    <3>3. \A i \in 1..(lim - from) : history[from + i] \in Lines
      BY <3>1, Bounds
    <3>4. page = [i \in 1..(lim - from) |-> history[from + i]]
      BY <2>2, <3>2
    <3>5. page \in [1..(lim - from) -> Lines] /\ lim - from \in Nat
      <4>1. page \in [1..(lim - from) -> Lines]
        BY <3>3, <3>4, Zenon
      <4>2. lim - from \in Nat
        BY <3>1
      <4> QED BY <4>1, <4>2
    <3>6. \A i \in 1..(lim - from) : page[i] = history[from + i]
      BY <2>2, <3>2
    <3> QED BY <3>5, <3>6
  <2>4. page # <<>>
    BY <1>1, <1>3, <2>3
  <2>5. PICK k \in 1..Len(page) : reply = [first |-> from, lines |-> SubSeq(page, 1, k)]
    BY <1>2, <2>4 DEF Prefixes
  <2>6. SubSeq(page, 1, k) = SubSeq(history, from + 1, from + k) /\ Len(SubSeq(page, 1, k)) = k
    <3>1. k \in 1..(lim - from) /\ from + k \in Nat
      BY <1>1, <2>3
    <3>2. SubSeq(page, 1, k) = [i \in 1..k |-> page[i]]
      BY <2>3, <3>1
    <3>3. SubSeq(history, from + 1, from + k) = [i \in 1..k |-> history[from + i]]
      BY <1>1, <3>1, Bounds
    <3>4. \A i \in 1..k : page[i] = history[from + i]
      BY <1>1, <2>3, <3>1
    <3>5. Len(SubSeq(page, 1, k)) = k
      BY <2>3, <3>1
    <3> QED BY <3>2, <3>3, <3>4, <3>5
  <2>7. reply.first = from /\ reply.lines = SubSeq(page, 1, k)
    BY <2>5
  <2>8. k \in 1..(lim - from)
    BY <2>3
  <2>9. /\ fromAbs <= from /\ from + k <= fromAbs + maxLines
        /\ from > fromAbs => from = OldestIndex
        /\ k # 0
    BY <1>1, <2>8, Bounds
  <2> QED BY <2>6, <2>7, <2>9
<1>4. CASE ~(from < lim)
  <2>1. reply = [first |-> fromAbs, lines |-> <<>>]
    BY <1>2, <1>4
  <2>2. reply.first = fromAbs /\ reply.lines = <<>> /\ Len(reply.lines) = 0
    BY <2>1
  <2>3. SubSeq(history, fromAbs + 1, fromAbs + 0) = <<>>
    BY Bounds
  <2> QED BY <1>1, <1>4, <2>2, <2>3 DEF lim
<1> QED BY <1>3, <1>4

\* What a page is sent of the scrollback leaves it no hole it is not told of.
THEOREM RingRepliesAreHonest == Spec => []RepliesAreHonest
<1>1. RingInv => RepliesAreHonest
  BY ReplayFromInv, HistoryFromInv DEF RepliesAreHonest
<1> QED BY <1>1, RingInvHolds, PTL

-----------------------------------------------------------------------------
(* The ring implements the log of the newest lines.                          *)

\* What a reader of the whole ring is given is the end of the history.
LEMMA RetainedIsEnd ==
    RingInv => LinesFrom(0).lines = SubSeq(history, committed - count + 1, committed)
<1> SUFFICES ASSUME RingInv
             PROVE  LinesFrom(0).lines = SubSeq(history, committed - count + 1, committed)
  OBVIOUS
<1> DEFINE read == LinesFrom(0)
<1>1. 0 \in 0..(committed + 1) /\ Lesser(Greater(0, OldestIndex), committed) = committed - count
  BY Bounds DEF Lesser, Greater
<1>2. /\ read.lines = SubSeq(history, read.first + 1, committed)
      /\ read.first = Lesser(Greater(0, OldestIndex), committed)
  BY <1>1, ReadsFromInv, Zenon DEF ReadsAreExact
<1> HIDE DEF read
<1>3. read.lines = SubSeq(history, committed - count + 1, committed)
  BY <1>1, <1>2
<1> QED BY <1>3 DEF read

\* One more line: the window over the last k lines grows by it, and the window
\* that keeps its length drops its oldest.
LEMMA WindowSlides ==
    ASSUME NEW h \in Seq(Lines), NEW line \in Lines, NEW k \in 0..Len(h)
    PROVE  LET n == Len(h)
               longer == Append(SubSeq(h, n - k + 1, n), line)
           IN  /\ Len(longer) = k + 1
               /\ SubSeq(Append(h, line), n - k + 1, n + 1) = longer
               /\ SubSeq(Append(h, line), n - k + 2, n + 1) = Tail(longer)
<1> DEFINE n == Len(h)
           g == Append(h, line)
           old == SubSeq(h, n - k + 1, n)
           longer == Append(old, line)
<1>1. n \in Nat /\ k \in Nat /\ k <= n
  BY LenProperties
<1>2. /\ g \in Seq(Lines) /\ Len(g) = n + 1 /\ g[n + 1] = line
      /\ \A i \in 1..n : g[i] = h[i]
  BY <1>1, AppendProperties
<1>3. /\ old = [i \in 1..k |-> h[n - k + i]]
      /\ \A i \in 1..k : h[n - k + i] \in Lines
  BY <1>1
<1>4. old \in Seq(Lines) /\ Len(old) = k /\ \A i \in 1..k : old[i] = h[n - k + i]
  <2> HIDE DEF old, n
  <2>1. old \in [1..k -> Lines]
    BY <1>3, Zenon
  <2> QED BY <1>1, <1>3, <2>1
<1> HIDE DEF old, g, n
<1>5. /\ longer \in Seq(Lines) /\ Len(longer) = k + 1 /\ longer[k + 1] = line
      /\ \A i \in 1..k : longer[i] = old[i]
  BY <1>1, <1>4, AppendProperties
<1> HIDE DEF longer
<1>6. ASSUME NEW i \in 1..(k + 1) PROVE longer[i] = g[n - k + i]
  <2>1. CASE i \in 1..k
    <3>1. longer[i] = h[n - k + i]
      BY <1>4, <1>5, <2>1
    <3>2. n - k + i \in 1..n
      BY <1>1, <2>1
    <3> QED BY <1>2, <3>1, <3>2
  <2>2. CASE i = k + 1
    <3>1. n - k + i = n + 1
      BY <1>1, <2>2
    <3> QED BY <1>2, <1>5, <2>2, <3>1
  <2> QED BY <1>1, <2>1, <2>2
<1>7. SubSeq(g, n - k + 1, n + 1) = longer
  <2>1. SubSeq(g, n - k + 1, n + 1) = [i \in 1..(k + 1) |-> g[n - k + i]]
    BY <1>1, <1>2
  <2>2. longer = [i \in 1..(k + 1) |-> longer[i]]
    <3>1. longer \in [1..(k + 1) -> Lines]
      BY <1>1, <1>5, LenProperties
    <3> QED BY <3>1, Zenon
  <2> QED BY <1>6, <2>1, <2>2
<1>8. SubSeq(g, n - k + 2, n + 1) = Tail(longer)
  <2>1. SubSeq(g, n - k + 2, n + 1) = [i \in 1..k |-> g[n - k + 1 + i]]
    BY <1>1, <1>2
  <2>2. Tail(longer) = [i \in 1..k |-> longer[i + 1]]
    <3>1. /\ Tail(longer) \in Seq(Lines) /\ Len(Tail(longer)) = k
          /\ \A i \in 1..k : Tail(longer)[i] = longer[i + 1]
      BY <1>1, <1>5, HeadTailProperties
    <3>2. Tail(longer) \in [1..k -> Lines]
      BY <3>1, LenProperties
    <3> QED BY <3>1, <3>2
  <2>3. \A i \in 1..k : longer[i + 1] = g[n - k + 1 + i]
    BY <1>1, <1>6
  <2> QED BY <2>1, <2>2, <2>3
<1> QED BY <1>5, <1>7, <1>8 DEF n, g, old, longer

\* Every append and every clear of the ring is one of the log.
LEMMA RetainedStep ==
    ASSUME RingInv, RingInv', [Next]_vars
    PROVE  [Log!Next]_(Log!vars)
<1> DEFINE retained == LinesFrom(0).lines
<1>1. retained = SubSeq(history, committed - count + 1, committed)
  BY RetainedIsEnd
<1>2. retained' = SubSeq(history', committed' - count' + 1, committed')
  <2>1. RingInv' => (LinesFrom(0).lines = SubSeq(history, committed - count + 1, committed))'
    BY RetainedIsEnd, PTL
  <2> QED BY <2>1
<1> HIDE DEF retained
<1>3. /\ committed \in Nat /\ count \in Nat /\ count <= committed
      /\ history \in Seq(Lines) /\ Len(history) = committed
  BY Bounds
<1>4. ASSUME NEW line \in Lines, Commit(line), UNCHANGED capacity,
             IF count + 1 > capacity THEN count' = count ELSE count' = count + 1
      PROVE  /\ committed' = committed + 1
             /\ LET longer == Append(retained, line)
                IN  retained' = IF Len(longer) > capacity THEN Tail(longer) ELSE longer
             /\ UNCHANGED capacity
  <2>1. committed' = committed + 1 /\ history' = Append(history, line)
    BY <1>4 DEF Commit
  <2>2. count \in 0..Len(history)
    BY <1>3
  <2> DEFINE longer == Append(retained, line)
  <2>3. /\ Len(longer) = count + 1
        /\ SubSeq(history', committed - count + 1, committed + 1) = longer
        /\ SubSeq(history', committed - count + 2, committed + 1) = Tail(longer)
    BY <1>1, <1>3, <2>1, <2>2, WindowSlides
  <2> HIDE DEF longer
  <2>4. CASE count + 1 > capacity
    <3>1. committed' - count' + 1 = committed - count + 2
      BY <1>3, <1>4, <2>1, <2>4
    <3>2. retained' = Tail(longer)
      BY <1>2, <2>1, <2>3, <3>1
    <3> QED BY <1>4, <2>1, <2>3, <2>4, <3>2 DEF longer
  <2>5. CASE ~(count + 1 > capacity)
    <3>1. committed' - count' + 1 = committed - count + 1
      BY <1>3, <1>4, <2>1, <2>5
    <3>2. retained' = longer
      BY <1>2, <2>1, <2>3, <3>1
    <3> QED BY <1>4, <2>1, <2>3, <2>5, <3>2 DEF longer
  <2> QED BY <2>4, <2>5
<1>5. ASSUME NEW line \in Lines,
             AppendDisabled(line) \/ AppendGrowing(line) \/ AppendEvicting(line)
      PROVE  Log!Append1(line)
  <2>1. /\ Commit(line) /\ UNCHANGED capacity
        /\ IF count + 1 > capacity THEN count' = count ELSE count' = count + 1
    BY <1>5, CapacityAssumption DEF RingInv, TypeOK, SlotsMatchIndices,
       AppendDisabled, AppendGrowing, AppendEvicting
  <2> QED BY <1>4, <2>1 DEF Log!Append1, retained
<1>6. CASE Clear
  <2>1. count' = 0 /\ committed' = committed /\ history' = history /\ capacity' = capacity
    BY <1>6 DEF Clear
  <2>2. retained' = <<>>
    BY <1>2, <1>3, <2>1
  <2> QED BY <2>1, <2>2 DEF Log!Next, Log!Clear, retained
<1>7. CASE UNCHANGED vars
  <2>1. count' = count /\ committed' = committed /\ history' = history /\ capacity' = capacity
    BY <1>7 DEF vars
  <2>2. retained' = retained
    BY <1>1, <1>2, <2>1
  <2> QED BY <2>1, <2>2 DEF Log!vars, retained
<1> QED BY <1>5, <1>6, <1>7 DEF Next, Log!Next

\* The ring keeps the newest lines its capacity allows and no others, whatever
\* that capacity is: it implements RetainedLog.
THEOREM RingKeepsNewest == Spec => KeepsNewest
<1>1. Init => Log!Init
  <2> SUFFICES ASSUME Init PROVE Log!Init
    OBVIOUS
  <2>1. capacity \in Nat /\ committed = 0 /\ count = 0
    BY CapacityAssumption DEF Init
  <2>2. LinesFrom(0) = [first |-> committed, lines |-> <<>>]
    BY <2>1 DEF LinesFrom, LinesRange, Nothing
  <2> QED BY <2>1, <2>2 DEF Log!Init
<1>2. RingInv /\ RingInv' /\ [Next]_vars => [Log!Next]_(Log!vars)
  BY RetainedStep
<1> QED BY <1>1, <1>2, RingInvHolds, PTL DEF Spec, KeepsNewest, Log!Spec
-----------------------------------------------------------------------------
(* Minima, maxima, and how many.                                             *)

\* What the constants are.
LEMMA Constants ==
    /\ Height \in Nat /\ Height > 0 /\ ResidentTailCap \in Nat /\ ResidentTailCap > 0
    /\ BrowseCacheCap \in Nat /\ PageSize \in Nat /\ PageSize > 0
    /\ MinPage \in Nat /\ MinPage > 0 /\ MinPage <= PageSize
    /\ Burst \in Nat /\ Burst > 0 /\ PrefetchThreshold \in Nat
    /\ 2 * PrefetchThreshold + 1 < BrowseCacheCap
    /\ FlushInBatch \in BOOLEAN /\ Infinity \in Nat
    /\ MaxReplayLines \in Nat \ {0} /\ Capacities \subseteq Nat
BY PagingAssumption, BoundAssumption, CapacityAssumption

\* Numbers from somewhere on have a smallest one.
LEMMA MinIsLeast ==
    ASSUME NEW b \in Int, NEW S \in SUBSET Int, S # {}, \A k \in S : b <= k
    PROVE  Min(S) \in S /\ \A k \in S : Min(S) <= k
<1> DEFINE Below == {p \in Nat \X Nat : p[1] < p[2]}
           T == {n \in Nat : n + b \in S}
<1>1. IsWellFoundedOn(Below, Nat)
  BY NatLessThanWellFounded DEF OpToRel
<1>2. T # {}
  <2>1. PICK k \in S : TRUE
    OBVIOUS
  <2>2. k - b \in Nat /\ (k - b) + b = k
    OBVIOUS
  <2> QED
    BY <2>2
<1>3. PICK n \in T : \A k \in T : ~(<<k, n>> \in Below)
  <2>1. T \subseteq Nat
    OBVIOUS
  <2> HIDE DEF Below, T
  <2> QED
    BY <1>1, <1>2, <2>1, WFMin
<1>4. ASSUME NEW k \in S PROVE n + b <= k
  <2>1. k \in Int /\ k - b \in Nat /\ (k - b) + b = k /\ n \in Nat
    BY <1>3
  <2>2. k - b \in T
    BY <2>1
  <2>3. ~(<<k - b, n>> \in Below)
    BY <1>3, <2>2
  <2>4. ~(k - b < n)
    BY <2>1, <2>3
  <2> QED
    BY <2>1, <2>4
<1>5. n + b \in S
  BY <1>3
<1> QED
  BY <1>4, <1>5 DEF Min

\* Numbers up to some bound have a largest one.
LEMMA MaxIsGreatest ==
    ASSUME NEW b \in Int, NEW S \in SUBSET Int, S # {}, \A k \in S : k <= b
    PROVE  Max(S) \in S /\ \A k \in S : Max(S) >= k
<1> DEFINE N == {0 - k : k \in S}
<1>1. N \in SUBSET Int /\ N # {} /\ \A k \in N : 0 - b <= k
  <2>1. \A k \in S : 0 - k \in Int /\ 0 - b <= 0 - k
    OBVIOUS
  <2> QED
    BY <2>1
<1>2. Min(N) \in N /\ \A k \in N : Min(N) <= k
  <2>1. 0 - b \in Int
    OBVIOUS
  <2> HIDE DEF N
  <2> QED
    BY <1>1, <2>1, MinIsLeast
<1>3. PICK x \in S : Min(N) = 0 - x
  BY <1>2
<1>4. ASSUME NEW k \in S PROVE x >= k
  <2>1. 0 - k \in N
    OBVIOUS
  <2>2. 0 - x <= 0 - k
    BY <1>2, <1>3, <2>1
  <2> QED
    BY <2>2
<1> QED
  BY <1>4 DEF Max

\* The smaller and the larger of two numbers.
LEMMA LowerAndHigher ==
    ASSUME NEW a \in Int, NEW b \in Int
    PROVE  /\ LowerOf(a, b) = IF a <= b THEN a ELSE b
           /\ HigherOf(a, b) = IF a >= b THEN a ELSE b
<1>1. LowerOf(a, b) = IF a <= b THEN a ELSE b
  <2> DEFINE m == IF a <= b THEN a ELSE b
  <2>1. m \in {a, b} /\ \A y \in {a, b} : m <= y
    OBVIOUS
  <2>2. \A z \in {a, b} : (\A y \in {a, b} : z <= y) => z = m
    OBVIOUS
  <2> QED
    BY <2>1, <2>2 DEF LowerOf, Min
<1>2. HigherOf(a, b) = IF a >= b THEN a ELSE b
  <2> DEFINE m == IF a >= b THEN a ELSE b
  <2>1. m \in {a, b} /\ \A y \in {a, b} : m >= y
    OBVIOUS
  <2>2. \A z \in {a, b} : (\A y \in {a, b} : z >= y) => z = m
    OBVIOUS
  <2> QED
    BY <2>1, <2>2 DEF HigherOf, Max
<1> QED
  BY <1>1, <1>2

\* Rows below a bound are finitely many integers, and so are some of them.
LEMMA RowsAreFinite ==
    ASSUME NEW n \in Nat, NEW R, R \subseteq 0..n, NEW S \in SUBSET R
    PROVE  /\ IsFiniteSet(S) /\ Cardinality(S) \in Nat /\ Cardinality(S) <= Cardinality(R)
           /\ S \subseteq Nat /\ \A i \in S : 0 <= i /\ i <= n
           /\ S # {} => /\ Min(S) \in S /\ \A i \in S : Min(S) <= i
                        /\ Max(S) \in S /\ \A i \in S : Max(S) >= i
<1>1. IsFiniteSet(0..n)
  BY FS_Interval
<1>2. IsFiniteSet(R) /\ IsFiniteSet(S) /\ Cardinality(S) <= Cardinality(R)
  BY <1>1, FS_Subset
<1>3. Cardinality(S) \in Nat
  BY <1>2, FS_CardinalityType
<1>4. S \subseteq Nat /\ (\A i \in S : 0 <= i /\ i <= n) /\ S \in SUBSET Int
  OBVIOUS
<1>5. S # {} => Min(S) \in S /\ \A i \in S : Min(S) <= i
  <2>1. 0 \in Int /\ \A i \in S : 0 <= i
    BY <1>4
  <2> QED
    BY <1>4, <2>1, MinIsLeast
<1>6. S # {} => Max(S) \in S /\ \A i \in S : Max(S) >= i
  <2>1. n \in Int /\ \A i \in S : i <= n
    BY <1>4
  <2> QED
    BY <1>4, <2>1, MaxIsGreatest
<1> QED
  BY <1>2, <1>3, <1>4, <1>5, <1>6

\* The n lowest of some rows are n, or all of them.
LEMMA LowestAreEnough ==
    ASSUME NEW b \in Nat, NEW S, S \subseteq 0..b, NEW n \in Nat
    PROVE  /\ Lowest(S, n) \subseteq S
           /\ Lowest(S, n) = S \/ Cardinality(Lowest(S, n)) >= n
<1> DEFINE V == Lowest(S, n)
<1>1. V \subseteq S
  BY DEF Lowest
<1>2. ASSUME V # S PROVE Cardinality(V) >= n
  <2> DEFINE R == S \ V
             x == Min(R)
  <2>1. x \in R /\ \A y \in R : x <= y
    <3>1. R \in SUBSET S /\ R # {}
      BY <1>1, <1>2
    <3> HIDE DEF R
    <3> QED
      BY <3>1, RowsAreFinite
  <2> HIDE DEF x
  <2> DEFINE A == {j \in S : j < x}
  <2>2. ~(Cardinality(A) < n)
    BY <2>1 DEF Lowest
  <2>3. A \in SUBSET V
    <3> SUFFICES ASSUME NEW j \in S, j < x PROVE j \in V
      OBVIOUS
    <3>1. j \in Int /\ x \in Int
      BY <2>1
    <3> QED
      BY <2>1, <3>1
  <2>4. V \in SUBSET S /\ A \in SUBSET S
    BY <1>1
  <2> HIDE DEF A, V
  <2>5. Cardinality(A) <= Cardinality(V) /\ Cardinality(A) \in Nat /\ Cardinality(V) \in Nat
    <3>1. V \subseteq 0..b
      BY <2>4
    <3> QED
      BY <2>3, <2>4, <3>1, RowsAreFinite
  <2> QED
    BY <2>2, <2>5
<1> QED
  BY <1>1, <1>2

\* And so are the n uppermost.
LEMMA UppermostAreEnough ==
    ASSUME NEW b \in Nat, NEW S, S \subseteq 0..b, NEW n \in Nat
    PROVE  /\ Uppermost(S, n) \subseteq S
           /\ Uppermost(S, n) = S \/ Cardinality(Uppermost(S, n)) >= n
<1> DEFINE V == Uppermost(S, n)
<1>1. V \subseteq S
  BY DEF Uppermost
<1>2. ASSUME V # S PROVE Cardinality(V) >= n
  <2> DEFINE R == S \ V
             x == Max(R)
  <2>1. x \in R /\ \A y \in R : x >= y
    <3>1. R \in SUBSET S /\ R # {}
      BY <1>1, <1>2
    <3> HIDE DEF R
    <3> QED
      BY <3>1, RowsAreFinite
  <2> HIDE DEF x
  <2> DEFINE A == {j \in S : j > x}
  <2>2. ~(Cardinality(A) < n)
    BY <2>1 DEF Uppermost
  <2>3. A \in SUBSET V
    <3> SUFFICES ASSUME NEW j \in S, j > x PROVE j \in V
      OBVIOUS
    <3>1. j \in Int /\ x \in Int
      BY <2>1
    <3> QED
      BY <2>1, <3>1
  <2>4. V \in SUBSET S /\ A \in SUBSET S
    BY <1>1
  <2> HIDE DEF A, V
  <2>5. Cardinality(A) <= Cardinality(V) /\ Cardinality(A) \in Nat /\ Cardinality(V) \in Nat
    <3>1. V \subseteq 0..b
      BY <2>4
    <3> QED
      BY <2>3, <2>4, <3>1, RowsAreFinite
  <2> QED
    BY <2>2, <2>5
<1> QED
  BY <1>1, <1>2
-----------------------------------------------------------------------------
(* What the page's state is, and what every part of it promises the others.  *)

Requests == [from : Nat, end : Nat]
ScreenFrames ==
    [type : {"screen"}, base : Nat, rows : {[y \in 1..Height |-> Row]},
     scrollbackCleared : BOOLEAN, erasedBelow : Nat \cup {NoErasure},
     answers : {NoRequest}, batch : BOOLEAN]
ScrollFrames ==
    [type : {"scroll"}, firstIndex : Nat, lines : Seq(Lines), answers : Requests,
     batch : BOOLEAN]
Acks ==
    [type : {"resumeAck"}, committed : Nat, oldest : Nat, paging : BOOLEAN,
     answers : {NoRequest}, batch : {FALSE}]
Frames == ScreenFrames \cup ScrollFrames \cup Acks
Fetches ==
    [acked : BOOLEAN, inFlight : Requests, effMax : MinPage..PageSize,
     ceiling : MinPage..PageSize, tokens : 0..Burst, demand : BOOLEAN,
     haveThrough : Int, replayMax : Nat]

\* A store whose rows lie below some bound.
IsStore(s) ==
    /\ s = [lines |-> s.lines, unconfirmedFrom |-> s.unconfirmedFrom,
            erasedThrough |-> s.erasedThrough, base |-> s.base, height |-> s.height,
            browse |-> s.browse, evictedThrough |-> s.evictedThrough,
            serverOldest |-> s.serverOldest, solicited |-> s.solicited,
            pagingFloor |-> s.pagingFloor]
    /\ \E n \in Nat : Held(s) \subseteq 0..n
    /\ s.unconfirmedFrom \in Nat /\ s.erasedThrough \in Int /\ s.evictedThrough \in Int
    /\ s.base \in Nat /\ s.height \in {0, Height} /\ s.browse \subseteq Held(s)
    /\ s.serverOldest \in Int /\ s.pagingFloor \in Nat /\ s.solicited \in Requests

PagingTypes ==
    /\ IsStore(store) /\ fetch \in Fetches /\ reader \in Nat \cup {Following}
    /\ due \in BOOLEAN /\ live \in BOOLEAN /\ doubt \in BOOLEAN
    /\ up \in Seq(Requests) /\ answer \in Seq(ScrollFrames) /\ wire \in Seq(Frames)
    /\ frame \in Seq(Frames) /\ told \in [below : Nat, base : Nat]
    /\ clearing \in Nat \cup {NoErasure}

Screen(m) == m.type = "screen"
Ack(m) == m.type = "resumeAck"
Reply(m) == m.type = "scroll" /\ m.answers # NoRequest
LiveLines(m) == m.type = "scroll" /\ m.answers = NoRequest

\* The window, what is held around it, and the budgets.
Capped(s) == Cardinality(TailRows(s)) <= tailBound(s)
CacheBound == Greater(BrowseCacheCap, 2 * PrefetchThreshold + 1)
StoreOK(s, com) ==
    /\ Capped(s) /\ Cardinality(s.browse) <= CacheBound
    /\ s.base <= com /\ (s.height = 0 => s.base = 0)
    /\ s.height > 0 => /\ Window(s) \subseteq Held(s)
                       /\ \A i \in Held(s) : i < s.base + s.height
                       /\ \A i \in s.browse : i < s.base
    /\ \A i \in s.browse : i < com
    /\ Held(s) = {} \/ s.unconfirmedFrom <= com

\* A screen under way, for the store that will take it.
ScreenOK(m, s, t, com, old) ==
    /\ m.base <= com /\ s.base <= m.base /\ t.below <= m.base
    /\ \A i \in s.browse : i < m.base
    /\ m.erasedBelow <= m.base /\ m.erasedBelow <= old
    /\ m.scrollbackCleared <=> m.erasedBelow # NoErasure
\* The lines of a pass or of a replay.
LiveOK(m, f, t, com) ==
    /\ t.below <= m.firstIndex /\ f.inFlight.end <= m.firstIndex
    /\ m.firstIndex + Len(m.lines) <= com
\* A history reply.
ReplyOK(m, s, old) ==
    /\ m.answers.from < m.answers.end /\ m.answers.end <= s.base
    /\ m.answers.from <= m.firstIndex /\ m.firstIndex + Len(m.lines) <= m.answers.end
    /\ m.lines = <<>> => m.firstIndex = m.answers.from /\ m.answers.end <= old
    /\ m.firstIndex > m.answers.from => m.firstIndex <= old
FrameOK(m, s, f, t, com, old) ==
    /\ Screen(m) => ScreenOK(m, s, t, com, old)
    /\ LiveLines(m) => LiveOK(m, f, t, com)
    /\ Reply(m) => ~m.batch /\ ReplyOK(m, s, old)

\* How the frames under way follow each other.
ScreenOrder(w, k) ==
    /\ \A j \in 1..(k - 1) : Screen(w[j]) => w[j].base <= w[k].base
    /\ w[k].batch => k = 1 \/ (k = 2 /\ Ack(w[1]))
LinesOrder(w, k, s) ==
    /\ w[k].batch
    /\ k = 1 => s.height > 0 /\ w[k].firstIndex + Len(w[k].lines) <= s.base
    /\ k > 1 => /\ Screen(w[k - 1])
                /\ w[k - 1].base = w[k].firstIndex + Len(w[k].lines)
                /\ w[k - 1].batch \/ s.base <= w[k].firstIndex
    /\ \A j \in 1..(k - 1) : Screen(w[j]) =>
            /\ w[j].erasedBelow <= w[k].firstIndex
            /\ j < k - 1 => w[j].base <= w[k].firstIndex
OrderOK(w, k, s) ==
    /\ Screen(w[k]) => ScreenOrder(w, k)
    /\ LiveLines(w[k]) => LinesOrder(w, k, s)
    /\ Ack(w[k]) => k = 1 /\ Len(w) > 1 /\ Screen(w[2]) /\ w[2].batch
WireOK(w, s, f, t, com, old) ==
    \A k \in 1..Len(w) : FrameOK(w[k], s, f, t, com, old) /\ OrderOK(w, k, s)

\* What a page waits for while the resumeAck is under way.
AckOK(w, f, u, a, t, com, old) ==
    Len(w) > 0 /\ Ack(w[1]) =>
        /\ ~f.acked /\ f.inFlight = NoRequest /\ u = <<>> /\ a = <<>>
        /\ \A j \in 1..Len(w) : w[j].answers = NoRequest
        /\ t.below <= w[1].oldest /\ w[1].oldest <= old
        /\ \A j \in 1..Len(w) : Screen(w[j]) => f.haveThrough < w[j].base
        /\ f.haveThrough < com

\* The frame that is built and not yet dispatched.
BuiltOK(fr, w, s, t, com, old) ==
    fr # <<>> =>
        /\ Len(fr) \in 1..2 /\ fr[1] \in ScreenFrames /\ ScreenOK(fr[1], s, t, com, old)
        /\ fr[1].base = com /\ ~fr[1].batch
        /\ Len(fr) = 2 =>
            /\ fr[2] \in ScrollFrames /\ fr[2].answers = NoRequest /\ fr[2].batch
            /\ fr[2].firstIndex = com - 1 /\ Len(fr[2].lines) = 1
            /\ fr[1].erasedBelow <= com - 1 /\ t.below <= com - 1 /\ s.base <= com - 1
            /\ \A j \in 1..Len(w) : Screen(w[j]) => w[j].base <= com - 1

\* The requests, on their way to the server and back.
RequestOK(r, s) == r.from < r.end /\ r.end <= s.base /\ r.end <= r.from + PageSize
RequestsOK(s, f, u, a, t, old) ==
    /\ f.inFlight.end <= s.base /\ f.inFlight.end <= f.inFlight.from + PageSize
    /\ \A k \in 1..Len(u) : RequestOK(u[k], s)
    /\ Len(a) <= 1
    /\ \A k \in 1..Len(a) : Reply(a[k]) /\ ~a[k].batch /\ ReplyOK(a[k], s, old)
    /\ s.solicited \in {NoRequest, f.inFlight}
    /\ s.solicited # NoRequest => t.below <= s.solicited.from
SocketOK(l, w, s, f, u, a, fr) ==
    /\ ~l => /\ w = <<>> /\ fr = <<>> /\ a = <<>> /\ u = <<>>
             /\ ~f.acked /\ f.inFlight = NoRequest
    /\ f.acked /\ s.height = 0 => Len(w) > 0 /\ Screen(w[1]) /\ w[1].batch

\* What was erased, and what the page says is gone.
FloorsOK(s, t, cl, d, st, old) ==
    /\ d \/ s.pagingFloor <= Greater(old, t.base)
    /\ t.below <= s.pagingFloor /\ t.below <= old /\ cl <= old
    /\ \A i \in Held(s) \ st : t.below <= i

PagingInv ==
    /\ PagingTypes
    /\ StoreOK(store, committed)
    /\ WireOK(wire, store, fetch, told, committed, OldestIndex)
    /\ AckOK(wire, fetch, up, answer, told, committed, OldestIndex)
    /\ BuiltOK(frame, wire, store, told, committed, OldestIndex)
    /\ RequestsOK(store, fetch, up, answer, told, OldestIndex)
    /\ SocketOK(live, wire, store, fetch, up, answer, frame)
    /\ FloorsOK(store, told, clearing, doubt, strays, OldestIndex)
-----------------------------------------------------------------------------
(* The store: rows and caps.                                                 *)

\* What no row and no cap moves.
SameWindow(t, s) ==
    /\ t.base = s.base /\ t.height = s.height /\ t.solicited = s.solicited
    /\ t.pagingFloor = s.pagingFloor /\ t.unconfirmedFrom = s.unconfirmedFrom

\* A page starts with a store that holds nothing.
LEMMA NewIsStore ==
    /\ IsStore(NewStore) /\ Held(NewStore) = {} /\ NewStore.browse = {}
    /\ NewStore.base = 0 /\ NewStore.height = 0 /\ NewStore.solicited = NoRequest
    /\ NewStore.pagingFloor = 0
<1>1. Held(NewStore) = {}
  BY DEF NewStore, Held
<1>2. 0 \in Nat /\ Held(NewStore) \subseteq 0..0
  BY <1>1
<1>3. NewStore = [lines |-> NewStore.lines, unconfirmedFrom |-> NewStore.unconfirmedFrom,
                  erasedThrough |-> NewStore.erasedThrough, base |-> NewStore.base,
                  height |-> NewStore.height, browse |-> NewStore.browse,
                  evictedThrough |-> NewStore.evictedThrough,
                  serverOldest |-> NewStore.serverOldest, solicited |-> NewStore.solicited,
                  pagingFloor |-> NewStore.pagingFloor]
  BY DEF NewStore
<1>4. /\ NewStore.unconfirmedFrom \in Nat /\ NewStore.erasedThrough \in Int
      /\ NewStore.evictedThrough \in Int /\ NewStore.base = 0 /\ NewStore.height = 0
      /\ NewStore.browse = {} /\ NewStore.serverOldest \in Int /\ NewStore.pagingFloor = 0
      /\ NewStore.solicited = NoRequest
  BY Constants DEF NewStore
<1>5. NoRequest \in Requests
  BY DEF NoRequest, Requests
<1> QED
  BY <1>1, <1>2, <1>3, <1>4, <1>5 DEF IsStore

\* The rows of a store, its window and its classes.
LEMMA StoreSets ==
    ASSUME NEW s, IsStore(s)
    PROVE  /\ \A S \in SUBSET Held(s) :
                /\ IsFiniteSet(S) /\ Cardinality(S) \in Nat /\ S \subseteq Nat
                /\ S # {} => /\ Min(S) \in S /\ \A i \in S : Min(S) <= i
                             /\ Max(S) \in S /\ \A i \in S : Max(S) >= i
           /\ s.browse \in SUBSET Held(s) /\ TailRows(s) \in SUBSET Held(s)
           /\ tailBound(s) \in Nat /\ tailBound(s) >= 1 /\ tailBound(s) >= s.height
           /\ s.height \in Nat /\ s.base \in Nat
           /\ \A i : i \in Window(s) <=> i \in Int /\ s.base <= i /\ i < s.base + s.height
<1>1. PICK n \in Nat : Held(s) \subseteq 0..n
  BY DEF IsStore
<1>2. s.browse \in SUBSET Held(s) /\ TailRows(s) \in SUBSET Held(s)
  BY DEF IsStore, TailRows
<1>3. s.height \in Nat /\ s.base \in Nat
  BY Constants DEF IsStore
<1>4. tailBound(s) \in Nat /\ tailBound(s) >= 1 /\ tailBound(s) >= s.height
  BY <1>3, Constants DEF tailBound, Greater
<1>5. \A i : i \in Window(s) <=> i \in Int /\ s.base <= i /\ i < s.base + s.height
  BY <1>3 DEF Window
<1> QED
  BY <1>1, <1>2, <1>3, <1>4, <1>5, RowsAreFinite

\* The oldest row held is held, and the highest one too.
LEMMA Extremes ==
    ASSUME NEW s, IsStore(s)
    PROVE  /\ Held(s) # {} => Oldest(s) \in Held(s)
           /\ \A i \in Held(s) : Oldest(s) <= i /\ i <= Highest(s)
           /\ Oldest(s) \in Int /\ Highest(s) \in Int
           /\ Highest(s) \in Held(s) \cup {-1}
           /\ Held(s) = {} => Oldest(s) = -1
<1>1. PICK n \in Nat : Held(s) \subseteq 0..n
  BY DEF IsStore
<1>2. Held(s) # {} => Min(Held(s)) \in Held(s) /\ \A i \in Held(s) : Min(Held(s)) <= i
  BY StoreSets
<1>3. /\ Max(Held(s) \cup {-1}) \in Held(s) \cup {-1}
      /\ \A k \in Held(s) \cup {-1} : Max(Held(s) \cup {-1}) >= k
  <2>1. /\ Held(s) \cup {-1} \in SUBSET Int /\ Held(s) \cup {-1} # {} /\ n \in Int
        /\ \A k \in Held(s) \cup {-1} : k <= n
    BY <1>1
  <2> QED
    BY <2>1, MaxIsGreatest
<1>4. Oldest(s) \in Int /\ Highest(s) \in Int
  BY <1>1, <1>2, <1>3 DEF Oldest, Highest
<1> QED
  BY <1>1, <1>2, <1>3, <1>4 DEF Oldest, Highest

\* Rows that are forgotten are gone with their classification, and nothing else
\* changes.
LEMMA ForgetThins ==
    ASSUME NEW s, IsStore(s), NEW gone
    PROVE  LET t == Forget(s, gone)
           IN  /\ IsStore(t) /\ SameWindow(t, s)
               /\ Held(t) = Held(s) \ gone /\ t.browse = s.browse \ gone
               /\ t.evictedThrough = s.evictedThrough
<1> DEFINE kept == KeepOnly(s, Held(s) \ gone)
           t == Forget(s, gone)
           new == [i \in Held(s) \cap (Held(s) \ gone) |-> s.lines[i]]
<1>1. kept = [s EXCEPT !.lines = new]
  BY DEF KeepOnly, Restrict
<1>2. kept = [lines |-> new, unconfirmedFrom |-> s.unconfirmedFrom,
              erasedThrough |-> s.erasedThrough, base |-> s.base, height |-> s.height,
              browse |-> s.browse, evictedThrough |-> s.evictedThrough,
              serverOldest |-> s.serverOldest, solicited |-> s.solicited,
              pagingFloor |-> s.pagingFloor]
  <2> HIDE DEF new, kept
  <2> QED
    BY <1>1 DEF IsStore
<1>3. Held(kept) = Held(s) \ gone
  BY <1>2 DEF Held
<1>4. t = [kept EXCEPT !.browse = s.browse \cap Held(kept)]
  <2> HIDE DEF new
  <2>1. kept.browse = s.browse
    BY <1>2
  <2>2. t = [kept EXCEPT !.browse = kept.browse \cap Held(kept)]
    BY DEF Forget, Forgotten
  <2> HIDE DEF t, kept
  <2> QED
    BY <2>1, <2>2
<1>5. s.browse \cap Held(kept) = s.browse \ gone
  BY <1>3 DEF IsStore
<1>6. t = [lines |-> new, unconfirmedFrom |-> s.unconfirmedFrom,
           erasedThrough |-> s.erasedThrough, base |-> s.base, height |-> s.height,
           browse |-> s.browse \ gone, evictedThrough |-> s.evictedThrough,
           serverOldest |-> s.serverOldest, solicited |-> s.solicited,
           pagingFloor |-> s.pagingFloor]
  <2> HIDE DEF new, kept, t
  <2> QED
    BY <1>2, <1>4, <1>5
<1>7. Held(t) = Held(s) \ gone
  <2>1. t.lines = new
    BY <1>6
  <2> HIDE DEF t
  <2> QED
    BY <2>1 DEF Held
<1>8. \E n \in Nat : Held(t) \subseteq 0..n
  BY <1>7 DEF IsStore
<1> HIDE DEF new, kept, t
<1>9. IsStore(t)
  <2>1. t.browse \subseteq Held(t)
    BY <1>6, <1>7 DEF IsStore
  <2> QED
    BY <1>6, <1>8, <2>1 DEF IsStore
<1> QED
  BY <1>6, <1>7, <1>9 DEF SameWindow, t

\* The rows of a Window are a window's height.
LEMMA WindowIsSmall ==
    ASSUME NEW s, IsStore(s), NEW S \in SUBSET Window(s)
    PROVE  IsFiniteSet(S) /\ Cardinality(S) \in Nat /\ Cardinality(S) <= s.height
<1>1. s.height \in Nat /\ s.base \in Nat
  BY StoreSets
<1>2. IsFiniteSet(Window(s)) /\ Cardinality(Window(s)) <= s.height
  <2>1. CASE s.height = 0
    BY <2>1, FS_EmptySet DEF Window
  <2>2. CASE s.height # 0
    <3>1. Window(s) = s.base .. s.base + s.height - 1
      BY <2>2 DEF Window
    <3> DEFINE e == s.base + s.height - 1
    <3>2. e \in Int /\ s.base \in Int /\ e - s.base + 1 = s.height
      BY <1>1
    <3> HIDE DEF e
    <3>3. /\ IsFiniteSet(s.base .. e)
          /\ Cardinality(s.base .. e) = IF s.base > e THEN 0 ELSE e - s.base + 1
      BY <3>2, FS_Interval
    <3>4. Cardinality(s.base .. e) <= s.height
      BY <1>1, <3>2, <3>3
    <3> QED
      BY <3>1, <3>3, <3>4 DEF e
  <2> QED
    BY <2>1, <2>2
<1>3. IsFiniteSet(S) /\ Cardinality(S) <= Cardinality(Window(s))
  BY <1>2, FS_Subset
<1>4. Cardinality(S) \in Nat /\ Cardinality(Window(s)) \in Nat
  BY <1>2, <1>3, FS_CardinalityType
<1> QED
  BY <1>1, <1>2, <1>3, <1>4

\* The cap holds where it has been enforced; only tail rows go, and none of the
\* window's.
LEMMA CapHolds ==
    ASSUME NEW s, IsStore(s)
    PROVE  LET t == enforceCap(s)
           IN  /\ IsStore(t) /\ SameWindow(t, s) /\ Capped(t)
               /\ Held(t) \subseteq Held(s) /\ t.browse = s.browse
               /\ Held(s) \cap Window(s) \subseteq Held(t)
<1> DEFINE tail == TailRows(s)
           n == Cardinality(tail)
           bound == tailBound(s)
           batch == evictionBatch(bound)
           spare == {i \in tail \ Window(s) :
                       i < Highest(s) \/ (s.height > 0 /\ i >= s.base + s.height)}
           k == n - (bound - batch + 1)
           victims == Lowest(spare, k)
           thin == Forget(s, victims)
           t == [thin EXCEPT !.evictedThrough = Max({thin.evictedThrough} \cup victims)]
<1>1. enforceCap(s) = IF n <= bound THEN s ELSE t
  BY DEF enforceCap
<1>2. /\ n \in Nat /\ bound \in Nat /\ bound >= 1 /\ bound >= s.height
      /\ s.height \in Nat /\ s.base \in Nat /\ tail \in SUBSET Held(s) /\ tail \subseteq Nat
  BY StoreSets
<1>3. batch \in Nat /\ batch >= 1
  <2>1. bound \div 16 \in Int
    BY <1>2
  <2> QED
    BY <2>1 DEF evictionBatch, Lesser, Greater
<1>4. CASE n <= bound
  <2>1. enforceCap(s) = s
    BY <1>1, <1>4
  <2>2. Capped(s)
    BY <1>4 DEF Capped
  <2> QED
    BY <2>1, <2>2 DEF SameWindow
<1>5. CASE ~(n <= bound)
  <2>1. k \in Nat /\ n - k <= bound
    BY <1>2, <1>3, <1>5
  <2>2. spare \in SUBSET Held(s) /\ spare \subseteq tail
    BY <1>2
  <2>3. PICK b \in Nat : Held(s) \subseteq 0..b
    BY DEF IsStore
  <2>4. victims \subseteq spare /\ (victims = spare \/ Cardinality(victims) >= k)
    <3>1. spare \subseteq 0..b
      BY <2>2, <2>3
    <3> HIDE DEF spare, k
    <3> QED
      BY <2>1, <2>3, <3>1, LowestAreEnough
  <2>5. /\ IsStore(thin) /\ SameWindow(thin, s)
        /\ Held(thin) = Held(s) \ victims /\ thin.browse = s.browse \ victims
        /\ thin.evictedThrough = s.evictedThrough
    BY ForgetThins
  <2>6. Max({thin.evictedThrough} \cup victims) \in Int
    <3> DEFINE e == thin.evictedThrough
               M == {e} \cup victims
               top == IF e >= b THEN e ELSE b
    <3> HIDE DEF victims, spare, thin
    <3>1. e \in Int /\ victims \subseteq 0..b /\ b \in Int
      <4>1. e \in Int
        BY <2>5 DEF IsStore
      <4> HIDE DEF e
      <4> QED
        BY <2>2, <2>3, <2>4, <4>1
    <3> HIDE DEF e
    <3>2. top \in Int /\ M \in SUBSET Int /\ M # {} /\ \A i \in M : i <= top
      BY <3>1
    <3> HIDE DEF M, top
    <3>3. Max(M) \in M
      BY <3>2, MaxIsGreatest
    <3> QED
      BY <3>2, <3>3 DEF M, e
  <2>7. /\ t = [lines |-> thin.lines, unconfirmedFrom |-> thin.unconfirmedFrom,
                erasedThrough |-> thin.erasedThrough, base |-> thin.base,
                height |-> thin.height, browse |-> thin.browse,
                evictedThrough |-> Max({thin.evictedThrough} \cup victims),
                serverOldest |-> thin.serverOldest, solicited |-> thin.solicited,
                pagingFloor |-> thin.pagingFloor]
    <3> DEFINE x == Max({thin.evictedThrough} \cup victims)
    <3> HIDE DEF x, thin
    <3>1. t = [thin EXCEPT !.evictedThrough = x]
      BY DEF x
    <3> HIDE DEF t
    <3>2. t = [lines |-> thin.lines, unconfirmedFrom |-> thin.unconfirmedFrom,
               erasedThrough |-> thin.erasedThrough, base |-> thin.base,
               height |-> thin.height, browse |-> thin.browse, evictedThrough |-> x,
               serverOldest |-> thin.serverOldest, solicited |-> thin.solicited,
               pagingFloor |-> thin.pagingFloor]
      BY <2>5, <3>1 DEF IsStore
    <3> QED
      BY <3>2 DEF x
  <2> HIDE DEF t, thin
  <2>8. Held(t) = Held(thin)
    BY <2>7 DEF Held
  <2>9. IsStore(t) /\ SameWindow(t, s)
    BY <2>5, <2>6, <2>7, <2>8 DEF IsStore, SameWindow
  <2> HIDE DEF k, victims
  <2>10. victims \cap s.browse = {} /\ victims \cap Window(s) = {}
    BY <2>4 DEF TailRows
  <2>11. t.browse = s.browse /\ Held(s) \cap Window(s) \subseteq Held(t) /\ Held(t) \subseteq Held(s)
    BY <2>5, <2>7, <2>8, <2>10
  <2>12. TailRows(t) = tail \ victims
    BY <2>5, <2>8, <2>10, <2>11 DEF TailRows
  <2>13. /\ Cardinality(tail \ victims) = n - Cardinality(victims)
         /\ Cardinality(victims) \in Nat
    <3>1. IsFiniteSet(tail) /\ tail \cap victims = victims
      BY <1>2, <2>2, <2>4, StoreSets
    <3>2. victims \in SUBSET Held(s)
      BY <2>2, <2>4
    <3> HIDE DEF tail
    <3> QED
      BY <3>1, <3>2, FS_Difference, StoreSets
  <2>14. Cardinality(tail \ victims) <= bound
    <3>1. CASE Cardinality(victims) >= k
      BY <1>2, <2>1, <2>13, <3>1
    <3>2. CASE victims = spare
      <4> DEFINE rest == tail \ spare
                 top == Highest(s)
      <4>1. \A i \in rest : i \in Window(s) \/ (i = top /\ ~(s.height > 0 /\ i >= s.base + s.height))
        <5> SUFFICES ASSUME NEW i \in rest, i \notin Window(s)
                     PROVE  i = top /\ ~(s.height > 0 /\ i >= s.base + s.height)
          OBVIOUS
        <5>1. ~(i < top) /\ ~(s.height > 0 /\ i >= s.base + s.height)
          OBVIOUS
        <5>2. i \in Held(s) /\ i \in Int /\ i <= top /\ top \in Int
          BY <1>2, Extremes
        <5> QED
          BY <5>1, <5>2
      <4>2. top \in Int /\ \A i \in Held(s) : i \in Int /\ i <= top
        BY Extremes, StoreSets
      <4> HIDE DEF top
      <4>3. rest \subseteq Window(s) \/ rest \subseteq {top}
        <5> SUFFICES ASSUME ~(rest \subseteq Window(s)) PROVE rest \subseteq {top}
          OBVIOUS
        <5>1. top \in rest /\ top \notin Window(s) /\ ~(s.height > 0 /\ top >= s.base + s.height)
          BY <4>1
        <5>2. \A i \in Held(s) : i \notin Window(s)
          BY <1>2, <4>2, <5>1, StoreSets
        <5>3. rest \subseteq Held(s)
          BY <1>2
        <5> QED
          BY <4>1, <5>2, <5>3
      <4>4. Cardinality(rest) <= bound
        <5>1. CASE rest \subseteq Window(s)
          <6>1. Cardinality(rest) \in Nat /\ Cardinality(rest) <= s.height
            <7> HIDE DEF rest
            <7> QED
              BY <5>1, WindowIsSmall
          <6> QED
            BY <1>2, <6>1
        <5>2. CASE rest \subseteq {top}
          <6>1. IsFiniteSet({top}) /\ Cardinality({top}) = 1
            BY FS_Singleton
          <6>2. Cardinality(rest) <= 1
            <7> HIDE DEF rest
            <7> QED
              BY <5>2, <6>1, FS_Subset
          <6>3. Cardinality(rest) \in Nat
            <7>1. rest \in SUBSET Held(s)
              BY <1>2
            <7> HIDE DEF rest
            <7> QED
              BY <7>1, StoreSets
          <6> QED
            BY <1>2, <6>2, <6>3
        <5> QED
          BY <4>3, <5>1, <5>2
      <4> QED
        BY <3>2, <4>4
    <3> QED
      BY <2>4, <3>1, <3>2
  <2>15. tailBound(t) = bound
    BY <2>9 DEF tailBound, SameWindow
  <2>16. Capped(t)
    BY <2>12, <2>14, <2>15 DEF Capped
  <2>17. enforceCap(s) = t
    BY <1>1, <1>5
  <2> QED
    BY <2>9, <2>11, <2>16, <2>17
<1> QED
  BY <1>4, <1>5

\* A row that is applied, or refused.
LEMMA LineApplied ==
    ASSUME NEW s, IsStore(s), NEW i \in Nat, NEW line, NEW bulk \in BOOLEAN
    PROVE  LET t == applyLine(s, i, line, bulk)
           IN  /\ IsStore(t) /\ SameWindow(t, s) /\ t.browse = s.browse
               /\ Held(t) \subseteq Held(s) \cup {i}
               /\ Held(s) \cap Window(s) \subseteq Held(t)
               /\ i \in Window(s) => i \in Held(t)
               /\ ~bulk /\ Capped(s) => Capped(t)
<1> DEFINE new == [j \in Held(s) \cup {i} |-> IF j = i THEN line ELSE s.lines[j]]
           put == [s EXCEPT !.lines = new]
           t == applyLine(s, i, line, bulk)
<1>1. t = IF Refused(s, i) \/ (i \in Held(s) /\ s.lines[i] = line) THEN s
          ELSE IF bulk THEN put ELSE enforceCap(put)
  BY DEF applyLine, Held
<1>2. CASE Refused(s, i) \/ (i \in Held(s) /\ s.lines[i] = line)
  <2>1. t = s
    BY <1>1, <1>2
  <2>2. i \in Window(s) => i \in Held(s)
    BY <1>2 DEF Refused
  <2> HIDE DEF t
  <2> QED
    BY <2>1, <2>2 DEF SameWindow, t
<1>3. CASE ~(Refused(s, i) \/ (i \in Held(s) /\ s.lines[i] = line))
  <2>1. t = IF bulk THEN put ELSE enforceCap(put)
    BY <1>1, <1>3
  <2>2. put = [lines |-> new, unconfirmedFrom |-> s.unconfirmedFrom,
               erasedThrough |-> s.erasedThrough, base |-> s.base, height |-> s.height,
               browse |-> s.browse, evictedThrough |-> s.evictedThrough,
               serverOldest |-> s.serverOldest, solicited |-> s.solicited,
               pagingFloor |-> s.pagingFloor]
    <3> HIDE DEF new
    <3> QED
      BY DEF IsStore
  <2>3. Held(put) = Held(s) \cup {i}
    <3>1. put.lines = new /\ DOMAIN new = Held(s) \cup {i}
      <4>1. DOMAIN new = Held(s) \cup {i}
        OBVIOUS
      <4> HIDE DEF new, put
      <4> QED
        BY <2>2, <4>1
    <3> HIDE DEF put, new
    <3> QED
      BY <3>1 DEF Held
  <2>4. \E n \in Nat : Held(put) \subseteq 0..n
    <3>1. PICK n \in Nat : Held(s) \subseteq 0..n
      BY DEF IsStore
    <3>2. n + i \in Nat /\ 0..n \subseteq 0..(n + i) /\ i \in 0..(n + i)
      OBVIOUS
    <3> HIDE DEF put
    <3>3. Held(put) \subseteq 0..(n + i)
      BY <2>3, <3>1, <3>2
    <3> QED
      BY <3>2, <3>3
  <2> HIDE DEF put, new, t
  <2>5. IsStore(put) /\ SameWindow(put, s) /\ put.browse = s.browse
    <3>1. put.browse \subseteq Held(put)
      BY <2>2, <2>3 DEF IsStore
    <3> QED
      BY <2>2, <2>4, <3>1 DEF IsStore, SameWindow
  <2>6. Window(put) = Window(s)
    BY <2>5 DEF Window, SameWindow
  <2>7. CASE bulk
    <3>1. t = put
      BY <2>1, <2>7
    <3> QED
      BY <2>3, <2>5, <2>7, <3>1 DEF t
  <2>8. CASE ~bulk
    <3>1. t = enforceCap(put)
      BY <2>1, <2>8
    <3>2. /\ IsStore(t) /\ SameWindow(t, put) /\ Capped(t)
          /\ Held(t) \subseteq Held(put) /\ t.browse = put.browse
          /\ Held(put) \cap Window(put) \subseteq Held(t)
      BY <2>5, <3>1, CapHolds
    <3>3. SameWindow(t, s)
      BY <2>5, <3>2 DEF SameWindow
    <3> QED
      BY <2>3, <2>5, <2>6, <3>2, <3>3 DEF t
  <2> QED
    BY <2>7, <2>8
<1> QED
  BY <1>2, <1>3

\* The rows of a frame, one after the other.
LEMMA RowsApplied ==
    ASSUME NEW s, IsStore(s), NEW first \in Nat, NEW lines, Len(lines) \in Nat, NEW bulk
    PROVE  LET t == applyRows(s, first, lines, bulk)
               brought == first .. first + Len(lines) - 1
           IN  /\ IsStore(t) /\ SameWindow(t, s) /\ t.browse = s.browse
               /\ Held(t) \subseteq Held(s) \cup brought
               /\ Held(s) \cap Window(s) \subseteq Held(t)
               /\ brought \cap Window(s) \subseteq Held(t)
               /\ bulk = {} /\ Capped(s) => Capped(t)
<1> DEFINE n == Len(lines)
           Next1(u, k) == applyLine(u, first + k - 1, lines[k], first + k - 1 \in bulk)
           IsRun(f, m) == f = [k \in 0..m |-> IF k = 0 THEN s ELSE Next1(f[k - 1], k)]
           after == CHOOSE f : IsRun(f, n)
<1>1. applyRows(s, first, lines, bulk) = after[n]
  BY Zenon DEF applyRows
<1> HIDE DEF Next1
<1>2. \E f : IsRun(f, n)
  <2> DEFINE T == {m \in Nat : ~\E f : IsRun(f, m)}
  <2> SUFFICES T = {}
    OBVIOUS
  <2> SUFFICES ASSUME T # {} PROVE FALSE
    OBVIOUS
  <2> DEFINE m == Min(T)
  <2>1. m \in T /\ \A k \in T : m <= k
    <3>1. 0 \in Int /\ T \in SUBSET Int /\ \A k \in T : 0 <= k
      OBVIOUS
    <3> HIDE DEF T
    <3> QED
      BY <3>1, MinIsLeast
  <2>2. m # 0
    <3>1. IsRun([k \in 0..0 |-> s], 0)
      OBVIOUS
    <3> QED
      BY <2>1, <3>1
  <2> HIDE DEF m
  <2>3. m \in Nat /\ m - 1 \in Nat /\ m - 1 \notin T
    <3>1. T \subseteq Nat
      OBVIOUS
    <3> HIDE DEF T
    <3> QED
      BY <2>1, <2>2, <3>1
  <2>4. PICK f : IsRun(f, m - 1)
    BY <2>3
  <2> DEFINE g == [k \in 0..m |-> IF k = m THEN Next1(f[m - 1], m) ELSE f[k]]
  <2>5. ASSUME NEW k \in 0..m
        PROVE  g[k] = IF k = 0 THEN s ELSE Next1(g[k - 1], k)
    <3>1. CASE k = m
      <4>1. m - 1 \in 0..m /\ m - 1 # m /\ m \in 0..m
        BY <2>3
      <4>2. g[m] = Next1(f[m - 1], m) /\ g[m - 1] = f[m - 1]
        BY <4>1
      <4> QED
        BY <2>2, <3>1, <4>2
    <3>2. CASE k # m
      <4>1. k \in 0..(m - 1) /\ (k # 0 => k - 1 \in 0..(m - 1) /\ k - 1 \in 0..m /\ k - 1 # m)
        BY <2>3, <3>2
      <4>2. g[k] = f[k] /\ (k # 0 => g[k - 1] = f[k - 1])
        BY <3>2, <4>1
      <4>3. f[k] = IF k = 0 THEN s ELSE Next1(f[k - 1], k)
        BY <2>4, <4>1
      <4> QED
        BY <4>2, <4>3
    <3> QED
      BY <3>1, <3>2
  <2>6. IsRun(g, m)
    <3> DEFINE h == [k \in 0..m |-> IF k = 0 THEN s ELSE Next1(g[k - 1], k)]
    <3>1. \A k \in 0..m : g[k] = h[k]
      BY <2>5
    <3>2. g = h
      BY <3>1
    <3> QED
      BY <3>2
  <2> QED
    BY <2>1, <2>6
<1>3. IsRun(after, n)
  BY <1>2
<1> HIDE DEF after
<1>4. after[0] = s /\ \A k \in 1..n : after[k] = Next1(after[k - 1], k)
  <2>1. 0 \in 0..n /\ \A k \in 1..n : k \in 0..n /\ k # 0
    OBVIOUS
  <2> QED
    BY <1>3, <2>1
<1> DEFINE Good(k) ==
        /\ IsStore(after[k]) /\ SameWindow(after[k], s) /\ after[k].browse = s.browse
        /\ Held(after[k]) \subseteq Held(s) \cup (first .. first + k - 1)
        /\ Held(s) \cap Window(s) \subseteq Held(after[k])
        /\ (first .. first + k - 1) \cap Window(s) \subseteq Held(after[k])
        /\ bulk = {} /\ Capped(s) => Capped(after[k])
<1>5. Good(0)
  <2>1. first .. first + 0 - 1 = {}
    OBVIOUS
  <2> QED
    BY <1>4, <2>1 DEF SameWindow
<1>6. ASSUME NEW k \in 1..n, Good(k - 1) PROVE Good(k)
  <2> DEFINE u == after[k - 1]
             t == after[k]
             i == first + k - 1
  <2>1. i \in Nat /\ (i \in bulk) \in BOOLEAN
    OBVIOUS
  <2>2. t = applyLine(u, i, lines[k], i \in bulk)
    BY <1>4 DEF Next1
  <2>3. first .. first + k - 1 = (first .. first + (k - 1) - 1) \cup {i}
    OBVIOUS
  <2>4. Window(u) = Window(s)
    BY <1>6 DEF Window, SameWindow
  <2>5. IsStore(u)
    BY <1>6
  <2> HIDE DEF t, u, i
  <2> DEFINE whole == i \in bulk
  <2>12. whole \in BOOLEAN /\ t = applyLine(u, i, lines[k], whole)
    BY <2>2
  <2> HIDE DEF whole
  <2>6. /\ IsStore(t) /\ SameWindow(t, u) /\ t.browse = u.browse
        /\ Held(t) \subseteq Held(u) \cup {i}
        /\ Held(u) \cap Window(u) \subseteq Held(t)
        /\ i \in Window(u) => i \in Held(t)
        /\ ~whole /\ Capped(u) => Capped(t)
    BY <2>1, <2>5, <2>12, LineApplied
  <2>7. SameWindow(t, s) /\ t.browse = s.browse
    BY <1>6, <2>6 DEF SameWindow, u
  <2>8. Held(t) \subseteq Held(s) \cup (first .. first + k - 1)
    BY <1>6, <2>3, <2>6 DEF u
  <2>9. Held(s) \cap Window(s) \subseteq Held(t)
    BY <1>6, <2>4, <2>6 DEF u
  <2>10. (first .. first + k - 1) \cap Window(s) \subseteq Held(t)
    BY <1>6, <2>3, <2>4, <2>6 DEF u
  <2>11. bulk = {} /\ Capped(s) => Capped(t)
    BY <1>6, <2>6 DEF u, whole
  <2> QED
    BY <2>6, <2>7, <2>8, <2>9, <2>10, <2>11 DEF t
<1> HIDE DEF Good
<1>7. Good(n)
  <2> DEFINE T == {m \in 0..n : ~Good(m)}
             m == Min(T)
  <2> SUFFICES ASSUME T # {} PROVE FALSE
    OBVIOUS
  <2>1. m \in T /\ \A k \in T : m <= k
    <3>1. 0 \in Int /\ T \in SUBSET Int /\ \A k \in T : 0 <= k
      OBVIOUS
    <3> HIDE DEF T
    <3> QED
      BY <3>1, MinIsLeast
  <2> HIDE DEF m
  <2>2. m # 0
    BY <1>5, <2>1
  <2>3. m \in 1..n /\ m - 1 \in 0..n /\ ~(m <= m - 1)
    BY <2>1, <2>2
  <2>4. Good(m - 1)
    BY <2>1, <2>3
  <2> QED
    BY <1>6, <2>1, <2>3, <2>4
<1> QED
  BY <1>1, <1>7 DEF Good

\* A pass of the budget takes cache rows only, and one at least while there are
\* more than may be near the reader.
LEMMA ShedTakesSome ==
    ASSUME NEW s, IsStore(s), NEW target \in Nat, NEW at \in Int
    PROVE  /\ Shed(s, target, at) \subseteq s.browse
           /\ /\ Cardinality(s.browse) > target
              /\ Cardinality(s.browse) > 2 * PrefetchThreshold + 1
              => Shed(s, target, at) # {}
<1> DEFINE T == PrefetchThreshold
           B == s.browse
           near == (at - T)..(at + T)
           band == B \cap near
           top == Max(B)
           low == Min(B)
           fromTop == Distance(top, at) > Distance(at, low)
           n == Lesser(Cardinality(B) - target, PageSize)
           above == {i \in B : \A j \in band : i > j}
           below == {i \in B : \A j \in band : i < j}
<1>1. Shed(s, target, at) = IF fromTop THEN Uppermost(above, n) ELSE Lowest(below, n)
  BY DEF Shed
<1>2. Uppermost(above, n) \subseteq above /\ Lowest(below, n) \subseteq below
  BY DEF Uppermost, Lowest
<1>3. ASSUME Cardinality(B) > target, Cardinality(B) > 2 * T + 1
      PROVE  (IF fromTop THEN Uppermost(above, n) ELSE Lowest(below, n)) # {}
  <2>1. /\ T \in Nat /\ PageSize \in Nat /\ PageSize > 0 /\ Cardinality(B) \in Nat
        /\ B \in SUBSET Held(s)
    BY Constants, StoreSets
  <2>2. n \in Nat /\ n >= 1
    BY <1>3, <2>1 DEF Lesser
  <2>3. B # {}
    <3>1. B = {} => Cardinality(B) = 0
      BY FS_EmptySet
    <3> QED
      BY <1>3, <2>1, <3>1
  <2>4. /\ top \in B /\ low \in B /\ B \subseteq Nat
        /\ \A i \in B : low <= i /\ i <= top
    <3>1. /\ Min(B) \in B /\ (\A i \in B : Min(B) <= i) /\ B \subseteq Nat
          /\ Max(B) \in B /\ (\A i \in B : Max(B) >= i)
      <4> HIDE DEF B
      <4> QED
        BY <2>1, <2>3, StoreSets
    <3> QED
      BY <3>1
  <2> HIDE DEF top, low
  <2>5. ~(B \subseteq near)
    <3> SUFFICES ASSUME B \subseteq near PROVE FALSE
      OBVIOUS
    <3> DEFINE a == at - T
               z == at + T
    <3>1. a \in Int /\ z \in Int /\ z - a + 1 = 2 * T + 1 /\ ~(a > z)
      BY <2>1
    <3>2. near = a..z
      OBVIOUS
    <3> HIDE DEF a, z
    <3>3. IsFiniteSet(a..z) /\ Cardinality(a..z) = z - a + 1
      BY <3>1, FS_Interval
    <3>4. Cardinality(B) <= Cardinality(a..z)
      <4>1. B \in SUBSET (a..z)
        BY <3>2
      <4> HIDE DEF B
      <4> QED
        BY <3>3, <4>1, FS_Subset
    <3> QED
      BY <1>3, <2>1, <3>1, <3>3, <3>4
  <2>6. ASSUME NEW i \in Int PROVE i \in near <=> at - T <= i /\ i <= at + T
    BY <2>1
  <2>7. PICK b \in Nat : Held(s) \subseteq 0..b
    BY DEF IsStore
  <2>8. CASE fromTop
    <3>1. top \in above
      <4>1. CASE top \in near
        <5>1. top <= at + T /\ at - T <= top /\ top \in Int /\ low \in Int /\ low <= top
          BY <2>4, <2>6, <4>1
        <5>2. Distance(top, at) <= T
          BY <2>1, <5>1 DEF Distance, Greater, Lesser
        <5>3. at - T <= low
          BY <2>1, <2>8, <5>1, <5>2 DEF Distance, Greater, Lesser
        <5>4. \A i \in B : i \in near
          BY <2>1, <2>4, <2>6, <5>1, <5>3
        <5> QED
          BY <2>5, <5>4
      <4>2. CASE top \notin near
        <5>1. \A j \in band : top > j
          <6> SUFFICES ASSUME NEW j \in band PROVE top > j
            OBVIOUS
          <6>1. j \in B /\ j \in near /\ j <= top /\ j # top /\ j \in Int /\ top \in Int
            BY <2>4, <4>2
          <6> QED
            BY <6>1
        <5> QED
          BY <2>4, <5>1
      <4> QED
        BY <4>1, <4>2
    <3>2. Uppermost(above, n) # {}
      <4>1. above \subseteq 0..b
        BY <2>1, <2>7
      <4> HIDE DEF above, n
      <4>2. Uppermost(above, n) = above \/ Cardinality(Uppermost(above, n)) >= n
        BY <2>2, <2>7, <4>1, UppermostAreEnough
      <4>3. Cardinality({}) = 0
        BY FS_EmptySet
      <4> QED
        BY <2>2, <3>1, <4>2, <4>3
    <3> QED
      BY <2>8, <3>2
  <2>9. CASE ~fromTop
    <3>1. low \in below
      <4>1. CASE low \in near
        <5>1. low <= at + T /\ at - T <= low /\ top \in Int /\ low \in Int /\ low <= top
          BY <2>4, <2>6, <4>1
        <5>2. Distance(at, low) <= T
          BY <2>1, <5>1 DEF Distance, Greater, Lesser
        <5>3. top <= at + T
          BY <2>1, <2>9, <5>1, <5>2 DEF Distance, Greater, Lesser
        <5>4. \A i \in B : i \in near
          BY <2>1, <2>4, <2>6, <5>1, <5>3
        <5> QED
          BY <2>5, <5>4
      <4>2. CASE low \notin near
        <5>1. \A j \in band : low < j
          <6> SUFFICES ASSUME NEW j \in band PROVE low < j
            OBVIOUS
          <6>1. j \in B /\ j \in near /\ low <= j /\ j # low /\ j \in Int /\ low \in Int
            BY <2>4, <4>2
          <6> QED
            BY <6>1
        <5> QED
          BY <2>4, <5>1
      <4> QED
        BY <4>1, <4>2
    <3>2. Lowest(below, n) # {}
      <4>1. below \subseteq 0..b
        BY <2>1, <2>7
      <4> HIDE DEF below, n
      <4>2. Lowest(below, n) = below \/ Cardinality(Lowest(below, n)) >= n
        BY <2>2, <2>7, <4>1, LowestAreEnough
      <4>3. Cardinality({}) = 0
        BY FS_EmptySet
      <4> QED
        BY <2>2, <3>1, <4>2, <4>3
    <3> QED
      BY <2>9, <3>2
  <2> QED
    BY <2>8, <2>9
<1>4. Shed(s, target, at) \subseteq B
  <2> HIDE DEF fromTop, n
  <2>1. above \subseteq B /\ below \subseteq B
    OBVIOUS
  <2> HIDE DEF above, below, B
  <2> QED
    BY <1>1, <1>2, <2>1
<1> HIDE DEF fromTop, above, below, n
<1> QED
  BY <1>1, <1>3, <1>4

\* The budget of the cache: what it leaves is within the target, or what may be
\* near the reader, and it takes cache rows only.
LEMMA BudgetHolds ==
    ASSUME NEW s, IsStore(s), NEW target \in Nat, NEW at \in Int
    PROVE  LET t == enforceBrowseBudget(s, target, at)
           IN  /\ IsStore(t) /\ SameWindow(t, s)
               /\ Held(t) \subseteq Held(s) /\ t.browse \subseteq s.browse
               /\ Held(s) \ s.browse \subseteq Held(t)
               /\ \/ Cardinality(t.browse) <= target
                  \/ Cardinality(t.browse) <= 2 * PrefetchThreshold + 1
<1> DEFINE n == Cardinality(s.browse)
           Pass(u) == IF Cardinality(u.browse) <= target THEN u
                      ELSE Forget(u, Shed(u, target, at))
           IsRun(f, m) == f = [k \in 0..m |-> IF k = 0 THEN s ELSE Pass(f[k - 1])]
           after == CHOOSE f : IsRun(f, n)
<1>1. enforceBrowseBudget(s, target, at) = after[n]
  BY Zenon DEF enforceBrowseBudget
<1>2. n \in Nat
  BY StoreSets
<1> HIDE DEF n
<1>3. \E f : IsRun(f, n)
  <2> HIDE DEF Pass
  <2> DEFINE T == {m \in Nat : ~\E f : IsRun(f, m)}
  <2> SUFFICES T = {}
    BY <1>2
  <2> SUFFICES ASSUME T # {} PROVE FALSE
    OBVIOUS
  <2> DEFINE m == Min(T)
  <2>1. m \in T /\ \A k \in T : m <= k
    <3>1. 0 \in Int /\ T \in SUBSET Int /\ \A k \in T : 0 <= k
      OBVIOUS
    <3> HIDE DEF T
    <3> QED
      BY <3>1, MinIsLeast
  <2>2. m # 0
    <3>1. IsRun([k \in 0..0 |-> s], 0)
      OBVIOUS
    <3> QED
      BY <2>1, <3>1
  <2> HIDE DEF m
  <2>3. m \in Nat /\ m - 1 \in Nat /\ m - 1 \notin T
    <3>1. T \subseteq Nat
      OBVIOUS
    <3> HIDE DEF T
    <3> QED
      BY <2>1, <2>2, <3>1
  <2>4. PICK f : IsRun(f, m - 1)
    BY <2>3
  <2> DEFINE g == [k \in 0..m |-> IF k = m THEN Pass(f[m - 1]) ELSE f[k]]
  <2>5. ASSUME NEW k \in 0..m
        PROVE  g[k] = IF k = 0 THEN s ELSE Pass(g[k - 1])
    <3>1. CASE k = m
      <4>1. m - 1 \in 0..m /\ m - 1 # m /\ m \in 0..m
        BY <2>3
      <4>2. g[m] = Pass(f[m - 1]) /\ g[m - 1] = f[m - 1]
        BY <4>1
      <4> QED
        BY <2>2, <3>1, <4>2
    <3>2. CASE k # m
      <4>1. k \in 0..(m - 1) /\ (k # 0 => k - 1 \in 0..(m - 1) /\ k - 1 \in 0..m /\ k - 1 # m)
        BY <2>3, <3>2
      <4>2. g[k] = f[k] /\ (k # 0 => g[k - 1] = f[k - 1])
        BY <3>2, <4>1
      <4>3. f[k] = IF k = 0 THEN s ELSE Pass(f[k - 1])
        BY <2>4, <4>1
      <4> QED
        BY <4>2, <4>3
    <3> QED
      BY <3>1, <3>2
  <2>6. IsRun(g, m)
    <3> DEFINE h == [k \in 0..m |-> IF k = 0 THEN s ELSE Pass(g[k - 1])]
    <3>1. \A k \in 0..m : g[k] = h[k]
      BY <2>5
    <3>2. g = h
      BY <3>1
    <3> QED
      BY <3>2
  <2> QED
    BY <2>1, <2>6
<1>4. IsRun(after, n)
  <2> HIDE DEF IsRun
  <2> QED
    BY <1>3
<1>5. after[0] = s /\ \A k \in 1..n : after[k] = Pass(after[k - 1])
  <2> HIDE DEF Pass, after
  <2>1. 0 \in 0..n /\ \A k \in 1..n : k \in 0..n /\ k # 0
    BY <1>2
  <2> QED
    BY <1>4, <2>1
<1> HIDE DEF after
<1> DEFINE Good(k) ==
        /\ IsStore(after[k]) /\ SameWindow(after[k], s)
        /\ Held(after[k]) \subseteq Held(s) /\ after[k].browse \subseteq s.browse
        /\ Held(s) \ s.browse \subseteq Held(after[k])
        /\ \/ Cardinality(after[k].browse) <= target
           \/ Cardinality(after[k].browse) <= 2 * PrefetchThreshold + 1
           \/ Cardinality(after[k].browse) <= n - k
<1>6. Good(0)
  <2>1. Cardinality(s.browse) <= n - 0
    BY <1>2 DEF n
  <2> HIDE DEF Pass
  <2> QED
    BY <1>5, <2>1 DEF SameWindow
<1>7. ASSUME NEW k \in 1..n, Good(k - 1) PROVE Good(k)
  <2> DEFINE u == after[k - 1]
             t == after[k]
             out == Shed(u, target, at)
  <2>1. t = IF Cardinality(u.browse) <= target THEN u ELSE Forget(u, out)
    BY <1>5
  <2>2. IsStore(u) /\ Cardinality(u.browse) \in Nat
    <3>1. IsStore(u)
      BY <1>7
    <3> HIDE DEF u
    <3> QED
      BY <3>1, StoreSets
  <2>3. CASE Cardinality(u.browse) <= target
    <3>1. t = u
      BY <2>1, <2>3
    <3> QED
      BY <1>7, <2>3, <3>1
  <2>4. CASE ~(Cardinality(u.browse) <= target)
    <3>1. t = Forget(u, out)
      BY <2>1, <2>4
    <3>7. Good(k - 1)
      BY <1>7
    <3>8. after[k] = t /\ after[k - 1] = u
      OBVIOUS
    <3> HIDE DEF t, u, Pass
    <3>2. /\ out \subseteq u.browse
          /\ Cardinality(u.browse) > 2 * PrefetchThreshold + 1 => out # {}
      <4>1. Cardinality(u.browse) > target
        BY <2>2, <2>4
      <4> QED
        BY <2>2, <4>1, ShedTakesSome
    <3> HIDE DEF out
    <3>3. /\ IsStore(t) /\ SameWindow(t, u)
          /\ Held(t) = Held(u) \ out /\ t.browse = u.browse \ out
      BY <2>2, <3>1, ForgetThins
    <3>4. /\ Cardinality(t.browse) = Cardinality(u.browse) - Cardinality(out)
          /\ Cardinality(out) \in Nat /\ (out # {} => Cardinality(out) > 0)
      <4>1. u.browse \cap out = out /\ out \in SUBSET Held(u) /\ u.browse \in SUBSET Held(u)
        BY <2>2, <3>2 DEF IsStore
      <4>2. IsFiniteSet(out) /\ Cardinality(out) \in Nat /\ IsFiniteSet(u.browse)
        BY <2>2, <4>1, StoreSets
      <4>3. Cardinality(u.browse \ out) = Cardinality(u.browse) - Cardinality(out)
        BY <4>1, <4>2, FS_Difference
      <4>4. out # {} => Cardinality(out) # 0
        BY <4>2, FS_EmptySet
      <4> QED
        BY <3>3, <4>2, <4>3, <4>4
    <3>5. \/ Cardinality(t.browse) <= 2 * PrefetchThreshold + 1
          \/ Cardinality(t.browse) <= n - k
      <4>1. /\ PrefetchThreshold \in Nat /\ n \in Nat /\ k \in Nat
            /\ Cardinality(u.browse) \in Nat
        BY <1>2, <2>2, Constants
      <4>2. \/ Cardinality(u.browse) <= 2 * PrefetchThreshold + 1
            \/ Cardinality(u.browse) <= n - (k - 1)
        BY <2>4, <3>7, <3>8
      <4> QED
        BY <3>2, <3>4, <4>1, <4>2
    <3>6. SameWindow(t, s)
      BY <3>3, <3>7, <3>8 DEF SameWindow
    <3> QED
      BY <3>2, <3>3, <3>5, <3>6, <3>7, <3>8
  <2> QED
    BY <2>3, <2>4
<1> HIDE DEF Good
<1>8. Good(n)
  <2> DEFINE T == {m \in 0..n : ~Good(m)}
             m == Min(T)
  <2> SUFFICES ASSUME T # {} PROVE FALSE
    BY <1>2
  <2>1. m \in T /\ \A k \in T : m <= k
    <3>1. 0 \in Int /\ T \in SUBSET Int /\ \A k \in T : 0 <= k
      OBVIOUS
    <3> HIDE DEF T
    <3> QED
      BY <3>1, MinIsLeast
  <2> HIDE DEF m
  <2>2. m # 0
    BY <1>6, <2>1
  <2>3. m \in 1..n /\ m - 1 \in 0..n /\ ~(m <= m - 1)
    BY <1>2, <2>1, <2>2
  <2>4. Good(m - 1)
    BY <2>1, <2>3
  <2> QED
    BY <1>7, <2>1, <2>3, <2>4
<1>9. /\ IsStore(after[n]) /\ SameWindow(after[n], s)
      /\ Held(after[n]) \subseteq Held(s) /\ after[n].browse \subseteq s.browse
      /\ Held(s) \ s.browse \subseteq Held(after[n])
      /\ \/ Cardinality(after[n].browse) <= target
         \/ Cardinality(after[n].browse) <= 2 * PrefetchThreshold + 1
         \/ Cardinality(after[n].browse) <= n - n
  BY <1>8 DEF Good
<1>10. Cardinality(after[n].browse) <= n - n => Cardinality(after[n].browse) <= target
  <2>1. Cardinality(after[n].browse) \in Nat
    <3> DEFINE u == after[n]
    <3>1. IsStore(u)
      BY <1>9
    <3> HIDE DEF u
    <3>2. Cardinality(u.browse) \in Nat
      BY <3>1, StoreSets
    <3> QED
      BY <3>2 DEF u
  <2> QED
    BY <1>2, <2>1
<1> QED
  BY <1>1, <1>9, <1>10

-----------------------------------------------------------------------------
(* The store: frames.                                                        *)

\* The same rows under other words.
LEMMA Reworded ==
    ASSUME NEW s, IsStore(s), NEW t,
           t = [lines |-> s.lines, unconfirmedFrom |-> t.unconfirmedFrom,
                erasedThrough |-> s.erasedThrough, base |-> t.base, height |-> t.height,
                browse |-> t.browse, evictedThrough |-> s.evictedThrough,
                serverOldest |-> t.serverOldest, solicited |-> t.solicited,
                pagingFloor |-> t.pagingFloor],
           t.unconfirmedFrom \in Nat, t.base \in Nat, t.height \in {0, Height},
           t.browse \subseteq Held(s), t.serverOldest \in Int, t.solicited \in Requests,
           t.pagingFloor \in Nat
    PROVE  IsStore(t) /\ Held(t) = Held(s)
<1>1. t.lines = s.lines /\ t.erasedThrough = s.erasedThrough
      /\ t.evictedThrough = s.evictedThrough
  OBVIOUS
<1>2. Held(t) = Held(s)
  BY <1>1 DEF Held
<1>3. t = [lines |-> t.lines, unconfirmedFrom |-> t.unconfirmedFrom,
           erasedThrough |-> t.erasedThrough, base |-> t.base, height |-> t.height,
           browse |-> t.browse, evictedThrough |-> t.evictedThrough,
           serverOldest |-> t.serverOldest, solicited |-> t.solicited,
           pagingFloor |-> t.pagingFloor]
  BY <1>1
<1> QED
  BY <1>1, <1>2, <1>3 DEF IsStore

\* A request, a floor, and what is read of them.
LEMMA SolicitedChanged ==
    ASSUME NEW s, IsStore(s), NEW r \in Requests
    PROVE  LET t == [s EXCEPT !.solicited = r]
           IN  /\ IsStore(t) /\ Held(t) = Held(s) /\ t.browse = s.browse
               /\ t.base = s.base /\ t.height = s.height /\ t.solicited = r
               /\ t.pagingFloor = s.pagingFloor /\ t.unconfirmedFrom = s.unconfirmedFrom
<1> DEFINE t == [s EXCEPT !.solicited = r]
<1>1. t = [lines |-> s.lines, unconfirmedFrom |-> s.unconfirmedFrom,
           erasedThrough |-> s.erasedThrough, base |-> s.base, height |-> s.height,
           browse |-> s.browse, evictedThrough |-> s.evictedThrough,
           serverOldest |-> s.serverOldest, solicited |-> r,
           pagingFloor |-> s.pagingFloor]
  BY DEF IsStore
<1> HIDE DEF t
<1>2. IsStore(t) /\ Held(t) = Held(s)
  BY <1>1, Reworded DEF IsStore
<1> QED
  BY <1>1, <1>2 DEF t

\* The paging floor moves no row.
LEMMA FloorChanged ==
    ASSUME NEW s, IsStore(s), NEW p \in Nat
    PROVE  LET t == [s EXCEPT !.pagingFloor = p]
           IN  /\ IsStore(t) /\ Held(t) = Held(s) /\ t.browse = s.browse
               /\ t.base = s.base /\ t.height = s.height /\ t.solicited = s.solicited
               /\ t.pagingFloor = p /\ t.unconfirmedFrom = s.unconfirmedFrom
<1> DEFINE t == [s EXCEPT !.pagingFloor = p]
<1>1. t = [lines |-> s.lines, unconfirmedFrom |-> s.unconfirmedFrom,
           erasedThrough |-> s.erasedThrough, base |-> s.base, height |-> s.height,
           browse |-> s.browse, evictedThrough |-> s.evictedThrough,
           serverOldest |-> s.serverOldest, solicited |-> s.solicited,
           pagingFloor |-> p]
  BY DEF IsStore
<1> HIDE DEF t
<1>2. IsStore(t) /\ Held(t) = Held(s)
  BY <1>1, Reworded DEF IsStore
<1> QED
  BY <1>1, <1>2 DEF t

\* The floor of the unconfirmed rows.
LEMMA UnconfirmedChanged ==
    ASSUME NEW s, IsStore(s), NEW u \in Nat
    PROVE  LET t == [s EXCEPT !.unconfirmedFrom = u]
           IN  /\ IsStore(t) /\ Held(t) = Held(s) /\ t.browse = s.browse
               /\ t.base = s.base /\ t.height = s.height /\ t.solicited = s.solicited
               /\ t.pagingFloor = s.pagingFloor /\ t.unconfirmedFrom = u
<1> DEFINE t == [s EXCEPT !.unconfirmedFrom = u]
<1>1. t = [lines |-> s.lines, unconfirmedFrom |-> u,
           erasedThrough |-> s.erasedThrough, base |-> s.base, height |-> s.height,
           browse |-> s.browse, evictedThrough |-> s.evictedThrough,
           serverOldest |-> s.serverOldest, solicited |-> s.solicited,
           pagingFloor |-> s.pagingFloor]
  BY DEF IsStore
<1> HIDE DEF t
<1>2. IsStore(t) /\ Held(t) = Held(s)
  BY <1>1, Reworded DEF IsStore
<1> QED
  BY <1>1, <1>2 DEF t

\* The cap and the window of stores with the same rows.
LEMMA SameRows ==
    ASSUME NEW s, NEW t, Held(t) = Held(s), t.browse = s.browse, t.base = s.base,
           t.height = s.height
    PROVE  (Capped(s) <=> Capped(t)) /\ Window(t) = Window(s) /\ TailRows(t) = TailRows(s)
BY DEF Capped, TailRows, tailBound, Window

\* The lines of a scroll frame that answers nothing: they come as tail rows, and
\* raise the floor of the unconfirmed ones no higher than the screen.
LEMMA ScrollApplied ==
    ASSUME NEW s, IsStore(s), NEW m \in ScrollFrames
    PROVE  LET t == applyScroll(s, m)
               brought == m.firstIndex .. m.firstIndex + Len(m.lines) - 1
           IN  /\ IsStore(t) /\ t.base = s.base /\ t.height = s.height /\ t.browse = s.browse
               /\ t.solicited = s.solicited /\ t.pagingFloor = s.pagingFloor
               /\ Held(t) \subseteq Held(s) \cup brought
               /\ Held(s) \cap Window(s) \subseteq Held(t)
               /\ Capped(s) => Capped(t)
               /\ \A com \in Int :
                    /\ s.unconfirmedFrom <= com /\ m.firstIndex + Len(m.lines) <= com
                    /\ s.height > 0 /\ Window(s) \subseteq Held(s) /\ s.base <= com
                    => t.unconfirmedFrom <= com
<1> DEFINE first == m.firstIndex
           n == Len(m.lines)
           brought == first .. first + n - 1
           u == applyRows(s, first, m.lines, {})
           t == ConfirmRange(u, first, n)
<1>1. first \in Nat /\ n \in Nat
  BY DEF ScrollFrames
<1>2. /\ IsStore(u) /\ SameWindow(u, s) /\ u.browse = s.browse
      /\ Held(u) \subseteq Held(s) \cup brought
      /\ Held(s) \cap Window(s) \subseteq Held(u)
      /\ Capped(s) => Capped(u)
  BY <1>1, RowsApplied
<1> HIDE DEF u, first, n
<1>3. Oldest(u) \in Int /\ \A i \in Held(u) : Oldest(u) <= i
  BY <1>2, Extremes
<1>4. u.unconfirmedFrom \in Nat /\ u.unconfirmedFrom = s.unconfirmedFrom
  BY <1>2 DEF IsStore, SameWindow
<1>5. PICK w \in Nat : /\ t = u \/ t = [u EXCEPT !.unconfirmedFrom = w]
                       /\ t # u => w \in {u.unconfirmedFrom, first + n, Oldest(u)}
  <2>1. CASE n <= 0
    <3>1. t = u
      BY <1>1, <2>1 DEF ConfirmRange
    <3> QED
      BY <3>1
  <2>2. CASE n > 0 /\ first <= u.unconfirmedFrom
    <3> DEFINE w == HigherOf(u.unconfirmedFrom, first + n)
    <3>1. w \in Nat /\ w \in {u.unconfirmedFrom, first + n}
      BY <1>1, <1>4, LowerAndHigher
    <3>2. t = [u EXCEPT !.unconfirmedFrom = w]
      BY <1>1, <1>4, <2>2 DEF ConfirmRange
    <3> HIDE DEF w, t
    <3> QED
      BY <3>1, <3>2
  <2>3. CASE n > 0 /\ ~(first <= u.unconfirmedFrom)
    <3> DEFINE w == HigherOf(first + n, Oldest(u))
    <3>1. w \in Nat /\ w \in {first + n, Oldest(u)}
      BY <1>1, <1>3, LowerAndHigher
    <3>2. t = IF u.unconfirmedFrom < Oldest(u) THEN [u EXCEPT !.unconfirmedFrom = w] ELSE u
      BY <1>1, <1>4, <2>3 DEF ConfirmRange
    <3> HIDE DEF w, t
    <3> QED
      BY <3>1, <3>2
  <2> QED
    BY <1>1, <2>1, <2>2, <2>3
<1>6. /\ IsStore(t) /\ Held(t) = Held(u) /\ t.browse = u.browse
      /\ t.base = u.base /\ t.height = u.height /\ t.solicited = u.solicited
      /\ t.pagingFloor = u.pagingFloor
      /\ t.unconfirmedFrom \in {u.unconfirmedFrom, first + n, Oldest(u)}
  <2>1. CASE t = u
    <3> HIDE DEF t
    <3> QED
      BY <1>2, <2>1
  <2>2. CASE t # u
    <3> DEFINE x == [u EXCEPT !.unconfirmedFrom = w]
    <3>1. /\ IsStore(x) /\ Held(x) = Held(u) /\ x.browse = u.browse
          /\ x.base = u.base /\ x.height = u.height /\ x.solicited = u.solicited
          /\ x.pagingFloor = u.pagingFloor /\ x.unconfirmedFrom = w
      BY <1>2, UnconfirmedChanged
    <3> HIDE DEF t
    <3>2. t = x /\ w \in {u.unconfirmedFrom, first + n, Oldest(u)}
      BY <1>5, <2>2
    <3> HIDE DEF x
    <3> QED
      BY <3>1, <3>2
  <2> QED
    BY <2>1, <2>2
<1>7. applyScroll(s, m) = t
  BY DEF applyScroll, first, n, u
<1> HIDE DEF t
<1>8. ASSUME NEW com \in Int, s.unconfirmedFrom <= com, first + n <= com,
             s.height > 0, Window(s) \subseteq Held(s), s.base <= com
      PROVE  t.unconfirmedFrom <= com
  <2>1. s.base \in Window(s)
    BY <1>8, StoreSets
  <2>2. s.base \in Held(u)
    BY <1>2, <1>8, <2>1
  <2>3. Oldest(u) <= s.base /\ s.base \in Int
    BY <1>3, <2>2, StoreSets
  <2>4. Oldest(u) <= com
    BY <1>3, <1>8, <2>3
  <2> QED
    BY <1>4, <1>6, <1>8, <2>4
<1>9. Capped(s) => Capped(t)
  BY <1>2, <1>6, SameRows
<1> QED
  BY <1>2, <1>6, <1>7, <1>8, <1>9 DEF SameWindow, first, n

\* ED 3 in a frame: what is held below its window goes, the request under way is
\* retracted, and nothing below will be asked for.
LEMMA ClearApplied ==
    ASSUME NEW s, IsStore(s), NEW base \in Nat
    PROVE  LET t == applyScrollbackCleared(s, base)
           IN  /\ IsStore(t) /\ t.base = s.base /\ t.height = s.height
               /\ Held(t) = {i \in Held(s) : i >= base} /\ t.browse \subseteq s.browse
               /\ t.solicited = NoRequest /\ t.pagingFloor = Greater(s.pagingFloor, base)
<1> DEFINE dropped == {i \in Held(s) : i < base}
           gone == [i \in Held(s) \cap (Held(s) \ dropped) |-> s.lines[i]]
           kept == KeepOnly(s, Held(s) \ dropped)
           e == Max({s.erasedThrough} \cup dropped)
           u == HigherOf(s.unconfirmedFrom, base)
           a == ApplyScrollbackCleared(s, base)
           f == Forgotten(a)
           p == Greater(s.pagingFloor, base)
           t == applyScrollbackCleared(s, base)
<1>1. kept = [s EXCEPT !.lines = gone]
  BY DEF KeepOnly, Restrict
<1>2. kept = [lines |-> gone, unconfirmedFrom |-> s.unconfirmedFrom,
              erasedThrough |-> s.erasedThrough, base |-> s.base, height |-> s.height,
              browse |-> s.browse, evictedThrough |-> s.evictedThrough,
              serverOldest |-> s.serverOldest, solicited |-> s.solicited,
              pagingFloor |-> s.pagingFloor]
  <2> HIDE DEF gone, kept
  <2> QED
    BY <1>1 DEF IsStore
<1>3. a = [kept EXCEPT !.unconfirmedFrom = HigherOf(kept.unconfirmedFrom, base),
                       !.erasedThrough = Max({kept.erasedThrough} \cup dropped)]
  BY DEF ApplyScrollbackCleared
<1>4. kept.unconfirmedFrom = s.unconfirmedFrom /\ kept.erasedThrough = s.erasedThrough
  <2> HIDE DEF kept, gone
  <2> QED
    BY <1>2
<1>5. a = [lines |-> gone, unconfirmedFrom |-> u, erasedThrough |-> e, base |-> s.base,
           height |-> s.height, browse |-> s.browse, evictedThrough |-> s.evictedThrough,
           serverOldest |-> s.serverOldest, solicited |-> s.solicited,
           pagingFloor |-> s.pagingFloor]
  <2>1. a = [kept EXCEPT !.unconfirmedFrom = u, !.erasedThrough = e]
    <3> HIDE DEF kept, gone, a, dropped
    <3> QED
      BY <1>3, <1>4
  <2> HIDE DEF kept, gone, a, u, e
  <2> QED
    BY <1>2, <2>1
<1>6. u \in Nat
  <2>1. s.unconfirmedFrom \in Int /\ s.unconfirmedFrom \in Nat /\ base \in Int
    BY DEF IsStore
  <2> QED
    BY <2>1, LowerAndHigher
<1>7. e \in Int
  <2> DEFINE M == {s.erasedThrough} \cup dropped
  <2>1. PICK n \in Nat : Held(s) \subseteq 0..n
    BY DEF IsStore
  <2> DEFINE top == IF s.erasedThrough >= n THEN s.erasedThrough ELSE n
  <2>2. s.erasedThrough \in Int
    BY DEF IsStore
  <2>3. top \in Int /\ M \in SUBSET Int /\ M # {} /\ \A i \in M : i <= top
    BY <2>1, <2>2
  <2> HIDE DEF M, top
  <2>4. Max(M) \in M
    BY <2>3, MaxIsGreatest
  <2> QED
    BY <2>3, <2>4 DEF M
<1>8. p \in Nat
  BY DEF Greater, IsStore
<1>9. Held(a) = {i \in Held(s) : i >= base}
  <2>1. a.lines = gone
    <3> HIDE DEF a, gone
    <3> QED
      BY <1>5
  <2>2. Held(a) = DOMAIN gone
    <3> HIDE DEF a, gone
    <3> QED
      BY <2>1 DEF Held
  <2>3. \A i \in Held(s) : i \in Int
    BY DEF IsStore
  <2>4. DOMAIN gone = {i \in Held(s) : i >= base}
    BY <2>3
  <2> QED
    BY <2>2, <2>4
<1> DEFINE b == s.browse \cap Held(a)
<1>10. f = [a EXCEPT !.browse = a.browse \cap Held(a)]
  BY DEF Forgotten
<1>11. f = [lines |-> gone, unconfirmedFrom |-> u, erasedThrough |-> e, base |-> s.base,
            height |-> s.height, browse |-> b, evictedThrough |-> s.evictedThrough,
            serverOldest |-> s.serverOldest, solicited |-> s.solicited,
            pagingFloor |-> s.pagingFloor]
  <2> HIDE DEF f, a, gone, u, e
  <2> QED
    BY <1>5, <1>10
<1>12. t = [f EXCEPT !.solicited = NoRequest, !.pagingFloor = Greater(f.pagingFloor, base)]
  BY DEF applyScrollbackCleared
<1>13. t = [lines |-> gone, unconfirmedFrom |-> u, erasedThrough |-> e, base |-> s.base,
            height |-> s.height, browse |-> b, evictedThrough |-> s.evictedThrough,
            serverOldest |-> s.serverOldest, solicited |-> NoRequest, pagingFloor |-> p]
  <2>1. f.pagingFloor = s.pagingFloor
    <3> HIDE DEF f, a, gone, u, e
    <3> QED
      BY <1>11
  <2> HIDE DEF f, a, gone, u, e, t
  <2> QED
    BY <1>11, <1>12, <2>1
<1>14. Held(t) = Held(a)
  <2>1. t.lines = a.lines
    <3> HIDE DEF t, a, gone, u, e
    <3> QED
      BY <1>5, <1>13
  <2> HIDE DEF t, a
  <2> QED
    BY <2>1 DEF Held
<1> HIDE DEF t, a, gone, u, e, f, kept, p
<1>15. IsStore(t)
  <2>1. \E n \in Nat : Held(t) \subseteq 0..n
    BY <1>9, <1>14 DEF IsStore
  <2>2. t.browse \subseteq Held(t)
    BY <1>13, <1>14
  <2>3. NoRequest \in Requests
    BY DEF NoRequest, Requests
  <2> QED
    BY <1>6, <1>7, <1>8, <1>13, <2>1, <2>2, <2>3 DEF IsStore
<1>16. t.browse \subseteq s.browse
  BY <1>13
<1> QED
  BY <1>9, <1>13, <1>14, <1>15, <1>16 DEF t, p

\* A screen: its window is held whole, nothing is held past it, and what an
\* erasure condemned is gone.
LEMMA ScreenApplied ==
    ASSUME NEW s, IsStore(s), NEW m \in ScreenFrames
    PROVE  LET t == applyScreen(s, m)
           IN  /\ IsStore(t) /\ Capped(t) /\ t.base = m.base /\ t.height = Height
               /\ Window(t) \subseteq Held(t) /\ t.browse \subseteq s.browse
               /\ \A i \in Held(t) : /\ i < m.base + Height
                                     /\ i \in Held(s) \/ i >= m.base
                                     /\ m.scrollbackCleared => i >= m.base
               /\ t.unconfirmedFrom <= m.base
               /\ t.solicited = IF m.scrollbackCleared THEN NoRequest ELSE s.solicited
               /\ t.pagingFloor = IF m.scrollbackCleared THEN Greater(s.pagingFloor, m.base)
                                  ELSE s.pagingFloor
<1> DEFINE base == m.base
           cleared == IF m.scrollbackCleared THEN applyScrollbackCleared(s, base) ELSE s
           placed == [cleared EXCEPT !.base = base, !.height = Len(m.rows)]
           moved == MarkUnconfirmedFrom(placed, base)
           drawn == applyRows(moved, base, m.rows, {})
           cut == Forgotten(TruncateBelowWindow(drawn))
           t == enforceCap(cut)
<1>1. applyScreen(s, m) = t
  BY DEF applyScreen
<1>2. base \in Nat /\ Len(m.rows) = Height /\ Height \in Nat /\ Height > 0
      /\ m.scrollbackCleared \in BOOLEAN
  BY Constants DEF ScreenFrames
<1>3. /\ IsStore(cleared) /\ cleared.browse \subseteq s.browse
      /\ \A i \in Held(cleared) : i \in Held(s) /\ (m.scrollbackCleared => i >= base)
      /\ cleared.solicited = IF m.scrollbackCleared THEN NoRequest ELSE s.solicited
      /\ cleared.pagingFloor = IF m.scrollbackCleared THEN Greater(s.pagingFloor, base)
                               ELSE s.pagingFloor
  <2>1. CASE m.scrollbackCleared
    <3> DEFINE c == applyScrollbackCleared(s, base)
    <3>1. /\ IsStore(c) /\ Held(c) = {i \in Held(s) : i >= base}
          /\ c.browse \subseteq s.browse /\ c.solicited = NoRequest
          /\ c.pagingFloor = Greater(s.pagingFloor, base)
      BY <1>2, ClearApplied
    <3>2. cleared = c
      BY <2>1
    <3> HIDE DEF c, cleared
    <3> QED
      BY <2>1, <3>1, <3>2
  <2>2. CASE ~m.scrollbackCleared
    <3>1. cleared = s
      BY <2>2
    <3> HIDE DEF cleared
    <3> QED
      BY <2>2, <3>1
  <2> QED
    BY <2>1, <2>2
<1> HIDE DEF cleared
<1> DEFINE u == LowerOf(cleared.unconfirmedFrom, base)
<1>4. u \in Nat /\ u <= base
  <2>1. cleared.unconfirmedFrom \in Nat /\ cleared.unconfirmedFrom \in Int /\ base \in Int
    BY <1>2, <1>3 DEF IsStore
  <2> QED
    BY <1>2, <2>1, LowerAndHigher
<1>5. moved = [lines |-> cleared.lines, unconfirmedFrom |-> u,
               erasedThrough |-> cleared.erasedThrough, base |-> base, height |-> Height,
               browse |-> cleared.browse, evictedThrough |-> cleared.evictedThrough,
               serverOldest |-> cleared.serverOldest, solicited |-> cleared.solicited,
               pagingFloor |-> cleared.pagingFloor]
  <2> HIDE DEF base
  <2>1. placed = [cleared EXCEPT !.base = base, !.height = Height]
    BY <1>2
  <2>2. placed = [lines |-> cleared.lines, unconfirmedFrom |-> cleared.unconfirmedFrom,
                  erasedThrough |-> cleared.erasedThrough, base |-> base, height |-> Height,
                  browse |-> cleared.browse, evictedThrough |-> cleared.evictedThrough,
                  serverOldest |-> cleared.serverOldest, solicited |-> cleared.solicited,
                  pagingFloor |-> cleared.pagingFloor]
    <3> HIDE DEF placed
    <3> QED
      BY <1>3, <2>1 DEF IsStore
  <2>3. moved = [placed EXCEPT !.unconfirmedFrom = LowerOf(placed.unconfirmedFrom, base)]
    BY DEF MarkUnconfirmedFrom
  <2> HIDE DEF placed
  <2>4. placed.unconfirmedFrom = cleared.unconfirmedFrom
    BY <2>2
  <2>5. moved = [placed EXCEPT !.unconfirmedFrom = u]
    BY <2>3, <2>4
  <2> HIDE DEF moved, u
  <2> QED
    BY <2>2, <2>5
<1> HIDE DEF u, moved, placed
<1>6. IsStore(moved) /\ Held(moved) = Held(cleared)
  <2>1. cleared.browse \subseteq Held(cleared) /\ cleared.serverOldest \in Int
        /\ cleared.solicited \in Requests /\ cleared.pagingFloor \in Nat
    BY <1>3 DEF IsStore
  <2>2. moved.unconfirmedFrom \in Nat /\ moved.base \in Nat /\ moved.height \in {0, Height}
        /\ moved.browse \subseteq Held(cleared) /\ moved.serverOldest \in Int
        /\ moved.solicited \in Requests /\ moved.pagingFloor \in Nat
    BY <1>2, <1>4, <1>5, <2>1
  <2>3. moved = [lines |-> cleared.lines, unconfirmedFrom |-> moved.unconfirmedFrom,
                 erasedThrough |-> cleared.erasedThrough, base |-> moved.base,
                 height |-> moved.height, browse |-> moved.browse,
                 evictedThrough |-> cleared.evictedThrough,
                 serverOldest |-> moved.serverOldest, solicited |-> moved.solicited,
                 pagingFloor |-> moved.pagingFloor]
    BY <1>5
  <2> QED
    BY <1>3, <2>2, <2>3, Reworded
<1>7. /\ IsStore(drawn) /\ SameWindow(drawn, moved) /\ drawn.browse = moved.browse
      /\ Held(drawn) \subseteq Held(moved) \cup (base .. base + Height - 1)
      /\ (base .. base + Height - 1) \cap Window(moved) \subseteq Held(drawn)
  BY <1>2, <1>6, RowsApplied
<1> HIDE DEF drawn
<1>8. drawn.base = base /\ drawn.height = Height /\ moved.base = base /\ moved.height = Height
  BY <1>5, <1>7 DEF SameWindow
<1> DEFINE late == {i \in Held(drawn) : ~(i < base + Height)}
<1>9. cut = Forget(drawn, late)
  <2>1. TruncateBelowWindow(drawn) =
            KeepOnly(drawn, {i \in Held(drawn) : i < base + Height})
    BY <1>2, <1>8 DEF TruncateBelowWindow
  <2>2. {i \in Held(drawn) : i < base + Height} = Held(drawn) \ late
    OBVIOUS
  <2> QED
    BY <2>1, <2>2 DEF Forget
<1> HIDE DEF late, cut
<1>10. /\ IsStore(cut) /\ SameWindow(cut, drawn)
       /\ Held(cut) = Held(drawn) \ late /\ cut.browse = drawn.browse \ late
  BY <1>7, <1>9, ForgetThins
<1>11. /\ IsStore(t) /\ SameWindow(t, cut) /\ Capped(t)
       /\ Held(t) \subseteq Held(cut) /\ t.browse = cut.browse
       /\ Held(cut) \cap Window(cut) \subseteq Held(t)
  BY <1>10, CapHolds
<1> HIDE DEF t
<1>12. t.base = base /\ t.height = Height /\ cut.base = base /\ cut.height = Height
  BY <1>8, <1>10, <1>11 DEF SameWindow
<1>13. /\ Window(t) = base .. base + Height - 1 /\ Window(cut) = base .. base + Height - 1
       /\ Window(moved) = base .. base + Height - 1
  BY <1>2, <1>8, <1>12 DEF Window
<1>14. Window(t) \subseteq Held(t)
  <2> SUFFICES ASSUME NEW i \in base .. base + Height - 1 PROVE i \in Held(t)
    BY <1>13
  <2>1. i \in Held(drawn)
    BY <1>7, <1>13
  <2>2. i \notin late
    BY <1>2 DEF late
  <2> QED
    BY <1>10, <1>11, <1>13, <2>1, <2>2
<1>15. ASSUME NEW i \in Held(t)
       PROVE  /\ i < base + Height
              /\ i \in Held(s) \/ i >= base
              /\ m.scrollbackCleared => i >= base
  <2>1. i \in Held(drawn) /\ i \notin late
    BY <1>10, <1>11
  <2>2. i < base + Height
    BY <2>1 DEF late
  <2>3. i \in Held(cleared) \/ i \in base .. base + Height - 1
    BY <1>6, <1>7, <2>1
  <2> QED
    BY <1>2, <1>3, <2>2, <2>3
<1>16. /\ t.unconfirmedFrom <= base /\ t.solicited = cleared.solicited
       /\ t.pagingFloor = cleared.pagingFloor /\ t.browse \subseteq s.browse
  <2>1. moved.unconfirmedFrom <= base
    BY <1>4, <1>5
  <2>2. /\ moved.solicited = cleared.solicited /\ moved.pagingFloor = cleared.pagingFloor
        /\ moved.browse = cleared.browse
    BY <1>5
  <2> QED
    BY <1>3, <1>7, <1>10, <1>11, <2>1, <2>2 DEF SameWindow
<1> QED
  BY <1>1, <1>3, <1>11, <1>12, <1>14, <1>15, <1>16

\* The cache's bound is not below what a budget pass leaves.
LEMMA CacheBoundIs ==
    /\ CacheBound = BrowseCacheCap /\ CacheBound \in Nat
    /\ PrefetchThreshold <= CacheBound /\ 2 * PrefetchThreshold + 1 <= CacheBound
BY Constants DEF CacheBound, Greater

\* More cache rows, which are held.
LEMMA BrowseChanged ==
    ASSUME NEW s, IsStore(s), NEW B, B \subseteq Held(s)
    PROVE  LET t == [s EXCEPT !.browse = B]
           IN  /\ IsStore(t) /\ Held(t) = Held(s) /\ t.browse = B
               /\ t.base = s.base /\ t.height = s.height /\ t.solicited = s.solicited
               /\ t.pagingFloor = s.pagingFloor /\ t.unconfirmedFrom = s.unconfirmedFrom
<1> DEFINE t == [s EXCEPT !.browse = B]
<1>1. t = [lines |-> s.lines, unconfirmedFrom |-> s.unconfirmedFrom,
           erasedThrough |-> s.erasedThrough, base |-> s.base, height |-> s.height,
           browse |-> B, evictedThrough |-> s.evictedThrough,
           serverOldest |-> s.serverOldest, solicited |-> s.solicited,
           pagingFloor |-> s.pagingFloor]
  BY DEF IsStore
<1> HIDE DEF t
<1>2. IsStore(t) /\ Held(t) = Held(s)
  BY <1>1, Reworded DEF IsStore
<1> QED
  BY <1>1, <1>2 DEF t

\* A page of history, for a request or after it was retracted.
LEMMA HistoryApplied ==
    ASSUME NEW s, IsStore(s), NEW m \in ScrollFrames, NEW at \in Int,
           Capped(s), Cardinality(s.browse) <= CacheBound,
           s.browse \cap Window(s) = {}, Span(s.solicited) \cap Window(s) = {}
    PROVE  LET t == applyHistoryScroll(s, m, at)
               brought == m.firstIndex .. m.firstIndex + Len(m.lines) - 1
           IN  /\ IsStore(t) /\ SameWindow(t, s) /\ Capped(t)
               /\ Cardinality(t.browse) <= CacheBound
               /\ Held(t) \subseteq Held(s) \cup brought
               /\ s.solicited = NoRequest => Held(t) = Held(s)
               /\ Held(s) \cap Window(s) \subseteq Held(t)
               /\ \A i \in t.browse : i \in s.browse \/ i \in Span(s.solicited)
<1> DEFINE first == m.firstIndex
           n == Len(m.lines)
           brought == first .. first + n - 1
           asked == Span(s.solicited)
           put == applyRows(s, first, m.lines, asked)
           applied == {first + k - 1 : k \in DOMAIN m.lines} \cap asked \cap Held(put)
           more == [put EXCEPT !.browse = put.browse \cup applied]
           thin == enforceBrowseBudget(more, BrowseCacheCap, at)
           t == applyHistoryScroll(s, m, at)
<1>1. t = IF s.solicited = NoRequest THEN s
          ELSE IF applied = {} THEN enforceCap(put) ELSE enforceCap(thin)
  BY DEF applyHistoryScroll
<1>2. first \in Nat /\ n \in Nat
  BY DEF ScrollFrames
<1>3. /\ IsStore(put) /\ SameWindow(put, s) /\ put.browse = s.browse
      /\ Held(put) \subseteq Held(s) \cup brought
      /\ Held(s) \cap Window(s) \subseteq Held(put)
  BY <1>2, RowsApplied
<1>4. applied \subseteq Held(put) /\ applied \subseteq asked
  OBVIOUS
<1> HIDE DEF first, n, put, applied, asked, t
<1>5. Window(put) = Window(s)
  BY <1>3 DEF SameWindow, Window
<1>6. CASE s.solicited = NoRequest
  <2>1. t = s
    BY <1>1, <1>6
  <2> QED
    BY <2>1 DEF SameWindow, t, first, n
<1>7. CASE s.solicited # NoRequest /\ applied = {}
  <2>1. t = enforceCap(put)
    BY <1>1, <1>7
  <2>2. /\ IsStore(t) /\ SameWindow(t, put) /\ Capped(t)
        /\ Held(t) \subseteq Held(put) /\ t.browse = put.browse
        /\ Held(put) \cap Window(put) \subseteq Held(t)
    BY <1>3, <2>1, CapHolds
  <2>3. SameWindow(t, s)
    BY <1>3, <2>2 DEF SameWindow
  <2> QED
    BY <1>3, <1>5, <1>7, <2>2, <2>3 DEF t, first, n
<1>8. CASE s.solicited # NoRequest /\ applied # {}
  <2>1. t = enforceCap(thin)
    BY <1>1, <1>8
  <2> DEFINE B == put.browse \cup applied
  <2>2. B \subseteq Held(put)
    BY <1>3, <1>4 DEF IsStore
  <2>3. /\ IsStore(more) /\ Held(more) = Held(put) /\ more.browse = B
        /\ more.base = put.base /\ more.height = put.height /\ more.solicited = put.solicited
        /\ more.pagingFloor = put.pagingFloor /\ more.unconfirmedFrom = put.unconfirmedFrom
    <3> HIDE DEF B
    <3>1. LET x == [put EXCEPT !.browse = B]
          IN  /\ IsStore(x) /\ Held(x) = Held(put) /\ x.browse = B
              /\ x.base = put.base /\ x.height = put.height /\ x.solicited = put.solicited
              /\ x.pagingFloor = put.pagingFloor /\ x.unconfirmedFrom = put.unconfirmedFrom
      BY <1>3, <2>2, BrowseChanged
    <3> QED
      BY <3>1 DEF B
  <2> HIDE DEF more
  <2>4. BrowseCacheCap \in Nat
    BY Constants
  <2>5. /\ IsStore(thin) /\ SameWindow(thin, more)
        /\ Held(thin) \subseteq Held(more) /\ thin.browse \subseteq more.browse
        /\ Held(more) \ more.browse \subseteq Held(thin)
        /\ \/ Cardinality(thin.browse) <= BrowseCacheCap
           \/ Cardinality(thin.browse) <= 2 * PrefetchThreshold + 1
    BY <2>3, <2>4, BudgetHolds
  <2> HIDE DEF thin
  <2>6. /\ IsStore(t) /\ SameWindow(t, thin) /\ Capped(t)
        /\ Held(t) \subseteq Held(thin) /\ t.browse = thin.browse
        /\ Held(thin) \cap Window(thin) \subseteq Held(t)
    BY <2>1, <2>5, CapHolds
  <2>7. SameWindow(t, s) /\ Window(thin) = Window(s)
    BY <1>3, <2>3, <2>5, <2>6 DEF SameWindow, Window
  <2>8. Cardinality(t.browse) <= CacheBound
    <3>1. Cardinality(t.browse) \in Nat
      BY <2>6, StoreSets
    <3> QED
      BY <2>4, <2>5, <2>6, <3>1, CacheBoundIs, Constants
  <2>9. B \cap Window(s) = {}
    BY <1>3, <1>4 DEF asked
  <2>10. Held(s) \cap Window(s) \subseteq Held(t)
    BY <1>3, <2>3, <2>5, <2>6, <2>7, <2>9
  <2>11. \A i \in t.browse : i \in s.browse \/ i \in asked
    BY <1>3, <1>4, <2>3, <2>5, <2>6
  <2>12. Held(t) \subseteq Held(s) \cup brought
    BY <1>3, <2>3, <2>5, <2>6
  <2> QED
    BY <1>8, <2>6, <2>7, <2>8, <2>10, <2>11, <2>12 DEF t, first, n, asked
<1> QED
  BY <1>6, <1>7, <1>8

\* What a resumeAck leaves of the page's window, and what becomes cache.
LEMMA ResumeApplied ==
    ASSUME NEW s, IsStore(s), NEW m \in Acks, NEW f \in Fetches, NEW at \in Int,
           NEW following \in BOOLEAN,
           Capped(s), Cardinality(s.browse) <= CacheBound
    PROVE  LET t == applyResumeAck(s, m, f, at, following)
           IN  /\ IsStore(t) /\ Capped(t) /\ Cardinality(t.browse) <= CacheBound
               /\ t.solicited = s.solicited /\ t.unconfirmedFrom = s.unconfirmedFrom
               /\ t.pagingFloor = Lesser(s.pagingFloor, m.oldest)
               /\ Held(t) \subseteq Held(s)
               /\ \/ /\ t.base = s.base /\ t.height = s.height
                     /\ Held(t) = Held(s) /\ t.browse = s.browse
                  \/ /\ t.base = 0 /\ t.height = 0
                     /\ \A i \in t.browse : i \in s.browse \/ i <= f.haveThrough
<1> DEFINE p == Lesser(s.pagingFloor, m.oldest)
           noted == [s EXCEPT !.serverOldest = m.oldest, !.pagingFloor = p]
           stranded == {i \in Held(s) : i <= f.haveThrough}
           predicted == Greater(m.oldest, m.committed - f.replayMax)
           B == s.browse \cup stranded
           jumped == [noted EXCEPT !.browse = noted.browse \cup stranded, !.base = 0, !.height = 0]
           target == IF following THEN PrefetchThreshold ELSE BrowseCacheCap
           thin == enforceBrowseBudget(jumped, target, at)
           t == applyResumeAck(s, m, f, at, following)
<1>1. t = IF ~m.paging \/ predicted <= f.haveThrough + 1 \/ stranded = {} THEN noted
          ELSE enforceCap(thin)
  BY DEF applyResumeAck
<1>2. p \in Nat /\ m.oldest \in Int
  BY DEF Lesser, Acks, IsStore
<1> HIDE DEF p, predicted
<1>3. noted = [lines |-> s.lines, unconfirmedFrom |-> s.unconfirmedFrom,
               erasedThrough |-> s.erasedThrough, base |-> s.base, height |-> s.height,
               browse |-> s.browse, evictedThrough |-> s.evictedThrough,
               serverOldest |-> m.oldest, solicited |-> s.solicited, pagingFloor |-> p]
  <2> DEFINE x == [s EXCEPT !.serverOldest = m.oldest]
  <2>1. x = [lines |-> s.lines, unconfirmedFrom |-> s.unconfirmedFrom,
             erasedThrough |-> s.erasedThrough, base |-> s.base, height |-> s.height,
             browse |-> s.browse, evictedThrough |-> s.evictedThrough,
             serverOldest |-> m.oldest, solicited |-> s.solicited,
             pagingFloor |-> s.pagingFloor]
    BY DEF IsStore
  <2>2. noted = [x EXCEPT !.pagingFloor = p]
    OBVIOUS
  <2> HIDE DEF x, noted
  <2> QED
    BY <2>1, <2>2
<1> HIDE DEF noted
<1>4. IsStore(noted) /\ Held(noted) = Held(s)
  BY <1>2, <1>3, Reworded DEF IsStore
<1>5. CASE ~m.paging \/ predicted <= f.haveThrough + 1 \/ stranded = {}
  <2>1. t = noted
    BY <1>1, <1>5
  <2>2. Capped(noted)
    BY <1>3, <1>4, SameRows
  <2> HIDE DEF t, stranded
  <2> QED
    BY <1>3, <1>4, <2>1, <2>2 DEF t, p
<1>6. CASE ~(~m.paging \/ predicted <= f.haveThrough + 1 \/ stranded = {})
  <2>1. t = enforceCap(thin)
    BY <1>1, <1>6
  <2>2. B \subseteq Held(s)
    BY DEF IsStore
  <2>3. noted.browse \cup stranded = B
    BY <1>3
  <2> HIDE DEF B
  <2>4. jumped = [lines |-> s.lines, unconfirmedFrom |-> s.unconfirmedFrom,
                  erasedThrough |-> s.erasedThrough, base |-> 0, height |-> 0,
                  browse |-> B, evictedThrough |-> s.evictedThrough,
                  serverOldest |-> m.oldest, solicited |-> s.solicited, pagingFloor |-> p]
    <3>1. jumped = [noted EXCEPT !.browse = B, !.base = 0, !.height = 0]
      BY <2>3
    <3> HIDE DEF jumped
    <3> QED
      BY <1>3, <3>1
  <2> HIDE DEF jumped
  <2>5. IsStore(jumped) /\ Held(jumped) = Held(s)
    <3>1. jumped.unconfirmedFrom \in Nat /\ jumped.base \in Nat /\ jumped.height \in {0, Height}
          /\ jumped.browse \subseteq Held(s) /\ jumped.serverOldest \in Int
          /\ jumped.solicited \in Requests /\ jumped.pagingFloor \in Nat
      BY <1>2, <2>2, <2>4 DEF IsStore
    <3>2. jumped = [lines |-> s.lines, unconfirmedFrom |-> jumped.unconfirmedFrom,
                    erasedThrough |-> s.erasedThrough, base |-> jumped.base,
                    height |-> jumped.height, browse |-> jumped.browse,
                    evictedThrough |-> s.evictedThrough,
                    serverOldest |-> jumped.serverOldest,
                    solicited |-> jumped.solicited, pagingFloor |-> jumped.pagingFloor]
      BY <2>4
    <3> QED
      BY <3>1, <3>2, Reworded
  <2>6. target \in Nat /\ target <= CacheBound
    BY Constants, CacheBoundIs
  <2> HIDE DEF target
  <2>7. /\ IsStore(thin) /\ SameWindow(thin, jumped)
        /\ Held(thin) \subseteq Held(jumped) /\ thin.browse \subseteq jumped.browse
        /\ \/ Cardinality(thin.browse) <= target
           \/ Cardinality(thin.browse) <= 2 * PrefetchThreshold + 1
    BY <2>5, <2>6, BudgetHolds
  <2> HIDE DEF thin, t
  <2>8. /\ IsStore(t) /\ SameWindow(t, thin) /\ Capped(t)
        /\ Held(t) \subseteq Held(thin) /\ t.browse = thin.browse
    BY <2>1, <2>7, CapHolds
  <2>9. Cardinality(t.browse) <= CacheBound
    <3>1. Cardinality(t.browse) \in Nat
      BY <2>8, StoreSets
    <3> QED
      BY <2>6, <2>7, <2>8, <3>1, CacheBoundIs, Constants
  <2>10. /\ t.base = 0 /\ t.height = 0 /\ t.solicited = s.solicited
         /\ t.unconfirmedFrom = s.unconfirmedFrom /\ t.pagingFloor = p
    BY <2>4, <2>7, <2>8 DEF SameWindow
  <2>11. \A i \in t.browse : i \in s.browse \/ i <= f.haveThrough
    BY <2>4, <2>7, <2>8 DEF B
  <2>12. Held(t) \subseteq Held(s)
    BY <2>5, <2>7, <2>8
  <2> QED
    BY <2>8, <2>9, <2>10, <2>11, <2>12 DEF t, p
<1> QED
  BY <1>5, <1>6

-----------------------------------------------------------------------------
(* What the ring gives a page.                                               *)

\* The oldest index and the committed total only grow, whatever the ring does.
LEMMA RingGrows ==
    RingInv /\ [Next]_vars =>
        /\ RingInv' /\ committed \in Nat /\ committed' \in Nat /\ committed <= committed'
        /\ OldestIndex \in Nat /\ OldestIndex' \in Nat /\ OldestIndex <= OldestIndex'
        /\ OldestIndex <= committed /\ OldestIndex' <= committed'
<1> DEFINE Moved(c, n, d, k) ==
               (k = 0 /\ d = c) \/ (d = c + 1 /\ k \in {n, n + 1}) \/ (d = c /\ k = n)
           Typed(c, n) == c \in Nat /\ n \in Nat /\ n <= c
<1>1. RingInv /\ [Next]_vars => RingInv'
  BY RingInvStep
<1>2. RingInv => Typed(committed, count)
  BY Bounds
<1>3. RingInv' => Typed(committed', count')
  <2>1. RingInv' => (committed \in Nat /\ count \in Nat /\ count <= committed)'
    BY Bounds, PTL
  <2> QED
    BY <2>1
<1>4. [Next]_vars => Moved(committed, count, committed', count')
  BY DEF Next, vars, Clear, AppendDisabled, AppendGrowing, AppendEvicting, Commit
<1>5. \A c, n, d, k : Typed(c, n) /\ Typed(d, k) /\ Moved(c, n, d, k) =>
            /\ c <= d /\ c - n <= d - k /\ c - n <= c /\ d - k <= d
            /\ c \in Nat /\ d \in Nat /\ c - n \in Nat /\ d - k \in Nat
  OBVIOUS
<1>6. OldestIndex = committed - count /\ OldestIndex' = committed' - count'
  BY DEF OldestIndex
<1> HIDE DEF Moved, Typed
<1> QED
  BY <1>1, <1>2, <1>3, <1>4, <1>5, <1>6

\* A ring with slots has a line to put in them.
LEMMA RowIsALine ==
    ASSUME RingInv, capacity > 0
    PROVE  Row \in Lines
<1>1. capacity \in Nat /\ buf \in [0..(capacity - 1) -> Lines]
  BY Constants DEF RingInv, TypeOK, Slots
<1>2. 0 \in 0..(capacity - 1)
  BY <1>1
<1>3. buf[0] \in Lines
  BY <1>1, <1>2
<1> QED
  BY <1>3 DEF Row

\* How many lines a request asks for.
LEMMA SpanLength ==
    ASSUME NEW r \in Requests
    PROVE  /\ r.from \in Nat /\ r.end \in Nat
           /\ Cardinality(Span(r)) = IF r.from < r.end THEN r.end - r.from ELSE 0
           /\ \A i : i \in Span(r) <=> i \in Int /\ r.from <= i /\ i < r.end
<1> DEFINE a == r.from
           z == r.end - 1
<1>1. a \in Int /\ z \in Int /\ r.from \in Nat /\ r.end \in Nat
  BY DEF Requests
<1>2. Span(r) = a..z
  BY DEF Span
<1> HIDE DEF a, z
<1>3. Cardinality(a..z) = IF a > z THEN 0 ELSE z - a + 1
  BY <1>1, FS_Interval
<1> QED
  BY <1>1, <1>2, <1>3 DEF a, z

\* What is read of the history is made of lines.
LEMMA PartsOfHistory ==
    ASSUME RingInv, NEW a \in Nat, NEW z \in Nat, a <= z, z <= committed
    PROVE  LET part == SubSeq(history, a + 1, z)
           IN  part \in Seq(Lines) /\ Len(part) = z - a
<1>1. /\ committed \in Nat /\ history \in Seq(Lines) /\ Len(history) = committed
  BY Bounds
<1>2. SubSeq(history, a + 1, z) = [i \in 1..(z - a) |-> history[a + i]]
  BY <1>1
<1>3. \A i \in 1..(z - a) : history[a + i] \in Lines
  BY <1>1
<1> DEFINE part == SubSeq(history, a + 1, z)
<1>4. part \in [1..(z - a) -> Lines]
  BY <1>2, <1>3, Zenon
<1>5. z - a \in Nat
  OBVIOUS
<1> HIDE DEF part
<1>6. part \in Seq(Lines) /\ Len(part) = z - a
  BY <1>4, <1>5
<1> QED
  BY <1>6 DEF part

\* A reply to a request below the screen lies in it; what it leaves out at its
\* start, or altogether, is evicted.
LEMMA HistoryServed ==
    ASSUME RingInv, NEW r \in Requests, r.from < r.end, r.end <= committed,
           NEW reply \in HistoryReplies(r.from, Cardinality(Span(r)))
    PROVE  /\ reply.first \in Nat /\ reply.lines \in Seq(Lines)
           /\ r.from <= reply.first /\ reply.first + Len(reply.lines) <= r.end
           /\ reply.lines = <<>> => reply.first = r.from /\ r.end <= OldestIndex
           /\ reply.first > r.from => reply.first <= OldestIndex
<1> DEFINE fromAbs == r.from
           maxLines == Cardinality(Span(r))
           from == Greater(fromAbs, OldestIndex)
           lim == Lesser(fromAbs + maxLines, committed)
           page == IF from < lim THEN LinesRange(from, lim - from).lines ELSE <<>>
<1>1. /\ committed \in Nat /\ OldestIndex \in 0..committed
      /\ fromAbs \in Nat /\ r.end \in Nat /\ maxLines = r.end - fromAbs
  BY Bounds, SpanLength
<1>2. /\ from \in Nat /\ fromAbs <= from /\ from >= OldestIndex
      /\ from > fromAbs => from = OldestIndex
  BY <1>1 DEF Greater
<1>3. lim = r.end
  BY <1>1 DEF Lesser
<1>4. HistoryReplies(fromAbs, maxLines) =
        IF page = <<>> THEN {[first |-> fromAbs, lines |-> <<>>]}
        ELSE {[first |-> from, lines |-> lines] : lines \in Prefixes(page)}
  BY DEF HistoryReplies
<1> HIDE DEF from, lim, maxLines, fromAbs
<1>5. reply \in HistoryReplies(fromAbs, maxLines)
  BY DEF fromAbs, maxLines
<1>6. CASE from < lim
  <2>1. from \in OldestIndex..(committed - 1) /\ lim \in (from + 1)..committed
    BY <1>1, <1>2, <1>3, <1>6
  <2>2. page = SubSeq(history, from + 1, lim)
    BY <1>6, <2>1, PageIsHistory
  <2> HIDE DEF page
  <2>3. page \in Seq(Lines) /\ Len(page) = lim - from
    <3>1. from \in Nat /\ lim \in Nat /\ from <= lim /\ lim <= committed
      BY <1>1, <1>2, <1>3, <1>6
    <3>2. SubSeq(history, from + 1, lim) \in Seq(Lines)
          /\ Len(SubSeq(history, from + 1, lim)) = lim - from
      BY <3>1, PartsOfHistory
    <3> QED
      BY <2>2, <3>2
  <2>4. page # <<>>
    BY <1>1, <1>2, <1>3, <1>6, <2>3
  <2>5. PICK k \in 1..Len(page) : reply = [first |-> from, lines |-> SubSeq(page, 1, k)]
    BY <1>4, <1>5, <2>4 DEF Prefixes
  <2>6. SubSeq(page, 1, k) \in Seq(Lines) /\ Len(SubSeq(page, 1, k)) = k
    <3>1. k \in Nat /\ 1 <= k /\ k <= Len(page)
      BY <1>1, <1>2, <1>3, <1>6, <2>3
    <3>2. SubSeq(page, 1, k) = [i \in 1..k |-> page[i]]
      BY <2>3, <3>1
    <3>3. \A i \in 1..k : page[i] \in Lines
      BY <2>3, <3>1
    <3> DEFINE part == SubSeq(page, 1, k)
    <3>4. part \in [1..k -> Lines]
      BY <3>2, <3>3, Zenon
    <3> HIDE DEF part
    <3>5. part \in Seq(Lines) /\ Len(part) = k
      BY <3>1, <3>4
    <3> QED
      BY <3>5 DEF part
  <2>7. reply.first = from /\ reply.lines = SubSeq(page, 1, k)
    BY <2>5
  <2>8. from + k <= r.end /\ k # 0 /\ k \in Nat
    BY <1>1, <1>2, <1>3, <1>6, <2>3
  <2>9. reply.lines # <<>>
    BY <2>6, <2>7, <2>8
  <2>10. /\ r.from <= from /\ from \in Nat
         /\ from > r.from => from <= OldestIndex
    BY <1>1, <1>2 DEF fromAbs
  <2> QED
    BY <2>6, <2>7, <2>8, <2>9, <2>10
<1>7. CASE ~(from < lim)
  <2>1. reply = [first |-> fromAbs, lines |-> <<>>]
    BY <1>4, <1>5, <1>7
  <2>2. reply.first = fromAbs /\ reply.lines = <<>>
    BY <2>1
  <2>3. from = OldestIndex /\ r.end <= OldestIndex
    BY <1>1, <1>2, <1>3, <1>7 DEF fromAbs
  <2>4. Len(<<>>) = 0 /\ <<>> \in Seq(Lines)
    OBVIOUS
  <2> QED
    BY <1>1, <2>2, <2>3, <2>4 DEF fromAbs
<1> QED
  BY <1>6, <1>7

\* The replay of a resume ends at the screen and starts at a line that is retained.
LEMMA ReplayServed ==
    ASSUME RingInv, NEW haveThrough \in Int, haveThrough < committed,
           NEW replayMax \in Nat, replayMax >= 1
    PROVE  LET replay == LinesFrom(ReplayStart(haveThrough, replayMax))
           IN  /\ replay.first \in Nat /\ replay.lines \in Seq(Lines)
               /\ replay.first + Len(replay.lines) = committed
               /\ OldestIndex <= replay.first
<1> DEFINE bound == IF replayMax = NoMax THEN MaxReplayLines ELSE Lesser(MaxReplayLines, replayMax)
           from == Greater(haveThrough + 1, 0)
           abs == IF committed > bound THEN Greater(from, committed - bound) ELSE from
           replay == LinesFrom(abs)
<1>1. ReplayStart(haveThrough, replayMax) = abs
  BY DEF ReplayStart
<1>2. bound \in Nat /\ bound >= 1
  BY Constants DEF Lesser, NoMax
<1>3. committed \in Nat /\ OldestIndex \in 0..committed
  BY Bounds
<1>4. from \in 0..committed
  BY <1>3 DEF Greater
<1> HIDE DEF bound, from
<1>5. abs \in 0..(committed + 1) /\ abs <= committed
  BY <1>2, <1>3, <1>4 DEF Greater
<1> HIDE DEF abs
<1>6. /\ replay.first = Lesser(Greater(abs, OldestIndex), committed)
      /\ Len(replay.lines) = committed - replay.first
  BY <1>5, ReadLength
<1>7. replay.lines = SubSeq(history, replay.first + 1, committed)
  BY <1>5, ReadsFromInv, Zenon DEF ReadsAreExact
<1> HIDE DEF replay
<1>8. replay.first \in Nat /\ replay.first <= committed /\ OldestIndex <= replay.first
  BY <1>3, <1>5, <1>6 DEF Lesser, Greater
<1>9. replay.lines \in Seq(Lines)
  <2> DEFINE a == replay.first
  <2>1. a \in Nat /\ committed \in Nat /\ a <= committed /\ committed <= committed
    BY <1>3, <1>8
  <2> HIDE DEF a
  <2>2. SubSeq(history, a + 1, committed) \in Seq(Lines)
    BY <2>1, PartsOfHistory
  <2> QED
    BY <1>7, <2>2 DEF a
<1> QED
  BY <1>1, <1>3, <1>6, <1>8, <1>9 DEF replay
-----------------------------------------------------------------------------
(* The requests.                                                             *)

\* A gap between held rows, or below the lowest, ends in the window's first row
\* at the latest.
LEMMA GapsLieBelow ==
    ASSUME NEW s, IsStore(s), NEW com \in Nat, StoreOK(s, com), s.height > 0,
           NEW gap \in Gaps(s) \cup Frontier(s)
    PROVE  /\ gap.from \in Nat /\ gap.end \in Nat /\ gap.from < gap.end /\ gap.end <= s.base
<1>1. /\ s.base \in Nat /\ s.height \in Nat /\ s.pagingFloor \in Nat /\ Held(s) \subseteq Nat
      /\ Held(s) \in SUBSET Held(s)
      /\ \A i \in Nat : s.base <= i /\ i < s.base + s.height => i \in Held(s)
      /\ \A i \in Held(s) : i < s.base + s.height
  <2>1. Window(s) \subseteq Held(s) /\ \A i \in Held(s) : i < s.base + s.height
    BY DEF StoreOK
  <2>2. s.pagingFloor \in Nat
    BY DEF IsStore
  <2>3. Held(s) \in SUBSET Held(s)
    OBVIOUS
  <2>4. Held(s) \subseteq Nat
    BY <2>3, StoreSets
  <2>5. \A i \in Nat : s.base <= i /\ i < s.base + s.height => i \in Window(s)
    BY StoreSets
  <2> QED
    BY <2>1, <2>2, <2>4, <2>5, StoreSets
<1>2. s.base \in Held(s)
  BY <1>1
<1>3. Oldest(s) \in Held(s) /\ \A i \in Held(s) : Oldest(s) <= i
  BY <1>2, Extremes
<1>4. CASE gap \in Gaps(s)
  <2>1. PICK i \in Held(s) : /\ i - 1 \notin Held(s) /\ i # Oldest(s)
                             /\ gap = [from |-> Max({j \in Held(s) : j < i}) + 1, end |-> i]
    BY <1>4 DEF Gaps
  <2> DEFINE S == {j \in Held(s) : j < i}
             x == Max(S)
  <2>2. i \in Nat /\ Oldest(s) \in S
    BY <1>1, <1>3, <2>1
  <2>3. x \in S
    <3>1. S \in SUBSET Held(s) /\ S # {}
      BY <2>2
    <3> HIDE DEF S
    <3> QED
      BY <3>1, StoreSets
  <2>4. gap.from = x + 1 /\ gap.end = i
    BY <2>1
  <2> HIDE DEF x
  <2>5. x \in Nat /\ x < i /\ x \in Held(s)
    BY <1>1, <2>3
  <2>6. x # i - 1
    BY <2>1, <2>5
  <2>7. ~(i > s.base)
    <3> SUFFICES ASSUME i > s.base PROVE FALSE
      OBVIOUS
    <3>1. i - 1 \in Nat /\ s.base <= i - 1 /\ i - 1 < s.base + s.height
      BY <1>1, <2>1, <2>2
    <3> QED
      BY <1>1, <2>1, <3>1
  <2> QED
    BY <1>1, <2>2, <2>4, <2>5, <2>6, <2>7
<1>5. CASE gap \in Frontier(s)
  <2>1. Oldest(s) > s.pagingFloor /\ gap = [from |-> s.pagingFloor, end |-> Oldest(s)]
    BY <1>5 DEF Frontier
  <2>2. gap.from = s.pagingFloor /\ gap.end = Oldest(s)
    BY <2>1
  <2>3. Oldest(s) \in Nat /\ Oldest(s) <= s.base
    BY <1>1, <1>2, <1>3
  <2> QED
    BY <1>1, <2>1, <2>2, <2>3
<1> QED
  BY <1>4, <1>5

\* A request asks for rows below the window and at or above the floor, one at
\* least and no more than the budget.
LEMMA RequestIsSound ==
    ASSUME NEW s, IsStore(s), NEW com \in Nat, StoreOK(s, com), s.height > 0,
           NEW gap \in Gaps(s) \cup Frontier(s), gap.end > s.pagingFloor,
           NEW at \in Int, NEW effMax \in 1..PageSize
    PROVE  LET r == Request(s, gap, at, effMax)
           IN  r \in Requests /\ RequestOK(r, s) /\ s.pagingFloor <= r.from /\ r # NoRequest
<1> DEFINE g == gap.from
           e == gap.end
           p == s.pagingFloor
           F == {g, e - effMax, p}
           m == Max(F)
           from == IF at >= e THEN m ELSE Greater(g, p)
           end == Lesser(from + effMax, e)
           r == Request(s, gap, at, effMax)
<1>1. r = [from |-> from, end |-> end]
  BY DEF Request
<1>2. /\ g \in Nat /\ e \in Nat /\ p \in Nat /\ g < e /\ p < e /\ e <= s.base
      /\ effMax \in Int /\ 1 <= effMax /\ effMax <= PageSize /\ PageSize \in Nat
      /\ s.base \in Nat
  BY GapsLieBelow, Constants DEF IsStore
<1> HIDE DEF g, e, p
<1>3. m \in F /\ g <= m /\ p <= m /\ m \in Int
  <2> DEFINE top == IF g >= e - effMax THEN (IF g >= p THEN g ELSE p)
                    ELSE (IF e - effMax >= p THEN e - effMax ELSE p)
  <2>1. F \in SUBSET Int /\ F # {} /\ top \in Int /\ \A k \in F : k <= top
    BY <1>2
  <2> HIDE DEF F, top
  <2>2. m \in F /\ \A k \in F : m >= k
    BY <2>1, MaxIsGreatest
  <2>3. m \in Int
    BY <2>1, <2>2
  <2> QED
    BY <1>2, <2>2, <2>3 DEF F
<1> HIDE DEF m
<1>4. from \in Nat /\ p <= from /\ from < e
  BY <1>2, <1>3 DEF Greater
<1> HIDE DEF from
<1>5. end \in Nat /\ from < end /\ end <= e /\ end <= from + PageSize
  BY <1>2, <1>4 DEF Lesser
<1> HIDE DEF end
<1>6. r.from = from /\ r.end = end /\ r \in Requests
  BY <1>1, <1>4, <1>5 DEF Requests
<1>7. r # NoRequest
  BY <1>1, <1>4, <1>5, <1>6 DEF NoRequest
<1>8. RequestOK(r, s)
  BY <1>2, <1>4, <1>5, <1>6 DEF RequestOK
<1> QED
  BY <1>4, <1>6, <1>7, <1>8 DEF p

-----------------------------------------------------------------------------
(* The frames under way.                                                     *)

\* A frame is of one kind, and has that kind's fields.
LEMMA Kinds ==
    ASSUME NEW m \in Frames
    PROVE  /\ Screen(m) \/ Ack(m) \/ Reply(m) \/ LiveLines(m)
           /\ Screen(m) => /\ m \in ScreenFrames /\ m.base \in Nat /\ m.erasedBelow \in Int
                           /\ m.erasedBelow # NoErasure => m.erasedBelow \in Nat
                           /\ m.scrollbackCleared \in BOOLEAN /\ m.answers = NoRequest
                           /\ ~Ack(m) /\ ~Reply(m) /\ ~LiveLines(m) /\ m.type # "scroll"
           /\ Ack(m) => /\ m \in Acks /\ m.committed \in Nat /\ m.oldest \in Nat
                        /\ m.paging \in BOOLEAN /\ m.answers = NoRequest /\ ~m.batch
                        /\ ~Screen(m) /\ ~Reply(m) /\ ~LiveLines(m) /\ m.type # "scroll"
           /\ Reply(m) \/ LiveLines(m) =>
                /\ m \in ScrollFrames /\ m.firstIndex \in Nat /\ Len(m.lines) \in Nat
                /\ m.lines \in Seq(Lines)
                /\ m.answers \in Requests /\ m.answers.from \in Nat /\ m.answers.end \in Nat
                /\ ~Screen(m) /\ ~Ack(m) /\ m.type = "scroll"
           /\ m.type = "scroll" => Reply(m) \/ LiveLines(m)
           /\ m.batch \in BOOLEAN
<1>1. CASE m \in ScreenFrames
  <2>1. /\ m.type = "screen" /\ m.base \in Nat /\ m.erasedBelow \in Nat \cup {NoErasure}
        /\ m.scrollbackCleared \in BOOLEAN /\ m.answers = NoRequest /\ m.batch \in BOOLEAN
    BY <1>1 DEF ScreenFrames
  <2> QED
    BY <1>1, <2>1 DEF Screen, Ack, Reply, LiveLines, NoErasure
<1>2. CASE m \in ScrollFrames
  <2>1. /\ m.type = "scroll" /\ m.firstIndex \in Nat /\ m.lines \in Seq(Lines)
        /\ m.answers \in Requests /\ m.batch \in BOOLEAN
    BY <1>2 DEF ScrollFrames
  <2>2. m.answers.from \in Nat /\ m.answers.end \in Nat /\ Len(m.lines) \in Nat
    BY <2>1 DEF Requests
  <2> QED
    BY <1>2, <2>1, <2>2 DEF Screen, Ack, Reply, LiveLines
<1>3. CASE m \in Acks
  <2>1. /\ m.type = "resumeAck" /\ m.committed \in Nat /\ m.oldest \in Nat
        /\ m.paging \in BOOLEAN /\ m.answers = NoRequest /\ m.batch = FALSE
    BY <1>3 DEF Acks
  <2> QED
    BY <1>3, <2>1 DEF Screen, Ack, Reply, LiveLines
<1> QED
  BY <1>1, <1>2, <1>3 DEF Frames

\* A frame stays good while the store and the request it was built for move no
\* further than these.
LEMMA FrameStays ==
    ASSUME NEW m \in Frames, NEW s, IsStore(s), NEW s2, IsStore(s2), NEW f, NEW f2, NEW t, NEW t2,
           NEW com \in Nat, NEW com2 \in Nat, NEW old \in Nat, NEW old2 \in Nat,
           t.below \in Nat, t2.below \in Nat,
           FrameOK(m, s, f, t, com, old), com <= com2, old <= old2,
           Screen(m) => /\ s2.base <= m.base /\ t2.below <= m.base
                        /\ \A i \in s2.browse : i < m.base,
           LiveLines(m) => t2.below <= m.firstIndex /\ f2.inFlight.end <= m.firstIndex,
           Reply(m) => s.base <= s2.base
    PROVE  FrameOK(m, s2, f2, t2, com2, old2)
<1>1. ASSUME Screen(m) PROVE ScreenOK(m, s2, t2, com2, old2)
  <2>1. m.base \in Nat /\ m.erasedBelow \in Int
    BY <1>1, Kinds
  <2>2. m.base <= com /\ m.erasedBelow <= m.base /\ m.erasedBelow <= old
        /\ (m.scrollbackCleared <=> m.erasedBelow # NoErasure)
    BY <1>1 DEF FrameOK, ScreenOK
  <2> QED
    BY <1>1, <2>1, <2>2 DEF ScreenOK
<1>2. ASSUME LiveLines(m) PROVE LiveOK(m, f2, t2, com2)
  <2>1. m.firstIndex \in Nat /\ Len(m.lines) \in Nat
    BY <1>2, Kinds
  <2>2. m.firstIndex + Len(m.lines) <= com
    BY <1>2 DEF FrameOK, LiveOK
  <2> QED
    BY <1>2, <2>1, <2>2 DEF LiveOK
<1>3. ASSUME Reply(m) PROVE ~m.batch /\ ReplyOK(m, s2, old2)
  <2>1. m.firstIndex \in Nat /\ m.answers.from \in Nat /\ m.answers.end \in Nat
    BY <1>3, Kinds
  <2>2. ~m.batch /\ ReplyOK(m, s, old)
    BY <1>3 DEF FrameOK
  <2>3. s.base \in Nat /\ s2.base \in Nat /\ s.base <= s2.base
    BY <1>3 DEF IsStore
  <2> QED
    BY <2>1, <2>2, <2>3 DEF ReplyOK
<1> QED
  BY <1>1, <1>2, <1>3 DEF FrameOK

\* The wire stays good when nothing is written to it, nothing is read of it, and
\* the store keeps its window.
LEMMA WireStays ==
    ASSUME NEW w \in Seq(Frames), NEW s, IsStore(s), NEW s2, IsStore(s2), NEW f, NEW f2, NEW t,
           NEW com \in Nat, NEW com2 \in Nat, NEW old \in Nat, NEW old2 \in Nat,
           t.below \in Nat, WireOK(w, s, f, t, com, old), com <= com2, old <= old2,
           s2.base = s.base, s2.height = s.height, s2.browse \subseteq s.browse,
           \A k \in 1..Len(w) : LiveLines(w[k]) => f2.inFlight.end <= w[k].firstIndex
    PROVE  WireOK(w, s2, f2, t, com2, old2)
<1> SUFFICES ASSUME NEW k \in 1..Len(w)
             PROVE  FrameOK(w[k], s2, f2, t, com2, old2) /\ OrderOK(w, k, s2)
  BY DEF WireOK
<1> DEFINE m == w[k]
<1>1. m \in Frames
  OBVIOUS
<1>2. FrameOK(m, s, f, t, com, old) /\ OrderOK(w, k, s)
  BY DEF WireOK
<1>3. OrderOK(w, k, s2)
  BY <1>2 DEF OrderOK, LinesOrder
<1>4. Screen(m) => /\ s2.base <= m.base /\ t.below <= m.base
                   /\ \A i \in s2.browse : i < m.base
  BY <1>2 DEF FrameOK, ScreenOK
<1>5. LiveLines(m) => t.below <= m.firstIndex /\ f2.inFlight.end <= m.firstIndex
  BY <1>2 DEF FrameOK, LiveOK
<1>6. s.base <= s2.base
  BY DEF IsStore
<1> HIDE DEF m
<1>7. FrameOK(m, s2, f2, t, com2, old2)
  BY <1>1, <1>2, <1>4, <1>5, <1>6, FrameStays
<1> QED
  BY <1>3, <1>7 DEF m

\* The head of the wire is a frame, and the rest follows.
LEMMA WireTail ==
    ASSUME NEW w \in Seq(Frames), w # <<>>
    PROVE  /\ Head(w) = w[1] /\ w[1] \in Frames /\ Len(w) \in Nat /\ Len(w) >= 1
           /\ Tail(w) \in Seq(Frames) /\ Len(Tail(w)) = Len(w) - 1
           /\ \A k \in 1..Len(Tail(w)) : Tail(w)[k] = w[k + 1] /\ k + 1 \in 1..Len(w)
<1>1. Len(w) \in Nat /\ Len(w) >= 1
  BY EmptySeq
<1> QED
  BY <1>1, HeadTailProperties

\* What is left of the wire when a frame has been taken.
LEMMA TailStays ==
    ASSUME NEW w \in Seq(Frames), w # <<>>, NEW s, IsStore(s), NEW s2, IsStore(s2),
           NEW f, NEW f2, NEW t, NEW t2, NEW com \in Nat, NEW old \in Nat,
           WireOK(w, s, f, t, com, old),
           \A k \in 2..Len(w) : FrameOK(w[k], s2, f2, t2, com, old),
           \/ Screen(w[1]) /\ s2.base = w[1].base /\ s2.height > 0
           \/ ~Screen(w[1]) /\ s2.base <= s.base
    PROVE  /\ WireOK(Tail(w), s2, f2, t2, com, old)
           /\ \A k \in 1..Len(Tail(w)) : ~Ack(Tail(w)[k])
<1> DEFINE v == Tail(w)
<1>1. /\ Len(w) \in Nat /\ Len(w) >= 1 /\ v \in Seq(Frames) /\ Len(v) = Len(w) - 1
      /\ \A k \in 1..Len(v) : v[k] = w[k + 1] /\ k + 1 \in 1..Len(w)
      /\ w[1] \in Frames
  BY WireTail
<1> HIDE DEF v
<1>2. ASSUME NEW k \in 1..Len(v)
      PROVE  FrameOK(v[k], s2, f2, t2, com, old) /\ OrderOK(v, k, s2) /\ ~Ack(v[k])
  <2> DEFINE n == k + 1
             m == w[n]
  <2>1. n \in 2..Len(w) /\ v[k] = m /\ m \in Frames /\ k \in Nat /\ k >= 1
    BY <1>1
  <2>2. \A j \in 1..(k - 1) : v[j] = w[j + 1] /\ j + 1 \in 1..(n - 1) /\ j + 1 \in 1..Len(w)
    BY <1>1, <2>1
  <2>3. OrderOK(w, n, s)
    BY <2>1 DEF WireOK
  <2>4. ~Ack(m)
    BY <2>1, <2>3 DEF OrderOK
  <2>5. FrameOK(m, s2, f2, t2, com, old)
    BY <2>1
  <2> HIDE DEF m
  <2>6. ASSUME Screen(m) PROVE ScreenOrder(v, k)
    <3>1. /\ \A j \in 1..(n - 1) : Screen(w[j]) => w[j].base <= m.base
          /\ m.batch => n = 1 \/ (n = 2 /\ Ack(w[1]))
      BY <2>3, <2>6 DEF OrderOK, ScreenOrder, m
    <3> QED
      BY <2>1, <2>2, <3>1 DEF ScreenOrder
  <2>7. ASSUME LiveLines(m) PROVE LinesOrder(v, k, s2)
    <3>1. LinesOrder(w, n, s) /\ n > 1
      BY <2>1, <2>3, <2>7 DEF OrderOK, m
    <3>2. /\ m.batch /\ Screen(w[n - 1]) /\ w[n - 1].base = m.firstIndex + Len(m.lines)
          /\ w[n - 1].batch \/ s.base <= m.firstIndex
          /\ \A j \in 1..(n - 1) : Screen(w[j]) =>
                /\ w[j].erasedBelow <= m.firstIndex
                /\ j < n - 1 => w[j].base <= m.firstIndex
      BY <3>1 DEF LinesOrder, m
    <3>3. m.firstIndex \in Nat /\ Len(m.lines) \in Nat /\ s.base \in Nat /\ s2.base \in Nat
      BY <2>1, <2>7, Kinds DEF IsStore
    <3>4. k = 1 => s2.height > 0 /\ m.firstIndex + Len(m.lines) <= s2.base
      <4> SUFFICES ASSUME k = 1 PROVE s2.height > 0 /\ m.firstIndex + Len(m.lines) <= s2.base
        OBVIOUS
      <4>1. n - 1 = 1
        OBVIOUS
      <4>2. Screen(w[1]) /\ w[1].base = m.firstIndex + Len(m.lines)
        BY <3>2, <4>1
      <4> QED
        BY <3>3, <4>2
    <3>5. k > 1 => /\ Screen(v[k - 1]) /\ v[k - 1].base = m.firstIndex + Len(m.lines)
                   /\ v[k - 1].batch \/ s2.base <= m.firstIndex
      <4> SUFFICES ASSUME k > 1
                   PROVE  /\ Screen(v[k - 1]) /\ v[k - 1].base = m.firstIndex + Len(m.lines)
                          /\ v[k - 1].batch \/ s2.base <= m.firstIndex
        OBVIOUS
      <4>1. k - 1 \in 1..(k - 1) /\ (k - 1) + 1 = n - 1 /\ 1 \in 1..(n - 1) /\ 1 < n - 1
        BY <2>1
      <4>2. v[k - 1] = w[n - 1]
        BY <2>2, <4>1
      <4>3. Screen(w[1]) => w[1].base <= m.firstIndex
        BY <3>2, <4>1
      <4>4. w[n - 1].batch \/ s2.base <= m.firstIndex
        BY <3>2, <3>3, <4>3
      <4> QED
        BY <3>2, <4>2, <4>4
    <3>6. \A j \in 1..(k - 1) : Screen(v[j]) =>
            /\ v[j].erasedBelow <= m.firstIndex
            /\ j < k - 1 => v[j].base <= m.firstIndex
      BY <2>1, <2>2, <3>2
    <3> QED
      BY <2>1, <3>2, <3>4, <3>5, <3>6 DEF LinesOrder
  <2> QED
    BY <2>1, <2>4, <2>5, <2>6, <2>7 DEF OrderOK
<1> QED
  BY <1>2 DEF WireOK, v

\* Nothing that follows the head of the wire is batched with it, but a screen with
\* its resumeAck and the lines with their screen.
LEMMA BatchStays ==
    ASSUME NEW w \in Seq(Frames), w # <<>>, NEW s, NEW f, NEW t, NEW com, NEW old,
           WireOK(w, s, f, t, com, old)
    PROVE  Ack(w[1]) => Len(w) > 1 /\ Screen(w[2]) /\ w[2].batch
<1>1. 1 \in 1..Len(w)
  BY WireTail
<1> QED
  BY <1>1 DEF WireOK, OrderOK

\* Frames with more frames behind them.
IsJoin(y, w, x) ==
    /\ y \in Seq(Frames) /\ Len(w) \in Nat /\ Len(x) \in Nat
    /\ Len(y) = Len(w) + Len(x)
    /\ \A k \in 1..Len(w) : k \in 1..Len(y) /\ y[k] = w[k]
    /\ \A k \in 1..Len(x) : Len(w) + k \in 1..Len(y) /\ y[Len(w) + k] = x[k]
    /\ \A k \in 1..Len(y) : k \in 1..Len(w) \/ k - Len(w) \in 1..Len(x)

\* A sequence appended is frames behind frames.
LEMMA Joined ==
    ASSUME NEW w \in Seq(Frames), NEW x \in Seq(Frames), NEW y, y = w \o x
    PROVE  IsJoin(y, w, x)
<1>1. Len(w) \in Nat /\ Len(x) \in Nat
  OBVIOUS
<1>2. /\ w \o x \in Seq(Frames) /\ Len(w \o x) = Len(w) + Len(x)
      /\ \A k \in 1..(Len(w) + Len(x)) :
            (w \o x)[k] = IF k <= Len(w) THEN w[k] ELSE x[k - Len(w)]
  BY ConcatProperties
<1>3. /\ y \in Seq(Frames) /\ Len(y) = Len(w) + Len(x)
      /\ \A k \in 1..(Len(w) + Len(x)) : y[k] = IF k <= Len(w) THEN w[k] ELSE x[k - Len(w)]
  BY <1>2
<1>4. \A k \in 1..Len(w) : k \in 1..Len(y) /\ y[k] = w[k]
  BY <1>1, <1>3
<1>5. \A k \in 1..Len(x) : Len(w) + k \in 1..Len(y) /\ y[Len(w) + k] = x[k]
  <2> SUFFICES ASSUME NEW k \in 1..Len(x)
               PROVE  Len(w) + k \in 1..Len(y) /\ y[Len(w) + k] = x[k]
    OBVIOUS
  <2> DEFINE n == Len(w) + k
  <2>1. n \in 1..(Len(w) + Len(x)) /\ ~(n <= Len(w)) /\ n - Len(w) = k
    BY <1>1
  <2> HIDE DEF n
  <2>2. y[n] = x[n - Len(w)]
    BY <1>3, <2>1
  <2>3. y[n] = x[k] /\ n \in 1..Len(y)
    BY <1>3, <2>1, <2>2
  <2> QED
    BY <2>3 DEF n
<1>6. \A k \in 1..Len(y) : k \in 1..Len(w) \/ k - Len(w) \in 1..Len(x)
  BY <1>1, <1>3
<1> QED
  BY <1>1, <1>3, <1>4, <1>5, <1>6 DEF IsJoin

\* What is written goes behind what is under way, and leaves that as it was.
LEMMA WireGrows ==
    ASSUME NEW w \in Seq(Frames), NEW x \in Seq(Frames), NEW s, NEW f, NEW t,
           NEW com, NEW old, WireOK(w, s, f, t, com, old),
           \A k \in 1..Len(x) : /\ FrameOK(x[k], s, f, t, com, old)
                                /\ OrderOK(w \o x, Len(w) + k, s)
    PROVE  WireOK(w \o x, s, f, t, com, old)
<1> DEFINE y == w \o x
<1>1. /\ y \in Seq(Frames) /\ Len(w) \in Nat /\ Len(x) \in Nat /\ Len(y) = Len(w) + Len(x)
      /\ \A k \in 1..Len(w) : k \in 1..Len(y) /\ y[k] = w[k]
      /\ \A k \in 1..Len(x) : Len(w) + k \in 1..Len(y) /\ y[Len(w) + k] = x[k]
      /\ \A k \in 1..Len(y) : k \in 1..Len(w) \/ k - Len(w) \in 1..Len(x)
  BY Joined DEF IsJoin
<1>2. \A k \in 1..Len(x) : FrameOK(x[k], s, f, t, com, old) /\ OrderOK(y, Len(w) + k, s)
  OBVIOUS
<1> HIDE DEF y
<1>3. ASSUME NEW k \in 1..Len(y) PROVE FrameOK(y[k], s, f, t, com, old) /\ OrderOK(y, k, s)
  <2>1. CASE k \in 1..Len(w)
    <3>1. y[k] = w[k] /\ FrameOK(w[k], s, f, t, com, old) /\ OrderOK(w, k, s)
      BY <1>1, <2>1 DEF WireOK
    <3>2. \A j \in 1..(k - 1) : y[j] = w[j]
      BY <1>1, <2>1
    <3>3. k > 1 => y[k - 1] = w[k - 1]
      BY <1>1, <2>1, <3>2
    <3>4. k > 1 => y[1] = w[1]
      BY <1>1, <2>1, <3>2
    <3>5. Screen(y[k]) => ScreenOrder(y, k)
      <4> SUFFICES ASSUME Screen(w[k]) PROVE ScreenOrder(y, k)
        BY <3>1
      <4>1. ScreenOrder(w, k)
        BY <3>1 DEF OrderOK
      <4>2. k = 2 => y[1] = w[1]
        BY <3>4
      <4> QED
        BY <3>1, <3>2, <4>1, <4>2 DEF ScreenOrder
    <3>6. LiveLines(y[k]) => LinesOrder(y, k, s)
      <4> SUFFICES ASSUME LiveLines(w[k]) PROVE LinesOrder(y, k, s)
        BY <3>1
      <4>1. LinesOrder(w, k, s)
        BY <3>1 DEF OrderOK
      <4> QED
        BY <3>1, <3>2, <3>3, <4>1 DEF LinesOrder
    <3>7. Ack(y[k]) => k = 1 /\ Len(y) > 1 /\ Screen(y[2]) /\ y[2].batch
      <4> SUFFICES ASSUME Ack(w[k])
                   PROVE  k = 1 /\ Len(y) > 1 /\ Screen(y[2]) /\ y[2].batch
        BY <3>1
      <4>1. k = 1 /\ Len(w) > 1 /\ Screen(w[2]) /\ w[2].batch
        BY <3>1 DEF OrderOK
      <4>2. 2 \in 1..Len(w)
        BY <1>1, <4>1
      <4> QED
        BY <1>1, <4>1, <4>2
    <3> QED
      BY <3>1, <3>5, <3>6, <3>7 DEF OrderOK
  <2>2. CASE k - Len(w) \in 1..Len(x)
    <3> DEFINE i == k - Len(w)
    <3>1. i \in 1..Len(x) /\ Len(w) + i = k
      BY <1>1, <2>2
    <3> HIDE DEF i
    <3> QED
      BY <1>1, <1>2, <3>1
  <2> QED
    BY <1>1, <2>1, <2>2
<1> QED
  BY <1>3 DEF WireOK, y

\* The store is as good for a ring that has grown.
LEMMA StoreStays ==
    ASSUME NEW s, IsStore(s), NEW com \in Nat, NEW com2 \in Nat, com <= com2, StoreOK(s, com)
    PROVE  StoreOK(s, com2)
<1>1. s.base \in Nat /\ s.unconfirmedFrom \in Nat /\ s.browse \subseteq Nat
  <2>1. s.browse \in SUBSET Held(s)
    BY StoreSets
  <2> QED
    BY <2>1, StoreSets DEF IsStore
<1> QED
  BY <1>1 DEF StoreOK

\* What a page waits for is still to come while nothing else is done about it.
LEMMA AckStays ==
    ASSUME NEW w, NEW f, NEW f2, NEW u, NEW a, NEW t, NEW com \in Nat, NEW com2 \in Nat,
           NEW old \in Nat, NEW old2 \in Nat, com <= com2, old <= old2,
           w \in Seq(Frames), f.haveThrough \in Int,
           AckOK(w, f, u, a, t, com, old), f2.acked = f.acked,
           f2.inFlight \in {f.inFlight, NoRequest},
           f2.haveThrough = f.haveThrough
    PROVE  AckOK(w, f2, u, a, t, com2, old2)
<1> SUFFICES ASSUME Len(w) > 0, Ack(w[1]) PROVE AckOK(w, f2, u, a, t, com2, old2)
  BY DEF AckOK
<1>1. /\ ~f.acked /\ f.inFlight = NoRequest /\ u = <<>> /\ a = <<>>
      /\ \A j \in 1..Len(w) : w[j].answers = NoRequest
      /\ t.below <= w[1].oldest /\ w[1].oldest <= old
      /\ \A j \in 1..Len(w) : Screen(w[j]) => f.haveThrough < w[j].base
      /\ f.haveThrough < com
  BY DEF AckOK
<1>2. w[1] \in Frames
  BY WireTail
<1>3. w[1].oldest \in Nat
  BY <1>2, Kinds
<1>4. w[1].oldest <= old2 /\ f.haveThrough < com2
  BY <1>1, <1>3
<1> QED
  BY <1>1, <1>4 DEF AckOK

\* The frame that is built stays good while the store keeps its window.
LEMMA BuiltStays ==
    ASSUME NEW fr, NEW w, NEW s, NEW s2, NEW t, NEW com, NEW old \in Nat, NEW old2 \in Nat,
           old <= old2, BuiltOK(fr, w, s, t, com, old),
           s2.base = s.base, s2.browse \subseteq s.browse
    PROVE  BuiltOK(fr, w, s2, t, com, old2)
<1> SUFFICES ASSUME fr # <<>> PROVE BuiltOK(fr, w, s2, t, com, old2)
  BY DEF BuiltOK
<1>1. fr[1] \in ScreenFrames /\ ScreenOK(fr[1], s, t, com, old)
  BY DEF BuiltOK
<1>2. fr[1].erasedBelow \in Int
  <2>1. fr[1] \in Frames /\ Screen(fr[1])
    BY <1>1 DEF Frames, Screen, ScreenFrames
  <2> QED
    BY <2>1, Kinds
<1>3. ScreenOK(fr[1], s2, t, com, old2)
  BY <1>1, <1>2 DEF ScreenOK
<1> QED
  BY <1>3 DEF BuiltOK

\* The requests and their replies stay good while the window's first row does not
\* move down and no request is made.
LEMMA RequestsStay ==
    ASSUME NEW s, IsStore(s), NEW s2, IsStore(s2), NEW f, NEW f2, NEW u \in Seq(Requests),
           NEW a \in Seq(ScrollFrames), NEW t, NEW old \in Nat, NEW old2 \in Nat, old <= old2,
           f.inFlight \in Requests,
           RequestsOK(s, f, u, a, t, old), s.base <= s2.base,
           f2.inFlight \in {f.inFlight, NoRequest},
           \/ s2.solicited = NoRequest
           \/ s2.solicited = s.solicited /\ f2.inFlight = f.inFlight
    PROVE  RequestsOK(s2, f2, u, a, t, old2)
<1>1. /\ s.base \in Nat /\ s2.base \in Nat
      /\ f.inFlight.end \in Nat /\ f.inFlight.from \in Nat /\ PageSize \in Nat
  BY Constants DEF IsStore, Requests
<1>2. /\ f.inFlight.end <= s.base /\ f.inFlight.end <= f.inFlight.from + PageSize
      /\ \A k \in 1..Len(u) : RequestOK(u[k], s)
      /\ Len(a) <= 1
      /\ \A k \in 1..Len(a) : Reply(a[k]) /\ ~a[k].batch /\ ReplyOK(a[k], s, old)
      /\ s.solicited \in {NoRequest, f.inFlight}
      /\ s.solicited # NoRequest => t.below <= s.solicited.from
  BY DEF RequestsOK
<1>3. NoRequest.from = 0 /\ NoRequest.end = 0
  BY DEF NoRequest
<1>4. f2.inFlight.end <= s2.base /\ f2.inFlight.end <= f2.inFlight.from + PageSize
  BY <1>1, <1>2, <1>3
<1>5. \A k \in 1..Len(u) : RequestOK(u[k], s2)
  <2> SUFFICES ASSUME NEW k \in 1..Len(u) PROVE RequestOK(u[k], s2)
    OBVIOUS
  <2>1. u[k] \in Requests /\ RequestOK(u[k], s)
    BY <1>2
  <2>2. u[k].end \in Nat
    BY <2>1 DEF Requests
  <2> QED
    BY <1>1, <2>1, <2>2 DEF RequestOK
<1>6. \A k \in 1..Len(a) : Reply(a[k]) /\ ~a[k].batch /\ ReplyOK(a[k], s2, old2)
  <2> SUFFICES ASSUME NEW k \in 1..Len(a)
               PROVE  Reply(a[k]) /\ ~a[k].batch /\ ReplyOK(a[k], s2, old2)
    OBVIOUS
  <2>1. a[k] \in Frames /\ Reply(a[k]) /\ ~a[k].batch /\ ReplyOK(a[k], s, old)
    BY <1>2 DEF Frames
  <2>2. a[k].firstIndex \in Nat /\ a[k].answers.end \in Nat
    BY <2>1, Kinds
  <2> QED
    BY <1>1, <2>1, <2>2 DEF ReplyOK
<1>7. /\ s2.solicited \in {NoRequest, f2.inFlight}
      /\ s2.solicited # NoRequest => t.below <= s2.solicited.from
  BY <1>2
<1> QED
  BY <1>2, <1>4, <1>5, <1>6, <1>7 DEF RequestsOK

\* So do the marks of what is gone, while the page loses rows and not its floor.
LEMMA FloorsStay ==
    ASSUME NEW s, IsStore(s), NEW s2, NEW t, t.below \in Nat, t.base \in Nat,
           NEW cl \in Int, NEW cl2 \in Int, NEW d, NEW st,
           NEW old \in Nat, NEW old2 \in Nat, old <= old2, FloorsOK(s, t, cl, d, st, old),
           s2.pagingFloor = s.pagingFloor, Held(s2) \subseteq Held(s), cl2 \in {cl, NoErasure}
    PROVE  FloorsOK(s2, t, cl2, d, st, old2)
<1>1. s.pagingFloor \in Nat
  BY DEF IsStore
<1> QED
  BY <1>1 DEF FloorsOK, Greater, NoErasure

-----------------------------------------------------------------------------
(* The page's own steps.                                                     *)

\* What the invariant says of every part.
LEMMA Parts ==
    ASSUME RingInv, PagingInv
    PROVE  /\ committed \in Nat /\ OldestIndex \in Nat /\ OldestIndex <= committed
           /\ IsStore(store) /\ store.base \in Nat /\ store.pagingFloor \in Nat
           /\ Held(store) \subseteq Nat /\ store.browse \subseteq Held(store)
           /\ store.base <= committed /\ store.unconfirmedFrom \in Nat
           /\ fetch \in Fetches /\ fetch.inFlight \in Requests /\ fetch.haveThrough \in Int
           /\ fetch.inFlight.from \in Nat /\ fetch.inFlight.end \in Nat
           /\ fetch.acked \in BOOLEAN /\ fetch.effMax \in MinPage..PageSize
           /\ up \in Seq(Requests) /\ answer \in Seq(ScrollFrames) /\ wire \in Seq(Frames)
           /\ frame \in Seq(Frames)
           /\ told.below \in Nat /\ told.base \in Nat /\ clearing \in Int
           /\ reader \in Nat \cup {Following}
<1>1. committed \in Nat /\ OldestIndex \in Nat /\ OldestIndex <= committed
  BY Bounds DEF OldestIndex
<1>2. /\ IsStore(store) /\ fetch \in Fetches /\ up \in Seq(Requests)
      /\ answer \in Seq(ScrollFrames) /\ wire \in Seq(Frames) /\ frame \in Seq(Frames)
      /\ told \in [below : Nat, base : Nat] /\ clearing \in Nat \cup {NoErasure}
      /\ reader \in Nat \cup {Following}
  BY DEF PagingInv, PagingTypes
<1>3. /\ store.base \in Nat /\ store.pagingFloor \in Nat /\ store.unconfirmedFrom \in Nat
      /\ store.browse \subseteq Held(store)
  BY <1>2 DEF IsStore
<1>4. Held(store) \subseteq Nat
  <2>1. Held(store) \in SUBSET Held(store)
    OBVIOUS
  <2> QED
    BY <1>2, <2>1, StoreSets
<1>5. /\ fetch.inFlight \in Requests /\ fetch.haveThrough \in Int
      /\ fetch.acked \in BOOLEAN /\ fetch.effMax \in MinPage..PageSize
  BY <1>2 DEF Fetches
<1>6. fetch.inFlight.from \in Nat /\ fetch.inFlight.end \in Nat
  BY <1>5 DEF Requests
<1>7. told.below \in Nat /\ told.base \in Nat /\ clearing \in Int
  BY <1>2 DEF NoErasure
<1>8. store.base <= committed
  BY DEF PagingInv, StoreOK
<1> QED
  BY <1>1, <1>2, <1>3, <1>4, <1>5, <1>6, <1>7, <1>8

\* The lines under way are no part of the request.
LEMMA LiveAreNoReplies ==
    ASSUME RingInv, PagingInv, NEW k \in 1..Len(wire), LiveLines(wire[k])
    PROVE  fetch.inFlight.end <= wire[k].firstIndex
BY DEF PagingInv, WireOK, FrameOK, LiveOK

\* Two states of the socket's history of which the later one waits for no more.
SameAsk(g, f) ==
    /\ g \in Fetches /\ g.inFlight \in {f.inFlight, NoRequest} /\ g.acked = f.acked
    /\ g.haveThrough = f.haveThrough
\* Two stores of which the later one keeps the window and has no more.
Thinner(s2, s) ==
    /\ IsStore(s2) /\ s2.base = s.base /\ s2.height = s.height
    /\ s2.browse \subseteq s.browse /\ Held(s2) \subseteq Held(s)
    /\ s2.pagingFloor = s.pagingFloor

\* A step of the page that brings it nothing and asks for nothing.
LEMMA PageSteps ==
    ASSUME RingInv, PagingInv, SameAsk(fetch', fetch), Thinner(store', store),
           StoreOK(store', committed),
           \/ store'.solicited = NoRequest
           \/ store'.solicited = store.solicited /\ fetch'.inFlight = fetch.inFlight,
           reader' \in Nat \cup {Following}, due' \in BOOLEAN,
           UNCHANGED <<vars, serverVars, linkVars, ghosts>>
    PROVE  PagingInv'
<1>1. /\ committed' = committed /\ OldestIndex' = OldestIndex
      /\ answer' = answer /\ frame' = frame /\ clearing' = clearing
      /\ live' = live /\ up' = up /\ wire' = wire
      /\ told' = told /\ doubt' = doubt /\ strays' = strays
  BY DEF vars, serverVars, linkVars, ghosts, OldestIndex
<1>2. PagingTypes'
  BY <1>1 DEF PagingInv, PagingTypes, SameAsk, Thinner
<1>3. StoreOK(store, committed)'
  BY <1>1
<1> DEFINE s2 == store'
           f2 == fetch'
<1>4. /\ SameAsk(f2, fetch) /\ Thinner(s2, store)
      /\ \/ s2.solicited = NoRequest
         \/ s2.solicited = store.solicited /\ f2.inFlight = fetch.inFlight
  OBVIOUS
<1> HIDE DEF s2, f2
<1>5. /\ IsStore(s2) /\ s2.base = store.base /\ s2.height = store.height
      /\ s2.browse \subseteq store.browse /\ Held(s2) \subseteq Held(store)
      /\ s2.pagingFloor = store.pagingFloor
  BY <1>4 DEF Thinner
<1>6. /\ f2.inFlight \in {fetch.inFlight, NoRequest} /\ f2.acked = fetch.acked
      /\ f2.haveThrough = fetch.haveThrough
  BY <1>4 DEF SameAsk
<1>7. /\ committed \in Nat /\ OldestIndex \in Nat /\ IsStore(store) /\ wire \in Seq(Frames)
      /\ told.below \in Nat /\ told.base \in Nat /\ clearing \in Int
      /\ up \in Seq(Requests) /\ answer \in Seq(ScrollFrames)
      /\ fetch.inFlight \in Requests /\ fetch.haveThrough \in Int
  BY Parts
<1>8. committed <= committed /\ OldestIndex <= OldestIndex
  BY <1>7
<1>9. WireOK(wire, s2, f2, told, committed, OldestIndex)
  <2>1. \A k \in 1..Len(wire) : LiveLines(wire[k]) => f2.inFlight.end <= wire[k].firstIndex
    <3> SUFFICES ASSUME NEW k \in 1..Len(wire), LiveLines(wire[k])
                 PROVE  f2.inFlight.end <= wire[k].firstIndex
      OBVIOUS
    <3>1. fetch.inFlight.end <= wire[k].firstIndex
      BY LiveAreNoReplies
    <3>2. wire[k] \in Frames
      BY <1>7
    <3>3. wire[k].firstIndex \in Nat
      BY <3>2, Kinds
    <3>4. NoRequest.end = 0
      BY DEF NoRequest
    <3> QED
      BY <1>6, <3>1, <3>3, <3>4
  <2>2. WireOK(wire, store, fetch, told, committed, OldestIndex)
    BY DEF PagingInv
  <2> QED
    BY <1>5, <1>7, <1>8, <2>1, <2>2, WireStays, Zenon
<1>10. AckOK(wire, f2, up, answer, told, committed, OldestIndex)
  <2>1. AckOK(wire, fetch, up, answer, told, committed, OldestIndex)
    BY DEF PagingInv
  <2> QED
    BY <1>6, <1>7, <1>8, <2>1, AckStays, Zenon
<1>11. BuiltOK(frame, wire, s2, told, committed, OldestIndex)
  <2>1. BuiltOK(frame, wire, store, told, committed, OldestIndex)
    BY DEF PagingInv
  <2> QED
    BY <1>5, <1>7, <1>8, <2>1, BuiltStays, Zenon
<1>12. RequestsOK(s2, f2, up, answer, told, OldestIndex)
  <2>1. RequestsOK(store, fetch, up, answer, told, OldestIndex)
    BY DEF PagingInv
  <2>2. store.base <= s2.base
    BY <1>5 DEF IsStore
  <2> QED
    BY <1>4, <1>5, <1>6, <1>7, <1>8, <2>1, <2>2, RequestsStay, Zenon
<1>13. SocketOK(live, wire, s2, f2, up, answer, frame)
  <2>1. SocketOK(live, wire, store, fetch, up, answer, frame)
    BY DEF PagingInv
  <2> QED
    BY <1>5, <1>6, <2>1 DEF SocketOK
<1>14. FloorsOK(s2, told, clearing, doubt, strays, OldestIndex)
  <2>1. FloorsOK(store, told, clearing, doubt, strays, OldestIndex)
    BY DEF PagingInv
  <2> QED
    BY <1>5, <1>7, <1>8, <2>1, FloorsStay, Zenon
<1> USE DEF s2, f2
<1> QED
  BY <1>1, <1>2, <1>3, <1>9, <1>10, <1>11, <1>12, <1>13, <1>14 DEF PagingInv

\* Where the page may draw and has a window's socket, nothing is about to change
\* the window under a new request: every line under way lies at or above it.
LEMMA DrawnIsSettled ==
    ASSUME RingInv, PagingInv, FlushInBatch = FALSE, MayDraw, fetch.acked
    PROVE  /\ store.height > 0 /\ live
           /\ ~(Len(wire) > 0 /\ Ack(wire[1]))
           /\ \A k \in 1..Len(wire) : LiveLines(wire[k]) => store.base <= wire[k].firstIndex
<1>1. ~(Len(wire) > 0 /\ Ack(wire[1]))
  BY DEF PagingInv, AckOK
<1>2. Len(wire) > 0 => ~wire[1].batch
  <2> SUFFICES ASSUME Len(wire) > 0 PROVE ~wire[1].batch
    OBVIOUS
  <2>1. Len(wire) \in Nat /\ 1 \in DOMAIN wire
    BY Parts
  <2> QED
    BY <2>1 DEF MayDraw
<1>3. store.height > 0
  <2>1. store.height # 0
    BY <1>2 DEF PagingInv, SocketOK
  <2> QED
    BY <2>1, Parts, StoreSets
<1>4. live
  BY DEF PagingInv, SocketOK
<1>5. ASSUME NEW k \in 1..Len(wire), LiveLines(wire[k]) PROVE store.base <= wire[k].firstIndex
  <2>1. LinesOrder(wire, k, store) /\ Len(wire) \in Nat
    BY <1>5, Parts DEF PagingInv, WireOK, OrderOK
  <2>2. wire[k].batch
    BY <2>1 DEF LinesOrder
  <2>3. k > 1
    BY <1>2, <2>1, <2>2
  <2>4. Screen(wire[k - 1]) /\ (wire[k - 1].batch \/ store.base <= wire[k].firstIndex)
    BY <2>1, <2>3 DEF LinesOrder
  <2>5. ~wire[k - 1].batch
    <3> DEFINE n == k - 1
    <3>1. n \in 1..Len(wire)
      BY <2>1, <2>3
    <3>2. Screen(wire[n])
      BY <2>4
    <3> HIDE DEF n
    <3>3. ScreenOrder(wire, n)
      BY <3>1, <3>2 DEF PagingInv, WireOK, OrderOK
    <3>4. wire[n].batch => n = 1 \/ (n = 2 /\ Ack(wire[1]))
      BY <3>3 DEF ScreenOrder
    <3>5. Len(wire) > 0
      BY <2>1
    <3>6. ~wire[n].batch
      BY <1>1, <1>2, <3>4, <3>5
    <3> QED
      BY <3>6 DEF n
  <2> QED
    BY <2>4, <2>5
<1> QED
  BY <1>1, <1>3, <1>4, <1>5

\* The trigger, on a page that may draw.
LEMMA Fetching ==
    ASSUME RingInv, PagingInv, FlushInBatch = FALSE, MayDraw,
           NEW f, SameAsk(f, fetch), f.inFlight = fetch.inFlight, NEW at \in Int,
           maybeFetchHistory(store, f, at),
           reader' \in Nat \cup {Following}, due' \in BOOLEAN,
           UNCHANGED <<vars, serverVars, live, wire, ghosts>>
    PROVE  PagingInv'
<1>1. CASE store' = store /\ up' = up /\ (fetch' = f \/ fetch' = [f EXCEPT !.demand = TRUE])
  <2>1. SameAsk(fetch', fetch)
    <3> DEFINE g == [f EXCEPT !.demand = TRUE]
    <3>1. SameAsk(g, fetch)
      BY DEF Fetches, SameAsk
    <3> HIDE DEF g
    <3>2. fetch' = f \/ fetch' = g
      BY <1>1 DEF g
    <3> QED
      BY <3>1, <3>2
  <2>2. UNCHANGED <<vars, serverVars, linkVars, ghosts>>
    BY <1>1 DEF linkVars
  <2>3. /\ Thinner(store', store) /\ StoreOK(store', committed)
        /\ store'.solicited = store.solicited
    <3>1. IsStore(store) /\ StoreOK(store, committed)
      BY Parts DEF PagingInv
    <3> QED
      BY <1>1, <3>1 DEF Thinner
  <2>4. fetch'.inFlight = fetch.inFlight
    <3>1. [f EXCEPT !.demand = TRUE].inFlight = f.inFlight
      BY DEF SameAsk, Fetches
    <3> QED
      BY <1>1, <3>1
  <2> QED
    BY <2>1, <2>2, <2>3, <2>4, PageSteps
<1>2. ASSUME NEW gap \in absentEdgesNear(store, at), f.acked, f.inFlight = NoRequest, f.tokens > 0,
             NEW r, r = Request(store, gap, at, f.effMax),
             store' = [store EXCEPT !.solicited = r],
             fetch' = [f EXCEPT !.inFlight = r, !.tokens = @ - 1],
             up' = Append(up, r)
      PROVE  PagingInv'
  <2>1. /\ committed' = committed /\ OldestIndex' = OldestIndex
        /\ answer' = answer /\ frame' = frame /\ clearing' = clearing
        /\ live' = live /\ wire' = wire
        /\ told' = told /\ doubt' = doubt /\ strays' = strays
    BY DEF vars, serverVars, ghosts, OldestIndex
  <2>2. /\ store.height > 0 /\ live /\ ~(Len(wire) > 0 /\ Ack(wire[1]))
        /\ \A k \in 1..Len(wire) : LiveLines(wire[k]) => store.base <= wire[k].firstIndex
    <3>1. fetch.acked
      BY <1>2 DEF SameAsk
    <3> QED
      BY <3>1, DrawnIsSettled
  <2>3. r \in Requests /\ RequestOK(r, store) /\ store.pagingFloor <= r.from
    <3>1. gap \in Gaps(store) \cup Frontier(store) /\ gap.end > store.pagingFloor
      BY <1>2 DEF absentEdgesNear
    <3>2. f.effMax \in 1..PageSize
      <4>1. f.effMax \in MinPage..PageSize
        BY DEF Fetches, SameAsk
      <4> QED
        BY <4>1, Constants
    <3>3. StoreOK(store, committed) /\ committed \in Nat /\ IsStore(store)
      BY Parts DEF PagingInv
    <3> DEFINE max == f.effMax
    <3>4. max \in 1..PageSize
      BY <3>2
    <3> HIDE DEF max
    <3>5. LET q == Request(store, gap, at, max)
          IN  q \in Requests /\ RequestOK(q, store) /\ store.pagingFloor <= q.from
      BY <2>2, <3>1, <3>3, <3>4, RequestIsSound
    <3> QED
      BY <1>2, <3>5 DEF max
  <2>4. r.from \in Nat /\ r.end \in Nat /\ r.from < r.end /\ r.end <= store.base
        /\ r.end <= r.from + PageSize
    BY <2>3 DEF Requests, RequestOK
  <2>5. /\ IsStore(store') /\ Held(store') = Held(store) /\ store'.browse = store.browse
        /\ store'.base = store.base /\ store'.height = store.height /\ store'.solicited = r
        /\ store'.pagingFloor = store.pagingFloor
        /\ store'.unconfirmedFrom = store.unconfirmedFrom
    BY <1>2, <2>3, Parts, SolicitedChanged
  <2>6. /\ fetch' \in Fetches /\ fetch'.inFlight = r /\ fetch'.acked = fetch.acked
        /\ fetch'.haveThrough = fetch.haveThrough
    <3> DEFINE n == f.tokens
               rest == n - 1
    <3>1. n \in 0..Burst /\ n > 0
      BY <1>2 DEF Fetches, SameAsk
    <3>2. rest \in 0..Burst
      BY <3>1, Constants
    <3> DEFINE g == [f EXCEPT !.inFlight = r]
               h == [g EXCEPT !.tokens = rest]
    <3>3. fetch' = h
      BY <1>2
    <3> HIDE DEF n, rest
    <3>4. /\ g \in Fetches /\ g.inFlight = r /\ g.acked = fetch.acked
          /\ g.haveThrough = fetch.haveThrough
      BY <2>3 DEF Fetches, SameAsk
    <3> HIDE DEF g
    <3>5. /\ h \in Fetches /\ h.inFlight = g.inFlight /\ h.acked = g.acked
          /\ h.haveThrough = g.haveThrough
      BY <3>2, <3>4 DEF Fetches
    <3> HIDE DEF h
    <3> QED
      BY <3>3, <3>4, <3>5
  <2>7. up' \in Seq(Requests) /\ Len(up') = Len(up) + 1 /\ Len(up) \in Nat
        /\ \A k \in 1..Len(up') : up'[k] = r \/ (k \in 1..Len(up) /\ up'[k] = up[k])
    <3>1. up \in Seq(Requests)
      BY Parts
    <3>2. up' = Append(up, r) /\ r \in Requests
      BY <1>2, <2>3
    <3> QED
      BY <3>1, <3>2
  <2>8. PagingTypes'
    BY <2>1, <2>5, <2>6, <2>7 DEF PagingInv, PagingTypes
  <2>9. StoreOK(store, committed)'
    <3>1. StoreOK(store, committed)
      BY DEF PagingInv
    <3>2. StoreOK(store', committed)
      BY <2>5, <3>1, SameRows DEF StoreOK
    <3> QED
      BY <2>1, <3>2
  <2>10. WireOK(wire, store, fetch, told, committed, OldestIndex)'
    <3>1. WireOK(wire, store, fetch, told, committed, OldestIndex)
      BY DEF PagingInv
    <3>2. \A k \in 1..Len(wire) : LiveLines(wire[k]) => fetch'.inFlight.end <= wire[k].firstIndex
      <4> SUFFICES ASSUME NEW k \in 1..Len(wire), LiveLines(wire[k])
                   PROVE  r.end <= wire[k].firstIndex
        BY <2>6
      <4>1. wire[k].firstIndex \in Nat /\ store.base <= wire[k].firstIndex
        <5>1. wire[k] \in Frames
          BY Parts
        <5> QED
          BY <2>2, <5>1, Kinds
      <4>2. store.base \in Nat
        BY Parts
      <4> QED
        BY <2>4, <4>1, <4>2
    <3>3. WireOK(wire, store', fetch', told, committed, OldestIndex)
      <4>3. /\ committed \in Nat /\ OldestIndex \in Nat /\ wire \in Seq(Frames)
            /\ IsStore(store) /\ told.below \in Nat
        BY Parts
      <4>4. committed <= committed /\ OldestIndex <= OldestIndex
        BY <4>3
      <4> DEFINE s2 == store'
                 f2 == fetch'
      <4>1. /\ IsStore(s2) /\ s2.base = store.base /\ s2.height = store.height
            /\ s2.browse \subseteq store.browse
            /\ \A k \in 1..Len(wire) : LiveLines(wire[k]) => f2.inFlight.end <= wire[k].firstIndex
        BY <2>5, <3>2
      <4> HIDE DEF s2, f2
      <4>2. WireOK(wire, s2, f2, told, committed, OldestIndex)
        BY <3>1, <4>1, <4>3, <4>4, WireStays, Zenon
      <4> QED
        BY <4>2 DEF s2, f2
    <3> QED
      BY <2>1, <3>3
  <2>11. AckOK(wire, fetch, up, answer, told, committed, OldestIndex)'
    BY <2>1, <2>2 DEF AckOK
  <2>12. BuiltOK(frame, wire, store, told, committed, OldestIndex)'
    <3> DEFINE s2 == store'
    <3>1. s2.base = store.base /\ s2.browse \subseteq store.browse
      BY <2>5
    <3> HIDE DEF s2
    <3>2. BuiltOK(frame, wire, store, told, committed, OldestIndex) /\ OldestIndex \in Nat
      BY Parts DEF PagingInv
    <3>3. BuiltOK(frame, wire, s2, told, committed, OldestIndex)
      BY <3>1, <3>2, BuiltStays
    <3> QED
      BY <2>1, <3>3 DEF s2
  <2>13. RequestsOK(store, fetch, up, answer, told, OldestIndex)'
    <3>1. RequestsOK(store, fetch, up, answer, told, OldestIndex)
      BY DEF PagingInv
    <3>2. told.below <= store.pagingFloor
      BY DEF PagingInv, FloorsOK
    <3>3. told.below <= r.from
      <4>1. told.below \in Nat /\ store.pagingFloor \in Nat
        BY Parts
      <4> QED
        BY <2>3, <2>4, <3>2, <4>1
    <3>4. \A k \in 1..Len(up') : RequestOK(up'[k], store')
      <4>1. RequestOK(r, store')
        BY <2>3, <2>5 DEF RequestOK
      <4>2. \A k \in 1..Len(up) : RequestOK(up[k], store')
        BY <2>5, <3>1 DEF RequestsOK, RequestOK
      <4> QED
        BY <2>7, <4>1, <4>2
    <3>5. /\ Len(answer) <= 1
          /\ \A k \in 1..Len(answer) : /\ Reply(answer[k]) /\ ~answer[k].batch
                                       /\ ReplyOK(answer[k], store', OldestIndex)
      BY <2>5, <3>1 DEF RequestsOK, ReplyOK
    <3>6. fetch'.inFlight.end <= store'.base /\ fetch'.inFlight.end <= fetch'.inFlight.from + PageSize
      BY <2>4, <2>5, <2>6
    <3>7. RequestsOK(store', fetch', up', answer, told, OldestIndex)
      BY <2>5, <2>6, <3>3, <3>4, <3>5, <3>6 DEF RequestsOK
    <3> QED
      BY <2>1, <3>7
  <2>14. SocketOK(live, wire, store, fetch, up, answer, frame)'
    BY <2>1, <2>2, <2>5 DEF SocketOK
  <2>15. FloorsOK(store, told, clearing, doubt, strays, OldestIndex)'
    <3>1. FloorsOK(store, told, clearing, doubt, strays, OldestIndex)
      BY DEF PagingInv
    <3>2. FloorsOK(store', told, clearing, doubt, strays, OldestIndex)
      BY <2>5, <3>1 DEF FloorsOK
    <3> QED
      BY <2>1, <3>2
  <2> QED
    BY <2>8, <2>9, <2>10, <2>11, <2>12, <2>13, <2>14, <2>15 DEF PagingInv
<1>3. ASSUME ~(store' = store /\ up' = up /\ (fetch' = f \/ fetch' = [f EXCEPT !.demand = TRUE]))
      PROVE  \E gap \in absentEdgesNear(store, at) :
                /\ f.acked /\ f.inFlight = NoRequest /\ ~(f.tokens = 0)
                /\ store' = [store EXCEPT !.solicited = Request(store, gap, at, f.effMax)]
                /\ fetch' = [f EXCEPT !.inFlight = Request(store, gap, at, f.effMax),
                                      !.tokens = @ - 1]
                /\ up' = Append(up, Request(store, gap, at, f.effMax))
  <2>1. Nearest(absentEdgesNear(store, at), at) \subseteq absentEdgesNear(store, at)
    BY DEF Nearest
  <2>2. f.tokens > 0 => ~(f.tokens = 0)
    OBVIOUS
  <2> QED
    BY <1>3, <2>1, <2>2, Zenon DEF maybeFetchHistory
<1>4. f.tokens = 0 \/ f.tokens > 0
  BY DEF Fetches, SameAsk
<1> QED
  BY <1>1, <1>2, <1>3, <1>4

\* The reader moves.
LEMMA ScrollStep ==
    ASSUME RingInv, PagingInv, FlushInBatch = FALSE, NEW at, Scroll(at)
    PROVE  PagingInv'
<1>1. at \in Nat \cup {Following}
  BY Parts DEF Scroll
<1> DEFINE view == IF at = Following THEN store.base ELSE at
<1>2. view \in Int
  BY <1>1, Parts
<1>3. /\ MayDraw /\ maybeFetchHistory(store, fetch, view) /\ reader' = at
      /\ UNCHANGED <<vars, serverVars, live, wire, ghosts>> /\ due' = due
  BY DEF Scroll
<1>4. due' \in BOOLEAN
  BY <1>3 DEF PagingInv, PagingTypes
<1>5. SameAsk(fetch, fetch)
  BY Parts DEF SameAsk
<1> HIDE DEF view
<1> QED
  BY <1>1, <1>2, <1>3, <1>4, <1>5, Fetching

\* A frame is drawn.
LEMMA FlushStep ==
    ASSUME RingInv, PagingInv, FlushInBatch = FALSE, flushRender
    PROVE  PagingInv'
<1> DEFINE left == {i \in Held(store) : reader <= i /\ i < store.base}
           view == IF reader' = Following THEN store.base ELSE reader'
<1>1. /\ MayDraw /\ maybeFetchHistory(store, fetch, view) /\ due' = FALSE
      /\ reader' = IF reader = Following \/ left = {} THEN Following ELSE Min(left)
      /\ UNCHANGED <<vars, serverVars, live, wire, ghosts>>
  BY DEF flushRender
<1>2. left # {} => Min(left) \in Nat
  <2>1. left \in SUBSET Held(store)
    OBVIOUS
  <2> HIDE DEF left
  <2>2. left # {} => Min(left) \in left /\ left \subseteq Nat
    BY <2>1, Parts, StoreSets
  <2> QED
    BY <2>2
<1> HIDE DEF left
<1>3. reader' \in Nat \cup {Following}
  BY <1>1, <1>2
<1>4. view \in Int
  BY <1>3, Parts
<1>5. SameAsk(fetch, fetch)
  BY Parts DEF SameAsk
<1>6. due' \in BOOLEAN
  BY <1>1
<1> HIDE DEF view
<1> QED
  BY <1>1, <1>3, <1>4, <1>5, <1>6, Fetching

\* The demand that was denied is tried again.
LEMMA DemandStep ==
    ASSUME RingInv, PagingInv, FlushInBatch = FALSE, demandTimer
    PROVE  PagingInv'
<1> DEFINE f == [fetch EXCEPT !.demand = FALSE]
<1>1. /\ MayDraw /\ maybeFetchHistory(store, f, viewportAbs)
      /\ reader' = reader /\ due' = due /\ UNCHANGED <<vars, serverVars, live, wire, ghosts>>
  BY DEF demandTimer
<1>2. viewportAbs \in Int
  BY Parts DEF viewportAbs
<1>3. fetch \in Fetches
  BY Parts
<1>4. SameAsk(f, fetch) /\ f.inFlight = fetch.inFlight
  BY <1>3 DEF SameAsk, Fetches
<1>5. reader' \in Nat \cup {Following} /\ due' \in BOOLEAN
  BY <1>1 DEF PagingInv, PagingTypes
<1> HIDE DEF f
<1> QED
  BY <1>1, <1>2, <1>4, <1>5, Fetching

\* A step that leaves the store alone is one that brings the page nothing.
LEMMA StoreKept ==
    ASSUME RingInv, PagingInv, store' = store
    PROVE  /\ Thinner(store', store) /\ StoreOK(store', committed)
           /\ store'.solicited = store.solicited
           /\ reader \in Nat \cup {Following} /\ due \in BOOLEAN
<1>1. IsStore(store) /\ StoreOK(store, committed)
  BY DEF PagingInv, PagingTypes
<1>2. reader \in Nat \cup {Following} /\ due \in BOOLEAN
  BY DEF PagingInv, PagingTypes
<1> QED
  BY <1>1, <1>2 DEF Thinner

\* A token comes back.
LEMMA RefillStep ==
    ASSUME RingInv, PagingInv, RefillToken
    PROVE  PagingInv'
<1> DEFINE n == fetch.tokens + 1
<1>1. fetch \in Fetches
  BY Parts
<1>2. n \in 0..Burst
  <2>1. fetch.tokens \in 0..Burst /\ fetch.tokens < Burst
    BY <1>1 DEF RefillToken, Fetches
  <2> QED
    BY <2>1, Constants
<1> HIDE DEF n
<1>3. fetch' = [fetch EXCEPT !.tokens = n]
  BY DEF RefillToken, n
<1>4. SameAsk(fetch', fetch) /\ fetch'.inFlight = fetch.inFlight
  BY <1>1, <1>2, <1>3 DEF SameAsk, Fetches
<1>5. /\ UNCHANGED <<vars, serverVars, linkVars, ghosts>>
      /\ store' = store /\ reader' = reader /\ due' = due
  BY DEF RefillToken
<1> QED
  BY <1>4, <1>5, StoreKept, PageSteps

\* The page gives an answer up.
LEMMA TimeoutStep ==
    ASSUME RingInv, PagingInv, onHistoryDataTimeout
    PROVE  PagingInv'
<1> DEFINE half == Greater(MinPage, Cardinality(Span(fetch.inFlight)) \div 2)
<1>1. fetch \in Fetches /\ fetch.inFlight \in Requests /\ IsStore(store)
  BY Parts
<1>2. NoRequest \in Requests
  BY DEF NoRequest, Requests
<1>3. half \in MinPage..PageSize
  <2> DEFINE n == Cardinality(Span(fetch.inFlight))
  <2>1. n \in Nat /\ n <= PageSize
    <3> DEFINE r == fetch.inFlight
    <3>1. r.end <= r.from + PageSize
      BY DEF PagingInv, RequestsOK
    <3>2. r \in Requests
      BY <1>1
    <3> HIDE DEF r
    <3>3. /\ r.from \in Nat /\ r.end \in Nat
          /\ Cardinality(Span(r)) = IF r.from < r.end THEN r.end - r.from ELSE 0
      BY <3>2, SpanLength
    <3>4. Cardinality(Span(r)) \in Nat /\ Cardinality(Span(r)) <= PageSize
      BY <3>1, <3>3, Constants
    <3> QED
      BY <3>4 DEF r
  <2> HIDE DEF n
  <2>2. n \div 2 \in Int /\ n \div 2 <= PageSize
    BY <2>1, Constants
  <2> QED
    BY <2>2, Constants DEF n, Greater
<1> HIDE DEF half
<1>4. fetch' = [fetch EXCEPT !.inFlight = NoRequest, !.demand = TRUE, !.effMax = MinPage,
                             !.ceiling = half]
  BY DEF onHistoryDataTimeout, half
<1>5. MinPage \in MinPage..PageSize
  BY Constants
<1>6. SameAsk(fetch', fetch)
  BY <1>1, <1>2, <1>3, <1>4, <1>5 DEF SameAsk, Fetches
<1>7. store' = [store EXCEPT !.solicited = NoRequest]
  BY DEF onHistoryDataTimeout
<1>8. /\ IsStore(store') /\ Held(store') = Held(store) /\ store'.browse = store.browse
      /\ store'.base = store.base /\ store'.height = store.height
      /\ store'.solicited = NoRequest /\ store'.pagingFloor = store.pagingFloor
      /\ store'.unconfirmedFrom = store.unconfirmedFrom
  BY <1>1, <1>2, <1>7, SolicitedChanged
<1>9. StoreOK(store', committed)
  <2>1. StoreOK(store, committed)
    BY DEF PagingInv
  <2> QED
    BY <1>8, <2>1, SameRows DEF StoreOK
<1>10. Thinner(store', store)
  BY <1>8 DEF Thinner
<1>11. UNCHANGED <<vars, serverVars, linkVars, ghosts>> /\ reader' = reader /\ due' = due
  BY DEF onHistoryDataTimeout
<1>12. reader' \in Nat \cup {Following} /\ due' \in BOOLEAN
  BY <1>11 DEF PagingInv, PagingTypes
<1> QED
  BY <1>6, <1>8, <1>9, <1>10, <1>11, <1>12, PageSteps

\* The cache is dropped.
LEMMA DropStep ==
    ASSUME RingInv, PagingInv, dropBrowseCache
    PROVE  PagingInv'
<1>1. fetch \in Fetches /\ IsStore(store)
  BY Parts
<1>2. store' = Forget(store, store.browse)
  BY DEF dropBrowseCache
<1>3. /\ IsStore(store') /\ SameWindow(store', store)
      /\ Held(store') = Held(store) \ store.browse /\ store'.browse = {}
  BY <1>1, <1>2, ForgetThins
<1>4. StoreOK(store', committed)
  <2>1. StoreOK(store, committed)
    BY DEF PagingInv
  <2>2. TailRows(store') = TailRows(store) /\ tailBound(store') = tailBound(store)
        /\ Window(store') = Window(store)
    BY <1>3 DEF TailRows, tailBound, Window, SameWindow
  <2>3. Capped(store')
    BY <2>1, <2>2 DEF StoreOK, Capped
  <2>4. Cardinality(store'.browse) <= CacheBound
    BY <1>3, FS_EmptySet, CacheBoundIs
  <2>5. store.height > 0 => \A i \in Window(store) : i \notin store.browse
    BY <1>1, <2>1, StoreSets DEF StoreOK
  <2> QED
    BY <1>3, <2>1, <2>2, <2>3, <2>4, <2>5 DEF StoreOK, SameWindow
<1>5. Thinner(store', store) /\ store'.solicited = store.solicited
  BY <1>3 DEF Thinner, SameWindow
<1>6. /\ UNCHANGED <<vars, serverVars, linkVars, ghosts>> /\ reader' = reader /\ due' = TRUE
      /\ fetch' = fetch
  BY DEF dropBrowseCache
<1>7. reader' \in Nat \cup {Following} /\ due' \in BOOLEAN
  BY <1>6 DEF PagingInv, PagingTypes
<1>8. SameAsk(fetch', fetch) /\ fetch'.inFlight = fetch.inFlight
  BY <1>1, <1>6 DEF SameAsk
<1> QED
  BY <1>4, <1>5, <1>6, <1>7, <1>8, PageSteps

-----------------------------------------------------------------------------
(* The server's steps.                                                       *)

\* The ring as it was and as it is.
LEMMA RingParts ==
    RingInv /\ [Next]_vars =>
        /\ committed \in Nat /\ committed' \in Nat /\ committed <= committed'
        /\ OldestIndex \in Nat /\ OldestIndex' \in Nat /\ OldestIndex <= OldestIndex'
        /\ OldestIndex <= committed /\ OldestIndex' <= committed'
BY RingGrows

\* The ring moves on, and a frame may be built of it.
LEMMA ServerSteps ==
    ASSUME RingInv, PagingInv, NEW com \in Nat, NEW old \in Nat,
           committed <= com, OldestIndex <= old, com = committed', old = OldestIndex',
           NEW fr \in Seq(Frames), fr = frame', NEW cl \in Nat \cup {NoErasure}, cl = clearing',
           cl <= old, ~live => fr = <<>>, BuiltOK(fr, wire, store, told, com, old),
           UNCHANGED <<pageVars, answer, linkVars, ghosts>>
    PROVE  PagingInv'
<1>1. /\ store' = store /\ fetch' = fetch /\ reader' = reader /\ due' = due /\ answer' = answer
      /\ live' = live /\ up' = up /\ wire' = wire
      /\ told' = told /\ doubt' = doubt /\ strays' = strays
  BY DEF pageVars, linkVars, ghosts
<1>2. PagingTypes'
  BY <1>1 DEF PagingInv, PagingTypes
<1>3. /\ committed \in Nat /\ OldestIndex \in Nat /\ IsStore(store) /\ wire \in Seq(Frames)
      /\ told.below \in Nat /\ told.base \in Nat /\ clearing \in Int
      /\ up \in Seq(Requests) /\ answer \in Seq(ScrollFrames)
      /\ fetch.inFlight \in Requests /\ fetch.haveThrough \in Int
  BY Parts
<1>4. StoreOK(store, com)
  <2>1. StoreOK(store, committed)
    BY DEF PagingInv
  <2> QED
    BY <1>3, <2>1, StoreStays
<1>5. WireOK(wire, store, fetch, told, com, old)
  <2>1. \A k \in 1..Len(wire) : LiveLines(wire[k]) => fetch.inFlight.end <= wire[k].firstIndex
    BY LiveAreNoReplies
  <2>2. WireOK(wire, store, fetch, told, committed, OldestIndex)
    BY DEF PagingInv
  <2>3. store.browse \subseteq store.browse
    OBVIOUS
  <2> QED
    BY <1>3, <2>1, <2>2, <2>3, WireStays
<1>6. AckOK(wire, fetch, up, answer, told, com, old)
  <2>1. AckOK(wire, fetch, up, answer, told, committed, OldestIndex)
    BY DEF PagingInv
  <2>2. fetch.inFlight \in {fetch.inFlight, NoRequest}
    OBVIOUS
  <2> QED
    BY <1>3, <2>1, <2>2, AckStays
<1>7. RequestsOK(store, fetch, up, answer, told, old)
  <2>1. RequestsOK(store, fetch, up, answer, told, OldestIndex)
    BY DEF PagingInv
  <2>2. store.base <= store.base /\ fetch.inFlight \in {fetch.inFlight, NoRequest}
    BY Parts
  <2> QED
    BY <1>3, <2>1, <2>2, RequestsStay
<1>8. SocketOK(live, wire, store, fetch, up, answer, fr)
  BY DEF PagingInv, SocketOK
<1>9. FloorsOK(store, told, cl, doubt, strays, old)
  <2>1. FloorsOK(store, told, clearing, doubt, strays, OldestIndex)
    BY DEF PagingInv
  <2>2. store.pagingFloor \in Nat
    BY Parts
  <2> QED
    BY <1>3, <2>1, <2>2 DEF FloorsOK, Greater
<1> QED
  BY <1>1, <1>2, <1>4, <1>5, <1>6, <1>7, <1>8, <1>9 DEF PagingInv

\* A screen that is built of the ring as it is.
LEMMA ScreenBuilt ==
    ASSUME NEW base \in Nat, NEW erased \in Nat \cup {NoErasure},
           NEW b \in BOOLEAN
    PROVE  LET m == ScreenFrame(base, erased, b)
           IN  /\ m \in ScreenFrames /\ m \in Frames /\ Screen(m) /\ ~Ack(m) /\ ~LiveLines(m)
               /\ ~Reply(m) /\ m.base = base
               /\ m.erasedBelow = erased /\ (m.batch <=> b) /\ m.answers = NoRequest
               /\ m.scrollbackCleared <=> erased # NoErasure
<1> DEFINE m == ScreenFrame(base, erased, b)
<1>1. /\ m \in ScreenFrames /\ m.base = base /\ m.erasedBelow = erased /\ m.batch = b
      /\ m.answers = NoRequest /\ m.type = "screen"
      /\ m.scrollbackCleared <=> erased # NoErasure
  BY DEF ScreenFrame, ScreenFrames
<1> HIDE DEF m
<1> QED
  BY <1>1 DEF m, Frames, Screen, Ack, LiveLines, Reply

\* And the lines that go with it.
LEMMA LinesBuilt ==
    ASSUME NEW first \in Nat, NEW lines \in Seq(Lines), NEW r \in Requests, NEW b \in BOOLEAN
    PROVE  LET m == ScrollFrame(first, lines, r, b)
           IN  /\ m \in ScrollFrames /\ m \in Frames /\ ~Screen(m) /\ ~Ack(m)
               /\ m.firstIndex = first /\ m.lines = lines /\ m.answers = r /\ (m.batch <=> b)
               /\ m.type = "scroll"
<1> DEFINE m == ScrollFrame(first, lines, r, b)
<1>1. /\ m \in ScrollFrames /\ m.firstIndex = first /\ m.lines = lines /\ m.answers = r
      /\ m.batch = b /\ m.type = "scroll"
  BY DEF ScrollFrame, ScrollFrames
<1> HIDE DEF m
<1> QED
  BY <1>1 DEF m, Frames, Screen, Ack

\* A screen of the ring as it is suits the page, whatever else is under way.
LEMMA ScreenSuits ==
    ASSUME RingInv, PagingInv, NEW com \in Nat, NEW old \in Nat,
           committed <= com, OldestIndex <= old, old <= com,
           NEW m \in ScreenFrames, m.base = com, m.erasedBelow \in Nat \cup {NoErasure},
           m.erasedBelow <= OldestIndex,
           m.scrollbackCleared <=> m.erasedBelow # NoErasure
    PROVE  ScreenOK(m, store, told, com, old)
<1>1. /\ committed \in Nat /\ OldestIndex \in Nat /\ OldestIndex <= committed
      /\ store.base \in Nat /\ store.base <= committed /\ told.below \in Nat
      /\ store.browse \subseteq Nat
  BY Parts
<1>2. /\ \A i \in store.browse : i < committed
      /\ told.below <= OldestIndex
  BY DEF PagingInv, StoreOK, FloorsOK
<1>3. m.erasedBelow \in Int
  BY DEF NoErasure
<1>4. \A i \in store.browse : i < com
  BY <1>1, <1>2
<1>5. /\ com <= com /\ store.base <= com /\ told.below <= com /\ m.erasedBelow <= com
      /\ m.erasedBelow <= old
  BY <1>1, <1>2, <1>3
<1> QED
  BY <1>4, <1>5 DEF ScreenOK

\* A line scrolls off.
LEMMA ScrollLineStep ==
    ASSUME RingInv, PagingInv, ScrollLine
    PROVE  PagingInv'
<1> DEFINE com == committed'
           old == OldestIndex'
<1>1. /\ frame = None
      /\ AppendGrowing(Row) \/ AppendEvicting(Row)
      /\ IF ~live THEN frame' = frame /\ clearing' = clearing
         ELSE /\ frame' = <<ScreenFrame(com, clearing, FALSE),
                            ScrollFrame(committed, <<Row>>, NoRequest, TRUE)>>
              /\ clearing' = NoErasure
      /\ UNCHANGED <<pageVars, answer, linkVars, ghosts>>
  BY DEF ScrollLine
<1>2. Row \in Lines /\ com = committed + 1
  <2>1. capacity > 0 /\ committed' = committed + 1
    BY <1>1 DEF AppendGrowing, AppendEvicting, Commit
  <2> QED
    BY <2>1, RowIsALine
<1>3. [Next]_vars
  BY <1>1, <1>2 DEF Next
<1>4. /\ committed \in Nat /\ com \in Nat /\ committed <= com
      /\ OldestIndex \in Nat /\ old \in Nat /\ OldestIndex <= old
      /\ OldestIndex <= committed /\ old <= com
  BY <1>3, RingParts
<1>5. clearing \in Nat \cup {NoErasure} /\ clearing <= OldestIndex /\ clearing \in Int
  BY Parts DEF PagingInv, PagingTypes, FloorsOK
<1> DEFINE fr == frame'
           cl == clearing'
<1>6. CASE ~live
  <2>1. fr = <<>> /\ cl = clearing
    BY <1>1, <1>6 DEF None
  <2>2. /\ fr \in Seq(Frames) /\ cl \in Nat \cup {NoErasure} /\ cl <= old
        /\ BuiltOK(fr, wire, store, told, com, old)
    BY <1>4, <1>5, <2>1 DEF BuiltOK
  <2> HIDE DEF fr, cl
  <2> QED
    BY <1>1, <1>4, <2>1, <2>2, ServerSteps DEF fr, cl
<1>7. CASE live
  <2> DEFINE m == ScreenFrame(com, clearing, FALSE)
             lines == <<Row>>
             n == ScrollFrame(committed, lines, NoRequest, TRUE)
  <2>1. fr = <<m, n>> /\ cl = NoErasure
    BY <1>1, <1>7
  <2> HIDE DEF com, old
  <2>2. /\ m \in ScreenFrames /\ m \in Frames /\ m.base = com /\ m.erasedBelow = clearing
        /\ ~m.batch /\ (m.scrollbackCleared <=> m.erasedBelow # NoErasure)
    <3>1. /\ m.base = com /\ m.erasedBelow = clearing /\ ~m.batch
          /\ (m.scrollbackCleared <=> m.erasedBelow # NoErasure)
      BY DEF ScreenFrame
    <3>2. m \in ScreenFrames
      BY <1>4, <1>5 DEF ScreenFrame, ScreenFrames
    <3> HIDE DEF m
    <3> QED
      BY <3>1, <3>2 DEF Frames
  <2>3. lines \in Seq(Lines) /\ Len(lines) = 1
    BY <1>2
  <2> HIDE DEF lines
  <2>4. NoRequest \in Requests
    BY DEF NoRequest, Requests
  <2>5. /\ n \in ScrollFrames /\ n \in Frames /\ n.firstIndex = committed
        /\ Len(n.lines) = 1 /\ n.answers = NoRequest /\ n.batch
    <3>1. /\ n.firstIndex = committed /\ n.lines = lines /\ n.answers = NoRequest
          /\ n.batch
      BY DEF ScrollFrame
    <3>2. n \in ScrollFrames
      BY <1>4, <2>3, <2>4 DEF ScrollFrame, ScrollFrames
    <3> HIDE DEF n
    <3> QED
      BY <2>3, <3>1, <3>2 DEF Frames
  <2> HIDE DEF m, n
  <2>6. fr \in Seq(Frames) /\ Len(fr) = 2 /\ fr[1] = m /\ fr[2] = n
    BY <2>1, <2>2, <2>5
  <2>7. ScreenOK(m, store, told, com, old)
    BY <1>4, <1>5, <2>2, ScreenSuits
  <2>8. BuiltOK(fr, wire, store, told, com, old)
    <3>1. com - 1 = committed
      BY <1>2, <1>4
    <3>2. told.below <= committed /\ store.base <= committed
      <4>1. told.below <= OldestIndex /\ told.below \in Nat
        BY Parts DEF PagingInv, FloorsOK
      <4> QED
        BY <1>4, <4>1, Parts
    <3>3. m.erasedBelow <= committed
      BY <1>4, <1>5, <2>2
    <3>4. \A j \in 1..Len(wire) : Screen(wire[j]) => wire[j].base <= committed
      BY DEF PagingInv, WireOK, FrameOK, ScreenOK
    <3>5. 2 \in 1..2
      OBVIOUS
    <3> HIDE DEF fr
    <3> QED
      BY <2>2, <2>5, <2>6, <2>7, <3>1, <3>2, <3>3, <3>4, <3>5 DEF BuiltOK
  <2>9. cl \in Nat \cup {NoErasure} /\ cl <= old
    BY <1>4, <2>1 DEF NoErasure
  <2> HIDE DEF fr, cl
  <2> QED
    BY <1>1, <1>4, <1>7, <2>6, <2>8, <2>9, ServerSteps DEF fr, cl, com, old
<1> QED
  BY <1>6, <1>7

\* The screen is sent again, for what was erased.
LEMMA RedrawStep ==
    ASSUME RingInv, PagingInv, RedrawScreen
    PROVE  PagingInv'
<1> DEFINE m == ScreenFrame(committed, clearing, FALSE)
           fr == frame'
           cl == clearing'
<1>1. /\ live /\ fr = <<m>> /\ cl = NoErasure
      /\ committed' = committed /\ OldestIndex' = OldestIndex
      /\ UNCHANGED <<pageVars, answer, linkVars, ghosts>>
  BY DEF RedrawScreen, vars, OldestIndex
<1>2. /\ committed \in Nat /\ OldestIndex \in Nat /\ OldestIndex <= committed
      /\ clearing \in Nat \cup {NoErasure} /\ clearing <= OldestIndex
  BY Parts DEF PagingInv, PagingTypes, FloorsOK
<1>3. /\ m \in ScreenFrames /\ m \in Frames /\ m.base = committed /\ m.erasedBelow = clearing
      /\ ~m.batch /\ (m.scrollbackCleared <=> m.erasedBelow # NoErasure)
  <2>1. FALSE \in BOOLEAN
    OBVIOUS
  <2> QED
    BY <1>2, <2>1, ScreenBuilt
<1> HIDE DEF m
<1>4. fr \in Seq(Frames) /\ Len(fr) = 1 /\ fr[1] = m
  BY <1>1, <1>3
<1>5. committed <= committed /\ OldestIndex <= OldestIndex
  BY <1>2
<1>6. ScreenOK(m, store, told, committed, OldestIndex)
  BY <1>2, <1>3, <1>5, ScreenSuits
<1>7. BuiltOK(fr, wire, store, told, committed, OldestIndex)
  <2>1. 1 \in 1..2 /\ 1 # 2
    OBVIOUS
  <2> HIDE DEF fr
  <2> QED
    BY <1>3, <1>4, <1>6, <2>1 DEF BuiltOK
<1>8. cl \in Nat \cup {NoErasure} /\ cl <= OldestIndex
  BY <1>1, <1>2 DEF NoErasure
<1> HIDE DEF fr, cl
<1> QED
  BY <1>1, <1>2, <1>4, <1>5, <1>7, <1>8, ServerSteps DEF fr, cl

\* ED 3.
LEMMA EraseStep ==
    ASSUME RingInv, PagingInv, EraseSavedLines
    PROVE  PagingInv'
<1> DEFINE com == committed'
           old == OldestIndex'
           fr == frame'
           cl == clearing'
<1>1. /\ Clear /\ cl = committed /\ fr = frame
      /\ UNCHANGED <<pageVars, answer, linkVars, ghosts>>
  BY DEF EraseSavedLines
<1>2. [Next]_vars
  BY <1>1 DEF Next
<1>3. /\ committed \in Nat /\ com \in Nat /\ committed <= com
      /\ OldestIndex \in Nat /\ old \in Nat /\ OldestIndex <= old
  BY <1>2, RingParts
<1>4. com = committed /\ old = committed
  <2>1. committed' = committed /\ count' = 0
    BY <1>1 DEF Clear
  <2> QED
    BY <1>3, <2>1 DEF OldestIndex
<1> HIDE DEF com, old
<1>5. fr \in Seq(Frames) /\ cl \in Nat \cup {NoErasure} /\ cl <= old
  BY <1>1, <1>3, <1>4, Parts
<1>6. ~live => fr = <<>>
  BY <1>1 DEF PagingInv, SocketOK
<1>7. BuiltOK(fr, wire, store, told, com, old)
  <2>1. BuiltOK(frame, wire, store, told, committed, OldestIndex)
    BY DEF PagingInv
  <2>2. store.browse \subseteq store.browse
    OBVIOUS
  <2>3. BuiltOK(frame, wire, store, told, committed, old)
    BY <1>3, <2>1, <2>2, BuiltStays
  <2> QED
    BY <1>1, <1>4, <2>3
<1> HIDE DEF fr, cl
<1> QED
  BY <1>1, <1>3, <1>5, <1>6, <1>7, ServerSteps DEF fr, cl, com, old

\* Something is written to the socket.
LEMMA WriteSteps ==
    ASSUME RingInv, PagingInv, live, NEW x \in Seq(Frames), NEW a, NEW fr,
           NEW y, y = wire \o x, y = wire', a = answer', fr = frame', Len(x) > 0,
           a \in {answer, <<>>}, fr \in {frame, <<>>},
           \A k \in 1..Len(x) :
                /\ FrameOK(x[k], store, fetch, told, committed, OldestIndex)
                /\ OrderOK(y, Len(wire) + k, store) /\ ~Ack(x[k]),
           Len(wire) > 0 /\ Ack(wire[1]) =>
                \A k \in 1..Len(x) : x[k].answers = NoRequest
                                     /\ (Screen(x[k]) => fetch.haveThrough < x[k].base),
           BuiltOK(fr, y, store, told, committed, OldestIndex),
           UNCHANGED <<vars, pageVars, clearing, live, up, ghosts>>
    PROVE  PagingInv'
<1>1. /\ committed' = committed /\ OldestIndex' = OldestIndex
      /\ store' = store /\ fetch' = fetch /\ reader' = reader /\ due' = due
      /\ live' = live /\ up' = up /\ clearing' = clearing
      /\ told' = told /\ doubt' = doubt /\ strays' = strays
  BY DEF vars, pageVars, ghosts, OldestIndex
<1>2. wire \in Seq(Frames)
  BY Parts
<1>3. /\ y \in Seq(Frames) /\ Len(wire) \in Nat /\ Len(x) \in Nat /\ Len(y) = Len(wire) + Len(x)
      /\ \A k \in 1..Len(wire) : k \in 1..Len(y) /\ y[k] = wire[k]
      /\ \A k \in 1..Len(x) : Len(wire) + k \in 1..Len(y) /\ y[Len(wire) + k] = x[k]
      /\ \A k \in 1..Len(y) : k \in 1..Len(wire) \/ k - Len(wire) \in 1..Len(x)
  <2>1. IsJoin(y, wire, x)
    BY <1>2, Joined
  <2> QED
    BY <2>1 DEF IsJoin
<1>4. <<>> \in Seq(ScrollFrames) /\ <<>> \in Seq(Frames) /\ Len(<<>>) = 0
  OBVIOUS
<1>5. a \in Seq(ScrollFrames) /\ fr \in Seq(Frames)
  BY <1>4, Parts
<1>6. PagingTypes'
  BY <1>1, <1>3, <1>5 DEF PagingInv, PagingTypes
<1>7. StoreOK(store, committed)'
  BY <1>1 DEF PagingInv
<1>8. WireOK(y, store, fetch, told, committed, OldestIndex)
  <2>1. WireOK(wire, store, fetch, told, committed, OldestIndex)
    BY DEF PagingInv
  <2> QED
    BY <1>2, <2>1, WireGrows
<1>9. AckOK(y, fetch, up, a, told, committed, OldestIndex)
  <2> SUFFICES ASSUME Len(y) > 0, Ack(y[1])
               PROVE  AckOK(y, fetch, up, a, told, committed, OldestIndex)
    BY DEF AckOK
  <2>1. Len(wire) > 0
    <3> SUFFICES ASSUME Len(wire) = 0 PROVE FALSE
      BY <1>3
    <3>1. 1 \in 1..Len(x) /\ Len(wire) + 1 = 1
      BY <1>3
    <3>2. y[1] = x[1]
      BY <1>3, <3>1
    <3> QED
      BY <3>1, <3>2
  <2>2. 1 \in 1..Len(wire) /\ y[1] = wire[1]
    BY <1>3, <2>1
  <2>3. /\ ~fetch.acked /\ fetch.inFlight = NoRequest /\ up = <<>> /\ answer = <<>>
        /\ \A j \in 1..Len(wire) : wire[j].answers = NoRequest
        /\ told.below <= wire[1].oldest /\ wire[1].oldest <= OldestIndex
        /\ \A j \in 1..Len(wire) : Screen(wire[j]) => fetch.haveThrough < wire[j].base
        /\ fetch.haveThrough < committed
    BY <2>1, <2>2 DEF PagingInv, AckOK
  <2>4. \A k \in 1..Len(x) : x[k].answers = NoRequest
                             /\ (Screen(x[k]) => fetch.haveThrough < x[k].base)
    BY <2>1, <2>2
  <2>5. \A j \in 1..Len(y) : y[j].answers = NoRequest
                             /\ (Screen(y[j]) => fetch.haveThrough < y[j].base)
    <3> SUFFICES ASSUME NEW j \in 1..Len(y)
                 PROVE  y[j].answers = NoRequest
                        /\ (Screen(y[j]) => fetch.haveThrough < y[j].base)
      OBVIOUS
    <3>1. CASE j \in 1..Len(wire)
      BY <1>3, <2>3, <3>1
    <3>2. CASE j - Len(wire) \in 1..Len(x)
      <4> DEFINE i == j - Len(wire)
      <4>1. i \in 1..Len(x) /\ Len(wire) + i = j
        BY <1>3, <3>2
      <4> HIDE DEF i
      <4>2. y[j] = x[i]
        BY <1>3, <4>1
      <4> QED
        BY <2>4, <4>1, <4>2
    <3> QED
      BY <1>3, <3>1, <3>2
  <2>6. a = <<>>
    BY <2>3
  <2> QED
    BY <2>2, <2>3, <2>5, <2>6 DEF AckOK
<1>10. RequestsOK(store, fetch, up, a, told, OldestIndex)
  BY <1>4 DEF PagingInv, RequestsOK
<1>11. SocketOK(live, y, store, fetch, up, a, fr)
  <2>1. fetch.acked /\ store.height = 0 => Len(wire) > 0 /\ Screen(wire[1]) /\ wire[1].batch
    BY DEF PagingInv, SocketOK
  <2>2. Len(wire) > 0 => y[1] = wire[1] /\ Len(y) > 0
    BY <1>3
  <2> QED
    BY <2>1, <2>2 DEF SocketOK
<1>12. FloorsOK(store, told, clearing, doubt, strays, OldestIndex)
  BY DEF PagingInv
<1> QED
  BY <1>1, <1>6, <1>7, <1>8, <1>9, <1>10, <1>11, <1>12 DEF PagingInv

\* The frame is dispatched.
LEMMA DispatchStep ==
    ASSUME RingInv, PagingInv, DispatchFrame
    PROVE  PagingInv'
<1> DEFINE x == frame
           y == wire'
           a == answer'
           fr == frame'
           n == Len(wire)
<1>1. /\ x # <<>> /\ y = wire \o x /\ fr = <<>> /\ a = answer
      /\ UNCHANGED <<vars, pageVars, clearing, live, up, ghosts>>
  BY DEF DispatchFrame, None
<1>2. wire \in Seq(Frames) /\ x \in Seq(Frames)
  BY Parts
<1>3. live
  BY <1>1 DEF PagingInv, SocketOK
<1>4. /\ y \in Seq(Frames) /\ n \in Nat /\ Len(x) \in Nat /\ Len(y) = n + Len(x)
      /\ \A k \in 1..n : k \in 1..Len(y) /\ y[k] = wire[k]
      /\ \A k \in 1..Len(x) : n + k \in 1..Len(y) /\ y[n + k] = x[k]
      /\ \A k \in 1..Len(y) : k \in 1..n \/ k - n \in 1..Len(x)
  <2>1. IsJoin(y, wire, x)
    BY <1>1, <1>2, Joined
  <2> QED
    BY <2>1 DEF IsJoin
<1>5. /\ Len(x) \in 1..2 /\ x[1] \in ScreenFrames
      /\ ScreenOK(x[1], store, told, committed, OldestIndex)
      /\ x[1].base = committed /\ ~x[1].batch
      /\ Len(x) = 2 =>
            /\ x[2] \in ScrollFrames /\ x[2].answers = NoRequest /\ x[2].batch
            /\ x[2].firstIndex = committed - 1 /\ Len(x[2].lines) = 1
            /\ x[1].erasedBelow <= committed - 1 /\ told.below <= committed - 1
            /\ store.base <= committed - 1
            /\ \A j \in 1..n : Screen(wire[j]) => wire[j].base <= committed - 1
  BY <1>1 DEF PagingInv, BuiltOK
<1> HIDE DEF x, y, a, fr, n
<1>6. Screen(x[1]) /\ x[1] \in Frames /\ ~LiveLines(x[1]) /\ ~Reply(x[1]) /\ ~Ack(x[1])
  <2>1. x[1].type = "screen" /\ x[1] \in Frames
    BY <1>5 DEF ScreenFrames, Frames
  <2> QED
    BY <2>1 DEF Screen, LiveLines, Reply, Ack
<1>7. Len(x) = 2 => LiveLines(x[2]) /\ x[2] \in Frames /\ ~Screen(x[2]) /\ ~Reply(x[2])
                    /\ ~Ack(x[2])
  <2> SUFFICES ASSUME Len(x) = 2
               PROVE  LiveLines(x[2]) /\ x[2] \in Frames /\ ~Screen(x[2]) /\ ~Reply(x[2])
                      /\ ~Ack(x[2])
    OBVIOUS
  <2>1. x[2].type = "scroll" /\ x[2] \in Frames /\ x[2].answers = NoRequest
    BY <1>5 DEF ScrollFrames, Frames
  <2> QED
    BY <2>1 DEF Screen, LiveLines, Reply, Ack
<1>8. /\ committed \in Nat /\ OldestIndex \in Nat /\ fetch.inFlight.end \in Nat
      /\ store.base \in Nat
  BY Parts
<1>9. \A j \in 1..n : Screen(wire[j]) =>
        /\ wire[j].base <= committed /\ wire[j].erasedBelow <= wire[j].base
        /\ wire[j].base \in Nat /\ wire[j].erasedBelow \in Int
  <2> SUFFICES ASSUME NEW j \in 1..n, Screen(wire[j])
               PROVE  /\ wire[j].base <= committed /\ wire[j].erasedBelow <= wire[j].base
                      /\ wire[j].base \in Nat /\ wire[j].erasedBelow \in Int
    OBVIOUS
  <2>1. wire[j] \in Frames /\ j \in 1..Len(wire)
    BY <1>2 DEF n
  <2>2. wire[j].base <= committed /\ wire[j].erasedBelow <= wire[j].base
    BY <2>1 DEF PagingInv, WireOK, FrameOK, ScreenOK
  <2> QED
    BY <2>1, <2>2, Kinds
<1>10. \A j \in 1..Len(x) : j = 1 \/ (j = 2 /\ Len(x) = 2)
  <2>1. \A l : l \in 1..2 => \A j \in 1..l : j = 1 \/ (j = 2 /\ l = 2)
    OBVIOUS
  <2>2. Len(x) \in 1..2
    BY <1>5
  <2> QED
    BY <2>1, <2>2
<1>11. 1 \in 1..Len(x) /\ y[n + 1] = x[1]
  BY <1>4, <1>5
<1>12. OrderOK(y, n + 1, store)
  <2>1. \A j \in 1..((n + 1) - 1) : Screen(y[j]) => y[j].base <= x[1].base
    <3>1. (n + 1) - 1 = n
      BY <1>4
    <3>2. \A j \in 1..n : y[j] = wire[j]
      BY <1>4
    <3>3. \A j \in 1..n : Screen(wire[j]) => wire[j].base <= x[1].base
      BY <1>5, <1>9
    <3> QED
      BY <3>1, <3>2, <3>3
  <2>2. ScreenOrder(y, n + 1)
    BY <1>5, <1>11, <2>1 DEF ScreenOrder
  <2> QED
    BY <1>6, <1>11, <2>2 DEF OrderOK
<1>13. ASSUME Len(x) = 2 PROVE OrderOK(y, n + 2, store)
  <2>1. 2 \in 1..Len(x) /\ y[n + 2] = x[2]
    BY <1>4, <1>13
  <2>2. (n + 2) - 1 = n + 1 /\ n + 2 > 1 /\ n + 2 # 1
    BY <1>4
  <2>3. committed = (committed - 1) + 1
    BY <1>8
  <2>4. \A j \in 1..((n + 2) - 1) : Screen(y[j]) =>
            /\ y[j].erasedBelow <= committed - 1
            /\ j < (n + 2) - 1 => y[j].base <= committed - 1
    <3> SUFFICES ASSUME NEW j \in 1..(n + 1), Screen(y[j])
                 PROVE  /\ y[j].erasedBelow <= committed - 1
                        /\ j < n + 1 => y[j].base <= committed - 1
      BY <2>2
    <3>1. CASE j \in 1..n
      <4>1. y[j] = wire[j] /\ wire[j].base <= committed - 1
        BY <1>4, <1>5, <1>13, <3>1
      <4>2. wire[j].erasedBelow <= wire[j].base /\ wire[j].base \in Nat
            /\ wire[j].erasedBelow \in Int
        BY <1>9, <3>1, <4>1
      <4>3. wire[j].erasedBelow <= committed - 1
        BY <1>8, <4>1, <4>2
      <4> QED
        BY <4>1, <4>3
    <3>2. CASE j = n + 1
      <4>1. ~(j < n + 1)
        BY <1>4, <3>2
      <4>2. y[j].erasedBelow <= committed - 1
        BY <1>5, <1>11, <1>13, <3>2
      <4> QED
        BY <4>1, <4>2
    <3> QED
      BY <1>4, <3>1, <3>2
  <2>5. LinesOrder(y, n + 2, store)
    BY <1>5, <1>6, <1>11, <1>13, <2>1, <2>2, <2>3, <2>4 DEF LinesOrder
  <2> QED
    BY <1>7, <1>13, <2>1, <2>5 DEF OrderOK
<1>14. FrameOK(x[1], store, fetch, told, committed, OldestIndex)
  BY <1>5, <1>6 DEF FrameOK
<1>15. ASSUME Len(x) = 2 PROVE FrameOK(x[2], store, fetch, told, committed, OldestIndex)
  <2>1. fetch.inFlight.end <= store.base
    BY DEF PagingInv, RequestsOK
  <2>2. fetch.inFlight.end <= committed - 1 /\ (committed - 1) + 1 <= committed
    BY <1>5, <1>8, <1>15, <2>1
  <2>3. LiveOK(x[2], fetch, told, committed)
    BY <1>5, <1>15, <2>2 DEF LiveOK
  <2> QED
    BY <1>7, <1>15, <2>3 DEF FrameOK
<1>16. \A k \in 1..Len(x) :
            /\ FrameOK(x[k], store, fetch, told, committed, OldestIndex)
            /\ OrderOK(y, Len(wire) + k, store) /\ ~Ack(x[k])
  BY <1>6, <1>7, <1>10, <1>12, <1>13, <1>14, <1>15 DEF n
<1>17. Len(wire) > 0 /\ Ack(wire[1]) =>
            \A k \in 1..Len(x) : x[k].answers = NoRequest
                                 /\ (Screen(x[k]) => fetch.haveThrough < x[k].base)
  <2> SUFFICES ASSUME Len(wire) > 0, Ack(wire[1])
               PROVE  \A k \in 1..Len(x) : x[k].answers = NoRequest
                                 /\ (Screen(x[k]) => fetch.haveThrough < x[k].base)
    OBVIOUS
  <2>1. fetch.haveThrough < committed
    BY DEF PagingInv, AckOK
  <2>2. x[1].answers = NoRequest
    BY <1>6, Kinds
  <2> QED
    BY <1>5, <1>7, <1>10, <2>1, <2>2
<1>18. BuiltOK(fr, y, store, told, committed, OldestIndex)
  BY <1>1 DEF BuiltOK
<1>19. Len(x) > 0 /\ a \in {answer, <<>>} /\ fr \in {frame, <<>>}
  BY <1>1, <1>4, <1>5
<1>20. y = wire' /\ a = answer' /\ fr = frame'
  BY DEF y, a, fr
<1> QED
  BY <1>1, <1>2, <1>3, <1>16, <1>17, <1>18, <1>19, <1>20, WriteSteps

\* The reply is written.
LEMMA WriteStep ==
    ASSUME RingInv, PagingInv, WriteHistory
    PROVE  PagingInv'
<1> DEFINE x == answer
           y == wire'
           a == answer'
           fr == frame'
           n == Len(wire)
<1>1. /\ x # <<>> /\ y = wire \o x /\ a = <<>> /\ fr = frame
      /\ UNCHANGED <<vars, pageVars, clearing, live, up, ghosts>>
  BY DEF WriteHistory, None
<1>2. wire \in Seq(Frames) /\ x \in Seq(ScrollFrames)
  BY Parts
<1>3. live
  BY <1>1 DEF PagingInv, SocketOK
<1>4. /\ Len(x) <= 1
      /\ \A k \in 1..Len(x) : Reply(x[k]) /\ ~x[k].batch /\ ReplyOK(x[k], store, OldestIndex)
  BY DEF PagingInv, RequestsOK
<1> HIDE DEF x, y, a, fr, n
<1>5. x \in Seq(Frames) /\ Len(x) = 1
  <2>1. Len(x) > 0
    BY <1>1, <1>2, EmptySeq
  <2>2. x \in Seq(Frames)
    BY <1>2 DEF Frames
  <2>3. Len(x) \in Nat
    BY <2>2
  <2>4. Len(x) = 1
    BY <1>4, <2>1, <2>3
  <2> QED
    BY <2>2, <2>4
<1>6. /\ y \in Seq(Frames) /\ n \in Nat /\ Len(y) = n + Len(x)
      /\ \A k \in 1..n : k \in 1..Len(y) /\ y[k] = wire[k]
      /\ \A k \in 1..Len(x) : n + k \in 1..Len(y) /\ y[n + k] = x[k]
      /\ \A k \in 1..Len(y) : k \in 1..n \/ k - n \in 1..Len(x)
  <2>1. IsJoin(y, wire, x)
    BY <1>1, <1>2, <1>5, Joined
  <2> QED
    BY <2>1 DEF IsJoin, n
<1>7. \A k \in 1..Len(x) : x[k] \in Frames /\ ~Screen(x[k]) /\ ~Ack(x[k]) /\ ~LiveLines(x[k])
  <2> SUFFICES ASSUME NEW k \in 1..Len(x)
               PROVE  x[k] \in Frames /\ ~Screen(x[k]) /\ ~Ack(x[k]) /\ ~LiveLines(x[k])
    OBVIOUS
  <2>1. Reply(x[k]) /\ x[k] \in Frames
    BY <1>4, <1>5
  <2> QED
    BY <2>1 DEF Reply, Screen, Ack, LiveLines
<1>8. \A k \in 1..Len(x) :
            /\ FrameOK(x[k], store, fetch, told, committed, OldestIndex)
            /\ OrderOK(y, Len(wire) + k, store) /\ ~Ack(x[k])
  BY <1>4, <1>6, <1>7 DEF FrameOK, OrderOK, n
<1>9. ~(Len(wire) > 0 /\ Ack(wire[1]))
  BY <1>1 DEF PagingInv, AckOK, x
<1>10. BuiltOK(fr, y, store, told, committed, OldestIndex)
  <2>1. BuiltOK(fr, wire, store, told, committed, OldestIndex)
    BY <1>1 DEF PagingInv
  <2>2. \A j \in 1..Len(y) : Screen(y[j]) => j \in 1..n /\ y[j] = wire[j]
    <3> SUFFICES ASSUME NEW j \in 1..Len(y), ~(j \in 1..n) PROVE ~Screen(y[j])
      BY <1>6
    <3> DEFINE i == j - n
    <3>1. i \in 1..Len(x) /\ n + i = j
      BY <1>5, <1>6
    <3> HIDE DEF i
    <3> QED
      BY <1>6, <1>7, <3>1
  <2> QED
    BY <2>1, <2>2 DEF BuiltOK, n
<1>11. Len(x) > 0 /\ a \in {answer, <<>>} /\ fr \in {frame, <<>>}
  BY <1>1, <1>5
<1>12. y = wire' /\ a = answer' /\ fr = frame'
  BY DEF y, a, fr
<1> QED
  BY <1>1, <1>3, <1>5, <1>8, <1>9, <1>10, <1>11, <1>12, WriteSteps

\* A request is taken from the socket.
LEMMA TakeRequest ==
    ASSUME RingInv, PagingInv, up # <<>>, answer = <<>>, NEW u, u = up', u = Tail(up),
           NEW a \in Seq(ScrollFrames), a = answer', Len(a) <= 1,
           \A k \in 1..Len(a) : Reply(a[k]) /\ ~a[k].batch /\ ReplyOK(a[k], store, OldestIndex),
           UNCHANGED <<vars, pageVars, frame, clearing, live, wire, ghosts>>
    PROVE  PagingInv'
<1>1. /\ committed' = committed /\ OldestIndex' = OldestIndex
      /\ store' = store /\ fetch' = fetch /\ reader' = reader /\ due' = due
      /\ live' = live /\ clearing' = clearing /\ frame' = frame /\ wire' = wire
      /\ told' = told /\ doubt' = doubt /\ strays' = strays
  BY DEF vars, pageVars, ghosts, OldestIndex
<1>2. up \in Seq(Requests)
  BY Parts
<1>3. u \in Seq(Requests) /\ \A k \in 1..Len(u) : u[k] = up[k + 1] /\ k + 1 \in 1..Len(up)
  BY <1>2, HeadTailProperties
<1>4. PagingTypes'
  BY <1>1, <1>3 DEF PagingInv, PagingTypes
<1>5. live
  BY DEF PagingInv, SocketOK
<1>6. AckOK(wire, fetch, u, a, told, committed, OldestIndex)
  BY DEF PagingInv, AckOK
<1>7. RequestsOK(store, fetch, u, a, told, OldestIndex)
  BY <1>3 DEF PagingInv, RequestsOK
<1>8. SocketOK(live, wire, store, fetch, u, a, frame)
  BY <1>5 DEF PagingInv, SocketOK
<1> QED
  BY <1>1, <1>4, <1>6, <1>7, <1>8 DEF PagingInv

\* It is served.
LEMMA ServeStep ==
    ASSUME RingInv, PagingInv, ServeHistory
    PROVE  PagingInv'
<1> DEFINE r == Head(up)
           a == answer'
           u == up'
<1>1. PICK reply \in HistoryReplies(r.from, Cardinality(Span(r))) :
        /\ up # <<>> /\ answer = <<>>
        /\ a = <<ScrollFrame(reply.first, reply.lines, r, FALSE)>>
        /\ u = Tail(up)
        /\ UNCHANGED <<vars, pageVars, frame, clearing, live, wire, ghosts>>
  BY DEF ServeHistory, None
<1>2. /\ up \in Seq(Requests) /\ committed \in Nat /\ store.base \in Nat
      /\ store.base <= committed
  BY Parts
<1>3. r \in Requests /\ RequestOK(r, store)
  <2>1. 1 \in 1..Len(up) /\ r = up[1]
    BY <1>1, <1>2, EmptySeq
  <2> QED
    BY <1>2, <2>1 DEF PagingInv, RequestsOK
<1> HIDE DEF r
<1>4. r.from \in Nat /\ r.end \in Nat /\ r.from < r.end /\ r.end <= store.base
  BY <1>3 DEF RequestOK, Requests
<1>5. r.end <= committed
  BY <1>2, <1>4
<1>6. /\ reply.first \in Nat /\ reply.lines \in Seq(Lines)
      /\ r.from <= reply.first /\ reply.first + Len(reply.lines) <= r.end
      /\ reply.lines = <<>> => reply.first = r.from /\ r.end <= OldestIndex
      /\ reply.first > r.from => reply.first <= OldestIndex
  BY <1>3, <1>4, <1>5, HistoryServed
<1> DEFINE m == ScrollFrame(reply.first, reply.lines, r, FALSE)
<1>7. /\ m.firstIndex = reply.first /\ m.lines = reply.lines /\ m.answers = r /\ ~m.batch
      /\ m.type = "scroll"
  BY DEF ScrollFrame
<1>8. m \in ScrollFrames
  BY <1>3, <1>6 DEF ScrollFrame, ScrollFrames
<1>9. a = <<m>>
  BY <1>1
<1> HIDE DEF m
<1>10. a \in Seq(ScrollFrames) /\ Len(a) = 1 /\ a[1] = m
  BY <1>8, <1>9
<1>11. r # NoRequest
  BY <1>4 DEF NoRequest
<1>12. Reply(m) /\ ReplyOK(m, store, OldestIndex)
  BY <1>4, <1>6, <1>7, <1>11 DEF Reply, ReplyOK
<1> HIDE DEF a, u
<1>13. \A k \in 1..Len(a) : Reply(a[k]) /\ ~a[k].batch /\ ReplyOK(a[k], store, OldestIndex)
  <2>1. \A k \in 1..Len(a) : k = 1
    BY <1>10
  <2> QED
    BY <1>7, <1>10, <1>12, <2>1
<1>14. Len(a) <= 1 /\ a = answer' /\ u = up'
  BY <1>10 DEF a, u
<1> QED
  BY <1>1, <1>10, <1>13, <1>14, TakeRequest

\* Or dropped.
LEMMA ThrottleStep ==
    ASSUME RingInv, PagingInv, ThrottleHistory
    PROVE  PagingInv'
<1> DEFINE a == answer'
           u == up'
<1>1. /\ up # <<>> /\ answer = <<>> /\ u = Tail(up) /\ a = <<>>
      /\ UNCHANGED <<vars, pageVars, frame, clearing, live, wire, ghosts>>
  BY DEF ThrottleHistory, None, serverVars
<1>2. a \in Seq(ScrollFrames) /\ Len(a) <= 1 /\ \A k \in 1..Len(a) : FALSE
  BY <1>1
<1> HIDE DEF a, u
<1>3. a = answer' /\ u = up'
  BY DEF a, u
<1> QED
  BY <1>1, <1>2, <1>3, TakeRequest

\* The socket dies.
LEMMA CutStep ==
    ASSUME RingInv, PagingInv, Cut
    PROVE  PagingInv'
<1> DEFINE s2 == store'
<1>1. /\ committed' = committed /\ OldestIndex' = OldestIndex /\ reader' = reader /\ due' = due
      /\ live' = FALSE /\ up' = <<>> /\ wire' = <<>> /\ answer' = <<>> /\ frame' = <<>>
      /\ fetch' = newHistoryState /\ clearing' = clearing
      /\ told' = told /\ doubt' = doubt /\ strays' = strays
      /\ s2 = [store EXCEPT !.solicited = NoRequest]
  BY DEF Cut, vars, ghosts, None, OldestIndex
<1>2. NoRequest \in Requests /\ NoRequest.end = 0 /\ NoRequest.from = 0
  BY DEF NoRequest, Requests
<1>3. IsStore(store) /\ store.base \in Nat
  BY Parts
<1>4. /\ IsStore(s2) /\ Held(s2) = Held(store) /\ s2.browse = store.browse
      /\ s2.base = store.base /\ s2.height = store.height
      /\ s2.solicited = NoRequest /\ s2.pagingFloor = store.pagingFloor
      /\ s2.unconfirmedFrom = store.unconfirmedFrom
  BY <1>1, <1>2, <1>3, SolicitedChanged
<1> HIDE DEF s2
<1>5. /\ newHistoryState \in Fetches /\ ~newHistoryState.acked
      /\ newHistoryState.inFlight = NoRequest
  <2>1. PageSize \in MinPage..PageSize /\ Burst \in 0..Burst /\ NoMax \in Nat
    BY Constants DEF NoMax
  <2> QED
    BY <1>2, <2>1 DEF newHistoryState, Fetches
<1>6. /\ <<>> \in Seq(Requests) /\ <<>> \in Seq(ScrollFrames) /\ <<>> \in Seq(Frames)
      /\ Len(<<>>) = 0
  OBVIOUS
<1>7. PagingTypes'
  BY <1>1, <1>4, <1>5, <1>6 DEF PagingInv, PagingTypes, s2
<1>8. StoreOK(s2, committed)
  <2>1. StoreOK(store, committed)
    BY DEF PagingInv
  <2> QED
    BY <1>4, <2>1, SameRows DEF StoreOK
<1> DEFINE e == <<>>
           f2 == newHistoryState
<1>9. WireOK(e, s2, f2, told, committed, OldestIndex)
  BY <1>6 DEF WireOK
<1>10. AckOK(e, f2, e, e, told, committed, OldestIndex)
  BY <1>6 DEF AckOK
<1>11. BuiltOK(e, e, s2, told, committed, OldestIndex)
  BY DEF BuiltOK
<1>12. RequestsOK(s2, f2, e, e, told, OldestIndex)
  <2>1. 0 <= s2.base /\ 0 <= 0 + PageSize
    BY <1>3, <1>4, Constants
  <2> QED
    BY <1>2, <1>4, <1>5, <1>6, <2>1 DEF RequestsOK
<1>13. SocketOK(FALSE, e, s2, f2, e, e, e)
  BY <1>5 DEF SocketOK
<1>14. FloorsOK(s2, told, clearing, doubt, strays, OldestIndex)
  BY <1>4 DEF PagingInv, FloorsOK
<1> QED
  BY <1>1, <1>7, <1>8, <1>9, <1>10, <1>11, <1>12, <1>13, <1>14 DEF PagingInv, s2

\* What the page says it holds lies below the screen.
LEMMA ClaimIsBelow ==
    ASSUME RingInv, PagingInv
    PROVE  ReplayBoundary(store) \in Int /\ ReplayBoundary(store) < committed
<1> DEFINE top == Highest(store)
           u == store.unconfirmedFrom - 1
<1>1. /\ IsStore(store) /\ committed \in Nat /\ store.unconfirmedFrom \in Nat
      /\ Held(store) \subseteq Nat
  BY Parts
<1>2. top \in Int /\ top \in Held(store) \cup {-1} /\ u \in Int
  BY <1>1, Extremes
<1>3. Held(store) = {} \/ u < committed
  BY <1>1 DEF PagingInv, StoreOK
<1> HIDE DEF top, u
<1>4. ReplayBoundary(store) = IF top <= u THEN top ELSE u
  BY <1>2, LowerAndHigher DEF ReplayBoundary, top, u
<1>5. Held(store) = {} => top = -1
  BY <1>2
<1> QED
  BY <1>1, <1>2, <1>3, <1>4, <1>5

\* The places of two frames or three.
LEMMA TwoOrThree ==
    \A l \in {2, 3} : \A k \in 1..l : k = 1 \/ k = 2 \/ (k = 3 /\ l = 3)
OBVIOUS

\* What the server writes to a socket that resumes is in order.
LEMMA ResumeWire ==
    ASSUME NEW y \in Seq(Frames), Len(y) \in {2, 3}, NEW s, NEW f, NEW t, NEW com \in Nat,
           NEW old \in Nat, Ack(y[1]), y[1].oldest = old,
           Screen(y[2]), ScreenOK(y[2], s, t, com, old), y[2].base = com, y[2].batch,
           y[2].erasedBelow = NoErasure,
           Len(y) = 3 => /\ LiveLines(y[3]) /\ LiveOK(y[3], f, t, com) /\ y[3].batch
                         /\ com = y[3].firstIndex + Len(y[3].lines)
    PROVE  WireOK(y, s, f, t, com, old)
<1>1. /\ y[1] \in Frames /\ y[2] \in Frames /\ 1 \in 1..Len(y) /\ 2 \in 1..Len(y)
      /\ Len(y) = 3 => y[3] \in Frames /\ y[3].firstIndex \in Nat
  <2>1. /\ 1 \in 1..Len(y) /\ 2 \in 1..Len(y)
        /\ Len(y) = 3 => 3 \in 1..Len(y)
    OBVIOUS
  <2>2. y[1] \in Frames /\ y[2] \in Frames /\ (Len(y) = 3 => y[3] \in Frames)
    BY <2>1
  <2>3. Len(y) = 3 => y[3].firstIndex \in Nat
    BY <2>2, Kinds
  <2> QED
    BY <2>1, <2>2, <2>3
<1>2. /\ ~Screen(y[1]) /\ ~LiveLines(y[1]) /\ ~Reply(y[1])
      /\ ~Ack(y[2]) /\ ~LiveLines(y[2]) /\ ~Reply(y[2])
      /\ Len(y) = 3 => ~Screen(y[3]) /\ ~Ack(y[3]) /\ ~Reply(y[3])
  <2>1. ~Screen(y[1]) /\ ~LiveLines(y[1]) /\ ~Reply(y[1])
    BY <1>1, Kinds
  <2>2. ~Ack(y[2]) /\ ~LiveLines(y[2]) /\ ~Reply(y[2])
    BY <1>1, Kinds
  <2>3. Len(y) = 3 => ~Screen(y[3]) /\ ~Ack(y[3]) /\ ~Reply(y[3])
    BY DEF LiveLines, Screen, Ack, Reply
  <2> QED
    BY <2>1, <2>2, <2>3
<1>3. FrameOK(y[1], s, f, t, com, old) /\ OrderOK(y, 1, s)
  BY <1>2 DEF FrameOK, OrderOK
<1>4. FrameOK(y[2], s, f, t, com, old) /\ OrderOK(y, 2, s)
  <2>1. ScreenOrder(y, 2)
    <3>1. \A j \in 1..(2 - 1) : j = 1
      OBVIOUS
    <3> QED
      BY <1>2, <3>1 DEF ScreenOrder
  <2> QED
    BY <1>2, <2>1 DEF FrameOK, OrderOK
<1>5. Len(y) = 3 => FrameOK(y[3], s, f, t, com, old) /\ OrderOK(y, 3, s)
  <2> SUFFICES ASSUME Len(y) = 3
               PROVE  FrameOK(y[3], s, f, t, com, old) /\ OrderOK(y, 3, s)
    OBVIOUS
  <2>1. LinesOrder(y, 3, s)
    <3>1. \A j \in 1..(3 - 1) : j = 1 \/ j = 2
      OBVIOUS
    <3>2. 3 - 1 = 2 /\ ~(2 < 3 - 1)
      OBVIOUS
    <3>3. y[2].erasedBelow <= y[3].firstIndex
      BY <1>1 DEF NoErasure
    <3> QED
      BY <1>2, <3>1, <3>2, <3>3 DEF LinesOrder
  <2> QED
    BY <1>2, <2>1 DEF FrameOK, OrderOK
<1>6. \A k \in 1..Len(y) : k = 1 \/ k = 2 \/ (k = 3 /\ Len(y) = 3)
  BY TwoOrThree
<1> QED
  BY <1>3, <1>4, <1>5, <1>6 DEF WireOK

\* The page comes back.
LEMMA ResumeStep ==
    ASSUME RingInv, PagingInv, Resume
    PROVE  PagingInv'
<1> DEFINE h == ReplayBoundary(store)
           r == Greater(1, ResidentTailCap - store.height)
           f2 == fetch'
           y == wire'
           replay == LinesFrom(ReplayStart(h, r))
           a == ResumeAck
           m == ScreenFrame(committed, NoErasure, TRUE)
           n == ScrollFrame(replay.first, replay.lines, NoRequest, TRUE)
<1>1. /\ ~live /\ live' = TRUE
      /\ f2 = [newHistoryState EXCEPT !.haveThrough = h, !.replayMax = r]
      /\ committed' = committed /\ OldestIndex' = OldestIndex
      /\ store' = store /\ reader' = reader /\ due' = due /\ answer' = answer /\ frame' = frame
      /\ clearing' = clearing /\ up' = up
      /\ told' = told /\ doubt' = doubt /\ strays' = strays
  BY DEF Resume, vars, serverVars, ghosts, OldestIndex
<1>2. /\ wire = <<>> /\ frame = <<>> /\ answer = <<>> /\ up = <<>>
  BY <1>1 DEF PagingInv, SocketOK
<1>3. h \in Int /\ h < committed
  BY ClaimIsBelow
<1>4. r \in Nat /\ r >= 1
  <2>1. store.height \in {0, Height}
    BY Parts DEF IsStore
  <2>2. ResidentTailCap - store.height \in Int
    BY <2>1, Constants
  <2> QED
    BY <2>2 DEF Greater
<1> HIDE DEF h, r
<1>5. /\ newHistoryState \in Fetches /\ ~newHistoryState.acked
      /\ newHistoryState.inFlight = NoRequest
  <2>1. PageSize \in MinPage..PageSize /\ Burst \in 0..Burst /\ NoMax \in Nat
    BY Constants DEF NoMax
  <2>2. NoRequest \in Requests
    BY DEF NoRequest, Requests
  <2> QED
    BY <2>1, <2>2 DEF newHistoryState, Fetches
<1>6. f2 \in Fetches /\ ~f2.acked /\ f2.inFlight = NoRequest /\ f2.haveThrough = h
  <2> DEFINE g == [newHistoryState EXCEPT !.haveThrough = h]
             k == [g EXCEPT !.replayMax = r]
  <2>1. f2 = k
    BY <1>1
  <2>2. g \in Fetches /\ ~g.acked /\ g.inFlight = NoRequest /\ g.haveThrough = h
    BY <1>3, <1>5 DEF Fetches
  <2> HIDE DEF g
  <2>3. k \in Fetches /\ ~k.acked /\ k.inFlight = NoRequest /\ k.haveThrough = h
    BY <1>4, <2>2 DEF Fetches
  <2> QED
    BY <2>1, <2>3
<1>7. /\ committed \in Nat /\ OldestIndex \in Nat /\ OldestIndex <= committed
      /\ told.below \in Nat /\ told.below <= OldestIndex
  BY Parts DEF PagingInv, FloorsOK
<1>8. /\ replay.first \in Nat /\ replay.lines \in Seq(Lines)
      /\ replay.first + Len(replay.lines) = committed
      /\ OldestIndex <= replay.first
  BY <1>3, <1>4, ReplayServed
<1>9. y = <<a, m>> \o (IF replay.lines = <<>> THEN <<>> ELSE <<n>>)
  <2>1. f2.haveThrough = h /\ f2.replayMax = r
    <3> DEFINE g == [newHistoryState EXCEPT !.haveThrough = h]
    <3>1. g \in Fetches /\ g.haveThrough = h
      BY <1>3, <1>5 DEF Fetches
    <3>2. f2 = [g EXCEPT !.replayMax = r]
      BY <1>1
    <3> HIDE DEF g
    <3> QED
      BY <3>1, <3>2 DEF Fetches
  <2> HIDE DEF f2
  <2>2. LET q == LinesFrom(ReplayStart(f2.haveThrough, f2.replayMax))
        IN  y = <<a, m>> \o (IF q.lines = <<>> THEN <<>>
                             ELSE <<ScrollFrame(q.first, q.lines, NoRequest, TRUE)>>)
    BY DEF Resume, f2
  <2> QED
    BY <2>1, <2>2
<1> HIDE DEF f2, y, replay
<1>10. /\ a \in Frames /\ Ack(a) /\ a.oldest = OldestIndex /\ a.answers = NoRequest
  <2>1. /\ a.type = "resumeAck" /\ a.oldest = OldestIndex /\ a.answers = NoRequest
        /\ a \in Acks
    BY <1>7 DEF ResumeAck, Acks
  <2> QED
    BY <2>1 DEF Ack, Frames
<1>11. /\ m \in ScreenFrames /\ m \in Frames /\ Screen(m) /\ m.base = committed
       /\ m.erasedBelow = NoErasure /\ m.batch /\ m.answers = NoRequest /\ ~m.scrollbackCleared
  <2>1. TRUE \in BOOLEAN /\ NoErasure \in Nat \cup {NoErasure}
    OBVIOUS
  <2> QED
    BY <1>7, <2>1, ScreenBuilt
<1>12. /\ n \in ScrollFrames /\ n \in Frames /\ n.firstIndex = replay.first
       /\ n.lines = replay.lines /\ n.answers = NoRequest /\ n.batch /\ n.type = "scroll"
  <2>1. NoRequest \in Requests
    BY DEF NoRequest, Requests
  <2>2. /\ n.firstIndex = replay.first /\ n.lines = replay.lines /\ n.answers = NoRequest
        /\ n.batch /\ n.type = "scroll"
    BY DEF ScrollFrame
  <2>3. n \in ScrollFrames
    BY <1>8, <2>1 DEF ScrollFrame, ScrollFrames
  <2> HIDE DEF n
  <2> QED
    BY <2>2, <2>3 DEF Frames
<1> HIDE DEF a, m, n
<1>13. /\ y \in Seq(Frames) /\ Len(y) \in {2, 3} /\ y[1] = a /\ y[2] = m
       /\ Len(y) = 3 => y[3] = n
  <2>1. CASE replay.lines = <<>>
    <3>1. y = <<a, m>>
      BY <1>9, <2>1, <1>10, <1>11
    <3> QED
      BY <3>1, <1>10, <1>11
  <2>2. CASE replay.lines # <<>>
    <3> DEFINE w == <<a, m>>
               x == <<n>>
    <3>1. y = w \o x
      BY <1>9, <2>2
    <3>2. w \in Seq(Frames) /\ Len(w) = 2 /\ w[1] = a /\ w[2] = m
      BY <1>10, <1>11
    <3>3. x \in Seq(Frames) /\ Len(x) = 1 /\ x[1] = n
      BY <1>12
    <3> HIDE DEF w, x
    <3>4. IsJoin(y, w, x)
      BY <3>1, <3>2, <3>3, Joined
    <3>5. 1 \in 1..2 /\ 2 \in 1..2 /\ 1 \in 1..1 /\ 2 + 1 = 3
      OBVIOUS
    <3> QED
      BY <3>2, <3>3, <3>4, <3>5 DEF IsJoin
  <2> QED
    BY <2>1, <2>2
<1>14. ScreenOK(m, store, told, committed, OldestIndex)
  <2>1. m.erasedBelow \in Nat \cup {NoErasure} /\ m.erasedBelow <= OldestIndex
    BY <1>7, <1>11 DEF NoErasure
  <2>2. m.scrollbackCleared <=> m.erasedBelow # NoErasure
    BY <1>11
  <2>3. committed <= committed /\ OldestIndex <= OldestIndex
    BY <1>7
  <2> QED
    BY <1>7, <1>11, <2>1, <2>2, <2>3, ScreenSuits
<1>15. LiveLines(n) /\ LiveOK(n, f2, told, committed)
  <2>1. LiveLines(n)
    BY <1>12 DEF LiveLines
  <2>2. NoRequest.end = 0
    BY DEF NoRequest
  <2>3. told.below <= n.firstIndex /\ n.firstIndex + Len(n.lines) <= committed
    BY <1>7, <1>8, <1>12
  <2>4. f2.inFlight.end <= n.firstIndex
    BY <1>6, <1>8, <1>12, <2>2
  <2> QED
    BY <2>1, <2>3, <2>4 DEF LiveOK
<1>16. WireOK(y, store, f2, told, committed, OldestIndex)
  <2>1. Len(y) = 3 => /\ LiveLines(y[3]) /\ LiveOK(y[3], f2, told, committed) /\ y[3].batch
                      /\ committed = y[3].firstIndex + Len(y[3].lines)
    BY <1>8, <1>12, <1>13, <1>15
  <2>2. Ack(y[1]) /\ y[1].oldest = OldestIndex
    BY <1>10, <1>13
  <2>3. /\ Screen(y[2]) /\ ScreenOK(y[2], store, told, committed, OldestIndex)
        /\ y[2].base = committed /\ y[2].batch /\ y[2].erasedBelow = NoErasure
    BY <1>11, <1>13, <1>14
  <2> QED
    BY <1>7, <1>13, <2>1, <2>2, <2>3, ResumeWire
<1>17. AckOK(y, f2, <<>>, <<>>, told, committed, OldestIndex)
  <2>1. \A j \in 1..Len(y) : y[j].answers = NoRequest /\ (Screen(y[j]) => y[j].base = committed)
    <3>1. \A k \in 1..Len(y) : k = 1 \/ k = 2 \/ (k = 3 /\ Len(y) = 3)
      BY <1>13, TwoOrThree
    <3>2. ~Screen(a) /\ ~Screen(n)
      BY <1>10, <1>12 DEF Screen, Ack
    <3> QED
      BY <1>10, <1>11, <1>12, <1>13, <3>1, <3>2
  <2>2. y[1].oldest = OldestIndex /\ OldestIndex <= OldestIndex
    BY <1>7, <1>10, <1>13
  <2> QED
    BY <1>3, <1>6, <1>7, <2>1, <2>2 DEF AckOK
<1>18. PagingTypes'
  BY <1>1, <1>6, <1>13 DEF PagingInv, PagingTypes, f2, y
<1>19. RequestsOK(store, f2, up, answer, told, OldestIndex)
  <2>1. NoRequest.end = 0 /\ NoRequest.from = 0
    BY DEF NoRequest
  <2>2. fetch.inFlight = NoRequest
    BY <1>1 DEF PagingInv, SocketOK
  <2>3. RequestsOK(store, fetch, up, answer, told, OldestIndex)
    BY DEF PagingInv
  <2> QED
    BY <1>6, <2>2, <2>3 DEF RequestsOK
<1>20. SocketOK(TRUE, y, store, f2, up, answer, frame)
  BY <1>6 DEF SocketOK
<1>21. BuiltOK(frame, y, store, told, committed, OldestIndex)
  BY <1>2 DEF BuiltOK
<1>22. StoreOK(store, committed) /\ FloorsOK(store, told, clearing, doubt, strays, OldestIndex)
  BY DEF PagingInv
<1> QED
  BY <1>1, <1>2, <1>16, <1>17, <1>18, <1>19, <1>20, <1>21, <1>22 DEF PagingInv, f2, y

-----------------------------------------------------------------------------
(* The page takes a frame.                                                   *)

\* The frame that is built stays good for a store that took another one.
LEMMA BuiltFits ==
    ASSUME NEW fr, NEW w, NEW s, NEW s2, IsStore(s2), NEW t, NEW t2, NEW com \in Nat,
           NEW old \in Nat, StoreOK(s2, com), BuiltOK(fr, w, s, t, com, old),
           t2.below <= com, Len(fr) = 2 => t2.below <= com - 1 /\ s2.base <= com - 1
    PROVE  BuiltOK(fr, w, s2, t2, com, old)
<1> SUFFICES ASSUME fr # <<>> PROVE BuiltOK(fr, w, s2, t2, com, old)
  BY DEF BuiltOK
<1>1. fr[1] \in ScreenFrames /\ ScreenOK(fr[1], s, t, com, old) /\ fr[1].base = com
  BY DEF BuiltOK
<1>2. s2.base <= com /\ \A i \in s2.browse : i < com
  BY DEF StoreOK
<1>3. ScreenOK(fr[1], s2, t2, com, old)
  BY <1>1, <1>2 DEF ScreenOK
<1> QED
  BY <1>3 DEF BuiltOK

\* What is left to show of every frame.
LEMMA ReceiveSteps ==
    ASSUME RingInv, PagingInv, wire # <<>>, NEW s2, IsStore(s2), s2 = store',
           NEW f2 \in Fetches, f2 = fetch', NEW t2 \in [below : Nat, base : Nat], t2 = told',
           NEW d2 \in BOOLEAN, d2 = doubt', NEW st2, st2 = strays',
           wire' = Tail(wire), due' = TRUE, UNCHANGED <<vars, reader, serverVars, live, up>>,
           \A k \in 2..Len(wire) : FrameOK(wire[k], s2, f2, t2, committed, OldestIndex),
           \/ Screen(wire[1]) /\ s2.base = wire[1].base /\ s2.height > 0
           \/ ~Screen(wire[1]) /\ s2.base <= store.base,
           StoreOK(s2, committed), BuiltOK(frame, wire, s2, t2, committed, OldestIndex),
           RequestsOK(s2, f2, up, answer, t2, OldestIndex),
           f2.acked /\ s2.height = 0 => Len(wire) > 1 /\ Screen(wire[2]) /\ wire[2].batch,
           FloorsOK(s2, t2, clearing, d2, st2, OldestIndex)
    PROVE  PagingInv'
<1> DEFINE v == Tail(wire)
<1>1. /\ committed' = committed /\ OldestIndex' = OldestIndex /\ reader' = reader
      /\ answer' = answer /\ frame' = frame /\ clearing' = clearing
      /\ live' = live /\ up' = up
  BY DEF vars, serverVars, OldestIndex
<1>2. live
  BY DEF PagingInv, SocketOK
<1>3. /\ wire \in Seq(Frames) /\ IsStore(store) /\ committed \in Nat /\ OldestIndex \in Nat
  BY Parts
<1>4. /\ v \in Seq(Frames) /\ Len(v) = Len(wire) - 1 /\ Len(wire) \in Nat /\ Len(wire) >= 1
      /\ \A k \in 1..Len(v) : v[k] = wire[k + 1] /\ k + 1 \in 1..Len(wire)
  BY <1>3, WireTail
<1>5. /\ WireOK(v, s2, f2, t2, committed, OldestIndex)
      /\ \A k \in 1..Len(v) : ~Ack(v[k])
  <2>1. WireOK(wire, store, fetch, told, committed, OldestIndex)
    BY DEF PagingInv
  <2> QED
    BY <1>3, <2>1, TailStays
<1> HIDE DEF v
<1>6. AckOK(v, f2, up, answer, t2, committed, OldestIndex)
  <2>1. Len(v) > 0 => 1 \in 1..Len(v)
    BY <1>4
  <2> QED
    BY <1>5, <2>1 DEF AckOK
<1>7. BuiltOK(frame, v, s2, t2, committed, OldestIndex)
  BY <1>4 DEF BuiltOK
<1>8. SocketOK(live, v, s2, f2, up, answer, frame)
  <2> SUFFICES ASSUME f2.acked, s2.height = 0
               PROVE  Len(v) > 0 /\ Screen(v[1]) /\ v[1].batch
    BY <1>2 DEF SocketOK
  <2>1. Len(wire) > 1 /\ Screen(wire[2]) /\ wire[2].batch
    OBVIOUS
  <2>2. 1 \in 1..Len(v) /\ 1 + 1 = 2
    BY <1>4, <2>1
  <2> QED
    BY <1>4, <2>1, <2>2
<1>9. PagingTypes'
  BY <1>1, <1>4 DEF PagingInv, PagingTypes, v
<1> QED
  BY <1>1, <1>5, <1>6, <1>7, <1>8, <1>9 DEF PagingInv, v

\* The resumeAck.
LEMMA AckStep ==
    ASSUME RingInv, PagingInv, ReceiveResumeAck
    PROVE  PagingInv'
<1> DEFINE m == wire[1]
           s2 == store'
           f2 == fetch'
<1>1. wire \in Seq(Frames)
  BY Parts
<1>2. wire # <<>> /\ Head(wire).type = "resumeAck" /\ Head(wire) = m
  BY <1>1, WireTail DEF ReceiveResumeAck, Take
<1>3. /\ wire' = Tail(wire) /\ due' = TRUE /\ UNCHANGED <<vars, reader, serverVars, live, up>>
      /\ f2 = [fetch EXCEPT !.acked = m.paging]
      /\ s2 = applyResumeAck(store, m, fetch, viewportAbs, reader = Following)
      /\ doubt' = FALSE /\ told' = told /\ strays' = strays
  BY <1>2 DEF ReceiveResumeAck, Take
<1>4. m \in Frames /\ Len(wire) > 0 /\ Ack(m) /\ Len(wire) \in Nat
  BY <1>1, <1>2, WireTail DEF Ack
<1> HIDE DEF m
<1>5. m \in Acks /\ m.oldest \in Nat /\ m.paging \in BOOLEAN /\ ~Screen(m)
  BY <1>4, Kinds
<1>6. /\ ~fetch.acked /\ fetch.inFlight = NoRequest /\ up = <<>> /\ answer = <<>>
      /\ \A j \in 1..Len(wire) : wire[j].answers = NoRequest
      /\ told.below <= m.oldest /\ m.oldest <= OldestIndex
      /\ \A j \in 1..Len(wire) : Screen(wire[j]) => fetch.haveThrough < wire[j].base
      /\ fetch.haveThrough < committed
  BY <1>4 DEF PagingInv, AckOK, m
<1>7. /\ committed \in Nat /\ OldestIndex \in Nat /\ IsStore(store) /\ store.base \in Nat
      /\ told.below \in Nat /\ fetch \in Fetches /\ fetch.haveThrough \in Int
      /\ store.pagingFloor \in Nat /\ reader \in Nat \cup {Following}
      /\ store.browse \subseteq Nat /\ Held(store) \subseteq Nat
      /\ told \in [below : Nat, base : Nat]
  BY Parts DEF PagingInv, PagingTypes
<1>8. f2 \in Fetches /\ (f2.acked => m.paging) /\ f2.inFlight = NoRequest
  BY <1>3, <1>5, <1>6, <1>7 DEF Fetches
<1>9. viewportAbs \in Int
  BY <1>7 DEF viewportAbs
<1>10. StoreOK(store, committed)
  BY DEF PagingInv
<1>11. /\ IsStore(s2) /\ Capped(s2) /\ Cardinality(s2.browse) <= CacheBound
       /\ s2.solicited = store.solicited /\ s2.unconfirmedFrom = store.unconfirmedFrom
       /\ s2.pagingFloor = Lesser(store.pagingFloor, m.oldest)
       /\ Held(s2) \subseteq Held(store)
       /\ \/ /\ s2.base = store.base /\ s2.height = store.height
             /\ Held(s2) = Held(store) /\ s2.browse = store.browse
          \/ /\ s2.base = 0 /\ s2.height = 0
             /\ \A i \in s2.browse : i \in store.browse \/ i <= fetch.haveThrough
  <2> DEFINE at == viewportAbs
             following == (reader = Following)
  <2>1. at \in Int /\ following \in BOOLEAN
    BY <1>9
  <2>2. s2 = applyResumeAck(store, m, fetch, at, following)
    BY <1>3
  <2>3. Capped(store) /\ Cardinality(store.browse) <= CacheBound
    BY <1>10 DEF StoreOK
  <2> HIDE DEF at, following, s2
  <2> QED
    BY <1>5, <1>7, <2>1, <2>2, <2>3, ResumeApplied
<1> HIDE DEF s2, f2
<1>12. StoreOK(s2, committed)
  <2>1. CASE /\ s2.base = store.base /\ s2.height = store.height
             /\ Held(s2) = Held(store) /\ s2.browse = store.browse
    <3>1. Window(s2) = Window(store)
      BY <2>1, SameRows
    <3> QED
      BY <1>10, <1>11, <2>1, <3>1 DEF StoreOK
  <2>2. CASE /\ s2.base = 0 /\ s2.height = 0
             /\ \A i \in s2.browse : i \in store.browse \/ i <= fetch.haveThrough
    <3>1. s2.browse \subseteq Nat
      <4>1. s2.browse \in SUBSET Held(s2)
        BY <1>11, StoreSets
      <4> QED
        BY <1>7, <1>11, <4>1
    <3>2. \A i \in store.browse : i < committed
      BY <1>10 DEF StoreOK
    <3>3. \A i \in s2.browse : i < committed
      BY <1>6, <1>7, <2>2, <3>1, <3>2
    <3>4. Held(s2) = {} \/ s2.unconfirmedFrom <= committed
      BY <1>10, <1>11 DEF StoreOK
    <3> QED
      BY <1>7, <1>11, <2>2, <3>3, <3>4 DEF StoreOK
  <2> QED
    BY <1>11, <2>1, <2>2
<1>13. s2.base \in Nat /\ s2.base <= store.base /\ s2.browse \subseteq Nat
       /\ \A i \in s2.browse : i \in store.browse \/ i <= fetch.haveThrough
  <2>1. s2.browse \in SUBSET Held(s2)
    BY <1>11, StoreSets
  <2> QED
    BY <1>7, <1>11, <2>1
<1>14. \A k \in 2..Len(wire) : FrameOK(wire[k], s2, f2, told, committed, OldestIndex)
  <2> SUFFICES ASSUME NEW k \in 2..Len(wire)
               PROVE  FrameOK(wire[k], s2, f2, told, committed, OldestIndex)
    OBVIOUS
  <2> DEFINE n == wire[k]
  <2>1. k \in 1..Len(wire)
    BY <1>4
  <2>2. n \in Frames /\ FrameOK(n, store, fetch, told, committed, OldestIndex)
    BY <1>1, <2>1 DEF PagingInv, WireOK
  <2>3. n.answers = NoRequest /\ (Screen(n) => fetch.haveThrough < n.base)
    BY <1>6, <2>1
  <2> HIDE DEF n
  <2>4. Screen(n) => /\ s2.base <= n.base /\ told.below <= n.base
                     /\ \A i \in s2.browse : i < n.base
    <3> SUFFICES ASSUME Screen(n)
                 PROVE  /\ s2.base <= n.base /\ told.below <= n.base
                        /\ \A i \in s2.browse : i < n.base
      OBVIOUS
    <3>1. n.base \in Nat
      BY <2>2, Kinds
    <3>2. store.base <= n.base /\ told.below <= n.base /\ \A i \in store.browse : i < n.base
      BY <2>2 DEF FrameOK, ScreenOK
    <3>3. fetch.haveThrough < n.base
      BY <2>3
    <3> QED
      BY <1>7, <1>13, <3>1, <3>2, <3>3
  <2>5. LiveLines(n) => told.below <= n.firstIndex /\ f2.inFlight.end <= n.firstIndex
    BY <1>6, <1>8, <2>2 DEF FrameOK, LiveOK
  <2>6. ~Reply(n)
    BY <2>3 DEF Reply
  <2>7. FrameOK(n, s2, f2, told, committed, OldestIndex)
    <3>1. committed <= committed /\ OldestIndex <= OldestIndex
      BY <1>7
    <3> QED
      BY <1>7, <1>11, <2>2, <2>4, <2>5, <2>6, <3>1, FrameStays
  <2> QED
    BY <2>7 DEF n
<1>15. BuiltOK(frame, wire, s2, told, committed, OldestIndex)
  <2>1. BuiltOK(frame, wire, store, told, committed, OldestIndex)
    BY DEF PagingInv
  <2>2. Len(frame) = 2 => told.below <= committed - 1 /\ s2.base <= committed - 1
    <3> SUFFICES ASSUME Len(frame) = 2
                 PROVE  told.below <= committed - 1 /\ s2.base <= committed - 1
      OBVIOUS
    <3>1. frame # <<>>
      OBVIOUS
    <3>2. told.below <= committed - 1 /\ store.base <= committed - 1
      BY <2>1, <3>1 DEF BuiltOK
    <3> QED
      BY <1>7, <1>13, <3>2
  <2>3. told.below <= committed
    BY <1>6, <1>7, Parts DEF PagingInv, FloorsOK
  <2> QED
    BY <1>7, <1>11, <1>12, <2>1, <2>2, <2>3, BuiltFits
<1>16. RequestsOK(s2, f2, up, answer, told, OldestIndex)
  <2>1. RequestsOK(store, fetch, up, answer, told, OldestIndex)
    BY DEF PagingInv
  <2>2. NoRequest.end = 0 /\ NoRequest.from = 0 /\ 0 <= s2.base /\ 0 <= 0 + PageSize
    BY <1>13, Constants DEF NoRequest
  <2>3. s2.solicited = NoRequest
    BY <1>6, <1>11, <2>1 DEF RequestsOK
  <2>4. Len(<<>>) = 0
    OBVIOUS
  <2> QED
    BY <1>6, <1>8, <2>2, <2>3, <2>4 DEF RequestsOK
<1>17. Len(wire) > 1 /\ Screen(wire[2]) /\ wire[2].batch
  <2>1. WireOK(wire, store, fetch, told, committed, OldestIndex) /\ Ack(wire[1])
    BY <1>4 DEF PagingInv, m
  <2> QED
    BY <1>1, <1>2, <2>1, BatchStays
<1>18. FloorsOK(s2, told, clearing, FALSE, strays, OldestIndex)
  <2>1. FloorsOK(store, told, clearing, doubt, strays, OldestIndex)
    BY DEF PagingInv
  <2>2. s2.pagingFloor <= OldestIndex /\ told.below <= s2.pagingFloor
    BY <1>5, <1>6, <1>7, <1>11, <2>1 DEF FloorsOK, Lesser
  <2>3. s2.pagingFloor \in Nat /\ told.base \in Nat
    BY <1>7, <1>11 DEF IsStore
  <2>4. s2.pagingFloor <= Greater(OldestIndex, told.base)
    BY <1>7, <2>2, <2>3 DEF Greater
  <2> QED
    BY <1>11, <2>1, <2>2, <2>4 DEF FloorsOK
<1>19. /\ s2 = store' /\ f2 = fetch' /\ told = told' /\ FALSE = doubt' /\ strays = strays'
       /\ FALSE \in BOOLEAN /\ ~Screen(wire[1])
  BY <1>3, <1>5 DEF s2, f2, m
<1> QED
  BY <1>2, <1>3, <1>7, <1>8, <1>11, <1>12, <1>13, <1>14, <1>15, <1>16, <1>17, <1>18, <1>19,
     ReceiveSteps

\* What the page was told of, after a screen.
ToldAfter(t, m) ==
    IF m.scrollbackCleared
    THEN [below |-> Greater(t.below, m.erasedBelow), base |-> Greater(t.base, m.base)]
    ELSE t
\* It is no more than the screen allows.
LEMMA ToldChanges ==
    ASSUME NEW t \in [below : Nat, base : Nat], NEW m \in ScreenFrames, NEW com, NEW old \in Nat,
           NEW s, ScreenOK(m, s, t, com, old), t.below <= old, NEW t2,
           t2 = ToldAfter(t, m)
    PROVE  /\ t2 \in [below : Nat, base : Nat] /\ t2.below <= m.base /\ t2.below <= old
           /\ ~m.scrollbackCleared => t2 = t
           /\ m.scrollbackCleared => /\ t2.below \in {t.below, m.erasedBelow}
                                     /\ t2.base >= t.base /\ t2.base >= m.base
<1>1. m \in Frames /\ Screen(m)
  BY DEF Frames, Screen, ScreenFrames
<1>2. /\ m.base \in Nat /\ m.erasedBelow \in Int /\ m.scrollbackCleared \in BOOLEAN
      /\ m.erasedBelow # NoErasure => m.erasedBelow \in Nat
  BY <1>1, Kinds
<1>3. /\ t.below <= m.base /\ m.erasedBelow <= m.base /\ m.erasedBelow <= old
      /\ m.scrollbackCleared => m.erasedBelow # NoErasure
  BY DEF ScreenOK
<1>4. CASE m.scrollbackCleared
  <2> DEFINE a == Greater(t.below, m.erasedBelow)
             b == Greater(t.base, m.base)
  <2>1. /\ a \in Nat /\ a \in {t.below, m.erasedBelow} /\ a <= m.base /\ a <= old
        /\ b \in Nat /\ b >= t.base /\ b >= m.base
    BY <1>2, <1>3, <1>4 DEF Greater
  <2>2. t2 = [below |-> a, base |-> b]
    BY <1>4 DEF ToldAfter
  <2> HIDE DEF a, b
  <2> QED
    BY <1>4, <2>1, <2>2
<1>5. CASE ~m.scrollbackCleared
  BY <1>3, <1>5 DEF ToldAfter
<1> QED
  BY <1>2, <1>4, <1>5

\* The screen.
LEMMA ScreenStep ==
    ASSUME RingInv, PagingInv, ReceiveScreen
    PROVE  PagingInv'
<1> DEFINE m == wire[1]
           s2 == store'
           t2 == told'
<1>1. wire \in Seq(Frames)
  BY Parts
<1>2. wire # <<>> /\ Head(wire).type = "screen" /\ Head(wire) = m
  BY <1>1, WireTail DEF ReceiveScreen, Take
<1>3. /\ wire' = Tail(wire) /\ due' = TRUE /\ UNCHANGED <<vars, reader, serverVars, live, up>>
      /\ fetch' = fetch /\ doubt' = doubt /\ strays' = strays
      /\ s2 = applyScreen(store, m)
      /\ t2 = ToldAfter(told, m)
  BY <1>2 DEF ReceiveScreen, Take, ToldAfter
<1>4. m \in Frames /\ Screen(m) /\ Len(wire) \in Nat /\ Len(wire) > 0 /\ 1 \in 1..Len(wire)
  BY <1>1, <1>2, WireTail DEF Screen
<1>5. FrameOK(m, store, fetch, told, committed, OldestIndex)
  BY <1>4 DEF PagingInv, WireOK
<1> HIDE DEF m
<1>6. /\ m \in ScreenFrames /\ m.base \in Nat /\ m.scrollbackCleared \in BOOLEAN
      /\ m.erasedBelow \in Int
  BY <1>4, Kinds
<1>7. ScreenOK(m, store, told, committed, OldestIndex)
  BY <1>4, <1>5 DEF FrameOK
<1>8. /\ m.base <= committed /\ store.base <= m.base /\ told.below <= m.base
      /\ \A i \in store.browse : i < m.base
      /\ m.erasedBelow <= m.base /\ m.erasedBelow <= OldestIndex
  BY <1>7 DEF ScreenOK
<1>9. /\ committed \in Nat /\ OldestIndex \in Nat /\ IsStore(store) /\ store.base \in Nat
      /\ told.below \in Nat /\ told.base \in Nat /\ fetch \in Fetches /\ OldestIndex <= committed
      /\ store.pagingFloor \in Nat /\ store.browse \subseteq Nat /\ Held(store) \subseteq Nat
      /\ told \in [below : Nat, base : Nat] /\ up \in Seq(Requests)
      /\ answer \in Seq(ScrollFrames) /\ fetch.inFlight \in Requests /\ fetch.inFlight.end \in Nat
      /\ doubt \in BOOLEAN
  BY Parts DEF PagingInv, PagingTypes
<1>10. /\ IsStore(s2) /\ Capped(s2) /\ s2.base = m.base /\ s2.height = Height
       /\ Window(s2) \subseteq Held(s2) /\ s2.browse \subseteq store.browse
       /\ \A i \in Held(s2) : /\ i < m.base + Height
                              /\ i \in Held(store) \/ i >= m.base
                              /\ m.scrollbackCleared => i >= m.base
       /\ s2.unconfirmedFrom <= m.base
       /\ s2.solicited = IF m.scrollbackCleared THEN NoRequest ELSE store.solicited
       /\ s2.pagingFloor = IF m.scrollbackCleared THEN Greater(store.pagingFloor, m.base)
                           ELSE store.pagingFloor
  BY <1>3, <1>6, <1>9, ScreenApplied
<1>11. FloorsOK(store, told, clearing, doubt, strays, OldestIndex)
  BY DEF PagingInv
<1>12. /\ t2 \in [below : Nat, base : Nat] /\ t2.below <= m.base /\ t2.below <= OldestIndex
       /\ ~m.scrollbackCleared => t2 = told
       /\ m.scrollbackCleared => /\ t2.below \in {told.below, m.erasedBelow}
                                 /\ t2.base >= told.base /\ t2.base >= m.base
  <2>1. told.below <= OldestIndex
    BY <1>11 DEF FloorsOK
  <2> HIDE DEF t2, s2
  <2> QED
    BY <1>3, <1>6, <1>7, <1>9, <2>1, ToldChanges
<1> HIDE DEF s2, t2
<1>13. t2.below \in Nat /\ t2.base \in Nat
  BY <1>12
<1>14. StoreOK(s2, committed)
  <2>1. StoreOK(store, committed)
    BY DEF PagingInv
  <2>2. Height \in Nat /\ Height > 0
    BY Constants
  <2>3. Cardinality(s2.browse) <= CacheBound
    <3>1. store.browse \in SUBSET Held(store)
      BY <1>9, StoreSets
    <3>2. IsFiniteSet(store.browse) /\ Cardinality(store.browse) \in Nat
      BY <1>9, <3>1, StoreSets
    <3>3. IsFiniteSet(s2.browse) /\ Cardinality(s2.browse) <= Cardinality(store.browse)
          /\ Cardinality(s2.browse) \in Nat
      BY <1>10, <3>2, FS_Subset, FS_CardinalityType
    <3>4. Cardinality(store.browse) <= CacheBound /\ CacheBound \in Nat
      BY <2>1, CacheBoundIs DEF StoreOK
    <3> QED
      BY <3>2, <3>3, <3>4
  <2>4. \A i \in s2.browse : i \in Nat /\ i < m.base
    BY <1>8, <1>9, <1>10
  <2>5. \A i \in s2.browse : i < committed
    BY <1>6, <1>8, <1>9, <2>4
  <2>6. s2.unconfirmedFrom \in Nat /\ s2.unconfirmedFrom <= committed
    <3>1. s2.unconfirmedFrom \in Nat
      BY <1>10 DEF IsStore
    <3> QED
      BY <1>6, <1>8, <1>9, <1>10, <3>1
  <2> QED
    BY <1>8, <1>10, <2>2, <2>3, <2>4, <2>5, <2>6 DEF StoreOK
<1>15. \A k \in 2..Len(wire) : FrameOK(wire[k], s2, fetch, t2, committed, OldestIndex)
  <2> SUFFICES ASSUME NEW k \in 2..Len(wire)
               PROVE  FrameOK(wire[k], s2, fetch, t2, committed, OldestIndex)
    OBVIOUS
  <2> DEFINE n == wire[k]
  <2>1. k \in 1..Len(wire) /\ 1 \in 1..(k - 1)
    BY <1>4
  <2>2. /\ n \in Frames /\ FrameOK(n, store, fetch, told, committed, OldestIndex)
        /\ OrderOK(wire, k, store)
    BY <1>1, <2>1 DEF PagingInv, WireOK
  <2>3. Screen(n) => m.base <= n.base
    BY <1>4, <2>1, <2>2 DEF OrderOK, ScreenOrder, m
  <2>4. LiveLines(n) => m.erasedBelow <= n.firstIndex
    BY <1>4, <2>1, <2>2 DEF OrderOK, LinesOrder, m
  <2> HIDE DEF n
  <2>5. Screen(n) => /\ s2.base <= n.base /\ t2.below <= n.base
                     /\ \A i \in s2.browse : i < n.base
    <3> SUFFICES ASSUME Screen(n)
                 PROVE  /\ s2.base <= n.base /\ t2.below <= n.base
                        /\ \A i \in s2.browse : i < n.base
      OBVIOUS
    <3>1. n.base \in Nat /\ m.base <= n.base
      BY <2>2, <2>3, Kinds
    <3>2. s2.base = m.base /\ t2.below <= m.base /\ t2.below \in Nat /\ m.base \in Nat
      BY <1>6, <1>10, <1>12, <1>13
    <3>3. \A i \in s2.browse : i \in Nat /\ i < m.base
      BY <1>8, <1>9, <1>10
    <3> QED
      BY <3>1, <3>2, <3>3
  <2>6. LiveLines(n) => t2.below <= n.firstIndex /\ fetch.inFlight.end <= n.firstIndex
    BY <1>12, <2>2, <2>4 DEF FrameOK, LiveOK
  <2>7. store.base <= s2.base /\ committed <= committed /\ OldestIndex <= OldestIndex
    BY <1>8, <1>9, <1>10
  <2>8. FrameOK(n, s2, fetch, t2, committed, OldestIndex)
    BY <1>9, <1>10, <1>13, <2>2, <2>5, <2>6, <2>7, FrameStays
  <2> QED
    BY <2>8 DEF n
<1>16. BuiltOK(frame, wire, s2, t2, committed, OldestIndex)
  <2>1. BuiltOK(frame, wire, store, told, committed, OldestIndex)
    BY DEF PagingInv
  <2>2. Len(frame) = 2 => t2.below <= committed - 1 /\ s2.base <= committed - 1
    <3> SUFFICES ASSUME Len(frame) = 2
                 PROVE  t2.below <= committed - 1 /\ s2.base <= committed - 1
      OBVIOUS
    <3>1. frame # <<>>
      OBVIOUS
    <3>2. m.base <= committed - 1
      BY <1>4, <2>1, <3>1 DEF BuiltOK, m
    <3> QED
      BY <1>6, <1>9, <1>10, <1>12, <1>13, <3>2
  <2>3. t2.below <= committed
    BY <1>6, <1>8, <1>9, <1>12, <1>13
  <2> QED
    BY <1>9, <1>10, <1>14, <2>1, <2>2, <2>3, BuiltFits
<1>17. RequestsOK(s2, fetch, up, answer, t2, OldestIndex)
  <2>1. RequestsOK(store, fetch, up, answer, told, OldestIndex)
    BY DEF PagingInv
  <2>2. s2.solicited = NoRequest \/ s2.solicited = store.solicited
    BY <1>6, <1>10
  <2>3. store.base <= s2.base /\ OldestIndex <= OldestIndex
    BY <1>8, <1>9, <1>10
  <2>4. fetch.inFlight \in {fetch.inFlight, NoRequest}
    OBVIOUS
  <2>5. RequestsOK(s2, fetch, up, answer, told, OldestIndex)
    BY <1>9, <1>10, <2>1, <2>2, <2>3, <2>4, RequestsStay
  <2>6. s2.solicited # NoRequest => t2 = told
    BY <1>6, <1>10, <1>12
  <2> QED
    BY <2>5, <2>6 DEF RequestsOK
<1>18. FloorsOK(s2, t2, clearing, doubt, strays, OldestIndex)
  <2>1. /\ doubt \/ store.pagingFloor <= Greater(OldestIndex, told.base)
        /\ told.below <= store.pagingFloor /\ told.below <= OldestIndex
        /\ clearing <= OldestIndex
        /\ \A i \in Held(store) \ strays : told.below <= i
    BY <1>11 DEF FloorsOK
  <2>2. s2.pagingFloor \in Nat
    BY <1>10 DEF IsStore
  <2>3. CASE m.scrollbackCleared
    <3>1. s2.pagingFloor = Greater(store.pagingFloor, m.base)
      BY <1>10, <2>3
    <3>2. t2.below \in {told.below, m.erasedBelow} /\ t2.base >= told.base /\ t2.base >= m.base
      BY <1>12, <2>3
    <3>3. doubt \/ s2.pagingFloor <= Greater(OldestIndex, t2.base)
      BY <1>6, <1>9, <1>13, <2>1, <3>1, <3>2 DEF Greater
    <3>4. t2.below <= s2.pagingFloor
      BY <1>6, <1>9, <1>12, <1>13, <3>1 DEF Greater
    <3>5. \A i \in Held(s2) : t2.below <= i
      <4> SUFFICES ASSUME NEW i \in Held(s2) PROVE t2.below <= i
        OBVIOUS
      <4>1. i \in Nat
        <5>1. Held(s2) \in SUBSET Held(s2)
          OBVIOUS
        <5> QED
          BY <1>10, <5>1, StoreSets
      <4>2. i >= m.base
        BY <1>10, <2>3
      <4> QED
        BY <1>6, <1>12, <1>13, <4>1, <4>2
    <3> QED
      BY <1>12, <2>1, <3>3, <3>4, <3>5 DEF FloorsOK
  <2>4. CASE ~m.scrollbackCleared
    <3>1. s2.pagingFloor = store.pagingFloor /\ t2 = told
      BY <1>10, <1>12, <2>4
    <3>2. \A i \in Held(s2) \ strays : t2.below <= i
      <4> SUFFICES ASSUME NEW i \in Held(s2), i \notin strays PROVE told.below <= i
        BY <3>1
      <4>1. i \in Nat
        <5>1. Held(s2) \in SUBSET Held(s2)
          OBVIOUS
        <5> QED
          BY <1>10, <5>1, StoreSets
      <4>2. i \in Held(store) \/ i >= m.base
        BY <1>10
      <4> QED
        BY <1>6, <1>8, <1>9, <2>1, <4>1, <4>2
    <3> QED
      BY <2>1, <3>1, <3>2 DEF FloorsOK
  <2> QED
    BY <2>3, <2>4
<1>19. s2.height > 0 /\ s2.height # 0
  BY <1>10, Constants
<1>20. /\ s2 = store' /\ fetch = fetch' /\ t2 = told' /\ doubt = doubt' /\ strays = strays'
       /\ Screen(wire[1]) /\ s2.base = wire[1].base
  BY <1>3, <1>4, <1>10 DEF s2, t2, m
<1> QED
  BY <1>2, <1>3, <1>9, <1>10, <1>12, <1>14, <1>15, <1>16, <1>17, <1>18, <1>19, <1>20,
     ReceiveSteps

\* Lines that arrive below the screen leave the rest of what is under way as good
\* as it was.
LEMMA LinesArrive ==
    ASSUME RingInv, PagingInv, wire # <<>>, ~Screen(wire[1]), store.height > 0,
           NEW s2, IsStore(s2), s2 = store', s2.base = store.base, s2.height = store.height,
           StoreOK(s2, committed), \A i \in s2.browse : i < store.base,
           NEW f2 \in Fetches, f2 = fetch', f2.inFlight \in {fetch.inFlight, NoRequest},
           \/ s2.solicited = NoRequest
           \/ s2.solicited = store.solicited /\ f2.inFlight = fetch.inFlight,
           NEW d2 \in BOOLEAN, d2 = doubt', NEW st2, st2 = strays',
           FloorsOK(s2, told, clearing, d2, st2, OldestIndex),
           told' = told, wire' = Tail(wire), due' = TRUE,
           UNCHANGED <<vars, reader, serverVars, live, up>>
    PROVE  PagingInv'
<1>1. /\ committed \in Nat /\ OldestIndex \in Nat /\ IsStore(store) /\ store.base \in Nat
      /\ told.below \in Nat /\ OldestIndex <= committed /\ wire \in Seq(Frames)
      /\ told \in [below : Nat, base : Nat] /\ up \in Seq(Requests)
      /\ answer \in Seq(ScrollFrames) /\ fetch.inFlight \in Requests /\ fetch.inFlight.end \in Nat
      /\ store.base <= committed
  BY Parts DEF PagingInv, PagingTypes
<1>2. Len(wire) \in Nat /\ Len(wire) >= 1
  BY <1>1, WireTail
<1>3. NoRequest.end = 0
  BY DEF NoRequest
<1>4. s2.browse \subseteq Nat
  <2>1. s2.browse \in SUBSET Held(s2)
    BY StoreSets
  <2> QED
    BY <2>1, StoreSets
<1>5. \A k \in 2..Len(wire) : FrameOK(wire[k], s2, f2, told, committed, OldestIndex)
  <2> SUFFICES ASSUME NEW k \in 2..Len(wire)
               PROVE  FrameOK(wire[k], s2, f2, told, committed, OldestIndex)
    OBVIOUS
  <2> DEFINE n == wire[k]
  <2>1. k \in 1..Len(wire)
    BY <1>2
  <2>2. n \in Frames /\ FrameOK(n, store, fetch, told, committed, OldestIndex)
    BY <1>1, <2>1 DEF PagingInv, WireOK
  <2> HIDE DEF n
  <2>3. Screen(n) => /\ s2.base <= n.base /\ told.below <= n.base
                     /\ \A i \in s2.browse : i < n.base
    <3> SUFFICES ASSUME Screen(n)
                 PROVE  /\ s2.base <= n.base /\ told.below <= n.base
                        /\ \A i \in s2.browse : i < n.base
      OBVIOUS
    <3>1. n.base \in Nat
      BY <2>2, Kinds
    <3>2. store.base <= n.base /\ told.below <= n.base
      BY <2>2 DEF FrameOK, ScreenOK
    <3>3. \A i \in s2.browse : i \in Nat /\ i < store.base
      BY <1>4
    <3> QED
      BY <1>1, <3>1, <3>2, <3>3
  <2>4. LiveLines(n) => told.below <= n.firstIndex /\ f2.inFlight.end <= n.firstIndex
    <3> SUFFICES ASSUME LiveLines(n)
                 PROVE  told.below <= n.firstIndex /\ f2.inFlight.end <= n.firstIndex
      OBVIOUS
    <3>1. n.firstIndex \in Nat
      BY <2>2, Kinds
    <3>2. told.below <= n.firstIndex /\ fetch.inFlight.end <= n.firstIndex
      BY <2>2 DEF FrameOK, LiveOK
    <3> QED
      BY <1>3, <3>1, <3>2
  <2>5. store.base <= s2.base /\ committed <= committed /\ OldestIndex <= OldestIndex
    BY <1>1
  <2>6. FrameOK(n, s2, f2, told, committed, OldestIndex)
    BY <1>1, <2>2, <2>3, <2>4, <2>5, FrameStays
  <2> QED
    BY <2>6 DEF n
<1>6. BuiltOK(frame, wire, s2, told, committed, OldestIndex)
  <2>1. BuiltOK(frame, wire, store, told, committed, OldestIndex)
    BY DEF PagingInv
  <2>2. Len(frame) = 2 => told.below <= committed - 1 /\ s2.base <= committed - 1
    <3> SUFFICES ASSUME Len(frame) = 2
                 PROVE  told.below <= committed - 1 /\ s2.base <= committed - 1
      OBVIOUS
    <3>1. frame # <<>>
      <4> DEFINE n == Len(frame)
      <4>1. frame = <<>> => n = 0
        OBVIOUS
      <4>2. n = 2
        OBVIOUS
      <4> HIDE DEF n
      <4> QED
        BY <4>1, <4>2
    <3> QED
      BY <2>1, <3>1 DEF BuiltOK
  <2>3. told.below <= committed
    <3>1. told.below <= OldestIndex
      BY DEF PagingInv, FloorsOK
    <3> QED
      BY <1>1, <3>1
  <2> QED
    BY <1>1, <2>1, <2>2, <2>3, BuiltFits
<1>7. RequestsOK(s2, f2, up, answer, told, OldestIndex)
  <2>1. RequestsOK(store, fetch, up, answer, told, OldestIndex)
    BY DEF PagingInv
  <2>2. store.base <= s2.base /\ OldestIndex <= OldestIndex
    BY <1>1
  <2> QED
    BY <1>1, <2>1, <2>2, RequestsStay
<1>8. s2.base <= store.base /\ s2.height # 0
  BY <1>1
<1> QED
  BY <1>1, <1>5, <1>6, <1>7, <1>8, ReceiveSteps

\* A page of history in a store with a window.
PageOf(s, m, q, at) == applyHistoryScroll([s EXCEPT !.pagingFloor = q], m, at)
\* It brings no row above what was asked for.
LEMMA PageTaken ==
    ASSUME NEW s, IsStore(s), NEW com \in Nat, StoreOK(s, com), s.height > 0,
           NEW m \in ScrollFrames, NEW q \in Nat, NEW at \in Int,
           s.solicited.end <= s.base, m.firstIndex + Len(m.lines) <= s.base,
           NEW t, t = PageOf(s, m, q, at)
    PROVE  /\ IsStore(t) /\ StoreOK(t, com) /\ t.base = s.base /\ t.height = s.height
           /\ t.solicited = s.solicited /\ t.pagingFloor = q
           /\ \A i \in t.browse : i < s.base
           /\ \A i \in Held(t) : i \in Held(s) \/ m.firstIndex <= i
           /\ s.solicited = NoRequest => Held(t) = Held(s)
<1> DEFINE s1 == [s EXCEPT !.pagingFloor = q]
           brought == m.firstIndex .. m.firstIndex + Len(m.lines) - 1
<1>1. /\ IsStore(s1) /\ Held(s1) = Held(s) /\ s1.browse = s.browse
      /\ s1.base = s.base /\ s1.height = s.height /\ s1.solicited = s.solicited
      /\ s1.pagingFloor = q /\ s1.unconfirmedFrom = s.unconfirmedFrom
  BY FloorChanged
<1>2. t = applyHistoryScroll(s1, m, at)
  BY DEF PageOf
<1> HIDE DEF s1
<1>3. /\ (Capped(s) <=> Capped(s1)) /\ Window(s1) = Window(s)
  BY <1>1, SameRows
<1>4. /\ Capped(s) /\ Cardinality(s.browse) <= CacheBound
      /\ s.base <= com /\ Window(s) \subseteq Held(s)
      /\ \A i \in Held(s) : i < s.base + s.height
      /\ \A i \in s.browse : i < s.base
      /\ Held(s) = {} \/ s.unconfirmedFrom <= com
  BY DEF StoreOK
<1>5. /\ s.base \in Nat /\ s.height \in Nat /\ Held(s) \subseteq Nat
      /\ \A i : i \in Window(s) <=> i \in Int /\ s.base <= i /\ i < s.base + s.height
      /\ s.browse \subseteq Nat
  <2>1. Held(s) \in SUBSET Held(s) /\ s.browse \in SUBSET Held(s)
    BY StoreSets
  <2> QED
    BY <2>1, StoreSets
<1>6. s.browse \cap Window(s) = {}
  BY <1>4, <1>5
<1>7. \A i \in Span(s.solicited) : i \in Int /\ i < s.base
  <2> DEFINE r == s.solicited
  <2>1. r \in Requests
    BY DEF IsStore
  <2>2. r.end <= s.base
    OBVIOUS
  <2> HIDE DEF r
  <2>3. \A i \in Span(r) : i \in Int /\ i < s.base
    BY <1>5, <2>1, <2>2, SpanLength
  <2> QED
    BY <2>3 DEF r
<1>8. Span(s.solicited) \cap Window(s) = {}
  BY <1>5, <1>7
<1>9. /\ IsStore(t) /\ SameWindow(t, s1) /\ Capped(t)
      /\ Cardinality(t.browse) <= CacheBound
      /\ Held(t) \subseteq Held(s) \cup brought
      /\ s.solicited = NoRequest => Held(t) = Held(s)
      /\ Held(s) \cap Window(s) \subseteq Held(t)
      /\ \A i \in t.browse : i \in s.browse \/ i \in Span(s.solicited)
  <2>1. /\ Capped(s1) /\ Cardinality(s1.browse) <= CacheBound
        /\ s1.browse \cap Window(s1) = {} /\ Span(s1.solicited) \cap Window(s1) = {}
    BY <1>1, <1>3, <1>4, <1>6, <1>8
  <2>2. LET u == applyHistoryScroll(s1, m, at)
        IN  /\ IsStore(u) /\ SameWindow(u, s1) /\ Capped(u)
            /\ Cardinality(u.browse) <= CacheBound
            /\ Held(u) \subseteq Held(s1) \cup brought
            /\ s1.solicited = NoRequest => Held(u) = Held(s1)
            /\ Held(s1) \cap Window(s1) \subseteq Held(u)
            /\ \A i \in u.browse : i \in s1.browse \/ i \in Span(s1.solicited)
    BY <1>1, <2>1, HistoryApplied, Zenon
  <2> QED
    BY <1>1, <1>2, <1>3, <2>2
<1>10. /\ t.base = s.base /\ t.height = s.height /\ t.solicited = s.solicited
       /\ t.pagingFloor = q /\ t.unconfirmedFrom = s.unconfirmedFrom
  BY <1>1, <1>9 DEF SameWindow
<1>11. Window(t) = Window(s)
  BY <1>10 DEF Window
<1>12. m.firstIndex \in Nat /\ Len(m.lines) \in Nat
  BY DEF ScrollFrames
<1>13. \A i \in brought : i \in Int /\ m.firstIndex <= i /\ i < s.base
  BY <1>5, <1>12
<1> HIDE DEF brought
<1>14. \A i \in t.browse : i \in Int /\ i < s.base
  BY <1>4, <1>5, <1>7, <1>9
<1>15. StoreOK(t, com)
  <2>1. \A i \in Held(t) : i < s.base + s.height
    BY <1>4, <1>5, <1>9, <1>13
  <2>2. \A i \in t.browse : i < com
    BY <1>4, <1>5, <1>14
  <2>3. Window(t) \subseteq Held(t)
    BY <1>4, <1>9, <1>11
  <2>4. s.unconfirmedFrom <= com
    <3>1. s.base \in Window(s)
      BY <1>5
    <3> QED
      BY <1>4, <3>1
  <2>5. s.height # 0
    BY <1>5
  <2> QED
    BY <1>4, <1>9, <1>10, <1>14, <2>1, <2>2, <2>3, <2>4, <2>5 DEF StoreOK
<1> QED
  BY <1>9, <1>10, <1>13, <1>14, <1>15

\* What a reply raises the floor to is gone, unless the reply was another request's.
LEMMA RaisedIsGone ==
    ASSUME NEW m \in Frames, Reply(m), NEW s, NEW old \in Nat, ReplyOK(m, s, old),
           fetch.inFlight \in Requests, m.answers = fetch.inFlight
    PROVE  RaisedFloor(m) <= old
<1>1. /\ m.lines = <<>> => m.answers.end <= old
      /\ m.firstIndex > m.answers.from => m.firstIndex <= old
  BY DEF ReplyOK
<1> QED
  BY <1>1 DEF RaisedFloor

\* A page of history.
LEMMA HistoryReplyStep ==
    ASSUME RingInv, PagingInv, ReceiveHistoryReply
    PROVE  PagingInv'
<1> DEFINE m == wire[1]
           s2 == store'
           f2 == fetch'
           d2 == doubt'
           r == RaisedFloor(m)
           q == Greater(store.pagingFloor, r)
           page == applyHistoryScroll([store EXCEPT !.pagingFloor = q], m, viewportAbs)
           ask == fetch.inFlight
<1>1. wire \in Seq(Frames)
  BY Parts
<1>2. wire # <<>> /\ Head(wire).type = "scroll" /\ Head(wire) = m
  BY <1>1, WireTail DEF ReceiveHistoryReply, Take
<1>3. /\ wire' = Tail(wire) /\ due' = TRUE /\ UNCHANGED <<vars, reader, serverVars, live, up>>
      /\ m.firstIndex \in Span(ask)
      /\ IF Contained(m)
         THEN /\ f2 = [fetch EXCEPT !.inFlight = NoRequest,
                          !.effMax = Lesser(2 * @, fetch.ceiling)]
              /\ s2 = [page EXCEPT !.solicited = NoRequest]
         ELSE f2 = fetch /\ s2 = page
      /\ d2 = (doubt \/ (r > 0 /\ m.answers \notin {NoRequest, ask}))
      /\ told' = told /\ strays' = strays
  BY <1>2 DEF ReceiveHistoryReply, Take, Correlated
<1>4. m \in Frames /\ m.type = "scroll" /\ Len(wire) \in Nat /\ 1 \in 1..Len(wire)
  BY <1>1, <1>2, WireTail
<1>5. /\ FrameOK(m, store, fetch, told, committed, OldestIndex)
      /\ LiveLines(m) => ask.end <= m.firstIndex
  <2>1. FrameOK(m, store, fetch, told, committed, OldestIndex)
    BY <1>4 DEF PagingInv, WireOK
  <2>2. LiveLines(m) => ask.end <= m.firstIndex
    BY <1>4, LiveAreNoReplies
  <2> QED
    BY <2>1, <2>2
<1>6. /\ committed \in Nat /\ OldestIndex \in Nat /\ IsStore(store) /\ store.base \in Nat
      /\ told.below \in Nat /\ told.base \in Nat /\ fetch \in Fetches
      /\ store.pagingFloor \in Nat /\ Held(store) \subseteq Nat
      /\ ask \in Requests /\ ask.end \in Nat /\ ask.from \in Nat /\ doubt \in BOOLEAN
      /\ reader \in Nat \cup {Following}
  BY Parts DEF PagingInv, PagingTypes
<1> HIDE DEF m
<1>7. m.firstIndex \in Nat /\ Len(m.lines) \in Nat /\ m \in ScrollFrames /\ ~Screen(m)
      /\ (Reply(m) \/ LiveLines(m)) /\ m.answers.end \in Nat
  BY <1>4, Kinds
<1>8. ask.from <= m.firstIndex /\ m.firstIndex < ask.end
  <2> HIDE DEF ask
  <2> QED
    BY <1>3, <1>6, SpanLength
<1>9. Reply(m) /\ ReplyOK(m, store, OldestIndex)
  <2>1. ~LiveLines(m)
    BY <1>5, <1>6, <1>7, <1>8
  <2> QED
    BY <1>5, <1>7, <2>1 DEF FrameOK
<1>10. m.answers.end <= store.base /\ m.firstIndex + Len(m.lines) <= m.answers.end
  BY <1>9 DEF ReplyOK
<1>11. StoreOK(store, committed) /\ RequestsOK(store, fetch, up, answer, told, OldestIndex)
       /\ FloorsOK(store, told, clearing, doubt, strays, OldestIndex)
  BY DEF PagingInv
<1>12. /\ ask.end <= store.base /\ store.solicited \in {NoRequest, ask}
       /\ store.solicited # NoRequest => told.below <= store.solicited.from
  BY <1>11 DEF RequestsOK
<1>13. store.height > 0
  <2>1. store.base # 0
    BY <1>6, <1>7, <1>8, <1>12
  <2>2. store.height # 0
    BY <1>11, <2>1 DEF StoreOK
  <2>3. store.height \in {0, Height}
    BY <1>6 DEF IsStore
  <2> QED
    BY <2>2, <2>3, Constants
<1>14. r \in Nat /\ q \in Nat /\ q >= store.pagingFloor /\ (q = store.pagingFloor \/ (q = r /\ r > 0))
  <2>1. r \in Nat
    BY <1>6, <1>7 DEF RaisedFloor
  <2> HIDE DEF r
  <2> QED
    BY <1>6, <2>1 DEF Greater
<1>15. m.answers = ask => r <= OldestIndex
  BY <1>4, <1>6, <1>9, RaisedIsGone
<1>16. m.answers # NoRequest
  BY <1>9 DEF Reply
<1> HIDE DEF r, q
<1>17. /\ IsStore(page) /\ StoreOK(page, committed) /\ page.base = store.base
       /\ page.height = store.height
       /\ page.solicited = store.solicited /\ page.pagingFloor = q
       /\ \A i \in page.browse : i < store.base
       /\ \A i \in Held(page) : i \in Held(store) \/ m.firstIndex <= i
       /\ store.solicited = NoRequest => Held(page) = Held(store)
  <2> DEFINE at == viewportAbs
  <2>1. at \in Int
    BY <1>6 DEF viewportAbs
  <2>2. page = PageOf(store, m, q, at)
    BY DEF PageOf
  <2>3. store.solicited.end <= store.base
    <3>1. NoRequest.end = 0
      BY DEF NoRequest
    <3> QED
      BY <1>6, <1>12, <3>1
  <2>4. m.firstIndex + Len(m.lines) <= store.base
    BY <1>6, <1>7, <1>10
  <2>5. /\ IsStore(store) /\ committed \in Nat /\ StoreOK(store, committed)
        /\ m \in ScrollFrames /\ q \in Nat
    BY <1>6, <1>7, <1>11, <1>14
  <2> HIDE DEF at, page
  <2> QED
    BY <1>13, <2>1, <2>2, <2>3, <2>4, <2>5, PageTaken
<1> HIDE DEF page, f2, s2, d2
<1>18. /\ IsStore(s2) /\ Held(s2) = Held(page) /\ s2.browse = page.browse
       /\ s2.base = store.base /\ s2.height = store.height /\ s2.pagingFloor = q
       /\ StoreOK(s2, committed)
       /\ \/ s2.solicited = NoRequest
          \/ s2.solicited = store.solicited /\ f2 = fetch
  <2>1. CASE Contained(m)
    <3>1. NoRequest \in Requests
      BY DEF NoRequest, Requests
    <3>2. s2 = [page EXCEPT !.solicited = NoRequest]
      BY <1>3, <2>1
    <3>3. /\ IsStore(s2) /\ Held(s2) = Held(page) /\ s2.browse = page.browse
          /\ s2.base = page.base /\ s2.height = page.height /\ s2.solicited = NoRequest
          /\ s2.pagingFloor = page.pagingFloor /\ s2.unconfirmedFrom = page.unconfirmedFrom
      BY <1>17, <3>1, <3>2, SolicitedChanged
    <3>4. (Capped(page) <=> Capped(s2)) /\ Window(s2) = Window(page)
      BY <3>3, SameRows
    <3>5. StoreOK(s2, committed)
      BY <1>17, <3>3, <3>4 DEF StoreOK
    <3> QED
      BY <1>17, <3>3, <3>5
  <2>2. CASE ~Contained(m)
    BY <1>3, <1>17, <2>2
  <2> QED
    BY <2>1, <2>2
<1>19. f2 \in Fetches /\ f2.inFlight \in {ask, NoRequest}
  <2>1. CASE Contained(m)
    <3> DEFINE n == Lesser(2 * fetch.effMax, fetch.ceiling)
               g == [fetch EXCEPT !.inFlight = NoRequest]
               h == [g EXCEPT !.effMax = n]
    <3>1. f2 = h
      BY <1>3, <2>1
    <3>2. fetch.effMax \in MinPage..PageSize /\ fetch.ceiling \in MinPage..PageSize
      BY <1>6 DEF Fetches
    <3>3. n \in MinPage..PageSize
      BY <3>2, Constants DEF Lesser
    <3>4. NoRequest \in Requests
      BY DEF NoRequest, Requests
    <3>5. g \in Fetches /\ g.inFlight = NoRequest
      BY <1>6, <3>4 DEF Fetches
    <3> HIDE DEF n, g
    <3>6. h \in Fetches /\ h.inFlight = NoRequest
      BY <3>3, <3>5 DEF Fetches
    <3> QED
      BY <3>1, <3>6
  <2>2. CASE ~Contained(m)
    BY <1>3, <1>6, <2>2
  <2> QED
    BY <2>1, <2>2
<1>20. d2 \in BOOLEAN
  BY <1>3, <1>6
<1>21. FloorsOK(s2, told, clearing, d2, strays, OldestIndex)
  <2>1. /\ doubt \/ store.pagingFloor <= Greater(OldestIndex, told.base)
        /\ told.below <= store.pagingFloor /\ told.below <= OldestIndex
        /\ clearing <= OldestIndex
        /\ \A i \in Held(store) \ strays : told.below <= i
    BY <1>11 DEF FloorsOK
  <2>2. d2 \/ s2.pagingFloor <= Greater(OldestIndex, told.base)
    <3> SUFFICES ASSUME ~d2 PROVE q <= Greater(OldestIndex, told.base)
      BY <1>18
    <3>1. ~doubt /\ (r > 0 => m.answers = ask)
      BY <1>3, <1>16
    <3>2. store.pagingFloor <= Greater(OldestIndex, told.base)
      BY <2>1, <3>1
    <3>3. r > 0 => r <= OldestIndex
      BY <1>15, <3>1
    <3> QED
      BY <1>6, <1>14, <3>2, <3>3 DEF Greater
  <2>3. told.below <= s2.pagingFloor
    BY <1>6, <1>14, <1>18, <2>1
  <2>4. \A i \in Held(s2) \ strays : told.below <= i
    <3> SUFFICES ASSUME NEW i \in Held(s2), i \notin strays PROVE told.below <= i
      OBVIOUS
    <3>1. CASE i \in Held(store)
      BY <2>1, <3>1
    <3>2. CASE i \notin Held(store)
      <4>1. m.firstIndex <= i /\ store.solicited # NoRequest
        BY <1>17, <1>18, <3>2
      <4>2. told.below <= ask.from
        BY <1>12, <4>1
      <4>3. i \in Nat
        <5>1. Held(s2) \in SUBSET Held(s2)
          OBVIOUS
        <5> QED
          BY <1>18, <5>1, StoreSets
      <4> QED
        BY <1>6, <1>7, <1>8, <4>1, <4>2, <4>3
    <3> QED
      BY <3>1, <3>2
  <2> QED
    BY <2>1, <2>2, <2>3, <2>4 DEF FloorsOK
<1>22. \A i \in s2.browse : i < store.base
  BY <1>17, <1>18
<1>23. /\ s2 = store' /\ f2 = fetch' /\ d2 = doubt' /\ strays = strays' /\ ~Screen(wire[1])
  BY <1>3, <1>7 DEF s2, f2, d2, m
<1> QED
  BY <1>2, <1>3, <1>13, <1>18, <1>19, <1>20, <1>21, <1>22, <1>23, LinesArrive

\* Lines nobody waits for, in a store with a window.
LEMMA LinesTaken ==
    ASSUME NEW s, IsStore(s), NEW com \in Nat, StoreOK(s, com), s.height > 0,
           NEW m \in ScrollFrames, m.firstIndex + Len(m.lines) <= s.base,
           NEW t, t = applyScroll(s, m)
    PROVE  /\ IsStore(t) /\ StoreOK(t, com) /\ t.base = s.base /\ t.height = s.height
           /\ t.solicited = s.solicited /\ t.pagingFloor = s.pagingFloor
           /\ \A i \in t.browse : i < s.base
           /\ \A i \in Held(t) : \/ i \in Held(s)
                                 \/ /\ i \in Int /\ m.firstIndex <= i
                                    /\ i < m.firstIndex + Len(m.lines)
<1> DEFINE brought == m.firstIndex .. m.firstIndex + Len(m.lines) - 1
<1>1. /\ Capped(s) /\ Cardinality(s.browse) <= CacheBound
      /\ s.base <= com /\ Window(s) \subseteq Held(s)
      /\ \A i \in Held(s) : i < s.base + s.height
      /\ \A i \in s.browse : i < s.base /\ i < com
      /\ Held(s) = {} \/ s.unconfirmedFrom <= com
  BY DEF StoreOK
<1>2. /\ s.base \in Nat /\ s.height \in Nat /\ Held(s) \subseteq Nat
      /\ \A i : i \in Window(s) <=> i \in Int /\ s.base <= i /\ i < s.base + s.height
  <2>1. Held(s) \in SUBSET Held(s)
    OBVIOUS
  <2> QED
    BY <2>1, StoreSets
<1>3. m.firstIndex \in Nat /\ Len(m.lines) \in Nat
  BY DEF ScrollFrames
<1>4. m.firstIndex + Len(m.lines) <= com
  BY <1>1, <1>2, <1>3
<1>5. s.unconfirmedFrom <= com
  <2>1. s.base \in Window(s)
    BY <1>2
  <2> QED
    BY <1>1, <2>1
<1>6. /\ IsStore(t) /\ t.base = s.base /\ t.height = s.height /\ t.browse = s.browse
      /\ t.solicited = s.solicited /\ t.pagingFloor = s.pagingFloor
      /\ Held(t) \subseteq Held(s) \cup brought
      /\ Held(s) \cap Window(s) \subseteq Held(t)
      /\ Capped(s) => Capped(t)
      /\ \A c \in Int :
            /\ s.unconfirmedFrom <= c /\ m.firstIndex + Len(m.lines) <= c
            /\ s.height > 0 /\ Window(s) \subseteq Held(s) /\ s.base <= c
            => t.unconfirmedFrom <= c
  BY ScrollApplied
<1>7. t.unconfirmedFrom <= com
  <2>1. com \in Int
    OBVIOUS
  <2> QED
    BY <1>1, <1>4, <1>5, <1>6, <2>1
<1>8. \A i \in brought : i \in Int /\ m.firstIndex <= i /\ i < m.firstIndex + Len(m.lines)
                         /\ i < s.base
  BY <1>2, <1>3
<1> HIDE DEF brought
<1>9. Window(t) = Window(s)
  BY <1>6 DEF Window
<1>10. StoreOK(t, com)
  <2>1. \A i \in Held(t) : i < s.base + s.height
    BY <1>1, <1>2, <1>6, <1>8
  <2>2. s.height # 0 /\ Window(t) \subseteq Held(t)
    BY <1>1, <1>2, <1>6, <1>9
  <2> QED
    BY <1>1, <1>6, <1>7, <2>1, <2>2 DEF StoreOK
<1> QED
  BY <1>1, <1>6, <1>8, <1>10

\* A line of the pass, or an answer that came too late.
LEMMA LinesStep ==
    ASSUME RingInv, PagingInv, ReceiveScroll
    PROVE  PagingInv'
<1> DEFINE m == wire[1]
           s2 == store'
           st2 == strays'
<1>1. wire \in Seq(Frames)
  BY Parts
<1>2. wire # <<>> /\ Head(wire).type = "scroll" /\ Head(wire) = m
  BY <1>1, WireTail DEF ReceiveScroll, Take
<1>3. /\ wire' = Tail(wire) /\ due' = TRUE /\ UNCHANGED <<vars, reader, serverVars, live, up>>
      /\ s2 = applyScroll(store, m)
      /\ st2 = IF m.answers = NoRequest THEN strays ELSE strays \cup Span(m.answers)
      /\ fetch' = fetch /\ told' = told /\ doubt' = doubt
  BY <1>2 DEF ReceiveScroll, Take
<1>4. m \in Frames /\ m.type = "scroll" /\ Len(wire) \in Nat /\ 1 \in 1..Len(wire)
  BY <1>1, <1>2, WireTail
<1>5. /\ FrameOK(m, store, fetch, told, committed, OldestIndex)
      /\ LiveLines(m) => store.height > 0 /\ m.firstIndex + Len(m.lines) <= store.base
  BY <1>4 DEF PagingInv, WireOK, OrderOK, LinesOrder
<1>6. /\ committed \in Nat /\ OldestIndex \in Nat /\ IsStore(store) /\ store.base \in Nat
      /\ told.below \in Nat /\ fetch \in Fetches /\ doubt \in BOOLEAN
  BY Parts DEF PagingInv, PagingTypes
<1>7. StoreOK(store, committed) /\ FloorsOK(store, told, clearing, doubt, strays, OldestIndex)
  BY DEF PagingInv
<1> HIDE DEF m
<1>8. /\ m.firstIndex \in Nat /\ Len(m.lines) \in Nat /\ m \in ScrollFrames /\ ~Screen(m)
      /\ (Reply(m) \/ LiveLines(m)) /\ m.answers \in Requests
      /\ m.answers.from \in Nat /\ m.answers.end \in Nat
  BY <1>4, Kinds
<1>9. /\ store.height > 0 /\ m.firstIndex + Len(m.lines) <= store.base
      /\ \/ LiveLines(m) /\ told.below <= m.firstIndex
         \/ /\ Reply(m) /\ m.answers.from <= m.firstIndex
            /\ m.firstIndex + Len(m.lines) <= m.answers.end
  <2>1. CASE LiveLines(m)
    BY <1>5, <2>1 DEF FrameOK, LiveOK
  <2>2. CASE Reply(m)
    <3>1. /\ m.answers.from < m.answers.end /\ m.answers.end <= store.base
          /\ m.answers.from <= m.firstIndex /\ m.firstIndex + Len(m.lines) <= m.answers.end
      BY <1>5, <2>2 DEF FrameOK, ReplyOK
    <3>2. store.base # 0 /\ m.firstIndex + Len(m.lines) <= store.base
      BY <1>6, <1>8, <3>1
    <3>3. store.height # 0
      BY <1>7, <3>2 DEF StoreOK
    <3>4. store.height \in {0, Height}
      BY <1>6 DEF IsStore
    <3>5. store.height > 0
      BY <3>3, <3>4, Constants
    <3> QED
      BY <2>2, <3>1, <3>2, <3>5
  <2> QED
    BY <1>8, <2>1, <2>2
<1>10. /\ IsStore(s2) /\ StoreOK(s2, committed) /\ s2.base = store.base
       /\ s2.height = store.height
       /\ s2.solicited = store.solicited /\ s2.pagingFloor = store.pagingFloor
       /\ \A i \in s2.browse : i < store.base
       /\ \A i \in Held(s2) : \/ i \in Held(store)
                              \/ /\ i \in Int /\ m.firstIndex <= i
                                 /\ i < m.firstIndex + Len(m.lines)
  <2>1. s2 = applyScroll(store, m)
    BY <1>3
  <2> HIDE DEF s2
  <2> QED
    BY <1>6, <1>7, <1>8, <1>9, <2>1, LinesTaken
<1> HIDE DEF s2, st2
<1>11. FloorsOK(s2, told, clearing, doubt, st2, OldestIndex)
  <2>1. \A i \in Held(store) \ strays : told.below <= i
    BY <1>7 DEF FloorsOK
  <2>2. \A i \in Held(s2) \ st2 : told.below <= i
    <3> SUFFICES ASSUME NEW i \in Held(s2), i \notin st2 PROVE told.below <= i
      OBVIOUS
    <3>1. i \notin strays
      BY <1>3
    <3>2. CASE i \in Held(store)
      BY <2>1, <3>1, <3>2
    <3>3. CASE i \in Int /\ m.firstIndex <= i /\ i < m.firstIndex + Len(m.lines)
      <4>1. CASE LiveLines(m) /\ told.below <= m.firstIndex
        BY <1>6, <1>8, <3>3, <4>1
      <4>2. CASE /\ Reply(m) /\ m.answers.from <= m.firstIndex
                 /\ m.firstIndex + Len(m.lines) <= m.answers.end
        <5>1. m.answers.from <= i /\ i < m.answers.end
          BY <1>8, <3>3, <4>2
        <5>2. i \in Span(m.answers)
          BY <1>8, <3>3, <5>1, SpanLength
        <5>3. m.answers # NoRequest
          BY <4>2 DEF Reply
        <5> QED
          BY <1>3, <5>2, <5>3
      <4> QED
        BY <1>9, <4>1, <4>2
    <3> QED
      BY <1>10, <3>2, <3>3
  <2> QED
    BY <1>7, <1>10, <2>2 DEF FloorsOK
<1>12. /\ s2 = store' /\ fetch = fetch' /\ doubt = doubt' /\ st2 = strays' /\ ~Screen(wire[1])
       /\ fetch.inFlight \in {fetch.inFlight, NoRequest}
  BY <1>3, <1>8 DEF s2, st2, m
<1> QED
  BY <1>2, <1>3, <1>6, <1>9, <1>10, <1>11, <1>12, LinesArrive

-----------------------------------------------------------------------------
(* The page.                                                                 *)

\* It starts so.
LEMMA PagingInvInit == Init /\ PagingInit => RingInv /\ PagingInv
<1> SUFFICES ASSUME Init, PagingInit PROVE RingInv /\ PagingInv
  OBVIOUS
<1>1. RingInv
  BY RingInvInit
<1>2. /\ committed \in Nat /\ OldestIndex \in Nat /\ OldestIndex <= committed
  BY <1>1, Bounds DEF OldestIndex
<1>3. /\ store = NewStore /\ reader = Following /\ due = FALSE /\ fetch = newHistoryState
      /\ live = FALSE /\ up = <<>> /\ answer = <<>> /\ frame = <<>> /\ clearing = NoErasure
      /\ wire = <<>> /\ told = [below |-> 0, base |-> 0] /\ doubt = FALSE /\ strays = {}
  BY DEF PagingInit, None
<1>4. /\ IsStore(store) /\ Held(store) = {} /\ store.browse = {}
      /\ store.base = 0 /\ store.height = 0 /\ store.solicited = NoRequest
      /\ store.pagingFloor = 0
  BY <1>3, NewIsStore
<1>5. /\ NoRequest \in Requests /\ NoRequest.end = 0 /\ NoRequest.from = 0
  BY DEF NoRequest, Requests
<1>6. fetch \in Fetches /\ ~fetch.acked /\ fetch.inFlight = NoRequest
  <2>1. PageSize \in MinPage..PageSize /\ Burst \in 0..Burst /\ NoMax \in Nat
    BY Constants DEF NoMax
  <2> QED
    BY <1>3, <1>5, <2>1 DEF newHistoryState, Fetches
<1>7. told \in [below : Nat, base : Nat] /\ told.below = 0 /\ told.base = 0
  BY <1>3
<1>8. Len(<<>>) = 0 /\ ~(0 > 0) /\ 0 <= 1 /\ \A k \in 1..0 : FALSE
  OBVIOUS
<1>9. PagingTypes
  <2>1. /\ <<>> \in Seq(Requests) /\ <<>> \in Seq(ScrollFrames) /\ <<>> \in Seq(Frames)
    OBVIOUS
  <2> QED
    BY <1>3, <1>4, <1>6, <1>7, <2>1 DEF PagingTypes
<1>10. StoreOK(store, committed)
  <2>1. TailRows(store) = {} /\ Cardinality({}) = 0
    BY <1>4, FS_EmptySet DEF TailRows
  <2>2. 0 <= tailBound(store) /\ 0 <= CacheBound
    BY <1>4, StoreSets, CacheBoundIs
  <2> QED
    BY <1>2, <1>4, <2>1, <2>2 DEF StoreOK, Capped
<1>11. WireOK(wire, store, fetch, told, committed, OldestIndex)
  BY <1>3, <1>8 DEF WireOK
<1>12. AckOK(wire, fetch, up, answer, told, committed, OldestIndex)
  BY <1>3, <1>8 DEF AckOK
<1>13. BuiltOK(frame, wire, store, told, committed, OldestIndex)
  BY <1>3 DEF BuiltOK
<1>14. RequestsOK(store, fetch, up, answer, told, OldestIndex)
  <2>1. 0 <= 0 /\ 0 <= 0 + PageSize
    BY Constants
  <2> QED
    BY <1>3, <1>4, <1>5, <1>6, <1>8, <2>1 DEF RequestsOK
<1>15. SocketOK(live, wire, store, fetch, up, answer, frame)
  BY <1>3, <1>6 DEF SocketOK
<1>16. FloorsOK(store, told, clearing, doubt, strays, OldestIndex)
  <2>1. 0 <= OldestIndex /\ NoErasure <= OldestIndex /\ 0 <= 0
    BY <1>2 DEF NoErasure
  <2>2. 0 <= Greater(OldestIndex, 0)
    BY <1>2 DEF Greater
  <2> QED
    BY <1>3, <1>4, <1>7, <2>1, <2>2 DEF FloorsOK
<1> QED
  BY <1>1, <1>9, <1>10, <1>11, <1>12, <1>13, <1>14, <1>15, <1>16 DEF PagingInv

\* Whatever the page does, the ring's own invariant is the ring's.
LEMMA PagingIsRing == RingInv /\ [PagingNext]_allVars => RingInv'
<1> SUFFICES ASSUME RingInv, [PagingNext]_allVars PROVE RingInv'
  OBVIOUS
<1>1. CASE ScrollLine
  <2>1. AppendGrowing(Row) \/ AppendEvicting(Row)
    BY <1>1 DEF ScrollLine
  <2>2. capacity > 0
    BY <2>1 DEF AppendGrowing, AppendEvicting
  <2>3. [Next]_vars
    BY <2>1, <2>2, RowIsALine DEF Next
  <2> QED
    BY <2>3, RingInvStep
<1>2. CASE EraseSavedLines
  <2>1. [Next]_vars
    BY <1>2 DEF EraseSavedLines, Next
  <2> QED
    BY <2>1, RingInvStep
<1>3. CASE UNCHANGED vars
  BY <1>3, RingInvStep
<1>4. ScrollLine \/ EraseSavedLines \/ UNCHANGED vars
  <2>1. CASE UNCHANGED allVars
    BY <2>1 DEF allVars
  <2>2. CASE PagingNext
    <3>1. ASSUME NEW at, Scroll(at) PROVE UNCHANGED vars
      BY <3>1 DEF Scroll
    <3>2. ASSUME flushRender \/ demandTimer PROVE UNCHANGED vars
      BY <3>2 DEF flushRender, demandTimer
    <3>3. ASSUME RefillToken \/ onHistoryDataTimeout \/ dropBrowseCache \/ RedrawScreen
          PROVE  UNCHANGED vars
      BY <3>3 DEF RefillToken, onHistoryDataTimeout, dropBrowseCache, RedrawScreen
    <3>4. ASSUME Resume PROVE UNCHANGED vars
      BY <3>4 DEF Resume
    <3>5. ASSUME \/ DispatchFrame \/ ServeHistory \/ WriteHistory \/ ThrottleHistory \/ Cut
          PROVE  UNCHANGED vars
      BY <3>5 DEF DispatchFrame, ServeHistory, WriteHistory, ThrottleHistory, Cut
    <3>6. ASSUME ReceiveResumeAck \/ ReceiveScreen \/ ReceiveHistoryReply \/ ReceiveScroll
          PROVE  UNCHANGED vars
      BY <3>6, Zenon DEF ReceiveResumeAck, ReceiveScreen, ReceiveHistoryReply, ReceiveScroll, Take
    <3> QED
      BY <2>2, <3>1, <3>2, <3>3, <3>4, <3>5, <3>6 DEF PagingNext
  <2> QED
    BY <2>1, <2>2
<1> QED
  BY <1>1, <1>2, <1>3, <1>4

\* Nothing happens.
LEMMA PagingStutters ==
    ASSUME PagingInv, UNCHANGED allVars
    PROVE  PagingInv'
<1>1. /\ committed' = committed /\ OldestIndex' = OldestIndex
      /\ store' = store /\ fetch' = fetch /\ reader' = reader /\ due' = due
      /\ answer' = answer /\ frame' = frame /\ clearing' = clearing
      /\ live' = live /\ up' = up /\ wire' = wire
      /\ told' = told /\ doubt' = doubt /\ strays' = strays
  BY DEF allVars, vars, pagingVars, pageVars, serverVars, linkVars, ghosts, OldestIndex
<1> QED
  BY <1>1 DEF PagingInv, PagingTypes

\* Every step keeps it.
LEMMA PagingInvStep ==
    FlushInBatch = FALSE =>
        (RingInv /\ PagingInv /\ [PagingNext]_allVars => RingInv' /\ PagingInv')
<1> SUFFICES ASSUME FlushInBatch = FALSE, RingInv, PagingInv, [PagingNext]_allVars
             PROVE  RingInv' /\ PagingInv'
  OBVIOUS
<1>1. RingInv'
  BY PagingIsRing
<1>2. PagingInv'
  <2>1. CASE UNCHANGED allVars
    BY <2>1, PagingStutters
  <2>2. ASSUME NEW at, Scroll(at) PROVE PagingInv'
    BY <2>2, ScrollStep
  <2>3. ASSUME flushRender PROVE PagingInv'
    BY <2>3, FlushStep
  <2>4. ASSUME demandTimer PROVE PagingInv'
    BY <2>4, DemandStep
  <2>5. ASSUME RefillToken PROVE PagingInv'
    BY <2>5, RefillStep
  <2>6. ASSUME onHistoryDataTimeout PROVE PagingInv'
    BY <2>6, TimeoutStep
  <2>7. ASSUME dropBrowseCache PROVE PagingInv'
    BY <2>7, DropStep
  <2>8. ASSUME ScrollLine PROVE PagingInv'
    BY <2>8, ScrollLineStep
  <2>9. ASSUME RedrawScreen PROVE PagingInv'
    BY <2>9, RedrawStep
  <2>10. ASSUME EraseSavedLines PROVE PagingInv'
    BY <2>10, EraseStep
  <2>11. ASSUME DispatchFrame PROVE PagingInv'
    BY <2>11, DispatchStep
  <2>12. ASSUME ServeHistory PROVE PagingInv'
    BY <2>12, ServeStep
  <2>13. ASSUME WriteHistory PROVE PagingInv'
    BY <2>13, WriteStep
  <2>14. ASSUME ThrottleHistory PROVE PagingInv'
    BY <2>14, ThrottleStep
  <2>15. ASSUME Cut PROVE PagingInv'
    BY <2>15, CutStep
  <2>16. ASSUME Resume PROVE PagingInv'
    BY <2>16, ResumeStep
  <2>17. ASSUME ReceiveResumeAck PROVE PagingInv'
    BY <2>17, AckStep
  <2>18. ASSUME ReceiveScreen PROVE PagingInv'
    BY <2>18, ScreenStep
  <2>19. ASSUME ReceiveHistoryReply PROVE PagingInv'
    BY <2>19, HistoryReplyStep
  <2>20. ASSUME ReceiveScroll PROVE PagingInv'
    BY <2>20, LinesStep
  <2> QED
    BY <2>1, <2>2, <2>3, <2>4, <2>5, <2>6, <2>7, <2>8, <2>9, <2>10, <2>11, <2>12, <2>13,
       <2>14, <2>15, <2>16, <2>17, <2>18, <2>19, <2>20 DEF PagingNext
<1> QED
  BY <1>1, <1>2

\* What it means for the page.
LEMMA PageFromInv == RingInv /\ PagingInv => PageIsSound
<1> SUFFICES ASSUME RingInv, PagingInv PROVE PageIsSound
  OBVIOUS
<1>1. PagingTypeOK
  <2>1. /\ fetch.effMax \in MinPage..PageSize /\ fetch.ceiling \in MinPage..PageSize
        /\ fetch.tokens \in 0..Burst
    BY Parts DEF Fetches
  <2>2. \A k \in DOMAIN up : Cardinality(Span(up[k])) \in 1..PageSize
    <3> SUFFICES ASSUME NEW k \in DOMAIN up PROVE Cardinality(Span(up[k])) \in 1..PageSize
      OBVIOUS
    <3> DEFINE r == up[k]
    <3>1. up \in Seq(Requests)
      BY Parts
    <3>2. k \in 1..Len(up) /\ r \in Requests
      BY <3>1
    <3>3. RequestOK(r, store)
      BY <3>2 DEF PagingInv, RequestsOK
    <3> HIDE DEF r
    <3>4. /\ r.from \in Nat /\ r.end \in Nat
          /\ Cardinality(Span(r)) = IF r.from < r.end THEN r.end - r.from ELSE 0
      BY <3>2, SpanLength
    <3>5. Cardinality(Span(r)) \in 1..PageSize
      BY <3>3, <3>4, Constants DEF RequestOK
    <3> QED
      BY <3>5 DEF r
  <2> QED
    BY <2>1, <2>2 DEF PagingTypeOK, PagingInv, PagingTypes
<1>2. BudgetsHold
  <2>1. IsStore(store) /\ StoreOK(store, committed)
    BY DEF PagingInv, PagingTypes
  <2>2. /\ Capped(store) /\ Cardinality(store.browse) <= CacheBound
        /\ store.height > 0 => \A i \in store.browse : i < store.base
    BY <2>1 DEF StoreOK
  <2>3. /\ store.browse \in SUBSET Held(store) /\ store.base \in Nat /\ store.height \in Nat
        /\ \A i : i \in Window(store) <=>
                i \in Int /\ store.base <= i /\ i < store.base + store.height
    BY <2>1, StoreSets
  <2>4. store.browse \cap Window(store) = {}
    <3>1. CASE store.height = 0
      BY <3>1 DEF Window
    <3>2. CASE store.height > 0
      BY <2>2, <2>3, <3>2
    <3> QED
      BY <2>3, <3>1, <3>2
  <2> QED
    BY <2>2, <2>3, <2>4 DEF BudgetsHold, Capped, CacheBound
<1>3. LicenceIsTheRequest
  BY DEF LicenceIsTheRequest, PagingInv, RequestsOK
<1>4. FloorIsProven
  BY DEF FloorIsProven, PagingInv, FloorsOK
<1>5. ErasedStaysErased
  BY DEF ErasedStaysErased, PagingInv, FloorsOK
<1> QED
  BY <1>1, <1>2, <1>3, <1>4, <1>5 DEF PageIsSound

\* The store stays within its budgets, takes old rows on request only, calls
\* nothing gone that the server may still have, and shows nothing it was told was
\* erased: in whatever order pages, live lines, erasures, evictions, timeouts and
\* reconnects reach it, as long as the page draws nothing between two frames
\* written together (a render there can request a gap those frames fill, and take
\* a live frame for the reply).
THEOREM PagesStaySound == FlushInBatch = FALSE => (PagingSpec => []PageIsSound)
<1> SUFFICES ASSUME FlushInBatch = FALSE PROVE PagingSpec => []PageIsSound
  OBVIOUS
<1>1. Init /\ PagingInit => RingInv /\ PagingInv
  BY PagingInvInit
<1>2. RingInv /\ PagingInv /\ [PagingNext]_allVars => RingInv' /\ PagingInv'
  BY PagingInvStep
<1>3. RingInv /\ PagingInv => PageIsSound
  BY PageFromInv
<1> QED
  BY <1>1, <1>2, <1>3, PTL DEF PagingSpec
=============================================================================
