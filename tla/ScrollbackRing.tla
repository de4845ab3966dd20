--------------------------- MODULE ScrollbackRing ---------------------------
(***************************************************************************)
(* The scrollback ring of terminal/scrollback.go and its readers: the replay *)
(* of a resume and the reply to a history request (terminal/terminal.go).    *)
(* Lines are values; a line's wrap flag is part of it.  buf is the slice, so *)
(* its first size slots are in use; an append of several lines is as many    *)
(* steps, with the handler's lock held across them.                          *)
(***************************************************************************)
EXTENDS Integers, Sequences

CONSTANTS
    Lines,          \* what a line may be
    Capacities,     \* what an operator may configure
    MaxReplayLines, \* maxReplayLines
    MaxCommitted    \* bound: lines scrolled off

ASSUME CapacityAssumption == Capacities \subseteq Nat
ASSUME BoundAssumption == MaxReplayLines \in Nat \ {0} /\ MaxCommitted \in Nat

VARIABLES
    capacity, buf, size, start, count, committed,   \* scrollbackRing
    history     \* history: every line ever committed; history[a + 1] has index a

vars == <<capacity, buf, size, start, count, committed, history>>

Slots == 0..(capacity - 1)

Init ==
    /\ capacity \in Capacities
    /\ \E line \in Lines : buf = [i \in Slots |-> line]
    /\ size = 0 /\ start = 0 /\ count = 0 /\ committed = 0
    /\ history = <<>>

Commit(line) ==
    /\ committed < MaxCommitted
    /\ committed' = committed + 1
    /\ history' = Append(history, line)

\* Scrollback disabled: the index of the top screen row still advances.
AppendDisabled(line) ==
    /\ capacity = 0
    /\ Commit(line)
    /\ UNCHANGED <<capacity, buf, size, start, count>>

\* Growing: start is 0 and the append position is the ring index.
AppendGrowing(line) ==
    /\ capacity > 0
    /\ size < capacity
    /\ Commit(line)
    /\ buf' = [buf EXCEPT ![size] = line]
    /\ size' = size + 1
    /\ count' = count + 1
    /\ UNCHANGED <<capacity, start>>

\* Mutant of AppendEvicting: the wrap-around is missed.
AppendEvictingUnwrapped(line) ==
    /\ capacity > 0
    /\ size = capacity
    /\ Commit(line)
    /\ buf' = [buf EXCEPT ![start] = line]
    /\ start' = IF start + 1 < capacity THEN start + 1 ELSE start
    /\ UNCHANGED <<capacity, size, count>>

\* At capacity the slot of the oldest line is the next one to write.
AppendEvicting(line) ==
    /\ capacity > 0
    /\ size = capacity
    /\ Commit(line)
    /\ buf' = [buf EXCEPT ![start] = line]
    /\ start' = (start + 1) % capacity
    /\ UNCHANGED <<capacity, size, count>>

\* Mutant of Clear: the array is kept and only emptied.
ClearKeepingArray ==
    /\ start' = 0 /\ count' = 0
    /\ UNCHANGED <<capacity, buf, size, committed, history>>

\* ED 3: the array is dropped, the indices go on.
Clear ==
    /\ size' = 0 /\ start' = 0 /\ count' = 0
    /\ UNCHANGED <<capacity, buf, committed, history>>

Next ==
    \/ Clear
    \/ \E line \in Lines :
        AppendDisabled(line) \/ AppendGrowing(line) \/ AppendEvicting(line)

Spec == Init /\ [][Next]_vars

-----------------------------------------------------------------------------
(* The readers.                                                              *)

Greater(a, b) == IF a >= b THEN a ELSE b
Lesser(a, b) == IF a <= b THEN a ELSE b

OldestIndex == committed - count

\* at: the retained line at position i, 0 being the oldest.
At(i) == buf[(start + i) % size]

Positions(skip, take) == [i \in 1..take |-> At(skip + i - 1)]

Nothing == [first |-> committed, lines |-> <<>>]

LinesRange(abs, maxLines) ==
    IF count = 0 \/ abs >= committed \/ maxLines <= 0 THEN Nothing
    ELSE LET from == Greater(abs, OldestIndex)
             skip == from - OldestIndex
         IN  [first |-> from, lines |-> Positions(skip, Lesser(count - skip, maxLines))]

LinesFrom(abs) == LinesRange(abs, count)

\* replayStart: haveThrough is the last line the client holds, -1 for none;
\* replayMax is what it asked for, NoMax for nothing.
NoMax == 0
\* Mutant of ReplayStart: the line the client already holds is the first replayed
\* and the clamp is one short.
ReplayStartOffByOne(haveThrough, replayMax) ==
    LET bound == IF replayMax = NoMax THEN MaxReplayLines ELSE Lesser(MaxReplayLines, replayMax)
        from == Greater(haveThrough + 1, 0)
    IN  IF committed > bound THEN Greater(from, committed - bound - 1) ELSE from

ReplayStart(haveThrough, replayMax) ==
    LET bound == IF replayMax = NoMax THEN MaxReplayLines ELSE Lesser(MaxReplayLines, replayMax)
        from == Greater(haveThrough + 1, 0)
    IN  IF committed > bound THEN Greater(from, committed - bound) ELSE from

Prefixes(lines) == {SubSeq(lines, 1, n) : n \in 1..Len(lines)}

\* historyControl serves the intersection of the request and what is retained,
\* cut to a prefix by the byte budget (any prefix, by the lines' sizes); an
\* empty reply echoes the request.
HistoryReplies(fromAbs, maxLines) ==
    LET from == Greater(fromAbs, OldestIndex)
        lim == Lesser(fromAbs + maxLines, committed)
        page == IF from < lim THEN LinesRange(from, lim - from).lines ELSE <<>>
    IN  IF page = <<>> THEN {[first |-> fromAbs, lines |-> <<>>]}
        ELSE {[first |-> from, lines |-> lines] : lines \in Prefixes(page)}

-----------------------------------------------------------------------------
(* Properties.                                                               *)

TypeOK ==
    /\ capacity \in Capacities
    /\ buf \in [Slots -> Lines]
    /\ size \in 0..capacity /\ count \in 0..capacity
    /\ start \in Nat /\ (start < capacity \/ start = 0)
    /\ committed \in Nat
    /\ history \in Seq(Lines) /\ Len(history) = committed

\* The ring arithmetic, whatever mix of growth, eviction and clearing came
\* before: the i-th slot from start holds the i-th retained line.
SlotsMatchIndices ==
    /\ count = size
    /\ size < capacity => start = 0
    /\ count <= committed
    /\ \A i \in 0..(count - 1) : At(i) = history[committed - count + i + 1]

\* LinesFrom: a read from any index returns exactly the committed lines from
\* there (or from the oldest retained one) on, under their own indices.
ReadsAreExact ==
    \A abs \in 0..(committed + 1) :
        LET read == LinesFrom(abs)
        IN  /\ read.lines = SubSeq(history, read.first + 1, committed)
            /\ read.first = Lesser(Greater(abs, OldestIndex), committed)

\* The ring, after any mix of commits and erasures.
RingHolds == TypeOK /\ ReadsAreExact

\* The replay of a resume ends at the screen, carries no more than the bound,
\* and starts past the client's next line only where that line is evicted or
\* beyond the bound: no silent hole.
ReplayReachesScreen ==
    \A haveThrough \in -1..committed, replayMax \in 0..(MaxReplayLines + 1) :
        LET bound == IF replayMax = NoMax THEN MaxReplayLines ELSE replayMax
            read == LinesFrom(ReplayStart(haveThrough, replayMax))
            n == Len(read.lines)
        IN  /\ read.first + n = committed
            /\ n <= bound
            /\ haveThrough < committed /\ read.first > haveThrough + 1 =>
                    read.first = OldestIndex \/ n = Lesser(bound, MaxReplayLines)
            /\ read.first <= haveThrough => n = 0

\* A history reply lies in the requested window, its lines are the ones with
\* those indices, and what it skips or denies below the screen is evicted: the
\* client paints a permanent trim marker on that evidence.
HistoryReplyIsHonest ==
    \A fromAbs \in 0..committed, maxLines \in 1..3 :
        \A reply \in HistoryReplies(fromAbs, maxLines) :
            LET n == Len(reply.lines)
            IN  /\ fromAbs <= reply.first /\ reply.first + n <= fromAbs + maxLines
                /\ reply.lines = SubSeq(history, reply.first + 1, reply.first + n)
                /\ reply.first > fromAbs => reply.first = OldestIndex
                /\ n = 0 /\ fromAbs < committed =>
                        Lesser(fromAbs + maxLines, committed) <= OldestIndex

\* What a page is sent of the scrollback, at a resume or on request, leaves it no
\* hole it is not told of.
RepliesAreHonest == ReplayReachesScreen /\ HistoryReplyIsHonest

\* What a client was told is trimmed stays trimmed.
OldestNeverRetreats == [][OldestIndex' >= OldestIndex]_vars

\* The ring keeps the newest capacity lines and no others.
Log == INSTANCE RetainedLog WITH retained <- LinesFrom(0).lines

KeepsNewest == Log!Spec
=============================================================================
