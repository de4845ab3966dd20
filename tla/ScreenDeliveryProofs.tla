------------------------- MODULE ScreenDeliveryProofs -------------------------
(***************************************************************************)
(* What ScreenDelivery's theorems rest on: how each frame changes the page's *)
(* store, what the frames under way carry, and an inductive invariant that   *)
(* ties the rows of the store to the lines the server committed.             *)
(***************************************************************************)
EXTENDS ScreenDelivery, WellFoundedInduction, NaturalsInduction, FiniteSetTheorems,
        SequenceTheorems, TLAPS

-----------------------------------------------------------------------------
(* Minima and maxima.                                                        *)

\* Numbers from somewhere on have a smallest one.
LEMMA MinIsLeast ==
    ASSUME NEW b \in Int, NEW S \in SUBSET Int, S # {}, \A k \in S : b <= k
    PROVE  Min(S) \in S /\ \A k \in S : Min(S) <= k
<1> DEFINE Below == {p \in Nat \X Nat : p[1] < p[2]}
           T == {n \in Nat : n + b \in S}
<1>1. IsWellFoundedOn(Below, Nat)
  BY NatLessThanWellFounded DEF OpToRel
<1>2. T # {}
  <2>1. PICK k \in S : TRUE
    OBVIOUS
  <2>2. k - b \in Nat /\ (k - b) + b = k
    OBVIOUS
  <2> QED
    BY <2>2
<1>3. PICK n \in T : \A k \in T : ~(<<k, n>> \in Below)
  <2>1. T \subseteq Nat
    OBVIOUS
  <2> HIDE DEF Below, T
  <2> QED
    BY <1>1, <1>2, <2>1, WFMin
<1>4. ASSUME NEW k \in S PROVE n + b <= k
  <2>1. k \in Int /\ k - b \in Nat /\ (k - b) + b = k /\ n \in Nat
    BY <1>3
  <2>2. k - b \in T
    BY <2>1
  <2>3. ~(<<k - b, n>> \in Below)
    BY <1>3, <2>2
  <2>4. ~(k - b < n)
    BY <2>1, <2>3
  <2> QED
    BY <2>1, <2>4
<1>5. n + b \in S
  BY <1>3
<1> QED
  BY <1>4, <1>5 DEF Min

\* Numbers up to some bound have a largest one.
LEMMA MaxIsGreatest ==
    ASSUME NEW b \in Int, NEW S \in SUBSET Int, S # {}, \A k \in S : k <= b
    PROVE  Max(S) \in S /\ \A k \in S : Max(S) >= k
<1> DEFINE N == {0 - k : k \in S}
<1>1. N \in SUBSET Int /\ N # {} /\ \A k \in N : 0 - b <= k
  <2>1. \A k \in S : 0 - k \in Int /\ 0 - b <= 0 - k
    OBVIOUS
  <2> QED
    BY <2>1
<1>2. Min(N) \in N /\ \A k \in N : Min(N) <= k
  <2>1. 0 - b \in Int
    OBVIOUS
  <2> HIDE DEF N
  <2> QED
    BY <1>1, <2>1, MinIsLeast
<1>3. PICK x \in S : Min(N) = 0 - x
  BY <1>2
<1>4. ASSUME NEW k \in S PROVE x >= k
  <2>1. 0 - k \in N
    OBVIOUS
  <2>2. 0 - x <= 0 - k
    BY <1>2, <1>3, <2>1
  <2> QED
    BY <2>2
<1> QED
  BY <1>4 DEF Max

\* The smaller and the larger of two numbers.
LEMMA LowerAndHigher ==
    ASSUME NEW a \in Int, NEW b \in Int
    PROVE  /\ LowerOf(a, b) = IF a <= b THEN a ELSE b
           /\ HigherOf(a, b) = IF a >= b THEN a ELSE b
<1>1. LowerOf(a, b) = IF a <= b THEN a ELSE b
  <2> DEFINE m == IF a <= b THEN a ELSE b
  <2>1. m \in {a, b} /\ \A y \in {a, b} : m <= y
    OBVIOUS
  <2>2. \A z \in {a, b} : (\A y \in {a, b} : z <= y) => z = m
    OBVIOUS
  <2> QED
    BY <2>1, <2>2 DEF LowerOf, Min
<1>2. HigherOf(a, b) = IF a >= b THEN a ELSE b
  <2> DEFINE m == IF a >= b THEN a ELSE b
  <2>1. m \in {a, b} /\ \A y \in {a, b} : m >= y
    OBVIOUS
  <2>2. \A z \in {a, b} : (\A y \in {a, b} : z >= y) => z = m
    OBVIOUS
  <2> QED
    BY <2>1, <2>2 DEF HigherOf, Max
<1> QED
  BY <1>1, <1>2

-----------------------------------------------------------------------------
(* The page's store.                                                         *)

\* A store whose rows lie below some bound.
IsStore(s) ==
    /\ s = [lines |-> s.lines, unconfirmedFrom |-> s.unconfirmedFrom,
            erasedThrough |-> s.erasedThrough, base |-> s.base, height |-> s.height,
            alt |-> s.alt, altRows |-> s.altRows]
    /\ \E n \in Nat : Held(s) \subseteq 0..n
    /\ s.unconfirmedFrom \in Nat /\ s.erasedThrough \in Int
    /\ s.base \in Nat /\ s.height \in Nat /\ s.alt \in BOOLEAN

\* A page starts with a store that holds nothing.
LEMMA EmptyIsStore ==
    ASSUME Infinity \in Nat
    PROVE  IsStore(EmptyStore) /\ Held(EmptyStore) = {}
<1>1. Held(EmptyStore) = {}
  BY DEF EmptyStore, Held
<1>4. 0 \in Nat /\ Held(EmptyStore) \subseteq 0..0
  BY <1>1
<1>5. EmptyStore = [lines |-> EmptyStore.lines, unconfirmedFrom |-> EmptyStore.unconfirmedFrom,
                    erasedThrough |-> EmptyStore.erasedThrough, base |-> EmptyStore.base,
                    height |-> EmptyStore.height, alt |-> EmptyStore.alt,
                    altRows |-> EmptyStore.altRows]
  BY DEF EmptyStore
<1>6. /\ EmptyStore.unconfirmedFrom \in Nat /\ EmptyStore.erasedThrough \in Int
      /\ EmptyStore.base \in Nat /\ EmptyStore.height \in Nat /\ EmptyStore.alt \in BOOLEAN
  BY DEF EmptyStore
<1> QED
  BY <1>1, <1>4, <1>5, <1>6 DEF IsStore

\* The oldest row held is held, and the highest one too.
LEMMA Extremes ==
    ASSUME NEW s, IsStore(s)
    PROVE  /\ Held(s) # {} => Oldest(s) \in Held(s)
           /\ \A i \in Held(s) : Oldest(s) <= i /\ i <= Highest(s)
           /\ Oldest(s) \in Int /\ Highest(s) \in Int
           /\ Highest(s) \in Held(s) \cup {-1}
<1>1. PICK n \in Nat : Held(s) \subseteq 0..n
  BY DEF IsStore
<1>2. Held(s) # {} => Min(Held(s)) \in Held(s) /\ \A i \in Held(s) : Min(Held(s)) <= i
  <2> SUFFICES ASSUME Held(s) # {}
               PROVE  Min(Held(s)) \in Held(s) /\ \A i \in Held(s) : Min(Held(s)) <= i
    OBVIOUS
  <2>1. Held(s) \in SUBSET Int /\ 0 \in Int /\ \A k \in Held(s) : 0 <= k
    BY <1>1
  <2> QED
    BY <2>1, MinIsLeast
<1>3. /\ Max(Held(s) \cup {-1}) \in Held(s) \cup {-1}
      /\ \A k \in Held(s) \cup {-1} : Max(Held(s) \cup {-1}) >= k
  <2>1. /\ Held(s) \cup {-1} \in SUBSET Int /\ Held(s) \cup {-1} # {} /\ n \in Int
        /\ \A k \in Held(s) \cup {-1} : k <= n
    BY <1>1
  <2> QED
    BY <2>1, MaxIsGreatest
<1>4. Oldest(s) \in Int /\ Highest(s) \in Int
  BY <1>1, <1>2, <1>3 DEF Oldest, Highest
<1> QED
  BY <1>1, <1>2, <1>3, <1>4 DEF Oldest, Highest

\* The replay boundary is below the floor, and not above the highest row.
LEMMA Boundary ==
    ASSUME NEW s, IsStore(s)
    PROVE  /\ ReplayBoundary(s) \in Int
           /\ ReplayBoundary(s) <= Highest(s) /\ ReplayBoundary(s) < s.unconfirmedFrom
           /\ ReplayBoundary(s) \in {Highest(s), s.unconfirmedFrom - 1}
<1>1. Highest(s) \in Int /\ s.unconfirmedFrom - 1 \in Int /\ s.unconfirmedFrom \in Int
  BY Extremes DEF IsStore
<1>2. ReplayBoundary(s) = IF Highest(s) <= s.unconfirmedFrom - 1 THEN Highest(s)
                          ELSE s.unconfirmedFrom - 1
  BY <1>1, LowerAndHigher DEF ReplayBoundary
<1> QED
  BY <1>1, <1>2

\* What applyLine takes of some rows: all but erased indices outside the window.
Taken(s, D) == {i \in D : i > s.erasedThrough \/ InWindow(s, i)}

\* applyLine for some rows: the store holds them, and what it held.
LEMMA LinesApplied ==
    ASSUME NEW s, IsStore(s), NEW D \in SUBSET Nat, NEW n \in Nat, D \subseteq 0..n,
           NEW f, DOMAIN f = D
    PROVE  LET t == ApplyLines(s, f)
           IN  /\ IsStore(t)
               /\ t = [s EXCEPT !.lines = t.lines]
               /\ Held(t) = Held(s) \cup Taken(s, D)
               /\ \A i \in Held(t) : t.lines[i] = IF i \in Taken(s, D) THEN f[i] ELSE s.lines[i]
<1> DEFINE t == ApplyLines(s, f)
           taken == Taken(s, D)
           new == [i \in Held(s) \cup taken |-> IF i \in taken THEN f[i] ELSE s.lines[i]]
<1>2. t = [s EXCEPT !.lines = new]
  BY DEF ApplyLines, Held, Taken
<1>3. /\ t.lines = new
      /\ t = [lines |-> new, unconfirmedFrom |-> s.unconfirmedFrom,
              erasedThrough |-> s.erasedThrough, base |-> s.base, height |-> s.height,
              alt |-> s.alt, altRows |-> s.altRows]
  <2> HIDE DEF new, t
  <2> QED
    BY <1>2 DEF IsStore
<1>4. DOMAIN new = Held(s) \cup taken
  OBVIOUS
<1>5. Held(t) = Held(s) \cup taken
  BY <1>3, <1>4 DEF Held
<1>6. \A i \in Held(t) : t.lines[i] = IF i \in taken THEN f[i] ELSE s.lines[i]
  BY <1>3, <1>5
<1>7. \E k \in Nat : Held(t) \subseteq 0..k
  <2>1. PICK k \in Nat : Held(s) \subseteq 0..k
    BY DEF IsStore
  <2>2. taken \subseteq 0..n
    BY DEF Taken
  <2>3. n + k \in Nat /\ 0..n \subseteq 0..(n + k) /\ 0..k \subseteq 0..(n + k)
    OBVIOUS
  <2>4. Held(t) \subseteq 0..(n + k)
    BY <1>5, <2>1, <2>2, <2>3
  <2> QED
    BY <2>3, <2>4
<1>9. IsStore(t)
  <2> HIDE DEF new, t
  <2> QED
    BY <1>3, <1>7 DEF IsStore
<1> QED
  BY <1>2, <1>3, <1>5, <1>6, <1>9

\* Dropping rows changes nothing else.
LEMMA LinesKept ==
    ASSUME NEW s, IsStore(s), NEW S
    PROVE  LET t == KeepOnly(s, S)
           IN  /\ IsStore(t)
               /\ t = [s EXCEPT !.lines = t.lines]
               /\ Held(t) = Held(s) \cap S
               /\ \A i \in Held(t) : t.lines[i] = s.lines[i]
<1> DEFINE t == KeepOnly(s, S)
           new == [i \in Held(s) \cap S |-> s.lines[i]]
<1>1. t = [s EXCEPT !.lines = new]
  BY DEF KeepOnly, Restrict
<1>2. /\ t.lines = new
      /\ t = [lines |-> new, unconfirmedFrom |-> s.unconfirmedFrom,
              erasedThrough |-> s.erasedThrough, base |-> s.base, height |-> s.height,
              alt |-> s.alt, altRows |-> s.altRows]
  <2> HIDE DEF new, t
  <2> QED
    BY <1>1 DEF IsStore
<1>3. Held(t) = Held(s) \cap S
  BY <1>2 DEF Held
<1>4. \A i \in Held(t) : t.lines[i] = s.lines[i]
  BY <1>2, <1>3
<1>6. IsStore(t)
  <2>1. \E n \in Nat : Held(t) \subseteq 0..n
    BY <1>3 DEF IsStore
  <2> HIDE DEF new, t
  <2> QED
    BY <2>1, <1>2 DEF IsStore
<1> QED
  BY <1>1, <1>2, <1>3, <1>4, <1>6

\* ED3: the rows below the frame's window go, and with them their indices.
LEMMA ClearApplied ==
    ASSUME NEW s, IsStore(s), NEW base \in Nat
    PROVE  LET t == ApplyScrollbackCleared(s, base)
           IN  /\ IsStore(t)
               /\ t.base = s.base /\ t.height = s.height /\ t.alt = s.alt
               /\ t.altRows = s.altRows
               /\ Held(t) = {i \in Held(s) : i >= base}
               /\ \A i \in Held(t) : t.lines[i] = s.lines[i]
               /\ t.unconfirmedFrom = IF s.unconfirmedFrom >= base THEN s.unconfirmedFrom
                                      ELSE base
               /\ s.erasedThrough <= t.erasedThrough
               /\ \/ t.erasedThrough = s.erasedThrough
                  \/ t.erasedThrough \in Held(s) /\ t.erasedThrough < base
<1> DEFINE dropped == {i \in Held(s) : i < base}
           kept == KeepOnly(s, Held(s) \ dropped)
           floor == HigherOf(s.unconfirmedFrom, base)
           erased == Max({s.erasedThrough} \cup dropped)
           t == ApplyScrollbackCleared(s, base)
<1>1. PICK n \in Nat : Held(s) \subseteq 0..n
  BY DEF IsStore
<1>2. /\ IsStore(kept)
      /\ kept = [s EXCEPT !.lines = kept.lines]
      /\ Held(kept) = Held(s) \cap (Held(s) \ dropped)
      /\ \A i \in Held(kept) : kept.lines[i] = s.lines[i]
  <2> HIDE DEF dropped
  <2> QED
    BY LinesKept
<1>3. Held(kept) = {i \in Held(s) : i >= base}
  BY <1>1, <1>2
<1>4. floor \in Nat /\ floor = IF s.unconfirmedFrom >= base THEN s.unconfirmedFrom ELSE base
  BY LowerAndHigher DEF IsStore
<1>5. /\ erased \in {s.erasedThrough} \cup dropped
      /\ \A k \in {s.erasedThrough} \cup dropped : erased >= k
  <2> DEFINE S == {s.erasedThrough} \cup dropped
             b == IF s.erasedThrough >= base THEN s.erasedThrough ELSE base
  <2>1. s.erasedThrough \in Int
    BY DEF IsStore
  <2>2. b \in Int /\ S \in SUBSET Int /\ S # {} /\ \A k \in S : k <= b
    BY <1>1, <2>1
  <2>3. Max(S) \in S /\ \A k \in S : Max(S) >= k
    <3> HIDE DEF S, b
    <3> QED
      BY <2>2, MaxIsGreatest
  <2> QED
    BY <2>3
<1>6. t = [kept EXCEPT !.unconfirmedFrom = HigherOf(@, base), !.erasedThrough = Max({@} \cup dropped)]
  BY DEF ApplyScrollbackCleared
<1>7. /\ kept.unconfirmedFrom = s.unconfirmedFrom /\ kept.erasedThrough = s.erasedThrough
      /\ kept.base = s.base /\ kept.height = s.height /\ kept.alt = s.alt
      /\ kept.altRows = s.altRows
  <2> HIDE DEF kept
  <2> QED
    BY <1>2 DEF IsStore
<1>8. t = [lines |-> kept.lines, unconfirmedFrom |-> floor, erasedThrough |-> erased,
           base |-> s.base, height |-> s.height, alt |-> s.alt, altRows |-> s.altRows]
  <2> HIDE DEF kept, t, dropped
  <2> QED
    BY <1>2, <1>6, <1>7 DEF IsStore
<1>9. erased \in Int /\ s.erasedThrough <= erased
  BY <1>1, <1>5 DEF IsStore
<1>10. Held(t) = Held(kept) /\ IsStore(t)
  <2> HIDE DEF kept, t, dropped, erased, floor
  <2> QED
    BY <1>2, <1>4, <1>7, <1>8, <1>9 DEF IsStore, Held
<1>11. /\ Held(t) = {i \in Held(s) : i >= base} /\ IsStore(t)
       /\ \A i \in Held(t) : t.lines[i] = s.lines[i]
  <2> HIDE DEF kept, t, erased, floor
  <2> QED
    BY <1>2, <1>3, <1>8, <1>10
<1>12. /\ t.base = s.base /\ t.height = s.height /\ t.alt = s.alt /\ t.altRows = s.altRows
       /\ t.unconfirmedFrom = floor /\ t.erasedThrough = erased
  <2> HIDE DEF kept, t, erased, floor
  <2> QED
    BY <1>8
<1>13. \/ erased = s.erasedThrough
       \/ erased \in Held(s) /\ erased < base
  <2> HIDE DEF erased
  <2> QED
    BY <1>5
<1> HIDE DEF kept, dropped, erased, floor
<1> QED
  BY <1>4, <1>9, <1>11, <1>12, <1>13

\* A screen frame and a scroll frame, as the server makes them.
IsScreen(m) ==
    /\ m.type = "screen" /\ m.base \in Nat /\ m.height = Height
    /\ DOMAIN m.rows \subseteq 1..Height
    /\ m.altActive \in BOOLEAN /\ m.scrollbackCleared \in BOOLEAN

\* What a frame says of an erase is done first.
Cleared(s, m) == IF m.scrollbackCleared THEN ApplyScrollbackCleared(s, m.base) ELSE s

\* An erase leaves the window and the alternate screen as they are.
LEMMA ClearedIsStore ==
    ASSUME NEW s, IsStore(s), NEW m, IsScreen(m)
    PROVE  /\ IsStore(Cleared(s, m))
           /\ Cleared(s, m).altRows = s.altRows
           /\ Cleared(s, m).height = s.height /\ Cleared(s, m).base = s.base
           /\ Cleared(s, m).alt = s.alt
<1>1. m.base \in Nat
  BY DEF IsScreen
<1> QED
  BY <1>1, ClearApplied DEF Cleared

\* Before the resumeAck a frame is read for its erase only.
LEMMA EarlyApplied ==
    ASSUME NEW s, NEW m, IsScreen(m),
           m = [type |-> m.type, base |-> m.base, height |-> m.height, rows |-> m.rows,
                altActive |-> m.altActive, scrollbackCleared |-> m.scrollbackCleared]
    PROVE  ApplyScreen(s, [m EXCEPT !.height = 0]) = Cleared(s, m)
<1> DEFINE e == [m EXCEPT !.height = 0]
<1>1. e.height = 0 /\ e.scrollbackCleared = m.scrollbackCleared /\ e.base = m.base
  OBVIOUS
<1> HIDE DEF e
<1>2. ApplyScreen(s, e) = Cleared(s, m)
  BY <1>1 DEF ApplyScreen, Cleared
<1> QED
  BY <1>2 DEF e

\* Stores with the same lines, window and floor.
SameLines(t, c) ==
    /\ IsStore(t)
    /\ t.lines = c.lines /\ Held(t) = Held(c)
    /\ t.unconfirmedFrom = c.unconfirmedFrom /\ t.erasedThrough = c.erasedThrough
    /\ t.base = c.base /\ t.height = c.height

AltRows(c, m) ==
    [y \in 1..Height |-> IF y \in DOMAIN m.rows THEN m.rows[y]
                         ELSE IF y <= Len(c.altRows) THEN c.altRows[y] ELSE Blank]

\* In the alternate screen a frame leaves the lines alone.
LEMMA AltApplied ==
    ASSUME NEW s, IsStore(s), NEW m, IsScreen(m), m.altActive, Height \in Nat \ {0}
    PROVE  LET t == ApplyScreen(s, m)
               c == Cleared(s, m)
           IN  SameLines(t, c) /\ t.alt = TRUE /\ t.altRows = AltRows(c, m)
<1> DEFINE c == Cleared(s, m)
           t == ApplyScreen(s, m)
           rows == AltRows(c, m)
<1>1. IsStore(c)
  BY ClearedIsStore
<1>2. m.height = Height /\ Height # 0
  BY DEF IsScreen
<1>3. t = ApplyAltScreen(c, m)
  BY <1>2 DEF ApplyScreen, Cleared
<1>4. ApplyAltScreen(c, m) = [c EXCEPT !.alt = TRUE, !.altRows = rows]
  <2> DEFINE grid == [y \in 1..m.height |-> IF y <= Len(c.altRows) THEN c.altRows[y] ELSE Blank]
             drawn == [y \in DOMAIN grid |-> IF y \in DOMAIN m.rows THEN m.rows[y] ELSE grid[y]]
  <2>1. drawn = rows
    <3>1. DOMAIN grid = 1..Height
      BY <1>2
    <3>2. \A y \in 1..Height : grid[y] = IF y <= Len(c.altRows) THEN c.altRows[y] ELSE Blank
      BY <1>2
    <3> HIDE DEF grid, c
    <3> QED
      BY <3>1, <3>2 DEF AltRows
  <2>2. ApplyAltScreen(c, m) = [c EXCEPT !.alt = TRUE, !.altRows = drawn]
    BY DEF ApplyAltScreen
  <2> QED
    BY <2>1, <2>2
<1>5. t = [lines |-> c.lines, unconfirmedFrom |-> c.unconfirmedFrom,
           erasedThrough |-> c.erasedThrough, base |-> c.base, height |-> c.height,
           alt |-> TRUE, altRows |-> rows]
  <2> HIDE DEF c, t, rows
  <2> QED
    BY <1>1, <1>3, <1>4 DEF IsStore
<1>6. Held(t) = Held(c)
  <2> HIDE DEF c, t, rows
  <2> QED
    BY <1>5 DEF Held
<1>7. IsStore(t)
  <2> HIDE DEF c, t, rows
  <2> QED
    BY <1>1, <1>5, <1>6 DEF IsStore
<1>8. /\ t.lines = c.lines /\ t.unconfirmedFrom = c.unconfirmedFrom
      /\ t.erasedThrough = c.erasedThrough
      /\ t.base = c.base /\ t.height = c.height /\ t.alt = TRUE /\ t.altRows = rows
  <2> HIDE DEF c, t, rows
  <2> QED
    BY <1>5
<1>9. SameLines(t, c)
  <2> HIDE DEF c, t, rows
  <2> QED
    BY <1>6, <1>7, <1>8 DEF SameLines
<1> QED
  BY <1>8, <1>9

\* In the main screen it moves the window, draws its rows there and drops what
\* lies below.
LEMMA MainApplied ==
    ASSUME NEW s, IsStore(s), NEW m, IsScreen(m), ~m.altActive, Height \in Nat \ {0}
    PROVE  LET t == ApplyScreen(s, m)
               c == Cleared(s, m)
               drawn == {m.base + y - 1 : y \in DOMAIN m.rows}
           IN  /\ IsStore(t)
               /\ Held(t) = {i \in Held(c) \cup drawn : i < m.base + Height}
               /\ \A i \in Held(t) : t.lines[i] = IF i \in drawn THEN m.rows[i - m.base + 1]
                                                  ELSE c.lines[i]
               /\ t.unconfirmedFrom = IF c.unconfirmedFrom <= m.base THEN c.unconfirmedFrom
                                      ELSE m.base
               /\ t.erasedThrough = c.erasedThrough
               /\ t.base = m.base /\ t.height = Height /\ t.alt = FALSE /\ t.altRows = <<>>
<1> DEFINE c == Cleared(s, m)
           drawn == {m.base + y - 1 : y \in DOMAIN m.rows}
           f == [i \in drawn |-> m.rows[i - m.base + 1]]
           floor == LowerOf(c.unconfirmedFrom, m.base)
           r == [c EXCEPT !.alt = FALSE, !.altRows = <<>>, !.base = m.base, !.height = m.height]
           k == MarkUnconfirmedFrom(r, m.base)
           a == ApplyLines(k, f)
           t == ApplyScreen(s, m)
<1>1. IsStore(c)
  BY ClearedIsStore
<1>2. /\ m.height = Height /\ Height # 0 /\ m.base \in Nat /\ DOMAIN m.rows \subseteq 1..Height
      /\ ~m.altActive
  BY DEF IsScreen
<1>3. t = TruncateBelowWindow(a)
  <2>1. t = ApplyMainScreen(c, m)
    BY <1>2 DEF ApplyScreen, Cleared
  <2>2. ApplyMainScreen(c, m) = TruncateBelowWindow(a)
    BY DEF ApplyMainScreen
  <2> QED
    BY <2>1, <2>2
<1>4. floor \in Nat /\ floor = IF c.unconfirmedFrom <= m.base THEN c.unconfirmedFrom ELSE m.base
  BY <1>1, <1>2, LowerAndHigher DEF IsStore
<1>5. k = [lines |-> c.lines, unconfirmedFrom |-> floor, erasedThrough |-> c.erasedThrough,
           base |-> m.base, height |-> Height, alt |-> FALSE, altRows |-> <<>>]
  <2>1. r = [lines |-> c.lines, unconfirmedFrom |-> c.unconfirmedFrom,
             erasedThrough |-> c.erasedThrough,
             base |-> m.base, height |-> Height, alt |-> FALSE, altRows |-> <<>>]
    <3>1. c = [lines |-> c.lines, unconfirmedFrom |-> c.unconfirmedFrom,
               erasedThrough |-> c.erasedThrough, base |-> c.base, height |-> c.height,
               alt |-> c.alt, altRows |-> c.altRows]
      BY <1>1 DEF IsStore
    <3>2. m.height = Height
      BY <1>2
    <3>3. r = [c EXCEPT !.alt = FALSE, !.altRows = <<>>, !.base = m.base, !.height = Height]
      BY <3>2
    <3> HIDE DEF c, r
    <3> QED
      BY <1>1, <3>1, <3>3 DEF IsStore
  <2>2. k = [r EXCEPT !.unconfirmedFrom = LowerOf(@, m.base)]
    BY DEF MarkUnconfirmedFrom
  <2> HIDE DEF c, r, k
  <2> QED
    BY <2>1, <2>2
<1>6. IsStore(k) /\ Held(k) = Held(c)
  <2>1. Held(k) = Held(c)
    <3> HIDE DEF c, k
    <3> QED
      BY <1>5 DEF Held
  <2> HIDE DEF c, k, floor
  <2> QED
    BY <1>1, <1>2, <1>4, <1>5, <2>1 DEF IsStore
<1>7. /\ m.base + Height \in Nat /\ drawn \subseteq 0..(m.base + Height) /\ drawn \subseteq Nat
      /\ \A i \in drawn : i >= m.base /\ i < m.base + Height
  BY <1>2
<1>8. Taken(k, drawn) = drawn
  <2>1. k.base = m.base /\ k.height = Height
    <3> HIDE DEF k
    <3> QED
      BY <1>5
  <2>2. \A i \in drawn : InWindow(k, i)
    <3> SUFFICES ASSUME NEW i \in drawn PROVE InWindow(k, i)
      OBVIOUS
    <3>1. i \in Nat /\ i >= m.base /\ i < m.base + Height /\ Height > 0
      BY <1>2, <1>7
    <3> HIDE DEF k, drawn
    <3> QED
      BY <1>2, <2>1, <3>1 DEF InWindow
  <2> QED
    BY <2>2 DEF Taken
<1>9. DOMAIN f = drawn /\ \A i \in drawn : f[i] = m.rows[i - m.base + 1]
  OBVIOUS
<1>10. /\ IsStore(a)
       /\ a = [k EXCEPT !.lines = a.lines]
       /\ Held(a) = Held(c) \cup drawn
       /\ \A i \in Held(a) : a.lines[i] = IF i \in drawn THEN m.rows[i - m.base + 1]
                                          ELSE c.lines[i]
  <2>1. k.lines = c.lines
    <3> HIDE DEF k
    <3> QED
      BY <1>5
  <2>2. drawn \in SUBSET Nat
    BY <1>7
  <2>3. /\ IsStore(a)
        /\ a = [k EXCEPT !.lines = a.lines]
        /\ Held(a) = Held(k) \cup Taken(k, drawn)
        /\ \A i \in Held(a) : a.lines[i] = IF i \in Taken(k, drawn) THEN f[i] ELSE k.lines[i]
    <3>1. DOMAIN f = drawn /\ IsStore(k)
      BY <1>6, <1>9
    <3>2. PICK n \in Nat : drawn \subseteq 0..n
      BY <1>7
    <3> HIDE DEF k, drawn, f
    <3> QED
      BY <2>2, <3>1, <3>2, LinesApplied
  <2> HIDE DEF k, drawn, f, a, c
  <2> QED
    BY <1>6, <1>8, <1>9, <2>1, <2>3
<1>11. /\ a.base = m.base /\ a.height = Height /\ a.unconfirmedFrom = floor
       /\ a.erasedThrough = c.erasedThrough /\ a.alt = FALSE /\ a.altRows = <<>>
  <2> HIDE DEF k, a, c, floor
  <2> QED
    BY <1>5, <1>10
<1>12. t = KeepOnly(a, {i \in Held(a) : i < m.base + Height})
  <2> HIDE DEF a, t
  <2> QED
    BY <1>2, <1>3, <1>11 DEF TruncateBelowWindow
<1>13. /\ IsStore(t)
       /\ t = [a EXCEPT !.lines = t.lines]
       /\ Held(t) = {i \in Held(a) : i < m.base + Height}
       /\ \A i \in Held(t) : t.lines[i] = a.lines[i]
  <2> HIDE DEF a, t
  <2> QED
    BY <1>10, <1>12, LinesKept
<1>14. /\ t.base = m.base /\ t.height = Height /\ t.unconfirmedFrom = floor
       /\ t.erasedThrough = c.erasedThrough /\ t.alt = FALSE /\ t.altRows = <<>>
  <2> HIDE DEF a, t, c, floor
  <2> QED
    BY <1>10, <1>11, <1>13 DEF IsStore
<1>15. /\ Held(t) = {i \in Held(c) \cup drawn : i < m.base + Height}
       /\ \A i \in Held(t) : t.lines[i] = IF i \in drawn THEN m.rows[i - m.base + 1]
                                          ELSE c.lines[i]
  <2> HIDE DEF a, t, c, drawn
  <2> QED
    BY <1>10, <1>13
<1> HIDE DEF floor
<1> QED
  BY <1>4, <1>13, <1>14, <1>15

IsScroll(m) == m.type = "scroll" /\ m.firstIndex \in Nat /\ m.lines \in Seq(Rows)

\* A range may move the floor, and nothing else.
LEMMA RangeConfirmed ==
    ASSUME NEW s, IsStore(s), NEW first \in Nat, NEW count \in Int
    PROVE  LET t == ConfirmRange(s, first, count)
           IN  /\ IsStore(t)
               /\ t.lines = s.lines /\ t.erasedThrough = s.erasedThrough /\ t.base = s.base
               /\ t.height = s.height /\ t.alt = s.alt /\ t.altRows = s.altRows
               /\ t.unconfirmedFrom =
                    IF count <= 0 THEN s.unconfirmedFrom
                    ELSE IF first <= s.unconfirmedFrom
                         THEN IF s.unconfirmedFrom >= first + count THEN s.unconfirmedFrom
                              ELSE first + count
                    ELSE IF s.unconfirmedFrom < Oldest(s)
                         THEN IF first + count >= Oldest(s) THEN first + count ELSE Oldest(s)
                    ELSE s.unconfirmedFrom
<1> DEFINE t == ConfirmRange(s, first, count)
           floor == IF count <= 0 THEN s.unconfirmedFrom
                    ELSE IF first <= s.unconfirmedFrom
                         THEN IF s.unconfirmedFrom >= first + count THEN s.unconfirmedFrom
                              ELSE first + count
                    ELSE IF s.unconfirmedFrom < Oldest(s)
                         THEN IF first + count >= Oldest(s) THEN first + count ELSE Oldest(s)
                    ELSE s.unconfirmedFrom
<1>1. s.unconfirmedFrom \in Nat /\ Oldest(s) \in Int /\ first + count \in Int
  BY Extremes DEF IsStore
<1>2. /\ HigherOf(s.unconfirmedFrom, first + count)
           = IF s.unconfirmedFrom >= first + count THEN s.unconfirmedFrom ELSE first + count
      /\ HigherOf(first + count, Oldest(s))
           = IF first + count >= Oldest(s) THEN first + count ELSE Oldest(s)
  BY <1>1, LowerAndHigher
<1>3. floor \in Nat
  BY <1>1
<1>4. s = [s EXCEPT !.unconfirmedFrom = s.unconfirmedFrom]
  BY DEF IsStore
<1>5. t = [s EXCEPT !.unconfirmedFrom = floor]
  <2>1. CASE count <= 0
    BY <1>4, <2>1 DEF ConfirmRange
  <2>2. CASE count > 0 /\ first <= s.unconfirmedFrom
    <3>1. ConfirmRange(s, first, count)
            = [s EXCEPT !.unconfirmedFrom = HigherOf(s.unconfirmedFrom, first + count)]
      BY <1>1, <2>2 DEF ConfirmRange
    <3> QED
      BY <1>1, <1>2, <2>2, <3>1
  <2>3. CASE count > 0 /\ first > s.unconfirmedFrom
    <3>1. ConfirmRange(s, first, count) = IF s.unconfirmedFrom < Oldest(s)
            THEN [s EXCEPT !.unconfirmedFrom = HigherOf(first + count, Oldest(s))]
            ELSE s
      BY <1>1, <2>3 DEF ConfirmRange
    <3> QED
      BY <1>1, <1>2, <1>4, <2>3, <3>1
  <2> QED
    BY <1>1, <2>1, <2>2, <2>3
<1>6. t = [lines |-> s.lines, unconfirmedFrom |-> floor, erasedThrough |-> s.erasedThrough,
           base |-> s.base, height |-> s.height, alt |-> s.alt, altRows |-> s.altRows]
  <2> HIDE DEF t, floor
  <2> QED
    BY <1>5 DEF IsStore
<1>7. IsStore(t)
  <2>1. Held(t) = Held(s)
    <3> HIDE DEF t
    <3> QED
      BY <1>6 DEF Held
  <2> HIDE DEF t, floor
  <2> QED
    BY <1>3, <1>6, <2>1 DEF IsStore
<1>8. /\ t.lines = s.lines /\ t.erasedThrough = s.erasedThrough /\ t.base = s.base
      /\ t.height = s.height /\ t.alt = s.alt /\ t.altRows = s.altRows
      /\ t.unconfirmedFrom = floor
  <2> HIDE DEF t, floor
  <2> QED
    BY <1>6
<1> QED
  BY <1>7, <1>8

\* A scroll frame brings its lines, or those of them above the window of a store in
\* the alternate screen, and raises the floor over nothing else that is held but
\* for the rows it heals over.
LEMMA ScrollApplied ==
    ASSUME NEW s, IsStore(s), NEW m, IsScroll(m), Infinity \in Int
    PROVE  LET t == ApplyScroll(s, m)
           IN  /\ IsStore(t)
               /\ Held(t) = Held(s) \cup Taken(s, Brought(s, m))
               /\ \A i \in Held(t) : t.lines[i] = IF i \in Taken(s, Brought(s, m))
                                                  THEN m.lines[i - m.firstIndex + 1]
                                                  ELSE s.lines[i]
               /\ t.erasedThrough = s.erasedThrough /\ t.base = s.base
               /\ t.height = s.height /\ t.alt = s.alt /\ t.altRows = s.altRows
               /\ Brought(s, m) \in SUBSET Nat
               /\ \A i \in Brought(s, m) : i - m.firstIndex + 1 \in 1..Len(m.lines)
               /\ \A i \in Held(t) : i < t.unconfirmedFrom =>
                    \/ i < s.unconfirmedFrom
                    \/ i \in Brought(s, m)
                    \/ i \in Healed(s, m)
               /\ \/ t.unconfirmedFrom = s.unconfirmedFrom
                  \/ \E i \in Brought(s, m) : t.unconfirmedFrom = i + 1
                  \/ t.unconfirmedFrom \in Held(t)
<1> DEFINE first == m.firstIndex
           count == Count(s, m)
           B == Brought(s, m)
           f == [i \in B |-> m.lines[i - first + 1]]
           a == ApplyLines(s, f)
           t == ApplyScroll(s, m)
<1>1. first \in Nat /\ Len(m.lines) \in Nat
  BY DEF IsScroll
<1>2. /\ count \in Int /\ count <= Len(m.lines)
      /\ B = first..(first + count - 1)
  <2>1. ScrollLimit(s) \in Int
    BY DEF ScrollLimit, IsStore
  <2>2. ScrollLimit(s) - first \in Int
    BY <1>1, <2>1
  <2>3. count = IF Len(m.lines) <= ScrollLimit(s) - first THEN Len(m.lines)
                ELSE ScrollLimit(s) - first
    BY <1>1, <2>2, LowerAndHigher DEF Count
  <2>4. B = first..(first + count - 1)
    BY DEF Brought
  <2> HIDE DEF count
  <2> QED
    BY <1>1, <2>2, <2>3, <2>4
<1>3. /\ B \in SUBSET Nat /\ first + Len(m.lines) \in Nat /\ B \subseteq 0..(first + Len(m.lines))
      /\ \A i \in B : i - first + 1 \in 1..Len(m.lines)
  <2> HIDE DEF count, B, first
  <2> QED
    BY <1>1, <1>2
<1>4. /\ IsStore(a)
      /\ a = [s EXCEPT !.lines = a.lines]
      /\ Held(a) = Held(s) \cup Taken(s, B)
      /\ \A i \in Held(a) : a.lines[i] = IF i \in Taken(s, B) THEN m.lines[i - first + 1]
                                         ELSE s.lines[i]
  <2>1. DOMAIN f = B /\ \A i \in B : f[i] = m.lines[i - first + 1]
    OBVIOUS
  <2>2. PICK n \in Nat : B \subseteq 0..n
    BY <1>3
  <2>3. /\ IsStore(a)
        /\ a = [s EXCEPT !.lines = a.lines]
        /\ Held(a) = Held(s) \cup Taken(s, B)
        /\ \A i \in Held(a) : a.lines[i] = IF i \in Taken(s, B) THEN f[i] ELSE s.lines[i]
    <3>1. B \in SUBSET Nat /\ DOMAIN f = B
      BY <1>3, <2>1
    <3> HIDE DEF f, B
    <3> QED
      BY <2>2, <3>1, LinesApplied
  <2>4. \A i \in Taken(s, B) : i \in B
    BY DEF Taken
  <2> HIDE DEF f, B, a
  <2> QED
    BY <2>1, <2>3, <2>4
<1>5. t = ConfirmRange(a, first, count)
  BY DEF ApplyScroll
<1>6. /\ a.unconfirmedFrom = s.unconfirmedFrom /\ a.erasedThrough = s.erasedThrough
      /\ a.base = s.base /\ a.height = s.height /\ a.alt = s.alt /\ a.altRows = s.altRows
  <2> HIDE DEF a
  <2> QED
    BY <1>4 DEF IsStore
<1>7. /\ IsStore(t)
      /\ t.lines = a.lines /\ t.erasedThrough = a.erasedThrough /\ t.base = a.base
      /\ t.height = a.height /\ t.alt = a.alt /\ t.altRows = a.altRows
      /\ t.unconfirmedFrom =
                    IF count <= 0 THEN a.unconfirmedFrom
                    ELSE IF first <= a.unconfirmedFrom
                         THEN IF a.unconfirmedFrom >= first + count THEN a.unconfirmedFrom
                              ELSE first + count
                    ELSE IF a.unconfirmedFrom < Oldest(a)
                         THEN IF first + count >= Oldest(a) THEN first + count ELSE Oldest(a)
                    ELSE a.unconfirmedFrom
  <2> HIDE DEF a, count, first, t
  <2> QED
    BY <1>1, <1>2, <1>4, <1>5, RangeConfirmed
<1>8. Held(t) = Held(a) /\ Oldest(t) = Oldest(a)
  <2> HIDE DEF a, t
  <2> QED
    BY <1>7 DEF Held, Oldest
<1>9. /\ Oldest(a) \in Int /\ \A i \in Held(a) : Oldest(a) <= i
      /\ Held(a) # {} => Oldest(a) \in Held(a)
      /\ s.unconfirmedFrom \in Nat /\ \A i \in Held(a) : i \in Int
  <2> HIDE DEF a
  <2> QED
    BY <1>4, Extremes DEF IsStore
<1>10. Healed(s, m) = IF count > 0 /\ s.unconfirmedFrom < Oldest(a) THEN Oldest(a)..(first - 1) ELSE {}
  BY <1>8 DEF Healed
<1>11. ASSUME NEW i \in Held(t), i < t.unconfirmedFrom
       PROVE  i < s.unconfirmedFrom \/ i \in B \/ i \in Healed(s, m)
  <2> HIDE DEF a, t, first, count, B
  <2>1. i \in Int /\ Oldest(a) <= i
    BY <1>8, <1>9
  <2>2. CASE count <= 0
    BY <1>6, <1>7, <1>11, <2>2
  <2>3. CASE count > 0 /\ first <= s.unconfirmedFrom
    <3>1. i < s.unconfirmedFrom \/ i < first + count
      BY <1>6, <1>7, <1>11, <2>3
    <3> QED
      BY <1>1, <1>2, <1>9, <2>1, <2>3, <3>1
  <2>4. CASE count > 0 /\ ~(first <= s.unconfirmedFrom) /\ s.unconfirmedFrom < Oldest(a)
    <3>1. i < first + count
      BY <1>1, <1>2, <1>6, <1>7, <1>9, <1>11, <2>1, <2>4
    <3>2. i >= first => i \in B
      BY <1>1, <1>2, <2>1, <3>1
    <3>3. i < first => i \in Healed(s, m)
      BY <1>1, <1>9, <1>10, <2>1, <2>4
    <3> QED
      BY <1>1, <2>1, <3>2, <3>3
  <2>5. CASE count > 0 /\ ~(first <= s.unconfirmedFrom) /\ ~(s.unconfirmedFrom < Oldest(a))
    BY <1>6, <1>7, <1>11, <2>5
  <2> QED
    BY <1>2, <2>2, <2>3, <2>4, <2>5
<1>12. \/ t.unconfirmedFrom = s.unconfirmedFrom
       \/ \E i \in B : t.unconfirmedFrom = i + 1
       \/ t.unconfirmedFrom \in Held(t)
  <2> HIDE DEF a, t, first, count, B
  <2>1. CASE t.unconfirmedFrom = first + count /\ count > 0
    <3>1. first + count - 1 \in B /\ t.unconfirmedFrom = (first + count - 1) + 1
      BY <1>1, <1>2, <2>1
    <3> QED
      BY <3>1
  <2>2. CASE t.unconfirmedFrom = Oldest(a) /\ s.unconfirmedFrom < Oldest(a)
    <3> QED
      BY <1>8, <1>9, <2>2 DEF Oldest
  <2> QED
    BY <1>2, <1>6, <1>7, <2>1, <2>2
<1>13. /\ Held(t) = Held(s) \cup Taken(s, B)
       /\ \A i \in Held(t) : t.lines[i] = IF i \in Taken(s, B) THEN m.lines[i - first + 1]
                                          ELSE s.lines[i]
       /\ t.erasedThrough = s.erasedThrough /\ t.base = s.base
       /\ t.height = s.height /\ t.alt = s.alt /\ t.altRows = s.altRows
  <2> HIDE DEF a, t, B
  <2> QED
    BY <1>4, <1>6, <1>7, <1>8
<1> QED
  BY <1>3, <1>7, <1>11, <1>12, <1>13

-----------------------------------------------------------------------------
(* The frames under way to the page.                                         *)

ScreenFrames(D) ==
    [type : {"screen"}, base : Nat, height : {Height}, rows : [D -> Rows],
     altActive : BOOLEAN, scrollbackCleared : BOOLEAN]
ScreenFrame == UNION {ScreenFrames(D) : D \in SUBSET (1..Height)}
ScrollFrame == [type : {"scroll"}, firstIndex : Nat, lines : Seq(Rows)]
AckFrame == [type : {"resumeAck"}, committed : Nat, oldest : Nat, historyPaging : BOOLEAN]
Message == ScreenFrame \cup ScrollFrame \cup AckFrame

\* A frame is of one of three kinds, and has that kind's fields.
LEMMA MessageKinds ==
    ASSUME NEW m \in Message
    PROVE  /\ m.type \in {"screen", "scroll", "resumeAck"}
           /\ m.type = "screen" =>
                /\ IsScreen(m)
                /\ m.rows \in [DOMAIN m.rows -> Rows]
                /\ m = [type |-> m.type, base |-> m.base, height |-> m.height, rows |-> m.rows,
                        altActive |-> m.altActive, scrollbackCleared |-> m.scrollbackCleared]
           /\ m.type = "scroll" => IsScroll(m)
<1>1. CASE m \in ScrollFrame
  BY <1>1 DEF IsScroll, ScrollFrame
<1>2. CASE m \in AckFrame
  BY <1>2 DEF AckFrame
<1>3. ASSUME NEW D \in SUBSET (1..Height), m \in ScreenFrames(D)
      PROVE  /\ m.type = "screen" /\ IsScreen(m) /\ m.rows \in [DOMAIN m.rows -> Rows]
             /\ m = [type |-> m.type, base |-> m.base, height |-> m.height, rows |-> m.rows,
                     altActive |-> m.altActive, scrollbackCleared |-> m.scrollbackCleared]
  BY <1>3, SizeAssumption DEF IsScreen, ScreenFrames
<1>4. CASE m \in ScreenFrame
  BY <1>3, <1>4 DEF ScreenFrame
<1> QED
  BY <1>1, <1>2, <1>4 DEF Message

\* What Screen makes is a frame.
LEMMA ScreenIsMessage ==
    ASSUME NEW base \in Nat, NEW rows, DOMAIN rows \subseteq 1..Height,
           rows \in [DOMAIN rows -> Rows], NEW alt \in BOOLEAN, NEW cleared \in BOOLEAN
    PROVE  /\ Screen(base, rows, alt, cleared) \in Message
           /\ Screen(base, rows, alt, cleared).type = "screen"
           /\ Screen(base, rows, alt, cleared).base = base
           /\ Screen(base, rows, alt, cleared).rows = rows
           /\ Screen(base, rows, alt, cleared).altActive = alt
<1>1. /\ Screen(base, rows, alt, cleared) \in ScreenFrames(DOMAIN rows)
      /\ Screen(base, rows, alt, cleared).type = "screen"
      /\ Screen(base, rows, alt, cleared).base = base
      /\ Screen(base, rows, alt, cleared).rows = rows
      /\ Screen(base, rows, alt, cleared).altActive = alt
  BY DEF Screen, ScreenFrames
<1>2. Screen(base, rows, alt, cleared) \in ScreenFrame
  BY <1>1 DEF ScreenFrame
<1> QED
  BY <1>1, <1>2 DEF Message

\* What Scroll makes is a frame.
LEMMA ScrollIsMessage ==
    ASSUME NEW first \in Nat, NEW lines \in Seq(Rows)
    PROVE  /\ Scroll(first, lines) \in Message
           /\ Scroll(first, lines).type = "scroll"
           /\ Scroll(first, lines).firstIndex = first
           /\ Scroll(first, lines).lines = lines
<1>1. /\ Scroll(first, lines) \in ScrollFrame
      /\ Scroll(first, lines).type = "scroll"
      /\ Scroll(first, lines).firstIndex = first
      /\ Scroll(first, lines).lines = lines
  BY DEF Scroll, ScrollFrame
<1> QED
  BY <1>1 DEF Message

\* A sequence of frames, put together and taken from.
LEMMA Joined ==
    ASSUME NEW P \in Seq(Message), NEW Q \in Seq(Message)
    PROVE  /\ P \o Q \in Seq(Message)
           /\ Len(P) \in Nat /\ Len(Q) \in Nat /\ Len(P \o Q) = Len(P) + Len(Q)
           /\ \A k \in 1..Len(P) : k \in 1..Len(P \o Q) /\ (P \o Q)[k] = P[k]
           /\ \A k \in 1..Len(Q) : Len(P) + k \in 1..Len(P \o Q) /\ (P \o Q)[Len(P) + k] = Q[k]
           /\ \A k \in 1..Len(P \o Q) :
                \/ k \in 1..Len(P) /\ (P \o Q)[k] = P[k]
                \/ k - Len(P) \in 1..Len(Q) /\ (P \o Q)[k] = Q[k - Len(P)]
<1>1. Len(P) \in Nat /\ Len(Q) \in Nat
  BY LenProperties
<1>2. /\ P \o Q \in Seq(Message) /\ Len(P \o Q) = Len(P) + Len(Q)
      /\ \A k \in 1..(Len(P) + Len(Q)) :
            (P \o Q)[k] = IF k <= Len(P) THEN P[k] ELSE Q[k - Len(P)]
  BY ConcatProperties
<1>3. \A k \in 1..Len(P) : k \in 1..Len(P \o Q) /\ (P \o Q)[k] = P[k]
  BY <1>1, <1>2
<1>4. \A k \in 1..Len(Q) : Len(P) + k \in 1..Len(P \o Q) /\ (P \o Q)[Len(P) + k] = Q[k]
  BY <1>1, <1>2
<1>5. \A k \in 1..Len(P \o Q) :
         \/ k \in 1..Len(P) /\ (P \o Q)[k] = P[k]
         \/ k - Len(P) \in 1..Len(Q) /\ (P \o Q)[k] = Q[k - Len(P)]
  BY <1>1, <1>2
<1> QED
  BY <1>1, <1>2, <1>3, <1>4, <1>5

\* The scrolled lines of some frames are those of the history `h'.
Carried(P, h) ==
    \A k \in 1..Len(P) : P[k].type = "scroll" =>
        \A j \in 1..Len(P[k].lines) :
            /\ P[k].firstIndex + j <= Len(h)
            /\ P[k].lines[j] = h[P[k].firstIndex + j]

\* The windows of some frames do not go back; they lie above `low', up to `high'.
Ordered(P, low, high) ==
    /\ \A k \in 1..Len(P) : P[k].type = "screen" => low < P[k].base /\ P[k].base <= high
    /\ \A j, k \in 1..Len(P) :
            j < k /\ P[j].type = "screen" /\ P[k].type = "screen" => P[j].base <= P[k].base

\* Frames that carry history still do when put together.
LEMMA CarriedJoined ==
    ASSUME NEW P \in Seq(Message), NEW Q \in Seq(Message), NEW h
    PROVE  Carried(P \o Q, h) <=> Carried(P, h) /\ Carried(Q, h)
<1>1. ASSUME Carried(P, h), Carried(Q, h) PROVE Carried(P \o Q, h)
  <2> DEFINE R == P \o Q
  <2> SUFFICES ASSUME NEW k \in 1..Len(R), R[k].type = "scroll", NEW j \in 1..Len(R[k].lines)
               PROVE  R[k].firstIndex + j <= Len(h) /\ R[k].lines[j] = h[R[k].firstIndex + j]
    BY DEF Carried
  <2>1. \/ k \in 1..Len(P) /\ R[k] = P[k]
        \/ k - Len(P) \in 1..Len(Q) /\ R[k] = Q[k - Len(P)]
    BY Joined
  <2> HIDE DEF R
  <2>2. CASE k \in 1..Len(P) /\ R[k] = P[k]
    BY <1>1, <2>2 DEF Carried
  <2>3. CASE k - Len(P) \in 1..Len(Q) /\ R[k] = Q[k - Len(P)]
    BY <1>1, <2>3 DEF Carried
  <2> QED
    BY <2>1, <2>2, <2>3
<1>2. ASSUME Carried(P \o Q, h) PROVE Carried(P, h) /\ Carried(Q, h)
  <2>1. Carried(P, h)
    BY <1>2, Joined DEF Carried
  <2>2. Carried(Q, h)
    <3> SUFFICES ASSUME NEW k \in 1..Len(Q), Q[k].type = "scroll",
                        NEW j \in 1..Len(Q[k].lines)
                 PROVE  Q[k].firstIndex + j <= Len(h) /\ Q[k].lines[j] = h[Q[k].firstIndex + j]
      BY DEF Carried
    <3>1. Len(P) + k \in 1..Len(P \o Q) /\ (P \o Q)[Len(P) + k] = Q[k]
      BY Joined
    <3> QED
      BY <1>2, <3>1 DEF Carried
  <2> QED
    BY <2>1, <2>2
<1> QED
  BY <1>1, <1>2

\* Windows in order, followed by windows above them in order, are in order.
LEMMA OrderedJoined ==
    ASSUME NEW P \in Seq(Message), NEW Q \in Seq(Message),
           NEW low \in Int, NEW mid \in Int, NEW high \in Int, low <= mid, mid <= high,
           Ordered(P, low, mid), Ordered(Q, mid - 1, high), Ordered(Q, low, high)
    PROVE  Ordered(P \o Q, low, high)
<1> DEFINE R == P \o Q
<1>1. \A k \in 1..Len(R) : R[k] \in Message
  BY Joined
<1>2. \A m \in Message : m.type = "screen" => m.base \in Nat
  BY MessageKinds DEF IsScreen
<1>3. ASSUME NEW k \in 1..Len(R), R[k].type = "screen"
      PROVE  low < R[k].base /\ R[k].base <= high
  <2>1. CASE k \in 1..Len(P) /\ R[k] = P[k]
    BY <1>1, <1>2, <1>3, <2>1 DEF Ordered
  <2>2. CASE k - Len(P) \in 1..Len(Q) /\ R[k] = Q[k - Len(P)]
    BY <1>3, <2>2 DEF Ordered
  <2> QED
    BY <2>1, <2>2, Joined
<1>4. ASSUME NEW j \in 1..Len(R), NEW k \in 1..Len(R), j < k,
             R[j].type = "screen", R[k].type = "screen"
      PROVE  R[j].base <= R[k].base
  <2>1. CASE k \in 1..Len(P) /\ R[k] = P[k]
    <3>1. j \in 1..Len(P) /\ R[j] = P[j]
      BY <1>4, <2>1, Joined
    <3> QED
      BY <1>4, <2>1, <3>1 DEF Ordered
  <2>2. CASE k - Len(P) \in 1..Len(Q) /\ R[k] = Q[k - Len(P)]
    <3>1. CASE j \in 1..Len(P) /\ R[j] = P[j]
      <4>1. R[j].base <= mid /\ mid - 1 < R[k].base
        BY <1>4, <2>2, <3>1 DEF Ordered
      <4>2. R[j].base \in Nat /\ R[k].base \in Nat
        BY <1>1, <1>2, <1>4
      <4> HIDE DEF R
      <4>3. ASSUME NEW a \in Nat, NEW b \in Nat, a <= mid, mid - 1 < b PROVE a <= b
        BY <4>3
      <4> QED
        BY <4>1, <4>2, <4>3
    <3>2. CASE j - Len(P) \in 1..Len(Q) /\ R[j] = Q[j - Len(P)]
      <4>1. j - Len(P) < k - Len(P)
        BY <1>4, Joined
      <4> QED
        BY <1>4, <2>2, <3>2, <4>1 DEF Ordered
    <3> QED
      BY <3>1, <3>2, Joined
  <2> QED
    BY <2>1, <2>2, Joined
<1> QED
  BY <1>3, <1>4 DEF Ordered

\* And parts of what is in order are.
LEMMA OrderedParts ==
    ASSUME NEW P \in Seq(Message), NEW Q \in Seq(Message), NEW low, NEW high,
           Ordered(P \o Q, low, high)
    PROVE  Ordered(P, low, high) /\ Ordered(Q, low, high)
<1> DEFINE R == P \o Q
<1>1. Ordered(P, low, high)
  BY Joined DEF Ordered
<1>2. Ordered(Q, low, high)
  <2>1. ASSUME NEW k \in 1..Len(Q), Q[k].type = "screen"
        PROVE  low < Q[k].base /\ Q[k].base <= high
    <3>1. Len(P) + k \in 1..Len(R) /\ R[Len(P) + k] = Q[k]
      BY Joined
    <3> QED
      BY <2>1, <3>1 DEF Ordered
  <2>2. ASSUME NEW j \in 1..Len(Q), NEW k \in 1..Len(Q), j < k,
               Q[j].type = "screen", Q[k].type = "screen"
        PROVE  Q[j].base <= Q[k].base
    <3>1. /\ Len(P) + k \in 1..Len(R) /\ R[Len(P) + k] = Q[k]
          /\ Len(P) + j \in 1..Len(R) /\ R[Len(P) + j] = Q[j]
          /\ Len(P) \in Nat
      BY Joined
    <3>2. Len(P) + j < Len(P) + k
      BY <2>2, <3>1
    <3> QED
      BY <2>2, <3>1, <3>2 DEF Ordered
  <2> QED
    BY <2>1, <2>2 DEF Ordered
<1> QED
  BY <1>1, <1>2

\* A function on 1..n is a sequence of length n.
LEMMA SeqOfFunction ==
    ASSUME NEW S, NEW n \in Nat, NEW f \in [1..n -> S]
    PROVE  f \in Seq(S) /\ Len(f) = n
<1>1. f \in Seq(S)
  OBVIOUS
<1>2. DOMAIN f = 1..n /\ Len(f) \in Nat /\ DOMAIN f = 1..Len(f)
  BY <1>1, LenProperties
<1> QED
  BY <1>1, <1>2

\* A run of lines goes out in scroll frames that carry those lines at their places.
LEMMA LinesChunked ==
    ASSUME NEW first \in Nat, NEW lines \in Seq(Rows)
    PROVE  LET C == Chunks(first, lines)
           IN  /\ C \in Seq(Message)
               /\ \A k \in 1..Len(C) :
                    /\ C[k].type = "scroll" /\ C[k].firstIndex \in Nat
                    /\ C[k].firstIndex >= first
                    /\ \A j \in 1..Len(C[k].lines) :
                          /\ C[k].firstIndex - first + j \in 1..Len(lines)
                          /\ C[k].lines[j] = lines[C[k].firstIndex - first + j]
<1> DEFINE n == (Len(lines) + MaxChunk - 1) \div MaxChunk
           C == Chunks(first, lines)
           skip(k) == (k - 1) * MaxChunk
           last(k) == LowerOf(skip(k) + MaxChunk, Len(lines))
           part(k) == SubSeq(lines, skip(k) + 1, last(k))
<1>1. Len(lines) \in Nat /\ MaxChunk \in Nat /\ MaxChunk > 0
  BY LenProperties, SizeAssumption
<1>2. n \in Nat
  <2>1. Len(lines) + MaxChunk - 1 \in Nat
    BY <1>1
  <2> QED
    BY <1>1, <2>1, SMTT(30)
<1>3. C = [k \in 1..n |-> Scroll(first + skip(k), part(k))]
  BY DEF Chunks
<1>4. ASSUME NEW k \in 1..n
      PROVE  /\ skip(k) \in Nat
             /\ part(k) \in Seq(Rows)
             /\ \A j \in 1..Len(part(k)) : skip(k) + j \in 1..Len(lines) /\ part(k)[j] = lines[skip(k) + j]
  <2>1. skip(k) \in Nat
    <3>1. k - 1 \in Nat
      BY <1>2
    <3> QED
      BY <1>1, <3>1
  <2> HIDE DEF skip
  <2>2. last(k) \in Int /\ last(k) <= Len(lines)
    BY <1>1, <2>1, LowerAndHigher
  <2> HIDE DEF last
  <2>3. \A i \in (skip(k) + 1)..last(k) : i \in 1..Len(lines) /\ lines[i] \in Rows
    <3>1. \A i \in (skip(k) + 1)..last(k) : i \in 1..Len(lines)
      BY <1>1, <2>1, <2>2
    <3> QED
      BY <3>1, LenProperties
  <2>4. /\ part(k) \in Seq(Rows)
        /\ Len(part(k)) = IF skip(k) + 1 <= last(k) THEN last(k) - (skip(k) + 1) + 1 ELSE 0
        /\ \A i \in 1..(last(k) - (skip(k) + 1) + 1) : part(k)[i] = lines[skip(k) + 1 + i - 1]
    <3>1. skip(k) + 1 \in Int
      BY <2>1
    <3> QED
      BY <2>2, <2>3, <3>1, SubSeqProperties
  <2> HIDE DEF part
  <2>5. ASSUME NEW j \in 1..Len(part(k))
        PROVE  skip(k) + j \in 1..Len(lines) /\ part(k)[j] = lines[skip(k) + j]
    <3>1. j \in 1..(last(k) - (skip(k) + 1) + 1)
      BY <2>1, <2>2, <2>4
    <3>2. skip(k) + 1 + j - 1 = skip(k) + j /\ skip(k) + j \in (skip(k) + 1)..last(k)
      BY <2>1, <2>2, <3>1
    <3> QED
      BY <2>3, <2>4, <3>1, <3>2
  <2> QED
    BY <2>1, <2>4, <2>5
<1> HIDE DEF n, skip, part
<1>5. ASSUME NEW k \in 1..n
      PROVE  /\ C[k] \in Message
             /\ C[k].type = "scroll" /\ C[k].firstIndex = first + skip(k) /\ C[k].lines = part(k)
  <2>1. C[k] = Scroll(first + skip(k), part(k))
    BY <1>3
  <2>2. first + skip(k) \in Nat /\ part(k) \in Seq(Rows)
    BY <1>4
  <2> QED
    BY <2>1, <2>2, ScrollIsMessage
<1>6. C \in Seq(Message) /\ Len(C) = n
  <2>1. DOMAIN C = 1..n /\ C = [k \in 1..n |-> C[k]]
    BY <1>3
  <2> HIDE DEF C
  <2>2. C \in [1..n -> Message]
    BY <1>5, <2>1
  <2> QED
    BY <1>2, <2>2, SeqOfFunction
<1> HIDE DEF C
<1>7. ASSUME NEW k \in 1..Len(C)
      PROVE  /\ C[k].type = "scroll" /\ C[k].firstIndex \in Nat
             /\ C[k].firstIndex >= first
             /\ \A j \in 1..Len(C[k].lines) :
                   /\ C[k].firstIndex - first + j \in 1..Len(lines)
                   /\ C[k].lines[j] = lines[C[k].firstIndex - first + j]
  <2>1. k \in 1..n
    BY <1>6
  <2>2. C[k].firstIndex \in Nat /\ C[k].firstIndex >= first /\ C[k].firstIndex - first = skip(k)
    BY <1>4, <1>5, <2>1
  <2> QED
    BY <1>4, <1>5, <2>1, <2>2
<1> QED
  BY <1>6, <1>7 DEF C

\* The chunks of lines of the history carry history, and hold no window.
LEMMA ChunksCarry ==
    ASSUME NEW first \in Nat, NEW lines \in Seq(Rows), NEW h \in Seq(Rows),
           \A j \in 1..Len(lines) : first + j <= Len(h) /\ lines[j] = h[first + j]
    PROVE  Carried(Chunks(first, lines), h)
<1> DEFINE C == Chunks(first, lines)
<1> SUFFICES ASSUME NEW k \in 1..Len(C), NEW j \in 1..Len(C[k].lines)
             PROVE  C[k].firstIndex + j <= Len(h) /\ C[k].lines[j] = h[C[k].firstIndex + j]
  BY DEF Carried
<1>1. /\ C[k].firstIndex \in Nat
      /\ C[k].firstIndex - first + j \in 1..Len(lines)
      /\ C[k].lines[j] = lines[C[k].firstIndex - first + j]
  BY LinesChunked
<1> HIDE DEF C
<1> DEFINE i == C[k].firstIndex - first + j
<1>2. j \in Int /\ first + i = C[k].firstIndex + j
  <2>1. j \in Int
    OBVIOUS
  <2> DEFINE a == C[k].firstIndex
  <2>2. a \in Int /\ first \in Int
    BY <1>1
  <2> HIDE DEF a
  <2>3. first + (a - first + j) = a + j
    BY <2>1, <2>2
  <2> QED
    BY <2>1, <2>3 DEF a
<1>3. first + i <= Len(h) /\ C[k].lines[j] = h[first + i]
  BY <1>1
<1> QED
  BY <1>2, <1>3

\* Scroll frames have no window, so they are in order.
LEMMA ChunksOrdered ==
    ASSUME NEW first \in Nat, NEW lines \in Seq(Rows), NEW low, NEW high
    PROVE  Ordered(Chunks(first, lines), low, high)
<1>1. \A k \in 1..Len(Chunks(first, lines)) : Chunks(first, lines)[k].type # "screen"
  BY LinesChunked
<1> QED
  BY <1>1 DEF Ordered

\* A frame on its own.
LEMMA OneFrame ==
    ASSUME NEW m \in Message
    PROVE  /\ <<m>> \in Seq(Message) /\ Len(<<m>>) = 1 /\ <<m>>[1] = m
           /\ \A h : m.type # "scroll" => Carried(<<m>>, h)
           /\ \A low, high : m.type = "screen" /\ low < m.base /\ m.base <= high
                                => Ordered(<<m>>, low, high)
           /\ \A low, high : m.type # "screen" => Ordered(<<m>>, low, high)
<1>1. <<m>> \in Seq(Message) /\ Len(<<m>>) = 1 /\ <<m>>[1] = m
  OBVIOUS
<1>2. \A k \in 1..Len(<<m>>) : k = 1 /\ <<m>>[k] = m
  BY <1>1
<1>3. \A j, k \in 1..Len(<<m>>) : ~(j < k)
  BY <1>2
<1>4. m.type = "screen" => m.base \in Nat
  BY MessageKinds DEF IsScreen
<1>5. \A h : m.type # "scroll" => Carried(<<m>>, h)
  BY <1>2 DEF Carried
<1> HIDE DEF Message
<1>6. \A low, high : m.type = "screen" /\ low < m.base /\ m.base <= high
                        => Ordered(<<m>>, low, high)
  BY <1>2, <1>3 DEF Ordered
<1>7. \A low, high : m.type # "screen" => Ordered(<<m>>, low, high)
  BY <1>2 DEF Ordered
<1> QED
  BY <1>1, <1>5, <1>6, <1>7

\* The first frame is taken off.
LEMMA FirstTaken ==
    ASSUME NEW P \in Seq(Message), P # <<>>, NEW Q \in Seq(Message)
    PROVE  /\ P \o Q \in Seq(Message) /\ Tail(P) \o Q \in Seq(Message)
           /\ Len(Tail(P) \o Q) = Len(P \o Q) - 1 /\ Len(P \o Q) \in Nat \ {0}
           /\ (P \o Q)[1] = Head(P) /\ Head(P) \in Message /\ Tail(P) \in Seq(Message)
           /\ Len(Tail(P)) < Len(P)
           /\ \A k \in 1..Len(Tail(P) \o Q) :
                 /\ k + 1 \in 1..Len(P \o Q)
                 /\ (Tail(P) \o Q)[k] = (P \o Q)[k + 1]
<1>1. /\ Tail(P) \in Seq(Message) /\ Head(P) \in Message
      /\ Len(Tail(P)) = Len(P) - 1 /\ Len(P) \in Nat /\ Len(Tail(P)) \in Nat
      /\ \A k \in 1..Len(Tail(P)) : Tail(P)[k] = P[k + 1]
  BY HeadTailProperties, LenProperties
<1>2. Len(Q) \in Nat
  BY LenProperties
<1>3. /\ P \o Q \in Seq(Message) /\ Len(P \o Q) = Len(P) + Len(Q)
      /\ \A k \in 1..(Len(P) + Len(Q)) : (P \o Q)[k] = IF k <= Len(P) THEN P[k] ELSE Q[k - Len(P)]
  BY ConcatProperties
<1>4. /\ Tail(P) \o Q \in Seq(Message) /\ Len(Tail(P) \o Q) = Len(Tail(P)) + Len(Q)
      /\ \A k \in 1..(Len(Tail(P)) + Len(Q)) :
            (Tail(P) \o Q)[k] = IF k <= Len(Tail(P)) THEN Tail(P)[k] ELSE Q[k - Len(Tail(P))]
  BY <1>1, ConcatProperties
<1>5. P[1] = Head(P) /\ Len(P) >= 1
  BY <1>1
<1>6. (P \o Q)[1] = Head(P) /\ Len(P \o Q) \in Nat \ {0} /\ Len(Tail(P) \o Q) = Len(P \o Q) - 1
  BY <1>1, <1>2, <1>3, <1>4, <1>5
<1>7. ASSUME NEW k \in 1..Len(Tail(P) \o Q)
      PROVE  k + 1 \in 1..Len(P \o Q) /\ (Tail(P) \o Q)[k] = (P \o Q)[k + 1]
  <2>1. k + 1 \in 1..(Len(P) + Len(Q)) /\ k \in 1..(Len(Tail(P)) + Len(Q))
    BY <1>1, <1>2, <1>4
  <2>2. CASE k <= Len(Tail(P))
    <3>1. k + 1 <= Len(P) /\ k \in 1..Len(Tail(P))
      BY <1>1, <2>1, <2>2
    <3> QED
      BY <1>1, <1>3, <1>4, <2>1, <2>2, <3>1
  <2>3. CASE ~(k <= Len(Tail(P)))
    <3>1. ~(k + 1 <= Len(P)) /\ k - Len(Tail(P)) = k + 1 - Len(P)
      BY <1>1, <2>1, <2>3
    <3> QED
      BY <1>1, <1>3, <1>4, <2>1, <2>3, <3>1
  <2> QED
    BY <1>3, <2>1, <2>2, <2>3
<1> QED
  BY <1>1, <1>3, <1>4, <1>6, <1>7

-----------------------------------------------------------------------------
(* The invariant.                                                            *)

\* What the frame built will be written to the page as: dispatch keeps nothing
\* but the lines of one built before the page's resume.
Due ==
    IF frame = NoFrame THEN <<>>
    ELSE (IF frame.resumed # (conn \in {"batch", "live"}) \/ DOMAIN frame.screen.rows = {}
          THEN <<>> ELSE <<frame.screen>>)
             \o Chunks(frame.scrollFirst, frame.scroll)

\* All that is under way to the page, in the order it will arrive.
Pending == wire \o (batch \o Due)

Resumed == conn \in {"batch", "live"}

\* A frame between build and dispatch.
FrameInv ==
    frame # NoFrame =>
        /\ frame.resumed \in BOOLEAN /\ (frame.resumed => Resumed)
        /\ frame.screen \in Message /\ frame.screen.type = "screen"
        /\ frame.scrollFirst \in Nat /\ frame.scroll \in Seq(Rows)

\* The builder's cache is a whole screen, or nothing.
BuilderInv ==
    /\ builder = [rows |-> builder.rows, base |-> builder.base, prevAlt |-> builder.prevAlt,
                  prevAltValid |-> builder.prevAltValid]
    /\ builder.prevAlt \in BOOLEAN /\ builder.prevAltValid \in BOOLEAN
    /\ builder.rows # <<>> => builder.rows \in [1..Height -> Rows] /\ builder.prevAltValid

\* The screen; the retained lines, and the bound of the outputs on all lines; the
\* page's socket; the page.
ScreenData ==
    /\ screen \in [1..Height -> Rows] /\ saved \in [1..Height -> Rows]
    /\ inAltScreen \in BOOLEAN /\ drained \in Seq(Rows)
    /\ scrollbackClearedPending \in BOOLEAN

LogData ==
    /\ history \in Seq(Rows) /\ capacity \in Nat
    /\ oldest \in 0..Committed /\ Committed - oldest <= capacity
    /\ outputs \in 0..MaxOutput /\ Committed + Len(drained) <= outputs

ConnData ==
    /\ conn \in {"closed", "open", "batch", "live"}
    /\ (batch # <<>>) = (conn = "batch")
    /\ conn = "closed" => wire = <<>> /\ frame = NoFrame /\ ~acked
    /\ Len(wire) <= MaxWire /\ wire \in Seq(Message) /\ batch \in Seq(Message)
    /\ asked \in -1..(MaxOutput + Height)

StoreData ==
    /\ IsStore(store) /\ Held(store) \subseteq 0..(Committed + Height - 1)
    /\ store.altRows = <<>> \/ store.altRows \in [1..Height -> Rows]

DataInv == ScreenData /\ LogData /\ ConnData /\ FrameInv /\ BuilderInv /\ StoreData

\* Row i of the page is the line the server committed.
Right(i) == i < Committed /\ store.lines[i] = history[i + 1]

\* Frames under way bring history, windows in order and none below an erase; the
\* rows held that a later erase or the floor speaks for are the server's.
ClaimInv ==
    /\ Carried(Pending, history)
    /\ Ordered(Pending, store.erasedThrough, Committed)
    /\ store.erasedThrough < Committed
    /\ \A i \in Held(store) : i <= store.erasedThrough => Right(i)
    /\ \A i \in Held(store) \ unproven : i < store.unconfirmedFrom => Right(i)

\* A frame draws row i of a screen, whose window is at `base' and which may be the
\* alternate one, as `row'; or leaves that row alone.
DrawsAt(m, i, base, alt, row) ==
    /\ m.type = "screen" /\ m.altActive = alt /\ (alt => m.base = base)
    /\ i - m.base + 1 \in DOMAIN m.rows /\ m.rows[i - m.base + 1] = row

SparesAt(m, i, base, alt) ==
    /\ m.type # "resumeAck"
    /\ m.type = "screen" =>
          /\ m.altActive = alt /\ (alt => m.base = base)
          /\ i - m.base + 1 \in (1..Height) \ DOMAIN m.rows

\* All of some frames do; one of them draws that row and none after it touches it.
Undisturbed(P, i, base, alt) == \A k \in 1..Len(P) : SparesAt(P[k], i, base, alt)
UnderWay(P, i, base, alt, row) ==
    \E k \in 1..Len(P) :
        /\ DrawsAt(P[k], i, base, alt, row)
        /\ \A j \in (k + 1)..Len(P) : SparesAt(P[j], i, base, alt)

\* The page shows that row.
ShowsAt(s, i, base, alt, row) ==
    /\ s.alt = alt
    /\ IF alt THEN s.altRows # <<>> /\ s.altRows[i - base + 1] = row
       ELSE s.height = Height /\ InWindow(s, i) /\ i \in Held(s) /\ s.lines[i] = row

\* The index of row y of the screen the builder last sent.  That row is under way,
\* or the page shows it and nothing under way touches it.
Place(y) == builder.base + y - 1
RowInv(y) ==
    \/ UnderWay(Pending, Place(y), builder.base, builder.prevAlt, builder.rows[y])
    \/ /\ acked /\ ShowsAt(store, Place(y), builder.base, builder.prevAlt, builder.rows[y])
       /\ Undisturbed(Pending, Place(y), builder.base, builder.prevAlt)

ShownInv ==
    Resumed =>
        /\ acked \/ \E k \in 1..Len(Pending) : Pending[k].type = "resumeAck"
        /\ builder.rows # <<>> =>
              builder.base = Committed /\ \A y \in 1..Height : RowInv(y)

Inv == DataInv /\ ClaimInv /\ ShownInv

-----------------------------------------------------------------------------
(* What is under way, and the history it is taken from.                      *)

\* What the assumptions on the constants say of each.
LEMMA Sizes ==
    /\ Height \in Nat \ {0} /\ MaxChunk \in Nat \ {0} /\ MaxReplayLines \in Nat \ {0}
    /\ MaxOutput \in Nat /\ MaxWire \in Nat /\ Infinity \in Nat /\ Blank \in Rows
    /\ Capacities \subseteq Nat
BY SizeAssumption, BoundAssumption DEF Rows

\* The frame built is written as frames.
LEMMA DueIsFrames ==
    ASSUME FrameInv
    PROVE  Due \in Seq(Message)
<1> DEFINE d == IF frame.resumed # (conn \in {"batch", "live"}) \/ DOMAIN frame.screen.rows = {}
                THEN <<>> ELSE <<frame.screen>>
<1>1. CASE frame = NoFrame
  BY <1>1 DEF Due
<1>2. CASE frame # NoFrame
  <2>1. d \in Seq(Message)
    BY <1>2, OneFrame DEF FrameInv
  <2>2. Chunks(frame.scrollFirst, frame.scroll) \in Seq(Message)
    BY <1>2, LinesChunked DEF FrameInv
  <2>3. Due = d \o Chunks(frame.scrollFirst, frame.scroll)
    BY <1>2 DEF Due
  <2> HIDE DEF d
  <2> QED
    BY <2>1, <2>2, <2>3, ConcatProperties
<1> QED
  BY <1>1, <1>2

\* All that is under way is frames.
LEMMA PendingIsFrames ==
    ASSUME ConnData, FrameInv
    PROVE  /\ Due \in Seq(Message) /\ batch \o Due \in Seq(Message) /\ Pending \in Seq(Message)
           /\ wire \o batch \in Seq(Message) /\ Pending = (wire \o batch) \o Due
<1>1. Due \in Seq(Message) /\ wire \in Seq(Message) /\ batch \in Seq(Message)
  BY DueIsFrames DEF ConnData
<1>2. batch \o Due \in Seq(Message) /\ wire \o batch \in Seq(Message)
  BY <1>1, ConcatProperties
<1>3. Pending = (wire \o batch) \o Due
  BY <1>1, ConcatAssociative DEF Pending
<1> QED
  BY <1>1, <1>2, <1>3, ConcatProperties DEF Pending

\* History only grows.
Extends(g, h) == Len(h) <= Len(g) /\ \A i \in 1..Len(h) : g[i] = h[i]

\* What carries a history carries its continuations.
LEMMA CarriedGrows ==
    ASSUME NEW P \in Seq(Message), NEW h \in Seq(Rows), NEW g \in Seq(Rows),
           Extends(g, h), Carried(P, h)
    PROVE  Carried(P, g)
<1> SUFFICES ASSUME NEW k \in 1..Len(P), P[k].type = "scroll", NEW j \in 1..Len(P[k].lines)
             PROVE  P[k].firstIndex + j <= Len(g) /\ P[k].lines[j] = g[P[k].firstIndex + j]
  BY DEF Carried
<1>1. /\ P[k].firstIndex + j <= Len(h) /\ P[k].lines[j] = h[P[k].firstIndex + j]
  BY DEF Carried
<1>2. P[k] \in Message
  OBVIOUS
<1>3. P[k].firstIndex \in Nat /\ Len(P[k].lines) \in Nat
  BY <1>2, MessageKinds DEF IsScroll
<1>4. P[k].firstIndex + j \in 1..Len(h) /\ Len(h) \in Nat /\ Len(g) \in Nat
  BY <1>1, <1>3, LenProperties
<1> QED
  BY <1>1, <1>4 DEF Extends

\* Windows in order within bounds are so within wider ones.
LEMMA OrderedWidens ==
    ASSUME NEW P \in Seq(Message), NEW low \in Int, NEW high \in Int, NEW down \in Int,
           NEW up \in Int, down <= low, high <= up, Ordered(P, low, high)
    PROVE  Ordered(P, down, up)
<1>1. ASSUME NEW k \in 1..Len(P), P[k].type = "screen" PROVE down < P[k].base /\ P[k].base <= up
  <2>1. low < P[k].base /\ P[k].base <= high
    BY <1>1 DEF Ordered
  <2>2. P[k].base \in Nat
    BY <1>1, MessageKinds DEF IsScreen
  <2> QED
    BY <2>1, <2>2
<1> QED
  BY <1>1 DEF Ordered

\* A drain types the history again, and keeps it a continuation.
LEMMA Drained ==
    ASSUME ScreenData, LogData, Drain
    PROVE  /\ MainLines \in Seq(Rows) /\ Len(MainLines) \in Nat
           /\ history' \in Seq(Rows) /\ Extends(history', history)
           /\ Committed' = Committed + Len(MainLines)
           /\ \A j \in 1..Len(MainLines) :
                 Committed + j <= Committed' /\ MainLines[j] = history'[Committed + j]
           /\ Committed \in Nat /\ Committed' \in Nat /\ Committed <= Committed'
           /\ oldest' \in 0..Committed' /\ Committed' - oldest' <= capacity
           /\ capacity' = capacity
           /\ drained' = <<>> /\ Committed' <= outputs
<1>1. /\ MainLines \in Seq(Rows) /\ Len(MainLines) <= Len(drained)
      /\ Len(MainLines) \in Nat /\ Len(drained) \in Nat
  BY LenProperties DEF MainLines, ScreenData
<1>2. /\ drained' = <<>> /\ history' = history \o MainLines /\ capacity' = capacity
      /\ oldest' = Max({oldest, Len(history') - capacity})
  BY DEF Drain, Commit
<1> HIDE DEF MainLines
<1>3. /\ history' \in Seq(Rows) /\ Len(history') = Len(history) + Len(MainLines)
      /\ \A i \in 1..(Len(history) + Len(MainLines)) :
            history'[i] = IF i <= Len(history) THEN history[i] ELSE MainLines[i - Len(history)]
      /\ Len(history) \in Nat /\ history \in Seq(Rows)
  BY <1>1, <1>2, ConcatProperties, LenProperties DEF LogData
<1>4. Extends(history', history)
  BY <1>1, <1>3 DEF Extends
<1>5. Committed' = Len(history') /\ Committed = Len(history)
  BY DEF Committed
<1>6. \A j \in 1..Len(MainLines) :
         Committed + j <= Committed' /\ MainLines[j] = history'[Committed + j]
  <2> SUFFICES ASSUME NEW j \in 1..Len(MainLines)
               PROVE  Committed + j <= Committed' /\ MainLines[j] = history'[Committed + j]
    OBVIOUS
  <2>1. /\ Committed + j \in 1..(Len(history) + Len(MainLines)) /\ ~(Committed + j <= Len(history))
        /\ Committed + j - Len(history) = j
    BY <1>1, <1>3, <1>5
  <2> QED
    BY <1>3, <1>5, <2>1
<1>7. oldest' \in 0..Committed' /\ Committed' - oldest' <= capacity
  <2>1. /\ oldest \in 0..Len(history) /\ capacity \in Nat
    BY <1>5 DEF LogData
  <2>2. oldest' = IF oldest >= Len(history') - capacity THEN oldest ELSE Len(history') - capacity
    <3>1. oldest \in Int /\ Len(history') - capacity \in Int
      BY <1>1, <1>3, <2>1
    <3> QED
      BY <1>2, <3>1, LowerAndHigher DEF HigherOf
  <2> QED
    BY <1>1, <1>3, <1>5, <2>1, <2>2
<1>8. Committed' <= outputs
  BY <1>1, <1>3, <1>5 DEF LogData
<1> QED
  BY <1>1, <1>2, <1>3, <1>4, <1>5, <1>6, <1>7, <1>8

\* With nothing new under way and the page as it is, a longer history leaves the
\* claims standing.
LEMMA ClaimsStand ==
    ASSUME DataInv, ClaimInv, UNCHANGED <<store, unproven>>, Pending' = Pending,
           history' \in Seq(Rows), Extends(history', history)
    PROVE  ClaimInv'
<1>1. Pending \in Seq(Message)
  BY PendingIsFrames DEF DataInv
<1>2. /\ Committed' = Len(history') /\ Committed = Len(history) /\ Committed <= Committed'
      /\ Committed \in Nat /\ Committed' \in Nat /\ history \in Seq(Rows)
  BY LenProperties DEF Committed, Extends, DataInv, LogData
<1>3. store.erasedThrough \in Int /\ \A i \in Held(store) : i \in Nat
  BY DEF DataInv, StoreData, IsStore
<1>4. ASSUME NEW i \in Held(store), Right(i) PROVE Right(i)'
  <2>1. i + 1 \in 1..Len(history) /\ i < Committed' /\ store.lines[i] = history[i + 1]
    BY <1>2, <1>3, <1>4 DEF Right
  <2>2. history'[i + 1] = history[i + 1]
    BY <2>1 DEF Extends
  <2> QED
    BY <2>1, <2>2 DEF Right
<1>5. Carried(Pending, history')
  BY <1>1, <1>2, CarriedGrows DEF ClaimInv
<1>6. Ordered(Pending, store.erasedThrough, Committed')
  BY <1>1, <1>2, <1>3, OrderedWidens DEF ClaimInv
<1>7. store.erasedThrough < Committed'
  BY <1>2, <1>3 DEF ClaimInv
<1>8. \A i \in Held(store) : i <= store.erasedThrough => Right(i)'
  BY <1>4 DEF ClaimInv
<1>9. \A i \in Held(store) \ unproven : i < store.unconfirmedFrom => Right(i)'
  BY <1>4 DEF ClaimInv
<1> QED
  BY <1>5, <1>6, <1>7, <1>8, <1>9 DEF ClaimInv

\* And so does the screen the page shows.
LEMMA ShownStands ==
    ASSUME ShownInv, UNCHANGED <<store, acked, builder>>, Pending' = Pending,
           Committed' = Committed, Resumed' => Resumed
    PROVE  ShownInv'
BY DEF ShownInv, RowInv, Place

-----------------------------------------------------------------------------
(* The steps that leave what is under way as it is.                          *)

\* A step of output changes the screen, and may hold one line more.
LEMMA OutputKeeps ==
    ASSUME Inv, Output, ScreenData', oldest' \in {oldest, Committed},
           Len(drained') <= Len(drained) + 1
    PROVE  Inv'
<1>1. /\ UNCHANGED <<capacity, history, builder, frame, conn, asked, batch, wire, store, acked,
                     unproven>>
      /\ outputs < MaxOutput /\ outputs' = outputs + 1
  BY DEF Output, connVars, pageVars, giveUpVars
<1>2. /\ Pending' = Pending /\ Committed' = Committed /\ Resumed' = Resumed
      /\ Committed \in Nat
  BY <1>1, LenProperties DEF Pending, Due, Committed, Resumed, Chunks, Inv, DataInv, LogData
<1>3. LogData'
  <2>1. Len(drained) \in Nat /\ Len(drained') \in Nat
    BY LenProperties DEF Inv, DataInv, ScreenData
  <2>2. /\ outputs \in 0..MaxOutput /\ Committed + Len(drained) <= outputs
        /\ history \in Seq(Rows) /\ capacity \in Nat
        /\ oldest \in 0..Committed /\ Committed - oldest <= capacity
    BY DEF Inv, DataInv, LogData
  <2>3. outputs' \in 0..MaxOutput /\ Committed + Len(drained') <= outputs'
    BY <1>1, <1>2, <2>1, <2>2, Sizes
  <2>4. oldest' \in 0..Committed /\ Committed - oldest' <= capacity
    <3>1. CASE oldest' = oldest
      BY <2>2, <3>1
    <3>2. CASE oldest' = Committed
      BY <1>2, <2>2, <3>2
    <3> QED
      BY <3>1, <3>2
  <2> QED
    BY <1>1, <1>2, <2>2, <2>3, <2>4 DEF LogData
<1>4. ConnData' /\ FrameInv' /\ BuilderInv' /\ StoreData'
  BY <1>1, <1>2 DEF Inv, DataInv, ConnData, FrameInv, BuilderInv, StoreData
<1>5. ClaimInv'
  <2>1. history \in Seq(Rows) /\ Extends(history, history)
    BY LenProperties DEF Extends, Inv, DataInv, LogData
  <2> QED
    BY <1>1, <1>2, <2>1, ClaimsStand DEF Inv
<1>6. ShownInv'
  BY <1>1, <1>2, ShownStands DEF Inv
<1> QED
  BY <1>3, <1>4, <1>5, <1>6 DEF Inv, DataInv

\* A line at the bottom margin keeps the invariant.
LEMMA PrintLineKeeps ==
    ASSUME Inv, PrintLine
    PROVE  Inv'
<1>1. /\ Output /\ drained' = Append(drained, Head(screen))
      /\ screen' = Append(Tail(screen), outputs') /\ oldest' = oldest
      /\ UNCHANGED <<saved, inAltScreen, scrollbackClearedPending>>
  BY DEF PrintLine
<1>2. screen \in Seq(Rows) /\ Len(screen) = Height /\ Height \in Nat \ {0}
  BY Sizes, SeqOfFunction DEF Inv, DataInv, ScreenData
<1>3. outputs' \in Rows
  BY <1>1, Sizes DEF Output, Rows, Inv, DataInv, LogData
<1> HIDE DEF Rows
<1>4. /\ Head(screen) \in Rows /\ Tail(screen) \in Seq(Rows) /\ Len(Tail(screen)) = Height - 1
  <2>1. screen # <<>>
    BY <1>2
  <2> QED
    BY <1>2, <2>1, HeadTailProperties
<1>5. drained' \in Seq(Rows) /\ Len(drained') = Len(drained) + 1
  BY <1>1, <1>4, AppendProperties DEF Inv, DataInv, ScreenData
<1>6. screen' \in [1..Height -> Rows]
  <2>1. screen' \in Seq(Rows) /\ Len(screen') = Height
    BY <1>1, <1>2, <1>3, <1>4, AppendProperties
  <2> QED
    BY <2>1, LenProperties
<1>7. ScreenData'
  BY <1>1, <1>5, <1>6 DEF ScreenData, Inv, DataInv
<1>8. Len(drained) \in Nat /\ Len(drained') <= Len(drained) + 1
  BY <1>5, LenProperties DEF Inv, DataInv, ScreenData
<1> QED
  BY <1>1, <1>7, <1>8, OutputKeeps

\* So does a row written in place.
LEMMA RedrawKeeps ==
    ASSUME Inv, NEW y \in 1..Height, Redraw(y)
    PROVE  Inv'
<1>1. /\ Output /\ screen' = [screen EXCEPT ![y] = outputs'] /\ oldest' = oldest
      /\ UNCHANGED <<saved, inAltScreen, drained, scrollbackClearedPending>>
  BY DEF Redraw
<1>2. outputs' \in Rows
  BY <1>1, Sizes DEF Output, Rows, Inv, DataInv, LogData
<1> HIDE DEF Rows
<1>3. ScreenData'
  BY <1>1, <1>2 DEF ScreenData, Inv, DataInv
<1>4. Len(drained') <= Len(drained) + 1
  BY <1>1, LenProperties DEF Inv, DataInv, ScreenData
<1> QED
  BY <1>1, <1>3, <1>4, OutputKeeps

\* So do a change of screen and ED3.
LEMMA SwitchKeeps ==
    ASSUME Inv, EnterAltScreen \/ ExitAltScreen \/ EraseSavedLines
    PROVE  Inv'
<1>1. Output /\ drained' \in {drained, <<>>} /\ oldest' \in {oldest, Committed}
  BY DEF EnterAltScreen, ExitAltScreen, EraseSavedLines
<1>2. BlankScreen \in [1..Height -> Rows]
  BY Sizes DEF BlankScreen
<1> HIDE DEF Rows
<1>3. ScreenData'
  <2>1. CASE EnterAltScreen
    BY <1>2, <2>1 DEF EnterAltScreen, ScreenData, Inv, DataInv
  <2>2. CASE ExitAltScreen
    BY <1>2, <2>2 DEF ExitAltScreen, ScreenData, Inv, DataInv
  <2>3. CASE EraseSavedLines
    BY <2>3 DEF EraseSavedLines, ScreenData, Inv, DataInv
  <2> QED
    BY <2>1, <2>2, <2>3
<1>4. Len(drained') <= Len(drained) + 1
  BY <1>1, LenProperties DEF Inv, DataInv, ScreenData
<1> QED
  BY <1>1, <1>3, <1>4, OutputKeeps

\* A drain that no frame carries.
LEMMA DrainKeeps ==
    ASSUME Inv, Drain, conn' = conn, ShownInv',
           UNCHANGED <<scrollbackClearedPending, frame, asked, batch, wire, store, acked, unproven,
                       outputs>>,
           BuilderInv'
    PROVE  Inv'
<1>1. Pending' = Pending /\ Resumed' = Resumed
  BY DEF Pending, Due, Resumed, Chunks
<1>2. /\ history' \in Seq(Rows) /\ Extends(history', history)
      /\ Committed \in Nat /\ Committed' \in Nat /\ Committed <= Committed'
      /\ oldest' \in 0..Committed' /\ Committed' - oldest' <= capacity /\ capacity' = capacity
      /\ drained' = <<>> /\ Committed' <= outputs
  BY Drained DEF Inv, DataInv
<1>3. ScreenData' /\ LogData'
  <2>1. ScreenData'
    BY <1>2 DEF Drain, ScreenData, Inv, DataInv
  <2>2. Committed' + Len(drained') <= outputs
    BY <1>2
  <2> QED
    BY <1>2, <2>1, <2>2 DEF LogData, Inv, DataInv
<1>4. ConnData' /\ FrameInv'
  BY <1>1 DEF ConnData, FrameInv, Inv, DataInv
<1>5. StoreData'
  <2>1. Held(store) \subseteq 0..(Committed' + Height - 1)
    BY <1>2, Sizes DEF Inv, DataInv, StoreData
  <2> QED
    BY <2>1 DEF StoreData, Inv, DataInv
<1>6. ClaimInv'
  BY <1>1, <1>2, ClaimsStand DEF Inv
<1> QED
  BY <1>3, <1>4, <1>5, <1>6 DEF Inv, DataInv

\* A reset builder has no rows the page could owe.
LEMMA BuilderReset ==
    ASSUME BuilderInv, Reset
    PROVE  BuilderInv' /\ builder'.rows = <<>>
<1>1. builder' = [rows |-> <<>>, base |-> 0, prevAlt |-> builder.prevAlt,
                  prevAltValid |-> builder.prevAltValid]
  BY DEF Reset, BuilderInv
<1> QED
  BY <1>1 DEF BuilderInv

\* A pass with no socket attached keeps the invariant.
LEMMA RetainKeeps ==
    ASSUME Inv, RetainSuspendedScrollback
    PROVE  Inv'
<1>1. /\ Drain /\ conn = "closed"
      /\ UNCHANGED <<scrollbackClearedPending, builder, frame, conn, asked, batch, wire, store,
                     acked, unproven, outputs>>
  BY DEF RetainSuspendedScrollback, connVars, pageVars, giveUpVars
<1>2. ShownInv'
  BY <1>1 DEF ShownInv, Resumed
<1>3. BuilderInv'
  BY <1>1 DEF BuilderInv, Inv, DataInv
<1> QED
  BY <1>1, <1>2, <1>3, DrainKeeps

\* So does the resume of another socket, which drains and resets.
LEMMA ViewerResumesKeeps ==
    ASSUME Inv, ViewerResumes
    PROVE  Inv'
<1>1. /\ Drain /\ Reset
      /\ UNCHANGED <<scrollbackClearedPending, frame, conn, asked, batch, wire, store,
                     acked, unproven, outputs>>
  BY DEF ViewerResumes, connVars, pageVars
<1>2. BuilderInv' /\ builder'.rows = <<>>
  BY <1>1, BuilderReset DEF Inv, DataInv
<1>3. Pending' = Pending /\ Resumed' = Resumed
  BY <1>1 DEF Pending, Due, Resumed, Chunks
<1>4. ShownInv'
  BY <1>1, <1>2, <1>3 DEF ShownInv, Inv
<1> QED
  BY <1>1, <1>2, <1>4, DrainKeeps

\* Another socket going changes nothing of the page's, and one that comes only
\* has the builder reset.
LEMMA ViewerKeeps ==
    ASSUME Inv, ViewerJoins \/ ViewerLeaves
    PROVE  Inv'
<1>1. UNCHANGED <<screen, saved, inAltScreen, drained, capacity, history, oldest,
                  scrollbackClearedPending, frame, conn, asked, batch, wire, store,
                  acked, unproven, outputs>>
  BY DEF ViewerJoins, ViewerLeaves, screenVars, logVars, connVars, pageVars, giveUpVars
<1>2. /\ Pending' = Pending /\ Committed' = Committed /\ Resumed' = Resumed
  BY <1>1 DEF Pending, Due, Committed, Resumed, Chunks
<1>3. BuilderInv' /\ ShownInv'
  <2>1. CASE ViewerJoins
    <3>1. BuilderInv' /\ builder'.rows = <<>>
      BY <2>1, BuilderReset DEF ViewerJoins, Inv, DataInv
    <3> QED
      BY <1>1, <1>2, <3>1 DEF ShownInv, Inv
  <2>2. CASE ViewerLeaves
    <3>1. builder' = builder
      BY <2>2 DEF ViewerLeaves
    <3> QED
      BY <1>1, <1>2, <3>1, ShownStands DEF Inv, DataInv, BuilderInv
  <2> QED
    BY <2>1, <2>2
<1>4. DataInv'
  BY <1>1, <1>2, <1>3 DEF Inv, DataInv, ScreenData, LogData, ConnData, FrameInv, StoreData
<1>5. history' \in Seq(Rows) /\ Extends(history', history)
  BY <1>1, LenProperties DEF Extends, Inv, DataInv, LogData
<1> QED
  BY <1>1, <1>2, <1>3, <1>4, <1>5, ClaimsStand DEF Inv

\* A frame, or a batch, that is written is still under way.
LEMMA WriteBatchMoves ==
    ASSUME Inv, WriteBatch
    PROVE  Pending' = Pending
<1>1. /\ wire' = wire \o batch /\ batch' = <<>> /\ conn = "batch" /\ conn' = "live"
      /\ frame' = frame
  BY DEF WriteBatch, serverVars
<1>2. Due' = Due
  BY <1>1 DEF Due, Chunks
<1>3. /\ Due \in Seq(Message) /\ wire \in Seq(Message) /\ batch \in Seq(Message)
      /\ wire \o batch \in Seq(Message) /\ Pending = (wire \o batch) \o Due
  BY PendingIsFrames DEF Inv, DataInv, ConnData
<1>4. <<>> \o Due = Due
  BY <1>3, ConcatEmptySeq
<1>5. Pending' = (wire \o batch) \o (<<>> \o Due)
  BY <1>1, <1>2 DEF Pending
<1> QED
  BY <1>3, <1>4, <1>5

\* So it keeps the invariant.
LEMMA WriteBatchKeeps ==
    ASSUME Inv, WriteBatch
    PROVE  Inv'
<1>1. /\ conn = "batch" /\ conn' = "live" /\ Len(wire) + Len(batch) <= MaxWire
      /\ wire' = wire \o batch /\ batch' = <<>>
      /\ UNCHANGED <<screen, saved, inAltScreen, drained, capacity, history, oldest,
                  scrollbackClearedPending, builder, frame, asked, store,
                  acked, unproven, outputs>>
  BY DEF WriteBatch, serverVars, screenVars, logVars, pageVars, giveUpVars
<1>2. Resumed /\ Resumed' /\ Committed' = Committed
  BY <1>1 DEF Resumed, Committed
<1>3. Pending' = Pending
  BY WriteBatchMoves
<1>4. ConnData'
  <2>1. /\ wire' \in Seq(Message) /\ Len(wire') = Len(wire) + Len(batch)
        /\ <<>> \in Seq(Message)
    BY <1>1, ConcatProperties DEF Inv, DataInv, ConnData
  <2> QED
    BY <1>1, <2>1 DEF Inv, DataInv, ConnData
<1>5. DataInv'
  BY <1>1, <1>2, <1>4 DEF Inv, DataInv, ScreenData, LogData, FrameInv, BuilderInv, StoreData
<1>6. history' \in Seq(Rows) /\ Extends(history', history)
  BY <1>1, LenProperties DEF Extends, Inv, DataInv, LogData
<1> QED
  BY <1>1, <1>2, <1>3, <1>5, <1>6, ClaimsStand, ShownStands DEF Inv

\* Dispatch moves the frame built to the wire: what is under way stays.
LEMMA DispatchMoves ==
    ASSUME Inv, DispatchFrame
    PROVE  Pending' = Pending /\ Due = FramePayloads
<1>1. /\ frame # NoFrame /\ conn \in {"open", "live"} /\ batch' = batch
      /\ wire' = wire \o FramePayloads /\ frame' = NoFrame
  BY DEF DispatchFrame, connVars
<1>2. Due' = <<>> /\ batch = <<>>
  BY <1>1 DEF Due, Inv, DataInv, ConnData
<1>3. Due = FramePayloads
  <2>1. (conn \in {"batch", "live"}) = (conn = "live")
    BY <1>1
  <2> QED
    BY <1>1, <2>1 DEF Due, FramePayloads
<1>4. /\ Due \in Seq(Message) /\ wire \in Seq(Message)
  BY PendingIsFrames DEF Inv, DataInv, ConnData
<1>5. /\ <<>> \o Due = Due /\ wire \o Due \in Seq(Message) /\ (wire \o Due) \o <<>> = wire \o Due
      /\ <<>> \o <<>> = <<>>
  BY <1>4, ConcatEmptySeq, ConcatProperties
<1>6. Pending = wire \o (<<>> \o Due)
  BY <1>2 DEF Pending
<1>7. Pending' = (wire \o Due) \o (<<>> \o <<>>)
  BY <1>1, <1>2, <1>3 DEF Pending
<1> QED
  BY <1>3, <1>5, <1>6, <1>7

\* And keeps the invariant.
LEMMA DispatchKeeps ==
    ASSUME Inv, DispatchFrame
    PROVE  Inv'
<1>1. /\ frame # NoFrame /\ conn \in {"open", "live"} /\ conn' = conn /\ batch' = batch
      /\ Len(wire) + Len(FramePayloads) <= MaxWire
      /\ wire' = wire \o FramePayloads /\ frame' = NoFrame
      /\ UNCHANGED <<screen, saved, inAltScreen, drained, capacity, history, oldest,
                  scrollbackClearedPending, builder, asked, store,
                  acked, unproven, outputs>>
  BY DEF DispatchFrame, screenVars, logVars, connVars, pageVars, giveUpVars
<1>2. Resumed' = Resumed /\ Committed' = Committed
  BY <1>1 DEF Resumed, Committed
<1>3. Pending' = Pending /\ Due = FramePayloads
  BY DispatchMoves
<1>5. ConnData'
  <2>1. /\ wire' \in Seq(Message) /\ Len(wire') = Len(wire) + Len(FramePayloads)
    BY <1>1, <1>3, PendingIsFrames, ConcatProperties DEF Inv, DataInv, ConnData
  <2> QED
    BY <1>1, <2>1 DEF Inv, DataInv, ConnData
<1>6. DataInv'
  BY <1>1, <1>2, <1>5 DEF Inv, DataInv, ScreenData, LogData, FrameInv, BuilderInv, StoreData
<1>7. history' \in Seq(Rows) /\ Extends(history', history)
  BY <1>1, LenProperties DEF Extends, Inv, DataInv, LogData
<1> QED
  BY <1>1, <1>2, <1>3, <1>6, <1>7, ClaimsStand, ShownStands DEF Inv

-----------------------------------------------------------------------------
(* Sockets come and go.                                                      *)

\* With nothing under way the claims are about the store alone.
LEMMA NothingUnderWay ==
    Carried(<<>>, history') /\ \A low, high : Ordered(<<>>, low, high)
BY DEF Carried, Ordered

\* A page that connects has nothing under way, and may have a new store.
LEMMA ConnectKeeps ==
    ASSUME Inv, Connect
    PROVE  Inv'
<1>1. /\ conn = "closed" /\ conn' = "open" /\ acked' = FALSE
      /\ \/ store' = store /\ unproven' = unproven
         \/ store' = EmptyStore /\ unproven' = {}
      /\ asked' = ReplayBoundary(store')
      /\ UNCHANGED <<screen, saved, inAltScreen, drained, capacity, history, oldest,
                  scrollbackClearedPending, frame, batch, wire, outputs>>
  BY DEF Connect, screenVars, logVars
<1>2. /\ wire = <<>> /\ batch = <<>> /\ frame = NoFrame
      /\ wire' = <<>> /\ batch' = <<>> /\ frame' = NoFrame
      /\ Committed' = Committed /\ ~Resumed'
  BY <1>1 DEF Inv, DataInv, ConnData, Committed, Resumed
<1>3. Pending = <<>> /\ Pending' = <<>>
  <2>1. <<>> \o (<<>> \o <<>>) = <<>>
    BY ConcatEmptySeq
  <2>2. Due = <<>> /\ Due' = <<>>
    BY <1>2 DEF Due
  <2> QED
    BY <1>2, <2>1, <2>2 DEF Pending
<1>4. StoreData'
  <2>1. CASE store' = store
    BY <1>2, <2>1 DEF StoreData, Inv, DataInv
  <2>2. CASE store' = EmptyStore
    <3>1. IsStore(EmptyStore) /\ Held(EmptyStore) = {} /\ EmptyStore.altRows = <<>>
      BY Sizes, EmptyIsStore DEF EmptyStore
    <3> QED
      BY <2>2, <3>1 DEF StoreData
  <2> QED
    BY <1>1, <2>1, <2>2
<1>5. asked' \in -1..(MaxOutput + Height)
  <2>1. /\ ReplayBoundary(store') \in Int /\ ReplayBoundary(store') <= Highest(store')
        /\ ReplayBoundary(store') \in {Highest(store'), store'.unconfirmedFrom - 1}
        /\ Highest(store') \in Held(store') \cup {-1} /\ store'.unconfirmedFrom \in Nat
    BY <1>4, Boundary, Extremes DEF StoreData, IsStore
  <2>2. Held(store') \subseteq 0..(Committed' + Height - 1) /\ Committed \in Nat
        /\ Committed <= MaxOutput
    <3>1. Len(history) \in Nat /\ Len(drained) \in Nat
      BY LenProperties DEF Inv, DataInv, LogData, ScreenData
    <3> QED
      BY <1>4, <3>1, Sizes DEF StoreData, Inv, DataInv, LogData, Committed
  <2>3. Highest(store') \in -1..(MaxOutput + Height)
    BY <1>2, <2>1, <2>2, Sizes
  <2>4. ReplayBoundary(store') >= -1
    BY <2>1, <2>3
  <2> QED
    BY <1>1, <2>1, <2>3, <2>4, Sizes
<1>6. ConnData' /\ FrameInv'
  BY <1>1, <1>2, <1>5 DEF ConnData, FrameInv, Inv, DataInv
<1>7. ScreenData' /\ LogData' /\ BuilderInv'
  <2>1. BuilderInv'
    BY BuilderReset DEF Connect, Inv, DataInv
  <2> QED
    BY <1>1, <1>2, <2>1 DEF ScreenData, LogData, Inv, DataInv
<1>8. ClaimInv'
  <2>1. CASE store' = store /\ unproven' = unproven
    <3>1. history' \in Seq(Rows) /\ Extends(history', history)
      BY <1>1, LenProperties DEF Extends, Inv, DataInv, LogData
    <3> QED
      BY <1>3, <2>1, <3>1, ClaimsStand DEF Inv
  <2>2. CASE store' = EmptyStore
    <3>1. Held(EmptyStore) = {} /\ EmptyStore.erasedThrough = -1 /\ Committed \in Nat
      BY Sizes, EmptyIsStore, LenProperties DEF EmptyStore, Committed, Inv, DataInv, LogData
    <3>2. Carried(Pending', history') /\ Ordered(Pending', store'.erasedThrough, Committed')
      BY <1>3, NothingUnderWay
    <3>3. store'.erasedThrough < Committed'
      BY <1>2, <2>2, <3>1
    <3> QED
      BY <2>2, <3>1, <3>2, <3>3 DEF ClaimInv
  <2> QED
    BY <1>1, <2>1, <2>2
<1> QED
  BY <1>2, <1>4, <1>6, <1>7, <1>8 DEF Inv, DataInv, ShownInv

\* A cut takes what was under way with it; the store stays.
LEMMA CutKeeps ==
    ASSUME Inv, Cut
    PROVE  Inv'
<1>1. /\ conn' = "closed" /\ asked' = -1 /\ batch' = <<>> /\ wire' = <<>> /\ acked' = FALSE
      /\ frame' = NoFrame
      /\ UNCHANGED <<screen, saved, inAltScreen, drained, capacity, history, oldest,
                  scrollbackClearedPending, builder, store, unproven, outputs>>
  BY DEF Cut, screenVars, logVars
<1>2. Committed' = Committed /\ ~Resumed'
  BY <1>1 DEF Committed, Resumed
<1>3. Pending' = <<>>
  <2>1. <<>> \o (<<>> \o <<>>) = <<>>
    BY ConcatEmptySeq
  <2>2. Due' = <<>>
    BY <1>1 DEF Due
  <2> QED
    BY <1>1, <2>1, <2>2 DEF Pending
<1>4. ConnData' /\ FrameInv'
  BY <1>1, Sizes DEF ConnData, FrameInv
<1>5. ScreenData' /\ LogData' /\ BuilderInv' /\ StoreData'
  BY <1>1, <1>2 DEF ScreenData, LogData, BuilderInv, StoreData, Inv, DataInv
<1>6. ClaimInv'
  <2>1. Carried(Pending', history') /\ Ordered(Pending', store'.erasedThrough, Committed')
    BY <1>3, NothingUnderWay
  <2>2. \A i : Right(i)' <=> Right(i)
    BY <1>1, <1>2 DEF Right
  <2> QED
    BY <1>1, <1>2, <2>1, <2>2 DEF ClaimInv, Inv
<1> QED
  BY <1>2, <1>4, <1>5, <1>6 DEF Inv, DataInv, ShownInv

-----------------------------------------------------------------------------
(* The resume.                                                               *)

\* What ResumeAck makes is a frame.
LEMMA AckIsMessage ==
    ASSUME NEW committed \in Nat, NEW first \in Nat
    PROVE  /\ ResumeAck(committed, first) \in Message
           /\ ResumeAck(committed, first).type = "resumeAck"
           /\ ResumeAck(committed, first).committed = committed
           /\ ResumeAck(committed, first).oldest = first
<1> DEFINE deep == capacity > MaxReplayLines
<1>1. deep \in BOOLEAN
  OBVIOUS
<1>2. ResumeAck(committed, first) = [type |-> "resumeAck", committed |-> committed,
                                     oldest |-> first, historyPaging |-> deep]
  BY DEF ResumeAck
<1> HIDE DEF deep
<1>3. /\ ResumeAck(committed, first) \in AckFrame
      /\ ResumeAck(committed, first).type = "resumeAck"
      /\ ResumeAck(committed, first).committed = committed
      /\ ResumeAck(committed, first).oldest = first
  BY <1>1, <1>2 DEF AckFrame
<1> QED
  BY <1>3 DEF Message

\* Frames that carry history and are in order, in either order with lines.
LEMMA WindowAndLines ==
    ASSUME NEW m \in Message, m.type = "screen", NEW first \in Nat, NEW lines \in Seq(Rows),
           NEW h \in Seq(Rows), NEW low \in Int, NEW high \in Int,
           low < m.base, m.base <= high,
           \A j \in 1..Len(lines) : first + j <= Len(h) /\ lines[j] = h[first + j]
    PROVE  LET C == Chunks(first, lines)
           IN  /\ C \in Seq(Message) /\ <<m>> \o C \in Seq(Message) /\ C \o <<m>> \in Seq(Message)
               /\ Carried(<<m>> \o C, h) /\ Ordered(<<m>> \o C, low, high)
               /\ Carried(C \o <<m>>, h) /\ Ordered(C \o <<m>>, low, high)
               /\ Carried(C, h) /\ Ordered(C, low, high)
<1> DEFINE C == Chunks(first, lines)
<1>1. /\ C \in Seq(Message) /\ Carried(C, h) /\ \A l, u : Ordered(C, l, u)
  BY LinesChunked, ChunksCarry, ChunksOrdered
<1>2. /\ <<m>> \in Seq(Message) /\ Carried(<<m>>, h) /\ Ordered(<<m>>, low, high)
      /\ Ordered(<<m>>, low, m.base) /\ m.base \in Nat /\ Ordered(<<m>>, m.base - 1, high)
  <2>1. m.base \in Nat
    BY MessageKinds DEF IsScreen
  <2>2. m.base <= m.base /\ m.base - 1 < m.base /\ m.type # "scroll"
    BY <2>1
  <2> QED
    BY <2>1, <2>2, OneFrame
<1> HIDE DEF C
<1>3. low <= m.base
  BY <1>2
<1>4. Carried(<<m>> \o C, h) /\ Carried(C \o <<m>>, h)
  BY <1>1, <1>2, CarriedJoined
<1>5. /\ Ordered(C, m.base - 1, high) /\ Ordered(C, low, high) /\ Ordered(C, low, m.base)
      /\ m.base \in Int
  BY <1>1, <1>2
<1>6. Ordered(<<m>> \o C, low, high) /\ Ordered(C \o <<m>>, low, high)
  <2>1. Ordered(<<m>> \o C, low, high)
    BY <1>1, <1>2, <1>3, <1>5, OrderedJoined
  <2>2. Ordered(C \o <<m>>, low, high)
    BY <1>1, <1>2, <1>3, <1>5, OrderedJoined
  <2> QED
    BY <2>1, <2>2
<1>7. <<m>> \o C \in Seq(Message) /\ C \o <<m>> \in Seq(Message)
  BY <1>1, <1>2, ConcatProperties
<1> QED
  BY <1>1, <1>4, <1>6, <1>7 DEF C

\* Where the replay starts.
LEMMA ReplayFrom ==
    ASSUME DataInv, NEW committed \in Nat, NEW least \in Nat, asked \in Int
    PROVE  /\ Max({ReplayStart(committed), least}) \in Nat
           /\ Max({ReplayStart(committed), least}) >= least
           /\ Max({ReplayStart(committed), least}) >= asked + 1
           /\ Max({ReplayStart(committed), least}) \in
                {least, asked + 1, committed - MaxReplayLines, 0}
<1> DEFINE S == {asked + 1, committed - MaxReplayLines, 0}
           b == Max({ReplayStart(committed), least})
<1>1. MaxReplayLines \in Nat
  BY Sizes
<1>2. Max(S) \in S /\ \A k \in S : Max(S) >= k
  <2> DEFINE u == (IF asked + 1 >= committed - MaxReplayLines THEN asked + 1
                   ELSE committed - MaxReplayLines)
             v == IF u >= 0 THEN u ELSE 0
  <2>1. S \in SUBSET Int /\ S # {} /\ v \in Int /\ \A k \in S : k <= v
    BY <1>1
  <2> HIDE DEF S, v
  <2> QED
    BY <2>1, MaxIsGreatest
<1>3. ReplayStart(committed) = Max(S)
  BY DEF ReplayStart
<1>4. ReplayStart(committed) \in Nat /\ ReplayStart(committed) >= asked + 1
      /\ ReplayStart(committed) \in S
  BY <1>1, <1>2, <1>3
<1>5. b = IF ReplayStart(committed) >= least THEN ReplayStart(committed) ELSE least
  BY <1>4, LowerAndHigher DEF HigherOf
<1> QED
  BY <1>4, <1>5

\* The parts of the batch a resume makes: the resumeAck, and the window and the
\* lines, which begin where the replay does.
BatchFirst == Max({ReplayStart(Committed'), oldest'})
BatchLines == SubSeq(history', BatchFirst + 1, Committed')
BatchAck == ResumeAck(Committed', oldest')
BatchWindow == Screen(Committed', screen, inAltScreen, FALSE)
BatchRest ==
    IF inAltScreen THEN Chunks(BatchFirst, BatchLines) \o <<BatchWindow>>
    ELSE <<BatchWindow>> \o Chunks(BatchFirst, BatchLines)

LEMMA BatchParts ==
    ASSUME Inv, HandleResume
    PROVE  /\ history' \in Seq(Rows) /\ Committed' \in Nat /\ Committed' = Len(history')
           /\ batch' = <<BatchAck>> \o BatchRest
           /\ BatchFirst \in Nat /\ BatchFirst >= oldest' /\ BatchFirst >= asked + 1
           /\ BatchFirst \in {oldest', asked + 1, Committed' - MaxReplayLines, 0}
           /\ BatchWindow \in Message /\ BatchWindow.type = "screen"
           /\ BatchWindow.base = Committed' /\ BatchWindow.altActive = inAltScreen
           /\ BatchAck \in Message /\ BatchAck.type = "resumeAck"
           /\ BatchLines \in Seq(Rows)
           /\ Len(BatchLines) = IF BatchFirst < Committed' THEN Committed' - BatchFirst ELSE 0
           /\ \A j \in 1..Len(BatchLines) :
                 BatchFirst + j <= Len(history') /\ BatchLines[j] = history'[BatchFirst + j]
<1>1. /\ conn = "open" /\ Drain
      /\ LET committed == Len(history')
             first == Max({ReplayStart(committed), oldest'})
         IN  batch' = ResumeBatch(committed, first, SubSeq(history', first + 1, committed))
  BY DEF HandleResume
<1>2. /\ history' \in Seq(Rows) /\ Committed' \in Nat /\ Committed' = Len(history')
      /\ oldest' \in Nat
  <2>1. Committed' = Len(history')
    BY DEF Committed
  <2> QED
    BY <1>1, <2>1, Drained DEF Inv, DataInv
<1> DEFINE committed == Committed'
           first == BatchFirst
<1>3. batch' = <<BatchAck>> \o BatchRest
  BY <1>1, <1>2 DEF ResumeBatch, BatchAck, BatchRest, BatchWindow, BatchLines, BatchFirst
<1>4. /\ first \in Nat /\ first >= oldest' /\ first >= asked + 1
      /\ first \in {oldest', asked + 1, committed - MaxReplayLines, 0}
  <2>1. asked \in Int
    BY Sizes DEF Inv, DataInv, ConnData
  <2> QED
    BY <1>2, <2>1, ReplayFrom DEF BatchFirst, Inv
<1>5. /\ BatchWindow \in Message /\ BatchWindow.type = "screen"
      /\ BatchWindow.base = committed /\ BatchWindow.altActive = inAltScreen
  <2>1. /\ DOMAIN screen \subseteq 1..Height /\ screen \in [DOMAIN screen -> Rows]
        /\ inAltScreen \in BOOLEAN
    BY DEF Inv, DataInv, ScreenData
  <2> DEFINE no == FALSE
  <2>2. no \in BOOLEAN
    OBVIOUS
  <2>3. BatchWindow = Screen(committed, screen, inAltScreen, no)
    BY DEF BatchWindow
  <2> HIDE DEF Rows, no
  <2> QED
    BY <1>2, <2>1, <2>2, <2>3, ScreenIsMessage
<1>6. BatchAck \in Message /\ BatchAck.type = "resumeAck"
  BY <1>2, AckIsMessage DEF BatchAck
<1> HIDE DEF first
<1>7. /\ BatchLines \in Seq(Rows)
      /\ Len(BatchLines) = IF first < committed THEN committed - first ELSE 0
      /\ \A j \in 1..Len(BatchLines) :
            first + j <= Len(history') /\ BatchLines[j] = history'[first + j]
  <2>1. \A i \in (first + 1)..committed : history'[i] \in Rows
    <3>1. \A i \in (first + 1)..committed : i \in 1..Len(history')
      BY <1>2, <1>4
    <3> QED
      BY <1>2, <3>1, LenProperties
  <2> DEFINE replay == SubSeq(history', first + 1, committed)
  <2>2. /\ replay \in Seq(Rows)
        /\ Len(replay) = IF first + 1 <= committed THEN committed - (first + 1) + 1 ELSE 0
        /\ \A j \in 1..(committed - (first + 1) + 1) : replay[j] = history'[first + 1 + j - 1]
    <3>1. first + 1 \in Int /\ committed \in Int
      BY <1>2, <1>4
    <3> QED
      BY <2>1, <3>1, SubSeqProperties
  <2>3. BatchLines = replay
    BY DEF BatchLines, first
  <2> HIDE DEF replay
  <2>4. ASSUME NEW j \in 1..Len(replay)
        PROVE  first + j <= Len(history') /\ replay[j] = history'[first + j]
    <3>1. j \in 1..(committed - (first + 1) + 1) /\ first + 1 + j - 1 = first + j
          /\ first + j <= committed
      BY <1>2, <1>4, <2>2
    <3> QED
      BY <1>2, <2>2, <3>1
  <2>5. Len(replay) = IF first < committed THEN committed - first ELSE 0
    BY <1>2, <1>4, <2>2
  <2> QED
    BY <2>2, <2>3, <2>4, <2>5
<1> QED
  BY <1>2, <1>3, <1>4, <1>5, <1>6, <1>7 DEF first

\* The batch a resume holds, and what is then under way.
LEMMA BatchMade ==
    ASSUME Inv, HandleResume
    PROVE  /\ batch' \in Seq(Message) /\ batch' # <<>> /\ Len(batch') \in Nat
           /\ batch'[1].type = "resumeAck" /\ 1 \in 1..Len(batch')
           /\ Carried(batch', history')
           /\ \A low \in Int : low < Committed' => Ordered(batch', low, Committed')
<1> DEFINE committed == Committed'
           ack == BatchAck
           m == BatchWindow
           C == Chunks(BatchFirst, BatchLines)
           W == BatchRest
<1>1. /\ history' \in Seq(Rows) /\ committed \in Nat /\ batch' = <<ack>> \o W
      /\ BatchFirst \in Nat /\ m \in Message /\ m.type = "screen" /\ m.base = committed
      /\ ack \in Message /\ ack.type = "resumeAck" /\ BatchLines \in Seq(Rows)
      /\ \A j \in 1..Len(BatchLines) :
            BatchFirst + j <= Len(history') /\ BatchLines[j] = history'[BatchFirst + j]
  BY BatchParts
<1>2. committed \in Nat /\ committed = Len(history')
  BY BatchParts
<1>3. W = IF inAltScreen THEN C \o <<m>> ELSE <<m>> \o C
  BY DEF BatchRest
<1>8. /\ W \in Seq(Message) /\ Carried(W, history')
      /\ \A low \in Int : low < committed => Ordered(W, low, committed)
  <2>1. ASSUME NEW low \in Int, low < committed
        PROVE  /\ W \in Seq(Message) /\ Carried(W, history') /\ Ordered(W, low, committed)
    <3> HIDE DEF C, m, W
    <3>1. /\ C \o <<m>> \in Seq(Message) /\ <<m>> \o C \in Seq(Message)
          /\ Carried(<<m>> \o C, history') /\ Ordered(<<m>> \o C, low, committed)
          /\ Carried(C \o <<m>>, history') /\ Ordered(C \o <<m>>, low, committed)
      <4>1. low < m.base /\ m.base <= committed /\ committed \in Int
        BY <1>1, <2>1
      <4> QED
        BY <1>1, <4>1, WindowAndLines DEF C
    <3> QED
      BY <1>3, <3>1
  <2>2. committed - 1 \in Int /\ committed - 1 < committed
    BY <1>2
  <2> QED
    BY <2>1, <2>2
<1> HIDE DEF W
<1>9. /\ <<ack>> \in Seq(Message) /\ Len(<<ack>>) = 1 /\ <<ack>>[1] = ack
      /\ Carried(<<ack>>, history') /\ \A low, high : Ordered(<<ack>>, low, high)
  <2>1. ack.type # "scroll" /\ ack.type # "screen"
    BY <1>1
  <2> QED
    BY <1>1, <2>1, OneFrame
<1>10. /\ batch' \in Seq(Message) /\ Len(batch') = 1 + Len(W) /\ Len(W) \in Nat
       /\ batch'[1] = ack /\ 1 \in 1..Len(batch')
  <2>1. /\ batch' \in Seq(Message) /\ Len(batch') = 1 + Len(W) /\ Len(W) \in Nat
        /\ \A i \in 1..(1 + Len(W)) : batch'[i] = IF i <= 1 THEN <<ack>>[i] ELSE W[i - 1]
    BY <1>1, <1>8, <1>9, ConcatProperties, LenProperties
  <2> QED
    BY <1>9, <2>1
<1>11. Carried(batch', history')
  BY <1>1, <1>8, <1>9, CarriedJoined
<1>12. ASSUME NEW low \in Int, low < committed
       PROVE  Ordered(batch', low, committed)
  <2>1. Ordered(W, low, committed) /\ Ordered(W, committed - 1, committed)
    <3>1. committed - 1 \in Int /\ committed - 1 < committed
      BY <1>2
    <3> QED
      BY <1>8, <1>12, <3>1
  <2> QED
    <3>1. low <= committed /\ committed <= committed /\ committed \in Int
      BY <1>1, <1>12
    <3> QED
      BY <1>1, <1>8, <1>9, <2>1, <3>1, OrderedJoined
<1>13. batch' # <<>>
  BY <1>10
<1> QED
  BY <1>1, <1>10, <1>11, <1>12, <1>13

\* What is left of a frame built before the resume: its lines.
LEMMA DueAfterResume ==
    ASSUME Inv, HandleResume
    PROVE  /\ Due' \in Seq(Message) /\ Carried(Due', history')
           /\ \A low, high : Ordered(Due', low, high)
           /\ \A k \in 1..Len(Due') : Due'[k].type = "scroll"
<1>1. conn = "open" /\ conn' = "batch" /\ frame' = frame /\ Drain
  BY DEF HandleResume
<1>2. ~Resumed
  BY <1>1 DEF Resumed
<1>3. /\ history' \in Seq(Rows) /\ Extends(history', history) /\ history \in Seq(Rows)
  BY <1>1, Drained DEF Inv, DataInv, LogData
<1>4. CASE frame = NoFrame
  <2>1. Due' = <<>>
    BY <1>1, <1>4 DEF Due
  <2>2. 1..Len(Due') = {}
    BY <2>1
  <2> QED
    BY <2>1, <2>2, NothingUnderWay
<1>5. CASE frame # NoFrame
  <2> DEFINE C == Chunks(frame.scrollFirst, frame.scroll)
             d == IF frame.resumed # (conn \in {"batch", "live"}) \/ DOMAIN frame.screen.rows = {}
                  THEN <<>> ELSE <<frame.screen>>
  <2>1. /\ frame.resumed = FALSE /\ frame.scrollFirst \in Nat /\ frame.scroll \in Seq(Rows)
        /\ frame.screen \in Message
    BY <1>2, <1>5 DEF Inv, DataInv, FrameInv
  <2>2. Due = d \o C
    BY <1>5 DEF Due
  <2>3. /\ C \in Seq(Message) /\ \A low, high : Ordered(C, low, high)
        /\ \A k \in 1..Len(C) : C[k].type = "scroll"
    BY <2>1, LinesChunked, ChunksOrdered
  <2>4. Due' = C
    <3>1. Due' = <<>> \o Chunks(frame.scrollFirst, frame.scroll)'
      BY <1>1, <1>5, <2>1 DEF Due
    <3>2. Chunks(frame.scrollFirst, frame.scroll)' = C
      BY <1>1 DEF Chunks
    <3> QED
      BY <2>3, <3>1, <3>2, ConcatEmptySeq
  <2>5. d \in Seq(Message)
    BY <2>1, OneFrame
  <2>6. Carried(Due, history)
    <3>1. Carried(Pending, history)
      BY DEF Inv, ClaimInv
    <3> QED
      BY <3>1, PendingIsFrames, CarriedJoined DEF Inv, DataInv
  <2> HIDE DEF d, C
  <2>7. Carried(C, history)
    BY <2>2, <2>3, <2>5, <2>6, CarriedJoined
  <2> QED
    BY <1>3, <2>3, <2>4, <2>7, CarriedGrows
<1> QED
  BY <1>4, <1>5

\* A resume keeps the invariant: its batch follows what was under way.
LEMMA HandleResumeKeeps ==
    ASSUME Inv, HandleResume
    PROVE  Inv'
<1>1. /\ conn = "open" /\ conn' = "batch" /\ Drain /\ Reset
      /\ UNCHANGED <<scrollbackClearedPending, frame, asked, wire, store, acked, unproven, outputs>>
  BY DEF HandleResume, pageVars
<1>2. /\ history' \in Seq(Rows) /\ Extends(history', history) /\ history \in Seq(Rows)
      /\ Committed \in Nat /\ Committed' \in Nat /\ Committed <= Committed'
      /\ oldest' \in 0..Committed' /\ Committed' - oldest' <= capacity /\ capacity' = capacity
      /\ drained' = <<>> /\ Committed' <= outputs /\ Committed' = Len(history')
      /\ Committed = Len(history)
  <2>1. Committed' = Len(history') /\ Committed = Len(history) /\ history \in Seq(Rows)
    BY DEF Committed, Inv, DataInv, LogData
  <2> QED
    BY <1>1, <2>1, Drained DEF Inv, DataInv
<1>3. ~Resumed /\ Resumed' /\ batch = <<>>
  BY <1>1 DEF Resumed, Inv, DataInv, ConnData
<1>4. /\ batch' \in Seq(Message) /\ batch' # <<>> /\ Len(batch') \in Nat
      /\ batch'[1].type = "resumeAck" /\ 1 \in 1..Len(batch')
      /\ Carried(batch', history')
      /\ \A low \in Int : low < Committed' => Ordered(batch', low, Committed')
  BY BatchMade
<1>5. ScreenData' /\ LogData'
  <2>1. ScreenData'
    BY <1>1, <1>2 DEF Drain, ScreenData, Inv, DataInv
  <2>2. Committed' + Len(drained') <= outputs
    BY <1>2
  <2> QED
    BY <1>1, <1>2, <2>1, <2>2 DEF LogData, Inv, DataInv
<1>6. ConnData' /\ FrameInv'
  BY <1>1, <1>3, <1>4 DEF ConnData, FrameInv, Inv, DataInv
<1>7. BuilderInv' /\ builder'.rows = <<>>
  BY <1>1, BuilderReset DEF Inv, DataInv
<1>8. StoreData'
  <2>1. Held(store) \subseteq 0..(Committed' + Height - 1)
    BY <1>2, Sizes DEF Inv, DataInv, StoreData
  <2> QED
    BY <1>1, <2>1 DEF StoreData, Inv, DataInv
<1>9. /\ Due' \in Seq(Message) /\ Carried(Due', history')
      /\ \A low, high : Ordered(Due', low, high)
  BY DueAfterResume
<1>10. /\ wire \in Seq(Message) /\ Carried(wire, history')
       /\ Ordered(wire, store.erasedThrough, Committed)
  <2>1. /\ wire \in Seq(Message) /\ batch \o Due \in Seq(Message) /\ Pending = wire \o (batch \o Due)
    BY PendingIsFrames DEF Pending, Inv, DataInv, ConnData
  <2>2. Carried(wire, history) /\ Ordered(wire, store.erasedThrough, Committed)
    BY <2>1, CarriedJoined, OrderedParts DEF Inv, ClaimInv
  <2> QED
    BY <1>2, <2>1, <2>2, CarriedGrows
<1>11. batch' \o Due' \in Seq(Message) /\ Pending' = wire \o (batch' \o Due')
  BY <1>1, <1>4, <1>9, ConcatProperties DEF Pending
<1>12. /\ store.erasedThrough \in Int /\ store.erasedThrough < Committed
       /\ \A i \in Held(store) : i \in Nat
  BY DEF Inv, ClaimInv, DataInv, StoreData, IsStore
<1>13. Carried(Pending', history')
  BY <1>4, <1>9, <1>10, <1>11, CarriedJoined
<1>14. Ordered(Pending', store.erasedThrough, Committed')
  <2>1. ASSUME NEW low \in Int, low < Committed' PROVE Ordered(batch' \o Due', low, Committed')
    <3>1. Committed' \in Int /\ low <= Committed' /\ Committed' <= Committed'
      BY <1>2, <2>1
    <3>2. Ordered(batch', low, Committed')
      BY <1>4, <2>1
    <3> QED
      BY <1>4, <1>9, <3>1, <3>2, OrderedJoined
  <2>2. Ordered(batch' \o Due', store.erasedThrough, Committed')
        /\ Ordered(batch' \o Due', Committed - 1, Committed')
    <3>1. store.erasedThrough < Committed' /\ Committed - 1 \in Int /\ Committed - 1 < Committed'
      BY <1>2, <1>12
    <3> QED
      BY <1>12, <2>1, <3>1
  <2>3. store.erasedThrough <= Committed /\ Committed \in Int /\ Committed' \in Int
    BY <1>2, <1>12
  <2> QED
    BY <1>2, <1>10, <1>11, <1>12, <2>2, <2>3, OrderedJoined
<1>15. ClaimInv'
  <2>1. ASSUME NEW i \in Held(store), Right(i) PROVE Right(i)'
    <3>1. i + 1 \in 1..Len(history) /\ i < Committed' /\ store.lines[i] = history[i + 1]
      BY <1>2, <1>12, <2>1 DEF Right
    <3>2. history'[i + 1] = history[i + 1]
      BY <3>1, <1>2 DEF Extends
    <3> QED
      BY <1>1, <3>1, <3>2 DEF Right
  <2>2. store.erasedThrough < Committed'
    BY <1>2, <1>12
  <2>3. /\ \A i \in Held(store) : i <= store.erasedThrough => Right(i)'
        /\ \A i \in Held(store) \ unproven : i < store.unconfirmedFrom => Right(i)'
    BY <2>1 DEF Inv, ClaimInv
  <2> QED
    BY <1>1, <1>13, <1>14, <2>2, <2>3 DEF ClaimInv
<1>16. ShownInv'
  <2>1. Len(wire) + 1 \in 1..Len(Pending') /\ Pending'[Len(wire) + 1].type = "resumeAck"
    <3>1. /\ 1 \in 1..Len(batch' \o Due') /\ (batch' \o Due')[1] = batch'[1]
      BY <1>4, <1>9, Joined
    <3> QED
      BY <1>4, <1>10, <1>11, <3>1, Joined
  <2> QED
    BY <1>7, <2>1 DEF ShownInv
<1> QED
  BY <1>5, <1>6, <1>7, <1>8, <1>15, <1>16 DEF Inv, DataInv

-----------------------------------------------------------------------------
(* The frame a flush pass builds.                                            *)

\* The screen frame of a pass, and what is added to what is under way: nothing, or
\* that frame, if it has rows, and the lines.
BuiltRows == [y \in ChangedRows(Committed') |-> screen[y]]
BuiltScreen == Screen(Committed', BuiltRows, inAltScreen, scrollbackClearedPending)
Added ==
    IF frame' = NoFrame THEN <<>>
    ELSE (IF ChangedRows(Committed') = {} THEN <<>> ELSE <<BuiltScreen>>)
             \o Chunks(Committed, MainLines)

\* The screen frame a pass builds is a frame.
LEMMA BuiltIsMessage ==
    ASSUME ScreenData, Committed' \in Nat
    PROVE  /\ BuiltScreen \in Message /\ BuiltScreen.type = "screen"
           /\ BuiltScreen.base = Committed' /\ BuiltScreen.rows = BuiltRows
           /\ BuiltScreen.altActive = inAltScreen
           /\ DOMAIN BuiltRows = ChangedRows(Committed')
           /\ ChangedRows(Committed') \subseteq 1..Height
           /\ \A y \in ChangedRows(Committed') : BuiltRows[y] = screen[y]
<1>1. ChangedRows(Committed') \subseteq 1..Height
  BY DEF ChangedRows
<1>2. /\ DOMAIN BuiltRows = ChangedRows(Committed')
      /\ \A y \in ChangedRows(Committed') : BuiltRows[y] = screen[y]
      /\ BuiltRows = [y \in ChangedRows(Committed') |-> BuiltRows[y]]
  BY DEF BuiltRows
<1>3. \A y \in ChangedRows(Committed') : BuiltRows[y] \in Rows
  BY <1>1, <1>2 DEF ScreenData
<1> HIDE DEF Rows
<1>4. BuiltRows \in [DOMAIN BuiltRows -> Rows]
  BY <1>2, <1>3
<1>5. inAltScreen \in BOOLEAN /\ scrollbackClearedPending \in BOOLEAN
  BY DEF ScreenData
<1>6. /\ BuiltScreen \in Message /\ BuiltScreen.type = "screen"
      /\ BuiltScreen.base = Committed' /\ BuiltScreen.rows = BuiltRows
      /\ BuiltScreen.altActive = inAltScreen
  BY <1>1, <1>2, <1>4, <1>5, ScreenIsMessage DEF BuiltScreen
<1> QED
  BY <1>1, <1>2, <1>6

\* What a build adds to what is under way.
LEMMA FrameBuilt ==
    ASSUME Inv, BuildFrame
    PROVE  /\ FrameInv' /\ Added \in Seq(Message) /\ Pending' = Pending \o Added
           /\ builder' = [rows |-> screen, base |-> Committed', prevAlt |-> inAltScreen,
                          prevAltValid |-> TRUE]
           /\ conn = "closed" => frame' = NoFrame
           /\ Resumed /\ ChangedRows(Committed') # {} => frame' # NoFrame
           /\ Resumed /\ MainLines # <<>> => frame' # NoFrame
           /\ scrollbackClearedPending' \in BOOLEAN
<1>1. /\ frame = NoFrame /\ Drain
      /\ UNCHANGED <<conn, asked, batch, wire>>
  BY DEF BuildFrame, connVars
<1>2. /\ MainLines \in Seq(Rows) /\ Committed \in Nat /\ Committed' \in Nat
      /\ Committed' = Committed + Len(MainLines)
  BY <1>1, Drained DEF Inv, DataInv
<1> DEFINE base == Committed'
           changed == ChangedRows(base)
           empty == changed = {} /\ MainLines = <<>>
<1>3. /\ builder' = [rows |-> screen, base |-> base, prevAlt |-> inAltScreen,
                     prevAltValid |-> TRUE]
      /\ scrollbackClearedPending' = (scrollbackClearedPending /\ empty)
      /\ frame' = IF empty \/ conn = "closed" THEN NoFrame
                  ELSE [built |-> TRUE, resumed |-> conn # "open",
                        screen |-> Screen(base, [y \in changed |-> screen[y]], inAltScreen,
                                          scrollbackClearedPending),
                        scrollFirst |-> Committed, scroll |-> MainLines]
  BY <1>2 DEF BuildFrame
<1>4. /\ BuiltScreen \in Message /\ BuiltScreen.type = "screen"
      /\ BuiltScreen.rows = BuiltRows /\ DOMAIN BuiltRows = changed
  BY <1>2, BuiltIsMessage DEF Inv, DataInv
<1>5. BuiltScreen = Screen(base, [y \in changed |-> screen[y]], inAltScreen,
                           scrollbackClearedPending)
  BY DEF BuiltScreen, BuiltRows
<1> HIDE DEF base, changed
<1> DEFINE before == conn # "open"
<1>6. ASSUME ~(empty \/ conn = "closed") PROVE FrameInv' /\ Due' = Added
  <2>1. frame' = [built |-> TRUE, resumed |-> before, screen |-> BuiltScreen,
                  scrollFirst |-> Committed, scroll |-> MainLines]
    BY <1>3, <1>5, <1>6
  <2>2. before \in BOOLEAN /\ (before <=> Resumed)
    BY <1>6 DEF Resumed, Inv, DataInv, ConnData
  <2> HIDE DEF before
  <2>3. /\ frame'.built = TRUE /\ frame'.resumed = before /\ frame'.screen = BuiltScreen
        /\ frame'.scrollFirst = Committed /\ frame'.scroll = MainLines
    BY <2>1
  <2>4. frame' # NoFrame
    BY <2>3 DEF NoFrame
  <2>5. FrameInv'
    BY <1>1, <1>2, <1>4, <2>2, <2>3 DEF FrameInv, Resumed
  <2>6. (conn' \in {"batch", "live"}) <=> Resumed
    BY <1>1 DEF Resumed
  <2>7. Due' = (IF frame'.resumed # (conn' \in {"batch", "live"}) \/ DOMAIN frame'.screen.rows = {}
                THEN <<>> ELSE <<frame'.screen>>) \o Chunks(Committed, MainLines)
    BY <2>3, <2>4 DEF Due, Chunks
  <2>8. (frame'.resumed # (conn' \in {"batch", "live"})) <=> FALSE
    BY <2>2, <2>3, <2>6
  <2>9. Due' = Added
    BY <1>4, <2>3, <2>4, <2>7, <2>8 DEF Added, changed, base
  <2> QED
    BY <2>4, <2>5, <2>9
<1>7. ASSUME empty \/ conn = "closed" PROVE FrameInv' /\ Due' = Added
  <2>1. frame' = NoFrame
    BY <1>3, <1>7
  <2>2. FrameInv' /\ Due' = <<>> /\ Added = <<>>
    BY <2>1 DEF FrameInv, Due, Added
  <2> QED
    BY <2>1, <2>2
<1>8. FrameInv' /\ Due' = Added
  BY <1>6, <1>7
<1>9. Added \in Seq(Message)
  <2>1. Chunks(Committed, MainLines) \in Seq(Message) /\ <<BuiltScreen>> \in Seq(Message)
    BY <1>2, <1>4, LinesChunked, OneFrame
  <2>2. /\ <<BuiltScreen>> \o Chunks(Committed, MainLines) \in Seq(Message)
        /\ <<>> \o Chunks(Committed, MainLines) \in Seq(Message)
    BY <2>1, ConcatProperties, ConcatEmptySeq
  <2> QED
    BY <2>2 DEF Added
<1>10. Pending' = Pending \o Added
  <2>1. wire \in Seq(Message) /\ batch \in Seq(Message)
    BY DEF Inv, DataInv, ConnData
  <2>2. Due = <<>>
    BY <1>1 DEF Due
  <2>3. batch \o <<>> = batch
    BY <2>1, ConcatEmptySeq
  <2>4. Pending = wire \o batch
    BY <2>2, <2>3 DEF Pending
  <2>5. Pending' = wire \o (batch \o Added)
    BY <1>1, <1>8 DEF Pending
  <2> QED
    <3>1. wire \o (batch \o Added) = (wire \o batch) \o Added
      BY <1>9, <2>1, ConcatAssociative
    <3> QED
      BY <2>4, <2>5, <3>1
<1>11. scrollbackClearedPending' \in BOOLEAN
  BY <1>3 DEF Inv, DataInv, ScreenData
<1>12. conn = "closed" => frame' = NoFrame
  BY <1>3
<1>13. Resumed /\ (changed # {} \/ MainLines # <<>>) => frame' # NoFrame
  <2> SUFFICES ASSUME Resumed, changed # {} \/ MainLines # <<>> PROVE frame' # NoFrame
    OBVIOUS
  <2>1. ~(empty \/ conn = "closed")
    BY DEF Resumed
  <2>2. frame'.built = TRUE
    BY <1>3, <2>1
  <2> QED
    BY <2>2 DEF NoFrame
<1> QED
  BY <1>3, <1>8, <1>9, <1>10, <1>11, <1>12, <1>13 DEF base, changed

\* What is added carries history and is in order.
LEMMA AddedFits ==
    ASSUME Inv, BuildFrame
    PROVE  /\ Carried(Added, history')
           /\ \A low \in Int : low < Committed' => Ordered(Added, low, Committed')
<1>1. /\ MainLines \in Seq(Rows) /\ Committed \in Nat /\ Committed' \in Nat
      /\ history' \in Seq(Rows) /\ Committed' = Len(history')
      /\ \A j \in 1..Len(MainLines) :
            Committed + j <= Committed' /\ MainLines[j] = history'[Committed + j]
  <2>1. Committed' = Len(history')
    BY DEF Committed
  <2> QED
    BY <2>1, Drained DEF Inv, DataInv, BuildFrame
<1>2. BuiltScreen \in Message /\ BuiltScreen.type = "screen" /\ BuiltScreen.base = Committed'
  BY <1>1, BuiltIsMessage DEF Inv, DataInv
<1> DEFINE C == Chunks(Committed, MainLines)
<1>3. C \in Seq(Message) /\ Carried(C, history') /\ \A low, high : Ordered(C, low, high)
  <2>1. C \in Seq(Message)
    BY <1>1, LinesChunked
  <2>2. Carried(C, history')
    BY <1>1, ChunksCarry
  <2>3. \A low, high : Ordered(C, low, high)
    BY <1>1, ChunksOrdered
  <2> QED
    BY <2>1, <2>2, <2>3
<1>4. Added \in {<<>>, <<>> \o C, <<BuiltScreen>> \o C}
  BY DEF Added
<1>5. <<>> \o C = C
  BY <1>3, ConcatEmptySeq
<1>6. ASSUME NEW low \in Int, low < Committed'
      PROVE  /\ Carried(<<BuiltScreen>> \o C, history')
             /\ Ordered(<<BuiltScreen>> \o C, low, Committed')
  <2>1. low < BuiltScreen.base /\ BuiltScreen.base <= Committed' /\ Committed' \in Int
    BY <1>1, <1>2, <1>6
  <2> HIDE DEF BuiltScreen
  <2> QED
    BY <1>1, <1>2, <2>1, <1>6, WindowAndLines
<1> HIDE DEF C
<1>7. ASSUME NEW low \in Int, low < Committed'
      PROVE  Carried(Added, history') /\ Ordered(Added, low, Committed')
  BY <1>3, <1>4, <1>5, <1>6, <1>7, NothingUnderWay
<1>8. Committed' - 1 \in Int /\ Committed' - 1 < Committed'
  BY <1>1
<1> QED
  BY <1>7, <1>8

\* A build keeps the types.
LEMMA BuildKeepsData ==
    ASSUME Inv, BuildFrame
    PROVE  DataInv'
<1>1. /\ frame = NoFrame /\ Drain
      /\ UNCHANGED <<conn, asked, batch, wire, store, acked, unproven, outputs>>
  BY DEF BuildFrame, connVars, pageVars, giveUpVars
<1>2. /\ FrameInv' /\ scrollbackClearedPending' \in BOOLEAN
      /\ builder' = [rows |-> screen, base |-> Committed', prevAlt |-> inAltScreen,
                     prevAltValid |-> TRUE]
      /\ conn = "closed" => frame' = NoFrame
  BY FrameBuilt
<1>3. /\ history' \in Seq(Rows)
      /\ Committed \in Nat /\ Committed' \in Nat /\ Committed <= Committed'
      /\ oldest' \in 0..Committed' /\ Committed' - oldest' <= capacity /\ capacity' = capacity
      /\ drained' = <<>> /\ Committed' <= outputs
  BY <1>1, Drained DEF Inv, DataInv
<1>4. ScreenData' /\ LogData'
  <2>1. ScreenData'
    BY <1>1, <1>2, <1>3 DEF Drain, ScreenData, Inv, DataInv
  <2>2. Committed' + Len(drained') <= outputs
    BY <1>3
  <2> QED
    BY <1>1, <1>3, <2>1, <2>2 DEF LogData, Inv, DataInv
<1>5. ConnData'
  BY <1>1, <1>2 DEF ConnData, Inv, DataInv
<1>6. BuilderInv'
  <2>1. /\ builder'.rows = screen /\ builder'.prevAlt = inAltScreen /\ builder'.prevAltValid = TRUE
        /\ builder' = [rows |-> builder'.rows, base |-> builder'.base,
                       prevAlt |-> builder'.prevAlt, prevAltValid |-> builder'.prevAltValid]
    BY <1>2
  <2> QED
    BY <2>1 DEF BuilderInv, Inv, DataInv, ScreenData
<1>7. StoreData'
  <2>1. Held(store) \subseteq 0..(Committed' + Height - 1)
    BY <1>3, Sizes DEF Inv, DataInv, StoreData
  <2> QED
    BY <1>1, <2>1 DEF StoreData, Inv, DataInv
<1> QED
  BY <1>2, <1>4, <1>5, <1>6, <1>7 DEF DataInv

\* And the claims: its lines are committed, its window is the newest.
LEMMA BuildKeepsClaims ==
    ASSUME Inv, BuildFrame
    PROVE  ClaimInv'
<1>1. /\ Drain /\ UNCHANGED <<store, unproven>>
  BY DEF BuildFrame, pageVars, giveUpVars
<1>2. Added \in Seq(Message) /\ Pending' = Pending \o Added /\ Pending \in Seq(Message)
  BY FrameBuilt, PendingIsFrames DEF Inv, DataInv
<1>3. /\ history' \in Seq(Rows) /\ Extends(history', history) /\ history \in Seq(Rows)
      /\ Committed \in Nat /\ Committed' \in Nat /\ Committed <= Committed'
      /\ Committed = Len(history)
  <2>1. Committed = Len(history) /\ history \in Seq(Rows)
    BY DEF Committed, Inv, DataInv, LogData
  <2> QED
    BY <1>1, <2>1, Drained DEF Inv, DataInv
<1>4. /\ Carried(Added, history')
      /\ \A low \in Int : low < Committed' => Ordered(Added, low, Committed')
  BY AddedFits
<1>5. /\ store.erasedThrough \in Int /\ store.erasedThrough < Committed
      /\ \A i \in Held(store) : i \in Nat
  BY DEF Inv, ClaimInv, DataInv, StoreData, IsStore
<1>6. Carried(Pending', history')
  <2>1. Carried(Pending, history')
    BY <1>2, <1>3, CarriedGrows DEF Inv, ClaimInv
  <2> QED
    BY <1>2, <1>4, <2>1, CarriedJoined
<1>7. Ordered(Pending', store.erasedThrough, Committed')
  <2>1. Ordered(Pending, store.erasedThrough, Committed)
    BY DEF Inv, ClaimInv
  <2>2. /\ Committed - 1 \in Int /\ Committed - 1 < Committed' /\ store.erasedThrough < Committed'
        /\ store.erasedThrough <= Committed /\ Committed \in Int /\ Committed' \in Int
    BY <1>3, <1>5
  <2>3. /\ Ordered(Added, store.erasedThrough, Committed')
        /\ Ordered(Added, Committed - 1, Committed')
    BY <1>4, <1>5, <2>2
  <2> QED
    BY <1>2, <1>3, <1>5, <2>1, <2>2, <2>3, OrderedJoined
<1>8. ASSUME NEW i \in Held(store), Right(i) PROVE Right(i)'
  <2>1. i + 1 \in 1..Len(history) /\ i < Committed' /\ store.lines[i] = history[i + 1]
    BY <1>3, <1>5, <1>8 DEF Right
  <2>2. history'[i + 1] = history[i + 1]
    BY <2>1, <1>3 DEF Extends
  <2> QED
    BY <1>1, <2>1, <2>2 DEF Right
<1>9. store.erasedThrough < Committed'
  BY <1>3, <1>5
<1>10. /\ \A i \in Held(store) : i <= store.erasedThrough => Right(i)'
       /\ \A i \in Held(store) \ unproven : i < store.unconfirmedFrom => Right(i)'
  BY <1>8 DEF Inv, ClaimInv
<1> QED
  BY <1>1, <1>6, <1>7, <1>9, <1>10 DEF ClaimInv

\* A row that a pass does not send is the one the builder had at that index.
LEMMA RowCached ==
    ASSUME Inv, BuildFrame, NEW y \in 1..Height, y \notin ChangedRows(Committed')
    PROVE  /\ Committed' + y - builder.base \in 1..Height /\ builder.rows # <<>>
           /\ builder.rows[Committed' + y - builder.base] = screen[y]
           /\ builder.prevAlt = inAltScreen
<1> DEFINE cached == IF builder.prevAltValid /\ ~AltTransitionPending THEN builder.rows ELSE <<>>
           at == Committed' + y - builder.base
<1>1. at \in DOMAIN cached /\ cached[at] = screen[y]
  BY DEF ChangedRows
<1>2. /\ builder.prevAltValid /\ inAltScreen = builder.prevAlt /\ cached = builder.rows
  <2>1. DOMAIN <<>> = {}
    OBVIOUS
  <2>2. builder.prevAltValid /\ ~AltTransitionPending
    BY <1>1, <2>1
  <2> QED
    BY <2>2 DEF AltTransitionPending
<1>3. builder.rows # <<>>
  <2>1. DOMAIN <<>> = {}
    OBVIOUS
  <2> QED
    BY <1>1, <1>2, <2>1
<1>4. DOMAIN builder.rows = 1..Height
  BY <1>3 DEF Inv, DataInv, BuilderInv
<1> QED
  BY <1>1, <1>2, <1>3, <1>4

\* Frames joined to others.
LEMMA UnderWayJoined ==
    ASSUME NEW P \in Seq(Message), NEW Q \in Seq(Message), NEW i, NEW base, NEW alt, NEW row
    PROVE  /\ UnderWay(P, i, base, alt, row) /\ Undisturbed(Q, i, base, alt)
                 => UnderWay(P \o Q, i, base, alt, row)
           /\ UnderWay(Q, i, base, alt, row) => UnderWay(P \o Q, i, base, alt, row)
           /\ Undisturbed(P, i, base, alt) /\ Undisturbed(Q, i, base, alt)
                 => Undisturbed(P \o Q, i, base, alt)
<1> DEFINE R == P \o Q
<1>1. /\ Len(P) \in Nat /\ Len(Q) \in Nat /\ Len(R) = Len(P) + Len(Q)
      /\ \A k \in 1..Len(P) : k \in 1..Len(R) /\ R[k] = P[k]
      /\ \A k \in 1..Len(Q) : Len(P) + k \in 1..Len(R) /\ R[Len(P) + k] = Q[k]
      /\ \A k \in 1..Len(R) :
            \/ k \in 1..Len(P) /\ R[k] = P[k]
            \/ k - Len(P) \in 1..Len(Q) /\ R[k] = Q[k - Len(P)]
  BY Joined
<1> HIDE DEF R
<1>2. ASSUME UnderWay(P, i, base, alt, row), Undisturbed(Q, i, base, alt)
      PROVE  UnderWay(R, i, base, alt, row)
  <2>1. PICK k \in 1..Len(P) :
            /\ DrawsAt(P[k], i, base, alt, row)
            /\ \A j \in (k + 1)..Len(P) : SparesAt(P[j], i, base, alt)
    BY <1>2 DEF UnderWay
  <2>2. k \in 1..Len(R) /\ DrawsAt(R[k], i, base, alt, row)
    BY <1>1, <2>1
  <2>3. ASSUME NEW j \in (k + 1)..Len(R) PROVE SparesAt(R[j], i, base, alt)
    <3>1. j \in 1..Len(R)
      OBVIOUS
    <3>2. CASE j \in 1..Len(P) /\ R[j] = P[j]
      <4>1. j \in (k + 1)..Len(P)
        BY <3>2
      <4> QED
        BY <2>1, <3>2, <4>1
    <3>3. CASE j - Len(P) \in 1..Len(Q) /\ R[j] = Q[j - Len(P)]
      BY <1>2, <3>3 DEF Undisturbed
    <3> QED
      BY <1>1, <3>1, <3>2, <3>3
  <2> QED
    BY <2>2, <2>3 DEF UnderWay
<1>3. ASSUME UnderWay(Q, i, base, alt, row) PROVE UnderWay(R, i, base, alt, row)
  <2>1. PICK k \in 1..Len(Q) :
            /\ DrawsAt(Q[k], i, base, alt, row)
            /\ \A j \in (k + 1)..Len(Q) : SparesAt(Q[j], i, base, alt)
    BY <1>3 DEF UnderWay
  <2>2. Len(P) + k \in 1..Len(R) /\ DrawsAt(R[Len(P) + k], i, base, alt, row)
    BY <1>1, <2>1
  <2>3. ASSUME NEW j \in (Len(P) + k + 1)..Len(R) PROVE SparesAt(R[j], i, base, alt)
    <3>1. j \in 1..Len(R) /\ ~(j \in 1..Len(P)) /\ j - Len(P) \in (k + 1)..Len(Q)
      BY <1>1
    <3>2. R[j] = Q[j - Len(P)]
      BY <1>1, <3>1
    <3> QED
      BY <2>1, <3>1, <3>2
  <2> QED
    BY <2>2, <2>3 DEF UnderWay
<1>4. ASSUME Undisturbed(P, i, base, alt), Undisturbed(Q, i, base, alt)
      PROVE  Undisturbed(R, i, base, alt)
  <2> SUFFICES ASSUME NEW j \in 1..Len(R) PROVE SparesAt(R[j], i, base, alt)
    BY DEF Undisturbed
  <2>1. CASE j \in 1..Len(P) /\ R[j] = P[j]
    BY <1>4, <2>1 DEF Undisturbed
  <2>2. CASE j - Len(P) \in 1..Len(Q) /\ R[j] = Q[j - Len(P)]
    BY <1>4, <2>2 DEF Undisturbed
  <2> QED
    BY <1>1, <2>1, <2>2
<1> QED
  BY <1>2, <1>3, <1>4 DEF R

\* Lines disturb no row of a screen.
LEMMA LinesSpare ==
    ASSUME NEW C \in Seq(Message), \A k \in 1..Len(C) : C[k].type = "scroll",
           NEW i, NEW base, NEW alt
    PROVE  Undisturbed(C, i, base, alt)
BY DEF Undisturbed, SparesAt

\* A frame that draws a row, or spares it, and lines after it.
LEMMA FrameAndLines ==
    ASSUME NEW m \in Message, NEW C \in Seq(Message),
           \A k \in 1..Len(C) : C[k].type = "scroll", NEW i, NEW base, NEW alt, NEW row
    PROVE  /\ DrawsAt(m, i, base, alt, row) => UnderWay(<<m>> \o C, i, base, alt, row)
           /\ SparesAt(m, i, base, alt) => Undisturbed(<<m>> \o C, i, base, alt)
<1>1. <<m>> \in Seq(Message) /\ Len(<<m>>) = 1 /\ <<m>>[1] = m
  BY OneFrame
<1>2. \A k \in 1..Len(<<m>>) : k = 1
  BY <1>1
<1>3. DrawsAt(m, i, base, alt, row) => UnderWay(<<m>>, i, base, alt, row)
  <2>1. \A j \in (1 + 1)..Len(<<m>>) : FALSE
    BY <1>1
  <2>2. 1 \in 1..Len(<<m>>)
    BY <1>1
  <2> QED
    BY <1>1, <2>1, <2>2 DEF UnderWay
<1>4. SparesAt(m, i, base, alt) => Undisturbed(<<m>>, i, base, alt)
  BY <1>1, <1>2 DEF Undisturbed
<1> QED
  BY <1>1, <1>3, <1>4, LinesSpare, UnderWayJoined

\* A pass with a page's socket resumed keeps every row under way or shown: those
\* that changed are drawn by the frame added, and it spares the others.
LEMMA BuildKeepsShown ==
    ASSUME Inv, BuildFrame
    PROVE  ShownInv'
<1> SUFFICES ASSUME Resumed PROVE ShownInv'
  BY DEF ShownInv, Resumed, BuildFrame, connVars
<1>1. /\ UNCHANGED <<conn, store, acked>> /\ Drain
      /\ builder' = [rows |-> screen, base |-> Committed', prevAlt |-> inAltScreen,
                     prevAltValid |-> TRUE]
      /\ Added \in Seq(Message) /\ Pending' = Pending \o Added /\ Pending \in Seq(Message)
  BY FrameBuilt, PendingIsFrames DEF BuildFrame, connVars, pageVars, Inv, DataInv
<1>2. /\ builder'.rows = screen /\ builder'.base = Committed' /\ builder'.prevAlt = inAltScreen
  BY <1>1
<1>3. /\ Committed \in Nat /\ Committed' \in Nat /\ Committed' = Committed + Len(MainLines)
      /\ MainLines \in Seq(Rows)
  BY <1>1, Drained DEF Inv, DataInv
<1> DEFINE C == Chunks(Committed, MainLines)
<1>4. C \in Seq(Message) /\ \A k \in 1..Len(C) : C[k].type = "scroll"
  BY <1>3, LinesChunked
<1>5. /\ BuiltScreen \in Message /\ BuiltScreen.type = "screen"
      /\ BuiltScreen.base = Committed' /\ BuiltScreen.rows = BuiltRows
      /\ BuiltScreen.altActive = inAltScreen
      /\ DOMAIN BuiltRows = ChangedRows(Committed')
      /\ ChangedRows(Committed') \subseteq 1..Height
      /\ \A y \in ChangedRows(Committed') : BuiltRows[y] = screen[y]
  BY <1>3, BuiltIsMessage DEF Inv, DataInv
<1> HIDE DEF BuiltScreen
<1>6. ASSUME NEW y \in ChangedRows(Committed')
      PROVE  UnderWay(Added, Committed' + y - 1, Committed', inAltScreen, screen[y])
  <2>1. y \in Int /\ Committed' \in Int
    BY <1>3, <1>5
  <2> DEFINE i == Committed' + y - 1
  <2>2. DrawsAt(BuiltScreen, i, Committed', inAltScreen, screen[y])
    <3>1. i - BuiltScreen.base + 1 = y
      <4> DEFINE b == BuiltScreen.base
                 c == Committed'
      <4>1. b = c
        BY <1>5
      <4>2. c \in Int /\ y \in Int
        BY <2>1
      <4>3. i = c + y - 1
        OBVIOUS
      <4> HIDE DEF b, c, i
      <4>4. i - b + 1 = y
        BY <4>1, <4>2, <4>3
      <4> QED
        BY <4>4 DEF b
    <3>2. y \in DOMAIN BuiltScreen.rows /\ BuiltScreen.rows[y] = screen[y]
      BY <1>5
    <3> HIDE DEF i
    <3> QED
      BY <1>5, <3>1, <3>2 DEF DrawsAt
  <2>3. Added = <<BuiltScreen>> \o C
    <3>1. frame' # NoFrame
      BY FrameBuilt
    <3> QED
      BY <3>1 DEF Added
  <2> HIDE DEF C
  <2> QED
    BY <1>4, <1>5, <2>2, <2>3, FrameAndLines
<1>7. ASSUME NEW y \in 1..Height, y \notin ChangedRows(Committed')
      PROVE  Undisturbed(Added, Committed' + y - 1, Committed', inAltScreen)
  <2>1. y \in Int /\ Committed' \in Int
    BY <1>3
  <2> DEFINE i == Committed' + y - 1
  <2>2. SparesAt(BuiltScreen, i, Committed', inAltScreen)
    <3>1. i - BuiltScreen.base + 1 = y
      <4> DEFINE b == BuiltScreen.base
                 c == Committed'
      <4>1. b = c
        BY <1>5
      <4>2. c \in Int /\ y \in Int
        BY <2>1
      <4>3. i = c + y - 1
        OBVIOUS
      <4> HIDE DEF b, c, i
      <4>4. i - b + 1 = y
        BY <4>1, <4>2, <4>3
      <4> QED
        BY <4>4 DEF b
    <3>2. y \in (1..Height) \ DOMAIN BuiltScreen.rows
      BY <1>5, <1>7
    <3> HIDE DEF i
    <3> QED
      BY <1>5, <3>1, <3>2 DEF SparesAt
  <2>3. Added \in {<<>>, <<>> \o C, <<BuiltScreen>> \o C}
    BY DEF Added
  <2> HIDE DEF C
  <2>4. <<>> \o C = C
    BY <1>4, ConcatEmptySeq
  <2>5. Undisturbed(C, Committed' + y - 1, Committed', inAltScreen)
    BY <1>4, LinesSpare
  <2>6. Undisturbed(<<BuiltScreen>> \o C, Committed' + y - 1, Committed', inAltScreen)
    BY <1>4, <1>5, <2>2, FrameAndLines
  <2>7. Undisturbed(<<>>, Committed' + y - 1, Committed', inAltScreen)
    BY DEF Undisturbed
  <2> QED
    BY <2>3, <2>4, <2>5, <2>6, <2>7
<1>8. ASSUME NEW y \in 1..Height PROVE RowInv(y)'
  <2> DEFINE i == Committed' + y - 1
  <2>1. i \in Nat /\ Place(y)' = i
    BY <1>2, <1>3 DEF Place
  <2>2. CASE y \in ChangedRows(Committed')
    <3>1. UnderWay(Pending \o Added, i, Committed', inAltScreen, screen[y])
      BY <1>1, <1>6, <2>2, UnderWayJoined
    <3> QED
      BY <1>1, <1>2, <2>1, <3>1 DEF RowInv
  <2>3. CASE y \notin ChangedRows(Committed')
    <3> DEFINE at == Committed' + y - builder.base
    <3>1. /\ at \in 1..Height /\ builder.rows # <<>> /\ builder.rows[at] = screen[y]
          /\ builder.prevAlt = inAltScreen
      BY <2>3, RowCached
    <3>2. builder.base = Committed /\ RowInv(at)
      BY <3>1 DEF Inv, ShownInv
    <3>3. Place(at) = i
      BY <1>3, <2>1, <3>2 DEF Place
    <3>4. inAltScreen => Committed' = Committed
      <4>1. inAltScreen => Len(MainLines) = 0
        BY DEF MainLines
      <4> QED
        BY <1>3, <4>1
    <3> HIDE DEF at, i
    <3>5. Undisturbed(Added, i, Committed', inAltScreen)
      BY <1>7, <2>3 DEF i
    <3>6. \A m : DrawsAt(m, i, Committed, inAltScreen, screen[y])
                  <=> DrawsAt(m, i, Committed', inAltScreen, screen[y])
      BY <3>4 DEF DrawsAt
    <3>7. \A m : SparesAt(m, i, Committed, inAltScreen) <=> SparesAt(m, i, Committed', inAltScreen)
      BY <3>4 DEF SparesAt
    <3>8. \A s : ShowsAt(s, i, Committed, inAltScreen, screen[y])
                  => ShowsAt(s, i, Committed', inAltScreen, screen[y])
      BY <3>4 DEF ShowsAt
    <3>9. \/ UnderWay(Pending, i, Committed, inAltScreen, screen[y])
          \/ /\ acked /\ ShowsAt(store, i, Committed, inAltScreen, screen[y])
             /\ Undisturbed(Pending, i, Committed, inAltScreen)
      BY <3>1, <3>2, <3>3 DEF RowInv
    <3>10. \/ UnderWay(Pending, i, Committed', inAltScreen, screen[y])
           \/ /\ acked /\ ShowsAt(store, i, Committed', inAltScreen, screen[y])
              /\ Undisturbed(Pending, i, Committed', inAltScreen)
      BY <3>6, <3>7, <3>8, <3>9 DEF UnderWay, Undisturbed
    <3>11. \/ UnderWay(Pending \o Added, i, Committed', inAltScreen, screen[y])
           \/ /\ acked /\ ShowsAt(store, i, Committed', inAltScreen, screen[y])
              /\ Undisturbed(Pending \o Added, i, Committed', inAltScreen)
      BY <1>1, <3>5, <3>10, UnderWayJoined
    <3> QED
      BY <1>1, <1>2, <2>1, <3>11 DEF RowInv
  <2> QED
    BY <2>2, <2>3
<1>9. acked \/ \E k \in 1..Len(Pending \o Added) : (Pending \o Added)[k].type = "resumeAck"
  BY <1>1, Joined DEF Inv, ShownInv
<1> QED
  BY <1>1, <1>2, <1>8, <1>9 DEF ShownInv

-----------------------------------------------------------------------------
(* What a frame does to the page, row by row.                                *)

\* Being read for its erase, a frame drops what lies above its window.
LEMMA ClearedRows ==
    ASSUME NEW s, IsStore(s), NEW m, IsScreen(m)
    PROVE  LET c == Cleared(s, m)
           IN  /\ IsStore(c) /\ c.base = s.base /\ c.height = s.height /\ c.alt = s.alt
               /\ c.altRows = s.altRows
               /\ \A i \in Held(c) : i \in Held(s) /\ c.lines[i] = s.lines[i]
               /\ \A i \in Held(s) : i >= m.base \/ ~m.scrollbackCleared => i \in Held(c)
               /\ \A i \in Held(c) : i < c.unconfirmedFrom => i < s.unconfirmedFrom
               /\ \A i \in Held(c) : i <= c.erasedThrough => i <= s.erasedThrough
               /\ s.erasedThrough < m.base => c.erasedThrough < m.base
               /\ s.erasedThrough <= c.erasedThrough
               /\ c.unconfirmedFrom = IF m.scrollbackCleared /\ m.base > s.unconfirmedFrom
                                      THEN m.base ELSE s.unconfirmedFrom
<1> DEFINE c == Cleared(s, m)
<1>1. m.base \in Nat /\ m.scrollbackCleared \in BOOLEAN
  BY DEF IsScreen
<1>2. /\ s.unconfirmedFrom \in Nat /\ s.erasedThrough \in Int /\ \A i \in Held(s) : i \in Nat
  BY DEF IsStore
<1>3. CASE m.scrollbackCleared
  <2>1. /\ IsStore(c) /\ c.base = s.base /\ c.height = s.height /\ c.alt = s.alt
        /\ c.altRows = s.altRows
        /\ Held(c) = {i \in Held(s) : i >= m.base}
        /\ \A i \in Held(c) : c.lines[i] = s.lines[i]
        /\ c.unconfirmedFrom = IF s.unconfirmedFrom >= m.base THEN s.unconfirmedFrom ELSE m.base
        /\ s.erasedThrough <= c.erasedThrough
        /\ \/ c.erasedThrough = s.erasedThrough
           \/ c.erasedThrough \in Held(s) /\ c.erasedThrough < m.base
    BY <1>1, <1>3, ClearApplied DEF Cleared
  <2>2. \A i \in Held(c) : i \in Held(s) /\ i >= m.base /\ i \in Nat
    BY <1>2, <2>1
  <2> HIDE DEF c
  <2>3. \A i \in Held(c) : i < c.unconfirmedFrom => i < s.unconfirmedFrom
    BY <1>1, <1>2, <2>1, <2>2
  <2>4. \A i \in Held(c) : i <= c.erasedThrough => i <= s.erasedThrough
    BY <1>1, <1>2, <2>1, <2>2
  <2>5. c.unconfirmedFrom = IF m.scrollbackCleared /\ m.base > s.unconfirmedFrom
                            THEN m.base ELSE s.unconfirmedFrom
    BY <1>1, <1>2, <1>3, <2>1
  <2>6. \A i \in Held(s) : i >= m.base => i \in Held(c)
    BY <2>1
  <2>7. s.erasedThrough < m.base => c.erasedThrough < m.base
    BY <1>1, <1>2, <2>1
  <2> QED
    BY <1>3, <2>1, <2>2, <2>3, <2>4, <2>5, <2>6, <2>7 DEF c
<1>4. CASE ~m.scrollbackCleared
  BY <1>2, <1>4 DEF Cleared
<1> QED
  BY <1>1, <1>3, <1>4

\* What a main-screen frame makes of the rows.
MainDrawn(t, c, m) ==
    /\ \A i \in Held(t) : i \in Nat /\ i < m.base + Height
    /\ \A i \in Held(t) : i - m.base + 1 \in DOMAIN m.rows =>
                             i >= m.base /\ t.lines[i] = m.rows[i - m.base + 1]
    /\ \A i \in Held(t) : i - m.base + 1 \notin DOMAIN m.rows =>
                             i \in Held(c) /\ t.lines[i] = c.lines[i]
    /\ \A i \in Nat : i - m.base + 1 \in DOMAIN m.rows => i \in Held(t)
    /\ \A i \in Held(c) : i < m.base + Height => i \in Held(t)

\* A main-screen frame draws its rows and keeps the others down to its last.
LEMMA MainRows ==
    ASSUME NEW s, IsStore(s), NEW m, IsScreen(m), ~m.altActive
    PROVE  LET t == ApplyScreen(s, m)
               c == Cleared(s, m)
           IN  /\ IsStore(t) /\ t.base = m.base /\ t.height = Height /\ t.alt = FALSE
               /\ t.altRows = <<>> /\ t.erasedThrough = c.erasedThrough
               /\ t.unconfirmedFrom = IF c.unconfirmedFrom <= m.base THEN c.unconfirmedFrom
                                      ELSE m.base
               /\ MainDrawn(t, c, m)
<1> DEFINE c == Cleared(s, m)
           t == ApplyScreen(s, m)
           drawn == {m.base + y - 1 : y \in DOMAIN m.rows}
<1>1. /\ IsStore(t)
      /\ Held(t) = {i \in Held(c) \cup drawn : i < m.base + Height}
      /\ \A i \in Held(t) : t.lines[i] = IF i \in drawn THEN m.rows[i - m.base + 1] ELSE c.lines[i]
      /\ t.unconfirmedFrom = IF c.unconfirmedFrom <= m.base THEN c.unconfirmedFrom ELSE m.base
      /\ t.erasedThrough = c.erasedThrough
      /\ t.base = m.base /\ t.height = Height /\ t.alt = FALSE /\ t.altRows = <<>>
  BY MainApplied, Sizes
<1>2. m.base \in Nat /\ DOMAIN m.rows \subseteq 1..Height /\ Height \in Nat
  BY Sizes DEF IsScreen
<1>3. \A i \in Held(t) : i \in Nat
  BY <1>1 DEF IsStore
<1> HIDE DEF c, t
<1>4. \A i \in Nat : i \in drawn <=> i - m.base + 1 \in DOMAIN m.rows
  <2>1. ASSUME NEW i \in Nat, i - m.base + 1 \in DOMAIN m.rows PROVE i \in drawn
    <3>1. i = m.base + (i - m.base + 1) - 1
      BY <1>2
    <3> QED
      BY <2>1, <3>1
  <2>2. ASSUME NEW i \in Nat, i \in drawn PROVE i - m.base + 1 \in DOMAIN m.rows
    <3>1. PICK y \in DOMAIN m.rows : i = m.base + y - 1
      BY <2>2
    <3>2. y \in Int /\ i - m.base + 1 = y
      BY <1>2, <3>1
    <3> QED
      BY <3>2
  <2> QED
    BY <2>1, <2>2
<1>5. \A i \in Nat : i - m.base + 1 \in DOMAIN m.rows => i >= m.base /\ i < m.base + Height
  BY <1>2
<1> HIDE DEF drawn
<1>6. MainDrawn(t, c, m)
  BY <1>1, <1>3, <1>4, <1>5 DEF MainDrawn
<1> QED
  BY <1>1, <1>6 DEF c, t

-----------------------------------------------------------------------------
(* A frame arrives.                                                          *)

\* What is known of the first frame on the wire, and of those after it.
LEMMA FrameTaken ==
    ASSUME Inv, wire # <<>>, wire' = Tail(wire), UNCHANGED <<conn, batch, frame>>
    PROVE  LET m == Head(wire)
           IN  /\ m \in Message /\ wire' \in Seq(Message) /\ Len(wire') <= MaxWire
               /\ Pending \in Seq(Message) /\ Pending' \in Seq(Message)
               /\ Len(Pending) \in Nat /\ 1 \in 1..Len(Pending) /\ Pending[1] = m
               /\ Len(Pending') = Len(Pending) - 1
               /\ \A k \in 1..Len(Pending') :
                     k + 1 \in 1..Len(Pending) /\ Pending'[k] = Pending[k + 1]
               /\ conn # "closed"
<1>1. Due' = Due
  BY DEF Due, Chunks
<1>2. wire \in Seq(Message) /\ batch \o Due \in Seq(Message)
  BY PendingIsFrames DEF Inv, DataInv, ConnData
<1>3. Pending = wire \o (batch \o Due) /\ Pending' = Tail(wire) \o (batch \o Due)
  BY <1>1 DEF Pending
<1>4. /\ Pending \in Seq(Message) /\ Pending' \in Seq(Message)
      /\ Len(Pending') = Len(Pending) - 1 /\ Len(Pending) \in Nat \ {0}
      /\ Pending[1] = Head(wire) /\ Head(wire) \in Message /\ Tail(wire) \in Seq(Message)
      /\ Len(Tail(wire)) < Len(wire)
      /\ \A k \in 1..Len(Pending') :
            k + 1 \in 1..Len(Pending) /\ Pending'[k] = Pending[k + 1]
  BY <1>2, <1>3, FirstTaken
<1>5. Len(wire') <= MaxWire
  <2>1. Len(wire) \in Nat /\ Len(Tail(wire)) \in Nat /\ Len(wire) <= MaxWire
    BY <1>2, <1>4, LenProperties DEF Inv, DataInv, ConnData
  <2> QED
    BY <1>4, <2>1, Sizes
<1>6. conn # "closed"
  BY DEF Inv, DataInv, ConnData
<1>7. 1 \in 1..Len(Pending)
  BY <1>4
<1> QED
  BY <1>4, <1>5, <1>6, <1>7

\* What frame m brings, taken off the others T.
Fits(m, T, h, low, high) ==
    /\ Carried(T, h) /\ Ordered(T, low, high)
    /\ m.type = "screen" =>
          /\ low < m.base /\ m.base <= high
          /\ \A e \in Int : e < m.base => Ordered(T, e, high)
    /\ m.type = "scroll" => \A j \in 1..Len(m.lines) :
          m.firstIndex + j <= Len(h) /\ m.lines[j] = h[m.firstIndex + j]

\* The frames after it still carry history, in order, from its own window on.
LEMMA RestFits ==
    ASSUME NEW P \in Seq(Message), NEW T \in Seq(Message), Len(T) = Len(P) - 1, 1 \in 1..Len(P),
           \A k \in 1..Len(T) : k + 1 \in 1..Len(P) /\ T[k] = P[k + 1],
           NEW low \in Int, NEW high \in Int, NEW h, Carried(P, h), Ordered(P, low, high)
    PROVE  Fits(P[1], T, h, low, high)
<1>1. Carried(T, h)
  <2>1. ASSUME NEW k \in 1..Len(T), T[k].type = "scroll", NEW j \in 1..Len(T[k].lines)
        PROVE  T[k].firstIndex + j <= Len(h) /\ T[k].lines[j] = h[T[k].firstIndex + j]
    <3>1. k + 1 \in 1..Len(P) /\ T[k] = P[k + 1]
      OBVIOUS
    <3> QED
      BY <2>1, <3>1 DEF Carried
  <2> QED
    BY <2>1 DEF Carried
<1>2. ASSUME NEW j \in 1..Len(T), NEW k \in 1..Len(T), j < k,
             T[j].type = "screen", T[k].type = "screen"
      PROVE  T[j].base <= T[k].base
  <2>1. j + 1 < k + 1
    BY <1>2
  <2> QED
    BY <1>2, <2>1 DEF Ordered
<1>3. ASSUME NEW k \in 1..Len(T), T[k].type = "screen" PROVE low < T[k].base /\ T[k].base <= high
  BY <1>3 DEF Ordered
<1>4. Ordered(T, low, high)
  BY <1>2, <1>3 DEF Ordered
<1>5. ASSUME P[1].type = "screen", NEW e \in Int, e < P[1].base PROVE Ordered(T, e, high)
  <2>1. ASSUME NEW k \in 1..Len(T), T[k].type = "screen" PROVE e < T[k].base
    <3>1. 1 < k + 1 /\ k + 1 \in 1..Len(P) /\ P[k + 1].type = "screen"
      BY <2>1
    <3>2. P[1].base <= T[k].base
      BY <1>5, <2>1, <3>1 DEF Ordered
    <3>3. P[1].base \in Nat /\ T[k].base \in Nat
      <4>1. P[1] \in Message /\ T[k] \in Message
        OBVIOUS
      <4> QED
        BY <1>5, <2>1, <4>1, MessageKinds DEF IsScreen
    <3> QED
      BY <1>5, <3>2, <3>3
  <2> QED
    BY <1>2, <1>3, <2>1 DEF Ordered
<1>6. P[1].type = "screen" => low < P[1].base /\ P[1].base <= high
  BY DEF Ordered
<1>7. P[1].type = "scroll" => \A j \in 1..Len(P[1].lines) :
         P[1].firstIndex + j <= Len(h) /\ P[1].lines[j] = h[P[1].firstIndex + j]
  BY DEF Carried
<1> QED
  BY <1>1, <1>4, <1>5, <1>6, <1>7 DEF Fits

\* A row under way is drawn by the first frame, or by one after it.
LEMMA RestShows ==
    ASSUME NEW P \in Seq(Message), NEW T \in Seq(Message), Len(T) = Len(P) - 1, 1 \in 1..Len(P),
           \A k \in 1..Len(T) : k + 1 \in 1..Len(P) /\ T[k] = P[k + 1],
           NEW i, NEW base, NEW alt, NEW row
    PROVE  /\ UnderWay(P, i, base, alt, row) =>
                 \/ UnderWay(T, i, base, alt, row)
                 \/ DrawsAt(P[1], i, base, alt, row) /\ Undisturbed(T, i, base, alt)
           /\ Undisturbed(P, i, base, alt) =>
                 SparesAt(P[1], i, base, alt) /\ Undisturbed(T, i, base, alt)
<1>4. Len(P) \in Nat /\ Len(T) \in Nat
  BY LenProperties
<1>1. ASSUME NEW k \in 1..Len(P), DrawsAt(P[k], i, base, alt, row),
             \A j \in (k + 1)..Len(P) : SparesAt(P[j], i, base, alt)
      PROVE  \/ UnderWay(T, i, base, alt, row)
             \/ DrawsAt(P[1], i, base, alt, row) /\ Undisturbed(T, i, base, alt)
  <2>1. CASE k = 1
    <3>1. \A j \in 1..Len(T) : j + 1 \in (1 + 1)..Len(P) /\ T[j] = P[j + 1]
      BY <1>4
    <3> QED
      BY <1>1, <2>1, <3>1 DEF Undisturbed
  <2>2. CASE k # 1
    <3>1. k - 1 \in 1..Len(T) /\ T[k - 1] = P[k]
      <4>1. k - 1 \in 1..Len(T) /\ (k - 1) + 1 = k
        BY <2>2
      <4> QED
        BY <4>1
    <3>2. \A j \in (k - 1 + 1)..Len(T) : j + 1 \in (k + 1)..Len(P) /\ T[j] = P[j + 1]
      BY <1>4, <2>2
    <3> QED
      BY <1>1, <3>1, <3>2 DEF UnderWay
  <2> QED
    BY <2>1, <2>2
<1>2. UnderWay(P, i, base, alt, row) =>
         \/ UnderWay(T, i, base, alt, row)
         \/ DrawsAt(P[1], i, base, alt, row) /\ Undisturbed(T, i, base, alt)
  BY <1>1 DEF UnderWay
<1>3. Undisturbed(P, i, base, alt) =>
         SparesAt(P[1], i, base, alt) /\ Undisturbed(T, i, base, alt)
  BY DEF Undisturbed
<1> QED
  BY <1>2, <1>3

\* A frame taken leaves the server as it was.
LEMMA TakeKeepsData ==
    ASSUME Inv, NEW type, Take(type), StoreData'
    PROVE  DataInv' /\ Committed' = Committed /\ history' = history /\ Resumed' = Resumed
<1>1. /\ wire # <<>> /\ wire' = Tail(wire)
      /\ UNCHANGED <<screen, saved, inAltScreen, drained, capacity, history, oldest,
                     scrollbackClearedPending, builder, frame, conn, asked, batch, outputs>>
  BY DEF Take, serverVars, screenVars, logVars, connVars
<1>2. Committed' = Committed /\ Resumed' = Resumed
  BY <1>1 DEF Committed, Resumed
<1>3. ConnData'
  <2>1. wire' \in Seq(Message) /\ Len(wire') <= MaxWire /\ conn # "closed"
    BY <1>1, FrameTaken
  <2> QED
    BY <1>1, <2>1 DEF ConnData, Inv, DataInv
<1>4. ScreenData' /\ LogData' /\ FrameInv' /\ BuilderInv'
  BY <1>1, <1>2 DEF ScreenData, LogData, FrameInv, BuilderInv, Inv, DataInv
<1> QED
  BY <1>1, <1>2, <1>3, <1>4 DEF DataInv

\* What the frame taken brings, and where it stands among the others.
LEMMA TakeFits ==
    ASSUME Inv, NEW type, Take(type)
    PROVE  LET m == Head(wire)
           IN  /\ m \in Message /\ m.type = type
               /\ Carried(Pending', history) /\ Ordered(Pending', store.erasedThrough, Committed)
               /\ type = "screen" =>
                     /\ store.erasedThrough < m.base /\ m.base <= Committed
                     /\ \A e \in Int : e < m.base => Ordered(Pending', e, Committed)
               /\ type = "scroll" => \A j \in 1..Len(m.lines) :
                     /\ m.firstIndex + j <= Committed
                     /\ m.lines[j] = history[m.firstIndex + j]
<1> DEFINE m == Head(wire)
<1>1. /\ wire # <<>> /\ wire' = Tail(wire) /\ m.type = type
      /\ UNCHANGED <<conn, batch, frame>>
  BY DEF Take, serverVars, connVars
<1>2. /\ m \in Message /\ Pending \in Seq(Message) /\ Pending' \in Seq(Message)
      /\ 1 \in 1..Len(Pending) /\ Pending[1] = m
      /\ Len(Pending') = Len(Pending) - 1
      /\ \A k \in 1..Len(Pending') :
            k + 1 \in 1..Len(Pending) /\ Pending'[k] = Pending[k + 1]
  BY <1>1, FrameTaken
<1>3. /\ Carried(Pending, history) /\ Ordered(Pending, store.erasedThrough, Committed)
      /\ store.erasedThrough \in Int /\ Committed \in Int /\ Committed = Len(history)
  BY LenProperties DEF Inv, ClaimInv, DataInv, StoreData, LogData, IsStore, Committed
<1> DEFINE P == Pending
           T == Pending'
<1> HIDE DEF m, P, T
<1>4. Fits(P[1], T, history, store.erasedThrough, Committed)
  <2>1. /\ P \in Seq(Message) /\ T \in Seq(Message) /\ 1 \in 1..Len(P) /\ Len(T) = Len(P) - 1
        /\ \A k \in 1..Len(T) : k + 1 \in 1..Len(P) /\ T[k] = P[k + 1]
        /\ Carried(P, history) /\ Ordered(P, store.erasedThrough, Committed)
    BY <1>2, <1>3 DEF P, T
  <2> QED
    <3>1. store.erasedThrough \in Int /\ Committed \in Int
      BY <1>3
    <3> QED
      BY <2>1, <3>1, RestFits
<1> QED
  BY <1>1, <1>2, <1>3, <1>4 DEF Fits, m, P, T

\* The rows of the builder's screen stay under way, or shown, if the page draws what
\* it is sent and spares the rest.
LEMMA TakeKeepsShown ==
    ASSUME Inv, NEW type, Take(type), acked => acked', type = "resumeAck" => acked',
           \A y \in 1..Height :
              LET i == Place(y)
                  base == builder.base
                  alt == builder.prevAlt
                  row == builder.rows[y]
              IN  acked /\ base = Committed
                    /\ \/ DrawsAt(Head(wire), i, base, alt, row)
                       \/ ShowsAt(store, i, base, alt, row) /\ SparesAt(Head(wire), i, base, alt)
                  => ShowsAt(store', i, base, alt, row)
    PROVE  ShownInv'
<1> DEFINE m == Head(wire)
<1>1. /\ wire # <<>> /\ wire' = Tail(wire) /\ m.type = type
      /\ UNCHANGED <<conn, batch, frame, builder, history>>
  BY DEF Take, serverVars, connVars, logVars
<1>2. /\ m \in Message /\ Pending \in Seq(Message) /\ Pending' \in Seq(Message)
      /\ 1 \in 1..Len(Pending) /\ Pending[1] = m
      /\ Len(Pending') = Len(Pending) - 1
      /\ \A k \in 1..Len(Pending') :
            k + 1 \in 1..Len(Pending) /\ Pending'[k] = Pending[k + 1]
      /\ Len(Pending) \in Nat
  BY <1>1, FrameTaken
<1> SUFFICES ASSUME Resumed PROVE ShownInv'
  BY <1>1 DEF ShownInv, Resumed
<1>3. acked' \/ \E k \in 1..Len(Pending') : Pending'[k].type = "resumeAck"
  <2>1. CASE acked
    BY <2>1
  <2>2. CASE ~acked
    <3>1. PICK k \in 1..Len(Pending) : Pending[k].type = "resumeAck"
      BY <2>2 DEF Inv, ShownInv
    <3>2. CASE k = 1
      BY <1>1, <1>2, <3>1, <3>2
    <3>3. CASE k # 1
      <4>1. k - 1 \in 1..Len(Pending') /\ (k - 1) + 1 = k
        BY <1>2, <3>3
      <4> QED
        BY <1>2, <3>1, <4>1
    <3> QED
      BY <3>2, <3>3
  <2> QED
    BY <2>1, <2>2
<1>4. ASSUME builder.rows # <<>>, NEW y \in 1..Height PROVE RowInv(y)'
  <2> DEFINE i == Place(y)
             base == builder.base
             alt == builder.prevAlt
             row == builder.rows[y]
             P == Pending
             T == Pending'
  <2>1. /\ base = Committed
        /\ \/ UnderWay(P, i, base, alt, row)
           \/ acked /\ ShowsAt(store, i, base, alt, row) /\ Undisturbed(P, i, base, alt)
    BY <1>4 DEF Inv, ShownInv, RowInv
  <2>2. /\ UnderWay(P, i, base, alt, row) =>
              \/ UnderWay(T, i, base, alt, row)
              \/ DrawsAt(m, i, base, alt, row) /\ Undisturbed(T, i, base, alt)
        /\ Undisturbed(P, i, base, alt) => SparesAt(m, i, base, alt) /\ Undisturbed(T, i, base, alt)
    <3> HIDE DEF P, T, m, i, base, alt, row
    <3>1. /\ P \in Seq(Message) /\ T \in Seq(Message)
          /\ 1 \in 1..Len(P) /\ P[1] = m /\ Len(T) = Len(P) - 1
          /\ \A k \in 1..Len(T) : k + 1 \in 1..Len(P) /\ T[k] = P[k + 1]
      BY <1>2 DEF P, T
    <3> QED
      BY <3>1, RestShows
  <2>3. /\ RowInv(y)' <=> \/ UnderWay(T, i, base, alt, row)
                          \/ /\ acked' /\ ShowsAt(store', i, base, alt, row)
                             /\ Undisturbed(T, i, base, alt)
    BY <1>1 DEF RowInv, Place
  <2>4. acked /\ \/ DrawsAt(m, i, base, alt, row)
                 \/ ShowsAt(store, i, base, alt, row) /\ SparesAt(m, i, base, alt)
           => ShowsAt(store', i, base, alt, row)
    BY <2>1
  <2>5. DrawsAt(m, i, base, alt, row) /\ Undisturbed(T, i, base, alt) => acked
    <3> SUFFICES ASSUME DrawsAt(m, i, base, alt, row), Undisturbed(T, i, base, alt), ~acked
                 PROVE  FALSE
      OBVIOUS
    <3>1. m.type # "resumeAck"
      BY DEF DrawsAt
    <3>2. \A k \in 1..Len(Pending') : Pending'[k].type # "resumeAck"
      BY DEF Undisturbed, SparesAt
    <3>3. PICK k \in 1..Len(Pending) : Pending[k].type = "resumeAck"
      BY DEF Inv, ShownInv
    <3>4. k # 1
      BY <1>2, <3>1, <3>3
    <3>5. k - 1 \in 1..Len(Pending') /\ (k - 1) + 1 = k
      BY <1>2, <3>4
    <3> QED
      BY <1>2, <3>2, <3>3, <3>5
  <2> HIDE DEF P, T, m, i, base, alt, row
  <2> QED
    BY <2>1, <2>2, <2>3, <2>4, <2>5
<1>5. /\ builder' = builder /\ Committed' = Committed
  BY <1>1 DEF Committed
<1> QED
  BY <1>3, <1>4, <1>5 DEF ShownInv, Inv

\* The claims stand when the rows the page then has below its floor, or below an
\* erase, are the server's.
LEMMA TakeKeeps ==
    ASSUME Inv, NEW type, Take(type), StoreData', ShownInv',
           \/ store'.erasedThrough = store.erasedThrough
           \/ type = "screen" /\ store'.erasedThrough < Head(wire).base,
           \A i \in Held(store') :
              i <= store'.erasedThrough \/ (i < store'.unconfirmedFrom /\ i \notin unproven')
                 => i < Committed /\ store'.lines[i] = history[i + 1]
    PROVE  Inv'
<1>1. DataInv' /\ Committed' = Committed /\ history' = history
  BY TakeKeepsData
<1>2. /\ Carried(Pending', history) /\ Ordered(Pending', store.erasedThrough, Committed)
      /\ type = "screen" =>
            /\ Head(wire).base <= Committed
            /\ \A e \in Int : e < Head(wire).base => Ordered(Pending', e, Committed)
      /\ Head(wire) \in Message /\ Head(wire).type = type
  BY TakeFits
<1>3. store'.erasedThrough \in Int /\ store.erasedThrough < Committed /\ Committed \in Nat
  BY LenProperties DEF StoreData, IsStore, Inv, ClaimInv, DataInv, LogData, Committed
<1>4. Ordered(Pending', store'.erasedThrough, Committed) /\ store'.erasedThrough < Committed
  <2>1. CASE store'.erasedThrough = store.erasedThrough
    BY <1>2, <1>3, <2>1
  <2>2. CASE type = "screen" /\ store'.erasedThrough < Head(wire).base
    <3>1. Head(wire).base \in Nat
      BY <1>2, <2>2, MessageKinds DEF IsScreen
    <3> QED
      BY <1>2, <1>3, <2>2, <3>1
  <2> QED
    BY <2>1, <2>2
<1>5. \A i \in Held(store') : i <= store'.erasedThrough => Right(i)'
  BY <1>1 DEF Right
<1>6. \A i \in Held(store') \ unproven' : i < store'.unconfirmedFrom => Right(i)'
  BY <1>1 DEF Right
<1>7. ClaimInv'
  BY <1>1, <1>2, <1>4, <1>5, <1>6 DEF ClaimInv
<1> QED
  BY <1>1, <1>7 DEF Inv

\* The resumeAck changes nothing but the window.
LEMMA AckApplied ==
    ASSUME NEW s, IsStore(s), NEW m, NEW have, NEW max
    PROVE  LET t == ApplyResumeAck(s, m, have, max)
           IN  /\ IsStore(t) /\ t.lines = s.lines /\ Held(t) = Held(s)
               /\ t.unconfirmedFrom = s.unconfirmedFrom /\ t.erasedThrough = s.erasedThrough
               /\ t.altRows = s.altRows
<1> DEFINE t == ApplyResumeAck(s, m, have, max)
<1>1. t = s \/ t = [s EXCEPT !.base = 0, !.height = 0]
  BY DEF ApplyResumeAck
<1> HIDE DEF t
<1>2. ASSUME t = s
      PROVE  /\ IsStore(t) /\ t.lines = s.lines /\ Held(t) = Held(s)
             /\ t.unconfirmedFrom = s.unconfirmedFrom /\ t.erasedThrough = s.erasedThrough
             /\ t.altRows = s.altRows
  BY <1>2
<1>3. ASSUME t = [s EXCEPT !.base = 0, !.height = 0]
      PROVE  /\ IsStore(t) /\ t.lines = s.lines /\ Held(t) = Held(s)
             /\ t.unconfirmedFrom = s.unconfirmedFrom /\ t.erasedThrough = s.erasedThrough
             /\ t.altRows = s.altRows
  <2>1. t = [lines |-> s.lines, unconfirmedFrom |-> s.unconfirmedFrom,
             erasedThrough |-> s.erasedThrough, base |-> 0, height |-> 0,
             alt |-> s.alt, altRows |-> s.altRows]
    BY <1>3 DEF IsStore
  <2>2. /\ t.lines = s.lines /\ t.unconfirmedFrom = s.unconfirmedFrom
        /\ t.erasedThrough = s.erasedThrough /\ t.altRows = s.altRows
        /\ t.base = 0 /\ t.height = 0 /\ t.alt = s.alt
    BY <2>1
  <2>3. Held(t) = Held(s)
    BY <2>2 DEF Held
  <2>4. t = [lines |-> t.lines, unconfirmedFrom |-> t.unconfirmedFrom,
             erasedThrough |-> t.erasedThrough, base |-> t.base, height |-> t.height,
             alt |-> t.alt, altRows |-> t.altRows]
    BY <2>1, <2>2
  <2>5. IsStore(t)
    BY <2>2, <2>3, <2>4 DEF IsStore
  <2> QED
    BY <2>2, <2>3, <2>5
<1> QED
  BY <1>1, <1>2, <1>3 DEF t

\* The resumeAck keeps the invariant: it draws nothing.
LEMMA ReceiveResumeAckKeeps ==
    ASSUME Inv, ReceiveResumeAck
    PROVE  Inv'
<1>1. Take("resumeAck") /\ acked' /\ unproven' = unproven
  BY DEF ReceiveResumeAck, giveUpVars
<1>2. store' = ApplyResumeAck(store, Head(wire), asked, MaxReplayLines)
  BY DEF ReceiveResumeAck
<1>3. /\ IsStore(store) /\ Held(store) \subseteq 0..(Committed + Height - 1)
      /\ store.altRows = <<>> \/ store.altRows \in [1..Height -> Rows]
  BY DEF Inv, DataInv, StoreData
<1>4. /\ IsStore(store') /\ store'.lines = store.lines /\ Held(store') = Held(store)
      /\ store'.unconfirmedFrom = store.unconfirmedFrom
      /\ store'.erasedThrough = store.erasedThrough /\ store'.altRows = store.altRows
  BY <1>2, <1>3, AckApplied
<1>5. Committed' = Committed
  BY <1>1 DEF Take, serverVars, logVars, Committed
<1>6. StoreData'
  BY <1>3, <1>4, <1>5 DEF StoreData
<1>7. Head(wire).type = "resumeAck"
  BY <1>1 DEF Take
<1>8. ShownInv'
  BY <1>1, <1>7, TakeKeepsShown DEF DrawsAt, SparesAt
<1>9. \A i \in Held(store') :
         i <= store'.erasedThrough \/ (i < store'.unconfirmedFrom /\ i \notin unproven')
            => i < Committed /\ store'.lines[i] = history[i + 1]
  BY <1>1, <1>4 DEF Inv, ClaimInv, Right
<1> QED
  BY <1>1, <1>4, <1>6, <1>8, <1>9, TakeKeeps

\* A scroll frame before it is dropped.
LEMMA ReceiveEarlyScrollKeeps ==
    ASSUME Inv, ReceiveEarlyScroll
    PROVE  Inv'
<1>1. Take("scroll") /\ ~acked /\ UNCHANGED <<store, acked, unproven>>
  BY DEF ReceiveEarlyScroll, pageVars, giveUpVars
<1>2. Committed' = Committed
  BY <1>1 DEF Take, serverVars, logVars, Committed
<1>3. StoreData'
  BY <1>1, <1>2 DEF Inv, DataInv, StoreData
<1>4. ShownInv'
  BY <1>1, TakeKeepsShown
<1>5. \A i \in Held(store') :
         i <= store'.erasedThrough \/ (i < store'.unconfirmedFrom /\ i \notin unproven')
            => i < Committed /\ store'.lines[i] = history[i + 1]
  BY <1>1 DEF Inv, ClaimInv, Right
<1> QED
  BY <1>1, <1>3, <1>4, <1>5, TakeKeeps

\* Read for its erase, a frame drops rows and raises the floor over none it keeps.
LEMMA ReceiveEarlyScreenKeeps ==
    ASSUME Inv, ReceiveEarlyScreen
    PROVE  Inv'
<1> DEFINE m == Head(wire)
           c == Cleared(store, m)
<1>1. Take("screen") /\ ~acked /\ UNCHANGED <<acked, unproven>>
  BY DEF ReceiveEarlyScreen
<1>2. m \in Message /\ m.type = "screen" /\ store.erasedThrough < m.base
  BY <1>1, TakeFits
<1>3. /\ IsScreen(m)
      /\ m = [type |-> m.type, base |-> m.base, height |-> m.height, rows |-> m.rows,
              altActive |-> m.altActive, scrollbackCleared |-> m.scrollbackCleared]
  BY <1>2, MessageKinds
<1>4. store' = c
  <2>1. store' = IF m.scrollbackCleared THEN ApplyScreen(store, [m EXCEPT !.height = 0]) ELSE store
    BY DEF ReceiveEarlyScreen
  <2>2. ApplyScreen(store, [m EXCEPT !.height = 0]) = c
    <3> HIDE DEF m
    <3> QED
      BY <1>3, EarlyApplied
  <2>3. ~m.scrollbackCleared => c = store
    BY DEF Cleared
  <2> HIDE DEF m, c
  <2> QED
    BY <2>1, <2>2, <2>3
<1>5. /\ IsStore(store) /\ Held(store) \subseteq 0..(Committed + Height - 1)
      /\ store.altRows = <<>> \/ store.altRows \in [1..Height -> Rows]
  BY DEF Inv, DataInv, StoreData
<1>6. /\ IsStore(c) /\ c.altRows = store.altRows
      /\ \A i \in Held(c) : i \in Held(store) /\ c.lines[i] = store.lines[i]
      /\ \A i \in Held(c) : i < c.unconfirmedFrom => i < store.unconfirmedFrom
      /\ \A i \in Held(c) : i <= c.erasedThrough => i <= store.erasedThrough
      /\ c.erasedThrough < m.base
  <2> HIDE DEF m
  <2> QED
    BY <1>2, <1>3, <1>5, ClearedRows
<1> HIDE DEF m, c
<1>7. Committed' = Committed
  BY <1>1 DEF Take, serverVars, logVars, Committed
<1>8. StoreData'
  BY <1>4, <1>5, <1>6, <1>7 DEF StoreData
<1>9. ShownInv'
  BY <1>1, TakeKeepsShown
<1>10. \A i \in Held(store') :
          i <= store'.erasedThrough \/ (i < store'.unconfirmedFrom /\ i \notin unproven')
             => i < Committed /\ store'.lines[i] = history[i + 1]
  BY <1>1, <1>4, <1>6 DEF Inv, ClaimInv, Right
<1> QED
  BY <1>1, <1>4, <1>6, <1>8, <1>9, <1>10, TakeKeeps DEF m

\* What an alternate-screen frame makes of the rows there.
AltDrawn(t, s, m) ==
    /\ t.alt = TRUE /\ t.altRows \in [1..Height -> Rows] /\ t.altRows # <<>>
    /\ \A y \in DOMAIN m.rows : t.altRows[y] = m.rows[y]
    /\ s.altRows # <<>> => \A y \in (1..Height) \ DOMAIN m.rows : t.altRows[y] = s.altRows[y]

\* Taken in the alternate screen, it gives the page the rows it has there.
LEMMA AltShown ==
    ASSUME NEW s, IsStore(s), s.altRows = <<>> \/ s.altRows \in [1..Height -> Rows],
           NEW m, IsScreen(m), m.rows \in [DOMAIN m.rows -> Rows], m.altActive
    PROVE  AltDrawn(ApplyScreen(s, m), s, m)
<1> DEFINE t == ApplyScreen(s, m)
           c == Cleared(s, m)
<1>1. t.alt = TRUE /\ t.altRows = AltRows(c, m)
  <2>1. IsStore(s) /\ IsScreen(m) /\ m.altActive /\ Height \in Nat \ {0}
    BY Sizes
  <2> QED
    BY <2>1, AltApplied
<1>2. c.altRows = s.altRows
  BY ClearedIsStore
<1>3. DOMAIN m.rows \subseteq 1..Height /\ Height \in Nat \ {0} /\ Blank \in Rows
  BY Sizes DEF IsScreen
<1>4. s.altRows # <<>> => Len(s.altRows) = Height
  BY <1>3, SeqOfFunction
<1>5. s.altRows = <<>> => Len(s.altRows) = 0
  OBVIOUS
<1> HIDE DEF t, c
<1>6. ASSUME NEW y \in 1..Height
      PROVE  /\ t.altRows[y] \in Rows
             /\ y \in DOMAIN m.rows => t.altRows[y] = m.rows[y]
             /\ s.altRows # <<>> /\ y \notin DOMAIN m.rows => t.altRows[y] = s.altRows[y]
  <2>1. t.altRows[y] = IF y \in DOMAIN m.rows THEN m.rows[y]
                       ELSE IF y <= Len(c.altRows) THEN c.altRows[y] ELSE Blank
    BY <1>1 DEF AltRows
  <2>2. CASE y \in DOMAIN m.rows
    BY <2>1, <2>2
  <2>3. CASE y \notin DOMAIN m.rows /\ s.altRows = <<>>
    BY <1>2, <1>3, <1>5, <2>1, <2>3
  <2>4. CASE y \notin DOMAIN m.rows /\ s.altRows # <<>>
    <3>1. s.altRows \in [1..Height -> Rows] /\ y <= Len(c.altRows)
      BY <1>2, <1>3, <1>4, <2>4
    <3> QED
      BY <1>2, <2>1, <2>4, <3>1
  <2> QED
    BY <2>2, <2>3, <2>4
<1>7. t.altRows \in [1..Height -> Rows]
  <2>1. t.altRows = [y \in 1..Height |-> t.altRows[y]]
    BY <1>1 DEF AltRows
  <2> QED
    BY <1>6, <2>1
<1>8. t.altRows # <<>>
  BY <1>3, <1>7, SeqOfFunction
<1>9. /\ \A y \in DOMAIN m.rows : t.altRows[y] = m.rows[y]
      /\ s.altRows # <<>> => \A y \in (1..Height) \ DOMAIN m.rows : t.altRows[y] = s.altRows[y]
  BY <1>3, <1>6
<1> QED
  BY <1>1, <1>7, <1>8, <1>9 DEF t, AltDrawn

\* A screen frame draws what it was sent, above every erase and up to the floor.
LEMMA ReceiveScreenKeeps ==
    ASSUME Inv, ReceiveScreen
    PROVE  Inv'
<1> DEFINE m == Head(wire)
           c == Cleared(store, m)
           t == ApplyScreen(store, m)
<1>1. /\ Take("screen") /\ acked /\ acked' = acked /\ store' = t
      /\ unproven' = {i \in unproven : i < store'.unconfirmedFrom}
  BY DEF ReceiveScreen
<1>2. /\ m \in Message /\ m.type = "screen" /\ store.erasedThrough < m.base
      /\ m.base <= Committed
  BY <1>1, TakeFits
<1> HIDE DEF m
<1>3. /\ IsScreen(m) /\ m.rows \in [DOMAIN m.rows -> Rows] /\ m.base \in Nat
      /\ DOMAIN m.rows \subseteq 1..Height /\ m.altActive \in BOOLEAN
      /\ m.scrollbackCleared \in BOOLEAN
  BY <1>2, MessageKinds DEF IsScreen
<1>4. /\ IsStore(store) /\ Held(store) \subseteq 0..(Committed + Height - 1)
      /\ store.altRows = <<>> \/ store.altRows \in [1..Height -> Rows]
      /\ Committed \in Nat /\ Height \in Nat \ {0} /\ builder.prevAlt \in BOOLEAN
  BY LenProperties, Sizes DEF Inv, DataInv, StoreData, LogData, BuilderInv, Committed
<1>5. /\ IsStore(c) /\ c.altRows = store.altRows /\ c.base = store.base
      /\ c.height = store.height
      /\ \A i \in Held(c) : i \in Held(store) /\ c.lines[i] = store.lines[i]
      /\ \A i \in Held(store) : i >= m.base => i \in Held(c)
      /\ \A i \in Held(c) : i < c.unconfirmedFrom => i < store.unconfirmedFrom
      /\ \A i \in Held(c) : i <= c.erasedThrough => i <= store.erasedThrough
      /\ c.erasedThrough < m.base
  BY <1>2, <1>3, <1>4, ClearedRows
<1>6. \A i \in Held(store) : i <= store.erasedThrough
                             \/ (i < store.unconfirmedFrom /\ i \notin unproven)
                                => i < Committed /\ store.lines[i] = history[i + 1]
  BY DEF Inv, ClaimInv, Right
<1>7. Committed' = Committed
  BY <1>1 DEF Take, serverVars, logVars, Committed
<1>8. builder.base \in Int => \A y \in 1..Height : Place(y) - builder.base + 1 = y
  BY DEF Place
<1> HIDE DEF c, t
<1>9. CASE m.altActive
  <2>1. /\ IsStore(t) /\ t.lines = c.lines /\ Held(t) = Held(c)
        /\ t.unconfirmedFrom = c.unconfirmedFrom /\ t.erasedThrough = c.erasedThrough
        /\ t.altRows \in [1..Height -> Rows] /\ t.altRows # <<>> /\ t.alt = TRUE
        /\ \A y \in DOMAIN m.rows : t.altRows[y] = m.rows[y]
        /\ store.altRows # <<>> =>
              \A y \in (1..Height) \ DOMAIN m.rows : t.altRows[y] = store.altRows[y]
    <3>1. /\ IsStore(store) /\ IsScreen(m) /\ m.altActive /\ Height \in Nat \ {0}
          /\ store.altRows = <<>> \/ store.altRows \in [1..Height -> Rows]
          /\ m.rows \in [DOMAIN m.rows -> Rows]
      BY <1>3, <1>4, <1>9
    <3>2. IsStore(store) /\ IsScreen(m) /\ m.altActive /\ Height \in Nat \ {0}
      BY <3>1
    <3>3. SameLines(t, c)
      BY <3>2, AltApplied DEF t, c
    <3>4. AltDrawn(t, store, m)
      BY <3>1, AltShown DEF t
    <3> QED
      BY <3>3, <3>4 DEF AltDrawn, SameLines
  <2>2. StoreData'
    BY <1>1, <1>4, <1>5, <1>7, <2>1 DEF StoreData
  <2>3. ASSUME NEW y \in 1..Height, builder.base = Committed,
               \/ DrawsAt(m, Place(y), builder.base, builder.prevAlt, builder.rows[y])
               \/ /\ ShowsAt(store, Place(y), builder.base, builder.prevAlt, builder.rows[y])
                  /\ SparesAt(m, Place(y), builder.base, builder.prevAlt)
        PROVE  ShowsAt(t, Place(y), builder.base, builder.prevAlt, builder.rows[y])
    <3>1. builder.prevAlt = TRUE /\ m.base = builder.base
      BY <1>2, <1>4, <1>9, <2>3 DEF DrawsAt, SparesAt
    <3>2. Place(y) - builder.base + 1 = y /\ Place(y) - m.base + 1 = y
      BY <1>4, <1>8, <2>3, <3>1
    <3>3. t.altRows[y] = builder.rows[y]
      BY <1>2, <2>1, <2>3, <3>1, <3>2 DEF DrawsAt, SparesAt, ShowsAt
    <3> QED
      BY <2>1, <3>1, <3>2, <3>3 DEF ShowsAt
  <2>4. ShownInv'
    BY <1>1, <2>3, TakeKeepsShown DEF m
  <2>5. \A i \in Held(store') :
           i <= store'.erasedThrough \/ (i < store'.unconfirmedFrom /\ i \notin unproven')
              => i < Committed /\ store'.lines[i] = history[i + 1]
    BY <1>1, <1>5, <1>6, <2>1
  <2>6. store'.erasedThrough < m.base
    BY <1>1, <1>5, <2>1
  <2> QED
    BY <1>1, <2>2, <2>4, <2>5, <2>6, TakeKeeps DEF m
<1>10. CASE ~m.altActive
  <2>1. /\ IsStore(t) /\ t.base = m.base /\ t.height = Height /\ t.alt = FALSE
        /\ t.altRows = <<>> /\ t.erasedThrough = c.erasedThrough
        /\ t.unconfirmedFrom = IF c.unconfirmedFrom <= m.base THEN c.unconfirmedFrom ELSE m.base
        /\ \A i \in Held(t) : i \in Nat /\ i < m.base + Height
        /\ \A i \in Held(t) : i - m.base + 1 \in DOMAIN m.rows =>
                                 i >= m.base /\ t.lines[i] = m.rows[i - m.base + 1]
        /\ \A i \in Held(t) : i - m.base + 1 \notin DOMAIN m.rows =>
                                 i \in Held(c) /\ t.lines[i] = c.lines[i]
        /\ \A i \in Nat : i - m.base + 1 \in DOMAIN m.rows => i \in Held(t)
        /\ \A i \in Held(c) : i < m.base + Height => i \in Held(t)
    <3>1. IsStore(store) /\ IsScreen(m) /\ ~m.altActive
      BY <1>3, <1>4, <1>10
    <3>2. /\ IsStore(t) /\ t.base = m.base /\ t.height = Height /\ t.alt = FALSE
          /\ t.altRows = <<>> /\ t.erasedThrough = c.erasedThrough
          /\ t.unconfirmedFrom = IF c.unconfirmedFrom <= m.base THEN c.unconfirmedFrom
                                 ELSE m.base
      BY <3>1, MainRows DEF t, c
    <3>3. MainDrawn(t, c, m)
      BY <3>1, MainRows DEF t, c
    <3> QED
      BY <3>2, <3>3 DEF MainDrawn
  <2>2. Held(t) \subseteq 0..(Committed + Height - 1)
    BY <1>2, <1>3, <1>4, <2>1
  <2>3. StoreData'
    BY <1>1, <1>7, <2>1, <2>2 DEF StoreData
  <2>4. ASSUME NEW y \in 1..Height, builder.base = Committed,
               \/ DrawsAt(m, Place(y), builder.base, builder.prevAlt, builder.rows[y])
               \/ /\ ShowsAt(store, Place(y), builder.base, builder.prevAlt, builder.rows[y])
                  /\ SparesAt(m, Place(y), builder.base, builder.prevAlt)
        PROVE  ShowsAt(t, Place(y), builder.base, builder.prevAlt, builder.rows[y])
    <3> DEFINE i == Place(y)
    <3>1. i \in Nat
      BY <1>4, <2>4 DEF Place
    <3>2. builder.prevAlt = FALSE
      BY <1>2, <1>4, <1>10, <2>4 DEF DrawsAt, SparesAt
    <3> HIDE DEF i
    <3>3. i - m.base + 1 \in 1..Height
      BY <1>2, <1>3, <2>4 DEF DrawsAt, SparesAt, i
    <3>4. InWindow(t, i) /\ i >= m.base /\ i < m.base + Height
      <4>1. i >= m.base /\ i <= m.base + Height - 1 /\ Height > 0
        BY <1>3, <1>4, <3>1, <3>3
      <4> QED
        BY <1>3, <1>4, <2>1, <3>1, <4>1 DEF InWindow
    <3>5. i \in Held(t) /\ t.lines[i] = builder.rows[y]
      <4>1. CASE DrawsAt(m, i, builder.base, builder.prevAlt, builder.rows[y])
        BY <2>1, <3>1, <4>1 DEF DrawsAt
      <4>2. CASE /\ ShowsAt(store, i, builder.base, builder.prevAlt, builder.rows[y])
                 /\ SparesAt(m, i, builder.base, builder.prevAlt)
        <5>1. i \in Held(store) /\ store.lines[i] = builder.rows[y]
          BY <3>2, <4>2 DEF ShowsAt
        <5>2. i - m.base + 1 \notin DOMAIN m.rows
          BY <1>2, <4>2 DEF SparesAt
        <5> QED
          BY <1>5, <2>1, <3>4, <5>1, <5>2
      <4> QED
        BY <2>4, <4>1, <4>2 DEF i
    <3> QED
      BY <2>1, <3>2, <3>4, <3>5 DEF ShowsAt, i
  <2>5. ShownInv'
    BY <1>1, <2>4, TakeKeepsShown DEF m
  <2>6. ASSUME NEW i \in Held(t),
               i <= t.erasedThrough \/ (i < t.unconfirmedFrom /\ i \notin unproven')
        PROVE  i < Committed /\ t.lines[i] = history[i + 1]
    <3>1. i \in Nat /\ c.erasedThrough \in Int /\ c.unconfirmedFrom \in Int
      BY <1>5, <2>1 DEF IsStore
    <3>2. i < m.base /\ (i <= t.erasedThrough \/ (i < c.unconfirmedFrom /\ i \notin unproven))
      <4>1. CASE i <= t.erasedThrough
        BY <1>3, <1>5, <2>1, <3>1, <4>1
      <4>2. CASE i < t.unconfirmedFrom /\ i \notin unproven'
        <5>1. i \notin unproven
          BY <1>1, <4>2
        <5>2. i < m.base /\ i < c.unconfirmedFrom
          BY <1>3, <2>1, <3>1, <4>2
        <5> QED
          BY <5>1, <5>2
      <4> QED
        BY <2>6, <4>1, <4>2
    <3>3. i \in Held(c) /\ t.lines[i] = c.lines[i]
      BY <1>3, <2>1, <3>1, <3>2
    <3> QED
      BY <1>5, <1>6, <2>1, <3>2, <3>3
  <2>7. store'.erasedThrough < m.base
    BY <1>1, <1>5, <2>1
  <2> QED
    BY <1>1, <2>3, <2>5, <2>6, <2>7, TakeKeeps DEF m
<1> QED
  BY <1>3, <1>9, <1>10

\* The rows a scroll frame brings are the server's, and those of the screen stay.
LEMMA ReceiveScrollKeeps ==
    ASSUME Inv, ReceiveScroll
    PROVE  Inv'
<1> DEFINE m == Head(wire)
           B == Brought(store, m)
           T == Taken(store, B)
           t == ApplyScroll(store, m)
           healed == Healed(store, m)
           passed == Passed(store')
<1>1. /\ Take("scroll") /\ acked' = acked /\ store' = t
      /\ unproven' = (unproven \cup healed \cup passed) \ B
  BY DEF ReceiveScroll
<1>2. /\ m \in Message /\ m.type = "scroll"
      /\ \A j \in 1..Len(m.lines) :
            m.firstIndex + j <= Committed /\ m.lines[j] = history[m.firstIndex + j]
  BY <1>1, TakeFits
<1> HIDE DEF m
<1>3. IsScroll(m) /\ m.firstIndex \in Nat
  BY <1>2, MessageKinds DEF IsScroll
<1>4. /\ IsStore(store) /\ Held(store) \subseteq 0..(Committed + Height - 1)
      /\ store.altRows = <<>> \/ store.altRows \in [1..Height -> Rows]
      /\ Committed \in Nat /\ Height \in Nat \ {0} /\ builder.prevAlt \in BOOLEAN
      /\ store.erasedThrough \in Int
  BY LenProperties, Sizes DEF Inv, DataInv, StoreData, LogData, BuilderInv, Committed, IsStore
<1>5. /\ IsStore(t) /\ Held(t) = Held(store) \cup T
      /\ \A i \in Held(t) : t.lines[i] = IF i \in T THEN m.lines[i - m.firstIndex + 1]
                                         ELSE store.lines[i]
      /\ t.erasedThrough = store.erasedThrough /\ t.base = store.base
      /\ t.height = store.height /\ t.alt = store.alt /\ t.altRows = store.altRows
      /\ B \in SUBSET Nat /\ \A i \in B : i - m.firstIndex + 1 \in 1..Len(m.lines)
      /\ \A i \in Held(t) : i < t.unconfirmedFrom =>
            i < store.unconfirmedFrom \/ i \in B \/ i \in healed
  <2>1. IsStore(store) /\ IsScroll(m) /\ Infinity \in Int
    BY <1>3, <1>4, Sizes
  <2> QED
    BY <2>1, ScrollApplied DEF t, B, T, healed
<1>6. T \subseteq B /\ \A i \in B : i \in T \/ i <= store.erasedThrough
  BY <1>4, <1>5 DEF T, Taken
<1> HIDE DEF B, T, t, healed, passed
<1>7. ASSUME NEW i \in B
      PROVE  i < Committed /\ m.lines[i - m.firstIndex + 1] = history[i + 1]
  <2> DEFINE j == i - m.firstIndex + 1
  <2>1. i \in Nat /\ j \in 1..Len(m.lines) /\ m.firstIndex + j = i + 1
    BY <1>3, <1>5
  <2> HIDE DEF j
  <2>2. i + 1 <= Committed /\ m.lines[j] = history[i + 1]
    BY <1>2, <2>1
  <2> QED
    BY <1>4, <2>1, <2>2 DEF j
<1>8. \A i \in Held(store) :
         i <= store.erasedThrough \/ (i < store.unconfirmedFrom /\ i \notin unproven)
            => i < Committed /\ store.lines[i] = history[i + 1]
  BY DEF Inv, ClaimInv, Right
<1>9. Committed' = Committed
  BY <1>1 DEF Take, serverVars, logVars, Committed
<1>10. StoreData'
  <2>1. \A i \in T : i \in 0..(Committed + Height - 1)
    BY <1>4, <1>5, <1>6, <1>7
  <2>2. Held(t) \subseteq 0..(Committed + Height - 1)
    BY <1>4, <1>5, <2>1
  <2> QED
    BY <1>1, <1>4, <1>5, <1>9, <2>2 DEF StoreData
<1>11. ASSUME NEW i \in Held(t),
              i <= t.erasedThrough \/ (i < t.unconfirmedFrom /\ i \notin unproven')
       PROVE  i < Committed /\ t.lines[i] = history[i + 1]
  <2>1. CASE i \in T
    BY <1>5, <1>6, <1>7, <2>1
  <2>2. CASE i \notin T
    <3>1. i \in Held(store) /\ t.lines[i] = store.lines[i]
      BY <1>5, <2>2
    <3>2. i <= store.erasedThrough \/ (i < store.unconfirmedFrom /\ i \notin unproven)
      BY <1>1, <1>5, <1>6, <1>11, <2>2
    <3> QED
      BY <1>8, <3>1, <3>2
  <2> QED
    BY <2>1, <2>2
<1>12. ASSUME NEW y \in 1..Height, builder.base = Committed,
              \/ DrawsAt(m, Place(y), builder.base, builder.prevAlt, builder.rows[y])
              \/ ShowsAt(store, Place(y), builder.base, builder.prevAlt, builder.rows[y])
       PROVE  ShowsAt(t, Place(y), builder.base, builder.prevAlt, builder.rows[y])
  <2> DEFINE i == Place(y)
  <2>1. i \in Nat /\ i >= Committed
    BY <1>4, <1>12 DEF Place
  <2>2. i \notin T
    BY <1>4, <1>6, <1>7, <2>1
  <2>3. ShowsAt(store, i, builder.base, builder.prevAlt, builder.rows[y])
    BY <1>2, <1>12 DEF DrawsAt
  <2> HIDE DEF i
  <2>4. CASE builder.prevAlt
    BY <1>5, <2>3, <2>4 DEF ShowsAt, i
  <2>5. CASE ~builder.prevAlt
    <3>1. /\ store.alt = builder.prevAlt /\ store.height = Height /\ InWindow(store, i)
          /\ i \in Held(store) /\ store.lines[i] = builder.rows[y]
      BY <2>3, <2>5 DEF ShowsAt
    <3>2. InWindow(t, i)
      BY <1>5, <3>1 DEF InWindow
    <3>3. i \in Held(t) /\ t.lines[i] = builder.rows[y]
      BY <1>5, <2>2, <3>1
    <3> QED
      BY <1>5, <2>5, <3>1, <3>2, <3>3 DEF ShowsAt, i
  <2> QED
    BY <2>4, <2>5
<1>13. ShownInv'
  BY <1>1, <1>12, TakeKeepsShown DEF m
<1> QED
  BY <1>1, <1>5, <1>10, <1>11, <1>13, TakeKeeps

-----------------------------------------------------------------------------
(* The invariant holds, and says that the page is right.                     *)

\* The invariant holds initially.
LEMMA InitHolds ==
    ASSUME Init
    PROVE  Inv
<1>1. /\ screen = BlankScreen /\ saved = BlankScreen /\ inAltScreen = FALSE /\ drained = <<>>
      /\ capacity \in Capacities /\ history = <<>> /\ oldest = 0
      /\ scrollbackClearedPending = FALSE /\ builder = FreshBuilder /\ frame = NoFrame
      /\ conn = "closed" /\ asked = -1 /\ batch = <<>> /\ wire = <<>> /\ store = EmptyStore
      /\ acked = FALSE /\ outputs = 0
  BY DEF Init
<1>2. /\ <<>> \in Seq(Rows) /\ <<>> \in Seq(Message) /\ Len(history) = 0 /\ Committed = 0
      /\ Len(drained) = 0 /\ Len(wire) = 0
  BY <1>1 DEF Committed
<1>3. ScreenData
  BY <1>1, <1>2, Sizes DEF ScreenData, BlankScreen
<1>4. LogData
  BY <1>1, <1>2, Sizes DEF LogData
<1>5. ConnData
  BY <1>1, <1>2, Sizes DEF ConnData
<1>6. FrameInv
  BY <1>1 DEF FrameInv
<1>7. BuilderInv
  BY <1>1 DEF BuilderInv, FreshBuilder
<1>8. Pending = <<>> /\ Len(Pending) = 0
  BY <1>1 DEF Pending, Due
<1>9. /\ IsStore(store) /\ Held(store) = {} /\ store.altRows = <<>>
      /\ store.erasedThrough = -1
  BY <1>1, EmptyIsStore, Sizes DEF EmptyStore
<1>10. StoreData
  BY <1>9 DEF StoreData
<1>11. ClaimInv
  BY <1>2, <1>8, <1>9 DEF ClaimInv, Carried, Ordered
<1>12. ShownInv
  BY <1>1 DEF ShownInv, Resumed
<1> QED
  BY <1>3, <1>4, <1>5, <1>6, <1>7, <1>10, <1>11, <1>12 DEF Inv, DataInv

\* Every step keeps it.
LEMMA NextKeeps ==
    ASSUME Inv, [Next]_vars
    PROVE  Inv'
<1>1. CASE PrintLine
  BY <1>1, PrintLineKeeps
<1>2. CASE \E y \in 1..Height : Redraw(y)
  BY <1>2, RedrawKeeps
<1>3. CASE EnterAltScreen \/ ExitAltScreen \/ EraseSavedLines
  BY <1>3, SwitchKeeps
<1>4. CASE RetainSuspendedScrollback
  BY <1>4, RetainKeeps
<1>5. CASE BuildFrame
  BY <1>5, BuildKeepsData, BuildKeepsClaims, BuildKeepsShown DEF Inv
<1>6. CASE DispatchFrame
  BY <1>6, DispatchKeeps
<1>7. CASE Connect
  BY <1>7, ConnectKeeps
<1>8. CASE Cut
  BY <1>8, CutKeeps
<1>9. CASE HandleResume
  BY <1>9, HandleResumeKeeps
<1>10. CASE WriteBatch
  BY <1>10, WriteBatchKeeps
<1>11. CASE ViewerJoins \/ ViewerLeaves
  BY <1>11, ViewerKeeps
<1>12. CASE ViewerResumes
  BY <1>12, ViewerResumesKeeps
<1>13. CASE ReceiveResumeAck
  BY <1>13, ReceiveResumeAckKeeps
<1>14. CASE ReceiveEarlyScreen
  BY <1>14, ReceiveEarlyScreenKeeps
<1>15. CASE ReceiveEarlyScroll
  BY <1>15, ReceiveEarlyScrollKeeps
<1>16. CASE ReceiveScreen
  BY <1>16, ReceiveScreenKeeps
<1>17. CASE ReceiveScroll
  BY <1>17, ReceiveScrollKeeps
<1>18. CASE UNCHANGED vars
  <2>1. /\ UNCHANGED <<screen, saved, inAltScreen, drained, capacity, history, oldest,
                       scrollbackClearedPending, builder, frame, conn, asked, batch, wire,
                       store, acked, unproven, outputs>>
    BY <1>18 DEF vars, serverVars, screenVars, logVars, connVars, pageVars, giveUpVars
  <2>2. Committed' = Committed /\ Resumed' = Resumed /\ Due' = Due /\ Pending' = Pending
    BY <2>1 DEF Committed, Resumed, Due, Pending, Chunks
  <2>3. DataInv'
    BY <2>1, <2>2 DEF Inv, DataInv, ScreenData, LogData, ConnData, FrameInv, BuilderInv, StoreData
  <2>4. ClaimInv'
    BY <2>1, <2>2 DEF Inv, ClaimInv, Right
  <2>5. ShownInv'
    BY <2>1, <2>2, ShownStands DEF Inv
  <2> QED
    BY <2>3, <2>4, <2>5 DEF Inv
<1> QED
  BY <1>1, <1>2, <1>3, <1>4, <1>5, <1>6, <1>7, <1>8, <1>9, <1>10, <1>11, <1>12, <1>13, <1>14,
     <1>15, <1>16, <1>17, <1>18 DEF Next

\* Types: the rows held are bounded by the outputs.
LEMMA InvIsTyped ==
    ASSUME Inv
    PROVE  TypeOK
<1>1. Held(store) \subseteq 0..(MaxOutput + Height)
  <2>1. /\ Held(store) \subseteq 0..(Committed + Height - 1) /\ Committed \in Nat
        /\ Committed + Len(drained) <= outputs /\ outputs \in 0..MaxOutput /\ Len(drained) \in Nat
    BY LenProperties DEF Inv, DataInv, StoreData, LogData, ScreenData, Committed
  <2> QED
    BY <2>1, Sizes
<1>2. ReplayBoundary(store) <= Highest(store)
  BY Boundary DEF Inv, DataInv, StoreData
<1> QED
  BY <1>1, <1>2 DEF TypeOK, Inv, DataInv, ScreenData, LogData, ConnData

\* A row not above the replay boundary is below the floor.
LEMMA InvIsCommitted ==
    ASSUME Inv
    PROVE  ClaimedIsCommitted
<1>1. IsStore(store)
  BY DEF Inv, DataInv, StoreData
<1>2. /\ ReplayBoundary(store) \in Int /\ ReplayBoundary(store) < store.unconfirmedFrom
      /\ store.unconfirmedFrom \in Int /\ \A i \in Held(store) : i \in Int
  BY <1>1, Boundary DEF IsStore
<1>3. ASSUME NEW i \in Held(store) \ unproven, i <= ReplayBoundary(store)
      PROVE  i < Committed /\ store.lines[i] = history[i + 1]
  <2>1. i < store.unconfirmedFrom
    BY <1>2, <1>3
  <2> QED
    BY <1>3, <2>1 DEF Inv, ClaimInv, Right
<1> QED
  BY <1>3 DEF ClaimedIsCommitted

\* With nothing under way each row of the builder's screen, which is the terminal's,
\* is shown.
LEMMA InvIsShown ==
    ASSUME Inv
    PROVE  ScreenShown
<1> SUFFICES ASSUME Settled
             PROVE  IF inAltScreen
                    THEN store.alt /\ store.altRows = screen
                    ELSE /\ ~store.alt /\ store.base = Committed /\ store.height = Height
                         /\ \A y \in 1..Height : /\ Committed + y - 1 \in Held(store)
                                                 /\ store.lines[Committed + y - 1] = screen[y]
  BY DEF ScreenShown
<1>1. /\ conn = "live" /\ acked /\ wire = <<>> /\ frame = NoFrame
      /\ builder = [rows |-> screen, base |-> Committed, prevAlt |-> inAltScreen,
                    prevAltValid |-> TRUE]
  BY DEF Settled
<1>2. /\ builder.rows = screen /\ builder.base = Committed /\ builder.prevAlt = inAltScreen
  BY <1>1
<1>3. batch = <<>>
  BY <1>1 DEF Inv, DataInv, ConnData
<1>4. Pending = <<>> /\ Len(Pending) = 0
  BY <1>1, <1>3 DEF Pending, Due
<1>5. /\ screen \in [1..Height -> Rows] /\ Height \in Nat \ {0} /\ Committed \in Nat
      /\ store.altRows = <<>> \/ store.altRows \in [1..Height -> Rows]
      /\ IsStore(store)
  BY LenProperties, Sizes DEF Inv, DataInv, ScreenData, LogData, StoreData, Committed
<1>6. screen # <<>>
  BY <1>5, SeqOfFunction
<1>7. ASSUME NEW y \in 1..Height
      PROVE  ShowsAt(store, Committed + y - 1, Committed, inAltScreen, screen[y])
  <2>1. RowInv(y)
    BY <1>1, <1>2, <1>6 DEF Inv, ShownInv, Resumed
  <2>2. ~UnderWay(Pending, Place(y), builder.base, builder.prevAlt, builder.rows[y])
    BY <1>4 DEF UnderWay
  <2> QED
    BY <1>2, <2>1, <2>2 DEF RowInv, Place
<1>8. CASE inAltScreen
  <2>1. ASSUME NEW y \in 1..Height
        PROVE  store.alt = inAltScreen /\ store.altRows # <<>> /\ store.altRows[y] = screen[y]
    <3>1. (Committed + y - 1) - Committed + 1 = y
      BY <1>5
    <3>2. /\ store.alt = inAltScreen /\ store.altRows # <<>>
          /\ store.altRows[(Committed + y - 1) - Committed + 1] = screen[y]
      BY <1>7, <1>8 DEF ShowsAt
    <3> QED
      BY <3>1, <3>2
  <2>2. store.alt = inAltScreen /\ store.altRows \in [1..Height -> Rows]
    BY <1>5, <2>1
  <2>3. store.altRows = screen
    BY <1>5, <2>1, <2>2
  <2> QED
    BY <1>8, <2>2, <2>3
<1>9. CASE ~inAltScreen
  <2>1. \A y \in 1..Height : /\ store.alt = inAltScreen /\ store.height = Height
                             /\ InWindow(store, Committed + y - 1)
                             /\ Committed + y - 1 \in Held(store)
                             /\ store.lines[Committed + y - 1] = screen[y]
    BY <1>7, <1>9 DEF ShowsAt
  <2>2. store.base = Committed
    <3>1. /\ InWindow(store, Committed + 1 - 1) /\ InWindow(store, Committed + Height - 1)
          /\ store.height = Height /\ store.base \in Nat
      BY <1>5, <2>1 DEF IsStore
    <3> QED
      BY <1>5, <3>1 DEF InWindow
  <2>3. ~store.alt /\ store.height = Height
    BY <1>5, <1>9, <2>1
  <2> QED
    BY <1>9, <2>1, <2>2, <2>3
<1> QED
  BY <1>8, <1>9

\* However output, passes, sockets and the frames under way interleave, a page that
\* has everything sent and delivered shows the terminal's screen, and the rows it
\* tells the server it has are the committed ones, but for what a heal passed over.
THEOREM ScreenIsRight == Spec => []ScreenInv
<1>1. Init => Inv
  BY InitHolds
<1>2. Inv /\ [Next]_vars => Inv'
  BY NextKeeps
<1>3. Inv => ScreenInv
  BY InvIsTyped, InvIsCommitted, InvIsShown DEF ScreenInv
<1> QED
  BY <1>1, <1>2, <1>3, PTL DEF Spec

-----------------------------------------------------------------------------
(* The invariant of what the page holds: every line the server retains is     *)
(* held, or on its way, or given up.                                         *)

\* Frame k of those under way finds its page resumed: it was, which `a' says, or
\* the resumeAck comes first.  It draws one of the screens, or brings line i.
Applies(P, a, k) == a \/ \E j \in 1..(k - 1) : P[j].type = "resumeAck"
DrawsAlt(P, a, k) == Applies(P, a, k) /\ P[k].type = "screen" /\ P[k].altActive = TRUE
DrawsMain(P, a, k) == Applies(P, a, k) /\ P[k].type = "screen" /\ P[k].altActive = FALSE
Brings(m, i) == m.type = "scroll" /\ i - m.firstIndex + 1 \in 1..Len(m.lines)

\* No alternate screen keeps the page from frame k's lines; `z' says that it has
\* been drawn one on this socket.
OnMain(P, a, z, k) ==
    /\ \A j \in 1..(k - 1) :
          DrawsAlt(P, a, j) => \E l \in (j + 1)..(k - 1) : DrawsMain(P, a, l)
    /\ z => \E l \in 1..(k - 1) : DrawsMain(P, a, l)
\* No window after frame k is drawn over line i.
Spared(P, a, i, k) == \A j \in (k + 1)..Len(P) : DrawsMain(P, a, j) => i < P[j].base
\* No frame before frame k brings a line from i on.
FirstFor(P, a, i, k) ==
    \A j \in 1..(k - 1), x \in Nat : Applies(P, a, j) /\ Brings(P[j], x) => x < i

BringsAt(P, a, z, i, k) ==
    /\ Applies(P, a, k) /\ Brings(P[k], i)
    /\ OnMain(P, a, z, k) /\ Spared(P, a, i, k) /\ FirstFor(P, a, i, k)
WillBring(P, a, z, i) == \E k \in 1..Len(P) : BringsAt(P, a, z, i, k)

AltSeen == store.alt /\ windowSeen
Kept(i) == i \in unproven \/ (i \in Held(store) /\ Right(i))
Covered(i) ==
    \/ i \in forgone \/ i \in missed
    \/ WillBring(Pending, acked, AltSeen, i)
    \/ Kept(i) /\ Spared(Pending, acked, i, 0)

\* Until a window is drawn, no line comes from those in M on.
ComesLast(P, a, M) ==
    \A k \in 1..Len(P), x \in Nat :
        /\ Applies(P, a, k) /\ Brings(P[k], x)
        /\ \A j \in 1..(k - 1) : ~DrawsMain(P, a, j)
        => \A i \in M : x < i
MissedLast == ~acked \/ store.height = 0 => ComesLast(Pending, acked, missed)
ReplayInv == Resumed => (\A i \in Retained : Covered(i)) /\ MissedLast

\* The floor lies above every erase and every row that is not proven.
FloorInv ==
    /\ store.erasedThrough < store.unconfirmedFrom
    /\ \/ store.unconfirmedFrom <= Committed
       \/ store.height = 0 /\ Held(store) \subseteq 0..(Committed - 1)
    /\ \A i \in unproven : i \in Nat /\ i < store.unconfirmedFrom
    /\ \A i \in Nat : i <= store.erasedThrough => i \in forgone

\* What lies below it is held or given up.
BelowFloor(i) ==
    i < store.unconfirmedFrom /\ (i <= Highest(store) \/ store.height > 0)
        => i \in Held(store) \cup forgone \cup awaited \cup unproven
BelowInv == \A i \in Retained : BelowFloor(i)

\* What a socket has seen before it is answered, and that it is answered once.
SocketInv ==
    /\ missed \subseteq Nat
    /\ conn = "closed" => awaited = {}
    /\ conn = "open" => /\ ~windowSeen /\ missed = {} /\ asked < Committed
                        /\ \A i \in Retained : i <= asked => i \in forgone \/ Kept(i)
AckInv ==
    /\ acked => Resumed
    /\ \A k \in 1..Len(Pending) : Pending[k].type = "resumeAck" =>
          Resumed /\ ~acked /\ \A j \in 1..(k - 1) : Pending[j].type # "resumeAck"

HistoryInv == FloorInv /\ BelowInv /\ SocketInv /\ AckInv /\ ReplayInv


-----------------------------------------------------------------------------
(* Lines put into chunks, all of them, in order.                             *)

\* Division by a chunk: how many chunks lie wholly before a line.
LEMMA Division ==
    ASSUME NEW n \in Nat, NEW d \in Nat, d > 0
    PROVE  /\ n \div d \in Nat /\ (n \div d) * d <= n /\ n < (n \div d) * d + d
<1>1. n = d * (n \div d) + (n % d) /\ n % d \in 0..(d - 1) /\ n \div d \in Int
  BY SMTT(30)
<1>2. n \div d \in Nat
  BY <1>1, SMTT(30)
<1>3. d * (n \div d) = (n \div d) * d
  BY <1>1, SMTT(30)
<1>4. (n \div d) * d \in Int
  BY <1>2
<1> QED
  BY <1>1, <1>2, <1>3, <1>4

\* Chunk k begins after k - 1 whole chunks.
LEMMA ChunksAre ==
    ASSUME NEW first \in Nat, NEW lines \in Seq(Rows)
    PROVE  LET C == Chunks(first, lines)
           IN  /\ Len(C) = (Len(lines) + MaxChunk - 1) \div MaxChunk
               /\ \A k \in 1..Len(C) :
                    /\ (k - 1) * MaxChunk \in Nat
                    /\ C[k].firstIndex = first + (k - 1) * MaxChunk
                    /\ Len(C[k].lines) = IF (k - 1) * MaxChunk + MaxChunk <= Len(lines) THEN MaxChunk
                                         ELSE IF (k - 1) * MaxChunk < Len(lines)
                                         THEN Len(lines) - (k - 1) * MaxChunk ELSE 0
<1> DEFINE n == (Len(lines) + MaxChunk - 1) \div MaxChunk
           C == Chunks(first, lines)
           skip(k) == (k - 1) * MaxChunk
           last(k) == LowerOf(skip(k) + MaxChunk, Len(lines))
           part(k) == SubSeq(lines, skip(k) + 1, last(k))
<1>1. Len(lines) \in Nat /\ MaxChunk \in Nat /\ MaxChunk > 0
  BY LenProperties, SizeAssumption
<1>2. n \in Nat
  <2>1. Len(lines) + MaxChunk - 1 \in Nat
    BY <1>1
  <2> QED
    BY <1>1, <2>1, Division
<1>3. C = [k \in 1..n |-> Scroll(first + skip(k), part(k))]
  BY DEF Chunks
<1>4. Len(C) = n
  <2>1. C \in Seq(Message)
    BY LinesChunked
  <2>2. DOMAIN C = 1..n
    BY <1>3
  <2> QED
    BY <1>2, <2>1, <2>2, LenProperties
<1> HIDE DEF n
<1>5. ASSUME NEW k \in 1..n
      PROVE  /\ skip(k) \in Nat /\ C[k].firstIndex = first + skip(k)
             /\ Len(C[k].lines) = IF skip(k) + MaxChunk <= Len(lines) THEN MaxChunk
                                  ELSE IF skip(k) < Len(lines) THEN Len(lines) - skip(k) ELSE 0
  <2>1. skip(k) \in Nat
    <3>1. k - 1 \in Nat
      BY <1>2
    <3> QED
      BY <1>1, <3>1
  <2>2. C[k] = Scroll(first + skip(k), part(k))
    BY <1>3
  <2> HIDE DEF skip, part, C
  <2>3. C[k].firstIndex = first + skip(k) /\ C[k].lines = part(k)
    BY <2>2 DEF Scroll
  <2>4. last(k) \in Int /\ last(k) = IF skip(k) + MaxChunk <= Len(lines) THEN skip(k) + MaxChunk ELSE Len(lines)
    BY <1>1, <2>1, LowerAndHigher
  <2> HIDE DEF last
  <2>5. \A i \in (skip(k) + 1)..last(k) : lines[i] \in Rows
    <3>1. \A i \in (skip(k) + 1)..last(k) : i \in 1..Len(lines)
      BY <1>1, <2>1, <2>4
    <3> QED
      BY <3>1, LenProperties
  <2>6. Len(part(k)) = IF skip(k) + 1 <= last(k) THEN last(k) - (skip(k) + 1) + 1 ELSE 0
    <3>1. skip(k) + 1 \in Int
      BY <2>1
    <3> QED
      BY <2>4, <2>5, <3>1, SubSeqProperties DEF part
  <2> QED
    BY <1>1, <2>1, <2>3, <2>4, <2>6
<1> QED
  BY <1>4, <1>5 DEF n

\* So every line is in one, and those before it bring only lines before it.
LEMMA ChunksCover ==
    ASSUME NEW first \in Nat, NEW lines \in Seq(Rows),
           NEW i \in first..(first + Len(lines) - 1)
    PROVE  LET C == Chunks(first, lines)
           IN  \E k \in 1..Len(C) :
                  Brings(C[k], i) /\ \A j \in 1..(k - 1), x \in Nat : Brings(C[j], x) => x < i
<1> DEFINE C == Chunks(first, lines)
           d == MaxChunk
           q == (i - first) \div d
           k == q + 1
<1>1. /\ Len(lines) \in Nat /\ d \in Nat /\ d > 0 /\ i - first \in Nat /\ i - first < Len(lines)
      /\ i \in Nat
  BY LenProperties, SizeAssumption
<1>2. q \in Nat /\ q * d <= i - first /\ i - first < q * d + d /\ q * d \in Nat
  <2>1. q \in Nat /\ q * d <= i - first /\ i - first < q * d + d
    BY <1>1, Division
  <2> QED
    BY <1>1, <2>1
<1> HIDE DEF q
<1>3. /\ Len(C) = (Len(lines) + d - 1) \div d /\ C \in Seq(Message)
      /\ \A j \in 1..Len(C) :
            /\ (j - 1) * d \in Nat /\ C[j].type = "scroll"
            /\ C[j].firstIndex = first + (j - 1) * d
            /\ Len(C[j].lines) = IF (j - 1) * d + d <= Len(lines) THEN d
                                 ELSE IF (j - 1) * d < Len(lines)
                                 THEN Len(lines) - (j - 1) * d ELSE 0
  BY ChunksAre, LinesChunked
<1>4. k \in 1..Len(C)
  <2> DEFINE n == (Len(lines) + d - 1) \div d
  <2>1. n \in Nat /\ Len(lines) + d - 1 < n * d + d
    <3>1. Len(lines) + d - 1 \in Nat
      BY <1>1
    <3> QED
      BY <1>1, <3>1, Division
  <2> HIDE DEF n
  <2>2. q < n
    <3> SUFFICES ASSUME n <= q PROVE FALSE
      BY <1>2, <2>1
    <3>1. n * d <= q * d
      BY <1>1, <1>2, <2>1, SMTT(30)
    <3>2. n * d \in Nat
      BY <1>1, <2>1
    <3> QED
      BY <1>1, <1>2, <2>1, <3>1, <3>2
  <2> QED
    BY <1>2, <1>3, <2>1, <2>2 DEF n
<1> HIDE DEF C
<1>5. (k - 1) * d = q * d
  BY <1>2
<1>6. Brings(C[k], i)
  <2> DEFINE s == (k - 1) * d
  <2>1. /\ s \in Nat /\ C[k].type = "scroll" /\ C[k].firstIndex = first + s
        /\ Len(C[k].lines) = IF s + d <= Len(lines) THEN d
                                 ELSE IF s < Len(lines) THEN Len(lines) - s ELSE 0
    BY <1>3, <1>4
  <2>2. s <= i - first /\ i - first < s + d
    BY <1>2, <1>5
  <2> HIDE DEF s, k, d
  <2>3. i - C[k].firstIndex + 1 \in 1..Len(C[k].lines)
    BY <1>1, <2>1, <2>2
  <2> QED
    BY <2>1, <2>3 DEF Brings
<1>7. ASSUME NEW j \in 1..(k - 1), NEW x \in Nat, Brings(C[j], x)
      PROVE  x < i
  <2> DEFINE s == (j - 1) * d
  <2>1. j \in 1..Len(C) /\ j <= q
    BY <1>2, <1>4
  <2>2. /\ s \in Nat /\ C[j].firstIndex = first + s
        /\ Len(C[j].lines) = IF s + d <= Len(lines) THEN d
                                 ELSE IF s < Len(lines) THEN Len(lines) - s ELSE 0
    BY <1>3, <2>1
  <2>3. s + d <= q * d
    <3>1. s + d = j * d
      BY <1>1, <2>1, SMTT(30)
    <3>2. j * d <= q * d
      BY <1>1, <1>2, <2>1, SMTT(30)
    <3> QED
      BY <3>1, <3>2
  <2> HIDE DEF s, k, d
  <2>4. x - C[j].firstIndex + 1 \in 1..Len(C[j].lines)
    BY <1>7 DEF Brings
  <2> QED
    <3>1. /\ i - first \in Nat /\ q * d \in Nat /\ x \in Nat /\ first \in Nat /\ i \in Nat
          /\ Len(lines) \in Nat /\ d \in Nat
      BY <1>1, <1>2 DEF d
    <3>2. x < first + s + d
      BY <2>2, <2>4, <3>1
    <3> QED
      BY <1>2, <2>2, <2>3, <3>1, <3>2
<1> QED
  BY <1>4, <1>6, <1>7 DEF C

-----------------------------------------------------------------------------
(* Frames under way, when one is taken and when some are added.              *)

IsRest(T, P, a, b) ==
    /\ 1 \in 1..Len(P) /\ Len(P) \in Nat /\ Len(T) = Len(P) - 1
    /\ \A k \in 1..Len(T) : k + 1 \in 1..Len(P) /\ T[k] = P[k + 1]
    /\ b <=> a \/ P[1].type = "resumeAck"

\* When the first frame is taken, the others apply and draw as they did.
LEMMA RestApplies ==
    ASSUME NEW P, NEW T, NEW a, NEW b, IsRest(T, P, a, b),
           NEW k \in 1..Len(T)
    PROVE  /\ k + 1 \in 1..Len(P) /\ T[k] = P[k + 1]
           /\ Applies(T, b, k) <=> Applies(P, a, k + 1)
           /\ DrawsMain(T, b, k) <=> DrawsMain(P, a, k + 1)
           /\ DrawsAlt(T, b, k) <=> DrawsAlt(P, a, k + 1)
<1>1. Len(P) \in Nat /\ Len(T) \in Int /\ k + 1 \in 1..Len(P) /\ T[k] = P[k + 1] /\ k \in Nat
  BY DEF IsRest
<1> DEFINE first == P[1].type = "resumeAck"
<1>0. b <=> a \/ first
  BY DEF IsRest
<1>2. ASSUME Applies(T, b, k) PROVE Applies(P, a, k + 1)
  <2>1. CASE b
    <3>1. 1 \in 1..((k + 1) - 1)
      BY <1>1
    <3> QED
      BY <1>0, <2>1, <3>1 DEF Applies
  <2>2. CASE \E j \in 1..(k - 1) : T[j].type = "resumeAck"
    <3>1. PICK j \in 1..(k - 1) : T[j].type = "resumeAck"
      BY <2>2
    <3>2. j \in 1..Len(T) /\ j + 1 \in 1..((k + 1) - 1)
      BY <1>1
    <3>3. P[j + 1].type = "resumeAck"
      BY <3>1, <3>2 DEF IsRest
    <3> QED
      BY <3>2, <3>3 DEF Applies
  <2> QED
    BY <1>2, <2>1, <2>2 DEF Applies
<1>3. ASSUME Applies(P, a, k + 1) PROVE Applies(T, b, k)
  <2> SUFFICES ASSUME ~b PROVE Applies(T, b, k)
    BY DEF Applies
  <2>1. PICK j \in 1..((k + 1) - 1) : P[j].type = "resumeAck"
    BY <1>0, <1>3 DEF Applies
  <2>2. j # 1
    BY <1>0, <2>1
  <2>3. j - 1 \in 1..Len(T) /\ j - 1 \in 1..(k - 1) /\ (j - 1) + 1 = j
    BY <1>1, <2>2
  <2>4. T[j - 1] = P[j]
    BY <2>3 DEF IsRest
  <2> QED
    BY <2>1, <2>3, <2>4 DEF Applies
<1> QED
  BY <1>1, <1>2, <1>3 DEF DrawsAlt, DrawsMain

\* And spare what they spared.
LEMMA RestSpares ==
    ASSUME NEW P, NEW T, NEW a, NEW b, IsRest(T, P, a, b),
           NEW i, NEW k \in Nat
    PROVE  /\ Spared(P, a, i, k + 1) => Spared(T, b, i, k)
           /\ Spared(P, a, i, 0) => Spared(T, b, i, 0) /\ (DrawsMain(P, a, 1) => i < P[1].base)
<1>0. Len(P) \in Nat /\ Len(T) \in Int /\ 1 \in 1..Len(P)
  BY DEF IsRest
<1>1. ASSUME NEW n \in Nat, NEW e \in Nat, e <= n + 1, Spared(P, a, i, e) PROVE Spared(T, b, i, n)
  <2> SUFFICES ASSUME NEW j \in (n + 1)..Len(T), DrawsMain(T, b, j)
               PROVE  i < T[j].base
    BY DEF Spared
  <2>1. j \in 1..Len(T) /\ j + 1 \in (e + 1)..Len(P)
    BY <1>0, <1>1 DEF IsRest
  <2>2. T[j] = P[j + 1] /\ DrawsMain(P, a, j + 1)
    BY <2>1, RestApplies
  <2> QED
    BY <1>1, <2>1, <2>2 DEF Spared
<1>2. Spared(P, a, i, k + 1) => Spared(T, b, i, k)
  BY <1>1
<1>3. Spared(P, a, i, 0) => Spared(T, b, i, 0)
  BY <1>1
<1>4. 1 \in (0 + 1)..Len(P)
  BY <1>0
<1>5. Spared(P, a, i, 0) => (DrawsMain(P, a, 1) => i < P[1].base)
  BY <1>4 DEF Spared
<1> QED
  BY <1>2, <1>3, <1>5

\* A line they bring is brought by one of them still, or the first frame brought it.
LEMMA RestBrings ==
    ASSUME NEW P, NEW T, NEW a, NEW b, IsRest(T, P, a, b),
           NEW y, NEW z,
           y => z \/ DrawsAlt(P, a, 1), DrawsMain(P, a, 1) => ~y,
           NEW i, WillBring(P, a, z, i)
    PROVE  \/ WillBring(T, b, y, i)
           \/ a /\ Brings(P[1], i) /\ ~z /\ Spared(T, b, i, 0)
<1>0. Len(P) \in Nat /\ Len(T) \in Int /\ Len(T) = Len(P) - 1 /\ 1 \in 1..Len(P)
  BY DEF IsRest
<1>1. PICK k \in 1..Len(P) : BringsAt(P, a, z, i, k)
  BY DEF WillBring
<1>2. /\ Applies(P, a, k) /\ Brings(P[k], i)
      /\ OnMain(P, a, z, k) /\ Spared(P, a, i, k) /\ FirstFor(P, a, i, k)
  BY <1>1 DEF BringsAt
<1>3. CASE k = 1
  <2>1. 1..(k - 1) = {}
    BY <1>3
  <2>2. a /\ ~z
    BY <1>2, <2>1 DEF Applies, OnMain
  <2>3. Spared(T, b, i, 0)
    <3>1. 0 \in Nat /\ 0 + 1 = k
      BY <1>3
    <3> QED
      BY <1>2, <3>1, RestSpares
  <2> QED
    BY <1>2, <1>3, <2>2, <2>3
<1>4. CASE k # 1
  <2> DEFINE n == k - 1
  <2>1. n \in 1..Len(T) /\ n + 1 = k /\ n \in Nat
    BY <1>0, <1>4
  <2> HIDE DEF n
  <2>2. Applies(T, b, n) /\ T[n] = P[k]
    <3>1. Applies(P, a, n + 1)
      BY <1>2, <2>1
    <3>2. Applies(T, b, n) /\ T[n] = P[n + 1]
      BY <2>1, <3>1, RestApplies
    <3> QED
      BY <2>1, <3>2
  <2>3. Spared(T, b, i, n)
    BY <1>2, <2>1, RestSpares
  <2>4. FirstFor(T, b, i, n)
    <3> SUFFICES ASSUME NEW j \in 1..(n - 1), NEW x \in Nat, Applies(T, b, j), Brings(T[j], x)
                 PROVE  x < i
      BY DEF FirstFor
    <3>1. j \in 1..Len(T) /\ j + 1 \in 1..(k - 1)
      BY <1>0, <2>1
    <3>2. Applies(P, a, j + 1) /\ T[j] = P[j + 1]
      BY <3>1, RestApplies
    <3> QED
      BY <1>2, <3>1, <3>2 DEF FirstFor
  <2>5. ASSUME NEW j \in 0..(n - 1), NEW l \in (j + 2)..(k - 1), DrawsMain(P, a, l)
        PROVE  \E e \in (j + 1)..(n - 1) : DrawsMain(T, b, e)
    <3>1. PICK e \in (j + 1)..(n - 1) : e \in 1..Len(T) /\ l = e + 1
      <4>1. l - 1 \in (j + 1)..(n - 1) /\ l - 1 \in 1..Len(T) /\ l = (l - 1) + 1
        BY <1>0, <2>1
      <4> QED
        BY <4>1
    <3>2. DrawsMain(P, a, e + 1)
      BY <2>5, <3>1
    <3>3. DrawsMain(T, b, e)
      BY <3>1, <3>2, RestApplies
    <3> QED
      BY <3>3
  <2>6. ASSUME NEW j \in 1..(n - 1), DrawsAlt(T, b, j)
        PROVE  \E e \in (j + 1)..(n - 1) : DrawsMain(T, b, e)
    <3>1. j \in 1..Len(T) /\ j + 1 \in 1..(k - 1) /\ j \in 0..(n - 1) /\ (j + 1) + 1 = j + 2
      BY <1>0, <2>1
    <3>2. DrawsAlt(P, a, j + 1)
      BY <2>6, <3>1, RestApplies
    <3>3. PICK l \in (j + 2)..(k - 1) : DrawsMain(P, a, l)
      BY <1>2, <3>1, <3>2 DEF OnMain
    <3> QED
      BY <2>5, <3>1, <3>3
  <2>7. ASSUME y PROVE \E e \in 1..(n - 1) : DrawsMain(T, b, e)
    <3>1. 0 \in 0..(n - 1) /\ 0 + 1 = 1 /\ 0 + 2 = 1 + 1 /\ 1 \in 1..(k - 1)
      BY <2>1
    <3>2. \E l \in (0 + 2)..(k - 1) : DrawsMain(P, a, l)
      <4>1. CASE DrawsAlt(P, a, 1)
        BY <1>2, <3>1, <4>1 DEF OnMain
      <4>2. CASE z
        <5>1. PICK l \in 1..(k - 1) : DrawsMain(P, a, l)
          BY <1>2, <4>2 DEF OnMain
        <5>2. l # 1
          BY <2>7, <5>1
        <5>3. l \in (0 + 2)..(k - 1)
          BY <5>2
        <5> QED
          BY <5>1, <5>3
      <4> QED
        BY <2>7, <4>1, <4>2
    <3>3. PICK l \in (0 + 2)..(k - 1) : DrawsMain(P, a, l)
      BY <3>2
    <3>4. \E e \in (0 + 1)..(n - 1) : DrawsMain(T, b, e)
      BY <2>5, <3>1, <3>3
    <3> QED
      BY <3>1, <3>4
  <2>8. OnMain(T, b, y, n)
    BY <2>6, <2>7 DEF OnMain
  <2> QED
    BY <1>2, <2>1, <2>2, <2>3, <2>4, <2>8 DEF BringsAt, WillBring
<1> QED
  BY <1>3, <1>4

\* And what came last still does.
LEMMA RestComesLast ==
    ASSUME NEW P, NEW T, NEW a, NEW b, IsRest(T, P, a, b),
           ~DrawsMain(P, a, 1),
           NEW M, ComesLast(P, a, M)
    PROVE  ComesLast(T, b, M)
<1>0. Len(P) \in Nat /\ Len(T) \in Int /\ Len(T) = Len(P) - 1
  BY DEF IsRest
<1> SUFFICES ASSUME NEW k \in 1..Len(T), NEW x \in Nat, Applies(T, b, k), Brings(T[k], x),
                    \A j \in 1..(k - 1) : ~DrawsMain(T, b, j), NEW i \in M
             PROVE  x < i
  BY DEF ComesLast
<1>1. k + 1 \in 1..Len(P) /\ T[k] = P[k + 1] /\ Applies(P, a, k + 1)
  BY RestApplies
<1>2. ASSUME NEW j \in 1..((k + 1) - 1) PROVE ~DrawsMain(P, a, j)
  <2>1. CASE j = 1
    BY <2>1
  <2>2. CASE j # 1
    <3>1. PICK e \in 1..(k - 1) : e \in 1..Len(T) /\ j = e + 1
      <4>1. j - 1 \in 1..Len(T) /\ j - 1 \in 1..(k - 1) /\ j = (j - 1) + 1
        BY <1>0, <2>2
      <4> QED
        BY <4>1
    <3>2. ~DrawsMain(P, a, e + 1)
      BY <3>1, RestApplies
    <3> QED
      BY <3>1, <3>2
  <2> QED
    BY <2>1, <2>2
<1> QED
  BY <1>1, <1>2 DEF ComesLast

\* Frames added after others leave those as they were.
LEMMA FrontApplies ==
    ASSUME NEW P \in Seq(Message), NEW Q \in Seq(Message), NEW a, NEW k \in 1..Len(P)
    PROVE  /\ (P \o Q)[k] = P[k] /\ k \in 1..Len(P \o Q)
           /\ Applies(P \o Q, a, k) <=> Applies(P, a, k)
           /\ DrawsMain(P \o Q, a, k) <=> DrawsMain(P, a, k)
           /\ DrawsAlt(P \o Q, a, k) <=> DrawsAlt(P, a, k)
<1>1. /\ Len(P) \in Nat /\ Len(Q) \in Nat /\ Len(P \o Q) = Len(P) + Len(Q)
      /\ \A j \in 1..Len(P) : j \in 1..Len(P \o Q) /\ (P \o Q)[j] = P[j]
  BY Joined
<1>2. \A j \in 1..(k - 1) : (P \o Q)[j] = P[j]
  BY <1>1
<1>3. Applies(P \o Q, a, k) <=> Applies(P, a, k)
  BY <1>2 DEF Applies
<1> QED
  BY <1>1, <1>3 DEF DrawsAlt, DrawsMain

\* And do not keep the page from a line below their windows.
LEMMA Appended ==
    ASSUME NEW P \in Seq(Message), NEW Q \in Seq(Message), NEW a, NEW z, NEW i,
           \A k \in 1..Len(Q) : Q[k].type = "screen" /\ Q[k].altActive = FALSE => i < Q[k].base
    PROVE  /\ WillBring(P, a, z, i) => WillBring(P \o Q, a, z, i)
           /\ Spared(P, a, i, 0) => Spared(P \o Q, a, i, 0)
<1>1. /\ Len(P) \in Nat /\ Len(Q) \in Nat /\ Len(P \o Q) = Len(P) + Len(Q)
      /\ \A k \in 1..Len(P \o Q) :
                \/ k \in 1..Len(P) /\ (P \o Q)[k] = P[k]
                \/ k - Len(P) \in 1..Len(Q) /\ (P \o Q)[k] = Q[k - Len(P)]
  BY Joined
<1>2. ASSUME NEW k \in Nat, Spared(P, a, i, k) PROVE Spared(P \o Q, a, i, k)
  <2> SUFFICES ASSUME NEW j \in (k + 1)..Len(P \o Q), DrawsMain(P \o Q, a, j)
               PROVE  i < (P \o Q)[j].base
    BY DEF Spared
  <2>1. j \in 1..Len(P \o Q)
    BY <1>1
  <2>2. CASE j \in 1..Len(P) /\ (P \o Q)[j] = P[j]
    <3>1. DrawsMain(P, a, j) /\ j \in (k + 1)..Len(P)
      BY <2>2, FrontApplies
    <3> QED
      BY <1>2, <2>2, <3>1 DEF Spared
  <2>3. CASE j - Len(P) \in 1..Len(Q) /\ (P \o Q)[j] = Q[j - Len(P)]
    BY <2>3 DEF DrawsAlt, DrawsMain
  <2> QED
    BY <1>1, <2>1, <2>2, <2>3
<1>3. ASSUME NEW k \in 1..Len(P), BringsAt(P, a, z, i, k) PROVE WillBring(P \o Q, a, z, i)
  <2>1. /\ Applies(P, a, k) /\ Brings(P[k], i)
        /\ OnMain(P, a, z, k) /\ Spared(P, a, i, k) /\ FirstFor(P, a, i, k)
    BY <1>3 DEF BringsAt
  <2>2. k \in 1..Len(P \o Q) /\ Applies(P \o Q, a, k) /\ Brings((P \o Q)[k], i)
    BY <2>1, FrontApplies
  <2>3. Spared(P \o Q, a, i, k)
    BY <1>2, <2>1
  <2>4. \A j \in 1..(k - 1) : j \in 1..Len(P)
    BY <1>1
  <2>5. FirstFor(P \o Q, a, i, k)
    <3> SUFFICES ASSUME NEW j \in 1..(k - 1), NEW x \in Nat, Applies(P \o Q, a, j),
                        Brings((P \o Q)[j], x)
                 PROVE  x < i
      BY DEF FirstFor
    <3>1. Applies(P, a, j) /\ Brings(P[j], x)
      BY <2>4, FrontApplies
    <3> QED
      BY <2>1, <3>1 DEF FirstFor
  <2>6. \A j \in 1..(k - 1) :
           /\ DrawsAlt(P \o Q, a, j) <=> DrawsAlt(P, a, j)
           /\ DrawsMain(P \o Q, a, j) <=> DrawsMain(P, a, j)
    BY <2>4, FrontApplies
  <2>7. OnMain(P \o Q, a, z, k)
    <3>1. ASSUME NEW j \in 1..(k - 1), DrawsAlt(P \o Q, a, j)
          PROVE  \E l \in (j + 1)..(k - 1) : DrawsMain(P \o Q, a, l)
      <4>1. DrawsAlt(P, a, j)
        BY <2>6, <3>1
      <4>2. PICK l \in (j + 1)..(k - 1) : DrawsMain(P, a, l)
        BY <2>1, <4>1 DEF OnMain
      <4>3. l \in 1..(k - 1)
        OBVIOUS
      <4> QED
        BY <2>6, <4>2, <4>3
    <3>2. ASSUME z PROVE \E l \in 1..(k - 1) : DrawsMain(P \o Q, a, l)
      BY <2>1, <2>6, <3>2 DEF OnMain
    <3> QED
      BY <3>1, <3>2 DEF OnMain
  <2> QED
    BY <2>2, <2>3, <2>5, <2>7 DEF BringsAt, WillBring
<1> QED
  BY <1>2, <1>3 DEF WillBring

\* Frames added after a resumeAck, or to a page that resumed, are not dropped.
LEMMA BackApplies ==
    ASSUME NEW P \in Seq(Message), NEW Q \in Seq(Message), NEW a,
           Applies(P, a, Len(P) + 1), NEW k \in 1..Len(Q)
    PROVE  /\ (P \o Q)[Len(P) + k] = Q[k] /\ Len(P) + k \in 1..Len(P \o Q)
           /\ Applies(P \o Q, a, Len(P) + k)
           /\ DrawsMain(P \o Q, a, Len(P) + k) <=> DrawsMain(Q, TRUE, k)
           /\ DrawsAlt(P \o Q, a, Len(P) + k) <=> DrawsAlt(Q, TRUE, k)
<1>1. /\ Len(P) \in Nat /\ Len(Q) \in Nat /\ Len(P \o Q) = Len(P) + Len(Q)
      /\ \A j \in 1..Len(P) : j \in 1..Len(P \o Q) /\ (P \o Q)[j] = P[j]
      /\ \A j \in 1..Len(Q) : Len(P) + j \in 1..Len(P \o Q) /\ (P \o Q)[Len(P) + j] = Q[j]
  BY Joined
<1>2. Applies(P \o Q, a, Len(P) + k)
  <2>1. \A j \in 1..Len(P) : j \in 1..((Len(P) + k) - 1)
    BY <1>1
  <2> QED
    BY <1>1, <2>1 DEF Applies
<1>3. Applies(Q, TRUE, k)
  BY DEF Applies
<1> QED
  BY <1>1, <1>2, <1>3 DEF DrawsAlt, DrawsMain

\* They bring the lines they bring on their own, when none before brings one from
\* there on, nor draws the alternate screen unless they draw the main one.
LEMMA Followed ==
    ASSUME NEW P \in Seq(Message), NEW Q \in Seq(Message), NEW a, NEW z, NEW y \in BOOLEAN,
           NEW i \in Int,
           Applies(P, a, Len(P) + 1),
           y \/ (~z /\ \A j \in 1..Len(P) : ~DrawsAlt(P, a, j)),
           \A j \in 1..Len(P), x \in Nat : Applies(P, a, j) /\ Brings(P[j], x) => x < i,
           WillBring(Q, TRUE, y, i)
    PROVE  WillBring(P \o Q, a, z, i)
<1>1. /\ Len(P) \in Nat /\ Len(Q) \in Nat /\ Len(P \o Q) = Len(P) + Len(Q)
      /\ \A k \in 1..Len(P \o Q) : k \in 1..Len(P) \/ k - Len(P) \in 1..Len(Q)
  BY Joined
<1> DEFINE n == Len(P)
           S == P \o Q
<1>2. PICK k \in 1..Len(Q) : BringsAt(Q, TRUE, y, i, k)
  BY DEF WillBring
<1>3. /\ Brings(Q[k], i)
      /\ OnMain(Q, TRUE, y, k) /\ Spared(Q, TRUE, i, k) /\ FirstFor(Q, TRUE, i, k)
  BY <1>2 DEF BringsAt
<1>4. n + k \in 1..Len(S) /\ Applies(S, a, n + k) /\ Brings(S[n + k], i)
  BY <1>3, BackApplies
<1>5. ASSUME NEW j \in 1..Len(S), j \notin 1..n PROVE \E e \in 1..Len(Q) : j = n + e
  <2>1. j - n \in 1..Len(Q) /\ j = n + (j - n)
    BY <1>1, <1>5
  <2> QED
    BY <2>1
<1>6. /\ \A j \in 1..n : S[j] = P[j] /\ (Applies(S, a, j) <=> Applies(P, a, j))
                         /\ (DrawsAlt(S, a, j) <=> DrawsAlt(P, a, j))
      /\ \A e \in 1..Len(Q) : /\ S[n + e] = Q[e]
                              /\ (DrawsAlt(S, a, n + e) <=> DrawsAlt(Q, TRUE, e))
                              /\ (DrawsMain(S, a, n + e) <=> DrawsMain(Q, TRUE, e))
  <2>1. ASSUME NEW j \in 1..n
        PROVE  S[j] = P[j] /\ (Applies(S, a, j) <=> Applies(P, a, j))
               /\ (DrawsAlt(S, a, j) <=> DrawsAlt(P, a, j))
    BY FrontApplies
  <2>2. ASSUME NEW e \in 1..Len(Q)
        PROVE  /\ S[n + e] = Q[e]
               /\ (DrawsAlt(S, a, n + e) <=> DrawsAlt(Q, TRUE, e))
               /\ (DrawsMain(S, a, n + e) <=> DrawsMain(Q, TRUE, e))
    BY BackApplies
  <2> QED
    BY <2>1, <2>2
<1> HIDE DEF S, n
<1>7. n \in Nat /\ Len(S) = n + Len(Q) /\ Len(Q) \in Nat
  BY <1>1 DEF S, n
<1>8. Spared(S, a, i, n + k)
  <2> SUFFICES ASSUME NEW j \in (n + k + 1)..Len(S), DrawsMain(S, a, j) PROVE i < S[j].base
    BY DEF Spared
  <2>1. j \in 1..Len(S) /\ j \notin 1..n
    BY <1>7
  <2>2. PICK e \in 1..Len(Q) : j = n + e
    BY <1>5, <2>1
  <2>3. e \in (k + 1)..Len(Q)
    BY <1>7, <2>2
  <2>4. DrawsMain(Q, TRUE, e) /\ S[j] = Q[e]
    BY <1>6, <2>2
  <2> QED
    BY <1>3, <2>3, <2>4 DEF Spared
<1>9. FirstFor(S, a, i, n + k)
  <2> SUFFICES ASSUME NEW j \in 1..((n + k) - 1), NEW x \in Nat, Applies(S, a, j), Brings(S[j], x)
               PROVE  x < i
    BY DEF FirstFor
  <2>1. CASE j \in 1..n
    BY <1>6, <2>1 DEF n
  <2>2. CASE j \notin 1..n
    <3>1. j \in 1..Len(S)
      BY <1>7
    <3>2. PICK e \in 1..Len(Q) : j = n + e
      BY <1>5, <2>2, <3>1
    <3>3. e \in 1..(k - 1)
      BY <1>7, <3>2
    <3>4. S[j] = Q[e] /\ Applies(Q, TRUE, e)
      BY <1>6, <3>2 DEF Applies
    <3> QED
      BY <1>3, <3>3, <3>4 DEF FirstFor
  <2> QED
    BY <2>1, <2>2
<1>10. ASSUME NEW e \in 1..Len(Q), NEW j \in Int, j <= n + e - 1, e <= k - 1, DrawsMain(Q, TRUE, e)
       PROVE  \E l \in (j + 1)..((n + k) - 1) : DrawsMain(S, a, l)
  <2>1. n + e \in (j + 1)..((n + k) - 1)
    BY <1>7, <1>10
  <2>2. DrawsMain(S, a, n + e)
    BY <1>6, <1>10
  <2> QED
    BY <2>1, <2>2
<1>11. ASSUME y, NEW j \in 0..n
       PROVE  \E l \in (j + 1)..((n + k) - 1) : DrawsMain(S, a, l)
  <2>1. PICK e \in 1..(k - 1) : DrawsMain(Q, TRUE, e)
    BY <1>3, <1>11 DEF OnMain
  <2>2. e \in 1..Len(Q) /\ j <= n + e - 1 /\ e <= k - 1 /\ j \in Int
    BY <1>7
  <2> QED
    BY <1>10, <2>1, <2>2
<1>12. ASSUME NEW j \in 1..((n + k) - 1), DrawsAlt(S, a, j)
       PROVE  \E l \in (j + 1)..((n + k) - 1) : DrawsMain(S, a, l)
  <2>1. CASE j \in 1..n
    <3>1. DrawsAlt(P, a, j)
      BY <1>6, <1>12, <2>1
    <3>2. y
      BY <2>1, <3>1 DEF n
    <3>3. j \in 0..n
      BY <1>7, <2>1
    <3> QED
      BY <1>11, <3>2, <3>3
  <2>2. CASE j \notin 1..n
    <3>1. j \in 1..Len(S)
      BY <1>7
    <3>2. PICK d \in 1..Len(Q) : j = n + d
      BY <1>5, <2>2, <3>1
    <3>3. d \in 1..(k - 1) /\ DrawsAlt(Q, TRUE, d)
      <4>1. d \in 1..(k - 1)
        BY <1>7, <3>2
      <4>2. DrawsAlt(S, a, n + d)
        BY <1>12, <3>2
      <4> QED
        BY <1>6, <4>1, <4>2
    <3>4. PICK e \in (d + 1)..(k - 1) : DrawsMain(Q, TRUE, e)
      BY <1>3, <3>3 DEF OnMain
    <3>5. e \in 1..Len(Q) /\ j <= n + e - 1 /\ e <= k - 1 /\ j \in Int
      BY <1>7, <3>2
    <3> QED
      BY <1>10, <3>4, <3>5
  <2> QED
    BY <2>1, <2>2
<1>13. ASSUME z PROVE \E l \in 1..((n + k) - 1) : DrawsMain(S, a, l)
  <2>1. y /\ 0 \in 0..n /\ 0 + 1 = 1
    BY <1>7, <1>13
  <2>2. \E l \in (0 + 1)..((n + k) - 1) : DrawsMain(S, a, l)
    BY <1>11, <2>1
  <2> QED
    BY <2>1, <2>2
<1>14. OnMain(S, a, z, n + k)
  BY <1>12, <1>13 DEF OnMain
<1>15. WillBring(S, a, z, i)
  BY <1>4, <1>8, <1>9, <1>14 DEF BringsAt, WillBring, S, n
<1> QED
  BY <1>15 DEF S


-----------------------------------------------------------------------------
(* Steps that take nothing off the wire.                                     *)

\* A line that a frame brings is the history's.
LEMMA BroughtIsCommitted ==
    ASSUME NEW P \in Seq(Message), NEW h, Carried(P, h), Len(h) \in Nat, NEW k \in 1..Len(P),
           NEW x \in Nat, Brings(P[k], x)
    PROVE  /\ IsScroll(P[k]) /\ x < Len(h) /\ P[k].firstIndex <= x
           /\ P[k].lines[x - P[k].firstIndex + 1] = h[x + 1]
<1> DEFINE m == P[k]
           j == x - m.firstIndex + 1
<1>1. m \in Message /\ m.type = "scroll" /\ j \in 1..Len(m.lines)
  BY LenProperties DEF Brings
<1>2. \A e \in 1..Len(m.lines) : m.firstIndex + e <= Len(h) /\ m.lines[e] = h[m.firstIndex + e]
  BY <1>1 DEF Carried
<1> HIDE DEF m
<1>3. IsScroll(m) /\ m.firstIndex \in Nat
  BY <1>1, MessageKinds DEF IsScroll
<1>4. m.firstIndex + j = x + 1 /\ j >= 1
  BY <1>1, <1>3
<1>5. m.firstIndex + j <= Len(h) /\ m.lines[j] = h[m.firstIndex + j]
  BY <1>1, <1>2
<1> QED
  BY <1>3, <1>4, <1>5 DEF m

\* A drain gives up lines only from the oldest on.
LEMMA OldestRises ==
    ASSUME Inv, Drain
    PROVE  oldest <= oldest'
<1>1. oldest' = Max({oldest, Len(history') - capacity})
  BY DEF Drain, Commit
<1>2. Len(history') \in Nat /\ capacity \in Nat /\ oldest \in Int
  <2>1. history' \in Seq(Rows)
    BY Drained DEF Inv, DataInv
  <2>2. capacity \in Nat /\ oldest \in Int
    BY LenProperties DEF Inv, DataInv, LogData, Committed
  <2> QED
    BY <2>1, <2>2, LenProperties
<1>3. Len(history') - capacity \in Int
  BY <1>2
<1>4. oldest' = IF oldest >= Len(history') - capacity THEN oldest ELSE Len(history') - capacity
  BY <1>1, <1>2, <1>3, LowerAndHigher DEF HigherOf
<1> QED
  BY <1>2, <1>3, <1>4

\* The server's lines continue what they were.
Grows ==
    /\ history' \in Seq(Rows) /\ Extends(history', history)
    /\ Committed' \in Nat /\ Committed <= Committed' /\ oldest' \in Nat /\ oldest <= oldest'

\* And the history only grows.
LEMMA DrainGrows ==
    ASSUME Inv, Drain
    PROVE  Grows
<1>1. /\ history' \in Seq(Rows) /\ Extends(history', history)
      /\ Committed' \in Nat /\ Committed <= Committed' /\ oldest' \in Nat
  BY Drained DEF Inv, DataInv
<1> QED
  BY <1>1, OldestRises DEF Grows

\* Indices of the lines, and what the invariant says of them.
LEMMA Lines ==
    ASSUME Inv
    PROVE  /\ Committed \in Nat /\ Committed = Len(history) /\ history \in Seq(Rows)
           /\ oldest \in Nat /\ oldest <= Committed
           /\ Retained \subseteq Nat /\ \A i \in Retained : i < Committed /\ oldest <= i
           /\ IsStore(store) /\ store.unconfirmedFrom \in Nat /\ store.erasedThrough \in Int
           /\ store.height \in Nat /\ store.base \in Nat /\ store.alt \in BOOLEAN
           /\ Held(store) \subseteq Nat
           /\ Pending \in Seq(Message) /\ Len(Pending) \in Nat
           /\ Carried(Pending, history)
<1>1. /\ Committed \in Nat /\ Committed = Len(history) /\ history \in Seq(Rows)
      /\ oldest \in Nat /\ oldest <= Committed
  <2>1. history \in Seq(Rows) /\ oldest \in 0..Committed
    BY DEF Inv, DataInv, LogData
  <2>2. Committed = Len(history) /\ Len(history) \in Nat
    BY <2>1, LenProperties DEF Committed
  <2> QED
    BY <2>1, <2>2
<1>2. Retained \subseteq Nat /\ \A i \in Retained : i < Committed /\ oldest <= i
  BY <1>1 DEF Retained
<1>3. /\ IsStore(store) /\ store.unconfirmedFrom \in Nat /\ store.erasedThrough \in Int
      /\ store.height \in Nat /\ store.base \in Nat /\ store.alt \in BOOLEAN
      /\ Held(store) \subseteq Nat
  BY DEF Inv, DataInv, StoreData, IsStore
<1>4. Pending \in Seq(Message) /\ Len(Pending) \in Nat
  BY PendingIsFrames, LenProperties DEF Inv, DataInv
<1> QED
  BY <1>1, <1>2, <1>3, <1>4 DEF Inv, ClaimInv

\* What is retained then was, or is new.
LEMMA RetainedGrows ==
    ASSUME Inv, Grows, NEW i \in Retained'
    PROVE  /\ i \in Nat /\ i < Committed'
           /\ i \in Retained \/ (Committed <= i /\ i \in Committed..(Committed' - 1))
<1> DEFINE c == Committed
           d == Committed'
           o == oldest
           p == oldest'
<1>1. i \in p..(d - 1)
  BY DEF Retained
<1>2. c \in Nat /\ o \in Nat /\ d \in Nat /\ c <= d /\ p \in Nat /\ o <= p
  BY Lines DEF Grows
<1>3. (i \in o..(c - 1)) = (i \in Retained)
  BY DEF Retained
<1> HIDE DEF c, d, o, p
<1>4. i \in Nat /\ i < d /\ (i \in o..(c - 1) \/ (c <= i /\ i \in c..(d - 1)))
  BY <1>1, <1>2
<1> QED
  BY <1>3, <1>4 DEF c, d

\* A row that is kept stays so while the store does.
LEMMA KeptStays ==
    ASSUME Inv, Grows, store' = store, unproven' = unproven, NEW i, Kept(i)
    PROVE  Kept(i)'
<1>1. CASE i \in unproven
  BY <1>1 DEF Kept
<1>2. CASE i \in Held(store) /\ Right(i)
  <2>1. i \in Nat /\ i < Committed /\ store.lines[i] = history[i + 1]
    BY <1>2, Lines DEF Right
  <2>2. i + 1 \in 1..Len(history)
    BY <2>1, Lines
  <2>3. history'[i + 1] = history[i + 1] /\ i < Committed'
    BY <2>1, <2>2, Lines DEF Grows, Extends
  <2>4. Right(i)'
    BY <2>1, <2>3 DEF Right
  <2> QED
    BY <1>2, <2>4 DEF Kept
<1> QED
  BY <1>1, <1>2 DEF Kept

\* New lines lie above the floor and the rows held.
LEMMA HeldStays ==
    ASSUME Inv, FloorInv, BelowInv, Grows, store' = store, unproven' = unproven,
           forgone \subseteq forgone', forgone \cup awaited \subseteq forgone' \cup awaited'
    PROVE  FloorInv' /\ BelowInv'
<1>1. store.unconfirmedFrom <= Committed
         \/ (store.height = 0 /\ Held(store) \subseteq 0..(Committed - 1))
  BY DEF FloorInv
<1>2. Highest(store) \in Held(store) \cup {-1}
  BY Extremes, Lines
<1>3. FloorInv'
  <2>1. \/ store.unconfirmedFrom <= Committed'
        \/ store.height = 0 /\ Held(store) \subseteq 0..(Committed' - 1)
    BY <1>1, Lines DEF Grows
  <2> QED
    BY <2>1 DEF FloorInv
<1>4. ASSUME NEW i \in Retained', i < store.unconfirmedFrom, i <= Highest(store) \/ store.height > 0
      PROVE  i \in Held(store) \cup forgone' \cup awaited' \cup unproven
  <2>1. i \in Retained
    <3> SUFFICES ASSUME Committed <= i PROVE FALSE
      BY RetainedGrows
    <3>1. i \in Nat /\ Committed \in Nat
      BY RetainedGrows, Lines
    <3>2. store.unconfirmedFrom \in Nat /\ ~(store.unconfirmedFrom <= Committed)
      BY <1>4, <3>1, Lines
    <3>3. store.height = 0 /\ Held(store) \subseteq 0..(Committed - 1)
      BY <1>1, <3>2
    <3>4. i <= Highest(store)
      BY <1>4, <3>3
    <3>5. Highest(store) \in 0..(Committed - 1) \/ Highest(store) = -1
      BY <1>2, <3>3
    <3> QED
      BY <3>1, <3>4, <3>5
  <2> QED
    BY <1>4, <2>1 DEF BelowInv, BelowFloor
<1>5. BelowInv'
  BY <1>4 DEF BelowInv, BelowFloor
<1> QED
  BY <1>3, <1>5

\* A line that is kept, or on its way, still is, when frames are added that draw no
\* window over it.
LEMMA CoveredStays ==
    ASSUME Inv, Grows, NEW i \in Retained, Covered(i),
           UNCHANGED <<store, acked, windowSeen, unproven>>,
           forgone \subseteq forgone', missed \subseteq missed',
           NEW Q \in Seq(Message), Pending' = Pending \o Q,
           \A k \in 1..Len(Q) : Q[k].type = "screen" /\ Q[k].altActive = FALSE => i < Q[k].base
    PROVE  Covered(i)'
<1>1. Pending \in Seq(Message) /\ AltSeen' = AltSeen
  BY Lines DEF AltSeen
<1>2. CASE WillBring(Pending, acked, AltSeen, i)
  <2>1. WillBring(Pending \o Q, acked, AltSeen, i)
    BY <1>1, <1>2, Appended
  <2> QED
    BY <1>1, <2>1 DEF Covered
<1>3. CASE Kept(i) /\ Spared(Pending, acked, i, 0)
  <2>1. Spared(Pending \o Q, acked, i, 0)
    BY <1>1, <1>3, Appended
  <2>2. Kept(i)'
    BY <1>3, KeptStays
  <2> QED
    BY <2>1, <2>2 DEF Covered
<1> QED
  BY <1>2, <1>3 DEF Covered

\* Steps that bring the page nothing: the terminal's, and those that move frames on
\* the server or drain lines that no frame will carry.
Quiet ==
    /\ UNCHANGED <<store, acked, asked, forgone, awaited, unproven, windowSeen>>
    /\ Pending' = Pending
    /\ conn' = conn \/ (Resumed /\ Resumed')
    /\ missed' = missed \/ (Resumed /\ missed' = missed \cup Committed..(Committed' - 1))
    /\ Resumed => Committed' = Committed \/ missed' = missed \cup Committed..(Committed' - 1)

\* They keep it.
LEMMA QuietKeeps ==
    ASSUME Inv, HistoryInv, Grows, Quiet
    PROVE  HistoryInv'
<1>1. /\ UNCHANGED <<store, acked, asked, forgone, awaited, unproven, windowSeen>>
      /\ Pending' = Pending /\ missed \subseteq missed'
      /\ Resumed' <=> Resumed
  BY DEF Quiet, Resumed
<1>2. FloorInv' /\ BelowInv'
  BY <1>1, HeldStays DEF HistoryInv
<1>3. AckInv'
  BY <1>1 DEF AckInv, HistoryInv
<1>4. SocketInv'
  <2>1. missed' \subseteq Nat /\ (conn' = "closed" => awaited' = {})
    <3>1. Committed..(Committed' - 1) \subseteq Nat
      BY Lines DEF Grows
    <3> QED
      BY <1>1, <3>1 DEF Quiet, Resumed, HistoryInv, SocketInv
  <2> SUFFICES ASSUME conn' = "open"
               PROVE  /\ ~windowSeen' /\ missed' = {} /\ asked' < Committed'
                      /\ \A i \in Retained' : i <= asked' => i \in forgone' \/ Kept(i)'
    BY <2>1 DEF SocketInv
  <2>2. conn = "open" /\ missed' = missed
    BY DEF Quiet, Resumed
  <2>3. /\ ~windowSeen /\ missed = {} /\ asked < Committed
        /\ \A i \in Retained : i <= asked => i \in forgone \/ Kept(i)
    BY <2>2 DEF HistoryInv, SocketInv
  <2>4. asked \in Int
    BY Sizes DEF Inv, DataInv, ConnData
  <2>5. asked < Committed'
    BY <2>3, <2>4, Lines DEF Grows
  <2>6. ASSUME NEW i \in Retained', i <= asked PROVE i \in forgone \/ Kept(i)'
    <3>1. i \in Retained
      BY <2>3, <2>4, <2>6, RetainedGrows, Lines
    <3> QED
      BY <1>1, <2>3, <2>6, <3>1, KeptStays
  <2> QED
    BY <1>1, <2>2, <2>3, <2>5, <2>6
<1>5. ReplayInv'
  <2> SUFFICES ASSUME Resumed PROVE (\A i \in Retained' : Covered(i)') /\ MissedLast'
    BY <1>1 DEF ReplayInv
  <2>1. (\A i \in Retained : Covered(i)) /\ MissedLast
    BY DEF HistoryInv, ReplayInv
  <2>2. ASSUME NEW i \in Retained' PROVE Covered(i)'
    <3>1. CASE i \in Retained
      <4>1. /\ Pending' = Pending \o <<>> /\ <<>> \in Seq(Message) /\ Len(<<>>) = 0
        BY <1>1, Lines, ConcatEmptySeq
      <4>2. \A k \in 1..Len(<<>>) :
               <<>>[k].type = "screen" /\ <<>>[k].altActive = FALSE => i < <<>>[k].base
        BY <4>1
      <4>3. Covered(i)
        BY <2>1, <3>1
      <4> QED
        BY <1>1, <3>1, <4>1, <4>2, <4>3, CoveredStays
    <3>2. CASE i \notin Retained
      <4>1. i \in Nat /\ Committed <= i /\ i \in Committed..(Committed' - 1) /\ Committed \in Nat
            /\ Committed' \in Nat
        BY <3>2, RetainedGrows, Lines DEF Grows
      <4>2. missed' = missed \cup Committed..(Committed' - 1)
        BY <4>1 DEF Quiet
      <4> QED
        BY <4>1, <4>2 DEF Covered
    <3> QED
      BY <3>1, <3>2
  <2>3. MissedLast'
    <3> SUFFICES ASSUME ~acked \/ store.height = 0 PROVE ComesLast(Pending, acked, missed')
      BY <1>1 DEF MissedLast
    <3>1. ComesLast(Pending, acked, missed)
      BY <2>1 DEF MissedLast
    <3> SUFFICES ASSUME NEW k \in 1..Len(Pending), NEW x \in Nat, Applies(Pending, acked, k),
                        Brings(Pending[k], x),
                        \A j \in 1..(k - 1) : ~DrawsMain(Pending, acked, j),
                        NEW i \in missed'
                 PROVE  x < i
      BY DEF ComesLast
    <3>2. CASE i \in missed
      BY <3>1, <3>2 DEF ComesLast
    <3>3. CASE i \in Committed..(Committed' - 1)
      <4>1. x < Committed
        BY BroughtIsCommitted, Lines
      <4> QED
        BY <3>3, <4>1, Lines DEF Grows
    <3> QED
      BY <3>2, <3>3 DEF Quiet
  <2> QED
    BY <2>2, <2>3
<1> QED
  BY <1>2, <1>3, <1>4, <1>5 DEF HistoryInv

\* Lines that stay as they are.
LEMMA SameGrows ==
    ASSUME Inv, history' = history, oldest' \in {oldest, Committed}
    PROVE  Grows /\ Committed' = Committed
<1>1. Committed' = Committed
  BY DEF Committed
<1>2. /\ Committed \in Nat /\ Committed = Len(history) /\ history \in Seq(Rows)
      /\ oldest \in Nat /\ oldest <= Committed
  BY Lines
<1>3. Extends(history', history)
  BY <1>2 DEF Extends
<1> QED
  BY <1>1, <1>2, <1>3 DEF Grows

\* Output, and steps of the server that carry nothing to the page.
LEMMA OutputIsQuiet ==
    ASSUME Inv, Output, oldest' \in {oldest, Committed}
    PROVE  Grows /\ Quiet
<1>1. /\ UNCHANGED <<history, frame, conn, asked, batch, wire, store, acked, forgone, awaited,
                     missed, unproven, windowSeen>>
  BY DEF Output, connVars, pageVars, giveUpVars
<1>2. Grows /\ Committed' = Committed
  BY <1>1, SameGrows
<1>3. Pending' = Pending
  BY <1>1 DEF Pending, Due, Chunks
<1> QED
  BY <1>1, <1>2, <1>3 DEF Quiet

\* So are the steps that only move frames, or other sockets.
LEMMA IdleIsQuiet ==
    ASSUME Inv, ViewerJoins \/ ViewerLeaves \/ WriteBatch \/ DispatchFrame \/ UNCHANGED vars
    PROVE  Grows /\ Quiet
<1>1. /\ UNCHANGED <<history, oldest, asked, store, acked, forgone, awaited,
                     missed, unproven, windowSeen>>
  BY DEF ViewerJoins, ViewerLeaves, WriteBatch, DispatchFrame, vars, serverVars, screenVars, logVars,
         connVars, pageVars, giveUpVars
<1>2. Grows /\ Committed' = Committed
  BY <1>1, SameGrows
<1>3. CASE ViewerJoins \/ ViewerLeaves \/ UNCHANGED vars
  <2>1. UNCHANGED <<wire, batch, frame, conn>>
    BY <1>3 DEF ViewerJoins, ViewerLeaves, vars, serverVars, connVars
  <2>2. Pending' = Pending
    BY <2>1 DEF Pending, Due, Chunks
  <2> QED
    BY <1>1, <1>2, <2>1, <2>2 DEF Quiet
<1>4. CASE WriteBatch
  <2>1. conn = "batch" /\ conn' = "live"
    BY <1>4 DEF WriteBatch
  <2>2. Resumed /\ Resumed'
    BY <2>1 DEF Resumed
  <2> QED
    BY <1>1, <1>2, <1>4, <2>2, WriteBatchMoves DEF Quiet
<1>5. CASE DispatchFrame
  <2>1. conn' = conn
    BY <1>5 DEF DispatchFrame, connVars
  <2> QED
    BY <1>1, <1>2, <1>5, <2>1, DispatchMoves DEF Quiet
<1> QED
  BY <1>3, <1>4, <1>5

\* A drain that no frame carries: with the page away, or for another socket, whose
\* lines this page misses.
LEMMA DrainIsQuiet ==
    ASSUME Inv, RetainSuspendedScrollback \/ ViewerResumes
    PROVE  Grows /\ Quiet
<1>1. /\ UNCHANGED <<frame, conn, asked, batch, wire, store, acked, forgone, awaited,
                     unproven, windowSeen>>
      /\ Drain
  BY DEF RetainSuspendedScrollback, ViewerResumes, connVars, pageVars, giveUpVars
<1>2. Grows
  BY <1>1, DrainGrows
<1>3. Pending' = Pending
  BY <1>1 DEF Pending, Due, Chunks
<1>4. CASE RetainSuspendedScrollback
  <2>1. conn = "closed" /\ missed' = missed
    BY <1>4 DEF RetainSuspendedScrollback, giveUpVars
  <2> QED
    BY <1>1, <1>2, <1>3, <2>1 DEF Quiet, Resumed
<1>5. CASE ViewerResumes
  <2>1. missed' = IF Resumed THEN missed \cup Committed..(Committed' - 1) ELSE missed
    BY <1>5 DEF ViewerResumes, Resumed, Committed
  <2> QED
    BY <1>1, <1>2, <1>3, <2>1 DEF Quiet
<1> QED
  BY <1>4, <1>5

-----------------------------------------------------------------------------
(* Sockets that come and go.                                                 *)

\* A page that starts holds nothing, and claims nothing.
LEMMA FreshStore ==
    ASSUME NEW s, s = EmptyStore
    PROVE  /\ Held(s) = {} /\ s.erasedThrough < s.unconfirmedFrom /\ s.height = 0
           /\ \A i \in Nat : ~(i <= s.erasedThrough) /\ ~(i <= Highest(s)) /\ ~(s.height > 0)
<1>1. /\ Held(s) = {} /\ s.erasedThrough = -1 /\ s.unconfirmedFrom = Infinity
      /\ s.height = 0 /\ Infinity \in Nat /\ IsStore(s)
  BY EmptyIsStore, Sizes DEF EmptyStore
<1>2. Highest(s) = -1
  BY <1>1, Extremes
<1> QED
  BY <1>1, <1>2

\* It holds initially.
LEMMA InitHistory ==
    ASSUME Init
    PROVE  HistoryInv
<1>1. /\ store = EmptyStore /\ unproven = {} /\ history = <<>> /\ oldest = 0 /\ wire = <<>>
      /\ batch = <<>> /\ frame = NoFrame /\ acked = FALSE /\ conn = "closed" /\ awaited = {}
      /\ missed = {}
  BY DEF Init
<1>2. Committed = 0
  BY <1>1 DEF Committed
<1>3. FloorInv /\ BelowInv
  <2>1. Retained \subseteq Nat /\ Held(store) \subseteq 0..(Committed - 1)
    BY <1>1, <1>2, FreshStore DEF Retained
  <2> QED
    BY <1>1, <2>1, FreshStore DEF FloorInv, BelowInv, BelowFloor
<1>4. Pending = <<>> /\ ~Resumed
  BY <1>1 DEF Pending, Due, Resumed
<1>5. 1..Len(Pending) = {}
  BY <1>4
<1> QED
  BY <1>1, <1>3, <1>4, <1>5 DEF HistoryInv, SocketInv, AckInv, ReplayInv

\* A socket that dies takes what it would have brought; the page keeps its rows, and
\* may give up those that a first window ran ahead of.
LEMMA CutKeepsHistory ==
    ASSUME Inv, HistoryInv, Cut
    PROVE  HistoryInv'
<1>1. /\ UNCHANGED <<history, oldest, store, unproven>>
      /\ conn' = "closed" /\ batch' = <<>> /\ wire' = <<>> /\ acked' = FALSE /\ frame' = NoFrame
      /\ forgone' = forgone \cup awaited /\ awaited' = {} /\ missed' = missed
  BY DEF Cut, logVars
<1>2. Grows
  BY <1>1, SameGrows
<1>3. FloorInv' /\ BelowInv'
  BY <1>1, <1>2, HeldStays DEF HistoryInv
<1>4. Pending' = <<>> /\ ~Resumed'
  BY <1>1 DEF Pending, Due, Resumed
<1>5. 1..Len(Pending') = {}
  BY <1>4
<1> QED
  BY <1>1, <1>3, <1>4, <1>5 DEF HistoryInv, SocketInv, AckInv, ReplayInv

\* A page that connects claims only rows that it keeps or has given up.
LEMMA ConnectKeepsHistory ==
    ASSUME Inv, HistoryInv, Connect
    PROVE  HistoryInv'
<1>1. /\ UNCHANGED <<history, oldest, batch, wire, frame, awaited>>
      /\ conn = "closed" /\ conn' = "open" /\ acked' = FALSE /\ missed' = {} /\ windowSeen' = FALSE
      /\ asked' = ReplayBoundary(store')
      /\ \/ UNCHANGED <<store, forgone, unproven>>
         \/ store' = EmptyStore /\ forgone' = {} /\ unproven' = {}
  BY DEF Connect, logVars
<1>2. Grows /\ Committed' = Committed /\ Retained' = Retained
  BY <1>1, SameGrows DEF Retained
<1>3. /\ wire = <<>> /\ batch = <<>> /\ frame = NoFrame /\ awaited = {}
  BY <1>1 DEF Inv, DataInv, ConnData, HistoryInv, SocketInv
<1>4. Pending' = <<>> /\ ~Resumed'
  BY <1>1, <1>3 DEF Pending, Due, Resumed
<1>5. AckInv' /\ ReplayInv'
  <2>1. 1..Len(Pending') = {}
    BY <1>4
  <2> QED
    BY <1>1, <1>4, <2>1 DEF AckInv, ReplayInv
<1>6. FloorInv' /\ BelowInv'
  <2>1. CASE UNCHANGED <<store, forgone, unproven>>
    BY <1>1, <1>2, <2>1, HeldStays DEF HistoryInv
  <2>2. CASE store' = EmptyStore /\ forgone' = {} /\ unproven' = {}
    <3>1. Retained' \subseteq Nat
      BY <1>2, Lines
    <3>2. /\ Held(store') = {} /\ store'.erasedThrough < store'.unconfirmedFrom /\ store'.height = 0
          /\ \A i \in Nat : /\ ~(i <= store'.erasedThrough) /\ ~(i <= Highest(store'))
                            /\ ~(store'.height > 0)
      BY <2>2, FreshStore
    <3>3. Held(store') \subseteq 0..(Committed' - 1)
      BY <3>2
    <3> QED
      BY <2>2, <3>1, <3>2, <3>3 DEF FloorInv, BelowInv, BelowFloor
  <2> QED
    BY <1>1, <2>1, <2>2
<1>7. IsStore(store')
  BY <1>1, EmptyIsStore, Lines, Sizes
<1>8. /\ asked' \in Int /\ asked' <= Highest(store') /\ asked' < store'.unconfirmedFrom
      /\ Highest(store') \in Int /\ Highest(store') \in Held(store') \cup {-1}
      /\ store'.unconfirmedFrom \in Int /\ Committed \in Nat
  BY <1>1, <1>7, Boundary, Extremes, Lines DEF IsStore
<1>9. asked' < Committed'
  <2>1. CASE store'.unconfirmedFrom <= Committed'
    BY <1>2, <1>8, <2>1
  <2>2. CASE Held(store') \subseteq 0..(Committed' - 1)
    <3>1. Highest(store') \in 0..(Committed' - 1) \/ Highest(store') = -1
      BY <1>8, <2>2
    <3> QED
      BY <1>2, <1>8, <3>1
  <2> QED
    BY <1>6, <2>1, <2>2 DEF FloorInv
<1>10. ASSUME NEW i \in Retained', i <= asked' PROVE i \in forgone' \/ Kept(i)'
  <2>1. i \in Nat
    BY <1>2, Lines
  <2>2. i < store'.unconfirmedFrom /\ i <= Highest(store')
    BY <1>8, <1>10, <2>1
  <2>3. i \in Held(store') \cup forgone' \cup unproven'
    BY <1>1, <1>3, <1>6, <2>2 DEF BelowInv, BelowFloor
  <2>4. ASSUME i \in Held(store'), i \notin unproven' PROVE Right(i)'
    <3>1. UNCHANGED <<store, unproven>>
      BY <1>1, <2>4, EmptyIsStore, Sizes
    <3>2. Right(i)
      BY <2>2, <2>4, <3>1 DEF Inv, ClaimInv
    <3> QED
      BY <1>1, <1>2, <3>1, <3>2 DEF Right
  <2> QED
    BY <2>3, <2>4 DEF Kept
<1> QED
  BY <1>1, <1>5, <1>6, <1>9, <1>10 DEF HistoryInv, SocketInv


-----------------------------------------------------------------------------
(* The resume.                                                               *)

NoAcks(P) == \A k \in 1..Len(P) : P[k].type # "resumeAck"

\* Frames without a resumeAck, put together.
LEMMA NoAcksJoined ==
    ASSUME NEW P \in Seq(Message), NEW Q \in Seq(Message)
    PROVE  NoAcks(P \o Q) <=> NoAcks(P) /\ NoAcks(Q)
<1>1. /\ Len(P) \in Nat
      /\ \A k \in 1..Len(P) : k \in 1..Len(P \o Q) /\ (P \o Q)[k] = P[k]
      /\ \A k \in 1..Len(Q) : Len(P) + k \in 1..Len(P \o Q) /\ (P \o Q)[Len(P) + k] = Q[k]
      /\ \A k \in 1..Len(P \o Q) :
                \/ k \in 1..Len(P) /\ (P \o Q)[k] = P[k]
                \/ k - Len(P) \in 1..Len(Q) /\ (P \o Q)[k] = Q[k - Len(P)]
  BY Joined
<1>2. ASSUME NoAcks(P), NoAcks(Q) PROVE NoAcks(P \o Q)
  BY <1>1, <1>2 DEF NoAcks
<1>3. ASSUME NoAcks(P \o Q) PROVE NoAcks(P)
  BY <1>1, <1>3 DEF NoAcks
<1>4. ASSUME NoAcks(P \o Q), NEW k \in 1..Len(Q) PROVE Q[k].type # "resumeAck"
  <2>1. Len(P) + k \in 1..Len(P \o Q) /\ (P \o Q)[Len(P) + k] = Q[k]
    BY <1>1
  <2>2. (P \o Q)[Len(P) + k].type # "resumeAck"
    BY <1>4, <2>1 DEF NoAcks
  <2> QED
    BY <2>1, <2>2
<1> QED
  BY <1>2, <1>3, <1>4 DEF NoAcks

\* Lines on their own, and after a window of the main screen, are brought.
LEMMA ChunksBring ==
    ASSUME NEW first \in Nat, NEW lines \in Seq(Rows),
           NEW i \in first..(first + Len(lines) - 1)
    PROVE  WillBring(Chunks(first, lines), TRUE, FALSE, i)
<1> DEFINE C == Chunks(first, lines)
<1>1. PICK k \in 1..Len(C) :
         Brings(C[k], i) /\ \A j \in 1..(k - 1), x \in Nat : Brings(C[j], x) => x < i
  BY ChunksCover
<1>2. C \in Seq(Message) /\ Len(C) \in Nat /\ \A j \in 1..Len(C) : C[j].type = "scroll"
  BY LinesChunked, LenProperties
<1> HIDE DEF C
<1>3. \A j \in 1..Len(C) : ~DrawsAlt(C, TRUE, j) /\ ~DrawsMain(C, TRUE, j)
  BY <1>2 DEF DrawsAlt, DrawsMain
<1>4. OnMain(C, TRUE, FALSE, k) /\ Spared(C, TRUE, i, k)
  <2>1. \A j \in 1..(k - 1) : j \in 1..Len(C)
    BY <1>2
  <2>2. \A j \in (k + 1)..Len(C) : j \in 1..Len(C)
    BY <1>2
  <2>3. OnMain(C, TRUE, FALSE, k)
    BY <1>3, <2>1 DEF OnMain
  <2>4. Spared(C, TRUE, i, k)
    BY <1>3, <2>2 DEF Spared
  <2> QED
    BY <2>3, <2>4
<1>5. FirstFor(C, TRUE, i, k) /\ Applies(C, TRUE, k)
  BY <1>1 DEF FirstFor, Applies
<1> QED
  BY <1>1, <1>4, <1>5 DEF WillBring, BringsAt, C

\* A window of the main screen lets the lines after it in.
LEMMA WindowBrings ==
    ASSUME NEW m \in Message, m.type = "screen", m.altActive = FALSE,
           NEW first \in Nat, NEW lines \in Seq(Rows),
           NEW i \in first..(first + Len(lines) - 1)
    PROVE  WillBring(<<m>> \o Chunks(first, lines), TRUE, TRUE, i)
<1> DEFINE C == Chunks(first, lines)
           S == <<m>> \o C
<1>1. PICK k \in 1..Len(C) :
         Brings(C[k], i) /\ \A j \in 1..(k - 1), x \in Nat : Brings(C[j], x) => x < i
  BY ChunksCover
<1>2. C \in Seq(Message) /\ Len(C) \in Nat /\ \A j \in 1..Len(C) : C[j].type = "scroll"
  BY LinesChunked, LenProperties
<1>3. <<m>> \in Seq(Message) /\ Len(<<m>>) = 1 /\ <<m>>[1] = m
  BY OneFrame
<1> HIDE DEF C
<1>4. /\ Len(S) = 1 + Len(C) /\ S[1] = m
      /\ \A j \in 1..Len(C) : 1 + j \in 1..Len(S) /\ S[1 + j] = C[j]
  <2>1. /\ Len(S) = Len(<<m>>) + Len(C)
        /\ \A j \in 1..Len(<<m>>) : S[j] = <<m>>[j]
        /\ \A j \in 1..Len(C) : Len(<<m>>) + j \in 1..Len(S) /\ S[Len(<<m>>) + j] = C[j]
    BY <1>2, <1>3, Joined
  <2> QED
    BY <1>3, <2>1
<1> HIDE DEF S
<1>5. ASSUME NEW j \in 1..Len(S), j # 1 PROVE \E e \in 1..Len(C) : j = 1 + e /\ S[j] = C[e]
  <2>1. j - 1 \in 1..Len(C) /\ j = 1 + (j - 1)
    BY <1>2, <1>4, <1>5
  <2> QED
    BY <1>4, <2>1
<1>6. \A j \in 1..Len(S) : Applies(S, TRUE, j)
  BY DEF Applies
<1>7. 1 \in 1..Len(S) /\ DrawsMain(S, TRUE, 1) /\ ~DrawsAlt(S, TRUE, 1)
  <2>1. 1 \in 1..Len(S)
    BY <1>2, <1>4
  <2>2. S[1].type = "screen" /\ S[1].altActive = FALSE /\ FALSE # TRUE
    BY <1>4
  <2> QED
    BY <1>6, <2>1, <2>2 DEF DrawsMain, DrawsAlt
<1>8. \A j \in 1..Len(S) : j # 1 => ~DrawsMain(S, TRUE, j) /\ ~DrawsAlt(S, TRUE, j)
  BY <1>2, <1>5 DEF DrawsMain, DrawsAlt
<1>9. 1 + k \in 1..Len(S) /\ Brings(S[1 + k], i) /\ 1 \in 1..((1 + k) - 1)
  BY <1>1, <1>2, <1>4
<1>10. OnMain(S, TRUE, TRUE, 1 + k)
  <2>1. \A j \in 1..((1 + k) - 1) : ~DrawsAlt(S, TRUE, j)
    <3>1. \A j \in 1..((1 + k) - 1) : j \in 1..Len(S)
      BY <1>2, <1>4
    <3> QED
      BY <1>7, <1>8, <3>1
  <2> QED
    BY <1>7, <1>9, <2>1 DEF OnMain
<1>11. Spared(S, TRUE, i, 1 + k)
  <2>1. \A j \in (1 + k + 1)..Len(S) : j \in 1..Len(S) /\ j # 1
    BY <1>2
  <2> QED
    BY <1>8, <2>1 DEF Spared
<1>12. FirstFor(S, TRUE, i, 1 + k)
  <2> SUFFICES ASSUME NEW j \in 1..((1 + k) - 1), NEW x \in Nat, Brings(S[j], x) PROVE x < i
    BY DEF FirstFor
  <2>1. j # 1
    BY <1>4 DEF Brings
  <2>2. j \in 1..Len(S)
    BY <1>2, <1>4
  <2>3. PICK e \in 1..Len(C) : j = 1 + e /\ S[j] = C[e]
    BY <1>5, <2>1, <2>2
  <2>4. e \in 1..(k - 1)
    BY <1>2, <2>3
  <2> QED
    BY <1>1, <2>3, <2>4
<1> QED
  BY <1>6, <1>9, <1>10, <1>11, <1>12 DEF WillBring, BringsAt, S, C

\* Before it is answered a socket has carried no resumeAck.
LEMMA NotAnswered ==
    ASSUME Inv, AckInv, ~Resumed
    PROVE  ~acked /\ NoAcks(Pending)
BY DEF AckInv, NoAcks

\* What is under way after a resume: what was dispatched before, the resumeAck, the
\* window and the lines, and the lines of a frame built before.
LEMMA UnderWayAfterResume ==
    ASSUME Inv, AckInv, HandleResume
    PROVE  LET W == wire \o <<BatchAck>>
           IN  /\ W \in Seq(Message) /\ BatchRest \in Seq(Message) /\ Due' \in Seq(Message)
               /\ W \o BatchRest \in Seq(Message)
               /\ Pending' = (W \o BatchRest) \o Due'
               /\ wire \in Seq(Message) /\ NoAcks(wire) /\ NoAcks(BatchRest \o Due')
               /\ Len(W) = Len(wire) + 1 /\ Len(wire) \in Nat /\ W[Len(W)].type = "resumeAck"
               /\ \A j \in 1..Len(W) : ~Applies(W, acked, j)
               /\ \A k \in 1..Len(BatchRest) : BatchRest[k].type = "screen" =>
                     BatchRest[k].base = Committed'
               /\ \A k \in 1..Len(Due') : Due'[k].type = "scroll"
<1> DEFINE W == wire \o <<BatchAck>>
           C == Chunks(BatchFirst, BatchLines)
           m == BatchWindow
<1>1. conn = "open" /\ wire' = wire
  BY DEF HandleResume
<1>2. ~Resumed
  BY <1>1 DEF Resumed
<1>3. ~acked /\ NoAcks(Pending)
  BY <1>2, NotAnswered
<1>4. /\ batch' = <<BatchAck>> \o BatchRest
      /\ BatchFirst \in Nat /\ m \in Message /\ m.type = "screen" /\ m.base = Committed'
      /\ BatchAck \in Message /\ BatchAck.type = "resumeAck" /\ BatchLines \in Seq(Rows)
  BY BatchParts
<1>5. BatchRest = IF inAltScreen THEN C \o <<m>> ELSE <<m>> \o C
  BY DEF BatchRest
<1> HIDE DEF m
<1>6. /\ C \in Seq(Message) /\ \A k \in 1..Len(C) : C[k].type = "scroll"
      /\ <<m>> \in Seq(Message) /\ Len(<<m>>) = 1 /\ <<m>>[1] = m
      /\ <<BatchAck>> \in Seq(Message) /\ Len(<<BatchAck>>) = 1 /\ <<BatchAck>>[1] = BatchAck
  BY <1>4, LinesChunked, OneFrame
<1> HIDE DEF C
<1>7. /\ BatchRest \in Seq(Message)
      /\ \A k \in 1..Len(BatchRest) : BatchRest[k] = m \/ BatchRest[k].type = "scroll"
  <2>1. CASE inAltScreen
    <3>1. BatchRest = C \o <<m>>
      BY <1>5, <2>1
    <3> QED
      BY <1>6, <3>1, Joined
  <2>2. CASE ~inAltScreen
    <3>1. BatchRest = <<m>> \o C
      BY <1>5, <2>2
    <3> QED
      BY <1>6, <3>1, Joined
  <2> QED
    BY <2>1, <2>2
<1>8. Due' \in Seq(Message) /\ \A k \in 1..Len(Due') : Due'[k].type = "scroll"
  BY DueAfterResume
<1>9. wire \in Seq(Message) /\ NoAcks(wire) /\ Len(wire) \in Nat
  <2>1. /\ wire \in Seq(Message) /\ batch \o Due \in Seq(Message) /\ Pending = wire \o (batch \o Due)
    BY PendingIsFrames DEF Pending, Inv, DataInv, ConnData
  <2> QED
    BY <1>3, <2>1, NoAcksJoined, LenProperties
<1>10. NoAcks(BatchRest) /\ NoAcks(Due')
  BY <1>4, <1>7, <1>8 DEF NoAcks
<1>11. NoAcks(BatchRest \o Due')
  BY <1>7, <1>8, <1>10, NoAcksJoined
<1>12. /\ W \in Seq(Message) /\ Len(W) = Len(wire) + 1 /\ W[Len(W)] = BatchAck
       /\ \A k \in 1..Len(wire) : W[k] = wire[k]
  <2>1. /\ W \in Seq(Message) /\ Len(W) = Len(wire) + Len(<<BatchAck>>)
        /\ \A k \in 1..Len(wire) : W[k] = wire[k]
        /\ \A k \in 1..Len(<<BatchAck>>) : W[Len(wire) + k] = <<BatchAck>>[k]
    BY <1>6, <1>9, Joined
  <2> QED
    BY <1>6, <2>1
<1> HIDE DEF W
<1>13. \A j \in 1..Len(W) : ~Applies(W, acked, j)
  <2>1. \A j \in 1..Len(W) : \A e \in 1..(j - 1) : e \in 1..Len(wire)
    BY <1>9, <1>12
  <2> QED
    BY <1>3, <1>9, <1>12, <2>1 DEF Applies, NoAcks
<1>14. W \o BatchRest \in Seq(Message) /\ Pending' = (W \o BatchRest) \o Due'
  <2>1. Pending' = wire \o ((<<BatchAck>> \o BatchRest) \o Due')
    BY <1>1, <1>4 DEF Pending
  <2>2. (<<BatchAck>> \o BatchRest) \o Due' = <<BatchAck>> \o (BatchRest \o Due')
    <3>1. <<BatchAck>> \in Seq(Message) /\ BatchRest \in Seq(Message) /\ Due' \in Seq(Message)
      BY <1>6, <1>7, <1>8
    <3> DEFINE u == <<BatchAck>>
               d == Due'
    <3>2. u \in Seq(Message) /\ d \in Seq(Message)
      BY <3>1
    <3> HIDE DEF u, d
    <3>3. (u \o BatchRest) \o d = u \o (BatchRest \o d)
      BY <3>1, <3>2, ConcatAssociative
    <3> QED
      BY <3>3 DEF u, d
  <2>3. BatchRest \o Due' \in Seq(Message)
    BY <1>7, <1>8, ConcatProperties
  <2>4. wire \o (<<BatchAck>> \o (BatchRest \o Due')) = W \o (BatchRest \o Due')
    <3> DEFINE u == <<BatchAck>>
               v == BatchRest \o Due'
    <3>1. wire \in Seq(Message) /\ u \in Seq(Message) /\ v \in Seq(Message)
      BY <1>6, <1>9, <2>3
    <3> HIDE DEF u, v
    <3>2. wire \o (u \o v) = (wire \o u) \o v
      BY <3>1, ConcatAssociative
    <3> QED
      BY <3>2 DEF u, v, W
  <2>5. W \o (BatchRest \o Due') = (W \o BatchRest) \o Due'
    BY <1>7, <1>8, <1>12, ConcatAssociative
  <2> QED
    BY <1>7, <1>12, <2>1, <2>2, <2>4, <2>5, ConcatProperties
<1> QED
  BY <1>4, <1>7, <1>8, <1>9, <1>11, <1>12, <1>13, <1>14 DEF W, m

\* The batch brings every line from where the replay starts.
LEMMA ResumeBrings ==
    ASSUME Inv, HistoryInv, HandleResume, NEW i \in BatchFirst..(Committed' - 1)
    PROVE  WillBring(Pending', acked, AltSeen, i)
<1> DEFINE W == wire \o <<BatchAck>>
           R == BatchRest
           y == ~inAltScreen
           C == Chunks(BatchFirst, BatchLines)
           m == BatchWindow
<1>1. /\ W \in Seq(Message) /\ R \in Seq(Message) /\ Due' \in Seq(Message)
      /\ W \o R \in Seq(Message) /\ Pending' = (W \o R) \o Due'
      /\ Len(W) = Len(wire) + 1 /\ Len(wire) \in Nat /\ W[Len(W)].type = "resumeAck"
      /\ \A j \in 1..Len(W) : ~Applies(W, acked, j)
      /\ \A k \in 1..Len(Due') : Due'[k].type = "scroll"
  BY UnderWayAfterResume DEF HistoryInv
<1>2. ~AltSeen
  <2>1. conn = "open"
    BY DEF HandleResume
  <2> QED
    BY <2>1 DEF HistoryInv, SocketInv, AltSeen
<1>3. /\ BatchFirst \in Nat /\ BatchLines \in Seq(Rows) /\ Committed' \in Nat
      /\ Len(BatchLines) = IF BatchFirst < Committed' THEN Committed' - BatchFirst ELSE 0
      /\ m \in Message /\ m.type = "screen" /\ m.altActive = inAltScreen /\ inAltScreen \in BOOLEAN
      /\ Committed' = Len(history')
  BY BatchParts DEF Inv, DataInv, ScreenData
<1>4. i \in BatchFirst..(BatchFirst + Len(BatchLines) - 1) /\ i \in Nat
  BY <1>3
<1>5. R = IF inAltScreen THEN C \o <<m>> ELSE <<m>> \o C
  BY DEF BatchRest
<1> HIDE DEF m, R, W
<1>6. WillBring(R, TRUE, y, i)
  <2>1. CASE inAltScreen
    <3>1. WillBring(C, TRUE, FALSE, i)
      BY <1>3, <1>4, ChunksBring
    <3>2. C \in Seq(Message) /\ <<m>> \in Seq(Message) /\ Len(<<m>>) = 1 /\ <<m>>[1] = m
      BY <1>3, LinesChunked, OneFrame
    <3> HIDE DEF C
    <3>3. \A k \in 1..Len(<<m>>) :
             <<m>>[k].type = "screen" /\ <<m>>[k].altActive = FALSE => i < <<m>>[k].base
      <4>1. \A k \in 1..Len(<<m>>) : k = 1
        BY <3>2
      <4>2. m.altActive = TRUE /\ FALSE # TRUE
        BY <1>3, <2>1
      <4> QED
        BY <3>2, <4>1, <4>2
    <3>4. WillBring(C \o <<m>>, TRUE, FALSE, i)
      BY <3>1, <3>2, <3>3, Appended
    <3>5. y = FALSE /\ R = C \o <<m>>
      BY <1>3, <1>5, <2>1
    <3> QED
      BY <3>4, <3>5
  <2>2. CASE ~inAltScreen
    <3>1. m.altActive = FALSE
      BY <1>3, <2>2
    <3>2. WillBring(<<m>> \o C, TRUE, TRUE, i)
      BY <1>3, <1>4, <3>1, WindowBrings
    <3>3. y = TRUE /\ R = <<m>> \o C
      BY <1>3, <1>5, <2>2
    <3> QED
      BY <3>2, <3>3
  <2> QED
    BY <2>1, <2>2
<1> HIDE DEF C
<1>7. WillBring(W \o R, acked, AltSeen, i)
  <2>1. Applies(W, acked, Len(W) + 1)
    <3>1. Len(W) \in 1..((Len(W) + 1) - 1)
      BY <1>1
    <3> QED
      BY <1>1, <3>1 DEF Applies
  <2>2. \A j \in 1..Len(W) : ~DrawsAlt(W, acked, j)
    BY <1>1 DEF DrawsAlt
  <2>3. y \in BOOLEAN /\ i \in Int
    BY <1>4
  <2> HIDE DEF y
  <2> QED
    BY <1>1, <1>2, <1>6, <2>1, <2>2, <2>3, Followed
<1>8. \A k \in 1..Len(Due') :
         Due'[k].type = "screen" /\ Due'[k].altActive = FALSE => i < Due'[k].base
  BY <1>1
<1> QED
  BY <1>1, <1>7, <1>8, Appended

\* So a resume gives the page, or gives up, every line retained then.
LEMMA ResumeKeepsHistory ==
    ASSUME Inv, HistoryInv, HandleResume
    PROVE  HistoryInv'
<1>1. /\ conn = "open" /\ conn' = "batch" /\ Drain
      /\ UNCHANGED <<store, acked, asked, awaited, missed, unproven, windowSeen>>
      /\ forgone' = forgone \cup ((asked + 1)..(Committed' - MaxReplayLines - 1))
  BY DEF HandleResume, pageVars, Committed
<1>2. Grows
  BY <1>1, DrainGrows
<1>3. /\ ~windowSeen /\ missed = {} /\ asked < Committed
      /\ \A i \in Retained : i <= asked => i \in forgone \/ Kept(i)
  BY <1>1 DEF HistoryInv, SocketInv
<1>4. ~Resumed /\ Resumed' /\ ~acked
  <2>1. ~Resumed /\ Resumed'
    BY <1>1 DEF Resumed
  <2> QED
    BY <2>1, NotAnswered DEF HistoryInv
<1>5. FloorInv' /\ BelowInv'
  BY <1>1, <1>2, HeldStays DEF HistoryInv
<1> DEFINE W == wire \o <<BatchAck>>
           R == BatchRest
<1>6. /\ W \in Seq(Message) /\ R \in Seq(Message) /\ Due' \in Seq(Message)
      /\ W \o R \in Seq(Message)
      /\ Pending' = (W \o R) \o Due'
      /\ wire \in Seq(Message) /\ NoAcks(wire) /\ NoAcks(R \o Due')
      /\ Len(W) = Len(wire) + 1 /\ Len(wire) \in Nat
      /\ \A j \in 1..Len(W) : ~Applies(W, acked, j)
      /\ \A k \in 1..Len(R) : R[k].type = "screen" => R[k].base = Committed'
      /\ \A k \in 1..Len(Due') : Due'[k].type = "scroll"
  BY UnderWayAfterResume DEF HistoryInv
<1>7. \A j \in 1..Len(wire) : W[j] = wire[j]
  <2>1. <<BatchAck>> \in Seq(Message)
    BY BatchParts, OneFrame
  <2> QED
    BY <1>6, <2>1, Joined
<1> HIDE DEF W, R
<1>8. AckInv'
  <2> SUFFICES ASSUME NEW k \in 1..Len(Pending'), Pending'[k].type = "resumeAck"
               PROVE  \A j \in 1..(k - 1) : Pending'[j].type # "resumeAck"
    BY <1>1, <1>4 DEF AckInv
  <2>1. R \o Due' \in Seq(Message) /\ Pending' = W \o (R \o Due')
    <3>1. R \o Due' \in Seq(Message)
      BY <1>6, ConcatProperties
    <3> DEFINE d == Due'
    <3>2. W \in Seq(Message) /\ R \in Seq(Message) /\ d \in Seq(Message)
      BY <1>6
    <3> HIDE DEF d
    <3>3. (W \o R) \o d = W \o (R \o d)
      BY <3>2, ConcatAssociative
    <3> QED
      BY <1>6, <3>1, <3>3 DEF d
  <2>2. \/ k \in 1..Len(W)
        \/ k - Len(W) \in 1..Len(R \o Due') /\ Pending'[k] = (R \o Due')[k - Len(W)]
    BY <1>6, <2>1, Joined
  <2>3. k \in 1..Len(W)
    BY <1>6, <2>2 DEF NoAcks
  <2>4. \A j \in 1..(k - 1) : j \in 1..Len(W) /\ j \in 1..Len(wire)
    BY <1>6, <2>3
  <2>5. \A j \in 1..(k - 1) : Pending'[j] = wire[j]
    BY <1>6, <1>7, <2>1, <2>4, Joined
  <2> QED
    BY <1>6, <2>4, <2>5 DEF NoAcks
<1>9. ASSUME NEW i \in Retained' PROVE Covered(i)'
  <2>1. /\ i \in Nat /\ i < Committed' /\ Committed' \in Nat /\ asked \in Int
        /\ i \in oldest'..(Committed' - 1)
    <3>1. i \in oldest'..(Committed' - 1)
      BY DEF Retained
    <3>2. i \in Nat /\ i < Committed'
      BY <1>2, RetainedGrows
    <3>3. Committed' \in Nat
      BY <1>2, Lines DEF Grows
    <3>4. asked \in Int
      BY Sizes DEF Inv, DataInv, ConnData
    <3> QED
      BY <3>1, <3>2, <3>3, <3>4
  <2>2. /\ BatchFirst \in Nat /\ BatchFirst >= oldest' /\ BatchFirst >= asked + 1
        /\ BatchFirst \in {oldest', asked + 1, Committed' - MaxReplayLines, 0}
        /\ Committed' = Len(history')
    BY BatchParts
  <2>3. CASE BatchFirst <= i
    <3>1. i \in BatchFirst..(Committed' - 1)
      BY <2>1, <2>2, <2>3
    <3>2. WillBring(Pending', acked, AltSeen, i)
      BY <3>1, ResumeBrings
    <3>3. AltSeen' = AltSeen
      BY <1>1 DEF AltSeen
    <3> QED
      BY <1>1, <3>2, <3>3 DEF Covered
  <2>4. CASE i <= asked
    <3>1. i \in Retained
      <4>1. Committed \in Nat
        BY Lines
      <4>2. i < Committed
        BY <1>3, <2>1, <2>4, <4>1
      <4>3. ~(Committed <= i)
        BY <2>1, <4>1, <4>2
      <4> QED
        BY <1>2, <4>3, RetainedGrows
    <3>2. CASE i \in forgone
      BY <1>1, <3>2 DEF Covered
    <3>3. CASE Kept(i)
      <4>1. Kept(i)'
        BY <1>1, <1>2, <3>3, KeptStays
      <4>2. Spared(W, acked, i, 0)
        <5>1. \A j \in (0 + 1)..Len(W) : ~DrawsMain(W, acked, j)
          BY <1>6 DEF DrawsMain
        <5> QED
          BY <5>1 DEF Spared
      <4>3. Spared(W \o R, acked, i, 0)
        <5>1. \A k \in 1..Len(R) : R[k].type = "screen" /\ R[k].altActive = FALSE => i < R[k].base
          BY <1>6, <2>1
        <5> QED
          BY <1>6, <4>2, <5>1, Appended
      <4>4. Spared(Pending', acked, i, 0)
        <5>1. \A k \in 1..Len(Due') :
                 Due'[k].type = "screen" /\ Due'[k].altActive = FALSE => i < Due'[k].base
          BY <1>6
        <5> QED
          BY <1>6, <4>3, <5>1, Appended
      <4> QED
        BY <1>1, <4>1, <4>4 DEF Covered
    <3> QED
      BY <1>3, <2>4, <3>1, <3>2, <3>3
  <2>5. CASE asked < i /\ i < BatchFirst
    <3>1. i \in (asked + 1)..(Committed' - MaxReplayLines - 1)
      <4>1. BatchFirst = Committed' - MaxReplayLines
        BY <2>1, <2>2, <2>5
      <4> QED
        BY <2>1, <2>2, <2>5, <4>1, Sizes
    <3> QED
      BY <1>1, <3>1 DEF Covered
  <2> QED
    BY <2>1, <2>2, <2>3, <2>4, <2>5
<1>10. MissedLast'
  BY <1>1, <1>3 DEF MissedLast, ComesLast
<1>11. SocketInv'
  BY <1>1, <1>3 DEF SocketInv
<1> QED
  BY <1>5, <1>8, <1>9, <1>10, <1>11 DEF HistoryInv, ReplayInv


-----------------------------------------------------------------------------
(* The frame of a flush pass.                                                *)

\* What a pass adds is its window, when it has one, and lines.
LEMMA AddedKinds ==
    ASSUME Inv, BuildFrame, NEW k \in 1..Len(Added)
    PROVE  /\ Added[k].type \in {"screen", "scroll"}
           /\ Added[k].type = "screen" => Added[k].base = Committed'
           /\ \A x \in Nat : Brings(Added[k], x) => MainLines # <<>>
<1> DEFINE C == Chunks(Committed, MainLines)
           m == BuiltScreen
<1>1. /\ MainLines \in Seq(Rows) /\ Committed \in Nat /\ Committed' \in Nat
  BY Drained DEF Inv, DataInv, BuildFrame
<1>2. m \in Message /\ m.type = "screen" /\ m.base = Committed'
  BY <1>1, BuiltIsMessage DEF Inv, DataInv
<1>3. /\ C \in Seq(Message)
      /\ \A e \in 1..Len(C) : C[e].type = "scroll" /\ C[e].firstIndex \in Nat
      /\ \A e \in 1..Len(C) : \A j \in 1..Len(C[e].lines) :
            C[e].firstIndex - Committed + j \in 1..Len(MainLines)
  BY <1>1, LinesChunked
<1>4. <<m>> \in Seq(Message) /\ Len(<<m>>) = 1 /\ <<m>>[1] = m
  BY <1>2, OneFrame
<1>5. Added = <<>> \/ Added = <<>> \o C \/ Added = <<m>> \o C
  BY DEF Added
<1>6. <<>> \o C = C /\ Len(<<>>) = 0
  BY <1>3, ConcatEmptySeq
<1> HIDE DEF C, m
<1>7. Added[k] = m \/ \E e \in 1..Len(C) : Added[k] = C[e]
  <2>1. CASE Added = C
    BY <2>1
  <2>2. CASE Added = <<m>> \o C
    <3> DEFINE u == <<m>>
    <3>1. u \in Seq(Message) /\ \A e \in 1..Len(u) : u[e] = m
      BY <1>4
    <3> HIDE DEF u
    <3>2. Added = u \o C
      BY <2>2 DEF u
    <3> QED
      BY <1>3, <3>1, <3>2, Joined
  <2>3. CASE Added = <<>>
    BY <1>6, <2>3
  <2> QED
    BY <1>5, <1>6, <2>1, <2>2, <2>3
<1>8. CASE Added[k] = m
  BY <1>2, <1>8 DEF Brings
<1>9. ASSUME NEW e \in 1..Len(C), Added[k] = C[e]
      PROVE  Added[k].type = "scroll" /\ \A x \in Nat : Brings(Added[k], x) => MainLines # <<>>
  <2> SUFFICES ASSUME NEW x \in Nat, Brings(C[e], x) PROVE MainLines # <<>>
    BY <1>3, <1>9
  <2>1. C[e].firstIndex - Committed + (x - C[e].firstIndex + 1) \in 1..Len(MainLines)
    BY <1>3 DEF Brings
  <2>2. 1..Len(MainLines) # {}
    BY <2>1
  <2>3. Len(<<>>) = 0 /\ 1..0 = {}
    OBVIOUS
  <2> QED
    BY <2>2, <2>3
<1> QED
  BY <1>7, <1>8, <1>9

\* To a page that resumed, lines of the main screen go after a window: each row has
\* moved, and a cached one would have to be where it was.
LEMMA AddedWindow ==
    ASSUME Inv, BuildFrame, Resumed, MainLines # <<>>
    PROVE  /\ Added = <<BuiltScreen>> \o Chunks(Committed, MainLines)
           /\ BuiltScreen \in Message /\ BuiltScreen.type = "screen"
           /\ BuiltScreen.base = Committed' /\ BuiltScreen.altActive = FALSE
<1>1. /\ MainLines \in Seq(Rows) /\ Committed \in Nat /\ Committed' \in Nat
      /\ Committed' = Committed + Len(MainLines)
  BY Drained DEF Inv, DataInv, BuildFrame
<1>2. Len(MainLines) \in Nat /\ Len(MainLines) > 0
  BY <1>1, EmptySeq, LenProperties
<1>3. inAltScreen = FALSE
  BY DEF MainLines, Inv, DataInv, ScreenData
<1>4. BuiltScreen \in Message /\ BuiltScreen.type = "screen" /\ BuiltScreen.base = Committed'
      /\ BuiltScreen.altActive = inAltScreen
  BY <1>1, BuiltIsMessage DEF Inv, DataInv
<1>5. ChangedRows(Committed') # {}
  <2> SUFFICES ASSUME ChangedRows(Committed') = {} PROVE FALSE
    OBVIOUS
  <2> DEFINE c == Committed'
             y == Height
  <2>1. Height \in 1..Height /\ Height \in Nat
    BY Sizes
  <2>2. c + y - builder.base \in 1..Height /\ builder.rows # <<>>
    BY <2>1, RowCached
  <2>3. builder.base = Committed
    BY <2>2 DEF Inv, ShownInv
  <2>4. c \in Nat /\ c = Committed + Len(MainLines)
    BY <1>1
  <2> HIDE DEF c
  <2> QED
    BY <1>1, <1>2, <2>1, <2>2, <2>3, <2>4
<1>6. frame' # NoFrame
  BY <1>5, FrameBuilt
<1> QED
  BY <1>3, <1>4, <1>5, <1>6 DEF Added

\* A frame that is built carries the lines the page has not been sent, and its
\* window lies above those it was.
LEMMA BuildKeepsHistory ==
    ASSUME Inv, HistoryInv, BuildFrame
    PROVE  HistoryInv'
<1>1. /\ Drain
      /\ UNCHANGED <<store, acked, asked, conn, forgone, awaited, missed, unproven, windowSeen>>
  BY DEF BuildFrame, connVars, pageVars, giveUpVars
<1>2. Grows
  BY <1>1, DrainGrows
<1>3. Added \in Seq(Message) /\ Pending' = Pending \o Added /\ Pending \in Seq(Message)
  BY FrameBuilt, Lines
<1>4. FloorInv' /\ BelowInv'
  BY <1>1, <1>2, HeldStays DEF HistoryInv
<1>5. AckInv'
  <2>1. (acked => Resumed) /\ (Resumed' <=> Resumed)
    BY <1>1 DEF HistoryInv, AckInv, Resumed
  <2>2. ASSUME NEW k \in 1..Len(Pending'), Pending'[k].type = "resumeAck"
        PROVE  Resumed /\ ~acked /\ \A j \in 1..(k - 1) : Pending'[j].type # "resumeAck"
    <3>1. \/ k \in 1..Len(Pending) /\ Pending'[k] = Pending[k]
          \/ k - Len(Pending) \in 1..Len(Added) /\ Pending'[k] = Added[k - Len(Pending)]
      BY <1>3, Joined
    <3>2. k \in 1..Len(Pending) /\ Pending[k].type = "resumeAck"
      BY <2>2, <3>1, AddedKinds
    <3>3. Resumed /\ ~acked /\ \A j \in 1..(k - 1) : Pending[j].type # "resumeAck"
      BY <3>2 DEF HistoryInv, AckInv
    <3>4. \A j \in 1..(k - 1) : j \in 1..Len(Pending)
      BY <3>2
    <3>5. \A j \in 1..(k - 1) : Pending'[j] = Pending[j]
      BY <1>3, <3>4, Joined
    <3> QED
      BY <3>3, <3>5
  <2> QED
    BY <1>1, <2>1, <2>2 DEF AckInv
<1>6. SocketInv'
  <2> SUFFICES ASSUME conn = "open"
               PROVE  /\ asked < Committed'
                      /\ \A i \in Retained' : i <= asked => i \in forgone \/ Kept(i)'
    BY <1>1 DEF HistoryInv, SocketInv
  <2>1. /\ asked < Committed /\ asked \in Int
        /\ \A i \in Retained : i <= asked => i \in forgone \/ Kept(i)
    BY Sizes DEF HistoryInv, SocketInv, Inv, DataInv, ConnData
  <2>2. asked < Committed'
    BY <1>2, <2>1, Lines DEF Grows
  <2>3. ASSUME NEW i \in Retained', i <= asked PROVE i \in forgone \/ Kept(i)'
    <3>1. i \in Retained
      BY <1>2, <2>1, <2>3, RetainedGrows, Lines
    <3> QED
      BY <1>1, <1>2, <2>1, <2>3, <3>1, KeptStays
  <2> QED
    BY <2>2, <2>3
<1>7. ASSUME Resumed PROVE (\A i \in Retained' : Covered(i)') /\ MissedLast'
  <2>1. (\A i \in Retained : Covered(i)) /\ MissedLast
    BY <1>7 DEF HistoryInv, ReplayInv
  <2>2. Len(Pending) \in Nat /\ Applies(Pending, acked, Len(Pending) + 1)
    <3>1. acked \/ \E k \in 1..Len(Pending) : Pending[k].type = "resumeAck"
      BY <1>7 DEF Inv, ShownInv
    <3>2. Len(Pending) \in Nat /\ 1..((Len(Pending) + 1) - 1) = 1..Len(Pending)
      BY Lines
    <3> QED
      BY <3>1, <3>2 DEF Applies
  <2>3. ASSUME NEW i \in Retained' PROVE Covered(i)'
    <3>1. CASE i \in Retained
      <4>1. i < Committed' /\ Covered(i)
        BY <1>2, <2>1, <3>1, RetainedGrows
      <4>2. \A k \in 1..Len(Added) :
               Added[k].type = "screen" /\ Added[k].altActive = FALSE => i < Added[k].base
        BY <4>1, AddedKinds
      <4> QED
        BY <1>1, <1>2, <1>3, <3>1, <4>1, <4>2, CoveredStays
    <3>2. CASE i \notin Retained
      <4>1. i \in Nat /\ Committed <= i /\ i \in Committed..(Committed' - 1) /\ Committed \in Nat
        BY <1>2, <3>2, RetainedGrows, Lines
      <4>2. MainLines \in Seq(Rows) /\ Committed' = Committed + Len(MainLines)
        BY <1>1, Drained DEF Inv, DataInv
      <4>3. i \in Committed..(Committed + Len(MainLines) - 1) /\ MainLines # <<>>
        BY <4>1, <4>2
      <4>4. /\ Added = <<BuiltScreen>> \o Chunks(Committed, MainLines)
            /\ BuiltScreen \in Message /\ BuiltScreen.type = "screen"
            /\ BuiltScreen.altActive = FALSE
        BY <1>7, <4>3, AddedWindow
      <4>5. WillBring(Added, TRUE, TRUE, i)
        <5> HIDE DEF BuiltScreen
        <5>1. WillBring(<<BuiltScreen>> \o Chunks(Committed, MainLines), TRUE, TRUE, i)
          BY <4>1, <4>2, <4>3, <4>4, WindowBrings
        <5> QED
          BY <4>4, <5>1
      <4>6. \A j \in 1..Len(Pending), x \in Nat : Applies(Pending, acked, j) /\ Brings(Pending[j], x)
               => x < i
        <5> SUFFICES ASSUME NEW j \in 1..Len(Pending), NEW x \in Nat, Brings(Pending[j], x)
                     PROVE  x < i
          OBVIOUS
        <5>1. x < Committed
          BY BroughtIsCommitted, Lines
        <5> QED
          BY <4>1, <5>1
      <4> DEFINE y == TRUE
                 z == AltSeen
      <4>7. y \in BOOLEAN /\ y /\ WillBring(Added, TRUE, y, i) /\ i \in Int
        <5>1. y \in BOOLEAN /\ y
          OBVIOUS
        <5>2. i \in Int
          BY <4>1
        <5> QED
          BY <4>5, <5>1, <5>2
      <4> HIDE DEF y, z
      <4>8. WillBring(Pending \o Added, acked, z, i)
        BY <1>3, <2>2, <4>6, <4>7, Followed
      <4>9. AltSeen' = z
        BY <1>1 DEF AltSeen, z
      <4> QED
        BY <1>1, <1>3, <4>8, <4>9 DEF Covered
    <3> QED
      BY <3>1, <3>2
  <2>4. MissedLast'
    <3> SUFFICES ASSUME ~acked \/ store.height = 0 PROVE ComesLast(Pending \o Added, acked, missed)
      BY <1>1, <1>3 DEF MissedLast
    <3>1. ComesLast(Pending, acked, missed)
      BY <2>1 DEF MissedLast
    <3> DEFINE S == Pending \o Added
    <3> SUFFICES ASSUME NEW k \in 1..Len(S), NEW x \in Nat, Applies(S, acked, k), Brings(S[k], x),
                        \A j \in 1..(k - 1) : ~DrawsMain(S, acked, j),
                        NEW i \in missed
                 PROVE  x < i
      BY DEF ComesLast
    <3>2. /\ Len(Pending) \in Nat /\ Len(Added) \in Nat
          /\ \/ k \in 1..Len(Pending) /\ S[k] = Pending[k]
             \/ k - Len(Pending) \in 1..Len(Added) /\ S[k] = Added[k - Len(Pending)]
      BY <1>3, Joined
    <3>3. CASE k \in 1..Len(Pending)
      <4>1. Applies(Pending, acked, k) /\ Brings(Pending[k], x)
        BY <1>3, <3>3, FrontApplies
      <4>2. \A j \in 1..(k - 1) : j \in 1..Len(Pending)
        BY <3>3
      <4>3. \A j \in 1..(k - 1) : ~DrawsMain(Pending, acked, j)
        BY <1>3, <4>2, FrontApplies
      <4> QED
        BY <3>1, <3>3, <4>1, <4>3 DEF ComesLast
    <3>4. CASE k - Len(Pending) \in 1..Len(Added) /\ S[k] = Added[k - Len(Pending)]
      <4> DEFINE u == <<BuiltScreen>>
                 C == Chunks(Committed, MainLines)
      <4>1. MainLines # <<>>
        BY <3>4, AddedKinds
      <4>2. /\ Added = u \o C /\ BuiltScreen \in Message
            /\ BuiltScreen.type = "screen" /\ BuiltScreen.altActive = FALSE
        BY <1>7, <4>1, AddedWindow
      <4>3. u \in Seq(Message) /\ Len(u) = 1 /\ u[1] = BuiltScreen
        BY <4>2, OneFrame
      <4>4. C \in Seq(Message)
        BY <1>1, Drained, LinesChunked DEF Inv, DataInv
      <4> HIDE DEF u, C
      <4>5. 1 \in 1..Len(u) /\ 1 \in 1..Len(Added) /\ Added[1] = BuiltScreen
        BY <4>2, <4>3, <4>4, Joined
      <4>6. k - Len(Pending) # 1
        BY <3>4, <4>2, <4>5 DEF Brings
      <4>7. Len(Pending) + 1 \in 1..(k - 1)
        BY <3>2, <3>4, <4>6
      <4>8. DrawsMain(Added, TRUE, 1)
        BY <4>2, <4>5 DEF DrawsMain, Applies
      <4>9. DrawsMain(S, acked, Len(Pending) + 1)
        BY <1>3, <2>2, <4>5, <4>8, BackApplies
      <4> QED
        BY <4>7, <4>9
    <3> QED
      BY <3>2, <3>3, <3>4
  <2> QED
    BY <2>3, <2>4
<1>8. ReplayInv'
  <2>1. Resumed' <=> Resumed
    BY <1>1 DEF Resumed
  <2> QED
    BY <1>7, <2>1 DEF ReplayInv
<1> QED
  BY <1>4, <1>5, <1>6, <1>8 DEF HistoryInv

-----------------------------------------------------------------------------
(* The page takes a frame.                                                   *)

\* The others stay as they were, and the socket is answered once.
LEMMA HeadTaken ==
    ASSUME Inv, HistoryInv, NEW type, Take(type), acked' <=> acked \/ type = "resumeAck"
    PROVE  /\ IsRest(Pending', Pending, acked, acked')
           /\ Pending[1] = Head(wire) /\ Head(wire) \in Message /\ Head(wire).type = type
           /\ Applies(Pending, acked, 1) <=> acked
           /\ UNCHANGED <<conn, asked, history, oldest>> /\ Committed' = Committed
           /\ conn # "closed" /\ Retained' = Retained /\ (Resumed' <=> Resumed)
           /\ acked => Resumed
           /\ AckInv'
<1> DEFINE m == Head(wire)
           P == Pending
           T == Pending'
<1>1. /\ wire # <<>> /\ m.type = type /\ wire' = Tail(wire)
      /\ UNCHANGED <<conn, asked, batch, frame, history, oldest>>
  BY DEF Take, serverVars, connVars, logVars
<1>2. /\ m \in Message /\ Len(P) \in Nat /\ 1 \in 1..Len(P) /\ P[1] = m
      /\ Len(T) = Len(P) - 1
      /\ \A k \in 1..Len(T) : k + 1 \in 1..Len(P) /\ T[k] = P[k + 1]
      /\ conn # "closed"
  BY <1>1, FrameTaken
<1>3. Committed' = Committed /\ Retained' = Retained /\ (Resumed' <=> Resumed)
  BY <1>1 DEF Committed, Retained, Resumed
<1>4. Applies(P, acked, 1) <=> acked
  <2>1. 1..(1 - 1) = {}
    OBVIOUS
  <2> QED
    BY <2>1 DEF Applies
<1>5. /\ acked => Resumed
      /\ \A k \in 1..Len(P) : P[k].type = "resumeAck" =>
            Resumed /\ ~acked /\ \A j \in 1..(k - 1) : P[j].type # "resumeAck"
  BY DEF HistoryInv, AckInv
<1> HIDE DEF P, T, m
<1>6. IsRest(T, P, acked, acked')
  BY <1>1, <1>2 DEF IsRest
<1>7. acked' => Resumed
  BY <1>1, <1>2, <1>5
<1>8. ASSUME NEW k \in 1..Len(T), T[k].type = "resumeAck"
      PROVE  Resumed /\ ~acked' /\ \A j \in 1..(k - 1) : T[j].type # "resumeAck"
  <2>1. k + 1 \in 1..Len(P) /\ P[k + 1].type = "resumeAck"
    BY <1>2, <1>8
  <2>2. Resumed /\ ~acked /\ \A j \in 1..((k + 1) - 1) : P[j].type # "resumeAck"
    BY <1>5, <2>1
  <2>3. 1 \in 1..((k + 1) - 1)
    BY <2>1
  <2>4. ~acked'
    BY <1>1, <1>2, <2>2, <2>3
  <2>5. \A j \in 1..(k - 1) : j + 1 \in 1..((k + 1) - 1) /\ j \in 1..Len(T)
    BY <1>2
  <2>6. \A j \in 1..(k - 1) : T[j] = P[j + 1]
    BY <1>2, <2>5
  <2> QED
    BY <2>2, <2>4, <2>5, <2>6
<1>9. AckInv'
  BY <1>3, <1>7, <1>8 DEF AckInv, T
<1> QED
  BY <1>1, <1>2, <1>3, <1>4, <1>5, <1>6, <1>9 DEF P, T, m

\* A page that has not been answered has drawn nothing on its socket.
LEMMA TakeKeepsSocket ==
    ASSUME Inv, HistoryInv, NEW type, Take(type), acked' <=> acked \/ type = "resumeAck",
           conn = "open" => UNCHANGED <<missed, windowSeen>>, missed' \subseteq Nat,
           \A i \in Retained : i \in forgone \/ Kept(i) => i \in forgone' \/ Kept(i)'
    PROVE  SocketInv'
<1>1. /\ UNCHANGED <<conn, asked, history, oldest>> /\ Committed' = Committed
      /\ conn # "closed" /\ Retained' = Retained
  BY HeadTaken
<1>2. conn = "open" => /\ ~windowSeen /\ missed = {} /\ asked < Committed
                       /\ \A i \in Retained : i <= asked => i \in forgone \/ Kept(i)
  BY DEF HistoryInv, SocketInv
<1> QED
  BY <1>1, <1>2 DEF SocketInv

\* What was on its way is so still, unless the frame brought it.
LEMMA TakeKeepsReplay ==
    ASSUME Inv, HistoryInv, NEW type, Take(type), acked' <=> acked \/ type = "resumeAck",
           forgone \subseteq forgone', missed \subseteq missed',
           AltSeen' => AltSeen \/ DrawsAlt(Pending, acked, 1),
           DrawsMain(Pending, acked, 1) => ~AltSeen',
           \A i \in Retained :
              Kept(i) /\ (DrawsMain(Pending, acked, 1) => i < Pending[1].base)
                 => i \in forgone' \/ Kept(i)',
           \A i \in Retained : acked /\ ~AltSeen /\ Brings(Head(wire), i)
                 => i \in forgone' \/ i \in missed' \/ Kept(i)',
           Resumed => MissedLast'
    PROVE  ReplayInv'
<1> DEFINE T == Pending'
           b == acked'
           y == AltSeen'
<1>1. /\ IsRest(T, Pending, acked, b)
      /\ Pending[1] = Head(wire) /\ Retained' = Retained /\ (Resumed' <=> Resumed)
  BY HeadTaken
<1>2. ASSUME Resumed, NEW i \in Retained PROVE Covered(i)'
  <2>1. Covered(i)
    BY <1>2 DEF HistoryInv, ReplayInv
  <2>2. CASE i \in forgone \/ i \in missed
    BY <2>2 DEF Covered
  <2>3. CASE Kept(i) /\ Spared(Pending, acked, i, 0)
    <3> HIDE DEF T, b
    <3>1. Spared(T, b, i, 0) /\ (DrawsMain(Pending, acked, 1) => i < Pending[1].base)
      <4>1. 0 \in Nat
        OBVIOUS
      <4> QED
        BY <1>1, <2>3, <4>1, RestSpares
    <3>2. i \in forgone' \/ Kept(i)'
      BY <2>3, <3>1
    <3> QED
      BY <3>1, <3>2 DEF Covered, T, b
  <2>4. CASE WillBring(Pending, acked, AltSeen, i)
    <3> DEFINE z == AltSeen
    <3>1. (y => z \/ DrawsAlt(Pending, acked, 1)) /\ (DrawsMain(Pending, acked, 1) => ~y)
      OBVIOUS
    <3>2. WillBring(Pending, acked, z, i)
      BY <2>4
    <3> HIDE DEF T, b, y, z
    <3>3. \/ WillBring(T, b, y, i)
          \/ acked /\ Brings(Pending[1], i) /\ ~z /\ Spared(T, b, i, 0)
      BY <1>1, <3>1, <3>2, RestBrings
    <3> USE DEF T, b, y, z
    <3>4. CASE WillBring(T, b, y, i)
      BY <3>4 DEF Covered
    <3>5. CASE acked /\ Brings(Pending[1], i) /\ ~z /\ Spared(T, b, i, 0)
      <4>1. i \in forgone' \/ i \in missed' \/ Kept(i)'
        BY <1>1, <3>5
      <4> QED
        BY <3>5, <4>1 DEF Covered
    <3> QED
      BY <3>3, <3>4, <3>5
  <2> QED
    BY <2>1, <2>2, <2>3, <2>4 DEF Covered
<1> QED
  BY <1>1, <1>2 DEF ReplayInv

\* When the frame draws no window, what comes last still does.
LEMMA TakeKeepsLast ==
    ASSUME Inv, HistoryInv, NEW type, Take(type), acked' <=> acked \/ type = "resumeAck",
           ~DrawsMain(Pending, acked, 1), missed' = missed,
           ~acked' \/ store'.height = 0 => ~acked \/ store.height = 0,
           Resumed
    PROVE  MissedLast'
<1> DEFINE T == Pending'
           b == acked'
<1>1. IsRest(T, Pending, acked, b)
  BY HeadTaken
<1>2. SUFFICES ASSUME ~acked \/ store.height = 0 PROVE ComesLast(T, b, missed)
  BY DEF MissedLast
<1>3. ComesLast(Pending, acked, missed)
  BY <1>2 DEF HistoryInv, ReplayInv, MissedLast
<1> HIDE DEF T, b
<1> QED
  BY <1>1, <1>3, RestComesLast

\* The resumeAck may take the window, nothing else.
LEMMA AckTakesWindow ==
    ASSUME NEW s, IsStore(s), NEW m, NEW have, NEW max
    PROVE  LET t == ApplyResumeAck(s, m, have, max)
           IN  t.alt = s.alt /\ t.height \in {s.height, 0}
<1> DEFINE t == ApplyResumeAck(s, m, have, max)
           u == [s EXCEPT !.base = 0, !.height = 0]
<1>1. t = u \/ t = s
  BY DEF ApplyResumeAck
<1>2. u.alt = s.alt /\ u.height = 0
  BY DEF IsStore
<1> HIDE DEF u, t
<1>3. t.alt = s.alt /\ t.height \in {s.height, 0}
  BY <1>1, <1>2
<1> QED
  BY <1>3 DEF t

\* A resumeAck takes nothing that the page holds.
LEMMA AckKeepsHistory ==
    ASSUME Inv, HistoryInv, ReceiveResumeAck
    PROVE  HistoryInv'
<1> DEFINE m == Head(wire)
           t == ApplyResumeAck(store, m, asked, MaxReplayLines)
           type == "resumeAck"
<1>1. /\ Take(type) /\ acked' = TRUE /\ store' = t
      /\ UNCHANGED <<forgone, awaited, missed, unproven, windowSeen>>
  BY DEF ReceiveResumeAck, giveUpVars
<1>2. acked' <=> acked \/ type = "resumeAck"
  BY <1>1
<1>3. /\ IsStore(t) /\ t.lines = store.lines /\ Held(t) = Held(store)
      /\ t.unconfirmedFrom = store.unconfirmedFrom /\ t.erasedThrough = store.erasedThrough
  BY Lines, AckApplied DEF t
<1>4. t.alt = store.alt /\ t.height \in {store.height, 0} /\ store.height \in Nat
  BY Lines, AckTakesWindow DEF t
<1>5. type = "resumeAck" /\ type # "screen"
  OBVIOUS
<1> HIDE DEF t, type, m
<1>6. /\ Pending[1] = Head(wire) /\ Head(wire).type = type
      /\ UNCHANGED <<history, oldest>> /\ Committed' = Committed /\ Retained' = Retained
      /\ AckInv'
      /\ IsRest(Pending', Pending, acked, acked')
  BY <1>1, <1>2, HeadTaken
<1>7. ~DrawsMain(Pending, acked, 1) /\ ~DrawsAlt(Pending, acked, 1)
  BY <1>5, <1>6 DEF DrawsMain, DrawsAlt
<1>8. ~acked /\ Resumed
  <2>1. 1 \in 1..Len(Pending)
    BY <1>6 DEF IsRest
  <2> QED
    BY <1>5, <1>6, <2>1 DEF HistoryInv, AckInv
<1>9. FloorInv'
  BY <1>1, <1>3, <1>4, <1>6 DEF HistoryInv, FloorInv
<1>10. BelowInv'
  <2>1. Highest(t) = Highest(store)
    BY <1>3 DEF Highest
  <2>2. t.height > 0 => store.height > 0
    BY <1>4
  <2> QED
    BY <1>1, <1>3, <1>6, <2>1, <2>2 DEF HistoryInv, BelowInv, BelowFloor
<1>11. \A i \in Retained : Kept(i) => Kept(i)'
  BY <1>1, <1>3, <1>6 DEF Kept, Right
<1>12. SocketInv'
  BY <1>1, <1>2, <1>11, TakeKeepsSocket DEF HistoryInv, SocketInv
<1>13. Resumed => MissedLast'
  BY <1>1, <1>2, <1>7, <1>8, TakeKeepsLast
<1>14. AltSeen' <=> AltSeen
  BY <1>1, <1>4 DEF AltSeen
<1>15. ReplayInv'
  <2>1. \A i \in Retained : ~(acked /\ ~AltSeen /\ Brings(Head(wire), i))
    BY <1>8
  <2> QED
    BY <1>1, <1>2, <1>7, <1>11, <1>13, <1>14, <2>1, TakeKeepsReplay
<1> QED
  BY <1>6, <1>9, <1>10, <1>12, <1>15 DEF HistoryInv

\* Nor does a scroll frame before it: it is dropped.
LEMMA EarlyScrollKeepsHistory ==
    ASSUME Inv, HistoryInv, ReceiveEarlyScroll
    PROVE  HistoryInv'
<1> DEFINE type == "scroll"
<1>1. /\ Take(type) /\ ~acked
      /\ UNCHANGED <<store, acked, forgone, awaited, missed, unproven, windowSeen>>
  BY DEF ReceiveEarlyScroll, giveUpVars, pageVars
<1>2. acked' <=> acked \/ type = "resumeAck"
  BY <1>1
<1> HIDE DEF type
<1>3. /\ UNCHANGED <<history, oldest>> /\ Committed' = Committed /\ Retained' = Retained
      /\ AckInv' /\ (Applies(Pending, acked, 1) <=> acked)
  BY <1>1, <1>2, HeadTaken
<1>4. ~DrawsMain(Pending, acked, 1)
  BY <1>1, <1>3 DEF DrawsMain
<1>5. FloorInv' /\ BelowInv'
  BY <1>1, <1>3 DEF HistoryInv, FloorInv, BelowInv, BelowFloor
<1>6. \A i \in Retained : Kept(i) => Kept(i)'
  BY <1>1, <1>3 DEF Kept, Right
<1>7. SocketInv'
  BY <1>1, <1>2, <1>6, TakeKeepsSocket DEF HistoryInv, SocketInv
<1>8. Resumed => MissedLast'
  BY <1>1, <1>2, <1>4, TakeKeepsLast
<1>9. AltSeen' <=> AltSeen
  BY <1>1 DEF AltSeen
<1>10. ReplayInv'
  <2>1. \A i \in Retained : ~(acked /\ ~AltSeen /\ Brings(Head(wire), i))
    BY <1>1
  <2> QED
    BY <1>1, <1>2, <1>4, <1>6, <1>8, <1>9, <2>1, TakeKeepsReplay
<1> QED
  BY <1>3, <1>5, <1>7, <1>10 DEF HistoryInv

\* The lines an erase gives up.
Dropped(m) == IF m.scrollbackCleared THEN forgone \cup 0..(m.base - 1) ELSE forgone

\* Of a store that an erase was read for: the floor is where it should be, and what
\* was kept is kept or given up.
ErasedFits(c, m) ==
    /\ c.erasedThrough < c.unconfirmedFrom /\ c.erasedThrough < m.base
    /\ \/ c.unconfirmedFrom <= Committed
       \/ c.height = 0 /\ Held(c) \subseteq 0..(Committed - 1)
    /\ \A i \in unproven : i \in Nat /\ i < c.unconfirmedFrom
    /\ \A i \in Nat : i <= c.erasedThrough => i \in Dropped(m)
    /\ \A i \in Retained : i < c.unconfirmedFrom /\ (i <= Highest(store) \/ c.height > 0)
          => i \in Held(c) \cup Dropped(m) \cup awaited \cup unproven
    /\ \A i \in Retained : Kept(i) => \/ i \in Dropped(m) \/ i \in unproven
                                      \/ i \in Held(c) /\ i < Committed
                                         /\ c.lines[i] = history[i + 1]

\* An erase drops the rows above its window, and the floor is not below it.
LEMMA EraseDrops ==
    ASSUME NEW s, IsStore(s), NEW m, IsScreen(m), m.scrollbackCleared
    PROVE  LET c == Cleared(s, m)
           IN  /\ IsStore(c) /\ c.height = s.height
               /\ \A i : i \in Held(c) <=> i \in Held(s) /\ i >= m.base
               /\ \A i \in Held(c) : c.lines[i] = s.lines[i]
               /\ c.unconfirmedFrom = IF s.unconfirmedFrom >= m.base THEN s.unconfirmedFrom
                                      ELSE m.base
               /\ c.erasedThrough = s.erasedThrough \/ c.erasedThrough < m.base
<1> DEFINE c == Cleared(s, m)
<1>1. m.base \in Nat
  BY DEF IsScreen
<1>2. /\ IsStore(c) /\ c.height = s.height
      /\ Held(c) = {i \in Held(s) : i >= m.base}
      /\ \A i \in Held(c) : c.lines[i] = s.lines[i]
      /\ c.unconfirmedFrom = IF s.unconfirmedFrom >= m.base THEN s.unconfirmedFrom ELSE m.base
      /\ \/ c.erasedThrough = s.erasedThrough
         \/ c.erasedThrough \in Held(s) /\ c.erasedThrough < m.base
  BY <1>1, ClearApplied DEF Cleared
<1> HIDE DEF c
<1>3. \A i : i \in Held(c) <=> i \in Held(s) /\ i >= m.base
  BY <1>2
<1> QED
  BY <1>2, <1>3 DEF c

\* So the floor stays where it should be.
LEMMA EraseFits ==
    ASSUME Inv, HistoryInv, NEW m \in Message, m.type = "screen",
           store.erasedThrough < m.base, m.base <= Committed
    PROVE  ErasedFits(Cleared(store, m), m) /\ forgone \subseteq Dropped(m)
<1> DEFINE c == Cleared(store, m)
           s == store
<1>1. /\ IsStore(s) /\ Committed \in Nat /\ s.unconfirmedFrom \in Nat /\ s.erasedThrough \in Int
      /\ Held(s) \subseteq Nat
      /\ Retained \subseteq Nat /\ s.height \in Nat
  BY Lines
<1>2. IsScreen(m) /\ m.base \in Nat
  BY MessageKinds DEF IsScreen
<1>3. /\ s.erasedThrough < s.unconfirmedFrom /\ s.erasedThrough < m.base
      /\ \/ s.unconfirmedFrom <= Committed
         \/ s.height = 0 /\ Held(s) \subseteq 0..(Committed - 1)
      /\ \A i \in unproven : i \in Nat /\ i < s.unconfirmedFrom
      /\ \A i \in Nat : i <= s.erasedThrough => i \in forgone
      /\ \A i \in Retained : i < s.unconfirmedFrom /\ (i <= Highest(s) \/ s.height > 0)
            => i \in Held(s) \cup forgone \cup awaited \cup unproven
  BY DEF HistoryInv, FloorInv, BelowInv, BelowFloor
<1>4. \A i \in Retained : Kept(i) => \/ i \in unproven
                                     \/ i \in Held(s) /\ i < Committed /\ s.lines[i] = history[i + 1]
  BY DEF Kept, Right
<1>5. forgone \subseteq Dropped(m)
  BY DEF Dropped
<1>6. CASE ~m.scrollbackCleared
  <2>1. c = s /\ Dropped(m) = forgone
    BY <1>6 DEF Cleared, Dropped
  <2> HIDE DEF c, s
  <2>2. ErasedFits(c, m)
    BY <1>3, <1>4, <2>1 DEF ErasedFits, s
  <2> QED
    BY <1>5, <2>2 DEF c
<1>7. CASE m.scrollbackCleared
  <2>1. c = ApplyScrollbackCleared(s, m.base) /\ Dropped(m) = forgone \cup 0..(m.base - 1)
    BY <1>7 DEF Cleared, Dropped
  <2> HIDE DEF c, s
  <2>2. /\ IsStore(c) /\ c.height = s.height
        /\ \A i : i \in Held(c) <=> i \in Held(s) /\ i >= m.base
        /\ \A i \in Held(c) : c.lines[i] = s.lines[i]
        /\ c.unconfirmedFrom = IF s.unconfirmedFrom >= m.base THEN s.unconfirmedFrom ELSE m.base
        /\ c.erasedThrough = s.erasedThrough \/ c.erasedThrough < m.base
    BY <1>1, <1>2, <1>7, EraseDrops DEF c, s
  <2>3. c.erasedThrough \in Int
    BY <2>2 DEF IsStore
  <2>4. \A i \in Nat : i < m.base => i \in Dropped(m)
    BY <1>2, <2>1
  <2>5. c.erasedThrough < c.unconfirmedFrom /\ c.erasedThrough < m.base
    BY <1>1, <1>2, <1>3, <2>2, <2>3
  <2>6. \/ c.unconfirmedFrom <= Committed
        \/ c.height = 0 /\ Held(c) \subseteq 0..(Committed - 1)
    <3>1. CASE s.unconfirmedFrom <= Committed
      BY <2>2, <3>1
    <3>2. CASE s.height = 0 /\ Held(s) \subseteq 0..(Committed - 1)
      BY <2>2, <3>2
    <3> QED
      BY <1>3, <3>1, <3>2
  <2>7. \A i \in unproven : i \in Nat /\ i < c.unconfirmedFrom
    <3> SUFFICES ASSUME NEW i \in unproven PROVE i \in Nat /\ i < c.unconfirmedFrom
      OBVIOUS
    <3>1. i \in Nat /\ i < s.unconfirmedFrom
      BY <1>3
    <3> QED
      BY <1>1, <1>2, <2>2, <3>1
  <2>8. \A i \in Nat : i <= c.erasedThrough => i \in Dropped(m)
    BY <1>2, <2>3, <2>4, <2>5
  <2>9. ASSUME NEW i \in Retained, i < c.unconfirmedFrom, i <= Highest(s) \/ c.height > 0
        PROVE  i \in Held(c) \cup Dropped(m) \cup awaited \cup unproven
    <3>1. CASE i < m.base
      BY <1>1, <2>4, <3>1
    <3>2. CASE i >= m.base
      <4>1. i < s.unconfirmedFrom
        BY <1>1, <1>2, <2>2, <2>9, <3>2
      <4>2. i \in Held(s) \cup forgone \cup awaited \cup unproven
        BY <1>3, <2>2, <2>9, <4>1
      <4> QED
        BY <1>5, <2>2, <3>2, <4>2
    <3> QED
      BY <1>1, <1>2, <3>1, <3>2
  <2>10. ASSUME NEW i \in Retained, Kept(i)
         PROVE  \/ i \in Dropped(m) \/ i \in unproven
                \/ i \in Held(c) /\ i < Committed /\ c.lines[i] = history[i + 1]
    <3>1. CASE i < m.base
      BY <1>1, <2>4, <3>1
    <3>2. CASE i >= m.base
      BY <1>4, <2>2, <2>10, <3>2
    <3> QED
      BY <1>1, <1>2, <3>1, <3>2
  <2>11. ErasedFits(c, m)
    BY <2>5, <2>6, <2>7, <2>8, <2>9, <2>10 DEF ErasedFits, s
  <2> QED
    BY <1>5, <2>11 DEF c
<1> QED
  BY <1>6, <1>7

\* A frame read for its erase gives up what it drops.
LEMMA EarlyScreenKeepsHistory ==
    ASSUME Inv, HistoryInv, ReceiveEarlyScreen
    PROVE  HistoryInv'
<1> DEFINE m == Head(wire)
           c == Cleared(store, m)
           type == "screen"
<1>1. /\ Take(type) /\ ~acked
      /\ UNCHANGED <<acked, awaited, missed, unproven, windowSeen>>
      /\ forgone' = Dropped(m)
      /\ store' = IF m.scrollbackCleared THEN ApplyScreen(store, [m EXCEPT !.height = 0]) ELSE store
  BY DEF ReceiveEarlyScreen, Dropped
<1>2. acked' <=> acked \/ type = "resumeAck"
  BY <1>1
<1>3. m \in Message /\ m.type = "screen" /\ store.erasedThrough < m.base /\ m.base <= Committed
  BY <1>1, TakeFits
<1>4. store' = c
  <2>1. /\ IsScreen(m)
        /\ m = [type |-> m.type, base |-> m.base, height |-> m.height, rows |-> m.rows,
                altActive |-> m.altActive, scrollbackCleared |-> m.scrollbackCleared]
    BY <1>3, MessageKinds
  <2>2. ApplyScreen(store, [m EXCEPT !.height = 0]) = c
    <3> HIDE DEF m
    <3> QED
      BY <2>1, EarlyApplied
  <2>3. ~m.scrollbackCleared => c = store
    BY DEF Cleared
  <2> HIDE DEF m, c
  <2> QED
    BY <1>1, <2>2, <2>3
<1> HIDE DEF type
<1>5. /\ UNCHANGED <<history, oldest>> /\ Committed' = Committed /\ Retained' = Retained
      /\ AckInv' /\ (Applies(Pending, acked, 1) <=> acked)
  BY <1>1, <1>2, HeadTaken
<1>6. c.alt = store.alt /\ c.height = store.height /\ IsStore(c) /\ \A i \in Held(c) : i \in Held(store)
  <2> HIDE DEF m
  <2>1. IsScreen(m) /\ IsStore(store)
    BY <1>3, MessageKinds, Lines
  <2> QED
    BY <2>1, ClearedRows
<1> HIDE DEF m
<1>7. ErasedFits(c, m) /\ forgone \subseteq Dropped(m)
  BY <1>3, EraseFits
<1> HIDE DEF c
<1>8. ~DrawsMain(Pending, acked, 1)
  BY <1>1, <1>5 DEF DrawsMain
<1>9. FloorInv'
  BY <1>1, <1>4, <1>5, <1>7 DEF ErasedFits, FloorInv
<1>10. BelowInv'
  <2> SUFFICES ASSUME NEW i \in Retained, i < c.unconfirmedFrom, i <= Highest(c) \/ c.height > 0
               PROVE  i \in Held(c) \cup Dropped(m) \cup awaited \cup unproven
    BY <1>1, <1>4, <1>5 DEF BelowInv, BelowFloor
  <2>1. i <= Highest(store) \/ c.height > 0
    <3> SUFFICES ASSUME i <= Highest(c) PROVE i <= Highest(store)
      OBVIOUS
    <3>1. i \in Nat /\ Highest(c) \in Held(c) \cup {-1} /\ Highest(c) \in Int /\ Highest(store) \in Int
      BY <1>6, Lines, Extremes
    <3>2. Highest(c) \in Held(store)
      BY <1>6, <3>1
    <3>3. Highest(c) <= Highest(store)
      BY <3>2, Lines, Extremes
    <3> QED
      BY <3>1, <3>3
  <2> QED
    BY <1>7, <2>1 DEF ErasedFits
<1>11. \A i \in Retained : Kept(i) => i \in forgone' \/ Kept(i)'
  BY <1>1, <1>4, <1>5, <1>7 DEF ErasedFits, Kept, Right
<1>12. SocketInv'
  <2>1. \A i \in Retained : i \in forgone \/ Kept(i) => i \in forgone' \/ Kept(i)'
    BY <1>1, <1>7, <1>11
  <2> QED
    BY <1>1, <1>2, <2>1, TakeKeepsSocket DEF HistoryInv, SocketInv
<1>13. Resumed => MissedLast'
  BY <1>1, <1>2, <1>8, TakeKeepsLast
<1>14. AltSeen' <=> AltSeen
  BY <1>1, <1>4, <1>6 DEF AltSeen
<1>15. ReplayInv'
  <2>1. \A i \in Retained : ~(acked /\ ~AltSeen /\ Brings(Head(wire), i))
    BY <1>1
  <2> QED
    BY <1>1, <1>2, <1>7, <1>8, <1>11, <1>13, <1>14, <2>1, TakeKeepsReplay
<1> QED
  BY <1>5, <1>9, <1>10, <1>12, <1>15 DEF HistoryInv

\* What a frame taken after the resumeAck makes of the page's rows.
LEMMA ScreenTaken ==
    ASSUME Inv, HistoryInv, ReceiveScreen
    PROVE  LET m == Head(wire)
           IN  /\ Take("screen") /\ acked /\ acked' = acked
               /\ missed' = missed /\ windowSeen' = TRUE
               /\ store' = ApplyScreen(store, m) /\ forgone' = Dropped(m)
               /\ awaited' = IF ~m.altActive /\ store.height = 0
                             THEN awaited \cup ((Highest(store) + 1)..(m.base - 1)) ELSE awaited
               /\ unproven' = {i \in unproven : i < store'.unconfirmedFrom}
               /\ m \in Message /\ m.type = "screen" /\ IsScreen(m)
               /\ m.base \in Nat /\ m.base <= Committed /\ m.altActive \in BOOLEAN
               /\ ErasedFits(Cleared(store, m), m) /\ forgone \subseteq Dropped(m)
               /\ Cleared(store, m).height = store.height /\ IsStore(Cleared(store, m))
               /\ \A i \in Held(Cleared(store, m)) : i \in Held(store)
               /\ conn # "open"
<1> DEFINE m == Head(wire)
           type == "screen"
<1>1. Take(type) /\ acked /\ acked' = acked
  BY DEF ReceiveScreen
<1>2. /\ missed' = missed /\ windowSeen' = TRUE
      /\ store' = ApplyScreen(store, m) /\ forgone' = Dropped(m)
      /\ awaited' = IF ~m.altActive /\ store.height = 0
                    THEN awaited \cup ((Highest(store) + 1)..(m.base - 1)) ELSE awaited
      /\ unproven' = {i \in unproven : i < store'.unconfirmedFrom}
  BY DEF ReceiveScreen, Dropped
<1>3. m \in Message /\ m.type = "screen" /\ store.erasedThrough < m.base /\ m.base <= Committed
  BY <1>1, TakeFits
<1>4. acked' <=> acked \/ type = "resumeAck"
  BY <1>1
<1> HIDE DEF type
<1>5. acked => Resumed
  BY <1>1, <1>4, HeadTaken
<1> HIDE DEF m
<1>6. IsScreen(m) /\ IsStore(store)
  BY <1>3, MessageKinds, Lines
<1>7. /\ Cleared(store, m).height = store.height /\ IsStore(Cleared(store, m))
      /\ \A i \in Held(Cleared(store, m)) : i \in Held(store)
  BY <1>6, ClearedRows
<1>8. ErasedFits(Cleared(store, m), m) /\ forgone \subseteq Dropped(m)
  BY <1>3, EraseFits
<1>9. m.base \in Nat /\ m.altActive \in BOOLEAN /\ conn # "open"
  BY <1>1, <1>5, <1>6 DEF IsScreen, Resumed
<1> QED
  BY <1>1, <1>2, <1>3, <1>6, <1>7, <1>8, <1>9 DEF m, type

\* In the alternate screen it leaves the lines as they are, but for an erase.
LEMMA AltScreenKeepsHistory ==
    ASSUME Inv, HistoryInv, ReceiveScreen, Head(wire).altActive
    PROVE  HistoryInv'
<1> DEFINE m == Head(wire)
           c == Cleared(store, m)
           type == "screen"
<1>1. /\ Take(type) /\ acked /\ acked' = acked
      /\ missed' = missed /\ windowSeen' = TRUE /\ awaited' = awaited
      /\ store' = ApplyScreen(store, m) /\ forgone' = Dropped(m)
      /\ unproven' = {i \in unproven : i < store'.unconfirmedFrom}
      /\ m \in Message /\ m.type = "screen" /\ IsScreen(m) /\ conn # "open"
      /\ m.altActive \in BOOLEAN
      /\ ErasedFits(c, m) /\ forgone \subseteq Dropped(m) /\ c.height = store.height /\ IsStore(c)
      /\ \A i \in Held(c) : i \in Held(store)
  BY ScreenTaken
<1>2. acked' <=> acked \/ type = "resumeAck"
  BY <1>1
<1> HIDE DEF type
<1>3. /\ UNCHANGED <<history, oldest>> /\ Committed' = Committed /\ Retained' = Retained
      /\ AckInv' /\ (Applies(Pending, acked, 1) <=> acked) /\ Pending[1] = m
  BY <1>1, <1>2, HeadTaken
<1>4. m.altActive = TRUE /\ m.altActive # FALSE
  BY <1>1
<1> HIDE DEF m
<1> DEFINE t == ApplyScreen(store, m)
<1>5. /\ Held(t) = Held(c) /\ t.lines = c.lines /\ t.unconfirmedFrom = c.unconfirmedFrom
      /\ t.erasedThrough = c.erasedThrough /\ t.height = c.height
  <2>1. IsStore(store) /\ IsScreen(m) /\ m.altActive /\ Height \in Nat \ {0}
    BY <1>1, <1>4, Lines, Sizes
  <2>2. SameLines(t, c)
    BY <2>1, AltApplied
  <2> HIDE DEF t, c
  <2> QED
    BY <2>2 DEF SameLines
<1> HIDE DEF t, c
<1>6. store' = t
  BY <1>1 DEF t
<1>7. \A i \in unproven : i < c.unconfirmedFrom
  BY <1>1 DEF ErasedFits
<1>8. unproven' = unproven
  BY <1>1, <1>5, <1>6, <1>7
<1>9. ~DrawsMain(Pending, acked, 1) /\ DrawsAlt(Pending, acked, 1)
  BY <1>1, <1>3, <1>4 DEF DrawsMain, DrawsAlt
<1>10. FloorInv'
  BY <1>1, <1>3, <1>5, <1>6, <1>8 DEF ErasedFits, FloorInv
<1>11. BelowInv'
  <2>1. Highest(t) = Highest(c)
    BY <1>5 DEF Highest
  <2> SUFFICES ASSUME NEW i \in Retained, i < c.unconfirmedFrom, i <= Highest(c) \/ c.height > 0
               PROVE  i \in Held(c) \cup Dropped(m) \cup awaited \cup unproven
    BY <1>1, <1>3, <1>5, <1>6, <1>8, <2>1 DEF BelowInv, BelowFloor
  <2>2. i <= Highest(store) \/ c.height > 0
    <3> SUFFICES ASSUME i <= Highest(c) PROVE i <= Highest(store)
      OBVIOUS
    <3>1. i \in Nat /\ Highest(c) \in Held(c) \cup {-1} /\ Highest(c) \in Int /\ Highest(store) \in Int
      BY <1>1, Lines, Extremes
    <3>2. Highest(c) \in Held(store)
      BY <1>1, <3>1
    <3>3. Highest(c) <= Highest(store)
      BY <3>2, Lines, Extremes
    <3> QED
      BY <3>1, <3>3
  <2> QED
    BY <1>1, <2>2 DEF ErasedFits
<1>12. \A i \in Retained : Kept(i) => i \in forgone' \/ Kept(i)'
  BY <1>1, <1>3, <1>5, <1>6, <1>8 DEF ErasedFits, Kept, Right
<1>13. SocketInv'
  <2>1. \A i \in Retained : i \in forgone \/ Kept(i) => i \in forgone' \/ Kept(i)'
    BY <1>1, <1>12
  <2> QED
    BY <1>1, <1>2, <2>1, TakeKeepsSocket DEF HistoryInv, SocketInv
<1>14. Resumed => MissedLast'
  BY <1>1, <1>2, <1>5, <1>6, <1>9, TakeKeepsLast
<1>15. ReplayInv'
  <2>1. \A i \in Retained : ~Brings(Head(wire), i)
    BY <1>1 DEF Brings, m
  <2> QED
    BY <1>1, <1>2, <1>9, <1>12, <1>14, <2>1, TakeKeepsReplay
<1> QED
  BY <1>3, <1>10, <1>11, <1>13, <1>15 DEF HistoryInv

\* A window of the main screen lowers the floor to its top, and a first one may run
\* ahead of lines that are still to come.
LEMMA MainScreenKeepsHistory ==
    ASSUME Inv, HistoryInv, ReceiveScreen, ~Head(wire).altActive
    PROVE  HistoryInv'
<1> DEFINE m == Head(wire)
           c == Cleared(store, m)
           type == "screen"
<1>1. /\ Take(type) /\ acked /\ acked' = acked
      /\ missed' = missed /\ windowSeen' = TRUE
      /\ awaited' = IF ~m.altActive /\ store.height = 0
                    THEN awaited \cup ((Highest(store) + 1)..(m.base - 1)) ELSE awaited
      /\ store' = ApplyScreen(store, m) /\ forgone' = Dropped(m)
      /\ unproven' = {i \in unproven : i < store'.unconfirmedFrom}
      /\ m \in Message /\ m.type = "screen" /\ IsScreen(m) /\ conn # "open"
      /\ m.altActive \in BOOLEAN /\ m.base \in Nat /\ m.base <= Committed
      /\ ErasedFits(c, m) /\ forgone \subseteq Dropped(m) /\ c.height = store.height /\ IsStore(c)
      /\ \A i \in Held(c) : i \in Held(store)
  BY ScreenTaken
<1>2. acked' <=> acked \/ type = "resumeAck"
  BY <1>1
<1> HIDE DEF type
<1>3. /\ UNCHANGED <<history, oldest>> /\ Committed' = Committed /\ Retained' = Retained
      /\ AckInv' /\ (Applies(Pending, acked, 1) <=> acked) /\ Pending[1] = m
  BY <1>1, <1>2, HeadTaken
<1>4. m.altActive = FALSE
  BY <1>1
<1>5. Retained \subseteq Nat /\ Committed \in Nat /\ c.unconfirmedFrom \in Nat
      /\ c.erasedThrough \in Int /\ Height \in Nat \ {0}
      /\ \A i \in Held(c) : i \in Nat
  BY <1>1, Lines, Sizes DEF IsStore
<1> HIDE DEF m
<1> DEFINE t == ApplyScreen(store, m)
<1>6. /\ t.height = Height /\ t.alt = FALSE /\ t.erasedThrough = c.erasedThrough
      /\ t.unconfirmedFrom = IF c.unconfirmedFrom <= m.base THEN c.unconfirmedFrom ELSE m.base
      /\ MainDrawn(t, c, m)
  <2>1. IsStore(store) /\ IsScreen(m) /\ ~m.altActive
    BY <1>1, <1>4, Lines
  <2> QED
    BY <2>1, MainRows
<1>7. DOMAIN m.rows \subseteq 1..Height
  BY <1>1 DEF IsScreen
<1> HIDE DEF t, c
<1>8. store' = t
  BY <1>1 DEF t
<1>9. /\ c.erasedThrough < c.unconfirmedFrom /\ c.erasedThrough < m.base
      /\ \A i \in unproven : i \in Nat /\ i < c.unconfirmedFrom
      /\ \A i \in Nat : i <= c.erasedThrough => i \in Dropped(m)
      /\ \A i \in Retained : i < c.unconfirmedFrom /\ (i <= Highest(store) \/ c.height > 0)
            => i \in Held(c) \cup Dropped(m) \cup awaited \cup unproven
      /\ \A i \in Retained : Kept(i) => \/ i \in Dropped(m) \/ i \in unproven
                                        \/ i \in Held(c) /\ i < Committed
                                           /\ c.lines[i] = history[i + 1]
  BY <1>1 DEF ErasedFits
<1>10. t.unconfirmedFrom <= m.base /\ t.unconfirmedFrom <= c.unconfirmedFrom /\ t.unconfirmedFrom \in Nat
  BY <1>1, <1>5, <1>6
<1>11. DrawsMain(Pending, acked, 1)
  BY <1>1, <1>3, <1>4 DEF DrawsMain
<1>12. ASSUME NEW i \in Held(c), i < m.base PROVE i \in Held(t) /\ t.lines[i] = c.lines[i]
  <2>1. i \in Nat /\ i < m.base + Height
    BY <1>1, <1>5, <1>12
  <2>2. i \in Held(t)
    BY <1>6, <2>1 DEF MainDrawn
  <2>3. i - m.base + 1 \notin DOMAIN m.rows
    <3>1. i - m.base + 1 \notin 1..Height
      BY <1>1, <1>12, <2>1
    <3> QED
      BY <1>7, <3>1
  <2> QED
    BY <1>6, <2>2, <2>3 DEF MainDrawn
<1>13. FloorInv'
  <2>1. t.erasedThrough < t.unconfirmedFrom
    BY <1>1, <1>5, <1>6, <1>9
  <2>2. t.unconfirmedFrom <= Committed
    BY <1>1, <1>5, <1>10
  <2>3. \A i \in unproven' : i \in Nat /\ i < t.unconfirmedFrom
    BY <1>1, <1>8, <1>9
  <2> QED
    BY <1>1, <1>3, <1>6, <1>8, <1>9, <2>1, <2>2, <2>3 DEF FloorInv
<1>14. BelowInv'
  <2> SUFFICES ASSUME NEW i \in Retained, i < t.unconfirmedFrom
               PROVE  i \in Held(t) \cup Dropped(m) \cup awaited' \cup unproven'
    BY <1>1, <1>3, <1>8 DEF BelowInv, BelowFloor
  <2>1. i \in Nat /\ i < m.base /\ i < c.unconfirmedFrom
    BY <1>1, <1>5, <1>10
  <2>2. awaited \subseteq awaited' /\ (i \in unproven => i \in unproven')
    BY <1>1, <1>8
  <2>3. CASE i <= Highest(store) \/ c.height > 0
    <3>1. i \in Held(c) \cup Dropped(m) \cup awaited \cup unproven
      BY <1>9, <2>1, <2>3
    <3> QED
      BY <1>12, <2>1, <2>2, <3>1
  <2>4. CASE ~(i <= Highest(store) \/ c.height > 0)
    <3>1. c.height \in Nat /\ Highest(store) \in Int
      BY <1>1, Lines, Extremes
    <3>2. store.height = 0 /\ i \in (Highest(store) + 1)..(m.base - 1)
      BY <1>1, <2>1, <2>4, <3>1
    <3> QED
      BY <1>1, <1>4, <3>2
  <2> QED
    BY <2>3, <2>4
<1>15. ASSUME NEW i \in Retained, Kept(i), i < m.base PROVE i \in forgone' \/ Kept(i)'
  <2>1. CASE i \in Dropped(m)
    BY <1>1, <2>1
  <2>2. CASE i \in unproven
    <3>1. i < t.unconfirmedFrom
      BY <1>1, <1>5, <1>6, <1>9, <1>15, <2>2
    <3> QED
      BY <1>1, <1>8, <2>2, <3>1 DEF Kept
  <2>3. CASE i \in Held(c) /\ i < Committed /\ c.lines[i] = history[i + 1]
    BY <1>3, <1>8, <1>12, <1>15, <2>3 DEF Kept, Right
  <2> QED
    BY <1>9, <1>15, <2>1, <2>2, <2>3
<1>16. SocketInv'
  <2>1. missed' \subseteq Nat
    BY <1>1 DEF HistoryInv, SocketInv
  <2>2. conn' = conn /\ conn # "closed"
    BY <1>1, <1>2, HeadTaken
  <2> QED
    BY <1>1, <2>1, <2>2 DEF SocketInv
<1>17. MissedLast'
  <2>1. store'.height > 0 /\ store'.height \in Nat
    BY <1>5, <1>6, <1>8
  <2> QED
    BY <1>1, <2>1 DEF MissedLast
<1>18. ReplayInv'
  <2>1. \A i \in Retained : ~Brings(Head(wire), i)
    BY <1>1 DEF Brings, m
  <2>2. ~AltSeen'
    BY <1>6, <1>8 DEF AltSeen
  <2>3. \A i \in Retained : Kept(i) /\ (DrawsMain(Pending, acked, 1) => i < Pending[1].base)
           => i \in forgone' \/ Kept(i)'
    BY <1>3, <1>11, <1>15
  <2> QED
    BY <1>1, <1>2, <1>17, <2>1, <2>2, <2>3, TakeKeepsReplay
<1> QED
  BY <1>3, <1>13, <1>14, <1>16, <1>18 DEF HistoryInv

\* Where a scroll frame moves the floor to: its end, from at or below the floor, or
\* over the rows up to it that nothing is held of.
LEMMA ScrollFloor ==
    ASSUME NEW s, IsStore(s), NEW m, IsScroll(m), Infinity \in Int,
           s.erasedThrough < s.unconfirmedFrom
    PROVE  LET t == ApplyScroll(s, m)
               n == Count(s, m)
           IN  /\ n \in Int /\ n <= Len(m.lines)
               /\ n < Len(m.lines) => m.firstIndex + n = ScrollLimit(s)
               /\ \A i : i \in Brought(s, m) <=> i \in m.firstIndex..(m.firstIndex + n - 1)
               /\ \A i : i \in Healed(s, m) <=>
                     n > 0 /\ s.unconfirmedFrom < Oldest(t) /\ i \in Oldest(t)..(m.firstIndex - 1)
               /\ \A i \in Healed(s, m) : i < t.unconfirmedFrom
               /\ s.unconfirmedFrom <= t.unconfirmedFrom
               /\ t.unconfirmedFrom # s.unconfirmedFrom =>
                     /\ n > 0 /\ t.unconfirmedFrom = m.firstIndex + n
                     /\ \/ m.firstIndex <= s.unconfirmedFrom
                        \/ s.unconfirmedFrom < Oldest(t) /\ Oldest(t) <= m.firstIndex
<1> DEFINE first == m.firstIndex
           n == Count(s, m)
           B == Brought(s, m)
           f == [i \in B |-> m.lines[i - first + 1]]
           a == ApplyLines(s, f)
           t == ApplyScroll(s, m)
           size == Len(m.lines)
           limit == ScrollLimit(s)
<1>1. first \in Nat /\ size \in Nat
  BY DEF IsScroll
<1>2. /\ n \in Int /\ n <= size /\ (n < size => first + n = limit)
      /\ B = first..(first + n - 1)
  <2>1. limit \in Int
    BY DEF ScrollLimit, IsStore
  <2>2. n = LowerOf(size, limit - first) /\ B = first..(first + n - 1)
    BY DEF Count, Brought
  <2> HIDE DEF n, B, first, size, limit
  <2>3. limit - first \in Int
    BY <1>1, <2>1
  <2>4. n = IF size <= limit - first THEN size ELSE limit - first
    BY <1>1, <2>2, <2>3, LowerAndHigher
  <2> QED
    BY <1>1, <2>1, <2>2, <2>4
<1>3. /\ IsStore(t) /\ Held(t) = Held(s) \cup Taken(s, B) /\ B \in SUBSET Nat
      /\ \A i \in B : i - first + 1 \in 1..size
  BY ScrollApplied
<1>4. /\ IsStore(a) /\ a.unconfirmedFrom = s.unconfirmedFrom
      /\ s.unconfirmedFrom \in Nat /\ s.erasedThrough \in Int
  <2>1. B \in SUBSET Nat /\ first + size \in Nat /\ B \subseteq 0..(first + size)
    <3> HIDE DEF B, first, n, size, limit
    <3> QED
      BY <1>1, <1>2, <1>3
  <2>2. PICK b \in Nat : B \subseteq 0..b
    BY <2>1
  <2>3. IsStore(a) /\ a = [s EXCEPT !.lines = a.lines]
    <3>1. DOMAIN f = B
      OBVIOUS
    <3> HIDE DEF f, B
    <3> QED
      BY <2>1, <2>2, <3>1, LinesApplied
  <2> HIDE DEF a
  <2> QED
    BY <2>3 DEF IsStore
<1>5. t = ConfirmRange(a, first, n)
  BY DEF ApplyScroll
<1>6. /\ t.lines = a.lines
      /\ t.unconfirmedFrom =
                    IF n <= 0 THEN a.unconfirmedFrom
                    ELSE IF first <= a.unconfirmedFrom
                         THEN IF a.unconfirmedFrom >= first + n THEN a.unconfirmedFrom
                              ELSE first + n
                    ELSE IF a.unconfirmedFrom < Oldest(a)
                         THEN IF first + n >= Oldest(a) THEN first + n ELSE Oldest(a)
                    ELSE a.unconfirmedFrom
  <2> HIDE DEF a, n, first, t
  <2> QED
    BY <1>1, <1>2, <1>4, <1>5, RangeConfirmed
<1>7. Oldest(t) = Oldest(a)
  <2> HIDE DEF a, t
  <2> QED
    BY <1>6 DEF Held, Oldest
<1>8. Healed(s, m) = IF n > 0 /\ s.unconfirmedFrom < Oldest(t) THEN Oldest(t)..(first - 1) ELSE {}
  BY DEF Healed
<1> HIDE DEF a, t, first, n, B, size, limit
<1>9. Oldest(t) \in Int
  BY <1>3, Extremes
<1>10. ASSUME n > 0, s.unconfirmedFrom < first PROVE Oldest(t) <= first
  <2>1. first \in B
    BY <1>1, <1>2, <1>10
  <2>2. first > s.erasedThrough
    BY <1>1, <1>4, <1>10
  <2>3. first \in Held(t)
    BY <1>3, <2>1, <2>2 DEF Taken
  <2> QED
    BY <1>3, <2>3, Extremes
<1>11. s.unconfirmedFrom <= t.unconfirmedFrom
  BY <1>1, <1>2, <1>4, <1>6, <1>7, <1>9
<1>12. ASSUME t.unconfirmedFrom # s.unconfirmedFrom
       PROVE  /\ n > 0 /\ t.unconfirmedFrom = first + n
              /\ first <= s.unconfirmedFrom \/ (s.unconfirmedFrom < Oldest(t) /\ Oldest(t) <= first)
  <2>1. n > 0
    BY <1>2, <1>4, <1>6, <1>12
  <2>2. CASE first <= s.unconfirmedFrom
    BY <1>4, <1>6, <1>12, <2>1, <2>2
  <2>3. CASE s.unconfirmedFrom < first
    <3>1. Oldest(t) <= first
      BY <1>10, <2>1, <2>3
    <3>2. first + n >= Oldest(t)
      BY <1>1, <1>2, <1>9, <2>1, <3>1
    <3> QED
      BY <1>1, <1>2, <1>4, <1>6, <1>7, <1>9, <1>12, <2>1, <2>3, <3>1, <3>2
  <2> QED
    BY <1>1, <1>4, <2>1, <2>2, <2>3
<1>13. \A i : i \in B <=> i \in first..(first + n - 1)
  BY <1>2
<1>14. \A i : i \in Healed(s, m) <=>
          n > 0 /\ s.unconfirmedFrom < Oldest(t) /\ i \in Oldest(t)..(first - 1)
  BY <1>8
<1>15. ASSUME NEW i \in Healed(s, m) PROVE i < t.unconfirmedFrom
  <2>1. n > 0 /\ s.unconfirmedFrom < Oldest(t) /\ i \in Oldest(t)..(first - 1)
    BY <1>14, <1>15
  <2>2. i \in Int /\ i < first /\ s.unconfirmedFrom < first
    BY <1>1, <1>4, <1>9, <2>1
  <2>3. Oldest(t) <= first
    BY <1>10, <2>1, <2>2
  <2>4. t.unconfirmedFrom = first + n
    BY <1>1, <1>2, <1>4, <1>6, <1>7, <1>9, <2>1, <2>2, <2>3
  <2> QED
    BY <1>1, <1>2, <2>1, <2>2, <2>4
<1> QED
  BY <1>2, <1>11, <1>12, <1>13, <1>14, <1>15 DEF t, n, B, first, size, limit

\* No line before those that the first frame brings is still to come.
LEMMA NoneBefore ==
    ASSUME NEW P, NEW a, NEW x \in Nat, Applies(P, a, 1), 1 \in 1..Len(P), Len(P) \in Nat,
           Brings(P[1], x), NEW i \in Nat, i < x, ~Brings(P[1], i)
    PROVE  /\ \A z : ~WillBring(P, a, z, i)
           /\ \A M : ComesLast(P, a, M) => i \notin M
<1>1. \A z : ~WillBring(P, a, z, i)
  <2> SUFFICES ASSUME NEW z, NEW k \in 1..Len(P), BringsAt(P, a, z, i, k) PROVE FALSE
    BY DEF WillBring
  <2>1. Brings(P[k], i) /\ FirstFor(P, a, i, k)
    BY DEF BringsAt
  <2>2. k # 1
    BY <2>1
  <2>3. 1 \in 1..(k - 1)
    BY <2>2
  <2>4. x < i
    BY <2>1, <2>3 DEF FirstFor
  <2> QED
    BY <2>4
<1>2. ASSUME NEW M, ComesLast(P, a, M), i \in M PROVE FALSE
  <2>1. \A j \in 1..(1 - 1) : ~DrawsMain(P, a, j)
    OBVIOUS
  <2>2. x < i
    BY <1>2, <2>1 DEF ComesLast
  <2> QED
    BY <2>2
<1> QED
  BY <1>1, <1>2

\* A scroll frame fills the history, or heals the floor over rows that were given up,
\* that another socket drained, or that no frame is known to have drawn right.
LEMMA ScrollKeepsHistory ==
    ASSUME Inv, HistoryInv, ReceiveScroll
    PROVE  HistoryInv'
<1> DEFINE m == Head(wire)
           B == Brought(store, m)
           T == Taken(store, B)
           t == ApplyScroll(store, m)
           n == Count(store, m)
           healed == Healed(store, m)
           first == m.firstIndex
           f == store.unconfirmedFrom
           g == t.unconfirmedFrom
           type == "scroll"
           M == {first + k - 1 : k \in {j \in DOMAIN m.lines : first + j - 1 >= ScrollLimit(store)}}
<1>1. /\ Take(type) /\ acked /\ acked' = acked /\ store' = t
      /\ UNCHANGED <<forgone, awaited, windowSeen>>
      /\ unproven' = (unproven \cup healed \cup {i \in missed : f <= i /\ i < g}) \ B
      /\ missed' = IF windowSeen THEN missed ELSE missed \cup M
  BY DEF ReceiveScroll, Passed
<1>2. acked' <=> acked \/ type = "resumeAck"
  BY <1>1
<1>3. /\ m \in Message /\ m.type = "scroll"
      /\ \A j \in 1..Len(m.lines) : first + j <= Committed /\ m.lines[j] = history[first + j]
  BY <1>1, TakeFits
<1> HIDE DEF type
<1>4. /\ UNCHANGED <<history, oldest>> /\ Committed' = Committed /\ Retained' = Retained
      /\ AckInv' /\ Applies(Pending, acked, 1) /\ Pending[1] = m /\ Resumed
      /\ 1 \in 1..Len(Pending) /\ Len(Pending) \in Nat
  BY <1>1, <1>2, HeadTaken DEF IsRest
<1>5. conn # "open"
  BY <1>4 DEF Resumed
<1> HIDE DEF m
<1>6. IsScroll(m) /\ first \in Nat /\ m.lines \in Seq(Rows) /\ Len(m.lines) \in Nat
      /\ DOMAIN m.lines = 1..Len(m.lines)
  BY <1>3, MessageKinds DEF IsScroll
<1>7. /\ Committed \in Nat /\ Retained \subseteq Nat /\ IsStore(store) /\ f \in Nat
      /\ store.erasedThrough \in Int /\ store.height \in Nat
      /\ \A i \in Retained : i < Committed
      /\ Infinity \in Int /\ missed \subseteq Nat
  BY Lines, Sizes DEF HistoryInv, SocketInv
<1>8. /\ store.erasedThrough < f
      /\ f <= Committed \/ (store.height = 0 /\ Held(store) \subseteq 0..(Committed - 1))
      /\ \A i \in unproven : i \in Nat /\ i < f
      /\ \A i \in Nat : i <= store.erasedThrough => i \in forgone
  BY DEF HistoryInv, FloorInv
<1>9. Committed < Infinity
  <2>1. Committed = Len(history) /\ outputs \in 0..MaxOutput /\ Committed + Len(drained) <= outputs
        /\ Len(drained) \in Nat
    BY DEF Inv, DataInv, LogData, ScreenData, Committed
  <2>2. MaxOutput < Infinity /\ MaxOutput \in Nat
    BY BoundAssumption, Sizes
  <2> QED
    BY <1>7, <2>1, <2>2
<1>10. /\ IsStore(t) /\ Held(t) = Held(store) \cup T
       /\ \A i \in Held(t) : t.lines[i] = IF i \in T THEN m.lines[i - first + 1] ELSE store.lines[i]
       /\ t.erasedThrough = store.erasedThrough /\ t.height = store.height /\ t.alt = store.alt
       /\ B \in SUBSET Nat
       /\ \A i \in B : i - first + 1 \in 1..Len(m.lines)
  BY <1>6, <1>7, ScrollApplied
<1>11. /\ n \in Int /\ n <= Len(m.lines)
       /\ n < Len(m.lines) => first + n = ScrollLimit(store)
       /\ \A i : i \in B <=> i \in first..(first + n - 1)
       /\ \A i : i \in healed <=> n > 0 /\ f < Oldest(t) /\ i \in Oldest(t)..(first - 1)
       /\ \A i \in healed : i < g
       /\ f <= g
       /\ g # f => /\ n > 0 /\ g = first + n
                   /\ first <= f \/ (f < Oldest(t) /\ Oldest(t) <= first)
  BY <1>6, <1>7, <1>8, ScrollFloor
<1>12. T \subseteq B /\ \A i \in B : i \in T \/ i <= store.erasedThrough
  BY <1>7, <1>10 DEF Taken
<1>13. g \in Nat /\ Oldest(t) \in Int
  BY <1>10, Extremes DEF IsStore
<1>14. ASSUME NEW i \in B
       PROVE  i \in Nat /\ i < Committed /\ m.lines[i - first + 1] = history[i + 1]
  <2> DEFINE j == i - first + 1
  <2>1. i \in Nat /\ j \in 1..Len(m.lines) /\ first + j = i + 1
    BY <1>6, <1>10
  <2> HIDE DEF j
  <2>2. i + 1 <= Committed /\ m.lines[j] = history[i + 1]
    BY <1>3, <2>1
  <2> QED
    BY <1>7, <2>1, <2>2 DEF j
<1> HIDE DEF n, B, T, t, healed
<1>15. \A i \in Nat : Brings(m, i) <=> first <= i /\ i < first + Len(m.lines)
  <2> SUFFICES ASSUME NEW i \in Nat
               PROVE  i - first + 1 \in 1..Len(m.lines) <=> first <= i /\ i < first + Len(m.lines)
    BY <1>3 DEF Brings
  <2> HIDE DEF first
  <2> QED
    BY <1>6
<1> HIDE DEF first
\* A brought line is right, or erased.
<1>16. ASSUME NEW i \in B PROVE i \in forgone \/ (i \in Held(t) /\ Kept(i)')
  <2>1. CASE i \in T
    <3>1. i \in Held(t) /\ t.lines[i] = history[i + 1] /\ i < Committed
      BY <1>10, <1>14, <2>1
    <3> QED
      BY <1>1, <1>4, <3>1 DEF Kept, Right
  <2>2. CASE i <= store.erasedThrough
    BY <1>8, <1>14, <2>2
  <2> QED
    BY <1>12, <2>1, <2>2
\* And lines before those it brings are not to come.
<1>17. ASSUME NEW i \in Nat, n > 0, i < first
       PROVE  /\ ~WillBring(Pending, acked, AltSeen, i)
              /\ store.height = 0 => i \notin missed
  <2>1. Brings(m, first) /\ ~Brings(m, i)
    BY <1>6, <1>11, <1>15, <1>17
  <2>2. /\ \A z : ~WillBring(Pending, acked, z, i)
        /\ \A S : ComesLast(Pending, acked, S) => i \notin S
    BY <1>4, <1>6, <1>17, <2>1, NoneBefore
  <2>3. store.height = 0 => ComesLast(Pending, acked, missed)
    BY <1>4 DEF HistoryInv, ReplayInv, MissedLast
  <2> QED
    BY <2>2, <2>3
<1>18. FloorInv'
  <2>1. t.erasedThrough < g
    BY <1>7, <1>8, <1>10, <1>11, <1>13
  <2>2. g <= Committed \/ (store.height = 0 /\ Held(t) \subseteq 0..(Committed - 1))
    <3>1. CASE g = f
      <4>1. CASE f <= Committed
        BY <3>1, <4>1
      <4>2. CASE store.height = 0 /\ Held(store) \subseteq 0..(Committed - 1)
        <5>1. \A i \in T : i \in 0..(Committed - 1)
          BY <1>7, <1>12, <1>14
        <5> QED
          BY <1>10, <4>2, <5>1
      <4> QED
        BY <1>8, <4>1, <4>2
    <3>2. CASE g # f
      <4>1. g = first + n /\ n > 0
        BY <1>11, <3>2
      <4>2. first + n - 1 \in B
        BY <1>6, <1>11, <4>1
      <4>3. first + n - 1 < Committed
        BY <1>14, <4>2
      <4> QED
        BY <1>6, <1>7, <1>11, <4>1, <4>3
    <3> QED
      BY <3>1, <3>2
  <2>3. ASSUME NEW i \in unproven' PROVE i \in Nat /\ i < g
    <3>1. CASE i \in unproven
      BY <1>7, <1>8, <1>11, <1>13, <3>1
    <3>2. CASE i \in healed
      <4>1. i < g /\ f < Oldest(t) /\ i \in Oldest(t)..(first - 1)
        BY <1>11, <3>2
      <4> QED
        BY <1>6, <1>7, <1>13, <4>1
    <3>3. CASE i \in missed /\ i < g
      BY <1>7, <3>3
    <3> QED
      BY <1>1, <2>3, <3>1, <3>2, <3>3
  <2> QED
    BY <1>1, <1>4, <1>8, <1>10, <2>1, <2>2, <2>3 DEF FloorInv
\* Of the lines the floor is raised over, or that are no longer above the rows held.
<1>19. ASSUME NEW i \in Retained, i \notin B, n > 0, i < first, Covered(i),
              i \in missed => (store.height = 0 \/ (f <= i /\ i < g))
       PROVE  i \in Held(t) \cup forgone \cup awaited \cup unproven'
  <2>1. i \in Nat /\ ~WillBring(Pending, acked, AltSeen, i)
    BY <1>7, <1>17, <1>19
  <2>2. i \in missed => f <= i /\ i < g
    BY <1>17, <1>19, <2>1
  <2>3. i \in forgone \/ i \in missed \/ i \in unproven \/ i \in Held(store)
    BY <1>19, <2>1 DEF Covered, Kept
  <2> QED
    BY <1>1, <1>10, <1>19, <2>2, <2>3
<1>20. BelowInv'
  <2> SUFFICES ASSUME NEW i \in Retained, i < g, i <= Highest(t) \/ store.height > 0
               PROVE  i \in Held(t) \cup forgone \cup awaited \cup unproven'
    BY <1>1, <1>4, <1>10 DEF BelowInv, BelowFloor
  <2>1. i \in Nat /\ Covered(i)
    BY <1>4, <1>7 DEF HistoryInv, ReplayInv
  <2>2. CASE i \in B
    BY <1>16, <2>2
  <2>3. CASE i \notin B /\ i < f
    <3>1. CASE i <= Highest(store) \/ store.height > 0
      <4>1. i \in Held(store) \cup forgone \cup awaited \cup unproven
        BY <2>3, <3>1 DEF HistoryInv, BelowInv, BelowFloor
      <4> QED
        BY <1>1, <1>10, <2>3, <4>1
    <3>2. CASE ~(i <= Highest(store) \/ store.height > 0)
      <4> DEFINE h == Highest(t)
      <4>1. h \in Held(t) \cup {-1} /\ h \in Int /\ i <= h /\ Highest(store) \in Int
        BY <1>7, <1>10, <3>2, Extremes
      <4>2. h \in Held(t)
        BY <2>1, <4>1
      <4>3. h \notin Held(store)
        <5> SUFFICES ASSUME h \in Held(store) PROVE FALSE
          OBVIOUS
        <5>1. h <= Highest(store)
          BY <1>7, Extremes
        <5> QED
          BY <2>1, <3>2, <4>1, <5>1
      <4>4. h \in B
        BY <1>10, <1>12, <4>2, <4>3
      <4> HIDE DEF h
      <4>5. first <= h /\ h <= first + n - 1
        BY <1>6, <1>11, <4>1, <4>4
      <4>6. n > 0 /\ i < first
        BY <1>6, <1>11, <2>1, <2>3, <4>1, <4>5
      <4>7. store.height = 0
        BY <1>7, <3>2
      <4> QED
        BY <1>19, <2>1, <2>3, <4>6, <4>7
    <3> QED
      BY <3>1, <3>2
  <2>4. CASE i \notin B /\ f <= i
    <3>1. g # f
      BY <1>7, <1>13, <2>1, <2>4
    <3>2. n > 0 /\ g = first + n /\ (first <= f \/ f < Oldest(t))
      BY <1>11, <3>1
    <3>3. i < first
      BY <1>6, <1>11, <2>1, <2>4, <3>2
    <3> QED
      BY <1>19, <2>1, <2>4, <3>2, <3>3
  <2> QED
    BY <1>7, <2>1, <2>2, <2>3, <2>4
<1>21. ASSUME NEW i \in Retained, Kept(i) PROVE i \in forgone' \/ Kept(i)'
  <2>1. CASE i \in B
    BY <1>1, <1>16, <2>1
  <2>2. CASE i \notin B /\ i \in unproven
    BY <1>1, <2>2 DEF Kept
  <2>3. CASE i \notin B /\ i \notin unproven
    <3>1. i \in Held(store) /\ i < Committed /\ store.lines[i] = history[i + 1]
      BY <1>21, <2>3 DEF Kept, Right
    <3>2. i \in Held(t) /\ t.lines[i] = history[i + 1]
      BY <1>10, <1>12, <2>3, <3>1
    <3> QED
      BY <1>1, <1>4, <3>1, <3>2 DEF Kept, Right
  <2> QED
    BY <2>1, <2>2, <2>3
<1>22. M \subseteq Nat
  BY <1>6
<1>23. store.height = 0 => missed' = missed
  <2> SUFFICES ASSUME store.height = 0, NEW k \in 1..Len(m.lines), first + k - 1 >= ScrollLimit(store)
               PROVE  FALSE
    BY <1>1, <1>6
  <2>1. ScrollLimit(store) = Infinity
    BY DEF ScrollLimit
  <2>2. first + k <= Committed
    BY <1>3
  <2> QED
    BY <1>6, <1>7, <1>9, <2>1, <2>2
<1> HIDE DEF M
<1>24. missed' \subseteq Nat /\ missed \subseteq missed'
  BY <1>1, <1>7, <1>22
<1>25. SocketInv'
  <2>1. conn' = conn /\ conn # "closed"
    BY <1>1, <1>2, HeadTaken
  <2> QED
    BY <1>5, <1>24, <2>1 DEF SocketInv
<1>26. ~DrawsMain(Pending, acked, 1)
  BY <1>3, <1>4 DEF DrawsMain
<1>27. MissedLast'
  <2>1. CASE store.height = 0
    <3>1. missed' = missed
      BY <1>23, <2>1
    <3> QED
      BY <1>1, <1>2, <1>4, <1>10, <1>26, <3>1, TakeKeepsLast
  <2>2. CASE store.height # 0
    BY <1>1, <1>10, <2>2 DEF MissedLast
  <2> QED
    BY <2>1, <2>2
<1>28. ASSUME NEW i \in Retained, ~AltSeen, Brings(m, i)
       PROVE  i \in forgone' \/ i \in missed' \/ Kept(i)'
  <2>1. i \in Nat /\ i < Committed /\ first <= i /\ i < first + Len(m.lines)
    BY <1>7, <1>15, <1>28
  <2>2. CASE i \in B
    BY <1>1, <1>16, <2>2
  <2>3. CASE i \notin B
    <3>1. i >= first + n
      BY <1>6, <1>11, <2>1, <2>3
    <3>2. first + n = ScrollLimit(store) /\ i >= ScrollLimit(store)
      BY <1>6, <1>11, <2>1, <3>1
    <3>3. ~windowSeen
      <4> SUFFICES ASSUME windowSeen PROVE FALSE
        OBVIOUS
      <4>1. ScrollLimit(store) = Infinity
        BY <1>28 DEF ScrollLimit, AltSeen
      <4> QED
        BY <1>7, <1>9, <2>1, <3>2, <4>1
    <3>4. i - first + 1 \in DOMAIN m.lines /\ first + (i - first + 1) - 1 = i
      BY <1>6, <2>1
    <3>5. i \in M
      BY <3>2, <3>4 DEF M
    <3> QED
      BY <1>1, <3>3, <3>5
  <2> QED
    BY <2>2, <2>3
<1>29. ReplayInv'
  <2>1. AltSeen' <=> AltSeen
    BY <1>1, <1>10 DEF AltSeen
  <2>2. \A i \in Retained : acked /\ ~AltSeen /\ Brings(Head(wire), i)
           => i \in forgone' \/ i \in missed' \/ Kept(i)'
    BY <1>28 DEF m
  <2>3. forgone \subseteq forgone'
    BY <1>1
  <2> QED
    BY <1>1, <1>2, <1>21, <1>24, <1>26, <1>27, <2>1, <2>2, <2>3, TakeKeepsReplay
<1> QED
  BY <1>4, <1>18, <1>20, <1>25, <1>29 DEF HistoryInv

-----------------------------------------------------------------------------
(* Every step keeps the history, and so the page holds it.                   *)

\* Each step does.
LEMMA NextKeepsHistory ==
    ASSUME Inv, HistoryInv, [Next]_vars
    PROVE  HistoryInv'
<1>1. CASE PrintLine \/ EnterAltScreen \/ ExitAltScreen \/ EraseSavedLines
  <2>1. Output /\ oldest' \in {oldest, Committed}
    BY <1>1 DEF PrintLine, EnterAltScreen, ExitAltScreen, EraseSavedLines
  <2> QED
    BY <2>1, OutputIsQuiet, QuietKeeps
<1>2. CASE \E y \in 1..Height : Redraw(y)
  <2>1. Output /\ oldest' \in {oldest, Committed}
    BY <1>2 DEF Redraw
  <2> QED
    BY <2>1, OutputIsQuiet, QuietKeeps
<1>3. CASE RetainSuspendedScrollback \/ ViewerResumes
  BY <1>3, DrainIsQuiet, QuietKeeps
<1>4. CASE ViewerJoins \/ ViewerLeaves \/ WriteBatch \/ DispatchFrame \/ UNCHANGED vars
  BY <1>4, IdleIsQuiet, QuietKeeps
<1>5. CASE BuildFrame
  BY <1>5, BuildKeepsHistory
<1>6. CASE Connect
  BY <1>6, ConnectKeepsHistory
<1>7. CASE Cut
  BY <1>7, CutKeepsHistory
<1>8. CASE HandleResume
  BY <1>8, ResumeKeepsHistory
<1>9. CASE ReceiveResumeAck
  BY <1>9, AckKeepsHistory
<1>10. CASE ReceiveEarlyScreen
  BY <1>10, EarlyScreenKeepsHistory
<1>11. CASE ReceiveEarlyScroll
  BY <1>11, EarlyScrollKeepsHistory
<1>12. CASE ReceiveScreen
  BY <1>12, AltScreenKeepsHistory, MainScreenKeepsHistory
<1>13. CASE ReceiveScroll
  BY <1>13, ScrollKeepsHistory
<1> QED
  BY <1>1, <1>2, <1>3, <1>4, <1>5, <1>6, <1>7, <1>8, <1>9, <1>10, <1>11, <1>12, <1>13 DEF Next

\* With all delivered nothing is on its way, so what is not given up is held.
LEMMA HistoryIsShown ==
    ASSUME Inv, HistoryInv
    PROVE  HistoryShown
<1> SUFFICES ASSUME Settled, NEW i \in Retained \ (forgone \cup missed \cup unproven)
             PROVE  i \in Held(store) /\ store.lines[i] = history[i + 1]
  BY DEF HistoryShown
<1>1. conn = "live" /\ acked /\ wire = <<>> /\ frame = NoFrame
  BY DEF Settled
<1>2. batch = <<>>
  BY <1>1 DEF Inv, DataInv, ConnData
<1>3. Pending = <<>> /\ Resumed
  BY <1>1, <1>2 DEF Pending, Due, Resumed
<1>4. Covered(i)
  BY <1>3 DEF HistoryInv, ReplayInv
<1>5. 1..Len(Pending) = {}
  BY <1>3
<1>6. Kept(i)
  BY <1>4, <1>5 DEF Covered, WillBring
<1> QED
  BY <1>6 DEF Kept, Right

\* And what the page claims lies below the floor, and is held or given up.
LEMMA ClaimsAreHeld ==
    ASSUME Inv, HistoryInv
    PROVE  ClaimedIsHeld
<1> SUFFICES ASSUME NEW i \in Retained, i \notin unproven, i <= ReplayBoundary(store)
             PROVE  i \in Held(store) \cup forgone \cup awaited
  BY DEF ClaimedIsHeld
<1>1. i \in Nat /\ IsStore(store) /\ store.unconfirmedFrom \in Nat
  BY Lines
<1>2. /\ ReplayBoundary(store) \in Int /\ Highest(store) \in Int
      /\ ReplayBoundary(store) <= Highest(store) /\ ReplayBoundary(store) < store.unconfirmedFrom
  BY <1>1, Boundary, Extremes
<1>3. i < store.unconfirmedFrom /\ i <= Highest(store)
  BY <1>1, <1>2
<1> QED
  BY <1>3 DEF HistoryInv, BelowInv, BelowFloor

\* The page holds what the server retains: all of it, once all is delivered, but for
\* what the page gave up by rule, what another socket's resume drained and what a heal
\* raised the floor over; and at any time, what it tells the server that it has
\* (haveThrough in handleResume, confirmRange in store.ts).
THEOREM HistoryIsHeld == Spec => []HistoryHeld
<1>1. Init => Inv /\ HistoryInv
  BY InitHolds, InitHistory
<1>2. Inv /\ HistoryInv /\ [Next]_vars => Inv' /\ HistoryInv'
  BY NextKeeps, NextKeepsHistory
<1>3. Inv /\ HistoryInv => HistoryHeld
  BY HistoryIsShown, ClaimsAreHeld DEF HistoryHeld
<1> QED
  BY <1>1, <1>2, <1>3, PTL DEF Spec
=============================================================================
