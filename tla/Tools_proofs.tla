---------------------------- MODULE Tools_proofs ----------------------------
(* Proofs about the debug trace and the tools: the ring of the driver, for any *)
(* capacity; lecwatch and the capture of lecdiag, which poll it; the window of  *)
(* lecwatch; the backup of the Dallas memory.                                  *)
EXTENDS LecWatch, LecWatchSession, TraceCapture, DallasBackup, Induction,
        FiniteSetTheorems, TLAPS

-----------------------------------------------------------------------------
(* The ring.  Index arithmetic.                                             *)

\* Below twice the capacity the remainder takes the capacity off at most once.
LEMMA Wraps ==
  ASSUME NEW a \in 0..(2 * Capacity - 1)
  PROVE  a % Capacity = IF a < Capacity THEN a ELSE a - Capacity
<1>1. Capacity \in Nat \ {0}
  BY CapacityAssumption
<1> DEFINE q == a \div Capacity
           r == a % Capacity
<1>2. q \in Int /\ r \in 0..(Capacity - 1) /\ a = Capacity * q + r
  BY <1>1
<1> HIDE DEF q, r
<1>3. q = 0 \/ q = 1
  <2>1. ~(q >= 2)
    BY <1>1, <1>2
  <2>2. ~(q <= -1)
    BY <1>1, <1>2
  <2> QED
    BY <1>2, <2>1, <2>2
<1>4. a = r \/ a = Capacity + r
  BY <1>1, <1>2, <1>3
<1>5. r = IF a < Capacity THEN a ELSE a - Capacity
  BY <1>1, <1>2, <1>4
<1> QED
  BY <1>5 DEF r

\* The slot of the i-th record kept, counted from the oldest.
Slot(w, n, i) == (((w + Capacity - n) % Capacity) + i - 1) % Capacity

\* A slot is an index; no two of the records kept share one, and none of them
\* is the slot about to be written while the ring is not full.
LEMMA SlotsApart ==
  ASSUME NEW w \in Index, NEW n \in 0..Capacity, NEW i \in 1..n, NEW j \in 1..n
  PROVE  /\ Slot(w, n, i) \in Index
         /\ i # j => Slot(w, n, i) # Slot(w, n, j)
         /\ n < Capacity => Slot(w, n, i) # w
<1>1. Capacity \in Nat \ {0}
  BY CapacityAssumption
<1> DEFINE s == (w + Capacity - n) % Capacity
<1>2. w + Capacity - n \in 0..(2 * Capacity - 1)
  BY <1>1 DEF Index
<1>3. s = IF w + Capacity - n < Capacity THEN w + Capacity - n ELSE w - n
  BY <1>1, <1>2, Wraps DEF Index
<1>4. s \in Index
  BY <1>1, <1>2, <1>3 DEF Index
<1> HIDE DEF s
<1>5. ASSUME NEW k \in 1..n
      PROVE  (s + k - 1) % Capacity
               = IF s + k - 1 < Capacity THEN s + k - 1 ELSE s + k - 1 - Capacity
  <2>1. s + k - 1 \in 0..(2 * Capacity - 1)
    BY <1>1, <1>4 DEF Index
  <2> QED
    BY <1>1, <1>4, <2>1, Wraps DEF Index
<1> DEFINE Pos(k) == (s + k - 1) % Capacity
<1>6. \A k \in 1..n :
         Pos(k) = IF s + k - 1 < Capacity THEN s + k - 1 ELSE s + k - 1 - Capacity
  BY <1>5
<1> HIDE DEF Pos
<1>7. Pos(i) \in Index
  BY <1>1, <1>4, <1>6 DEF Index
<1>8. i # j => Pos(i) # Pos(j)
  BY <1>1, <1>4, <1>6 DEF Index
<1>9. n < Capacity => Pos(i) # w
  BY <1>1, <1>3, <1>4, <1>6 DEF Index
<1> QED
  BY <1>7, <1>8, <1>9 DEF s, Pos, Slot

\* Writing at w moves every slot one place towards the oldest when the ring is
\* full and leaves it alone when it is not; w becomes the slot of the newest.
LEMMA SlotsMove ==
  ASSUME NEW w \in Index, NEW n \in 0..Capacity
  PROVE  LET m == IF n < Capacity THEN n + 1 ELSE n
             v == (w + 1) % Capacity
         IN  /\ v \in Index
             /\ Slot(v, m, m) = w
             /\ \A i \in 1..(m - 1) :
                   Slot(v, m, i) = Slot(w, n, IF n < Capacity THEN i ELSE i + 1)
<1>1. Capacity \in Nat \ {0}
  BY CapacityAssumption
<1> DEFINE m == IF n < Capacity THEN n + 1 ELSE n
           v == (w + 1) % Capacity
           s == (w + Capacity - n) % Capacity
           z == (v + Capacity - m) % Capacity
<1>2. v = IF w + 1 < Capacity THEN w + 1 ELSE w + 1 - Capacity
  <2>1. w + 1 \in 0..(2 * Capacity - 1)
    BY <1>1 DEF Index
  <2> QED
    BY <1>1, <2>1, Wraps DEF Index
<1> HIDE DEF v
<1>3. v \in Index
  BY <1>1, <1>2 DEF Index
<1>4. s = IF w < n THEN w + Capacity - n ELSE w - n
  <2>1. w + Capacity - n \in 0..(2 * Capacity - 1)
    BY <1>1 DEF Index
  <2> QED
    BY <1>1, <2>1, Wraps DEF Index
<1>5. m \in 1..Capacity
  BY <1>1
<1> HIDE DEF s
<1>6. z = IF v < m THEN v + Capacity - m ELSE v - m
  <2>1. v + Capacity - m \in 0..(2 * Capacity - 1)
    BY <1>1, <1>3, <1>5 DEF Index
  <2> QED
    BY <1>1, <1>3, <1>5, <2>1, Wraps DEF Index
<1> HIDE DEF z
<1>7. s \in Index /\ z \in Index
  BY <1>1, <1>3, <1>4, <1>5, <1>6 DEF Index
<1>8. z = IF n < Capacity THEN s ELSE v
  BY <1>1, <1>2, <1>3, <1>4, <1>6 DEF Index
<1>9. (z + m - 1) % Capacity = w
  <2>1. z + m - 1 \in 0..(2 * Capacity - 1)
    BY <1>1, <1>5, <1>7 DEF Index
  <2> QED
    BY <1>1, <1>2, <1>3, <1>5, <1>6, <2>1, Wraps DEF Index
<1>10. ASSUME NEW i \in 1..(m - 1)
       PROVE  (z + i - 1) % Capacity
                = (s + (IF n < Capacity THEN i ELSE i + 1) - 1) % Capacity
  <2>1. CASE n < Capacity
    BY <1>8, <2>1
  <2>2. CASE n = Capacity
    <3>1. z = v /\ s = w
      BY <1>1, <1>4, <1>8, <2>2 DEF Index
    <3>2. v + i - 1 \in 0..(2 * Capacity - 1) /\ w + i \in 0..(2 * Capacity - 1)
      BY <1>1, <1>3, <1>5 DEF Index
    <3>3. (v + i - 1) % Capacity = (w + i) % Capacity
      BY <1>1, <1>2, <2>2, <3>2, Wraps DEF Index
    <3>4. s + (i + 1) - 1 = w + i
      BY <3>1 DEF Index
    <3> QED
      BY <2>2, <3>1, <3>3, <3>4
  <2> QED
    BY <1>1, <2>1, <2>2
<1> QED
  BY <1>3, <1>9, <1>10 DEF s, v, z, Slot

-----------------------------------------------------------------------------
(* Types.                                                                   *)

LEMMA RingTypeInit == RingInit => RingTypeOK
BY CapacityAssumption, RecordMaxAssumption DEF RingInit, RingTypeOK, Index

LEMMA RingTypeStep == RingTypeOK /\ [RingNext]_ringVars => RingTypeOK'
<1> SUFFICES ASSUME RingTypeOK, [RingNext]_ringVars PROVE RingTypeOK'
  OBVIOUS
<1>1. Capacity \in Nat \ {0} /\ RecordMax \in Nat
  BY CapacityAssumption, RecordMaxAssumption
<1>2. CASE UNCHANGED ringVars
  BY <1>2 DEF RingTypeOK, ringVars
<1>3. CASE RecordTrace
  <2>1. writeIndex' \in Index
    BY <1>3, SlotsMove DEF RingTypeOK, RecordTrace
  <2>2. [sequence |-> nextSequence + 1, id |-> recorded + 1] \in Entry
    BY <1>1, <1>3 DEF RingTypeOK, RecordTrace, Entry
  <2> QED
    BY <1>1, <1>3, <2>1, <2>2 DEF RingTypeOK, RecordTrace, Stored
<1>4. CASE ClearTrace
  BY <1>1, <1>4 DEF RingTypeOK, ClearTrace, Index
<1> QED
  BY <1>2, <1>3, <1>4 DEF RingNext

\* The variables of the ring keep their types: the write index stays in the
\* ring and no more records are counted than it holds.
THEOREM RingTypeCorrect == RingSpec => []RingTypeOK
BY RingTypeInit, RingTypeStep, PTL DEF RingSpec

-----------------------------------------------------------------------------
(* The ring implements the log.                                             *)

LEMMA FillIsSequence ==
  ASSUME RingTypeOK
  PROVE  /\ FillTrace = [i \in 1..count |-> ring[Slot(writeIndex, count, i)]]
         /\ FillTrace \in Seq(Entry \cup {Zero})
         /\ Len(FillTrace) = count
<1>1. FillTrace = [i \in 1..count |-> ring[Slot(writeIndex, count, i)]]
  BY DEF FillTrace, Slot
<1>2. \A i \in 1..count : ring[Slot(writeIndex, count, i)] \in Entry \cup {Zero}
  BY SlotsApart DEF RingTypeOK
<1>3. count \in Nat
  BY CapacityAssumption DEF RingTypeOK
<1> HIDE DEF FillTrace
<1> QED
  BY <1>1, <1>2, <1>3

\* Recording drops the oldest record of a full ring, and appends.
LEMMA RecordAppends ==
  ASSUME RingTypeOK, RecordTrace
  PROVE  Log!LogRecord
<1> DEFINE e == [sequence |-> nextSequence + 1, id |-> recorded + 1]
           n == count
           m == IF n < Capacity THEN n + 1 ELSE n
           w == writeIndex
           v == (w + 1) % Capacity
           old == FillTrace
           long == Append(old, e)
           shift(i) == IF n < Capacity THEN i ELSE i + 1
<1>1. /\ Capacity \in Nat \ {0} /\ n \in 0..Capacity /\ w \in Index
      /\ m \in 1..Capacity
  BY CapacityAssumption DEF RingTypeOK
<1>2. /\ ring' = [ring EXCEPT ![w] = e] /\ writeIndex' = v /\ count' = m
      /\ DOMAIN ring = Index
  BY DEF RecordTrace, Stored, RingTypeOK
<1>3. /\ v \in Index /\ Slot(v, m, m) = w
      /\ \A i \in 1..(m - 1) : Slot(v, m, i) = Slot(w, n, shift(i))
  BY <1>1, SlotsMove
<1>4. FillTrace' = [i \in 1..m |-> ring'[Slot(v, m, i)]]
  BY <1>2 DEF FillTrace, Slot
<1>5. /\ old = [i \in 1..n |-> ring[Slot(w, n, i)]]
      /\ old \in Seq(Entry \cup {Zero}) /\ Len(old) = n
  BY FillIsSequence
<1>6. e \in Entry
  BY RecordMaxAssumption DEF RingTypeOK, RecordTrace, Entry
<1> HIDE DEF v, old, e
<1>7. FillTrace'[m] = e
  BY <1>1, <1>2, <1>3, <1>4
<1>8. ASSUME NEW i \in 1..(m - 1) PROVE FillTrace'[i] = old[shift(i)]
  <2>1. shift(i) \in 1..n /\ i \in 1..m
    BY <1>1
  <2>2. Slot(v, m, i) \in Index /\ Slot(v, m, i) # w
    <3>1. i # m /\ m \in 0..Capacity /\ m \in 1..m
      BY <1>1
    <3> QED
      BY <1>3, <2>1, <3>1, SlotsApart
  <2> QED
    BY <1>2, <1>3, <1>4, <1>5, <2>1, <2>2
<1>9. /\ long \in Seq(Entry \cup {Zero}) /\ Len(long) = n + 1
      /\ long[n + 1] = e
      /\ \A i \in 1..n : long[i] = old[i]
  BY <1>1, <1>5, <1>6
<1>10. Log!Latest(long) = [i \in 1..m |-> long[shift(i)]]
  <2> HIDE DEF long
  <2>1. CASE n < Capacity
    BY <1>1, <1>9, <2>1 DEF Log!Latest
  <2>2. CASE n = Capacity
    <3>1. Log!Latest(long) = SubSeq(long, 2, n + 1)
      <4>1. Len(long) = n + 1 /\ Len(long) > Capacity
            /\ 1 + (Len(long) - Capacity) = 2
        BY <1>1, <1>9, <2>2
      <4> QED
        BY <4>1 DEF Log!Latest
    <3>2. SubSeq(long, 2, n + 1) = [i \in 1..n |-> long[i + 1]]
      BY <1>1, <1>9
    <3>3. m = n /\ \A i : shift(i) = i + 1
      BY <1>1, <2>2
    <3> QED
      BY <3>1, <3>2, <3>3
  <2> QED
    BY <1>1, <2>1, <2>2
<1>11. \A i \in 1..m : FillTrace'[i] = long[shift(i)]
  <2> HIDE DEF long
  <2> TAKE i \in 1..m
  <2>1. CASE i = m
    <3>1. shift(m) = n + 1
      BY <1>1
    <3> QED
      BY <1>7, <1>9, <2>1, <3>1
  <2>2. CASE i # m
    <3>1. i \in 1..(m - 1) /\ shift(i) \in 1..n
      BY <1>1, <2>2
    <3> QED
      BY <1>8, <1>9, <3>1
  <2> QED
    BY <2>1, <2>2
<1>12. FillTrace' = Log!Latest(long)
  BY <1>4, <1>10, <1>11
<1> QED
  BY <1>12 DEF Log!LogRecord, RecordTrace, old, e

\* For every capacity the ring implements the log: the debug IOCTL returns the
\* latest records since the last clear, oldest first and numbered without gaps.
THEOREM RingImplementsLog == RingSpec => ImplementsLog
<1>1. RingInit => Log!LogInit
  BY DEF RingInit, Log!LogInit, FillTrace
<1>2. RingTypeOK /\ [RingNext]_ringVars
        => [Log!LogRecord \/ Log!LogClear]_(Log!logVars)
  <2> SUFFICES ASSUME RingTypeOK, [RingNext]_ringVars
               PROVE  [Log!LogRecord \/ Log!LogClear]_(Log!logVars)
    OBVIOUS
  <2>1. CASE UNCHANGED ringVars
    BY <2>1 DEF ringVars, Log!logVars, FillTrace
  <2>2. CASE RecordTrace
    BY <2>2, RecordAppends
  <2>3. CASE ClearTrace
    BY <2>3 DEF ClearTrace, Log!LogClear, FillTrace
  <2> QED
    BY <2>1, <2>2, <2>3 DEF RingNext
<1> QED
  BY <1>1, <1>2, RingTypeCorrect, PTL DEF RingSpec, ImplementsLog, Log!LogSpec

-----------------------------------------------------------------------------
(* What a snapshot of the ring is: the latest records since the last clear, *)
(* by number and by identity.                                               *)

RingInv ==
    /\ RingTypeOK
    /\ count = IF nextSequence < Capacity THEN nextSequence ELSE Capacity
    /\ \A i \in 1..count :
          FillTrace[i] = [sequence |-> nextSequence - count + i, id |-> recorded - count + i]

\* Where the entries of the ring have gone when a record was made.
LEMMA RecordFills ==
  ASSUME RingTypeOK, RecordTrace
  PROVE  /\ FillTrace'[count'] = [sequence |-> nextSequence + 1, id |-> recorded + 1]
         /\ \A i \in 1..count' - 1 :
               FillTrace'[i] = FillTrace[IF count < Capacity THEN i ELSE i + 1]
<1> DEFINE e == [sequence |-> nextSequence + 1, id |-> recorded + 1]
           old == FillTrace
           new == FillTrace'
           n == count
           m == count'
<1>1. new = Log!Latest(Append(old, e))
  BY RecordAppends DEF Log!LogRecord, RecordTrace
<1>2. old \in Seq(Entry \cup {Zero}) /\ Len(old) = n
  BY FillIsSequence
<1>3. e \in Entry
  BY RecordMaxAssumption DEF RingTypeOK, RecordTrace, Entry
<1>4. Capacity \in Nat \ {0} /\ n \in 0..Capacity
      /\ m = (IF n < Capacity THEN n + 1 ELSE n)
  BY CapacityAssumption DEF RingTypeOK, RecordTrace
<1> HIDE DEF old, e, new, n, m
<1> DEFINE long == Append(old, e)
<1>5. /\ long \in Seq(Entry \cup {Zero}) /\ Len(long) = n + 1
      /\ long[n + 1] = e
      /\ \A i \in 1..n : long[i] = old[i]
  BY <1>2, <1>3, <1>4
<1> HIDE DEF long
<1>6. new = Log!Latest(long)
  BY <1>1 DEF long
<1>7. CASE n < Capacity
  <2>1. new = long
    BY <1>4, <1>5, <1>6, <1>7 DEF Log!Latest
  <2> QED
    BY <1>4, <1>5, <1>7, <2>1 DEF old, new, e, n, m
<1>8. CASE n = Capacity
  <2>1. new = SubSeq(long, 2, n + 1)
    <3>1. Len(long) = n + 1 /\ Len(long) > Capacity
          /\ 1 + (Len(long) - Capacity) = 2
      BY <1>4, <1>5, <1>8
    <3> QED
      BY <1>6, <3>1 DEF Log!Latest
  <2>2. \A i \in 1..n : new[i] = long[i + 1]
    BY <1>4, <1>5, <2>1
  <2>3. m = n /\ n \in 1..n /\ \A i \in 1..n - 1 : i \in 1..n /\ i + 1 \in 1..n
    BY <1>4, <1>8
  <2>4. new[m] = e
    BY <1>5, <2>2, <2>3
  <2>5. \A i \in 1..m - 1 : new[i] = old[i + 1]
    BY <1>5, <2>2, <2>3
  <2>6. ~(n < Capacity)
    BY <1>4, <1>8
  <2> QED
    BY <2>4, <2>5, <2>6 DEF old, new, e, n, m
<1> QED
  BY <1>4, <1>7, <1>8

LEMMA RingInvInit == RingInit => RingInv
<1>1. RingInit => count = 0 /\ nextSequence = 0
  BY DEF RingInit
<1> QED
  BY <1>1, RingTypeInit, CapacityAssumption DEF RingInv

LEMMA RingInvRecord == RingInv /\ RecordTrace => RingInv'
<1> SUFFICES ASSUME RingInv, RecordTrace PROVE RingInv'
  OBVIOUS
<1>1. RingTypeOK /\ RingTypeOK'
  BY RingTypeStep DEF RingInv, RingNext
<1>2. /\ Capacity \in Nat \ {0} /\ count \in Nat /\ count <= Capacity
      /\ nextSequence \in Nat /\ recorded \in Nat
      /\ count = (IF nextSequence < Capacity THEN nextSequence ELSE Capacity)
  BY <1>1, CapacityAssumption, RecordMaxAssumption DEF RingInv, RingTypeOK
<1>3. /\ recorded' = recorded + 1 /\ nextSequence' = nextSequence + 1
      /\ count' = (IF count < Capacity THEN count + 1 ELSE count)
  BY DEF RecordTrace
<1>4. count' = IF nextSequence' < Capacity THEN nextSequence' ELSE Capacity
  BY <1>2, <1>3
<1>5. /\ FillTrace'[count'] = [sequence |-> nextSequence + 1, id |-> recorded + 1]
      /\ \A i \in 1..count' - 1 :
            FillTrace'[i] = FillTrace[IF count < Capacity THEN i ELSE i + 1]
  BY <1>1, RecordFills
<1>6. \A i \in 1..count :
         FillTrace[i] = [sequence |-> nextSequence - count + i, id |-> recorded - count + i]
  BY DEF RingInv
<1>7. ASSUME NEW i \in 1..count'
      PROVE  FillTrace'[i] = [sequence |-> nextSequence' - count' + i,
                              id |-> recorded' - count' + i]
  <2>1. CASE i = count'
    BY <1>2, <1>3, <1>5, <2>1
  <2>2. CASE i # count'
    <3> DEFINE j == IF count < Capacity THEN i ELSE i + 1
    <3>1. i \in 1..count' - 1 /\ j \in 1..count
          /\ nextSequence - count + j = nextSequence' - count' + i
          /\ recorded - count + j = recorded' - count' + i
      BY <1>2, <1>3, <2>2
    <3>2. FillTrace'[i] = FillTrace[j]
      BY <1>5, <3>1
    <3> HIDE DEF j
    <3> QED
      BY <1>6, <3>1, <3>2
  <2> QED
    BY <2>1, <2>2
<1> QED
  BY <1>1, <1>4, <1>7 DEF RingInv

LEMMA RingInvClear == RingInv /\ ClearTrace => RingInv'
<1> SUFFICES ASSUME RingInv, ClearTrace PROVE RingInv'
  OBVIOUS
<1>1. RingTypeOK'
  BY RingTypeStep DEF RingInv, RingNext
<1>2. count' = 0 /\ nextSequence' = 0
  BY DEF ClearTrace
<1> QED
  BY <1>1, <1>2, CapacityAssumption DEF RingInv

LEMMA RingInvSame == RingInv /\ UNCHANGED ringVars => RingInv'
<1> SUFFICES ASSUME RingInv, UNCHANGED ringVars PROVE RingInv'
  OBVIOUS
<1>1. FillTrace' = FillTrace
  BY DEF ringVars, FillTrace
<1> QED
  BY <1>1 DEF RingInv, RingTypeOK, ringVars

-----------------------------------------------------------------------------
(* What a poll keeps of a snapshot: its end, from behind the last record    *)
(* that was seen.                                                           *)

\* The number of records of a snapshot that are not newer than the last one seen.
Old(last) ==
    IF last <= nextSequence - count THEN 0
    ELSE IF last >= nextSequence THEN count
    ELSE last - (nextSequence - count)

EndOf(s, n, k) == [j \in 1..n - k |-> s[k + j]]

\* One more element of s.
EndGrowsAt(s, n, k) == Append(EndOf(s, n, k), s[n + 1]) = EndOf(s, n + 1, k)

LEMMA EndGrows ==
    ASSUME NEW T, NEW c \in Nat, NEW s \in [1..c -> T],
           NEW n \in Nat, NEW k \in Nat, k <= n, n + 1 <= c
    PROVE  EndGrowsAt(s, n, k)
<1>. DEFINE q == EndOf(s, n, k)
            t == EndOf(s, n + 1, k)
            m == n - k
<1>1. m \in Nat /\ (n + 1) - k = m + 1 /\ k + (m + 1) = n + 1 /\ n + 1 \in 1..c
      /\ \A j \in 1..m + 1 : k + j \in 1..c
  OBVIOUS
<1>. HIDE DEF m
<1>2. q = [j \in 1..m |-> s[k + j]] /\ t = [j \in 1..m + 1 |-> s[k + j]]
  BY <1>1 DEF EndOf, m
<1>. HIDE DEF q, t
<1>3. /\ q \in Seq(T) /\ Len(q) = m /\ t \in Seq(T) /\ Len(t) = m + 1
      /\ s[n + 1] \in T
  BY <1>1, <1>2
<1>. DEFINE a == Append(q, s[n + 1])
<1>4. /\ a \in Seq(T) /\ Len(a) = m + 1 /\ a[m + 1] = s[n + 1]
      /\ \A j \in 1..m : a[j] = q[j]
  BY <1>1, <1>3
<1>. HIDE DEF a
<1>5. ASSUME NEW j \in 1..m + 1 PROVE a[j] = t[j]
  <2>1. CASE j = m + 1
    BY <1>1, <1>2, <1>4, <2>1
  <2>2. CASE j \in 1..m
    BY <1>1, <1>2, <1>4, <2>2
  <2>. QED
    BY <1>1, <2>1, <2>2
<1>6. a = t
  BY <1>3, <1>4, <1>5
<1>. QED
  BY <1>6 DEF a, q, t, EndGrowsAt

\* The loop that skips the first k elements of s, and keeps the others.
Skips(f, s, n, k) ==
    f = [i \in 0..n |-> IF i = 0 THEN <<>>
                        ELSE IF i > k THEN Append(f[i - 1], s[i]) ELSE f[i - 1]]

LEMMA SkipsExist ==
    ASSUME NEW T, NEW n \in Nat, NEW s \in [1..n -> T], NEW k \in 0..n
    PROVE  \E f : Skips(f, s, n, k)
<1>. DEFINE f == [i \in 0..n |-> IF i > k THEN EndOf(s, i, k) ELSE <<>>]
<1>1. EndOf(s, k, k) = <<>>
  <2>1. k - k = 0
    OBVIOUS
  <2>. QED
    BY <2>1 DEF EndOf
<1>2. ASSUME NEW i \in 0..n
      PROVE  f[i] = IF i = 0 THEN <<>>
                    ELSE IF i > k THEN Append(f[i - 1], s[i]) ELSE f[i - 1]
  <2>1. CASE i <= k
    BY <2>1
  <2>2. CASE i > k
    <3>. DEFINE h == i - 1
    <3>1. h \in Nat /\ h \in 0..n /\ k \in Nat /\ k <= h /\ h + 1 = i /\ i # 0
          /\ h + 1 <= n
      BY <2>2
    <3>2. f[h] = EndOf(s, h, k)
      BY <1>1, <3>1
    <3>3. f[i] = EndOf(s, i, k)
      BY <2>2
    <3>. HIDE DEF f, h
    <3>4. EndGrowsAt(s, h, k)
      BY <3>1, EndGrows
    <3>5. f[i] = Append(f[h], s[i])
      BY <3>1, <3>2, <3>3, <3>4 DEF EndGrowsAt
    <3>. QED
      BY <2>2, <3>1, <3>5 DEF h
  <2>. QED
    BY <2>1, <2>2
<1>3. DOMAIN f = 0..n
  OBVIOUS
<1>4. f = [i \in 0..n |-> f[i]]
  OBVIOUS
<1>. HIDE DEF f
<1>5. Skips(f, s, n, k)
  BY <1>2, <1>4 DEF Skips
<1>. QED
  BY <1>5

LEMMA SkipsIs ==
    ASSUME NEW T, NEW n \in Nat, NEW s \in [1..n -> T], NEW k \in 0..n,
           NEW f, Skips(f, s, n, k)
    PROVE  f[n] = EndOf(s, n, k)
<1>. DEFINE S == {i \in Nat : i <= n => f[i] = IF i > k THEN EndOf(s, i, k) ELSE <<>>}
<1>1. EndOf(s, k, k) = <<>>
  <2>1. k - k = 0
    OBVIOUS
  <2>. QED
    BY <2>1 DEF EndOf
<1>2. \A i \in 0..n : f[i] = IF i = 0 THEN <<>>
                             ELSE IF i > k THEN Append(f[i - 1], s[i]) ELSE f[i - 1]
  BY DEF Skips
<1>3. 0 \in S
  BY <1>2
<1>4. ASSUME NEW h \in Nat, h \in S PROVE h + 1 \in S
  <2>1. SUFFICES ASSUME h + 1 <= n
                 PROVE  f[h + 1] = IF h + 1 > k THEN EndOf(s, h + 1, k) ELSE <<>>
    OBVIOUS
  <2>2. h + 1 \in 0..n /\ h + 1 # 0 /\ (h + 1) - 1 = h /\ h <= n
    BY <2>1
  <2>3. f[h] = IF h > k THEN EndOf(s, h, k) ELSE <<>>
    BY <1>4, <2>2
  <2>4. f[h + 1] = IF h + 1 > k THEN Append(f[h], s[h + 1]) ELSE f[h]
    BY <1>2, <2>2
  <2>5. CASE h + 1 > k
    <3>1. h >= k /\ k <= h /\ k \in Nat
      BY <2>2, <2>5
    <3>2. f[h] = EndOf(s, h, k)
      <4>1. h > k \/ h = k
        BY <3>1
      <4>. QED
        BY <1>1, <2>3, <4>1
    <3>3. EndGrowsAt(s, h, k)
      BY <2>1, <3>1, EndGrows
    <3>. QED
      BY <2>4, <2>5, <3>2, <3>3 DEF EndGrowsAt
  <2>6. CASE ~(h + 1 > k)
    <3>1. ~(h > k)
      BY <2>6
    <3>. QED
      BY <2>3, <2>4, <2>6, <3>1
  <2>. QED
    BY <2>5, <2>6
<1>. HIDE DEF S
<1>5. n \in S
  BY <1>3, <1>4, AllNats
<1>6. f[n] = IF n > k THEN EndOf(s, n, k) ELSE <<>>
  BY <1>5 DEF S
<1>7. n > k \/ n = k
  OBVIOUS
<1>. QED
  BY <1>1, <1>6, <1>7

\* h is f and, behind it, g.
Joins(h, f, g) == h = f \o g

LEMMA JoinsIs ==
    ASSUME NEW T, NEW f \in Seq(T), NEW g \in Seq(T), NEW h, Joins(h, f, g)
    PROVE  /\ h \in Seq(T) /\ Len(h) = Len(f) + Len(g)
           /\ \A i \in 1..Len(f) : h[i] = f[i]
           /\ \A i \in 1..Len(g) : h[Len(f) + i] = g[i]
BY DEF Joins

-----------------------------------------------------------------------------
(* The loops of lecwatch and lecdiag.                                       *)

LEMMA SnapshotIs ==
    ASSUME RingInv
    PROVE  /\ count \in Nat /\ nextSequence \in Nat /\ recorded \in Nat
           /\ count <= nextSequence /\ nextSequence <= recorded
           /\ FillTrace \in [1..count -> Entry \cup {Zero}]
           /\ \A i \in 1..count :
                 /\ FillTrace[i].sequence = nextSequence - count + i
                 /\ FillTrace[i] = [sequence |-> nextSequence - count + i,
                                    id |-> recorded - count + i]
<1>1. RingTypeOK
  BY DEF RingInv
<1>2. count = IF nextSequence < Capacity THEN nextSequence ELSE Capacity
  BY DEF RingInv
<1>3. /\ count \in Nat /\ nextSequence \in Nat /\ recorded \in Nat
      /\ nextSequence <= recorded
  BY <1>1, CapacityAssumption, RecordMaxAssumption DEF RingTypeOK
<1>4. count <= nextSequence
  BY <1>2, <1>3, CapacityAssumption
<1>5. FillTrace \in [1..count -> Entry \cup {Zero}]
  <2>1. FillTrace \in Seq(Entry \cup {Zero}) /\ Len(FillTrace) = count
    BY <1>1, FillIsSequence
  <2>. QED
    BY <1>3, <2>1
<1>6. \A i \in 1..count :
         FillTrace[i] = [sequence |-> nextSequence - count + i, id |-> recorded - count + i]
  BY DEF RingInv
<1>7. ASSUME NEW i \in 1..count PROVE FillTrace[i].sequence = nextSequence - count + i
  <2>. DEFINE a == nextSequence - count + i
              b == recorded - count + i
  <2>1. FillTrace[i] = [sequence |-> a, id |-> b]
    BY <1>6
  <2>. HIDE DEF a, b
  <2>2. [sequence |-> a, id |-> b].sequence = a
    OBVIOUS
  <2>. QED
    BY <2>1, <2>2 DEF a
<1>. QED
  BY <1>3, <1>4, <1>5, <1>6, <1>7

LEMMA OldIs ==
    ASSUME RingInv, NEW last \in Nat
    PROVE  /\ count \in Nat /\ nextSequence \in Nat /\ recorded \in Nat
           /\ count <= nextSequence /\ nextSequence <= recorded
           /\ Old(last) \in 0..count
           /\ \A i \in 1..count : FillTrace[i].sequence > last <=> i > Old(last)
<1>1. /\ count \in Nat /\ nextSequence \in Nat /\ recorded \in Nat
      /\ count <= nextSequence /\ nextSequence <= recorded
  BY SnapshotIs
<1>2. Old(last) \in 0..count
  BY <1>1 DEF Old
<1>3. ASSUME NEW i \in 1..count PROVE FillTrace[i].sequence > last <=> i > Old(last)
  <2>1. FillTrace[i].sequence = nextSequence - count + i
    BY SnapshotIs
  <2>2. nextSequence - count + i > last <=> i > Old(last)
    BY <1>1 DEF Old
  <2>. QED
    BY <2>1, <2>2
<1>. QED
  BY <1>1, <1>2, <1>3

LEMMA NewEntriesIs ==
    ASSUME RingInv, lastSequence \in Nat
    PROVE  NewEntries = EndOf(FillTrace, count, Old(lastSequence))
<1>. DEFINE n == count
            s == FillTrace
            k == Old(lastSequence)
            Def(f) == f = [i \in 0..count |->
                             IF i = 0 THEN <<>>
                             ELSE IF IsNew(FillTrace[i]) THEN Append(f[i - 1], FillTrace[i])
                             ELSE f[i - 1]]
            new == CHOOSE f : Def(f)
<1>1. /\ n \in Nat /\ k \in 0..n
      /\ \A i \in 1..n : IsNew(s[i]) <=> i > k
  BY OldIs DEF IsNew
<1>2. s \in [1..n -> Entry \cup {Zero}]
  BY SnapshotIs
<1>3. NewEntries = new[n]
  BY DEF NewEntries
<1>. HIDE DEF n, s, k
<1>4. ASSUME NEW f PROVE Def(f) <=> Skips(f, s, n, k)
  <2>1. ASSUME NEW i \in 0..n
        PROVE  (IF i = 0 THEN <<>> ELSE IF IsNew(s[i]) THEN Append(f[i - 1], s[i]) ELSE f[i - 1])
                 = (IF i = 0 THEN <<>> ELSE IF i > k THEN Append(f[i - 1], s[i]) ELSE f[i - 1])
    <3>1. i = 0 \/ i \in 1..n
      BY <1>1
    <3>. QED
      BY <1>1, <3>1
  <2>2. Def(f) <=> f = [i \in 0..n |->
                          IF i = 0 THEN <<>>
                          ELSE IF IsNew(s[i]) THEN Append(f[i - 1], s[i]) ELSE f[i - 1]]
    BY DEF n, s
  <2>. HIDE DEF Def
  <2>. QED
    BY <2>1, <2>2 DEF Skips
<1>. HIDE DEF Def
<1>5. \E f : Def(f)
  BY <1>1, <1>2, <1>4, SkipsExist
<1>6. Def(new)
  BY <1>5
<1>. HIDE DEF new
<1>7. new[n] = EndOf(s, n, k)
  BY <1>1, <1>2, <1>4, <1>6, SkipsIs
<1>. QED
  BY <1>3, <1>7 DEF n, s, k

LEMMA EntriesSinceIs ==
    ASSUME RingInv, capLast \in Nat
    PROVE  EntriesSince = EndOf(FillTrace, count, Old(capLast))
<1>. DEFINE n == count
            s == FillTrace
            k == Old(capLast)
            Def(f) == f = [i \in 0..count |->
                             IF i = 0 THEN <<>>
                             ELSE IF NewSince(FillTrace[i]) THEN Append(f[i - 1], FillTrace[i])
                             ELSE f[i - 1]]
            since == CHOOSE f : Def(f)
<1>1. /\ n \in Nat /\ k \in 0..n
      /\ \A i \in 1..n : NewSince(s[i]) <=> i > k
  BY OldIs DEF NewSince
<1>2. s \in [1..n -> Entry \cup {Zero}]
  BY SnapshotIs
<1>3. EntriesSince = since[n]
  BY DEF EntriesSince
<1>. HIDE DEF n, s, k
<1>4. ASSUME NEW f PROVE Def(f) <=> Skips(f, s, n, k)
  <2>1. ASSUME NEW i \in 0..n
        PROVE  (IF i = 0 THEN <<>> ELSE IF NewSince(s[i]) THEN Append(f[i - 1], s[i]) ELSE f[i - 1])
                 = (IF i = 0 THEN <<>> ELSE IF i > k THEN Append(f[i - 1], s[i]) ELSE f[i - 1])
    <3>1. i = 0 \/ i \in 1..n
      BY <1>1
    <3>. QED
      BY <1>1, <3>1
  <2>2. Def(f) <=> f = [i \in 0..n |->
                          IF i = 0 THEN <<>>
                          ELSE IF NewSince(s[i]) THEN Append(f[i - 1], s[i]) ELSE f[i - 1]]
    BY DEF n, s
  <2>. HIDE DEF Def
  <2>. QED
    BY <2>1, <2>2 DEF Skips
<1>. HIDE DEF Def
<1>5. \E f : Def(f)
  BY <1>1, <1>2, <1>4, SkipsExist
<1>6. Def(since)
  BY <1>5
<1>. HIDE DEF since
<1>7. since[n] = EndOf(s, n, k)
  BY <1>1, <1>2, <1>4, <1>6, SkipsIs
<1>. QED
  BY <1>3, <1>7 DEF n, s, k

\* The records behind the last one seen have the numbers up to the newest.
LEMMA NewerAre ==
    ASSUME RingInv, NEW last \in Nat
    PROVE  LET newer == EndOf(FillTrace, count, Old(last))
               m == Len(newer)
           IN  /\ newer \in Seq(Entry \cup {Zero}) /\ m \in Nat
               /\ m = count - Old(last)
               /\ \A j \in 1..m :
                     newer[j] = [sequence |-> nextSequence - m + j, id |-> recorded - m + j]
               /\ m <= count
               /\ m > 0 => nextSequence > last
               /\ last <= nextSequence => m <= nextSequence - last
               /\ last <= nextSequence /\ nextSequence <= last + Capacity =>
                     m = nextSequence - last
<1>. DEFINE newer == EndOf(FillTrace, count, Old(last))
            k == Old(last)
            m == count - k
<1>1. /\ count \in Nat /\ nextSequence \in Nat /\ recorded \in Nat
      /\ count <= nextSequence /\ nextSequence <= recorded /\ k \in 0..count
  BY OldIs
<1>2. m \in Nat /\ m <= count
  BY <1>1
<1>3. newer = [j \in 1..m |-> FillTrace[k + j]]
  BY DEF EndOf
<1>4. m > 0 => nextSequence > last
  BY <1>1 DEF Old
<1>5. last <= nextSequence => m <= nextSequence - last
  BY <1>1 DEF Old
<1>10. last <= nextSequence /\ nextSequence <= last + Capacity => m = nextSequence - last
  <2>1. /\ Capacity \in Nat
        /\ count = IF nextSequence < Capacity THEN nextSequence ELSE Capacity
    BY CapacityAssumption DEF RingInv
  <2>. QED
    BY <1>1, <2>1 DEF Old
<1>. HIDE DEF newer, k
<1>6. ASSUME NEW j \in 1..m
      PROVE  newer[j] = [sequence |-> nextSequence - m + j, id |-> recorded - m + j]
  <2>1. k + j \in 1..count /\ nextSequence - count + (k + j) = nextSequence - m + j
        /\ recorded - count + (k + j) = recorded - m + j
    BY <1>1
  <2>2. FillTrace[k + j] = [sequence |-> nextSequence - count + (k + j),
                            id |-> recorded - count + (k + j)]
    BY <2>1, SnapshotIs
  <2>. QED
    BY <1>3, <2>1, <2>2
<1>7. \A j \in 1..m : FillTrace[k + j] \in Entry \cup {Zero}
  <2>1. \A j \in 1..m : k + j \in 1..count
    BY <1>1
  <2>2. \A i \in 1..count : FillTrace[i] \in Entry \cup {Zero}
    <3>1. FillTrace \in [1..count -> Entry \cup {Zero}]
      BY SnapshotIs
    <3>. QED
      BY <3>1
  <2>. QED
    BY <2>1, <2>2
<1>8. newer \in Seq(Entry \cup {Zero}) /\ Len(newer) = m
  BY <1>2, <1>3, <1>7
<1>. HIDE DEF m
<1>9. m = count - k
  BY DEF m
<1>. QED
  BY <1>2, <1>4, <1>5, <1>6, <1>8, <1>9, <1>10 DEF newer, k

-----------------------------------------------------------------------------
(* The capture of lecdiag.                                                  *)

TcSpec == TcInit /\ [][TcNext]_captureVars

Line == [id : Nat, sequence : Nat, payload : BOOLEAN]

CapTypeOK ==
    /\ capLast \in Nat /\ capStart \in Nat /\ capSeen \in Nat /\ capSeen <= recorded
    /\ capFile \in Seq(Line)
    /\ capPc = "start" =>
          capFile = <<>> /\ capLast = 0 /\ capStart = 0 /\ capSeen = 0 /\ ~outrun

\* The lines so far, whatever happened.
CapLines ==
    /\ \A i \in 1..Len(capFile) :
          /\ capStart < capFile[i].id /\ capFile[i].id <= capSeen
          /\ capFile[i].id \in Sensitive => ~capFile[i].payload
    /\ \A i, j \in 1..Len(capFile) : i < j => capFile[i].id < capFile[j].id

\* While it polls, the trace was cleared behind capStart; and unless it was cleared again
\* and has not caught up, a number above capLast is that of a record not yet written.
CapEpoch ==
    capPc = "poll" =>
        /\ capStart <= recorded - nextSequence
        /\ capLast <= nextSequence => \A i \in 1..Len(capFile) :
              capFile[i].id <= recorded - nextSequence + capLast

CapWhole ==
    ~outrun =>
        /\ Len(capFile) = capSeen - capStart
        /\ capPc = "poll" => recorded - nextSequence = capStart /\ capLast = capSeen - capStart

CapInv == RingInv /\ CapTypeOK /\ CapLines /\ CapEpoch /\ CapWhole

LEMMA CapImplies == CapInv => CaptureComplete
<1>. SUFFICES ASSUME CapInv PROVE CaptureComplete
  OBVIOUS
<1>1. /\ capStart \in Nat /\ capSeen \in Nat /\ capFile \in Seq(Line)
      /\ CapLines /\ CapWhole
  BY DEF CapInv, CapTypeOK
<1>2. DOMAIN capFile = 1..Len(capFile) /\ Len(capFile) \in Nat
  BY <1>1
<1>3. ASSUME NEW i \in DOMAIN capFile
      PROVE  /\ capFile[i].id \in capStart + 1..capSeen
             /\ i > 1 => capFile[i - 1].id < capFile[i].id
             /\ capFile[i].id \in Sensitive => ~capFile[i].payload
  <2>1. i \in 1..Len(capFile)
    BY <1>2
  <2>2. capFile[i] \in Line
    BY <1>1, <2>1
  <2>3. capFile[i].id \in Nat
    BY <2>2 DEF Line
  <2>4. capFile[i].id \in capStart + 1..capSeen
    BY <1>1, <2>1, <2>3 DEF CapLines
  <2>5. ASSUME i > 1 PROVE capFile[i - 1].id < capFile[i].id
    <3>1. i - 1 \in 1..Len(capFile) /\ i - 1 < i
      BY <1>2, <2>1, <2>5
    <3>. QED
      BY <1>1, <2>1, <3>1 DEF CapLines
  <2>. QED
    BY <1>1, <2>1, <2>4, <2>5 DEF CapLines
<1>4. ~outrun => Len(capFile) = capSeen - capStart
  BY <1>1 DEF CapWhole
<1>. QED
  BY <1>3, <1>4 DEF CaptureComplete

LEMMA CapInit == TcInit => CapInv
<1>. SUFFICES ASSUME TcInit PROVE CapInv
  OBVIOUS
<1>1. RingInv
  BY RingInvInit DEF TcInit
<1>2. /\ capPc = "start" /\ capLast = 0 /\ capFile = <<>> /\ capStart = 0 /\ capSeen = 0
      /\ ~outrun /\ recorded = 0 /\ Len(capFile) = 0
  BY DEF TcInit, RingInit
<1>3. CapTypeOK
  BY <1>2 DEF CapTypeOK
<1>. QED
  BY <1>1, <1>2, <1>3 DEF CapInv, CapLines, CapEpoch, CapWhole

\* Lines that are written for records of a snapshot, in its order.
LEMMA WrittenAllIs ==
    ASSUME NEW s \in Seq(Entry \cup {Zero})
    PROVE  /\ WrittenAll(s) \in Seq(Line) /\ Len(WrittenAll(s)) = Len(s)
           /\ \A i \in 1..Len(s) :
                 /\ WrittenAll(s)[i].id = s[i].id
                 /\ s[i].id \in Sensitive => ~WrittenAll(s)[i].payload
<1>1. DOMAIN s = 1..Len(s) /\ Len(s) \in Nat
  OBVIOUS
<1>2. ASSUME NEW i \in 1..Len(s)
      PROVE  /\ Written(s[i]) \in Line /\ Written(s[i]).id = s[i].id
             /\ s[i].id \in Sensitive => ~Written(s[i]).payload
  <2>1. s[i] \in Entry \cup {Zero}
    OBVIOUS
  <2>2. s[i].id \in Nat /\ s[i].sequence \in Nat
    BY <2>1, RecordMaxAssumption DEF Entry, Zero
  <2>. QED
    BY <2>2 DEF Written, Line
<1>3. WrittenAll(s) = [i \in 1..Len(s) |-> Written(s[i])]
  BY <1>1 DEF WrittenAll
<1>4. WrittenAll(s) \in Seq(Line) /\ Len(WrittenAll(s)) = Len(s)
  BY <1>1, <1>2, <1>3
<1>. QED
  BY <1>2, <1>3, <1>4

LEMMA RecordKeepsCap == CapInv /\ OthersTrace => CapInv'
<1>. SUFFICES ASSUME CapInv, OthersTrace PROVE CapInv'
  OBVIOUS
<1>1. /\ RingInv /\ CapTypeOK /\ CapLines /\ CapEpoch /\ CapWhole
      /\ RecordTrace /\ UNCHANGED capVars
  BY DEF CapInv, OthersTrace
<1>2. RingInv'
  BY <1>1, RingInvRecord
<1>3. /\ UNCHANGED <<capPc, capLast, capFile, capStart, capSeen, outrun>>
      /\ recorded' = recorded + 1 /\ nextSequence' = nextSequence + 1
      /\ recorded \in Nat /\ nextSequence \in Nat
  BY <1>1, SnapshotIs DEF capVars, RecordTrace
<1>4. CapTypeOK'
  BY <1>1, <1>3 DEF CapTypeOK
<1>5. CapLines'
  BY <1>1, <1>3 DEF CapLines
<1>6. CapEpoch'
  <2>1. recorded' - nextSequence' = recorded - nextSequence
    BY <1>3
  <2>2. ASSUME capPc = "poll", capLast <= nextSequence + 1, NEW i \in 1..Len(capFile)
        PROVE  capFile[i].id <= recorded - nextSequence + capLast
    <3>1. capFile[i] \in Line /\ capLast \in Nat /\ capSeen \in Nat /\ capSeen <= recorded
      BY <1>1 DEF CapTypeOK
    <3>2. capFile[i].id \in Nat /\ capFile[i].id <= capSeen
      BY <1>1, <3>1 DEF CapLines, Line
    <3>3. CASE capLast <= nextSequence
      BY <1>1, <2>2, <3>3 DEF CapEpoch
    <3>4. CASE capLast = nextSequence + 1
      BY <1>3, <3>1, <3>2, <3>4
    <3>. QED
      BY <1>3, <2>2, <3>1, <3>3, <3>4
  <2>. QED
    BY <1>1, <1>3, <2>1, <2>2 DEF CapEpoch
<1>7. CapWhole'
  <2>1. recorded' - nextSequence' = recorded - nextSequence
    BY <1>3
  <2>. QED
    BY <1>1, <1>3, <2>1 DEF CapWhole
<1>. QED
  BY <1>2, <1>4, <1>5, <1>6, <1>7 DEF CapInv

LEMMA ClearKeepsCap == CapInv /\ OthersClear => CapInv'
<1>. SUFFICES ASSUME CapInv, OthersClear PROVE CapInv'
  OBVIOUS
<1>1. /\ RingInv /\ CapTypeOK /\ CapLines
      /\ ClearTrace /\ outrun' /\ capPc = "poll"
      /\ UNCHANGED <<capPc, capLast, capFile, capStart, capSeen>>
  BY DEF CapInv, OthersClear
<1>2. RingInv'
  BY <1>1, RingInvClear
<1>3. recorded' = recorded /\ nextSequence' = 0 /\ recorded \in Nat /\ nextSequence \in Nat
  BY <1>1, SnapshotIs DEF ClearTrace
<1>4. CapTypeOK' /\ CapLines'
  BY <1>1, <1>3 DEF CapTypeOK, CapLines
<1>5. CapEpoch'
  <2>1. capStart <= recorded - nextSequence /\ capStart \in Nat
    BY <1>1 DEF CapInv, CapEpoch, CapTypeOK
  <2>2. capStart <= recorded - 0
    BY <1>3, <2>1
  <2>3. ASSUME capLast <= 0, NEW i \in 1..Len(capFile)
        PROVE  capFile[i].id <= recorded - 0 + capLast
    <3>1. capFile[i] \in Line /\ capLast \in Nat /\ capSeen \in Nat /\ capSeen <= recorded
      BY <1>1 DEF CapTypeOK
    <3>2. capFile[i].id \in Nat /\ capFile[i].id <= capSeen
      BY <1>1, <3>1 DEF CapLines, Line
    <3>. QED
      BY <1>3, <3>1, <3>2
  <2>. QED
    BY <1>1, <1>3, <2>2, <2>3 DEF CapEpoch
<1>6. CapWhole'
  BY <1>1 DEF CapWhole
<1>. QED
  BY <1>2, <1>4, <1>5, <1>6 DEF CapInv

LEMMA BeginKeepsCap == CapInv /\ CaptureBegin => CapInv'
<1>. SUFFICES ASSUME CapInv, CaptureBegin PROVE CapInv'
  OBVIOUS
<1>1. /\ RingInv /\ CapTypeOK /\ ClearTrace /\ capPc = "start" /\ capPc' = "poll"
      /\ capStart' = recorded /\ capSeen' = recorded
      /\ UNCHANGED <<capLast, capFile, outrun>>
  BY DEF CapInv, CaptureBegin
<1>2. RingInv'
  BY <1>1, RingInvClear
<1>3. recorded' = recorded /\ nextSequence' = 0 /\ recorded \in Nat
  BY <1>1, SnapshotIs DEF ClearTrace
<1>4. capFile' = <<>> /\ Len(capFile') = 0 /\ capLast' = 0
  BY <1>1 DEF CapTypeOK
<1>5. CapTypeOK'
  BY <1>1, <1>3, <1>4 DEF CapTypeOK
<1>6. CapLines'
  BY <1>4 DEF CapLines
<1>7. CapEpoch' /\ CapWhole'
  BY <1>1, <1>3, <1>4 DEF CapEpoch, CapWhole
<1>. QED
  BY <1>2, <1>5, <1>6, <1>7 DEF CapInv

LEMMA EndKeepsCap == CapInv /\ (CaptureEnds \/ CaptureFails) => CapInv'
<1>. SUFFICES ASSUME CapInv, CaptureEnds \/ CaptureFails PROVE CapInv'
  OBVIOUS
<1>1. /\ RingInv /\ CapTypeOK /\ CapLines /\ CapWhole
      /\ UNCHANGED <<capLast, capFile, capStart, capSeen, outrun>>
      /\ capPc' \in {"done", "failed"}
      /\ UNCHANGED ringVars \/ ClearTrace
  BY DEF CapInv, CaptureEnds, CaptureFails
<1>2. RingInv' /\ recorded' = recorded
  BY <1>1, RingInvSame, RingInvClear DEF ClearTrace, ringVars
<1>3. CapTypeOK' /\ CapLines'
  BY <1>1, <1>2 DEF CapTypeOK, CapLines
<1>4. CapEpoch' /\ CapWhole'
  BY <1>1 DEF CapEpoch, CapWhole
<1>. QED
  BY <1>2, <1>3, <1>4 DEF CapInv

LEMMA SaveKeepsCap == CapInv /\ TraceSave => CapInv'
<1>. SUFFICES ASSUME CapInv, TraceSave PROVE CapInv'
  OBVIOUS
<1>1. /\ RingInv /\ CapTypeOK /\ capPc' = "done" /\ UNCHANGED ringVars
      /\ capFile' = WrittenAll(FillTrace)
      /\ capStart' = recorded - count /\ capSeen' = recorded
      /\ UNCHANGED <<capLast, outrun>>
  BY DEF CapInv, TraceSave
<1>2. RingInv' /\ recorded' = recorded
  BY <1>1, RingInvSame DEF ringVars
<1>3. /\ count \in Nat /\ recorded \in Nat /\ count <= recorded
      /\ FillTrace \in Seq(Entry \cup {Zero}) /\ Len(FillTrace) = count
  <2>1. /\ count \in Nat /\ nextSequence \in Nat /\ recorded \in Nat
        /\ count <= nextSequence /\ nextSequence <= recorded
    BY <1>1, SnapshotIs
  <2>2. FillTrace \in Seq(Entry \cup {Zero}) /\ Len(FillTrace) = count
    BY <1>1, FillIsSequence DEF RingInv
  <2>. QED
    BY <2>1, <2>2
<1>4. /\ capFile' \in Seq(Line) /\ Len(capFile') = count
      /\ \A i \in 1..count :
            /\ capFile'[i].id = FillTrace[i].id
            /\ FillTrace[i].id \in Sensitive => ~capFile'[i].payload
  BY <1>1, <1>3, WrittenAllIs
<1>5. ASSUME NEW i \in 1..count PROVE FillTrace[i].id = recorded - count + i
  <2>. DEFINE a == nextSequence - count + i
              b == recorded - count + i
  <2>1. FillTrace[i] = [sequence |-> a, id |-> b]
    BY <1>1, SnapshotIs
  <2>. HIDE DEF a, b
  <2>2. [sequence |-> a, id |-> b].id = b
    OBVIOUS
  <2>. QED
    BY <2>1, <2>2 DEF b
<1>6. CapTypeOK'
  BY <1>1, <1>2, <1>3, <1>4 DEF CapTypeOK
<1>7. CapLines'
  <2>1. ASSUME NEW i \in 1..count
        PROVE  /\ capFile'[i].id = recorded - count + i
               /\ recorded - count < capFile'[i].id /\ capFile'[i].id <= recorded
               /\ capFile'[i].id \in Sensitive => ~capFile'[i].payload
    <3>1. capFile'[i].id = recorded - count + i
      BY <1>4, <1>5
    <3>. QED
      BY <1>3, <1>4, <3>1
  <2>2. \A i, j \in 1..count : i < j => capFile'[i].id < capFile'[j].id
    BY <1>3, <2>1
  <2>. QED
    BY <1>1, <1>4, <2>1, <2>2 DEF CapLines
<1>8. CapEpoch' /\ CapWhole'
  BY <1>1, <1>3, <1>4 DEF CapEpoch, CapWhole
<1>. QED
  BY <1>2, <1>6, <1>7, <1>8 DEF CapInv

\* A poll writes the records behind the last one it wrote.
LEMMA PollKeepsCap == CapInv /\ CapturePoll => CapInv'
<1>. SUFFICES ASSUME CapInv, CapturePoll PROVE CapInv'
  OBVIOUS
<1>. DEFINE new == EndOf(FillTrace, count, Old(capLast))
            m == Len(new)
            c == Len(capFile)
            lines == WrittenAll(new)
<1>1. /\ RingInv /\ CapTypeOK /\ CapLines /\ CapEpoch /\ CapWhole
      /\ capPc = "poll" /\ UNCHANGED <<ringVars, capPc, capStart>>
      /\ capLast \in Nat
  BY DEF CapInv, CapturePoll, CapTypeOK
<1>2. EntriesSince = new
  BY <1>1, EntriesSinceIs
<1>3. /\ capFile' = capFile \o lines
      /\ capLast' = IF new = <<>> THEN capLast ELSE new[m].sequence
      /\ capSeen' = recorded
      /\ outrun' = (outrun \/ nextSequence > capLast + Capacity)
  BY <1>2 DEF CapturePoll
<1>4. /\ new \in Seq(Entry \cup {Zero}) /\ m \in Nat /\ m <= count
      /\ \A j \in 1..m :
            new[j] = [sequence |-> nextSequence - m + j, id |-> recorded - m + j]
      /\ m > 0 => nextSequence > capLast
      /\ capLast <= nextSequence => m <= nextSequence - capLast
      /\ capLast <= nextSequence /\ nextSequence <= capLast + Capacity =>
            m = nextSequence - capLast
  BY <1>1, NewerAre
<1>5. /\ lines \in Seq(Line) /\ Len(lines) = m
      /\ \A i \in 1..m :
            /\ lines[i].id = new[i].id
            /\ new[i].id \in Sensitive => ~lines[i].payload
  BY <1>4, WrittenAllIs
<1>. HIDE DEF new, lines
<1>6. /\ capFile \in Seq(Line) /\ c \in Nat
      /\ capStart \in Nat /\ capSeen \in Nat /\ capSeen <= recorded
  BY <1>1 DEF CapTypeOK
<1>7. /\ capFile' \in Seq(Line) /\ Len(capFile') = c + m
      /\ \A i \in 1..c : capFile'[i] = capFile[i]
      /\ \A i \in 1..m : capFile'[c + i] = lines[i]
  <2>1. Joins(capFile', capFile, lines)
    BY <1>3 DEF Joins
  <2>2. /\ capFile' \in Seq(Line) /\ Len(capFile') = Len(capFile) + Len(lines)
        /\ \A i \in 1..Len(capFile) : capFile'[i] = capFile[i]
        /\ \A i \in 1..Len(lines) : capFile'[Len(capFile) + i] = lines[i]
    BY <1>5, <1>6, <2>1, JoinsIs
  <2>. QED
    BY <1>5, <2>2
<1>. HIDE DEF m, c
<1>8. /\ count \in Nat /\ nextSequence \in Nat /\ recorded \in Nat
      /\ count <= nextSequence /\ nextSequence <= recorded
      /\ recorded' = recorded /\ nextSequence' = nextSequence
  BY <1>1, SnapshotIs DEF ringVars
<1>9. ASSUME NEW i \in 1..m
      PROVE  /\ new[i].id = recorded - m + i
             /\ new[i].sequence = nextSequence - m + i
  <2>. DEFINE a == nextSequence - m + i
              b == recorded - m + i
  <2>1. new[i] = [sequence |-> a, id |-> b]
    BY <1>4
  <2>. HIDE DEF a, b
  <2>2. [sequence |-> a, id |-> b].id = b /\ [sequence |-> a, id |-> b].sequence = a
    OBVIOUS
  <2>. QED
    BY <2>1, <2>2 DEF a, b
<1>10. /\ capLast' = (IF m > 0 THEN nextSequence ELSE capLast)
       /\ capLast' \in Nat
  <2>1. new = <<>> <=> m = 0
    BY <1>4 DEF m
  <2>2. CASE m > 0
    <3>1. m \in 1..m /\ nextSequence - m + m = nextSequence
      BY <1>4, <1>8, <2>2
    <3>2. new[m].sequence = nextSequence
      BY <1>9, <3>1
    <3>. QED
      BY <1>3, <1>8, <2>1, <2>2, <3>2
  <2>3. CASE m = 0
    BY <1>1, <1>3, <2>1, <2>3
  <2>. QED
    BY <1>4, <2>2, <2>3
<1>11. RingInv'
  BY <1>1, RingInvSame
<1>12. CapTypeOK'
  BY <1>1, <1>3, <1>6, <1>7, <1>8, <1>10 DEF CapTypeOK
<1>13. ASSUME NEW i \in 1..c
       PROVE  /\ capFile[i].id \in Nat
              /\ capStart < capFile[i].id /\ capFile[i].id <= recorded
              /\ capFile[i].id \in Sensitive => ~capFile[i].payload
              /\ m > 0 => capFile[i].id <= recorded - m
  <2>1. capFile[i].id \in Nat
    <3>1. capFile[i] \in Line
      BY <1>6 DEF c
    <3>. QED
      BY <3>1 DEF Line
  <2>2. /\ capStart < capFile[i].id /\ capFile[i].id <= capSeen
        /\ capFile[i].id \in Sensitive => ~capFile[i].payload
    BY <1>1 DEF CapLines, c
  <2>3. m > 0 => capFile[i].id <= recorded - nextSequence + capLast
    BY <1>1, <1>4, <1>8 DEF CapEpoch, c
  <2>. QED
    BY <1>1, <1>4, <1>6, <1>8, <2>1, <2>2, <2>3
<1>14. ASSUME NEW i \in 1..c + m
       PROVE  \/ i \in 1..c /\ capFile'[i] = capFile[i]
              \/ /\ i - c \in 1..m
                 /\ capFile'[i].id = recorded - m + (i - c)
                 /\ capFile'[i].id \in Sensitive => ~capFile'[i].payload
  <2>1. CASE i \in 1..c
    BY <1>7, <2>1
  <2>2. CASE i \notin 1..c
    <3>. DEFINE j == i - c
    <3>1. j \in 1..m /\ i = c + j
      BY <1>4, <1>6, <2>2
    <3>. HIDE DEF j
    <3>2. capFile'[i] = lines[j]
      BY <1>7, <3>1
    <3>3. capFile'[i].id = recorded - m + j
      BY <1>5, <1>9, <3>1, <3>2 DEF m
    <3>4. capFile'[i].id \in Sensitive => ~capFile'[i].payload
      BY <1>5, <3>1, <3>2 DEF m
    <3>. QED
      BY <3>1, <3>3, <3>4 DEF j
  <2>. QED
    BY <2>1, <2>2
<1>15. CapLines'
  <2>1. capStart <= recorded - nextSequence
    BY <1>1 DEF CapEpoch
  <2>2. ASSUME NEW i \in 1..c + m
        PROVE  /\ capStart < capFile'[i].id /\ capFile'[i].id <= recorded
               /\ capFile'[i].id \in Sensitive => ~capFile'[i].payload
    <3>1. CASE i \in 1..c /\ capFile'[i] = capFile[i]
      BY <1>13, <3>1
    <3>2. CASE i - c \in 1..m /\ capFile'[i].id = recorded - m + (i - c)
      BY <1>4, <1>6, <1>8, <1>14, <2>1, <3>2
    <3>. QED
      BY <1>14, <3>1, <3>2
  <2>3. ASSUME NEW i \in 1..c + m, NEW j \in 1..c + m, i < j
        PROVE  capFile'[i].id < capFile'[j].id
    <3>1. CASE j \in 1..c /\ capFile'[j] = capFile[j]
      <4>1. i \in 1..c
        BY <1>4, <1>6, <2>3, <3>1
      <4>2. capFile'[i] = capFile[i]
        BY <1>7, <4>1
      <4>. QED
        BY <1>1, <2>3, <3>1, <4>1, <4>2 DEF CapLines, c
    <3>2. CASE j - c \in 1..m /\ capFile'[j].id = recorded - m + (j - c)
      <4>1. CASE i \in 1..c /\ capFile'[i] = capFile[i]
        <5>1. capFile[i].id \in Nat /\ capFile[i].id <= recorded - m
          BY <1>4, <1>13, <3>2, <4>1
        <5>2. capFile'[j].id = recorded - m + (j - c) /\ j - c \in 1..m
          BY <3>2
        <5>3. recorded - m < recorded - m + (j - c)
          BY <1>4, <1>6, <1>8, <5>2
        <5>. QED
          BY <1>4, <1>8, <4>1, <5>1, <5>2, <5>3
      <4>2. CASE i - c \in 1..m /\ capFile'[i].id = recorded - m + (i - c)
        BY <1>4, <1>6, <1>8, <2>3, <3>2, <4>2
      <4>. QED
        BY <1>14, <4>1, <4>2
    <3>. QED
      BY <1>14, <3>1, <3>2
  <2>. QED
    BY <1>1, <1>3, <1>7, <2>2, <2>3 DEF CapLines
<1>16. CapEpoch'
  <2>1. capStart <= recorded - nextSequence
    BY <1>1 DEF CapEpoch
  <2>2. ASSUME capLast' <= nextSequence, NEW i \in 1..c + m
        PROVE  capFile'[i].id <= recorded - nextSequence + capLast'
    <3>1. CASE m > 0
      <4>1. capLast' = nextSequence
        BY <1>10, <3>1
      <4>2. capFile'[i].id \in Int /\ capFile'[i].id <= recorded
        <5>1. CASE i \in 1..c /\ capFile'[i] = capFile[i]
          BY <1>13, <5>1
        <5>2. CASE i - c \in 1..m /\ capFile'[i].id = recorded - m + (i - c)
          BY <1>4, <1>6, <1>8, <5>2
        <5>. QED
          BY <1>14, <5>1, <5>2
      <4>. QED
        BY <1>8, <4>1, <4>2
    <3>2. CASE m = 0
      <4>1. capLast' = capLast /\ i \in 1..c
        BY <1>4, <1>6, <1>10, <3>2
      <4>2. capFile'[i] = capFile[i]
        BY <1>7, <4>1
      <4>. QED
        BY <1>1, <2>2, <4>1, <4>2 DEF CapEpoch, c
    <3>. QED
      BY <1>4, <3>1, <3>2
  <2>. QED
    BY <1>1, <1>7, <1>8, <2>1, <2>2 DEF CapEpoch
<1>17. CapWhole'
  <2>1. SUFFICES ASSUME ~outrun'
                 PROVE  /\ c + m = recorded - capStart
                        /\ recorded - nextSequence = capStart
                        /\ capLast' = recorded - capStart
    BY <1>1, <1>3, <1>7, <1>8 DEF CapWhole
  <2>2. ~outrun /\ ~(nextSequence > capLast + Capacity)
    BY <1>3, <2>1
  <2>3. /\ c = capSeen - capStart
        /\ recorded - nextSequence = capStart /\ capLast = capSeen - capStart
    BY <1>1, <2>2 DEF CapWhole, c
  <2>4. Capacity \in Nat /\ nextSequence <= capLast + Capacity
    BY <1>1, <1>8, <2>2, CapacityAssumption
  <2>5. capLast <= nextSequence
    BY <1>1, <1>6, <1>8, <2>3
  <2>6. m = nextSequence - capLast
    BY <1>4, <2>4, <2>5
  <2>7. capLast' = nextSequence
    <3>1. CASE m > 0
      BY <1>10, <3>1
    <3>2. CASE m = 0
      BY <1>1, <1>8, <1>10, <2>6, <3>2
    <3>. QED
      BY <1>4, <3>1, <3>2
  <2>. QED
    BY <1>1, <1>6, <1>8, <2>3, <2>6, <2>7
<1>. QED
  BY <1>11, <1>12, <1>15, <1>16, <1>17 DEF CapInv

\* The file has every request of the capture once and in order unless the ring was outrun,
\* and no bytes of the Dallas chip, for rings of any capacity and any number of polls.
THEOREM CapturesAreComplete == TcSpec => []CaptureComplete
<1>1. CapInv /\ [TcNext]_captureVars => CapInv'
  <2>. SUFFICES ASSUME CapInv, [TcNext]_captureVars PROVE CapInv'
    OBVIOUS
  <2>1. CASE UNCHANGED captureVars
    <3>1. RingInv'
      BY <2>1, RingInvSame DEF CapInv, captureVars
    <3>. QED
      BY <2>1, <3>1 DEF CapInv, CapTypeOK, CapLines, CapEpoch, CapWhole, captureVars, capVars,
                        ringVars
  <2>. QED
    BY <2>1, RecordKeepsCap, ClearKeepsCap, BeginKeepsCap, EndKeepsCap, SaveKeepsCap,
       PollKeepsCap DEF TcNext
<1>. QED
  BY <1>1, CapInit, CapImplies, PTL DEF TcSpec

-----------------------------------------------------------------------------
(* lecwatch.  What the queue of the window holds: ids, and counts of        *)
(* records that were dropped.                                               *)

StateMessage == [kind : {"state"}, connected : BOOLEAN]
BatchMessage == [kind : {"batch"}, ids : Seq(Nat), dropped : Nat]
Message == StateMessage \cup BatchMessage

IdsOf(m) == IF m.kind = "batch" THEN m.ids ELSE <<>>
DroppedOf(m) == IF m.kind = "batch" THEN m.dropped ELSE 0

IdSeqs == Seq(Nat)
Cat == [x \in IdSeqs |-> [y \in IdSeqs |-> x \o y]]
Plus == [x \in Nat |-> [y \in Nat |-> x + y]]

IdsIn(q) == Product([i \in 1..Len(q) |-> IdsOf(q[i])], IdSeqs, Cat, <<>>)
DroppedIn(q) == Product([i \in 1..Len(q) |-> DroppedOf(q[i])], Nat, Plus, 0)

LEMMA CatIsMonoid == Monoid(IdSeqs, Cat, <<>>)
<1>1. <<>> \in IdSeqs
  BY DEF IdSeqs
<1>2. ASSUME NEW x \in IdSeqs, NEW y \in IdSeqs PROVE x \o y \in IdSeqs /\ Cat[x][y] = x \o y
  BY DEF IdSeqs, Cat
<1>3. Cat \in [IdSeqs -> [IdSeqs -> IdSeqs]]
  <2>1. ASSUME NEW x \in IdSeqs PROVE Cat[x] \in [IdSeqs -> IdSeqs]
    <3>1. Cat[x] = [y \in IdSeqs |-> x \o y]
      BY DEF Cat
    <3>. QED
      BY <1>2, <3>1
  <2>2. Cat = [x \in IdSeqs |-> Cat[x]]
    BY DEF Cat
  <2>. QED
    BY <2>1, <2>2
<1>4. ASSUME NEW x \in IdSeqs PROVE Cat[<<>>][x] = x /\ Cat[x][<<>>] = x
  <2>1. <<>> \o x = x /\ x \o <<>> = x
    BY DEF IdSeqs
  <2>. QED
    BY <1>1, <1>2, <2>1
<1>5. ASSUME NEW x \in IdSeqs, NEW y \in IdSeqs, NEW z \in IdSeqs
      PROVE  Cat[Cat[x][y]][z] = Cat[x][Cat[y][z]]
  <2>1. (x \o y) \o z = x \o (y \o z)
    BY DEF IdSeqs
  <2>2. x \o y \in IdSeqs /\ y \o z \in IdSeqs
    BY <1>2
  <2>3. Cat[x][y] = x \o y /\ Cat[y][z] = y \o z
    BY <1>2
  <2>4. Cat[x \o y][z] = (x \o y) \o z
    BY <1>2, <2>2
  <2>5. Cat[x][y \o z] = x \o (y \o z)
    BY <1>2, <2>2
  <2>. QED
    BY <2>1, <2>3, <2>4, <2>5
<1>. QED
  BY <1>1, <1>3, <1>4, <1>5 DEF Monoid

LEMMA PlusIsMonoid == Monoid(Nat, Plus, 0)
BY DEF Monoid, Plus

LEMMA MessageIs ==
    ASSUME NEW m \in Message
    PROVE  IdsOf(m) \in IdSeqs /\ DroppedOf(m) \in Nat
<1>1. CASE m \in StateMessage
  <2>1. m.kind = "state"
    BY <1>1 DEF StateMessage
  <2>. QED
    BY <2>1 DEF IdsOf, DroppedOf, IdSeqs
<1>2. CASE m \in BatchMessage
  BY <1>2 DEF IdsOf, DroppedOf, IdSeqs, BatchMessage
<1>. QED
  BY <1>1, <1>2 DEF Message

\* The parts of the messages of a queue.
LEMMA PartsAre ==
    ASSUME NEW q \in Seq(Message)
    PROVE  /\ [i \in 1..Len(q) |-> IdsOf(q[i])] \in Seq(IdSeqs)
           /\ Len([i \in 1..Len(q) |-> IdsOf(q[i])]) = Len(q)
           /\ [i \in 1..Len(q) |-> DroppedOf(q[i])] \in Seq(Nat)
           /\ Len([i \in 1..Len(q) |-> DroppedOf(q[i])]) = Len(q)
<1>1. Len(q) \in Nat /\ \A i \in 1..Len(q) : q[i] \in Message
  OBVIOUS
<1>2. \A i \in 1..Len(q) : IdsOf(q[i]) \in IdSeqs /\ DroppedOf(q[i]) \in Nat
  BY <1>1, MessageIs
<1>. DEFINE n == Len(q)
            a(i) == IdsOf(q[i])
            b(i) == DroppedOf(q[i])
<1>3. n \in Nat /\ \A i \in 1..n : a(i) \in IdSeqs /\ b(i) \in Nat
  BY <1>1, <1>2
<1>. HIDE DEF n, a, b
<1>4. /\ [i \in 1..n |-> a(i)] \in Seq(IdSeqs) /\ Len([i \in 1..n |-> a(i)]) = n
      /\ [i \in 1..n |-> b(i)] \in Seq(Nat) /\ Len([i \in 1..n |-> b(i)]) = n
  BY <1>3
<1>. QED
  BY <1>4 DEF n, a, b

LEMMA InIs ==
    ASSUME NEW q \in Seq(Message)
    PROVE  /\ IdsIn(q) \in Seq(Nat) /\ DroppedIn(q) \in Nat
           /\ Len(q) = 0 => IdsIn(q) = <<>> /\ DroppedIn(q) = 0
<1>. DEFINE s == [i \in 1..Len(q) |-> IdsOf(q[i])]
            d == [i \in 1..Len(q) |-> DroppedOf(q[i])]
<1>1. s \in Seq(IdSeqs) /\ Len(s) = Len(q) /\ d \in Seq(Nat) /\ Len(d) = Len(q)
  BY PartsAre
<1>2. IdsIn(q) = Product(s, IdSeqs, Cat, <<>>) /\ DroppedIn(q) = Product(d, Nat, Plus, 0)
  BY DEF IdsIn, DroppedIn
<1>. HIDE DEF s, d
<1>3. PICK f : ProductsOf(f, s, IdSeqs, Cat, <<>>)
  BY <1>1, CatIsMonoid, ProductsExist
<1>4. Product(s, IdSeqs, Cat, <<>>) \in IdSeqs
  BY <1>1, <1>3, CatIsMonoid, ProductIs
<1>5. PICK g : ProductsOf(g, d, Nat, Plus, 0)
  BY <1>1, PlusIsMonoid, ProductsExist
<1>6. Product(d, Nat, Plus, 0) \in Nat
  BY <1>1, <1>5, PlusIsMonoid, ProductIs
<1>7. Len(s) = 0 => Product(s, IdSeqs, Cat, <<>>) = <<>>
  BY <1>1, CatIsMonoid, ProductEmpty
<1>8. Len(d) = 0 => Product(d, Nat, Plus, 0) = 0
  <2>1. g[0] = 0
    BY <1>5 DEF ProductsOf
  <2>2. Product(d, Nat, Plus, 0) = g[Len(d)]
    BY <1>1, <1>5, PlusIsMonoid, ProductIs
  <2>. QED
    BY <2>1, <2>2
<1>. QED
  BY <1>1, <1>2, <1>4, <1>6, <1>7, <1>8 DEF IdSeqs

LEMMA AppendIs ==
    ASSUME NEW q \in Seq(Message), NEW m \in Message, NEW p, p = Append(q, m)
    PROVE  /\ p \in Seq(Message)
           /\ IdsIn(p) = IdsIn(q) \o IdsOf(m)
           /\ DroppedIn(p) = DroppedIn(q) + DroppedOf(m)
<1>1. /\ p \in Seq(Message) /\ Len(q) \in Nat /\ Len(p) = Len(q) + 1 /\ p[Len(p)] = m
      /\ \A i \in 1..Len(q) : p[i] = q[i]
  OBVIOUS
<1>. DEFINE s == [i \in 1..Len(q) |-> IdsOf(q[i])]
            t == [i \in 1..Len(p) |-> IdsOf(p[i])]
            d == [i \in 1..Len(q) |-> DroppedOf(q[i])]
            e == [i \in 1..Len(p) |-> DroppedOf(p[i])]
<1>2. /\ s \in Seq(IdSeqs) /\ t \in Seq(IdSeqs) /\ Len(s) = Len(q) /\ Len(t) = Len(p)
      /\ d \in Seq(Nat) /\ e \in Seq(Nat) /\ Len(d) = Len(q) /\ Len(e) = Len(p)
  BY <1>1, PartsAre
<1>3. \A i \in 1..Len(q) : t[i] = s[i] /\ e[i] = d[i]
  BY <1>1
<1>4. t[Len(p)] = IdsOf(m) /\ e[Len(p)] = DroppedOf(m)
  BY <1>1
<1>5. /\ IdsIn(q) = Product(s, IdSeqs, Cat, <<>>) /\ IdsIn(p) = Product(t, IdSeqs, Cat, <<>>)
      /\ DroppedIn(q) = Product(d, Nat, Plus, 0) /\ DroppedIn(p) = Product(e, Nat, Plus, 0)
  BY DEF IdsIn, DroppedIn
<1>. HIDE DEF s, t, d, e
<1>6. Product(t, IdSeqs, Cat, <<>>) = Cat[Product(s, IdSeqs, Cat, <<>>)][t[Len(t)]]
  <2>1. Continues(t, s)
    BY <1>1, <1>2, <1>3 DEF Continues
  <2>. QED
    BY <1>2, <2>1, CatIsMonoid, ProductAppend
<1>7. Product(e, Nat, Plus, 0) = Plus[Product(d, Nat, Plus, 0)][e[Len(e)]]
  <2>1. Continues(e, d)
    BY <1>1, <1>2, <1>3 DEF Continues
  <2>. QED
    BY <1>2, <2>1, PlusIsMonoid, ProductAppend
<1>8. /\ IdsIn(q) \in IdSeqs /\ IdsOf(m) \in IdSeqs
      /\ DroppedIn(q) \in Nat /\ DroppedOf(m) \in Nat
  BY InIs, MessageIs DEF IdSeqs
<1>9. IdsIn(p) = Cat[IdsIn(q)][IdsOf(m)] /\ DroppedIn(p) = Plus[DroppedIn(q)][DroppedOf(m)]
  BY <1>2, <1>4, <1>5, <1>6, <1>7
<1>. QED
  BY <1>1, <1>8, <1>9 DEF Cat, Plus

LEMMA TailIs ==
    ASSUME NEW q \in Seq(Message), q # <<>>, NEW p, p = Tail(q), NEW m, m = Head(q)
    PROVE  /\ p \in Seq(Message) /\ m \in Message
           /\ IdsIn(q) = IdsOf(m) \o IdsIn(p)
           /\ DroppedIn(q) = DroppedOf(m) + DroppedIn(p)
<1>1. /\ p \in Seq(Message) /\ Len(p) \in Nat /\ Len(q) = Len(p) + 1 /\ q[1] = m
      /\ m \in Message /\ \A i \in 1..Len(p) : p[i] = q[i + 1]
  OBVIOUS
<1>. DEFINE s == [i \in 1..Len(q) |-> IdsOf(q[i])]
            t == [i \in 1..Len(p) |-> IdsOf(p[i])]
            d == [i \in 1..Len(q) |-> DroppedOf(q[i])]
            e == [i \in 1..Len(p) |-> DroppedOf(p[i])]
<1>2. /\ s \in Seq(IdSeqs) /\ t \in Seq(IdSeqs) /\ Len(s) = Len(q) /\ Len(t) = Len(p)
      /\ d \in Seq(Nat) /\ e \in Seq(Nat) /\ Len(d) = Len(q) /\ Len(e) = Len(p)
  BY <1>1, PartsAre
<1>3. \A i \in 1..Len(p) : t[i] = s[i + 1] /\ e[i] = d[i + 1]
  <2>1. \A i \in 1..Len(p) : i + 1 \in 1..Len(q)
    BY <1>1
  <2>. QED
    BY <1>1, <2>1
<1>4. s[1] = IdsOf(m) /\ d[1] = DroppedOf(m)
  BY <1>1
<1>5. /\ IdsIn(q) = Product(s, IdSeqs, Cat, <<>>) /\ IdsIn(p) = Product(t, IdSeqs, Cat, <<>>)
      /\ DroppedIn(q) = Product(d, Nat, Plus, 0) /\ DroppedIn(p) = Product(e, Nat, Plus, 0)
  BY DEF IdsIn, DroppedIn
<1>. HIDE DEF s, t, d, e
<1>6. Product(s, IdSeqs, Cat, <<>>) = Cat[s[1]][Product(t, IdSeqs, Cat, <<>>)]
  <2>1. IsTailOf(t, s)
    BY <1>1, <1>2, <1>3 DEF IsTailOf
  <2>. QED
    BY <1>2, <2>1, CatIsMonoid, ProductHead
<1>7. Product(d, Nat, Plus, 0) = Plus[d[1]][Product(e, Nat, Plus, 0)]
  <2>1. IsTailOf(e, d)
    BY <1>1, <1>2, <1>3 DEF IsTailOf
  <2>. QED
    BY <1>2, <2>1, PlusIsMonoid, ProductHead
<1>8. /\ IdsIn(p) \in IdSeqs /\ IdsOf(m) \in IdSeqs
      /\ DroppedIn(p) \in Nat /\ DroppedOf(m) \in Nat
  BY <1>1, InIs, MessageIs DEF IdSeqs
<1>9. IdsIn(q) = Cat[IdsOf(m)][IdsIn(p)] /\ DroppedIn(q) = Plus[DroppedOf(m)][DroppedIn(p)]
  BY <1>4, <1>5, <1>6, <1>7
<1>. QED
  BY <1>1, <1>8, <1>9 DEF Cat, Plus

\* The sums that the model adds up are the products above.
LEMMA QueuedDroppedIs ==
    ASSUME queue \in Seq(Message)
    PROVE  QueuedDropped = DroppedIn(queue)
<1>. DEFINE n == Len(queue)
            d == [i \in 1..Len(queue) |-> DroppedOf(queue[i])]
            Def(f) == f = [i \in 0..Len(queue) |->
                             IF i = 0 THEN 0
                             ELSE f[i - 1] + (IF queue[i].kind = "batch" THEN queue[i].dropped ELSE 0)]
            sum == CHOOSE f : Def(f)
<1>1. /\ n \in Nat /\ d \in Seq(Nat) /\ Len(d) = n
      /\ \A i \in 1..n : d[i] = DroppedOf(queue[i]) /\ d[i] \in Nat
  <2>1. d \in Seq(Nat) /\ Len(d) = n
    BY PartsAre
  <2>2. n \in Nat /\ \A i \in 1..n : d[i] = DroppedOf(queue[i])
    OBVIOUS
  <2>. HIDE DEF d
  <2>. QED
    BY <2>1, <2>2
<1>2. QueuedDropped = sum[n]
  BY DEF QueuedDropped
<1>3. DroppedIn(queue) = Product(d, Nat, Plus, 0)
  BY DEF DroppedIn
<1>4. PICK g : ProductsOf(g, d, Nat, Plus, 0)
  <2>. HIDE DEF d
  <2>. QED
    BY <1>1, PlusIsMonoid, ProductsExist
<1>5. /\ g \in [0..n -> Nat] /\ g[0] = 0
      /\ \A i \in 1..n : g[i] = g[i - 1] + DroppedOf(queue[i])
  <2>. HIDE DEF d, n
  <2>1. /\ g \in [0..n -> Nat] /\ g[0] = 0
        /\ \A i \in 1..n : g[i] = Plus[g[i - 1]][d[i]]
    BY <1>1, <1>4 DEF ProductsOf
  <2>2. ASSUME NEW i \in 1..n PROVE Plus[g[i - 1]][d[i]] = g[i - 1] + DroppedOf(queue[i])
    <3>1. i - 1 \in 0..n
      BY <1>1
    <3>2. g[i - 1] \in Nat /\ d[i] \in Nat /\ d[i] = DroppedOf(queue[i])
      BY <1>1, <2>1, <3>1
    <3>. QED
      BY <3>2 DEF Plus
  <2>. QED
    BY <2>1, <2>2
<1>6. Def(g)
  BY <1>1, <1>5 DEF DroppedOf
<1>7. Def(sum)
  <2>. HIDE DEF Def
  <2>. QED
    BY <1>6
<1>8. /\ sum[0] = 0
      /\ \A i \in 1..n : sum[i] = sum[i - 1] + DroppedOf(queue[i])
  <2>1. sum = [i \in 0..n |-> IF i = 0 THEN 0 ELSE sum[i - 1] + DroppedOf(queue[i])]
    <3>. HIDE DEF sum
    <3>. QED
      BY <1>7 DEF DroppedOf
  <2>. HIDE DEF sum, n
  <2>2. \A i \in 1..n : i \in 0..n /\ i # 0
    BY <1>1
  <2>3. 0 \in 0..n
    BY <1>1
  <2>. QED
    BY <2>1, <2>2, <2>3
<1>. DEFINE S == {i \in Nat : i <= n => sum[i] = g[i]}
<1>. HIDE DEF sum, n, d, Def
<1>9. 0 \in S
  BY <1>5, <1>8
<1>10. ASSUME NEW i \in Nat, i \in S PROVE i + 1 \in S
  <2>1. ASSUME i + 1 <= n PROVE sum[i + 1] = g[i + 1]
    <3>1. i + 1 \in 1..n /\ (i + 1) - 1 = i /\ i <= n
      BY <1>1, <2>1
    <3>. QED
      BY <1>5, <1>8, <1>10, <3>1
  <2>. QED
    BY <2>1
<1>. HIDE DEF S
<1>11. n \in S
  BY <1>1, <1>9, <1>10, AllNats
<1>12. sum[n] = g[n]
  BY <1>1, <1>11 DEF S
<1>13. Product(d, Nat, Plus, 0) = g[n]
  BY <1>1, <1>4, PlusIsMonoid, ProductIs
<1>. QED
  BY <1>2, <1>3, <1>12, <1>13

LEMMA OnTheWayIs ==
    ASSUME queue \in Seq(Message), logged \in Seq(Nat)
    PROVE  OnTheWay = logged \o IdsIn(queue)
<1>. DEFINE n == Len(queue)
            s == [i \in 1..Len(queue) |-> IdsOf(queue[i])]
            Def(f) == f = [i \in 1..Len(s) |-> IF i = 1 THEN s[i] ELSE f[i - 1] \o s[i]]
            flat == CHOOSE f : Def(f)
<1>1. /\ n \in Nat /\ s \in Seq(IdSeqs) /\ Len(s) = n
      /\ \A i \in 1..n : s[i] \in IdSeqs
  <2>1. s \in Seq(IdSeqs) /\ Len(s) = n
    BY PartsAre
  <2>2. n \in Nat
    OBVIOUS
  <2>. HIDE DEF s
  <2>. QED
    BY <2>1, <2>2
<1>2. OnTheWay = logged \o FlattenSeq(s)
  <2>1. [i \in DOMAIN queue |-> IF queue[i].kind = "batch" THEN queue[i].ids ELSE <<>>] = s
    BY DEF IdsOf
  <2>. HIDE DEF s
  <2>. QED
    BY <2>1 DEF OnTheWay
<1>3. IdsIn(queue) = Product(s, IdSeqs, Cat, <<>>)
  BY DEF IdsIn
<1>4. CASE n = 0
  <2>1. FlattenSeq(s) = s
    <3>. HIDE DEF s
    <3>. QED
      BY <1>1, <1>4 DEF FlattenSeq
  <2>2. s = <<>>
    <3>. HIDE DEF s
    <3>. QED
      BY <1>1, <1>4
  <2>3. IdsIn(queue) = <<>>
    BY <1>4, InIs
  <2>. QED
    BY <1>2, <2>1, <2>2, <2>3
<1>5. CASE n # 0
  <2>. HIDE DEF s, n
  <2>1. PICK g : ProductsOf(g, s, IdSeqs, Cat, <<>>)
    BY <1>1, CatIsMonoid, ProductsExist
  <2>2. /\ g \in [0..n -> IdSeqs] /\ g[0] = <<>>
        /\ \A i \in 1..n : g[i] = Cat[g[i - 1]][s[i]]
    BY <1>1, <2>1 DEF ProductsOf
  <2>3. ASSUME NEW i \in 1..n PROVE g[i] = g[i - 1] \o s[i]
    <3>1. i - 1 \in 0..n
      BY <1>1
    <3>2. g[i - 1] \in IdSeqs /\ s[i] \in IdSeqs
      BY <1>1, <2>2, <3>1
    <3>. QED
      BY <2>2, <3>2 DEF Cat
  <2>4. g[1] = s[1] /\ 1 \in 1..n /\ n \in 1..n
    <3>1. 1 \in 1..n /\ n \in 1..n
      BY <1>1, <1>5
    <3>2. g[1] = <<>> \o s[1]
      <4>1. g[1] = g[1 - 1] \o s[1]
        BY <2>3, <3>1
      <4>2. g[1 - 1] = <<>>
        BY <2>2
      <4>. QED
        BY <4>1, <4>2
    <3>3. s[1] \in Seq(Nat)
      BY <1>1, <3>1 DEF IdSeqs
    <3>. QED
      BY <3>1, <3>2, <3>3
  <2>5. Def([i \in 1..n |-> g[i]])
    <3>1. ASSUME NEW i \in 1..n
          PROVE  g[i] = IF i = 1 THEN s[i] ELSE [j \in 1..n |-> g[j]][i - 1] \o s[i]
      <4>1. CASE i = 1
        BY <2>4, <4>1
      <4>2. CASE i # 1
        <5>1. i - 1 \in 1..n
          BY <1>1, <4>2
        <5>. QED
          BY <2>3, <4>2, <5>1
      <4>. QED
        BY <4>1, <4>2
    <3>. QED
      BY <1>1, <3>1
  <2>6. Def(flat)
    <3>. HIDE DEF Def
    <3>. QED
      BY <2>5
  <2>. HIDE DEF flat
  <2>7. flat = [i \in 1..n |-> IF i = 1 THEN s[i] ELSE flat[i - 1] \o s[i]]
    BY <1>1, <2>6
  <2>. HIDE DEF Def
  <2>. DEFINE S == {i \in Nat : i + 1 <= n => flat[i + 1] = g[i + 1]}
  <2>8. 0 \in S
    BY <2>4, <2>7
  <2>9. ASSUME NEW i \in Nat, i \in S PROVE i + 1 \in S
    <3>1. ASSUME (i + 1) + 1 <= n PROVE flat[(i + 1) + 1] = g[(i + 1) + 1]
      <4>. DEFINE k == (i + 1) + 1
      <4>1. k \in 1..n /\ k # 1 /\ k - 1 = i + 1 /\ i + 1 <= n
        BY <1>1, <3>1
      <4>2. flat[i + 1] = g[i + 1]
        BY <2>9, <4>1
      <4>. HIDE DEF k
      <4>3. flat[k] = flat[k - 1] \o s[k]
        BY <2>7, <4>1
      <4>4. g[k] = g[k - 1] \o s[k]
        BY <2>3, <4>1
      <4>. QED
        BY <4>1, <4>2, <4>3, <4>4 DEF k
    <3>. QED
      BY <3>1
  <2>. HIDE DEF S
  <2>10. n - 1 \in Nat /\ (n - 1) + 1 = n
    BY <1>1, <1>5
  <2>11. n - 1 \in S
    BY <2>8, <2>9, <2>10, AllNats
  <2>12. flat[n] = g[n]
    BY <1>1, <2>10, <2>11 DEF S
  <2>13. FlattenSeq(s) = flat[n]
    BY <1>1, <1>5 DEF FlattenSeq, flat, Def
  <2>14. Product(s, IdSeqs, Cat, <<>>) = g[n]
    BY <1>1, <2>1, CatIsMonoid, ProductIs
  <2>. QED
    BY <1>2, <1>3, <2>12, <2>13, <2>14
<1>. QED
  BY <1>4, <1>5

-----------------------------------------------------------------------------
(* The monitor: what is logged, on its way and counted, against the ring.   *)

Increasing(w) == \A i, j \in 1..Len(w) : i < j => w[i] < w[j]
UpTo(w, n) == \A i \in 1..Len(w) : w[i] <= n

Way == logged \o IdsIn(queue)

WatchTypeOK ==
    /\ available \in BOOLEAN /\ device \in BOOLEAN /\ initialized \in BOOLEAN
    /\ untold \in BOOLEAN /\ disturbed \in BOOLEAN
    /\ lastSequence \in Nat /\ base \in Nat /\ droppedCount \in Nat
    /\ queue \in Seq(Message) /\ Len(queue) <= QueueMax
    /\ logged \in Seq(Nat)

\* Unless the trace was cleared and has not caught up, a number above lastSequence is
\* that of a record that is not on its way.
WayInOrder ==
    /\ Increasing(Way)
    /\ UpTo(Way, recorded)
    /\ initialized /\ lastSequence <= nextSequence =>
          UpTo(Way, recorded - nextSequence + lastSequence)

WayAccounted ==
    ~disturbed =>
        /\ ~initialized => Len(Way) = 0 /\ droppedCount = 0 /\ DroppedIn(queue) = 0
        /\ initialized => Len(Way) + droppedCount + DroppedIn(queue) + base = lastSequence
        /\ initialized /\ device => lastSequence <= nextSequence

\* c is what the window shows once it has handled the messages of q.
Tells(q, before, c) ==
    \/ /\ \A i \in 1..Len(q) : q[i].kind # "state"
       /\ before = c
    \/ \E i \in 1..Len(q) :
          /\ q[i].kind = "state" /\ q[i].connected = c
          /\ \A j \in i + 1..Len(q) : q[j].kind # "state"

ToldAtLast == ~untold => Tells(queue, connected, device)

WatchInv == RingInv /\ WatchTypeOK /\ WayInOrder /\ WayAccounted /\ ToldAtLast

LEMMA WayIs ==
    ASSUME WatchTypeOK
    PROVE  /\ Way \in Seq(Nat) /\ Len(Way) \in Nat /\ DroppedIn(queue) \in Nat
           /\ Len(Way) = Len(logged) + Len(IdsIn(queue))
           /\ OnTheWay = Way /\ QueuedDropped = DroppedIn(queue)
<1>1. queue \in Seq(Message) /\ logged \in Seq(Nat)
  BY DEF WatchTypeOK
<1>2. IdsIn(queue) \in Seq(Nat) /\ DroppedIn(queue) \in Nat
  BY <1>1, InIs
<1>3. OnTheWay = Way /\ QueuedDropped = DroppedIn(queue)
  BY <1>1, OnTheWayIs, QueuedDroppedIs DEF Way
<1>. QED
  BY <1>1, <1>2, <1>3 DEF Way

LEMMA WatchImplies ==
    WatchInv => LoggedOnceInOrder /\ EveryRecordAccounted /\ StatusHonest
<1>. SUFFICES ASSUME WatchInv PROVE LoggedOnceInOrder /\ EveryRecordAccounted /\ StatusHonest
  OBVIOUS
<1>1. /\ WatchTypeOK /\ WayInOrder /\ WayAccounted /\ ToldAtLast
      /\ Way \in Seq(Nat) /\ OnTheWay = Way /\ QueuedDropped = DroppedIn(queue)
  BY WayIs DEF WatchInv
<1>2. LoggedOnceInOrder
  <2>1. DOMAIN Way = 1..Len(Way)
    BY <1>1
  <2>. QED
    BY <1>1, <2>1 DEF LoggedOnceInOrder, WayInOrder, Increasing
<1>3. EveryRecordAccounted
  BY <1>1 DEF EveryRecordAccounted, WayAccounted
<1>4. StatusHonest
  BY <1>1 DEF StatusHonest, ToldAtLast, Tells
<1>. QED
  BY <1>2, <1>3, <1>4

LEMMA WatchInit == Init => WatchInv
<1>. SUFFICES ASSUME Init PROVE WatchInv
  OBVIOUS
<1>1. RingInv
  BY RingInvInit DEF Init
<1>2. /\ queue = <<>> /\ logged = <<>> /\ Len(queue) = 0 /\ lastSequence = 0 /\ base = 0
      /\ droppedCount = 0 /\ ~initialized /\ ~device /\ ~available /\ ~disturbed
      /\ connected = FALSE /\ device = FALSE /\ ~untold
  BY DEF Init
<1>3. WatchTypeOK
  <2>1. queue \in Seq(Message) /\ logged \in Seq(Nat) /\ Len(queue) <= QueueMax
    BY <1>2, QueueMaxAssumption
  <2>2. /\ available \in BOOLEAN /\ device \in BOOLEAN /\ initialized \in BOOLEAN
        /\ untold \in BOOLEAN /\ disturbed \in BOOLEAN
    BY DEF Init
  <2>. QED
    BY <1>2, <2>1, <2>2 DEF WatchTypeOK
<1>4. IdsIn(queue) = <<>> /\ DroppedIn(queue) = 0
  BY <1>2, <1>3, InIs DEF WatchTypeOK
<1>5. Way = <<>> /\ Len(Way) = 0
  BY <1>2, <1>4 DEF Way
<1>6. WayInOrder
  BY <1>2, <1>5 DEF WayInOrder, Increasing, UpTo
<1>7. WayAccounted
  BY <1>2, <1>4, <1>5 DEF WayAccounted
<1>8. ToldAtLast
  <2>1. connected = device
    BY <1>2, Zenon
  <2>2. \A i \in 1..Len(queue) : FALSE
    BY <1>2
  <2>. QED
    BY <2>1, <2>2 DEF ToldAtLast, Tells
<1>. QED
  BY <1>1, <1>3, <1>6, <1>7, <1>8 DEF WatchInv

LEMMA ConcatAssociates ==
    \A a, b, c \in Seq(Nat) : a \o (b \o c) = (a \o b) \o c
BY SMTT(30)

\* A message that is posted is behind the others, or lost.
LEMMA PostedIs ==
    ASSUME WatchTypeOK, NEW m \in Message, queue' = Posted(m), logged' = logged
    PROVE  /\ queue' \in Seq(Message) /\ Len(queue') <= QueueMax
           /\ ~Lost => /\ queue' = Append(queue, m)
                       /\ Way' = Way \o IdsOf(m)
                       /\ DroppedIn(queue') = DroppedIn(queue) + DroppedOf(m)
           /\ Lost => queue' = queue /\ Way' = Way
<1>1. /\ queue \in Seq(Message) /\ Len(queue) \in Nat /\ Len(queue) <= QueueMax
      /\ QueueMax \in Nat /\ logged \in Seq(Nat)
  BY QueueMaxAssumption DEF WatchTypeOK
<1>2. CASE ~Lost
  <2>1. queue' = Append(queue, m) /\ Len(queue) < QueueMax
    BY <1>1, <1>2 DEF Posted, Lost
  <2>2. /\ queue' \in Seq(Message) /\ IdsIn(queue') = IdsIn(queue) \o IdsOf(m)
        /\ DroppedIn(queue') = DroppedIn(queue) + DroppedOf(m)
    BY <1>1, <2>1, AppendIs
  <2>3. Len(queue') = Len(queue) + 1
    BY <1>1, <2>1
  <2>4. Way' = Way \o IdsOf(m)
    <3>1. IdsIn(queue) \in Seq(Nat) /\ IdsOf(m) \in Seq(Nat)
      BY <1>1, InIs, MessageIs DEF IdSeqs
    <3>2. logged \o (IdsIn(queue) \o IdsOf(m)) = (logged \o IdsIn(queue)) \o IdsOf(m)
      BY <1>1, <3>1, ConcatAssociates
    <3>. QED
      BY <2>2, <3>2 DEF Way
  <2>. QED
    BY <1>1, <1>2, <2>1, <2>2, <2>3, <2>4
<1>3. CASE Lost
  BY <1>1, <1>3 DEF Posted, Lost, Way
<1>. QED
  BY <1>2, <1>3

\* What is told once a message was posted.
LEMMA StateTells ==
    ASSUME NEW q \in Seq(Message), NEW m \in Message, NEW p, p = Append(q, m),
           NEW before, NEW c, m.kind = "state", m.connected = c
    PROVE  Tells(p, before, c)
<1>1. Len(p) = Len(q) + 1 /\ Len(q) \in Nat /\ p[Len(p)] = m
  OBVIOUS
<1>. QED
  BY <1>1 DEF Tells

LEMMA BatchTells ==
    ASSUME NEW q \in Seq(Message), NEW m \in Message, NEW p, p = Append(q, m),
           NEW before, NEW c, m.kind = "batch", Tells(q, before, c)
    PROVE  Tells(p, before, c)
<1>1. /\ Len(p) = Len(q) + 1 /\ Len(q) \in Nat /\ p[Len(p)] = m
      /\ \A i \in 1..Len(q) : p[i] = q[i]
  OBVIOUS
<1>2. m.kind # "state"
  OBVIOUS
<1>3. \A i \in 1..Len(p) : i \in 1..Len(q) \/ i = Len(p)
  BY <1>1
<1>. QED
  BY <1>1, <1>2, <1>3 DEF Tells

LEMMA UpToMore ==
    ASSUME NEW w \in Seq(Nat), NEW a \in Int, NEW b \in Int, a <= b, UpTo(w, a)
    PROVE  UpTo(w, b)
<1>1. \A i \in 1..Len(w) : w[i] \in Nat /\ w[i] <= a
  BY DEF UpTo
<1>. QED
  BY <1>1 DEF UpTo

\* What the steps below have in common.
LEMMA WatchFacts ==
    ASSUME WatchInv
    PROVE  /\ RingInv /\ WatchTypeOK /\ WayInOrder /\ WayAccounted /\ ToldAtLast
           /\ recorded \in Nat /\ nextSequence \in Nat /\ nextSequence <= recorded
           /\ lastSequence \in Nat /\ Way \in Seq(Nat)
<1>1. RingInv /\ WatchTypeOK /\ WayInOrder /\ WayAccounted /\ ToldAtLast
  BY DEF WatchInv
<1>2. lastSequence \in Nat
  BY <1>1 DEF WatchTypeOK
<1>. QED
  BY <1>1, <1>2, SnapshotIs, WayIs

LEMMA RecordKeepsWatch == WatchInv /\ Record => WatchInv'
<1>. SUFFICES ASSUME WatchInv, Record PROVE WatchInv'
  OBVIOUS
<1>1. /\ RingInv /\ WatchTypeOK /\ WayInOrder /\ WayAccounted /\ ToldAtLast
      /\ recorded \in Nat /\ nextSequence \in Nat /\ nextSequence <= recorded
      /\ lastSequence \in Nat /\ Way \in Seq(Nat)
  BY WatchFacts
<1>2. /\ RecordTrace
      /\ UNCHANGED <<available, device, lastSequence, initialized, queue, connected,
                     untold, droppedCount, logged, base, disturbed>>
  BY DEF Record, workerVars, statusVars, sessionVars
<1>3. recorded' = recorded + 1 /\ nextSequence' = nextSequence + 1
  BY <1>2 DEF RecordTrace
<1>4. Way' = Way
  BY <1>2 DEF Way
<1>5. RingInv'
  BY <1>1, <1>2, RingInvRecord
<1>6. WatchTypeOK'
  BY <1>1, <1>2 DEF WatchTypeOK
<1>7. WayInOrder'
  <2>1. UpTo(Way, recorded + 1)
    BY <1>1, UpToMore DEF WayInOrder
  <2>2. ASSUME initialized, lastSequence <= nextSequence + 1
        PROVE  UpTo(Way, (recorded + 1) - (nextSequence + 1) + lastSequence)
    <3>. DEFINE b == (recorded + 1) - (nextSequence + 1) + lastSequence
    <3>1. CASE lastSequence <= nextSequence
      <4>1. b = recorded - nextSequence + lastSequence
        BY <1>1
      <4>. QED
        BY <1>1, <2>2, <3>1, <4>1 DEF WayInOrder
    <3>2. CASE lastSequence = nextSequence + 1
      <4>1. b = recorded + 1
        BY <1>1, <3>2
      <4>. QED
        BY <2>1, <4>1
    <3>. QED
      BY <1>1, <2>2, <3>1, <3>2
  <2>. QED
    BY <1>1, <1>2, <1>3, <1>4, <2>1, <2>2 DEF WayInOrder
<1>8. WayAccounted'
  BY <1>1, <1>2, <1>3, <1>4 DEF WayAccounted
<1>9. ToldAtLast'
  BY <1>1, <1>2 DEF ToldAtLast
<1>. QED
  BY <1>5, <1>6, <1>7, <1>8, <1>9 DEF WatchInv

\* A clear of the trace, by lecdiag or by the removal of a device that is not open.
LEMMA ClearedKeepsWatch ==
    ASSUME WatchInv, ClearTrace, device' = device, available' \in BOOLEAN,
           disturbed' \in BOOLEAN, disturbed' \/ (disturbed' = disturbed /\ ~device),
           UNCHANGED <<lastSequence, initialized, queue, connected, untold, droppedCount,
                       logged, base>>
    PROVE  WatchInv'
<1>1. /\ RingInv /\ WatchTypeOK /\ WayInOrder /\ WayAccounted /\ ToldAtLast
      /\ recorded \in Nat /\ nextSequence \in Nat /\ nextSequence <= recorded
      /\ lastSequence \in Nat /\ Way \in Seq(Nat)
  BY WatchFacts
<1>2. recorded' = recorded /\ nextSequence' = 0
  BY DEF ClearTrace
<1>3. Way' = Way
  BY DEF Way
<1>4. RingInv'
  BY <1>1, RingInvClear
<1>5. WatchTypeOK'
  BY <1>1 DEF WatchTypeOK
<1>6. WayInOrder'
  <2>1. lastSequence <= 0 => recorded - 0 + lastSequence = recorded
    BY <1>1
  <2>. QED
    BY <1>1, <1>2, <1>3, <2>1 DEF WayInOrder
<1>7. WayAccounted'
  BY <1>1, <1>3 DEF WayAccounted
<1>8. ToldAtLast'
  BY <1>1 DEF ToldAtLast
<1>. QED
  BY <1>4, <1>5, <1>6, <1>7, <1>8 DEF WatchInv

\* The ring and the way stay as they are.
LEMMA SameKeepsWatch ==
    ASSUME WatchInv, available' \in BOOLEAN,
           UNCHANGED <<ringVars, device, lastSequence, initialized, queue, connected,
                       untold, droppedCount, logged, base, disturbed>>
    PROVE  WatchInv'
<1>1. /\ RingInv /\ WatchTypeOK /\ WayInOrder /\ WayAccounted /\ ToldAtLast
      /\ recorded' = recorded /\ nextSequence' = nextSequence
  BY WatchFacts DEF ringVars
<1>2. Way' = Way
  BY DEF Way
<1>3. RingInv'
  BY <1>1, RingInvSame
<1>4. WatchTypeOK'
  BY <1>1 DEF WatchTypeOK
<1>5. WayInOrder'
  BY <1>1, <1>2 DEF WayInOrder
<1>6. WayAccounted'
  BY <1>1, <1>2 DEF WayAccounted
<1>7. ToldAtLast'
  BY <1>1 DEF ToldAtLast
<1>. QED
  BY <1>3, <1>4, <1>5, <1>6, <1>7 DEF WatchInv

LEMMA ClearKeepsWatch == WatchInv /\ Clear => WatchInv'
<1>. SUFFICES ASSUME WatchInv, Clear PROVE WatchInv'
  OBVIOUS
<1>1. /\ ClearTrace /\ disturbed' = TRUE /\ available' = available /\ device' = device
      /\ UNCHANGED <<lastSequence, initialized, queue, connected, untold, droppedCount,
                     logged, base>>
  BY DEF Clear, workerVars, statusVars, sessionVars
<1>2. available \in BOOLEAN
  BY DEF WatchInv, WatchTypeOK
<1>. QED
  BY <1>1, <1>2, ClearedKeepsWatch

LEMMA AvailabilityKeepsWatch == WatchInv /\ Availability => WatchInv'
<1>. SUFFICES ASSUME WatchInv, Availability PROVE WatchInv'
  OBVIOUS
<1>1. /\ available' \in BOOLEAN
      /\ UNCHANGED <<device, lastSequence, initialized, queue, connected, untold,
                     droppedCount, logged, base, disturbed>>
      /\ UNCHANGED ringVars \/ (~device /\ ClearTrace)
  BY DEF Availability, workerVars, statusVars, sessionVars
<1>2. disturbed \in BOOLEAN
  BY DEF WatchInv, WatchTypeOK
<1>3. CASE UNCHANGED ringVars
  BY <1>1, <1>3, SameKeepsWatch
<1>4. CASE ~device /\ ClearTrace
  BY <1>1, <1>2, <1>4, ClearedKeepsWatch
<1>. QED
  BY <1>1, <1>3, <1>4

LEMMA StateIs ==
    ASSUME NEW c \in BOOLEAN
    PROVE  /\ State(c) \in Message /\ State(c).kind = "state" /\ State(c).connected = c
           /\ IdsOf(State(c)) = <<>> /\ DroppedOf(State(c)) = 0
<1>1. State(c) \in Message /\ State(c).kind = "state" /\ State(c).connected = c
  BY DEF State, Message, StateMessage
<1>. QED
  BY <1>1 DEF IdsOf, DroppedOf

\* The worker tells whether it holds the device; if it has just opened it, it attaches anew.
LEMMA TellingKeepsWatch ==
    ASSUME WatchInv, device' \in BOOLEAN, queue' = Posted(State(device')),
           UNCHANGED <<ringVars, available, connected, droppedCount, logged, base>>,
           \/ ~device' /\ UNCHANGED <<lastSequence, initialized>>
           \/ device' /\ lastSequence' = 0 /\ initialized' = FALSE,
           untold' = Lost, disturbed' = (disturbed \/ Lost \/ (device' /\ initialized))
    PROVE  WatchInv'
<1>1. /\ RingInv /\ WatchTypeOK /\ WayInOrder /\ WayAccounted /\ ToldAtLast
      /\ recorded' = recorded /\ nextSequence' = nextSequence /\ Way \in Seq(Nat)
      /\ queue \in Seq(Message) /\ DroppedIn(queue) \in Nat
  <2>1. queue \in Seq(Message)
    BY WatchFacts DEF WatchTypeOK
  <2>. QED
    BY <2>1, WatchFacts, InIs DEF ringVars
<1>. DEFINE m == State(device')
<1>2. /\ m \in Message /\ m.kind = "state" /\ m.connected = device'
      /\ IdsOf(m) = <<>> /\ DroppedOf(m) = 0
  BY StateIs
<1>3. queue' = Posted(m)
  OBVIOUS
<1>. HIDE DEF m
<1>4. /\ queue' \in Seq(Message) /\ Len(queue') <= QueueMax
      /\ ~Lost => /\ queue' = Append(queue, m)
                  /\ Way' = Way \o IdsOf(m)
                  /\ DroppedIn(queue') = DroppedIn(queue) + DroppedOf(m)
      /\ Lost => queue' = queue /\ Way' = Way
  BY <1>1, <1>2, <1>3, PostedIs
<1>5. Way' = Way /\ DroppedIn(queue') = DroppedIn(queue)
  BY <1>1, <1>2, <1>4
<1>6. RingInv'
  BY <1>1, RingInvSame
<1>7. /\ untold' \in BOOLEAN /\ disturbed' \in BOOLEAN /\ (~untold' => ~Lost)
      /\ (~disturbed' => ~disturbed /\ ~Lost /\ ~(device' /\ initialized))
  BY Zenon DEF Lost
<1>8. WatchTypeOK'
  <2>1. initialized' \in BOOLEAN
    BY <1>1 DEF WatchTypeOK
  <2>2. lastSequence' \in Nat
    BY <1>1 DEF WatchTypeOK
  <2>3. /\ available' \in BOOLEAN /\ base' \in Nat /\ droppedCount' \in Nat
        /\ logged' \in Seq(Nat)
    BY <1>1 DEF WatchTypeOK
  <2>. QED
    BY <1>4, <1>7, <2>1, <2>2, <2>3 DEF WatchTypeOK
<1>9. WayInOrder'
  BY <1>1, <1>5 DEF WayInOrder
<1>10. WayAccounted'
  BY <1>1, <1>5, <1>7 DEF WayAccounted
<1>11. ToldAtLast'
  <2>1. ASSUME ~untold' PROVE Tells(queue', connected', device')
    <3>1. queue' = Append(queue, m)
      BY <1>4, <1>7, <2>1
    <3>. QED
      BY <1>1, <1>2, <3>1, StateTells
  <2>. QED
    BY <2>1 DEF ToldAtLast
<1>. QED
  BY <1>6, <1>8, <1>9, <1>10, <1>11 DEF WatchInv

LEMMA OpenKeepsWatch == WatchInv /\ Open => WatchInv'
<1>. SUFFICES ASSUME WatchInv, Open PROVE WatchInv'
  OBVIOUS
<1>1. available \in BOOLEAN /\ device \in BOOLEAN /\ initialized \in BOOLEAN
  BY DEF WatchInv, WatchTypeOK
<1>2. /\ device' = available /\ device' \in BOOLEAN
      /\ UNCHANGED <<ringVars, available, connected, droppedCount, logged, base>>
      /\ queue' = Posted(State(available)) /\ untold' = Lost
      /\ disturbed' = (disturbed \/ Lost \/ (available /\ initialized))
      /\ lastSequence' = IF available THEN 0 ELSE lastSequence
      /\ initialized' = (initialized /\ ~available)
  BY <1>1 DEF Open, sessionVars
<1>3. CASE available
  <2>1. device' /\ lastSequence' = 0 /\ initialized' = FALSE
    BY <1>2, <1>3
  <2>. QED
    BY <1>2, <2>1, TellingKeepsWatch
<1>4. CASE ~available
  <2>1. ~device' /\ lastSequence' = lastSequence /\ initialized' = initialized
    BY <1>1, <1>2, <1>4
  <2>. QED
    BY <1>2, <2>1, TellingKeepsWatch
<1>. QED
  BY <1>3, <1>4

LEMMA PollFailsKeepsWatch == WatchInv /\ PollFails => WatchInv'
<1>. SUFFICES ASSUME WatchInv, PollFails PROVE WatchInv'
  OBVIOUS
<1>1. /\ device' = FALSE /\ queue' = Posted(State(FALSE)) /\ untold' = Lost
      /\ UNCHANGED <<ringVars, available, connected, droppedCount, logged, base>>
      /\ lastSequence' = lastSequence /\ initialized' = initialized
      /\ disturbed' = (disturbed \/ Lost)
  BY DEF PollFails, sessionVars
<1>2. /\ device' \in BOOLEAN /\ ~device' /\ queue' = Posted(State(device'))
      /\ disturbed' = (disturbed \/ Lost \/ (device' /\ initialized))
  BY <1>1
<1>. QED
  BY <1>1, <1>2, TellingKeepsWatch

LEMMA SynchroniseKeepsWatch == WatchInv /\ Synchronise => WatchInv'
<1>. SUFFICES ASSUME WatchInv, Synchronise PROVE WatchInv'
  OBVIOUS
<1>1. /\ RingInv /\ WatchTypeOK /\ WayInOrder /\ WayAccounted /\ ToldAtLast
      /\ recorded \in Nat /\ nextSequence \in Nat /\ nextSequence <= recorded
      /\ lastSequence \in Nat /\ Way \in Seq(Nat)
  BY WatchFacts
<1>2. /\ device /\ (~initialized \/ nextSequence < lastSequence)
      /\ lastSequence' = nextSequence /\ initialized' = TRUE
      /\ base' = IF initialized THEN base ELSE nextSequence
      /\ UNCHANGED <<ringVars, available, device, queue, connected, untold, droppedCount,
                     logged, disturbed>>
  BY DEF Synchronise, statusVars
<1>3. recorded' = recorded /\ nextSequence' = nextSequence
  BY <1>2 DEF ringVars
<1>4. Way' = Way
  BY <1>2 DEF Way
<1>5. RingInv'
  BY <1>1, <1>2, RingInvSame
<1>6. WatchTypeOK'
  BY <1>1, <1>2 DEF WatchTypeOK
<1>7. WayInOrder'
  <2>1. recorded - nextSequence + nextSequence = recorded
    BY <1>1
  <2>. QED
    BY <1>1, <1>2, <1>3, <1>4, <2>1 DEF WayInOrder
<1>8. WayAccounted'
  <2>1. ASSUME ~disturbed
        PROVE  /\ ~initialized /\ Len(Way) = 0 /\ droppedCount = 0 /\ DroppedIn(queue) = 0
    BY <1>1, <1>2, <2>1 DEF WayAccounted
  <2>. QED
    BY <1>1, <1>2, <1>3, <1>4, <2>1 DEF WayAccounted
<1>9. ToldAtLast'
  BY <1>1, <1>2 DEF ToldAtLast
<1>. QED
  BY <1>5, <1>6, <1>7, <1>8, <1>9 DEF WatchInv

\* The records that a poll takes: their number, how many were missed before them, and that
\* they are newer than what is on its way.
LEMMA TakenAre ==
    ASSUME WatchInv, initialized, lastSequence <= nextSequence, NewEntries # <<>>
    PROVE  LET new == NewEntries
               numbers == [i \in DOMAIN new |-> new[i].id]
               m == Len(new)
           IN  /\ m \in Nat /\ numbers \in Seq(Nat) /\ Len(numbers) = m
               /\ Gap(new) \in Nat /\ Gap(new) + m = nextSequence - lastSequence
               /\ Last(new).sequence = nextSequence
               /\ \A i \in 1..m : numbers[i] = recorded - m + i
               /\ m <= nextSequence - lastSequence /\ m > 0
<1>. DEFINE new == NewEntries
            numbers == [i \in DOMAIN new |-> new[i].id]
            m == Len(new)
<1>1. /\ recorded \in Nat /\ nextSequence \in Nat /\ lastSequence \in Nat /\ RingInv
      /\ nextSequence <= recorded
  BY WatchFacts
<1>2. new = EndOf(FillTrace, count, Old(lastSequence))
  BY <1>1, NewEntriesIs
<1>3. /\ new \in Seq(Entry \cup {Zero}) /\ m \in Nat
      /\ \A j \in 1..m : new[j] = [sequence |-> nextSequence - m + j, id |-> recorded - m + j]
      /\ lastSequence <= nextSequence => m <= nextSequence - lastSequence
  BY <1>1, <1>2, NewerAre
<1>. HIDE DEF new
<1>4. new # <<>>
  BY DEF new
<1>5. m > 0 /\ 1 \in 1..m /\ m \in 1..m /\ DOMAIN new = 1..m
  BY <1>3, <1>4
<1>. HIDE DEF m
<1>6. ASSUME NEW j \in 1..m
      PROVE  new[j].sequence = nextSequence - m + j /\ new[j].id = recorded - m + j
  <2>. DEFINE a == nextSequence - m + j
              b == recorded - m + j
  <2>1. new[j] = [sequence |-> a, id |-> b]
    BY <1>3
  <2>. HIDE DEF a, b
  <2>2. [sequence |-> a, id |-> b].sequence = a /\ [sequence |-> a, id |-> b].id = b
    OBVIOUS
  <2>. QED
    BY <2>1, <2>2 DEF a, b
<1>7. m <= nextSequence - lastSequence
  BY <1>3
<1>8. numbers \in Seq(Nat) /\ Len(numbers) = m /\ \A i \in 1..m : numbers[i] = recorded - m + i
  <2>1. \A i \in 1..m : numbers[i] = recorded - m + i
    BY <1>5, <1>6
  <2>2. \A i \in 1..m : recorded - m + i \in Nat
    BY <1>1, <1>3, <1>7
  <2>3. numbers = [i \in 1..m |-> numbers[i]]
    BY <1>5
  <2>. HIDE DEF numbers
  <2>4. numbers \in [1..m -> Nat]
    BY <2>1, <2>2, <2>3
  <2>. QED
    BY <1>3, <2>1, <2>4
<1>9. Gap(new) = nextSequence - m + 1 - lastSequence - 1
  <2>1. new[1].sequence = nextSequence - m + 1
    BY <1>5, <1>6
  <2>2. Gap(new) = new[1].sequence - lastSequence - 1
    BY DEF Gap
  <2>. HIDE DEF numbers
  <2>. QED
    BY <1>1, <1>3, <2>1, <2>2
<1>10. Gap(new) \in Nat /\ Gap(new) + m = nextSequence - lastSequence
  BY <1>1, <1>3, <1>7, <1>9
<1>11. Last(new).sequence = nextSequence
  <2>1. Last(new) = new[m]
    BY DEF Last, m
  <2>2. new[m].sequence = nextSequence - m + m
    BY <1>5, <1>6
  <2>. QED
    BY <1>1, <1>3, <2>1, <2>2
<1>. QED
  BY <1>3, <1>5, <1>7, <1>8, <1>10, <1>11 DEF new, m

LEMMA BatchIs ==
    ASSUME NEW numbers \in Seq(Nat), NEW d \in Nat
    PROVE  /\ Batch(numbers, d) \in Message /\ Batch(numbers, d).kind = "batch"
           /\ IdsOf(Batch(numbers, d)) = numbers /\ DroppedOf(Batch(numbers, d)) = d
<1>1. /\ Batch(numbers, d) \in Message /\ Batch(numbers, d).kind = "batch"
      /\ Batch(numbers, d).ids = numbers /\ Batch(numbers, d).dropped = d
  BY DEF Batch, Message, BatchMessage
<1>. QED
  BY <1>1 DEF IdsOf, DroppedOf

LEMMA IncreasingConcat ==
    ASSUME NEW a \in Seq(Nat), NEW b \in Seq(Nat), NEW w, w = a \o b,
           Increasing(a), Increasing(b), NEW n \in Int, UpTo(a, n),
           \A i \in 1..Len(b) : n < b[i]
    PROVE  Increasing(w)
<1>1. /\ Len(a) \in Nat /\ Len(b) \in Nat /\ Len(w) = Len(a) + Len(b)
      /\ \A i \in 1..Len(w) : w[i] = IF i <= Len(a) THEN a[i] ELSE b[i - Len(a)]
  OBVIOUS
<1>2. SUFFICES ASSUME NEW i \in 1..Len(w), NEW j \in 1..Len(w), i < j PROVE w[i] < w[j]
  BY DEF Increasing
<1>3. \A k \in 1..Len(a) : a[k] \in Nat /\ a[k] <= n
  BY DEF UpTo
<1>4. \A k \in 1..Len(b) : b[k] \in Nat /\ n < b[k]
  OBVIOUS
<1>5. CASE j <= Len(a)
  <2>1. i \in 1..Len(a) /\ j \in 1..Len(a) /\ w[i] = a[i] /\ w[j] = a[j]
    BY <1>1, <1>2, <1>5
  <2>. QED
    BY <1>2, <2>1 DEF Increasing
<1>6. CASE i <= Len(a) /\ ~(j <= Len(a))
  <2>1. i \in 1..Len(a) /\ j - Len(a) \in 1..Len(b) /\ w[i] = a[i] /\ w[j] = b[j - Len(a)]
    BY <1>1, <1>2, <1>6
  <2>2. a[i] \in Nat /\ a[i] <= n /\ b[j - Len(a)] \in Nat /\ n < b[j - Len(a)]
    BY <1>3, <1>4, <2>1
  <2>. QED
    BY <2>1, <2>2, SMTT(30)
<1>7. CASE ~(i <= Len(a))
  <2>1. /\ i - Len(a) \in 1..Len(b) /\ j - Len(a) \in 1..Len(b) /\ i - Len(a) < j - Len(a)
        /\ w[i] = b[i - Len(a)] /\ w[j] = b[j - Len(a)]
    BY <1>1, <1>2, <1>7
  <2>. QED
    BY <2>1 DEF Increasing
<1>. QED
  BY <1>1, <1>5, <1>6, <1>7

LEMMA UpToConcat ==
    ASSUME NEW a \in Seq(Nat), NEW b \in Seq(Nat), NEW w, w = a \o b,
           NEW n \in Int, UpTo(a, n), UpTo(b, n)
    PROVE  UpTo(w, n)
<1>1. /\ Len(a) \in Nat /\ Len(b) \in Nat /\ Len(w) = Len(a) + Len(b)
      /\ \A i \in 1..Len(w) : w[i] = IF i <= Len(a) THEN a[i] ELSE b[i - Len(a)]
  OBVIOUS
<1>2. ASSUME NEW i \in 1..Len(w) PROVE w[i] <= n
  <2>1. CASE i <= Len(a)
    BY <1>1, <2>1 DEF UpTo
  <2>2. CASE ~(i <= Len(a))
    <3>1. i - Len(a) \in 1..Len(b)
      BY <1>1, <2>2
    <3>. QED
      BY <1>1, <2>2, <3>1 DEF UpTo
  <2>. QED
    BY <2>1, <2>2
<1>. QED
  BY <1>2 DEF UpTo

\* A part at the end of what is in order is in order.
LEMMA EndInOrder ==
    ASSUME NEW a \in Seq(Nat), NEW b \in Seq(Nat), NEW w, w = a \o b, NEW n \in Int
    PROVE  /\ Increasing(w) => Increasing(b)
           /\ UpTo(w, n) => UpTo(b, n)
<1>1. /\ Len(a) \in Nat /\ Len(b) \in Nat /\ Len(w) = Len(a) + Len(b)
      /\ \A i \in 1..Len(b) : i + Len(a) \in 1..Len(w) /\ w[i + Len(a)] = b[i]
  OBVIOUS
<1>2. ASSUME Increasing(w), NEW i \in 1..Len(b), NEW j \in 1..Len(b), i < j
      PROVE  b[i] < b[j]
  <2>1. /\ i + Len(a) \in 1..Len(w) /\ j + Len(a) \in 1..Len(w)
        /\ w[i + Len(a)] = b[i] /\ w[j + Len(a)] = b[j] /\ i + Len(a) < j + Len(a)
    BY <1>1, <1>2
  <2>. QED
    BY <1>2, <2>1 DEF Increasing
<1>3. ASSUME UpTo(w, n), NEW i \in 1..Len(b) PROVE b[i] <= n
  BY <1>1, <1>3 DEF UpTo
<1>. QED
  BY <1>2, <1>3 DEF Increasing, UpTo

\* The worker has gone past the records it took.
LEMMA PostKeepsWatch == WatchInv /\ Post => WatchInv'
<1>. SUFFICES ASSUME WatchInv, Post PROVE WatchInv'
  OBVIOUS
<1>. DEFINE new == NewEntries
            numbers == [i \in DOMAIN new |-> new[i].id]
            gap == Gap(new)
            m == Batch(numbers, gap)
<1>1. /\ RingInv /\ WatchTypeOK /\ WayInOrder /\ WayAccounted /\ ToldAtLast
      /\ recorded \in Nat /\ nextSequence \in Nat /\ nextSequence <= recorded
      /\ lastSequence \in Nat /\ Way \in Seq(Nat)
  BY WatchFacts
<1>2. /\ device /\ initialized /\ lastSequence <= nextSequence
      /\ UNCHANGED <<ringVars, available, device, initialized, connected, untold,
                     droppedCount, logged, base>>
      /\ \/ new = <<>> /\ UNCHANGED <<queue, lastSequence, disturbed>>
         \/ /\ new # <<>> /\ queue' = Posted(m) /\ lastSequence' = Last(new).sequence
            /\ disturbed' = (disturbed \/ Lost)
  BY <1>1 DEF Post, statusVars, sessionVars
<1>3. CASE new = <<>> /\ UNCHANGED <<queue, lastSequence, disturbed>>
  <2>1. available' \in BOOLEAN
    BY <1>1, <1>2 DEF WatchTypeOK
  <2>. QED
    BY <1>2, <1>3, <2>1, SameKeepsWatch
<1>4. CASE /\ new # <<>> /\ queue' = Posted(m) /\ lastSequence' = Last(new).sequence
           /\ disturbed' = (disturbed \/ Lost)
  <2>. DEFINE k == Len(new)
  <2>1. /\ k \in Nat /\ numbers \in Seq(Nat) /\ Len(numbers) = k
        /\ gap \in Nat /\ gap + k = nextSequence - lastSequence
        /\ Last(new).sequence = nextSequence
        /\ \A i \in 1..k : numbers[i] = recorded - k + i
        /\ k <= nextSequence - lastSequence
    BY <1>2, <1>4, TakenAre
  <2>2. m \in Message /\ m.kind = "batch" /\ IdsOf(m) = numbers /\ DroppedOf(m) = gap
    BY <2>1, BatchIs
  <2>3. queue' = Posted(m) /\ lastSequence' = nextSequence /\ disturbed' = (disturbed \/ Lost)
    BY <1>4, <2>1
  <2>. HIDE DEF new, numbers, gap, m, k
  <2>4. /\ queue' \in Seq(Message) /\ Len(queue') <= QueueMax
        /\ ~Lost => /\ queue' = Append(queue, m)
                    /\ Way' = Way \o IdsOf(m)
                    /\ DroppedIn(queue') = DroppedIn(queue) + DroppedOf(m)
        /\ Lost => queue' = queue /\ Way' = Way
    BY <1>1, <1>2, <2>2, <2>3, PostedIs
  <2>5. recorded' = recorded /\ nextSequence' = nextSequence
    BY <1>2 DEF ringVars
  <2>6. RingInv'
    BY <1>1, <1>2, RingInvSame
  <2>7. WatchTypeOK'
    <3>1. untold' \in BOOLEAN /\ disturbed' \in BOOLEAN
      BY <1>1, <1>2, <2>3 DEF WatchTypeOK
    <3>2. /\ available' \in BOOLEAN /\ device' \in BOOLEAN /\ initialized' \in BOOLEAN
          /\ base' \in Nat /\ droppedCount' \in Nat /\ logged' \in Seq(Nat)
      BY <1>1, <1>2 DEF WatchTypeOK
    <3>3. lastSequence' \in Nat
      BY <1>1, <2>3
    <3>. QED
      BY <2>4, <3>1, <3>2, <3>3 DEF WatchTypeOK
  <2>. DEFINE b == recorded - nextSequence + lastSequence
  <2>8. UpTo(Way, b) /\ b \in Int /\ Increasing(Way) /\ UpTo(Way, recorded)
    BY <1>1, <1>2 DEF WayInOrder
  <2>9. Increasing(numbers) /\ UpTo(numbers, recorded) /\ \A i \in 1..Len(numbers) : b < numbers[i]
    BY <1>1, <2>1 DEF Increasing, UpTo
  <2>. HIDE DEF b
  <2>10. Increasing(Way') /\ UpTo(Way', recorded)
    <3>1. CASE ~Lost
      <4>1. Way' = Way \o numbers
        BY <2>2, <2>4, <3>1
      <4>2. Increasing(Way')
        BY <1>1, <2>1, <2>8, <2>9, <4>1, IncreasingConcat
      <4>3. UpTo(Way', recorded)
        <5>1. recorded \in Int
          BY <1>1
        <5>. QED
          BY <1>1, <2>1, <2>8, <2>9, <4>1, <5>1, UpToConcat
      <4>. QED
        BY <4>2, <4>3
    <3>2. CASE Lost
      BY <2>4, <2>8, <3>2
    <3>. QED
      BY <3>1, <3>2
  <2>11. WayInOrder'
    <3>1. recorded - nextSequence + nextSequence = recorded
      BY <1>1
    <3>. QED
      BY <2>3, <2>5, <2>10, <3>1 DEF WayInOrder
  <2>12. WayAccounted'
    <3>1. SUFFICES ASSUME ~disturbed'
                   PROVE  Len(Way') + droppedCount + DroppedIn(queue') + base = nextSequence
      BY <1>1, <1>2, <2>3, <2>5 DEF WayAccounted
    <3>2. ~disturbed /\ ~Lost
      BY <2>3, <3>1
    <3>3. Len(Way) + droppedCount + DroppedIn(queue) + base = lastSequence
      BY <1>1, <1>2, <3>2 DEF WayAccounted
    <3>4. Len(Way') = Len(Way) + k /\ DroppedIn(queue') = DroppedIn(queue) + gap
      <4>1. Way' = Way \o numbers /\ DroppedIn(queue') = DroppedIn(queue) + gap
        BY <2>2, <2>4, <3>2
      <4>2. Len(Way \o numbers) = Len(Way) + Len(numbers)
        <5>. DEFINE w == Way
        <5>1. w \in Seq(Nat)
          BY <1>1
        <5>. HIDE DEF w
        <5>2. Len(w \o numbers) = Len(w) + Len(numbers)
          BY <2>1, <5>1
        <5>. QED
          BY <5>2 DEF w
      <4>. QED
        BY <2>1, <4>1, <4>2
    <3>5. /\ Len(Way) \in Nat /\ droppedCount \in Nat /\ DroppedIn(queue) \in Nat
          /\ base \in Nat
      BY <1>1, WayIs DEF WatchTypeOK
    <3>. DEFINE a == Len(Way)
                c == DroppedIn(queue)
    <3>6. /\ Len(Way') = a + k /\ DroppedIn(queue') = c + gap
          /\ a \in Nat /\ c \in Nat /\ a + droppedCount + c + base = lastSequence
      BY <3>3, <3>4, <3>5
    <3>. HIDE DEF a, c
    <3>7. (a + k) + droppedCount + (c + gap) + base = nextSequence
      BY <1>1, <2>1, <3>5, <3>6
    <3>. QED
      BY <3>6, <3>7
  <2>13. ToldAtLast'
    <3>1. ASSUME ~untold PROVE Tells(queue', connected, device)
      <4>1. Tells(queue, connected, device) /\ queue \in Seq(Message)
        BY <1>1, <3>1 DEF ToldAtLast, WatchTypeOK
      <4>2. CASE Lost
        BY <2>4, <4>1, <4>2
      <4>3. CASE ~Lost
        BY <2>2, <2>4, <4>1, <4>3, BatchTells
      <4>. QED
        BY <4>2, <4>3
    <3>. QED
      BY <1>2, <3>1 DEF ToldAtLast
  <2>. QED
    BY <2>6, <2>7, <2>11, <2>12, <2>13 DEF WatchInv
<1>. QED
  BY <1>2, <1>3, <1>4

LEMMA PostFailsKeepsWatch == WatchInv /\ PostFails => WatchInv'
<1>. SUFFICES ASSUME WatchInv, PostFails PROVE WatchInv'
  OBVIOUS
<1>1. /\ RingInv /\ WatchTypeOK /\ WayInOrder /\ ToldAtLast
      /\ recorded \in Nat /\ nextSequence \in Nat
  BY WatchFacts
<1>2. /\ lastSequence' = nextSequence /\ disturbed' = TRUE
      /\ UNCHANGED <<ringVars, available, device, initialized, queue, connected,
                     untold, droppedCount, logged, base>>
  BY DEF PostFails, statusVars, sessionVars
<1>3. recorded' = recorded /\ nextSequence' = nextSequence
  BY <1>2 DEF ringVars
<1>4. Way' = Way
  BY <1>2 DEF Way
<1>5. RingInv'
  BY <1>1, <1>2, RingInvSame
<1>6. WatchTypeOK'
  BY <1>1, <1>2 DEF WatchTypeOK
<1>7. WayInOrder'
  <2>1. recorded - nextSequence + nextSequence = recorded
    BY <1>1
  <2>. QED
    BY <1>1, <1>2, <1>3, <1>4, <2>1 DEF WayInOrder
<1>8. WayAccounted' /\ ToldAtLast'
  BY <1>1, <1>2 DEF WayAccounted, ToldAtLast
<1>. QED
  BY <1>5, <1>6, <1>7, <1>8 DEF WatchInv

\* What the window handles was first on the way and stays there.
LEMMA HandleKeepsWatch == WatchInv /\ HandleMessage => WatchInv'
<1>. SUFFICES ASSUME WatchInv, HandleMessage PROVE WatchInv'
  OBVIOUS
<1>. DEFINE m == Head(queue)
            p == Tail(queue)
<1>1. /\ RingInv /\ WatchTypeOK /\ WayInOrder /\ WayAccounted /\ ToldAtLast
      /\ queue \in Seq(Message) /\ logged \in Seq(Nat) /\ droppedCount \in Nat
      /\ Len(queue) <= QueueMax
  BY WatchFacts DEF WatchTypeOK
<1>2. /\ queue # <<>> /\ queue' = p
      /\ UNCHANGED <<ringVars, available, device, lastSequence, initialized, untold, base,
                     disturbed>>
      /\ \/ /\ m.kind = "state" /\ connected' = m.connected
            /\ UNCHANGED <<droppedCount, logged>>
         \/ /\ m.kind # "state" /\ droppedCount' = droppedCount + m.dropped
            /\ logged' = logged \o m.ids /\ connected' = connected
  BY DEF HandleMessage, workerVars
<1>3. /\ p \in Seq(Message) /\ m \in Message
      /\ IdsIn(queue) = IdsOf(m) \o IdsIn(p)
      /\ DroppedIn(queue) = DroppedOf(m) + DroppedIn(p)
  BY <1>1, <1>2, TailIs
<1>4. /\ Len(queue) \in Nat /\ Len(p) \in Nat /\ Len(queue) = Len(p) + 1 /\ queue[1] = m
      /\ \A i \in 1..Len(p) : p[i] = queue[i + 1]
  BY <1>1, <1>2
<1>. HIDE DEF m, p
<1>5. /\ IdsIn(p) \in Seq(Nat) /\ IdsOf(m) \in Seq(Nat)
      /\ DroppedIn(p) \in Nat /\ DroppedOf(m) \in Nat
  BY <1>3, InIs, MessageIs DEF IdSeqs
<1>6. logged' = logged \o IdsOf(m) /\ droppedCount' = droppedCount + DroppedOf(m)
  <2>1. CASE m.kind = "state"
    <3>1. IdsOf(m) = <<>> /\ DroppedOf(m) = 0
      BY <2>1 DEF IdsOf, DroppedOf
    <3>2. logged' = logged /\ droppedCount' = droppedCount
      BY <1>2, <2>1
    <3>. QED
      BY <1>1, <3>1, <3>2
  <2>2. CASE m.kind # "state"
    <3>1. m.kind = "batch"
      BY <1>3, <2>2 DEF Message, StateMessage, BatchMessage
    <3>. QED
      BY <1>2, <2>2, <3>1 DEF IdsOf, DroppedOf
  <2>. QED
    BY <2>1, <2>2
<1>7. Way' = Way
  <2>1. logged \o (IdsOf(m) \o IdsIn(p)) = (logged \o IdsOf(m)) \o IdsIn(p)
    BY <1>1, <1>5, ConcatAssociates
  <2>. QED
    BY <1>2, <1>3, <1>6, <2>1 DEF Way
<1>8. RingInv' /\ recorded' = recorded /\ nextSequence' = nextSequence
  BY <1>1, <1>2, RingInvSame DEF ringVars
<1>9. WatchTypeOK'
  <2>1. logged' \in Seq(Nat)
    BY <1>1, <1>5, <1>6
  <2>2. droppedCount' \in Nat
    BY <1>1, <1>5, <1>6
  <2>3. queue' \in Seq(Message) /\ Len(queue') <= QueueMax
    BY <1>1, <1>2, <1>3, <1>4, QueueMaxAssumption
  <2>. QED
    BY <1>1, <1>2, <2>1, <2>2, <2>3 DEF WatchTypeOK
<1>10. WayInOrder'
  BY <1>1, <1>2, <1>7, <1>8 DEF WayInOrder
<1>11. WayAccounted'
  <2>1. droppedCount' + DroppedIn(queue') = droppedCount + DroppedIn(queue)
    BY <1>1, <1>2, <1>3, <1>5, <1>6
  <2>2. /\ Len(Way) \in Nat /\ base \in Nat /\ DroppedIn(queue) \in Nat
        /\ droppedCount' \in Nat /\ DroppedIn(queue') \in Nat
    BY <1>1, <1>2, <1>5, <1>9, WayIs DEF WatchTypeOK
  <2>3. Len(Way) + droppedCount + DroppedIn(queue) + base
          = Len(Way) + droppedCount' + DroppedIn(queue') + base
    <3>. DEFINE a == Len(Way)
                b == DroppedIn(queue)
                c == DroppedIn(queue')
                d == droppedCount'
    <3>1. /\ a \in Nat /\ b \in Nat /\ c \in Nat /\ d \in Nat /\ d + c = droppedCount + b
      BY <2>1, <2>2
    <3>. HIDE DEF a, b, c, d
    <3>2. a + droppedCount + b + base = a + d + c + base
      BY <1>1, <2>2, <3>1
    <3>. QED
      BY <3>2 DEF a, b, c, d
  <2>4. droppedCount = 0 /\ DroppedIn(queue) = 0 => droppedCount' = 0 /\ DroppedIn(queue') = 0
    BY <1>1, <2>1, <2>2
  <2>. QED
    BY <1>1, <1>2, <1>7, <1>8, <2>3, <2>4 DEF WayAccounted
<1>12. ToldAtLast'
  <2>1. ASSUME ~untold PROVE Tells(p, connected', device)
    <3>1. Tells(queue, connected, device)
      BY <1>1, <2>1 DEF ToldAtLast
    <3>2. CASE \E i \in 1..Len(p) : /\ p[i].kind = "state" /\ p[i].connected = device
                                    /\ \A j \in i + 1..Len(p) : p[j].kind # "state"
      BY <3>2 DEF Tells
    <3>3. ASSUME NEW i \in 1..Len(queue), queue[i].kind = "state",
                 queue[i].connected = device,
                 \A j \in i + 1..Len(queue) : queue[j].kind # "state", i > 1
          PROVE  Tells(p, connected', device)
      <4>1. i - 1 \in 1..Len(p) /\ p[i - 1] = queue[i]
        BY <1>4, <3>3
      <4>2. ASSUME NEW j \in (i - 1) + 1..Len(p) PROVE p[j].kind # "state"
        <5>1. j \in 1..Len(p) /\ j + 1 \in i + 1..Len(queue)
          BY <1>4, <3>3, <4>2
        <5>. QED
          BY <1>4, <3>3, <5>1
      <4>. QED
        BY <3>3, <4>1, <4>2 DEF Tells
    <3>4. ASSUME queue[1].kind = "state", queue[1].connected = device,
                 \A j \in 1 + 1..Len(queue) : queue[j].kind # "state"
          PROVE  Tells(p, connected', device)
      <4>1. connected' = device
        BY <1>2, <1>4, <3>4
      <4>2. ASSUME NEW j \in 1..Len(p) PROVE p[j].kind # "state"
        <5>1. j + 1 \in 1 + 1..Len(queue)
          BY <1>4
        <5>. QED
          BY <1>4, <3>4, <5>1
      <4>. QED
        BY <4>1, <4>2 DEF Tells
    <3>5. ASSUME \A i \in 1..Len(queue) : queue[i].kind # "state", connected = device
          PROVE  Tells(p, connected', device)
      <4>1. 1 \in 1..Len(queue) /\ m.kind # "state"
        BY <1>4, <3>5
      <4>2. connected' = device
        BY <1>2, <3>5, <4>1
      <4>3. ASSUME NEW j \in 1..Len(p) PROVE p[j].kind # "state"
        <5>1. j + 1 \in 1..Len(queue)
          BY <1>4
        <5>. QED
          BY <1>4, <3>5, <5>1
      <4>. QED
        BY <4>2, <4>3 DEF Tells
    <3>6. \A i \in 1..Len(queue) : i = 1 \/ i > 1
      BY <1>4
    <3>. QED
      BY <3>1, <3>3, <3>4, <3>5, <3>6 DEF Tells
  <2>. QED
    BY <1>2, <2>1 DEF ToldAtLast
<1>. QED
  BY <1>8, <1>9, <1>10, <1>11, <1>12 DEF WatchInv

LEMMA ClearSessionKeepsWatch == WatchInv /\ ClearSession => WatchInv'
<1>. SUFFICES ASSUME WatchInv, ClearSession PROVE WatchInv'
  OBVIOUS
<1>1. /\ RingInv /\ WatchTypeOK /\ WayInOrder /\ WayAccounted /\ ToldAtLast
      /\ queue \in Seq(Message) /\ logged \in Seq(Nat) /\ droppedCount \in Nat /\ base \in Nat
      /\ recorded \in Nat /\ nextSequence \in Nat /\ lastSequence \in Nat
  BY WatchFacts DEF WatchTypeOK
<1>2. /\ base' = IF disturbed THEN base ELSE base + Len(logged) + droppedCount
      /\ logged' = <<>> /\ droppedCount' = 0
      /\ UNCHANGED <<ringVars, available, device, lastSequence, initialized, queue, connected,
                     untold, disturbed>>
  BY DEF ClearSession, workerVars, statusVars
<1>. DEFINE w == IdsIn(queue)
<1>3. w \in Seq(Nat) /\ DroppedIn(queue) \in Nat /\ Len(logged) \in Nat /\ Len(w) \in Nat
  BY <1>1, InIs
<1>4. Way = logged \o w /\ Len(Way) = Len(logged) + Len(w)
  BY <1>1, WayIs DEF Way
<1>. HIDE DEF w
<1>5. Way' = w
  BY <1>2, <1>3 DEF Way, w
<1>6. RingInv' /\ recorded' = recorded /\ nextSequence' = nextSequence
  BY <1>1, <1>2, RingInvSame DEF ringVars
<1>7. WatchTypeOK'
  <2>1. base' \in Nat /\ droppedCount' \in Nat
    BY <1>1, <1>2, <1>3
  <2>2. logged' \in Seq(Nat)
    BY <1>2
  <2>. QED
    BY <1>1, <1>2, <2>1, <2>2 DEF WatchTypeOK
<1>8. WayInOrder'
  <2>1. Increasing(w) /\ UpTo(w, recorded)
    <3>1. Increasing(Way) /\ UpTo(Way, recorded) /\ recorded \in Int
      BY <1>1 DEF WayInOrder
    <3>. QED
      BY <1>1, <1>3, <1>4, <3>1, EndInOrder
  <2>2. ASSUME initialized, lastSequence <= nextSequence
        PROVE  UpTo(w, recorded - nextSequence + lastSequence)
    <3>. DEFINE b == recorded - nextSequence + lastSequence
    <3>1. b \in Int /\ UpTo(Way, b)
      BY <1>1, <2>2 DEF WayInOrder
    <3>. HIDE DEF b
    <3>2. UpTo(w, b)
      BY <1>1, <1>3, <1>4, <3>1, EndInOrder
    <3>. QED
      BY <3>2 DEF b
  <2>. QED
    BY <1>2, <1>5, <1>6, <2>1, <2>2 DEF WayInOrder
<1>9. WayAccounted'
  <2>1. ASSUME ~disturbed PROVE base' = base + Len(logged) + droppedCount
    BY <1>2, <2>1
  <2>2. ASSUME ~disturbed, ~initialized PROVE Len(w) = 0 /\ DroppedIn(queue) = 0
    BY <1>1, <1>3, <1>4, <2>2 DEF WayAccounted
  <2>3. ASSUME ~disturbed, initialized
        PROVE  Len(w) + 0 + DroppedIn(queue) + base' = lastSequence
    <3>1. Len(Way) + droppedCount + DroppedIn(queue) + base = lastSequence
      BY <1>1, <2>3 DEF WayAccounted
    <3>. QED
      BY <1>1, <1>3, <1>4, <2>1, <2>3, <3>1
  <2>. QED
    BY <1>1, <1>2, <1>5, <1>6, <2>2, <2>3 DEF WayAccounted
<1>10. ToldAtLast'
  BY <1>1, <1>2 DEF ToldAtLast
<1>. QED
  BY <1>6, <1>7, <1>8, <1>9, <1>10 DEF WatchInv

LEMMA WatchStep == WatchInv /\ [Next]_vars => WatchInv'
<1>. SUFFICES ASSUME WatchInv, [Next]_vars PROVE WatchInv'
  OBVIOUS
<1>1. CASE UNCHANGED vars
  <2>1. /\ UNCHANGED <<ringVars, available, device, lastSequence, initialized, queue, connected,
                       untold, droppedCount, logged, base, disturbed>>
        /\ available \in BOOLEAN
    BY <1>1 DEF vars, workerVars, statusVars, sessionVars, WatchInv, WatchTypeOK
  <2>. QED
    BY <2>1, SameKeepsWatch
<1>2. CASE Next
  BY <1>2, RecordKeepsWatch, ClearKeepsWatch, AvailabilityKeepsWatch, OpenKeepsWatch,
     PollFailsKeepsWatch, SynchroniseKeepsWatch, PostKeepsWatch, PostFailsKeepsWatch,
     HandleKeepsWatch, ClearSessionKeepsWatch DEF Next, Worker, Window
<1>. QED
  BY <1>1, <1>2

\* lecwatch: whatever is cleared, lost, removed and plugged in again, no record is logged twice
\* and none out of order.
THEOREM LogIsInOrder == Spec => []LoggedOnceInOrder
<1>1. WatchInv => LoggedOnceInOrder
  BY WatchImplies
<1>. QED
  BY <1>1, WatchInit, WatchStep, PTL DEF Spec

\* lecwatch: as long as nobody clears the trace, the device stays open and no message is lost,
\* what is logged, on its way and counted as dropped adds up to the records that were made.
THEOREM RecordsAreAccounted == Spec => []EveryRecordAccounted
<1>1. WatchInv => EveryRecordAccounted
  BY WatchImplies
<1>. QED
  BY <1>1, WatchInit, WatchStep, PTL DEF Spec

\* lecwatch: when the messages are handled the status line is right, across clears of the
\* trace, removals, returns and lost batches, unless the last message about the device was lost.
THEOREM StatusIsHonest == Spec => []StatusHonest
<1>1. WatchInv => StatusHonest
  BY WatchImplies
<1>. QED
  BY <1>1, WatchInit, WatchStep, PTL DEF Spec

-----------------------------------------------------------------------------
(* The backup of lecdiag.                                                   *)

BkSpec == BkInit /\ [][BkNext]_bkVars

Reading == {"id1", "image1", "image2", "id2", "compare", "create"}
Writing == {"write", "reopen", "verify", "delete"}

\* The number of images that were read, and where each may come from.
ImagesRead ==
    /\ images \in Seq({"old", "new", "noise1", "noise2"})
    /\ Len(images) = IF bkPc \in {"id1", "image1"} THEN 0 ELSE IF bkPc = "image2" THEN 1 ELSE 2
    /\ bkPc \notin {"id1", "image1"} => images[1] \in everHeld \cup {"noise1"}
    /\ bkPc \notin {"id1", "image1", "image2"} => images[2] \in everHeld \cup {"noise2"}

\* From the comparison on both reads gave what the chip held.
Compared == bkPc \in {"create"} \cup Writing => images[1] \in everHeld

BkTargetInv ==
    /\ found \in BOOLEAN
    /\ found => target = Theirs
    /\ bkPc \in Reading => target.owner # "lecdiag"
    /\ bkPc \in Writing => ~found 
          /\ \E i \in {images[1], "none"}, x \in BOOLEAN : target = Ours(i, x)
    /\ bkPc \in {"reopen", "verify"} => \E x \in BOOLEAN : target = Ours(images[1], x)

BkOutcome ==
    /\ bkPc \in Reading \cup Writing => exitCode = -1 /\ ~warned
    /\ exitCode = 0 => target \in {Ours(i, TRUE) : i \in everHeld} /\ ~warned
    /\ exitCode = 1 /\ target.owner = "lecdiag" => warned

BkPlaces == bkPc \in Reading \cup Writing \cup {"done"}

BkInv ==
    /\ BkPlaces /\ dallas \in everHeld /\ everHeld \subseteq {"old", "new"}
    /\ bkPc # "done" => ImagesRead
    /\ Compared /\ BkTargetInv /\ BkOutcome

LEMMA BkFirst == BkInit => BkInv
<1>. SUFFICES ASSUME BkInit PROVE BkInv
  OBVIOUS
<1>1. target.owner # "lecdiag" /\ found \in BOOLEAN /\ (found => target = Theirs)
  BY DEF BkInit, Absent, Theirs
<1>. QED
  BY <1>1 DEF BkInit, BkInv, BkPlaces, ImagesRead, Compared, BkTargetInv, BkOutcome,
               Reading, Writing

LEMMA BkStep == BkInv /\ [BkNext]_bkVars => BkInv'
<1>. SUFFICES ASSUME BkInv, [BkNext]_bkVars PROVE BkInv'
  OBVIOUS
<1>. USE DEF BkPlaces, Reading, Writing
<1>1. /\ BkPlaces /\ dallas \in everHeld /\ everHeld \subseteq {"old", "new"}
      /\ bkPc # "done" => ImagesRead
      /\ Compared /\ BkTargetInv /\ BkOutcome
  BY DEF BkInv
<1>2. CASE UNCHANGED bkVars
  <2>1. UNCHANGED <<dallas, everHeld, bkPc, ids, images, found, target, exitCode, warned>>
    BY <1>2 DEF bkVars, chipVars
  <2>2. BkTargetInv'
    BY <1>1, <2>1 DEF BkTargetInv
  <2>3. ImagesRead => ImagesRead'
    BY <2>1 DEF ImagesRead
  <2>4. Compared'
    BY <1>1, <2>1 DEF Compared
  <2>5. BkOutcome'
    BY <1>1, <2>1 DEF BkOutcome
  <2>. QED
    BY <1>1, <2>1, <2>2, <2>3, <2>4, <2>5 DEF BkInv
<1>3. CASE ChipWritten
  <2>1. /\ dallas' = "new" /\ everHeld' = everHeld \cup {"new"}
        /\ UNCHANGED <<bkPc, ids, images, target, exitCode, warned, found>>
    BY <1>3 DEF ChipWritten
  <2>2. ImagesRead => ImagesRead'
    BY <2>1 DEF ImagesRead
  <2>3. Compared'
    BY <1>1, <2>1 DEF Compared
  <2>4. BkTargetInv'
    BY <1>1, <2>1 DEF BkTargetInv
  <2>5. BkOutcome'
    BY <1>1, <2>1 DEF BkOutcome
  <2>. QED
    BY <1>1, <2>1, <2>2, <2>3, <2>4, <2>5 DEF BkInv
<1>4. CASE ReadingFails
  <2>1. /\ bkPc \in {"id1", "image1", "image2", "id2"} /\ bkPc' = "done" /\ exitCode' = 1
        /\ UNCHANGED <<dallas, everHeld, ids, images, target, warned, found>>
    BY <1>4 DEF ReadingFails, chipVars
  <2>2. BkTargetInv' /\ Compared'
    BY <1>1, <2>1 DEF BkTargetInv, Compared
  <2>3. BkOutcome'
    BY <1>1, <2>1 DEF BkOutcome, BkTargetInv
  <2>. QED
    BY <1>1, <2>1, <2>2, <2>3 DEF BkInv
<1>5. CASE ReadId
  <2>1. /\ bkPc \in {"id1", "id2"} /\ bkPc' = IF bkPc = "id1" THEN "image1" ELSE "compare"
        /\ UNCHANGED <<dallas, everHeld, images, target, exitCode, warned, found>>
    BY <1>5 DEF ReadId, chipVars
  <2>2. BkTargetInv' /\ Compared' /\ BkOutcome'
    <3>1. BkTargetInv'
      BY <1>1, <2>1 DEF BkTargetInv
    <3>2. Compared'
      BY <1>1, <2>1 DEF Compared
    <3>3. BkOutcome'
      BY <1>1, <2>1 DEF BkOutcome
    <3>. QED
      BY <3>1, <3>2, <3>3
  <2>3. ImagesRead'
    BY <1>1, <2>1 DEF ImagesRead
  <2>. QED
    BY <1>1, <2>1, <2>2, <2>3 DEF BkInv
<1>6. CASE ReadImage
  <2>1. PICK image \in {dallas, IF bkPc = "image1" THEN "noise1" ELSE "noise2"} :
          /\ images' = Append(images, image)
          /\ bkPc \in {"image1", "image2"}
          /\ bkPc' = IF bkPc = "image1" THEN "image2" ELSE "id2"
          /\ UNCHANGED <<dallas, everHeld, ids, target, exitCode, warned, found>>
    BY <1>6 DEF ReadImage, chipVars
  <2>2. BkTargetInv' /\ Compared' /\ BkOutcome'
    <3>1. BkTargetInv'
      BY <1>1, <2>1 DEF BkTargetInv
    <3>2. Compared'
      BY <1>1, <2>1 DEF Compared
    <3>3. BkOutcome'
      BY <1>1, <2>1 DEF BkOutcome
    <3>. QED
      BY <3>1, <3>2, <3>3
  <2>3. ImagesRead'
    <3>1. /\ images \in Seq({"old", "new", "noise1", "noise2"})
          /\ Len(images) = IF bkPc = "image1" THEN 0 ELSE 1
          /\ bkPc = "image2" => images[1] \in everHeld \cup {"noise1"}
      BY <1>1, <2>1 DEF ImagesRead
    <3>2. image \in {"old", "new", "noise1", "noise2"}
      BY <1>1, <2>1
    <3>3. /\ images' \in Seq({"old", "new", "noise1", "noise2"})
          /\ Len(images') = Len(images) + 1 /\ images'[Len(images) + 1] = image
          /\ bkPc = "image2" => images'[1] = images[1]
      BY <2>1, <3>1, <3>2
    <3>. QED
      BY <1>1, <2>1, <3>1, <3>3 DEF ImagesRead
  <2>. QED
    BY <1>1, <2>1, <2>2, <2>3 DEF BkInv
<1>7. CASE Compare
  <2>1. /\ bkPc = "compare"
        /\ \/ Stable /\ bkPc' = "create" /\ exitCode' = exitCode
           \/ bkPc' = "done" /\ exitCode' = 1
        /\ UNCHANGED <<dallas, everHeld, ids, images, target, warned, found>>
    BY <1>7 DEF Compare, chipVars
  <2>2. Stable => images[1] \in everHeld
    BY <1>1, <2>1 DEF Stable, ImagesRead
  <2>3. BkTargetInv' /\ Compared' /\ BkOutcome'
    <3>1. BkTargetInv'
      BY <1>1, <2>1, <2>2 DEF BkTargetInv
    <3>2. Compared'
      BY <1>1, <2>1, <2>2 DEF Compared
    <3>3. BkOutcome'
      <4>1. exitCode = -1 /\ ~warned /\ target.owner # "lecdiag"
        BY <1>1, <2>1 DEF BkOutcome, BkTargetInv
      <4>2. exitCode' # 0 /\ ~warned' /\ target'.owner # "lecdiag"
        BY <2>1, <4>1
      <4>3. bkPc' \in Reading \cup Writing => exitCode' = -1
        BY <2>1, <4>1
      <4>. QED
        BY <4>2, <4>3 DEF BkOutcome
    <3>. QED
      BY <3>1, <3>2, <3>3
  <2>4. bkPc' # "done" => ImagesRead'
    BY <1>1, <2>1 DEF ImagesRead
  <2>. QED
    BY <1>1, <2>1, <2>3, <2>4 DEF BkInv
<1>8. CASE CreateNew
  <2>1. /\ bkPc = "create"
        /\ \/ /\ target = Absent /\ target' = Ours("none", FALSE) /\ bkPc' = "write"
              /\ exitCode' = exitCode
           \/ bkPc' = "done" /\ exitCode' = 1 /\ target' = target
        /\ UNCHANGED <<dallas, everHeld, ids, images, warned, found>>
    BY <1>8 DEF CreateNew, chipVars
  <2>2. bkPc' # "done" => ImagesRead'
    BY <1>1, <2>1 DEF ImagesRead
  <2>3. CASE target = Absent /\ target' = Ours("none", FALSE)
             /\ bkPc' = "write" /\ exitCode' = exitCode
    <3>1. ~found
      BY <1>1, <2>3 DEF BkTargetInv, Absent, Theirs
    <3>2. BkTargetInv' /\ Compared' /\ BkOutcome'
      <4>1. BkTargetInv'
        <5>1. \E i \in {images'[1], "none"}, x \in BOOLEAN : target' = Ours(i, x)
          BY <2>3
        <5>2. bkPc' = "write" /\ ~found' /\ found' \in BOOLEAN
          BY <1>1, <2>1, <2>3, <3>1 DEF BkTargetInv
        <5>. QED
          BY <5>1, <5>2 DEF BkTargetInv
      <4>2. Compared'
        BY <1>1, <2>1, <2>3, <3>1 DEF Compared
      <4>3. BkOutcome'
        BY <1>1, <2>1, <2>3, <3>1 DEF BkOutcome
      <4>. QED
        BY <4>1, <4>2, <4>3
    <3>. QED
      BY <1>1, <2>1, <2>2, <2>3, <3>2 DEF BkInv
  <2>4. CASE bkPc' = "done" /\ exitCode' = 1 /\ target' = target
    <3>1. BkTargetInv' /\ Compared' /\ BkOutcome'
      <4>1. BkTargetInv'
        BY <1>1, <2>1, <2>4 DEF BkTargetInv
      <4>2. Compared'
        BY <1>1, <2>1, <2>4 DEF Compared
      <4>3. BkOutcome'
        BY <1>1, <2>1, <2>4 DEF BkOutcome, BkTargetInv
      <4>. QED
        BY <4>1, <4>2, <4>3
    <3>. QED
      BY <1>1, <2>1, <2>2, <2>4, <3>1 DEF BkInv
  <2>. QED
    BY <2>1, <2>3, <2>4
<1>9. CASE WriteImage
  <2>1. PICK intact \in BOOLEAN, reported \in BOOLEAN :
          /\ bkPc = "write" /\ target' = Ours(images[1], intact)
          /\ bkPc' = IF reported THEN "reopen" ELSE "delete"
          /\ UNCHANGED <<dallas, everHeld, ids, images, exitCode, warned, found>>
    BY <1>9 DEF WriteImage, chipVars
  <2>2. ImagesRead'
    BY <1>1, <2>1 DEF ImagesRead
  <2>3. BkTargetInv' /\ Compared' /\ BkOutcome'
    <3>1. BkTargetInv'
      BY <1>1, <2>1 DEF BkTargetInv
    <3>2. Compared'
      BY <1>1, <2>1 DEF Compared
    <3>3. BkOutcome'
      BY <1>1, <2>1 DEF BkOutcome
    <3>. QED
      BY <3>1, <3>2, <3>3
  <2>. QED
    BY <1>1, <2>1, <2>2, <2>3 DEF BkInv
<1>10. CASE Reopen
  <2>1. /\ bkPc = "reopen" /\ bkPc' \in {"verify", "delete"}
        /\ UNCHANGED <<dallas, everHeld, ids, images, target, exitCode, warned, found>>
    BY <1>10 DEF Reopen, chipVars
  <2>2. ImagesRead'
    BY <1>1, <2>1 DEF ImagesRead
  <2>3. BkTargetInv' /\ Compared' /\ BkOutcome'
    <3>1. BkTargetInv'
      BY <1>1, <2>1 DEF BkTargetInv
    <3>2. Compared'
      BY <1>1, <2>1 DEF Compared
    <3>3. BkOutcome'
      BY <1>1, <2>1 DEF BkOutcome
    <3>. QED
      BY <3>1, <3>2, <3>3
  <2>. QED
    BY <1>1, <2>1, <2>2, <2>3 DEF BkInv
<1>11. CASE Verify
  <2>1. /\ bkPc = "verify"
        /\ \/ Verified /\ bkPc' = "done" /\ exitCode' = 0
           \/ bkPc' = "delete" /\ exitCode' = exitCode
        /\ UNCHANGED <<dallas, everHeld, ids, images, target, warned, found>>
    BY <1>11 DEF Verify, chipVars
  <2>2. bkPc' # "done" => ImagesRead'
    BY <1>1, <2>1 DEF ImagesRead
  <2>3. Verified => target = Ours(images[1], TRUE)
    <3>1. PICK x \in BOOLEAN : target = Ours(images[1], x)
      BY <1>1, <2>1 DEF BkTargetInv
    <3>. QED
      BY <3>1 DEF Verified, Ours
  <2>4. BkTargetInv' /\ Compared'
    BY <1>1, <2>1 DEF BkTargetInv, Compared
  <2>5. BkOutcome'
    <3>1. exitCode = -1 /\ ~warned /\ images[1] \in everHeld
      BY <1>1, <2>1 DEF BkOutcome, Compared
    <3>2. CASE Verified /\ bkPc' = "done" /\ exitCode' = 0
      <4>1. target' \in {Ours(i, TRUE) : i \in everHeld'}
        BY <2>1, <2>3, <3>1, <3>2
      <4>2. exitCode' # 1 /\ ~warned' /\ bkPc' \notin Reading \cup Writing
        BY <2>1, <3>1, <3>2
      <4>. QED
        BY <4>1, <4>2 DEF BkOutcome
    <3>3. CASE bkPc' = "delete" /\ exitCode' = exitCode
      BY <2>1, <3>1, <3>3 DEF BkOutcome
    <3>. QED
      BY <2>1, <3>2, <3>3
  <2>. QED
    BY <1>1, <2>1, <2>2, <2>4, <2>5 DEF BkInv
<1>12. CASE DeleteUnverified
  <2>1. /\ bkPc = "delete" /\ bkPc' = "done" /\ exitCode' = 1
        /\ \/ target' = Absent /\ warned' = warned
           \/ warned' = TRUE /\ target' = target
        /\ UNCHANGED <<dallas, everHeld, ids, images, found>>
    BY <1>12 DEF DeleteUnverified, chipVars
  <2>2. BkTargetInv' /\ Compared'
    BY <1>1, <2>1 DEF BkTargetInv, Compared
  <2>3. BkOutcome'
    BY <1>1, <2>1 DEF BkOutcome, Absent
  <2>. QED
    BY <1>1, <2>1, <2>2, <2>3 DEF BkInv
<1>. QED
  BY <1>2, <1>3, <1>4, <1>5, <1>6, <1>7, <1>8, <1>9, <1>10, <1>11, <1>12 DEF BkNext

\* dallas-backup: whichever read was disturbed, whoever wrote the chip meanwhile and whatever
\* the disk reports, success is an intact file with what the chip held, and a file of the user
\* is left alone.
THEOREM BackupIsGenuine == BkSpec => []BackupGenuine
<1>1. BkInv => BackupGenuine
  <2>1. SUFFICES ASSUME BkTargetInv, BkOutcome PROVE BackupGenuine
    BY DEF BkInv
  <2>2. exitCode = 0 => target \in {Ours(image, TRUE) : image \in everHeld}
    BY <2>1 DEF BkOutcome
  <2>3. /\ found => target = Theirs
        /\ exitCode = 1 /\ target.owner = "lecdiag" => warned
        /\ exitCode = 0 => ~warned
    BY <2>1 DEF BkTargetInv, BkOutcome
  <2>. QED
    BY <2>2, <2>3 DEF BackupGenuine
<1>. QED
  BY <1>1, BkFirst, BkStep, PTL DEF BkSpec

-----------------------------------------------------------------------------
(* The window of lecwatch.                                                  *)

SwSpec == SwInit /\ [][SwNext]_windowVars

CodesSeen == {e.code : e \in Traced} \cup {Described[i].code : i \in DOMAIN Described}
WindowRequest ==
    [code : {e.code : e \in Traced}, length : {e.length : e \in Traced},
     first : {e.first : e \in Traced}, ok : {e.ok : e \in Traced},
     id : Nat, seq : Nat, time : Nat \ {0}]
Stat ==
    [code : CodesSeen, count : Nat, learnFrom : Nat, rated : BOOLEAN,
     hashes : SUBSET {Variant(e) : e \in WindowRequest}, overflow : BOOLEAN, novelAt : Nat,
     actionFrom : Nat]
WindowMarkers ==
    [kind : {"marker"}, time : Nat, code : CodesSeen \cup {""}, n : Int,
     text : {"", "baseline", "user", "start", "end", "none", "count"}]
WindowRows == [kind : {"trace"}, time : Nat, request : WindowRequest] \cup WindowMarkers
RowLog ==
    [rows : [0..MaxEvents - 1 -> WindowRows], head : 0..MaxEvents - 1, count : 0..MaxEvents]

SwTypeOK ==
    /\ clock \in Nat \ {0} /\ traceSeq \in Nat /\ total \in Nat
    /\ onTheWay \in Seq(WindowRequest)
    /\ stats \in Seq(Stat) /\ session \in Seq(WindowRows) /\ log \in RowLog
    /\ baseline \in {"none", "active", "ready"} /\ learned \subseteq WindowRequest

\* Where the ring has its row k, counted from the oldest.
PlaceOf(l, k) == (((l.head + MaxEvents) - l.count) + (k - 1)) % MaxEvents

\* The first n of the rows t have been pushed.
Retains(l, t, n) ==
    /\ l.count = IF n < MaxEvents THEN n ELSE MaxEvents
    /\ \A k \in 1..l.count : l.rows[PlaceOf(l, k)] = t[(n - l.count) + k]

\* A code without a slot has no row, or there is no slot left.
RowsHaveSlots ==
    Len(stats) < MaxStats =>
        \A k \in DOMAIN session : session[k].kind = "trace" =>
            \E i \in DOMAIN stats : stats[i].code = session[k].request.code

\* Every variant of a baseline is that of a request that was learned.
HashesLearned ==
    /\ baseline # "ready" => calm = {}
    /\ \A i \in DOMAIN stats : \A h \in stats[i].hashes :
          \E l \in learned : l.code = stats[i].code /\ Variant(l) = h

SwInv ==
    /\ SwTypeOK /\ Retains(log, session, Len(session))
    /\ CountsExact /\ RowsHaveSlots /\ HashesLearned /\ ~missed

-----------------------------------------------------------------------------
(* The window.  The ring of rows.                                           *)

LEMMA Remainder ==
    ASSUME NEW N \in Nat \ {0}, NEW a \in 0..(2 * N) - 1
    PROVE  a % N = IF a < N THEN a ELSE a - N
<1>. DEFINE q == a \div N
            r == a % N
<1>1. q \in Int /\ r \in 0..N - 1 /\ a = N * q + r
  OBVIOUS
<1>. HIDE DEF q, r
<1>2. q = 0 \/ q = 1
  <2>1. ~(q >= 2)
    BY <1>1
  <2>2. ~(q <= -1)
    BY <1>1
  <2>. QED
    BY <1>1, <2>1, <2>2
<1>3. a = r \/ a = N + r
  BY <1>1, <1>2
<1>4. r = IF a < N THEN a ELSE a - N
  BY <1>1, <1>3
<1>. QED
  BY <1>4 DEF r

LEMMA PlaceIs ==
    ASSUME NEW l, l.head \in 0..MaxEvents - 1, l.count \in 0..MaxEvents, NEW k \in 1..l.count
    PROVE  LET a == ((l.head + MaxEvents) - l.count) + (k - 1)
           IN  PlaceOf(l, k) = IF a < MaxEvents THEN a ELSE a - MaxEvents
<1>1. MaxEvents \in Nat \ {0}
  BY SessionAssumption
<1>. DEFINE a == ((l.head + MaxEvents) - l.count) + (k - 1)
<1>2. a \in 0..(2 * MaxEvents) - 1
  BY <1>1
<1>3. PlaceOf(l, k) = a % MaxEvents
  BY DEF PlaceOf
<1>. HIDE DEF a
<1>4. PlaceOf(l, k) = IF a < MaxEvents THEN a ELSE a - MaxEvents
  BY <1>1, <1>2, <1>3, Remainder
<1>. QED
  BY <1>4 DEF a

LEMMA PushIs ==
    ASSUME NEW l \in RowLog, NEW row \in WindowRows
    PROVE  LET p == Push(l, row)  M == MaxEvents IN
           /\ p \in RowLog
           /\ p.head = IF l.head + 1 < M THEN l.head + 1 ELSE 0
           /\ p.count = IF l.count < M THEN l.count + 1 ELSE l.count
           /\ p.rows[l.head] = row
           /\ \A i \in 0..M - 1 : i # l.head => p.rows[i] = l.rows[i]
<1>. DEFINE p == Push(l, row)
            M == MaxEvents
            h == l.head
            c == l.count
<1>1. M \in Nat \ {0} /\ h \in 0..M - 1 /\ c \in 0..M /\ l.rows \in [0..M - 1 -> WindowRows]
  BY SessionAssumption DEF RowLog
<1>2. /\ p.head = (h + 1) % M /\ p.count = IF c < M THEN c + 1 ELSE c
      /\ p.rows = [l.rows EXCEPT ![h] = row]
      /\ p = [rows |-> p.rows, head |-> p.head, count |-> p.count]
  BY DEF Push
<1>3. p.head = IF h + 1 < M THEN h + 1 ELSE 0
  <2>1. h + 1 \in 0..(2 * M) - 1
    BY <1>1
  <2>2. (h + 1) % M = IF h + 1 < M THEN h + 1 ELSE (h + 1) - M
    BY <1>1, <2>1, Remainder
  <2>. QED
    BY <1>1, <1>2, <2>2
<1>4. /\ p.rows \in [0..M - 1 -> WindowRows] /\ p.rows[h] = row
      /\ \A i \in 0..M - 1 : i # h => p.rows[i] = l.rows[i]
  BY <1>1, <1>2
<1>5. p.head \in 0..M - 1 /\ p.count \in 0..M
  BY <1>1, <1>2, <1>3
<1>6. p \in RowLog
  BY <1>2, <1>4, <1>5 DEF RowLog
<1>. HIDE DEF p, M
<1>. QED
  BY <1>2, <1>3, <1>4, <1>6 DEF p, M

\* A push drops the oldest row of a full ring.
LEMMA PushRetains ==
    ASSUME NEW l \in RowLog, NEW t, NEW n \in Nat, Retains(l, t, n), NEW row \in WindowRows,
           row = t[n + 1]
    PROVE  Retains(Push(l, row), t, n + 1)
<1>. DEFINE p == Push(l, row)
            M == MaxEvents
            h == l.head
            c == l.count
<1>1. M \in Nat \ {0} /\ h \in 0..M - 1 /\ c \in 0..M
  BY SessionAssumption DEF RowLog
<1>2. /\ p.head = IF h + 1 < M THEN h + 1 ELSE 0
      /\ p.count = IF c < M THEN c + 1 ELSE c
      /\ p.rows[h] = row
      /\ \A i \in 0..M - 1 : i # h => p.rows[i] = l.rows[i]
  BY PushIs
<1>3. p.head \in 0..M - 1 /\ p.count \in 0..M
  BY <1>1, <1>2
<1>. HIDE DEF p
<1>4. /\ c = IF n < M THEN n ELSE M
      /\ \A k \in 1..c : l.rows[PlaceOf(l, k)] = t[(n - c) + k]
  BY DEF Retains
<1>5. p.count = IF n + 1 < M THEN n + 1 ELSE M
  BY <1>1, <1>2, <1>4
<1>6. ASSUME NEW k \in 1..p.count PROVE p.rows[PlaceOf(p, k)] = t[((n + 1) - p.count) + k]
  <2>. DEFINE H == p.head
              C == p.count
              b == ((H + M) - C) + (k - 1)
              Pk == PlaceOf(p, k)
  <2>1. Pk = IF b < M THEN b ELSE b - M
    BY <1>3, PlaceIs
  <2>2. /\ H = IF h + 1 < M THEN h + 1 ELSE 0
        /\ C = IF c < M THEN c + 1 ELSE c
        /\ M \in Nat \ {0} /\ h \in 0..M - 1 /\ c \in 0..M /\ k \in 1..C
    BY <1>1, <1>2
  <2>3. b = ((H + M) - C) + (k - 1)
    OBVIOUS
  <2>4. c = IF n < M THEN n ELSE M
    BY <1>4
  <2>. HIDE DEF M, h, c, H, C, b, Pk
  <2>5. CASE k = C
    <3>1. Pk = h
      <4>1. b = H + M - 1
        BY <2>2, <2>3, <2>5
      <4>. QED
        BY <2>1, <2>2, <4>1
    <3>2. ((n + 1) - C) + k = n + 1
      BY <2>2, <2>5
    <3>3. p.rows[Pk] = row
      BY <1>2, <3>1
    <3>. QED
      BY <3>2, <3>3 DEF C, Pk
  <2>6. CASE k # C
    <3>. DEFINE j == IF c < M THEN k ELSE k + 1
                a == ((h + M) - c) + (j - 1)
                Pj == PlaceOf(l, j)
    <3>1. j \in 1..c
      BY <2>2, <2>6
    <3>2. j = IF c < M THEN k ELSE k + 1
      OBVIOUS
    <3>3. a = ((h + M) - c) + (j - 1)
      OBVIOUS
    <3>. HIDE DEF j
    <3>4. Pj = IF a < M THEN a ELSE a - M
      BY <1>1, <3>1, PlaceIs DEF M, h, c
    <3>. HIDE DEF a, Pj
    <3>5. Pj = Pk /\ Pj \in 0..M - 1 /\ Pj # h
      <4>1. CASE c < M
        <5>1. j = k /\ C = c + 1
          BY <2>2, <3>2, <4>1
        <5>. QED
          BY <2>1, <2>2, <2>3, <3>1, <3>3, <3>4, <4>1, <5>1
      <4>2. CASE c = M
        <5>1. j = k + 1 /\ C = M
          BY <2>2, <3>2, <4>2
        <5>. QED
          BY <2>1, <2>2, <2>3, <3>1, <3>3, <3>4, <4>2, <5>1
      <4>. QED
        BY <2>2, <4>1, <4>2
    <3>6. (n - c) + j = ((n + 1) - C) + k
      BY <2>2, <2>4, <3>2
    <3>7. l.rows[Pj] = t[(n - c) + j]
      BY <1>4, <3>1 DEF Pj
    <3>8. p.rows[Pk] = l.rows[Pj]
      BY <1>2, <3>5
    <3>. QED
      BY <3>6, <3>7, <3>8 DEF C, Pk
  <2>. QED
    BY <2>5, <2>6
<1>. QED
  BY <1>5, <1>6 DEF Retains, p

LEMMA RetainsLonger ==
    ASSUME NEW l \in RowLog, NEW s \in Seq(WindowRows), NEW t, Retains(l, s, Len(s)),
           \A i \in 1..Len(s) : t[i] = s[i]
    PROVE  Retains(l, t, Len(s))
<1>. DEFINE n == Len(s)
<1>1. n \in Nat /\ MaxEvents \in Nat \ {0} /\ l.count \in Nat
  BY SessionAssumption DEF RowLog
<1>. HIDE DEF n
<1>2. ASSUME NEW k \in 1..l.count PROVE (n - l.count) + k \in 1..n
  BY <1>1 DEF Retains, n
<1>3. l.count = IF n < MaxEvents THEN n ELSE MaxEvents
  BY DEF Retains, n
<1>4. (n - l.count) \in 0..n
  BY <1>1, <1>3
<1>5. ASSUME NEW k \in 1..l.count PROVE (n - l.count) + k \in 1..n
  BY <1>1, <1>3, <1>4
<1>6. ASSUME NEW k \in 1..l.count PROVE l.rows[PlaceOf(l, k)] = t[(n - l.count) + k]
  <2>1. l.rows[PlaceOf(l, k)] = s[(n - l.count) + k]
    BY DEF Retains, n
  <2>. QED
    BY <1>5, <2>1 DEF n
<1>. QED
  BY <1>3, <1>6 DEF Retains, n

\* What is pushed row by row.
LEMMA PushedRetains ==
    ASSUME NEW l \in RowLog, NEW s \in Seq(WindowRows), NEW rows \in Seq(WindowRows),
           Retains(l, s, Len(s))
    PROVE  Pushed(l, rows) \in RowLog /\ Retains(Pushed(l, rows), s \o rows, Len(s \o rows))
<1>. DEFINE L == Len(rows)
            n == Len(s)
            t == s \o rows
            IsLoop(f) == f = [i \in 0..L |-> IF i = 0 THEN l ELSE Push(f[i - 1], rows[i])]
<1>1. L \in Nat /\ n \in Nat /\ Len(t) = n + L /\ (\A i \in 1..n : t[i] = s[i])
      /\ \A i \in 1..L : rows[i] \in WindowRows /\ t[n + i] = rows[i]
  OBVIOUS
<1>. HIDE DEF L, n, t
<1>2. \E f : IsLoop(f)
  <2>. DEFINE step == [i \in 1..L |-> [x \in RowLog |-> Push(x, rows[i])]]
  <2>1. \A i \in 1..L : step[i] \in [RowLog -> RowLog]
    BY <1>1, PushIs
  <2>. HIDE DEF step
  <2>2. PICK f : IterationOf(f, l, step, L, RowLog)
    <3>1. Rounds(step, L, RowLog)
      BY <2>1 DEF Rounds
    <3>. QED
      BY <1>1, <3>1, IterationExists
  <2>3. ASSUME NEW i \in 0..L
        PROVE  f[i] = IF i = 0 THEN l ELSE Push(f[i - 1], rows[i])
    <3>1. CASE i # 0
      <4>1. i \in 1..L /\ i - 1 \in 0..L
        BY <1>1, <3>1
      <4>2. f[i - 1] \in RowLog /\ step[i][f[i - 1]] = Push(f[i - 1], rows[i])
        BY <2>2, <4>1 DEF step, IterationOf
      <4>. QED
        BY <2>2, <3>1, <4>1, <4>2 DEF IterationOf
    <3>. QED
      BY <2>2, <3>1 DEF IterationOf
  <2>4. f = [i \in 0..L |-> f[i]]
    BY <2>2 DEF IterationOf
  <2>5. IsLoop(f)
    BY <2>3, <2>4
  <2>. QED
    BY <2>5
<1>. DEFINE after == CHOOSE f : IsLoop(f)
<1>3. IsLoop(after)
  BY <1>2
<1>4. Pushed(l, rows) = after[L]
  BY DEF Pushed, L
<1>. HIDE DEF after
<1>5. after[0] = l /\ \A i \in 1..L : after[i] = Push(after[i - 1], rows[i])
  <2>1. \A i \in 0..L : after[i] = IF i = 0 THEN l ELSE Push(after[i - 1], rows[i])
    BY <1>3
  <2>2. 0 \in 0..L /\ \A i \in 1..L : i \in 0..L /\ i # 0
    BY <1>1
  <2>. QED
    BY <2>1, <2>2
<1>. HIDE DEF IsLoop
<1>. DEFINE S == {i \in Nat : i <= L => after[i] \in RowLog /\ Retains(after[i], t, n + i)}
<1>6. 0 \in S
  <2>1. Retains(l, t, n)
    BY <1>1, RetainsLonger DEF n
  <2>. QED
    BY <1>1, <1>5, <2>1
<1>7. ASSUME NEW i \in Nat, i \in S PROVE i + 1 \in S
  <2>1. SUFFICES ASSUME i + 1 <= L
                 PROVE  after[i + 1] \in RowLog /\ Retains(after[i + 1], t, n + (i + 1))
    OBVIOUS
  <2>2. i + 1 \in 1..L /\ (i + 1) - 1 = i /\ i <= L /\ n + i \in Nat
        /\ n + (i + 1) = (n + i) + 1
    BY <1>1, <2>1
  <2>. DEFINE a == after[i]
              row == rows[i + 1]
  <2>3. a \in RowLog /\ Retains(a, t, n + i)
    BY <1>7, <2>2
  <2>4. row \in WindowRows /\ row = t[(n + i) + 1] /\ after[i + 1] = Push(a, row)
    BY <1>1, <1>5, <2>2
  <2>. HIDE DEF a, row
  <2>5. Push(a, row) \in RowLog /\ Retains(Push(a, row), t, (n + i) + 1)
    BY <2>2, <2>3, <2>4, PushIs, PushRetains
  <2>. QED
    BY <2>2, <2>4, <2>5
<1>. HIDE DEF S
<1>8. L \in S
  BY <1>1, <1>6, <1>7, AllNats
<1>9. after[L] \in RowLog /\ Retains(after[L], t, n + L)
  BY <1>1, <1>8 DEF S
<1>. QED
  BY <1>1, <1>4, <1>9 DEF t

-----------------------------------------------------------------------------
(* The window.  Counts.                                                     *)

\* The rows of s that are of a code.
RowsOfCode(s, code) == {k \in DOMAIN s : s[k].kind = "trace" /\ s[k].request.code = code}

LEMMA CountOfRows ==
    ASSUME NEW s \in Seq(WindowRows), NEW code
    PROVE  /\ IsFiniteSet(RowsOfCode(s, code))
           /\ Requests1(s, code) = Cardinality(RowsOfCode(s, code))
           /\ Requests1(s, code) \in Nat
<1>1. RowsOfCode(s, code) \subseteq 1..Len(s) /\ Len(s) \in Nat
  BY DEF RowsOfCode
<1>2. IsFiniteSet(1..Len(s))
  BY <1>1, FS_Interval
<1>3. IsFiniteSet(RowsOfCode(s, code))
  BY <1>1, <1>2, FS_Subset
<1>4. Requests1(s, code) = Cardinality(RowsOfCode(s, code))
  BY DEF Requests1, RowsOfCode
<1>. QED
  BY <1>3, <1>4, FS_CardinalityType

\* A row of a code counts.
LEMMA RowCounts ==
    ASSUME NEW s \in Seq(WindowRows), NEW row \in WindowRows, NEW code
    PROVE  Requests1(Append(s, row), code) =
             IF row.kind = "trace" /\ row.request.code = code
             THEN Requests1(s, code) + 1 ELSE Requests1(s, code)
<1>. DEFINE t == Append(s, row)
            n == Len(s)
            is == row.kind = "trace" /\ row.request.code = code
<1>1. /\ n \in Nat /\ t \in Seq(WindowRows) /\ DOMAIN t = 1..n + 1 /\ DOMAIN s = 1..n
      /\ t[n + 1] = row /\ \A k \in 1..n : t[k] = s[k]
  OBVIOUS
<1>. HIDE DEF t, n
<1>2. \A k : k \in 1..n + 1 <=> k \in 1..n \/ k = n + 1
  BY <1>1
<1>3. n + 1 \notin RowsOfCode(s, code)
  BY <1>1 DEF RowsOfCode
<1>4. CASE is
  <2>1. RowsOfCode(t, code) = RowsOfCode(s, code) \cup {n + 1}
    BY <1>1, <1>2, <1>4 DEF RowsOfCode
  <2>2. Cardinality(RowsOfCode(t, code)) = Cardinality(RowsOfCode(s, code)) + 1
    BY <1>3, <2>1, CountOfRows, FS_AddElement
  <2>. QED
    BY <1>1, <1>4, <2>2, CountOfRows DEF t
<1>5. CASE ~is
  <2>1. RowsOfCode(t, code) = RowsOfCode(s, code)
    BY <1>1, <1>2, <1>5 DEF RowsOfCode
  <2>. QED
    BY <1>1, <1>5, <2>1, CountOfRows DEF t
<1>. QED
  BY <1>4, <1>5

\* WindowMarkers do not.
LEMMA MarkersDoNotCount ==
    ASSUME NEW s \in Seq(WindowRows), NEW m \in Seq(WindowMarkers), NEW code
    PROVE  /\ m \in Seq(WindowRows) /\ s \o m \in Seq(WindowRows)
           /\ Requests1(s \o m, code) = Requests1(s, code)
<1>. DEFINE t == s \o m
            n == Len(s)
<1>1. WindowMarkers \subseteq WindowRows
  BY DEF WindowRows
<1>2. /\ n \in Nat /\ Len(m) \in Nat /\ DOMAIN t = 1..n + Len(m) /\ DOMAIN s = 1..n
      /\ \A k \in 1..n : t[k] = s[k]
      /\ \A k \in 1..Len(m) : t[n + k] = m[k] /\ m[k] \in WindowMarkers
  OBVIOUS
<1>3. m \in Seq(WindowRows) /\ t \in Seq(WindowRows)
  <2>1. m \in Seq(WindowRows)
    BY <1>1
  <2>. QED
    BY <2>1
<1>. HIDE DEF t, n
<1>4. ASSUME NEW k \in 1..n + Len(m), k \notin 1..n PROVE t[k].kind = "marker"
  <2>1. k - n \in 1..Len(m) /\ n + (k - n) = k
    BY <1>2, <1>4
  <2>2. t[k] \in WindowMarkers
    BY <1>2, <2>1
  <2>. QED
    BY <2>2 DEF WindowMarkers
<1>5. 1..n \subseteq 1..n + Len(m)
  BY <1>2
<1>6. RowsOfCode(t, code) = RowsOfCode(s, code)
  BY <1>2, <1>4, <1>5 DEF RowsOfCode
<1>. QED
  BY <1>3, <1>6, CountOfRows DEF t

LEMMA MarkerType ==
    ASSUME clock \in Nat,
           NEW text \in {"", "baseline", "user", "start", "end", "none", "count"},
           NEW code \in CodesSeen \cup {""}, NEW n \in Int
    PROVE  Marker(text, code, n) \in WindowMarkers
BY DEF Marker, WindowMarkers

LineOf(i) == Marker("count", stats[i].code, stats[i].count - stats[i].actionFrom)

\* The lines of the first n codes.
LinesTell(lines, n) ==
    /\ \A k \in 1..Len(lines) : \E j \in 1..n :
          stats[j].count - stats[j].actionFrom # 0 /\ lines[k] = LineOf(j)
    /\ \A j \in 1..n : stats[j].count - stats[j].actionFrom # 0 =>
          \E k \in 1..Len(lines) : lines[k] = LineOf(j)

\* The lines of an action are markers: one of each code that was counted, or that there
\* is none.
LEMMA LinesAreTold ==
    ASSUME clock \in Nat, stats \in Seq(Stat)
    PROVE  /\ CountLines \in Seq(WindowMarkers)
           /\ \/ LinesTell(CountLines, Len(stats))
              \/ CountLines = <<Mark("none")>> /\ LinesTell(<<>>, Len(stats))
<1>. DEFINE L == Len(stats)
            of(i) == stats[i].count - stats[i].actionFrom
            line(i) == Marker("count", stats[i].code, of(i))
            diff == [i \in 1..L |-> of(i)]
            Told(x, n) ==
               /\ \A k \in 1..Len(x) : \E j \in 1..n : diff[j] # 0 /\ x[k] = line(j)
               /\ \A j \in 1..n : diff[j] # 0 => \E k \in 1..Len(x) : x[k] = line(j)
            IsLoop(f) == f = [i \in 0..L |->
                                IF i = 0 THEN <<>>
                                ELSE IF of(i) # 0 THEN Append(f[i - 1], line(i))
                                ELSE f[i - 1]]
<1>1. L \in Nat /\ \A i \in 1..L : line(i) \in WindowMarkers
  <2>1. ASSUME NEW i \in 1..L PROVE line(i) \in WindowMarkers
    <3>1. stats[i] \in Stat
      OBVIOUS
    <3>2. stats[i].code \in CodesSeen /\ of(i) \in Int
      BY <3>1 DEF Stat
    <3>. HIDE DEF of
    <3>. QED
      BY <3>2, MarkerType
  <2>. QED
    BY <2>1
<1>0. \A i \in 1..L : diff[i] = of(i)
  OBVIOUS
<1>. HIDE DEF L, line, diff
<1>2. \E f : IsLoop(f)
  <2>. DEFINE step == [i \in 1..L |-> [x \in Seq(WindowMarkers) |->
                         IF of(i) # 0 THEN Append(x, line(i)) ELSE x]]
  <2>1. \A i \in 1..L : step[i] \in [Seq(WindowMarkers) -> Seq(WindowMarkers)]
    <3>1. ASSUME NEW i \in 1..L, NEW x \in Seq(WindowMarkers)
          PROVE  (IF of(i) # 0 THEN Append(x, line(i)) ELSE x) \in Seq(WindowMarkers)
      BY <1>1
    <3>. HIDE DEF of
    <3>. QED
      BY <3>1
  <2>. HIDE DEF step
  <2>2. PICK f : IterationOf(f, <<>>, step, L, Seq(WindowMarkers))
    <3>1. Rounds(step, L, Seq(WindowMarkers)) /\ <<>> \in Seq(WindowMarkers)
      BY <2>1 DEF Rounds
    <3>. QED
      BY <1>1, <3>1, IterationExists
  <2>3. ASSUME NEW i \in 0..L
        PROVE  f[i] = IF i = 0 THEN <<>>
                      ELSE IF of(i) # 0 THEN Append(f[i - 1], line(i)) ELSE f[i - 1]
    <3>1. CASE i # 0
      <4>1. i \in 1..L /\ i - 1 \in 0..L
        BY <1>1, <3>1
      <4>2. f[i - 1] \in Seq(WindowMarkers) /\ f[i] = step[i][f[i - 1]]
        BY <2>2, <4>1 DEF IterationOf
      <4>. HIDE DEF of
      <4>3. step[i][f[i - 1]] = IF of(i) # 0 THEN Append(f[i - 1], line(i)) ELSE f[i - 1]
        BY <4>1, <4>2 DEF step
      <4>. QED
        BY <3>1, <4>2, <4>3
    <3>2. CASE i = 0
      BY <2>2, <3>2 DEF IterationOf
    <3>. QED
      BY <3>1, <3>2
  <2>4. f = [i \in 0..L |-> f[i]]
    BY <2>2 DEF IterationOf
  <2>5. IsLoop(f)
    BY <2>3, <2>4
  <2>. QED
    BY <2>5
<1>. DEFINE lines == CHOOSE f : IsLoop(f)
<1>3. IsLoop(lines)
  BY <1>2
<1>4. CountLines = IF lines[L] = <<>> THEN <<Mark("none")>> ELSE lines[L]
  BY DEF CountLines, L, line
<1>. HIDE DEF lines
<1>5. /\ lines[0] = <<>>
      /\ \A i \in 1..L : lines[i] = IF diff[i] # 0 THEN Append(lines[i - 1], line(i))
                                   ELSE lines[i - 1]
  <2>1. \A i \in 0..L : lines[i] = IF i = 0 THEN <<>>
                                   ELSE IF of(i) # 0 THEN Append(lines[i - 1], line(i))
                                   ELSE lines[i - 1]
    BY <1>3
  <2>2. 0 \in 0..L /\ \A i \in 1..L : i \in 0..L /\ i # 0
    BY <1>1
  <2>. HIDE DEF of
  <2>. QED
    BY <1>0, <2>1, <2>2
<1>. HIDE DEF IsLoop
<1>. DEFINE S == {i \in Nat : i <= L => lines[i] \in Seq(WindowMarkers) /\ Told(lines[i], i)}
<1>6. 0 \in S
  <2>1. <<>> \in Seq(WindowMarkers) /\ Len(<<>>) = 0
    OBVIOUS
  <2>2. Told(<<>>, 0)
    BY <2>1
  <2>. HIDE DEF Told
  <2>. QED
    BY <1>5, <2>1, <2>2
<1>7. ASSUME NEW i \in Nat, i \in S PROVE i + 1 \in S
  <2>. DEFINE n == i + 1
  <2>. HIDE DEF Told
  <2>1. SUFFICES ASSUME n <= L PROVE lines[n] \in Seq(WindowMarkers) /\ Told(lines[n], n)
    OBVIOUS
  <2>. USE DEF Told
  <2>2. n \in 1..L /\ n - 1 = i /\ i <= L /\ n \in Nat /\ \A j : j \in 1..n <=> j \in 1..i \/ j = n
    BY <1>1, <2>1
  <2>. HIDE DEF n
  <2>. DEFINE x == lines[i]
              m == line(n)
              y == lines[n]
  <2>3. x \in Seq(WindowMarkers) /\ Told(x, i) /\ m \in WindowMarkers
    BY <1>1, <1>7, <2>2
  <2>4. y = IF diff[n] # 0 THEN Append(x, m) ELSE x
    BY <1>5, <2>2
  <2>. HIDE DEF x, y
  <2>5. CASE diff[n] # 0
    <3>. HIDE DEF Told, m
    <3>1. y = Append(x, m)
      BY <2>4, <2>5
    <3>2. y \in Seq(WindowMarkers) /\ Len(x) \in Nat /\ Len(y) = Len(x) + 1 /\ y[Len(x) + 1] = m
          /\ \A k \in 1..Len(x) : y[k] = x[k]
      BY <2>3, <3>1
    <3>3. ASSUME NEW k \in 1..Len(y) PROVE \E j \in 1..n : diff[j] # 0 /\ y[k] = line(j)
      <4>1. CASE k \in 1..Len(x)
        BY <2>2, <2>3, <3>2, <4>1, SMTT(30) DEF Told
      <4>2. CASE k = Len(x) + 1
        BY <2>2, <2>5, <3>2, <4>2 DEF m
      <4>. QED
        BY <3>2, <4>1, <4>2
    <3>4. ASSUME NEW j \in 1..n, diff[j] # 0 PROVE \E k \in 1..Len(y) : y[k] = line(j)
      <4>1. CASE j \in 1..i
        <5>1. PICK k \in 1..Len(x) : x[k] = line(j)
          BY <2>3, <3>4, <4>1 DEF Told
        <5>. QED
          BY <3>2, <5>1
      <4>2. CASE j = n
        BY <3>2, <4>2 DEF m
      <4>. QED
        BY <2>2, <4>1, <4>2
    <3>. QED
      BY <3>2, <3>3, <3>4 DEF Told, y
  <2>6. CASE ~(diff[n] # 0)
    <3>1. y = x
      BY <2>4, <2>6
    <3>2. \A k \in 1..Len(y) : \E j \in 1..n : diff[j] # 0 /\ y[k] = line(j)
      BY <2>2, <2>3, <3>1
    <3>3. \A j \in 1..n : diff[j] # 0 => \E k \in 1..Len(y) : y[k] = line(j)
      BY <2>2, <2>3, <2>6, <3>1
    <3>4. y \in Seq(WindowMarkers)
      BY <2>3, <3>1
    <3>. QED
      BY <3>2, <3>3, <3>4 DEF y
  <2>. QED
    BY <2>5, <2>6
<1>. HIDE DEF S
<1>8. L \in S
  BY <1>1, <1>6, <1>7, AllNats
<1>9. lines[L] \in Seq(WindowMarkers) /\ Told(lines[L], L)
  BY <1>1, <1>8 DEF S
<1>10. Mark("none") \in WindowMarkers
  <2>1. "none" \in {"", "baseline", "user", "start", "end", "none", "count"}
    OBVIOUS
  <2>2. "" \in CodesSeen \cup {""} /\ 0 \in Int
    OBVIOUS
  <2>3. Marker("none", "", 0) \in WindowMarkers
    BY <2>1, <2>2, MarkerType
  <2>. QED
    BY <2>3 DEF Mark
<1>11. ASSUME NEW x PROVE Told(x, L) => LinesTell(x, L)
  BY <1>0 DEF LinesTell, LineOf, line
<1>12. LinesTell(lines[L], L)
  BY <1>9, <1>11
<1>. HIDE DEF Told
<1>. QED
  BY <1>4, <1>9, <1>10, <1>12 DEF L

-----------------------------------------------------------------------------
(* The window.  Statistics.                                                 *)

LEMMA NewStatType ==
    ASSUME NEW code \in CodesSeen
    PROVE  /\ NewStat(code) \in Stat /\ NewStat(code).code = code
           /\ NewStat(code).count = 0 /\ NewStat(code).hashes = {}
BY DEF NewStat, Stat

\* A code that had no slot has no row.
LEMMA SlotFor ==
    ASSUME SwTypeOK, RowsHaveSlots, NEW code \in CodesSeen
    PROVE  LET w == WithSlot(code) IN
           /\ w \in Seq(Stat) /\ Len(stats) <= Len(w)
           /\ \A i \in DOMAIN stats : i \in DOMAIN w /\ w[i] = stats[i]
           /\ \A i \in DOMAIN w : i \notin DOMAIN stats =>
                 w[i] = NewStat(code) /\ Requests1(session, code) = 0
           /\ Len(w) < MaxStats => \E i \in DOMAIN w : w[i].code = code
<1>. DEFINE w == WithSlot(code)
            n == Len(stats)
            none == \A i \in DOMAIN stats : stats[i].code # code
<1>1. stats \in Seq(Stat) /\ session \in Seq(WindowRows) /\ n \in Nat /\ MaxStats \in Nat
      /\ DOMAIN stats = 1..n
  BY SessionAssumption DEF SwTypeOK
<1>2. CASE none /\ n < MaxStats
  <2>1. w = Append(stats, NewStat(code))
    BY <1>2 DEF WithSlot
  <2>2. /\ w \in Seq(Stat) /\ Len(w) = n + 1 /\ w[n + 1] = NewStat(code)
        /\ DOMAIN w = 1..n + 1 /\ \A i \in 1..n : w[i] = stats[i]
    BY <1>1, <2>1, NewStatType
  <2>3. RowsOfCode(session, code) = {}
    BY <1>2 DEF RowsHaveSlots, RowsOfCode
  <2>4. Requests1(session, code) = 0
    BY <1>1, <2>3, CountOfRows, FS_EmptySet
  <2>. HIDE DEF w, n
  <2>5. \A i \in 1..n + 1 : i \notin 1..n => i = n + 1
    BY <1>1
  <2>6. 1..n \subseteq 1..n + 1 /\ n + 1 \in 1..n + 1 /\ n <= n + 1
    BY <1>1
  <2>7. w[n + 1].code = code
    BY <2>2, NewStatType
  <2>. QED
    BY <1>1, <2>2, <2>4, <2>5, <2>6, <2>7 DEF w, n
<1>3. CASE ~(none /\ n < MaxStats)
  <2>1. w = stats
    BY <1>3 DEF WithSlot
  <2>. QED
    BY <1>1, <1>3, <2>1
<1>. QED
  BY <1>2, <1>3

LEMMA LearnIs ==
    ASSUME NEW s \in Stat, NEW e \in WindowRequest
    PROVE  LET t == Learn(s, e) IN
           /\ t \in Stat /\ t.code = s.code /\ t.count = s.count
           /\ t.actionFrom = s.actionFrom
           /\ t.hashes \subseteq s.hashes \cup {Variant(e)}
<1>. DEFINE t == Learn(s, e)
            v == Variant(e)
<1>1. v \in {Variant(f) : f \in WindowRequest}
  OBVIOUS
<1>. HIDE DEF v
<1>2. \/ t = s
      \/ t = [s EXCEPT !.hashes = s.hashes \cup {v}]
      \/ t = [s EXCEPT !.overflow = TRUE]
  BY DEF Learn, v
<1>. HIDE DEF t
<1>3. t \in Stat
  BY <1>1, <1>2 DEF Stat
<1>4. /\ t.code = s.code /\ t.count = s.count /\ t.actionFrom = s.actionFrom
      /\ t.hashes \subseteq s.hashes \cup {v}
  BY <1>2 DEF Stat
<1>. QED
  BY <1>3, <1>4 DEF t, v

LEMMA CountedIs ==
    ASSUME NEW s \in Stat, NEW e \in WindowRequest
    PROVE  LET t == Counted1(s, e) IN
           /\ t \in Stat /\ t.code = s.code /\ t.count = s.count + 1
           /\ t.actionFrom = s.actionFrom
           /\ t.hashes \subseteq s.hashes \cup (IF baseline = "active" THEN {Variant(e)} ELSE {})
           /\ baseline = "ready" /\ Variant(e) \notin s.hashes => t.novelAt = e.time
<1>. DEFINE u == [s EXCEPT !.count = s.count + 1]
            t == Counted1(s, e)
<1>1. /\ u \in Stat /\ u.code = s.code /\ u.count = s.count + 1 /\ u.hashes = s.hashes
      /\ u.actionFrom = s.actionFrom
  BY DEF Stat
<1>2. t = CASE baseline = "active" -> Learn(u, e)
            [] baseline = "ready" /\ Novel(u, e) -> [u EXCEPT !.novelAt = e.time]
            [] OTHER -> u
  BY DEF Counted1
<1>3. e.time \in Nat
  BY DEF WindowRequest
<1>. HIDE DEF u, t
<1>4. CASE baseline = "active"
  <2>1. t = Learn(u, e)
    BY <1>2, <1>4
  <2>. QED
    BY <1>1, <1>4, <2>1, LearnIs DEF t
<1>5. CASE baseline # "active" /\ baseline = "ready" /\ Novel(u, e)
  <2>1. t = [u EXCEPT !.novelAt = e.time]
    BY <1>2, <1>5
  <2>2. t \in Stat /\ t.code = u.code /\ t.count = u.count /\ t.hashes = u.hashes
        /\ t.novelAt = e.time /\ t.actionFrom = u.actionFrom
    BY <1>1, <1>3, <2>1 DEF Stat
  <2>. QED
    BY <1>1, <1>5, <2>2 DEF t
<1>6. CASE baseline # "active" /\ ~(baseline = "ready" /\ Novel(u, e))
  <2>1. t = u
    BY <1>2, <1>6
  <2>. QED
    BY <1>1, <1>6, <2>1 DEF t, Novel
<1>. QED
  BY <1>4, <1>5, <1>6

-----------------------------------------------------------------------------
(* The window.  Steps.                                                      *)

\* What is traced of a request that is handled.
LEMMA HandledIs ==
    ASSUME SwInv, HandleRecord
    PROVE  \E e \in WindowRequest :
              /\ e = Head(onTheWay) /\ TraceRow(e) \in WindowRows
              /\ TraceRow(e).kind = "trace" /\ TraceRow(e).request = e
              /\ e.code \in CodesSeen /\ e.time \in Nat \ {0}
              /\ onTheWay' \in Seq(WindowRequest)
<1>1. onTheWay \in Seq(WindowRequest) /\ onTheWay # <<>> /\ onTheWay' = Tail(onTheWay)
  BY DEF HandleRecord, SwInv, SwTypeOK
<1>. DEFINE e == Head(onTheWay)
<1>2. e \in WindowRequest /\ onTheWay' \in Seq(WindowRequest)
  BY <1>1
<1>. HIDE DEF e
<1>3. e.code \in CodesSeen /\ e.time \in Nat \ {0}
  BY <1>2 DEF WindowRequest, CodesSeen
<1>4. TraceRow(e) \in WindowRows /\ TraceRow(e).kind = "trace" /\ TraceRow(e).request = e
  BY <1>2, <1>3 DEF TraceRow, WindowRows
<1>. QED
  BY <1>2, <1>3, <1>4 DEF e

\* The row that a request adds.
LEMMA RowIsKept ==
    ASSUME SwInv, HandleRecord
    PROVE  log' \in RowLog /\ session' \in Seq(WindowRows)
           /\ Retains(log', session', Len(session'))
<1>1. PICK e \in WindowRequest : e = Head(onTheWay) /\ TraceRow(e) \in WindowRows
  BY HandledIs
<1>. DEFINE row == TraceRow(e)
            n == Len(session)
<1>2. log' = Push(log, row) /\ session' = Append(session, row) /\ row \in WindowRows
  BY <1>1 DEF HandleRecord
<1>3. log \in RowLog /\ session \in Seq(WindowRows) /\ Retains(log, session, n) /\ n \in Nat
  BY DEF SwInv, SwTypeOK
<1>. HIDE DEF row
<1>4. PICK l \in RowLog, s \in Seq(WindowRows) : l = log /\ s = session
  BY <1>3
<1>. DEFINE t == Append(s, row)
            c == Len(s)
<1>5. t \in Seq(WindowRows) /\ Len(t) = c + 1 /\ row = t[c + 1] /\ c \in Nat
      /\ \A i \in 1..c : t[i] = s[i]
  BY <1>2
<1>6. Retains(l, s, c)
  BY <1>3, <1>4
<1>. HIDE DEF t, c
<1>7. Retains(l, t, c)
  BY <1>5, <1>6, RetainsLonger DEF c
<1>8. Push(l, row) \in RowLog /\ Retains(Push(l, row), t, c + 1)
  BY <1>2, <1>5, <1>7, PushIs, PushRetains
<1>9. log' = Push(l, row) /\ session' = t
  BY <1>2, <1>4 DEF t
<1>. QED
  BY <1>5, <1>8, <1>9

\* The statistics it is counted in.
CountedFor(e) ==
    /\ stats' \in Seq(Stat) /\ Len(stats) <= Len(stats')
    /\ Len(stats') < MaxStats => \E i \in DOMAIN stats' : stats'[i].code = e.code
    /\ \A i \in DOMAIN stats : i \in DOMAIN stats' /\ stats'[i].code = stats[i].code
    /\ \A i \in DOMAIN stats' :
          \E s \in Stat :
             /\ i \in DOMAIN stats => s = stats[i]
             /\ i \notin DOMAIN stats =>
                   s = NewStat(e.code) /\ Requests1(session, e.code) = 0
             /\ stats'[i] = IF s.code = e.code THEN Counted1(s, e) ELSE s

LEMMA HandledCounts ==
    ASSUME SwInv, HandleRecord, NEW e \in WindowRequest, e = Head(onTheWay)
    PROVE  CountedFor(e)
<1>. DEFINE w == WithSlot(e.code)
<1>1. stats' = [i \in DOMAIN w |-> IF w[i].code = e.code THEN Counted1(w[i], e) ELSE w[i]]
  BY DEF HandleRecord
<1>2. e.code \in CodesSeen
  BY DEF WindowRequest, CodesSeen
<1>3. /\ w \in Seq(Stat) /\ Len(stats) <= Len(w)
      /\ \A i \in DOMAIN stats : i \in DOMAIN w /\ w[i] = stats[i]
      /\ \A i \in DOMAIN w : i \notin DOMAIN stats =>
            w[i] = NewStat(e.code) /\ Requests1(session, e.code) = 0
      /\ Len(w) < MaxStats => \E i \in DOMAIN w : w[i].code = e.code
  BY <1>2, SlotFor DEF SwInv
<1>. HIDE DEF w
<1>. DEFINE v == stats'
<1>4. \A i \in DOMAIN w : w[i] \in Stat
  BY <1>3
<1>5. ASSUME NEW i \in DOMAIN w
      PROVE  /\ v[i] \in Stat /\ v[i].code = w[i].code
             /\ v[i] = IF w[i].code = e.code THEN Counted1(w[i], e) ELSE w[i]
  <2>1. v[i] = IF w[i].code = e.code THEN Counted1(w[i], e) ELSE w[i]
    BY <1>1
  <2>2. w[i] \in Stat
    BY <1>4
  <2>3. Counted1(w[i], e) \in Stat /\ Counted1(w[i], e).code = w[i].code
    BY <2>2, CountedIs
  <2>. QED
    BY <2>1, <2>2, <2>3
<1>6. v \in Seq(Stat) /\ Len(v) = Len(w) /\ DOMAIN v = DOMAIN w
  <2>1. Len(w) \in Nat /\ DOMAIN w = 1..Len(w)
    BY <1>3
  <2>2. DOMAIN v = DOMAIN w
    BY <1>1
  <2>3. v = [i \in 1..Len(w) |-> v[i]]
    BY <1>1, <2>1
  <2>4. \A i \in 1..Len(w) : v[i] \in Stat
    BY <1>5, <2>1
  <2>. HIDE DEF v
  <2>. QED
    BY <2>1, <2>2, <2>3, <2>4
<1>7. \A i \in DOMAIN v : \E s \in Stat :
         /\ i \in DOMAIN stats => s = stats[i]
         /\ i \notin DOMAIN stats => s = NewStat(e.code) /\ Requests1(session, e.code) = 0
         /\ v[i] = IF s.code = e.code THEN Counted1(s, e) ELSE s
  <2>1. SUFFICES ASSUME NEW i \in DOMAIN w
                 PROVE  /\ w[i] \in Stat
                        /\ i \in DOMAIN stats => w[i] = stats[i]
                        /\ i \notin DOMAIN stats =>
                              w[i] = NewStat(e.code) /\ Requests1(session, e.code) = 0
                        /\ v[i] = IF w[i].code = e.code THEN Counted1(w[i], e) ELSE w[i]
    BY <1>6
  <2>. QED
    BY <1>3, <1>4, <1>5
<1>8. \A i \in DOMAIN stats : i \in DOMAIN v /\ v[i].code = stats[i].code
  BY <1>3, <1>5, <1>6
<1>9. Len(v) < MaxStats => \E i \in DOMAIN v : v[i].code = e.code
  BY <1>3, <1>5, <1>6
<1>. HIDE DEF v
<1>10. v \in Seq(Stat) /\ Len(stats) <= Len(v)
  BY <1>3, <1>6
<1>. QED
  BY <1>7, <1>8, <1>9, <1>10 DEF CountedFor, v

LEMMA HandledKeepsCounts ==
    ASSUME SwInv, HandleRecord
    PROVE  CountsExact' /\ RowsHaveSlots'
<1>1. PICK e \in WindowRequest : /\ e = Head(onTheWay) /\ TraceRow(e) \in WindowRows
                           /\ TraceRow(e).kind = "trace" /\ TraceRow(e).request = e
  BY HandledIs
<1>. DEFINE row == TraceRow(e)
            n == Len(session)
            r == session'
            v == stats'
<1>2. row \in WindowRows /\ row.kind = "trace" /\ row.request = e
  BY <1>1
<1>3. r = Append(session, row)
  BY <1>1 DEF HandleRecord
<1>. HIDE DEF row
<1>4. session \in Seq(WindowRows) /\ n \in Nat
  BY DEF SwInv, SwTypeOK
<1>5. CountedFor(e)
  BY <1>1, HandledCounts
<1>6. ASSUME NEW i \in DOMAIN v PROVE v[i].count = Requests1(r, v[i].code)
  <2>1. PICK s \in Stat : /\ i \in DOMAIN stats => s = stats[i]
                          /\ i \notin DOMAIN stats =>
                                s = NewStat(e.code) /\ Requests1(session, e.code) = 0
                          /\ v[i] = IF s.code = e.code THEN Counted1(s, e) ELSE s
    BY <1>5, <1>6 DEF CountedFor
  <2>2. s.count = Requests1(session, s.code)
    <3>1. CASE i \in DOMAIN stats
      BY <2>1, <3>1 DEF SwInv, CountsExact
    <3>2. CASE i \notin DOMAIN stats
      BY <2>1, <3>2 DEF NewStat
    <3>. QED
      BY <3>1, <3>2
  <2>3. v[i].code = s.code
        /\ v[i].count = IF s.code = e.code THEN s.count + 1 ELSE s.count
    BY <2>1, CountedIs
  <2>4. Requests1(r, s.code) = IF e.code = s.code THEN Requests1(session, s.code) + 1
                               ELSE Requests1(session, s.code)
    BY <1>2, <1>3, <1>4, RowCounts
  <2>. QED
    BY <2>2, <2>3, <2>4
<1>7. ASSUME Len(v) < MaxStats, NEW k \in DOMAIN r, r[k].kind = "trace"
      PROVE  \E i \in DOMAIN v : v[i].code = r[k].request.code
  <2>1. CASE k \in 1..n
    <3>1. k \in DOMAIN session /\ r[k] = session[k]
      BY <1>3, <1>4, <2>1
    <3>2. Len(stats) < MaxStats
      <4>1. Len(stats) \in Nat /\ Len(v) \in Nat /\ Len(stats) <= Len(v) /\ MaxStats \in Nat
        BY <1>5, SessionAssumption DEF CountedFor, SwInv, SwTypeOK
      <4>. QED
        BY <1>7, <4>1
    <3>3. PICK i \in DOMAIN stats : stats[i].code = r[k].request.code
      BY <1>7, <3>1, <3>2 DEF SwInv, RowsHaveSlots
    <3>. QED
      BY <1>5, <3>3 DEF CountedFor
  <2>2. CASE k \notin 1..n
    <3>1. k = n + 1 /\ r[k] = row
      BY <1>3, <1>4, <2>2
    <3>. QED
      BY <1>2, <1>5, <1>7, <3>1 DEF CountedFor
  <2>. QED
    BY <2>1, <2>2
<1>. QED
  BY <1>6, <1>7 DEF CountsExact, RowsHaveSlots

LEMMA HandledKeepsHashes ==
    ASSUME SwInv, HandleRecord
    PROVE  HashesLearned'
<1>1. PICK e \in WindowRequest : e = Head(onTheWay)
  BY HandledIs
<1>2. /\ baseline' = baseline /\ calm' = calm
      /\ learned' = IF baseline = "active" THEN learned \cup {e} ELSE learned
  BY <1>1 DEF HandleRecord
<1>3. CountedFor(e)
  BY <1>1, HandledCounts
<1>. DEFINE v == stats'
<1>4. ASSUME NEW i \in DOMAIN v, NEW h \in v[i].hashes
      PROVE  \E l \in learned' : l.code = v[i].code /\ Variant(l) = h
  <2>1. PICK s \in Stat : /\ i \in DOMAIN stats => s = stats[i]
                          /\ i \notin DOMAIN stats => s = NewStat(e.code)
                          /\ v[i] = IF s.code = e.code THEN Counted1(s, e) ELSE s
    BY <1>3, <1>4 DEF CountedFor
  <2>2. v[i].code = s.code
    BY <2>1, CountedIs
  <2>3. CASE h \in s.hashes
    <3>1. i \in DOMAIN stats
      BY <2>1, <2>3 DEF NewStat
    <3>2. PICK l \in learned : l.code = s.code /\ Variant(l) = h
      BY <2>1, <2>3, <3>1 DEF SwInv, HashesLearned
    <3>. QED
      BY <1>2, <2>2, <3>2
  <2>4. CASE h \notin s.hashes
    <3>1. v[i] = Counted1(s, e) /\ s.code = e.code
      BY <1>4, <2>1, <2>4
    <3>2. baseline = "active" /\ h = Variant(e)
      BY <1>4, <2>4, <3>1, CountedIs
    <3>. QED
      BY <1>2, <2>2, <3>1, <3>2
  <2>. QED
    BY <2>3, <2>4
<1>5. baseline' # "ready" => calm' = {}
  BY <1>2 DEF SwInv, HashesLearned
<1>. QED
  BY <1>4, <1>5 DEF HashesLearned

\* What the baseline hides was learned.
LEMMA HandledIsNotMissed ==
    ASSUME SwInv, HandleRecord
    PROVE  ~missed'
<1>1. PICK e \in WindowRequest : e = Head(onTheWay) /\ e.time \in Nat \ {0}
  BY HandledIs
<1>2. CountedFor(e)
  BY <1>1, HandledCounts
<1>3. SUFFICES ASSUME Noise(stats', calm, e.code), clock - e.time <= NovelHold
               PROVE  \E l \in learned : Alike(l, e)
  BY <1>1 DEF HandleRecord, SwInv
<1>. DEFINE v == stats'
<1>4. e.code \in calm /\ \E i \in DOMAIN v :
         v[i].code = e.code /\ ~(v[i].novelAt # 0 /\ clock - v[i].novelAt <= NovelHold)
  BY <1>3 DEF Noise
<1>5. baseline = "ready"
  BY <1>4 DEF SwInv, HashesLearned
<1>6. PICK i \in DOMAIN v :
         v[i].code = e.code /\ ~(v[i].novelAt # 0 /\ clock - v[i].novelAt <= NovelHold)
  BY <1>4
<1>7. PICK s \in Stat : /\ i \in DOMAIN stats => s = stats[i]
                        /\ i \notin DOMAIN stats => s = NewStat(e.code)
                        /\ v[i] = IF s.code = e.code THEN Counted1(s, e) ELSE s
  BY <1>2, <1>6 DEF CountedFor
<1>8. s.code = e.code /\ v[i] = Counted1(s, e)
  BY <1>6, <1>7, CountedIs
<1>9. v[i].novelAt # e.time
  BY <1>1, <1>3, <1>6
<1>10. Variant(e) \in s.hashes
  BY <1>5, <1>8, <1>9, CountedIs
<1>11. i \in DOMAIN stats
  BY <1>7, <1>10 DEF NewStat
<1>12. PICK l \in learned : l.code = e.code /\ Variant(l) = Variant(e)
  BY <1>7, <1>8, <1>10, <1>11 DEF SwInv, HashesLearned
<1>13. l.length = e.length /\ (l.first = e.first \/ e.code \in DallasCodes)
  BY <1>12 DEF Variant
<1>. QED
  BY <1>12, <1>13 DEF Alike

\* WindowMarkers, whatever the window makes of them, change no count.
LEMMA MarkersKept ==
    ASSUME SwInv, stats' \in Seq(Stat), Len(stats') = Len(stats),
           \A i \in DOMAIN stats :
              stats'[i].code = stats[i].code /\ stats'[i].count = stats[i].count,
           \E m \in Seq(WindowMarkers) : log' = Pushed(log, m) /\ session' = session \o m
    PROVE  /\ log' \in RowLog /\ session' \in Seq(WindowRows)
           /\ Retains(log', session', Len(session'))
           /\ CountsExact' /\ RowsHaveSlots'
<1>1. PICK m \in Seq(WindowMarkers) : log' = Pushed(log, m) /\ session' = session \o m
  OBVIOUS
<1>2. log \in RowLog /\ session \in Seq(WindowRows) /\ Retains(log, session, Len(session))
      /\ stats \in Seq(Stat)
  BY DEF SwInv, SwTypeOK
<1>3. PICK l \in RowLog, s \in Seq(WindowRows) : l = log /\ s = session
  BY <1>2
<1>. DEFINE t == s \o m
<1>4. m \in Seq(WindowRows) /\ t \in Seq(WindowRows) /\ \A code : Requests1(t, code) = Requests1(s, code)
  BY MarkersDoNotCount
<1>5. Pushed(l, m) \in RowLog /\ Retains(Pushed(l, m), t, Len(t))
  BY <1>2, <1>3, <1>4, PushedRetains
<1>6. log' = Pushed(l, m) /\ session' = t
  BY <1>1, <1>3
<1>7. log' \in RowLog /\ session' \in Seq(WindowRows)
      /\ Retains(log', session', Len(session'))
  BY <1>4, <1>5, <1>6
<1>8. DOMAIN stats' = DOMAIN stats
  BY <1>2
<1>. DEFINE v == stats'
<1>9. ASSUME NEW i \in DOMAIN v PROVE v[i].count = Requests1(t, v[i].code)
  <2>1. v[i].code = stats[i].code /\ v[i].count = stats[i].count /\ i \in DOMAIN stats
    BY <1>8
  <2>2. stats[i].count = Requests1(s, stats[i].code)
    BY <1>3, <2>1 DEF SwInv, CountsExact
  <2>. QED
    BY <1>4, <2>1, <2>2
<1>10. CountsExact'
  BY <1>6, <1>9 DEF CountsExact
<1>11. ASSUME Len(v) < MaxStats, NEW k \in DOMAIN t, t[k].kind = "trace"
       PROVE  \E i \in DOMAIN v : v[i].code = t[k].request.code
  <2>1. k \in DOMAIN s /\ t[k] = s[k]
    <3>1. CASE k \in 1..Len(s)
      BY <3>1
    <3>2. CASE k \notin 1..Len(s)
      <4>. DEFINE j == k - Len(s)
      <4>1. j \in 1..Len(m) /\ t[k] = m[j]
        BY <3>2
      <4>. HIDE DEF j, t
      <4>2. t[k] \in WindowMarkers
        BY <4>1
      <4>. QED
        BY <1>11, <4>2 DEF WindowMarkers
    <3>. QED
      BY <3>1, <3>2
  <2>2. PICK i \in DOMAIN stats : stats[i].code = s[k].request.code
    BY <1>3, <1>11, <2>1 DEF SwInv, RowsHaveSlots
  <2>. QED
    BY <1>8, <2>1, <2>2
<1>12. RowsHaveSlots'
  BY <1>6, <1>11 DEF RowsHaveSlots
<1>. QED
  BY <1>7, <1>10, <1>12

LEMMA SessionStarts ==
    ASSUME SwInit
    PROVE  SwInv
<1>1. MaxEvents \in Nat \ {0} /\ Len(Described) \in Nat /\ DOMAIN Described = 1..Len(Described)
  BY SessionAssumption
<1>2. stats \in Seq(Stat) /\ \A i \in DOMAIN stats : stats[i].count = 0 /\ stats[i].hashes = {}
  <2>1. \A i \in DOMAIN Described : Described[i].code \in CodesSeen
    BY DEF CodesSeen
  <2>2. stats = [i \in 1..Len(Described) |-> NewStat(Described[i].code)]
    BY <1>1 DEF SwInit
  <2>3. ASSUME NEW i \in 1..Len(Described)
        PROVE  LET st == NewStat(Described[i].code) IN
               st \in Stat /\ st.count = 0 /\ st.hashes = {}
    <3>1. Described[i].code \in CodesSeen
      BY <1>1, <2>1
    <3>. QED
      BY <3>1, NewStatType
  <2>4. stats \in Seq(Stat) /\ DOMAIN stats = 1..Len(Described)
    <3>1. \A i \in 1..Len(Described) : NewStat(Described[i].code) \in Stat
      BY <2>3
    <3>. QED
      BY <1>1, <2>2, <3>1
  <2>. QED
    BY <2>2, <2>3, <2>4
<1>3. /\ log.count = 0 /\ log \in RowLog
  <2>1. clock \in Nat
    BY DEF SwInit
  <2>2. "" \in {"", "baseline", "user", "start", "end", "none", "count"}
        /\ "" \in CodesSeen \cup {""} /\ 0 \in Int
    OBVIOUS
  <2>3. Mark("") \in WindowRows
    BY <2>1, <2>2, MarkerType DEF Mark, WindowRows
  <2>. HIDE DEF Mark
  <2>. DEFINE r == [i \in 0..MaxEvents - 1 |-> Mark("")]
  <2>4. r \in [0..MaxEvents - 1 -> WindowRows] /\ 0 \in 0..MaxEvents - 1 /\ 0 \in 0..MaxEvents
    <3>1. 0 \in 0..MaxEvents - 1 /\ 0 \in 0..MaxEvents
      BY <1>1
    <3>2. r \in [0..MaxEvents - 1 -> WindowRows]
      BY <2>3
    <3>. QED
      BY <3>1, <3>2
  <2>5. EmptyLog = [rows |-> r, head |-> 0, count |-> 0]
    BY DEF EmptyLog
  <2>. HIDE DEF r
  <2>6. EmptyLog \in RowLog /\ EmptyLog.count = 0
    BY <2>4, <2>5 DEF RowLog
  <2>. QED
    BY <2>6 DEF SwInit
<1>4. session = <<>> /\ session \in Seq(WindowRows) /\ Len(session) = 0
  BY DEF SwInit
<1>5. SwTypeOK
  BY <1>2, <1>3, <1>4 DEF SwInit, SwTypeOK
<1>6. Retains(log, session, Len(session))
  BY <1>1, <1>3, <1>4 DEF Retains
<1>7. CountsExact /\ RowsHaveSlots
  <2>1. \A code : Requests1(session, code) = 0
    <3>1. \A code : RowsOfCode(session, code) = {}
      BY <1>4 DEF RowsOfCode
    <3>. QED
      BY <1>4, <3>1, CountOfRows, FS_EmptySet
  <2>. QED
    BY <1>2, <1>4, <2>1 DEF CountsExact, RowsHaveSlots
<1>8. HashesLearned /\ ~missed
  BY <1>2 DEF SwInit, HashesLearned
<1>. QED
  BY <1>5, <1>6, <1>7, <1>8 DEF SwInv

\* Statistics that change in what is not counted.
LEMMA StatsKept ==
    ASSUME NEW st \in Seq(Stat), NEW w, \A i \in DOMAIN st : w[i] \in Stat,
           w = [i \in DOMAIN st |-> w[i]]
    PROVE  /\ w \in Seq(Stat) /\ Len(w) = Len(st) /\ DOMAIN w = DOMAIN st
<1>1. Len(st) \in Nat /\ DOMAIN st = 1..Len(st)
  OBVIOUS
<1>. QED
  BY <1>1

LEMMA HashesStay ==
    ASSUME HashesLearned, DOMAIN stats' = DOMAIN stats,
           \A i \in DOMAIN stats :
              stats'[i].code = stats[i].code /\ stats'[i].hashes = stats[i].hashes,
           learned' = learned, baseline' # "ready" => calm' = {}
    PROVE  HashesLearned'
<1>. DEFINE v == stats'
<1>1. ASSUME NEW i \in DOMAIN v, NEW h \in v[i].hashes
      PROVE  \E l \in learned' : l.code = v[i].code /\ Variant(l) = h
  <2>1. i \in DOMAIN stats /\ v[i].code = stats[i].code /\ h \in stats[i].hashes
    OBVIOUS
  <2>2. PICK l \in learned : l.code = stats[i].code /\ Variant(l) = h
    BY <2>1 DEF HashesLearned
  <2>. QED
    BY <2>1, <2>2
<1>. QED
  BY <1>1 DEF HashesLearned

LEMMA SessionSteps ==
    ASSUME SwInv, [SwNext]_windowVars
    PROVE  SwInv'
<1>1. /\ SwTypeOK /\ Retains(log, session, Len(session)) /\ CountsExact /\ RowsHaveSlots
      /\ HashesLearned /\ ~missed
      /\ clock \in Nat \ {0} /\ onTheWay \in Seq(WindowRequest) /\ traceSeq \in Nat /\ total \in Nat
      /\ stats \in Seq(Stat) /\ session \in Seq(WindowRows) /\ log \in RowLog
      /\ baseline \in {"none", "active", "ready"} /\ learned \subseteq WindowRequest
  BY DEF SwInv, SwTypeOK
<1>2. \A text \in {"baseline", "user", "start", "end"} : <<Mark(text)>> \in Seq(WindowMarkers)
  <2>1. \A text \in {"baseline", "user", "start", "end"} :
           text \in {"", "baseline", "user", "start", "end", "none", "count"}
    OBVIOUS
  <2>2. "" \in CodesSeen \cup {""} /\ 0 \in Int
    OBVIOUS
  <2>3. \A text \in {"baseline", "user", "start", "end"} : Mark(text) \in WindowMarkers
    BY <1>1, <2>1, <2>2, MarkerType DEF Mark
  <2>. QED
    BY <2>3
<1>3. ASSUME UNCHANGED <<stats, log, session, learnVars>>,
             clock' \in Nat \ {0}, onTheWay' \in Seq(WindowRequest), traceSeq' \in Nat,
             total' \in Nat
      PROVE  SwInv'
  BY <1>1, <1>3 DEF SwInv, SwTypeOK, Retains, PlaceOf, CountsExact, RowsHaveSlots, HashesLearned,
                    learnVars
<1>4. ASSUME /\ log' \in RowLog /\ session' \in Seq(WindowRows)
             /\ Retains(log', session', Len(session'))
             /\ CountsExact' /\ RowsHaveSlots',
             stats' \in Seq(Stat), UNCHANGED <<clock, driverVars, missed>>,
             HashesLearned', baseline' \in {"none", "active", "ready"},
             learned' \subseteq WindowRequest
      PROVE  SwInv'
  BY <1>1, <1>4 DEF SwInv, SwTypeOK, driverVars
<1>5. CASE TimePasses
  BY <1>1, <1>3, <1>5 DEF TimePasses, driverVars
<1>6. CASE TraceRequest
  <2>1. PICK e \in Traced :
           onTheWay' = Append(onTheWay, [code |-> e.code, length |-> e.length,
              first |-> e.first, ok |-> e.ok, id |-> total + 1, seq |-> traceSeq + 1,
              time |-> clock])
    BY <1>6 DEF TraceRequest
  <2>. DEFINE r == [code |-> e.code, length |-> e.length, first |-> e.first, ok |-> e.ok,
                    id |-> total + 1, seq |-> traceSeq + 1, time |-> clock]
  <2>2. r \in WindowRequest
    BY <1>1 DEF WindowRequest
  <2>. HIDE DEF r
  <2>3. onTheWay' \in Seq(WindowRequest)
    <3>1. onTheWay' = Append(onTheWay, r)
      BY <2>1 DEF r
    <3>. QED
      BY <1>1, <2>2, <3>1
  <2>. QED
    BY <1>1, <1>3, <1>6, <2>3 DEF TraceRequest
<1>7. CASE RestartTrace
  BY <1>1, <1>3, <1>7 DEF RestartTrace
<1>8. CASE HandleRecord
  <2>1. log' \in RowLog /\ session' \in Seq(WindowRows)
        /\ Retains(log', session', Len(session'))
    BY <1>8, RowIsKept
  <2>2. CountsExact' /\ RowsHaveSlots' /\ HashesLearned' /\ ~missed'
    BY <1>8, HandledKeepsCounts, HandledKeepsHashes, HandledIsNotMissed
  <2>3. PICK e \in WindowRequest : e = Head(onTheWay) /\ onTheWay' \in Seq(WindowRequest)
    BY <1>8, HandledIs
  <2>4. stats' \in Seq(Stat)
    BY <1>8, <2>3, HandledCounts DEF CountedFor
  <2>5. learned' \subseteq WindowRequest
    BY <1>1, <1>8, <2>3 DEF HandleRecord
  <2>6. UNCHANGED <<clock, traceSeq, total, baseline>>
    BY <1>8 DEF HandleRecord
  <2>7. SwTypeOK'
    BY <1>1, <2>1, <2>3, <2>4, <2>5, <2>6 DEF SwTypeOK
  <2>. QED
    BY <2>1, <2>2, <2>7 DEF SwInv
<1>9. CASE UpdateRates
  <2>1. /\ baseline = "ready" /\ UNCHANGED <<clock, driverVars, stats, log, session, baseline,
                                             learned, missed>>
    BY <1>9 DEF UpdateRates
  <2>2. HashesLearned'
    BY <1>1, <2>1 DEF HashesLearned
  <2>. QED
    BY <1>1, <2>1, <2>2 DEF SwInv, SwTypeOK, Retains, PlaceOf, CountsExact, RowsHaveSlots, driverVars
<1>10. CASE FinishBaseline
  <2>. DEFINE v == stats'
  <2>1. /\ v = [i \in DOMAIN stats |->
                  [stats[i] EXCEPT !.rated = stats[i].count > stats[i].learnFrom]]
        /\ log' = Pushed(log, <<Mark("baseline")>>) /\ session' = session \o <<Mark("baseline")>>
        /\ baseline' = "ready" /\ UNCHANGED <<clock, driverVars, learned, missed>>
    BY <1>10 DEF FinishBaseline, PushAndRebuild
  <2>2. ASSUME NEW i \in DOMAIN stats
        PROVE  /\ v[i] \in Stat /\ v[i].hashes = stats[i].hashes
               /\ v[i].code = stats[i].code /\ v[i].count = stats[i].count
    <3>1. v[i] = [stats[i] EXCEPT !.rated = stats[i].count > stats[i].learnFrom]
      BY <2>1
    <3>2. stats[i] \in Stat /\ (stats[i].count > stats[i].learnFrom) \in BOOLEAN
      BY <1>1
    <3>. QED
      BY <3>1, <3>2 DEF Stat
  <2>3. v = [i \in DOMAIN stats |-> v[i]]
    BY <2>1
  <2>4. PICK st \in Seq(Stat) : st = stats
    BY <1>1
  <2>5. PICK w : w = v
    OBVIOUS
  <2>6. v \in Seq(Stat) /\ Len(v) = Len(stats) /\ DOMAIN v = DOMAIN stats
    BY <2>2, <2>3, <2>4, <2>5, StatsKept
  <2>7. /\ log' \in RowLog /\ session' \in Seq(WindowRows)
        /\ Retains(log', session', Len(session'))
        /\ CountsExact' /\ RowsHaveSlots'
    BY <1>2, <2>1, <2>2, <2>6, MarkersKept
  <2>8. HashesLearned'
    BY <1>1, <2>1, <2>2, <2>6, HashesStay
  <2>. QED
    BY <1>1, <1>4, <2>1, <2>6, <2>7, <2>8
<1>11. CASE BeginBaseline
  <2>. DEFINE v == stats'
  <2>1. /\ v = [i \in DOMAIN stats |->
                  [stats[i] EXCEPT !.learnFrom = stats[i].count, !.rated = FALSE,
                                   !.hashes = {}, !.overflow = FALSE, !.novelAt = 0]]
        /\ log' = Pushed(log, <<Mark("baseline")>>) /\ session' = session \o <<Mark("baseline")>>
        /\ baseline' = "active" /\ calm' = {} /\ learned' = {}
        /\ UNCHANGED <<clock, driverVars, missed>>
    BY <1>11 DEF BeginBaseline, PushAndRebuild
  <2>2. ASSUME NEW i \in DOMAIN stats
        PROVE  /\ v[i] \in Stat /\ v[i].hashes = {}
               /\ v[i].code = stats[i].code /\ v[i].count = stats[i].count
    <3>1. v[i] = [stats[i] EXCEPT !.learnFrom = stats[i].count, !.rated = FALSE,
                                  !.hashes = {}, !.overflow = FALSE, !.novelAt = 0]
      BY <2>1
    <3>2. PICK s \in Stat : s = stats[i]
      BY <1>1
    <3>. DEFINE u == [s EXCEPT !.learnFrom = s.count, !.rated = FALSE, !.hashes = {},
                               !.overflow = FALSE, !.novelAt = 0]
    <3>3. u \in Stat
      BY DEF Stat
    <3>4. u.hashes = {} /\ u.code = s.code /\ u.count = s.count
      BY DEF Stat
    <3>. QED
      BY <3>1, <3>2, <3>3, <3>4
  <2>3. v = [i \in DOMAIN stats |-> v[i]]
    BY <2>1
  <2>4. PICK st \in Seq(Stat) : st = stats
    BY <1>1
  <2>5. PICK w : w = v
    OBVIOUS
  <2>6. v \in Seq(Stat) /\ Len(v) = Len(stats) /\ DOMAIN v = DOMAIN stats
    BY <2>2, <2>3, <2>4, <2>5, StatsKept
  <2>7. /\ log' \in RowLog /\ session' \in Seq(WindowRows)
        /\ Retains(log', session', Len(session'))
        /\ CountsExact' /\ RowsHaveSlots'
    BY <1>2, <2>1, <2>2, <2>6, MarkersKept
  <2>8. HashesLearned'
    BY <1>1, <2>1, <2>2, <2>6 DEF HashesLearned
  <2>. QED
    BY <1>1, <1>4, <2>1, <2>6, <2>7, <2>8
<1>12. CASE \E b \in Boxes : TickBox(b)
  BY <1>1, <1>3, <1>12 DEF TickBox, driverVars
<1>13. ASSUME \E m \in Seq(WindowMarkers) : log' = Pushed(log, m) /\ session' = session \o m,
              UNCHANGED <<clock, driverVars, stats, learnVars>>
       PROVE  SwInv'
  <2>1. /\ log' \in RowLog /\ session' \in Seq(WindowRows)
        /\ Retains(log', session', Len(session'))
        /\ CountsExact' /\ RowsHaveSlots'
    BY <1>1, <1>13, MarkersKept
  <2>2. HashesLearned'
    BY <1>1, <1>13 DEF HashesLearned, learnVars
  <2>. QED
    BY <1>1, <1>4, <1>13, <2>1, <2>2 DEF learnVars
<1>14. CASE AddMarker
  BY <1>2, <1>13, <1>14 DEF AddMarker, PushAndRebuild
<1>15. CASE StartActionNamed
  <2>. DEFINE v == stats'
  <2>1. /\ v = [i \in DOMAIN stats |-> [stats[i] EXCEPT !.actionFrom = stats[i].count]]
        /\ log' = Pushed(log, <<Mark("start")>>) /\ session' = session \o <<Mark("start")>>
        /\ UNCHANGED <<clock, driverVars, learnVars>>
    BY <1>15 DEF StartActionNamed, PushAndRebuild
  <2>2. ASSUME NEW i \in DOMAIN stats
        PROVE  /\ v[i] \in Stat /\ v[i].hashes = stats[i].hashes
               /\ v[i].code = stats[i].code /\ v[i].count = stats[i].count
    <3>1. v[i] = [stats[i] EXCEPT !.actionFrom = stats[i].count]
      BY <2>1
    <3>2. stats[i] \in Stat
      BY <1>1
    <3>. QED
      BY <3>1, <3>2 DEF Stat
  <2>3. v = [i \in DOMAIN stats |-> v[i]]
    BY <2>1
  <2>4. PICK st \in Seq(Stat) : st = stats
    BY <1>1
  <2>5. PICK w : w = v
    OBVIOUS
  <2>6. v \in Seq(Stat) /\ Len(v) = Len(stats) /\ DOMAIN v = DOMAIN stats
    BY <2>2, <2>3, <2>4, <2>5, StatsKept
  <2>7. /\ log' \in RowLog /\ session' \in Seq(WindowRows)
        /\ Retains(log', session', Len(session'))
        /\ CountsExact' /\ RowsHaveSlots'
    BY <1>2, <2>1, <2>2, <2>6, MarkersKept
  <2>8. HashesLearned'
    <3>1. learned' = learned /\ (baseline' # "ready" => calm' = {})
      BY <1>1, <2>1 DEF HashesLearned, learnVars
    <3>. QED
      BY <1>1, <2>2, <2>6, <3>1, HashesStay
  <2>. QED
    BY <1>1, <1>4, <2>1, <2>6, <2>7, <2>8 DEF learnVars
<1>16. CASE EndActionNow
  <2>1. CountLines \in Seq(WindowMarkers)
    BY <1>1, LinesAreTold
  <2>2. <<Mark("end")>> \o CountLines \in Seq(WindowMarkers)
    BY <1>2, <2>1
  <2>. QED
    BY <1>13, <1>16, <2>2 DEF EndActionNow, PushAndRebuild
<1>17. CASE ClearSessionRows
  <2>. DEFINE v == stats'
  <2>1. /\ v = [i \in DOMAIN stats |-> NewStat(stats[i].code)]
        /\ log' = [log EXCEPT !.head = 0, !.count = 0] /\ session' = <<>>
        /\ baseline' = "none" /\ calm' = {} /\ learned' = {}
        /\ UNCHANGED <<clock, driverVars, missed>>
    BY <1>17 DEF ClearSessionRows
  <2>2. \A i \in DOMAIN stats : NewStat(stats[i].code) \in Stat
    <3>1. ASSUME NEW i \in DOMAIN stats PROVE stats[i].code \in CodesSeen
      <4>1. stats[i] \in Stat
        BY <1>1
      <4>. QED
        BY <4>1 DEF Stat
    <3>. QED
      BY <3>1, NewStatType
  <2>3. v \in Seq(Stat) /\ DOMAIN v = DOMAIN stats
    <3>1. Len(stats) \in Nat /\ DOMAIN stats = 1..Len(stats)
      BY <1>1
    <3>. QED
      BY <2>1, <2>2, <3>1
  <2>4. \A i \in DOMAIN v : v[i].count = 0 /\ v[i].hashes = {}
    BY <2>1 DEF NewStat
  <2>5. log' \in RowLog /\ log'.count = 0 /\ MaxEvents \in Nat \ {0}
    <3>1. MaxEvents \in Nat \ {0}
      BY SessionAssumption
    <3>2. 0 \in 0..MaxEvents - 1 /\ 0 \in 0..MaxEvents
      BY <3>1
    <3>3. [log EXCEPT !.head = 0, !.count = 0] \in RowLog
      BY <1>1, <3>2 DEF RowLog
    <3>4. [log EXCEPT !.head = 0, !.count = 0].count = 0
      BY <1>1 DEF RowLog
    <3>. QED
      BY <2>1, <3>1, <3>3, <3>4
  <2>6. session' \in Seq(WindowRows) /\ Len(session') = 0 /\ DOMAIN session' = {}
    BY <2>1
  <2>7. Retains(log', session', Len(session'))
    BY <2>5, <2>6 DEF Retains
  <2>8. CountsExact' /\ RowsHaveSlots'
    <3>1. \A code : Requests1(session', code) = 0
      <4>1. PICK s \in Seq(WindowRows) : s = session'
        BY <2>6
      <4>2. \A code : RowsOfCode(s, code) = {}
        BY <2>6, <4>1 DEF RowsOfCode
      <4>3. \A code : Requests1(s, code) = 0
        BY <4>2, CountOfRows, FS_EmptySet
      <4>. QED
        BY <4>1, <4>3
    <3>. QED
      BY <2>4, <2>6, <3>1 DEF CountsExact, RowsHaveSlots
  <2>9. HashesLearned'
    BY <2>1, <2>4 DEF HashesLearned
  <2>. QED
    BY <1>1, <1>4, <2>1, <2>3, <2>5, <2>6, <2>7, <2>8, <2>9
<1>18. CASE UNCHANGED windowVars
  BY <1>1, <1>3, <1>18 DEF windowVars, driverVars
<1>. QED
  BY <1>5, <1>6, <1>7, <1>8, <1>9, <1>10, <1>11, <1>12, <1>14, <1>15, <1>16, <1>17, <1>18
  DEF SwNext

\* The rows of the ring are the last of the session.
LEMMA RowsOfTheRing ==
    ASSUME SwTypeOK, Retains(log, session, Len(session))
    PROVE  RowsRetained
<1>. DEFINE n == Len(session)
            c == log.count
            s == LastOf(session, MaxEvents)
<1>1. /\ n \in Nat /\ MaxEvents \in Nat \ {0} /\ c \in 0..MaxEvents
      /\ session \in Seq(WindowRows) /\ DOMAIN session = 1..n
      /\ c = IF n < MaxEvents THEN n ELSE MaxEvents
  BY SessionAssumption DEF SwTypeOK, RowLog, Retains
<1>2. \A k \in 1..c : log.rows[PlaceOf(log, k)] = session[(n - c) + k]
  BY DEF Retains
<1>3. Retained(log) = [k \in 1..c |-> log.rows[PlaceOf(log, k)]]
  BY DEF Retained, EventByOrdinal, PlaceOf
<1>. HIDE DEF n, c, s
<1>4. s = IF n > MaxEvents THEN SubSeq(session, n - MaxEvents + 1, n) ELSE session
  BY DEF LastOf, s, n
<1>5. s = [k \in 1..c |-> session[(n - c) + k]]
  <2>1. CASE n > MaxEvents
    <3>1. s = SubSeq(session, n - MaxEvents + 1, n) /\ c = MaxEvents
      BY <1>1, <1>4, <2>1
    <3>. DEFINE m == n - MaxEvents + 1
    <3>2. m \in 1..n /\ (n - m) + 1 = c /\ (m - 1) = n - c
      BY <1>1, <2>1, <3>1
    <3>3. s = SubSeq(session, m, n)
      BY <3>1
    <3>. HIDE DEF m
    <3>4. Len(s) = (n - m) + 1 /\ s \in Seq(WindowRows)
      BY <1>1, <3>2, <3>3
    <3>5. ASSUME NEW k \in 1..c PROVE s[k] = session[(n - c) + k]
      <4>1. k \in 1..(n - m) + 1 /\ (m + k) - 1 = (n - c) + k
        BY <1>1, <3>2
      <4>2. s[k] = session[(m + k) - 1]
        BY <1>1, <3>2, <3>3, <4>1
      <4>. QED
        BY <4>1, <4>2
    <3>6. Len(s) = c /\ s \in Seq(WindowRows)
      BY <3>2, <3>4
    <3>. QED
      BY <1>1, <3>5, <3>6
  <2>2. CASE ~(n > MaxEvents)
    <3>1. s = session /\ c = n
      BY <1>1, <1>4, <2>2
    <3>2. \A k \in 1..c : (n - c) + k = k
      BY <1>1, <3>1
    <3>. QED
      BY <1>1, <3>1, <3>2
  <2>. QED
    BY <2>1, <2>2
<1>6. Retained(log) = s
  BY <1>2, <1>3, <1>5
<1>. QED
  BY <1>6 DEF RowsRetained, s

\* What the window keeps of a session is what was traced: its rows are the last of the
\* session in their order, its counts are those of the requests, and a request unlike any
\* the baseline had is not hidden with it.
THEOREM SessionIsKept == SwSpec => []SessionKept
<1>1. SwInit => SwInv
  BY SessionStarts
<1>2. SwInv /\ [SwNext]_windowVars => SwInv'
  BY SessionSteps
<1>3. SwInv => SessionKept
  BY RowsOfTheRing DEF SwInv, SessionKept
<1>. QED
  BY <1>1, <1>2, <1>3, PTL DEF SwSpec

-----------------------------------------------------------------------------
(* The window.  The rows of a set, in their order.                          *)

AmongSteps(f, s, T) ==
    /\ f[0] = <<>>
    /\ \A i \in 1..Len(s) : f[i] = IF s[i] \in T THEN Append(f[i - 1], s[i]) ELSE f[i - 1]

LEMMA AmongHas ==
    ASSUME NEW R, NEW s \in Seq(R), NEW T
    PROVE  \E f : AmongSteps(f, s, T) /\ Among(s, T) = f[Len(s)]
<1>. DEFINE n == Len(s)
            IsLoop(f) == f = [i \in 0..n |->
                                IF i = 0 THEN <<>>
                                ELSE IF s[i] \in T THEN Append(f[i - 1], s[i])
                                ELSE f[i - 1]]
<1>1. n \in Nat /\ \A i \in 1..n : s[i] \in R
  OBVIOUS
<1>2. Among(s, T) = (CHOOSE f : IsLoop(f))[n]
  BY DEF Among
<1>. HIDE DEF n
<1>3. \E f : IsLoop(f)
  <2>. DEFINE step == [i \in 1..n |-> [x \in Seq(R) |-> IF s[i] \in T THEN Append(x, s[i]) ELSE x]]
  <2>1. \A i \in 1..n : step[i] \in [Seq(R) -> Seq(R)]
    <3>1. ASSUME NEW i \in 1..n, NEW x \in Seq(R)
          PROVE  (IF s[i] \in T THEN Append(x, s[i]) ELSE x) \in Seq(R)
      BY <1>1
    <3>. QED
      BY <3>1
  <2>. HIDE DEF step
  <2>2. PICK f : IterationOf(f, <<>>, step, n, Seq(R))
    <3>1. Rounds(step, n, Seq(R)) /\ <<>> \in Seq(R)
      BY <2>1 DEF Rounds
    <3>. QED
      BY <1>1, <3>1, IterationExists
  <2>3. ASSUME NEW i \in 0..n
        PROVE  f[i] = IF i = 0 THEN <<>>
                      ELSE IF s[i] \in T THEN Append(f[i - 1], s[i]) ELSE f[i - 1]
    <3>1. CASE i # 0
      <4>1. i \in 1..n /\ i - 1 \in 0..n
        BY <1>1, <3>1
      <4>2. f[i - 1] \in Seq(R) /\ f[i] = step[i][f[i - 1]]
        BY <2>2, <4>1 DEF IterationOf
      <4>3. step[i][f[i - 1]] = IF s[i] \in T THEN Append(f[i - 1], s[i]) ELSE f[i - 1]
        BY <4>1, <4>2 DEF step
      <4>. QED
        BY <3>1, <4>2, <4>3
    <3>2. CASE i = 0
      BY <2>2, <3>2 DEF IterationOf
    <3>. QED
      BY <3>1, <3>2
  <2>4. f = [i \in 0..n |-> f[i]]
    BY <2>2 DEF IterationOf
  <2>5. IsLoop(f)
    BY <2>3, <2>4
  <2>. QED
    BY <2>5
<1>. DEFINE g == CHOOSE f : IsLoop(f)
<1>4. IsLoop(g)
  BY <1>3
<1>. HIDE DEF g
<1>5. \A i \in 0..n : g[i] = IF i = 0 THEN <<>>
                             ELSE IF s[i] \in T THEN Append(g[i - 1], s[i]) ELSE g[i - 1]
  BY <1>4
<1>6. 0 \in 0..n /\ \A i \in 1..n : i \in 0..n /\ i # 0
  BY <1>1
<1>7. AmongSteps(g, s, T)
  BY <1>5, <1>6 DEF AmongSteps, n
<1>8. Among(s, T) = g[n]
  BY <1>2 DEF g
<1>. QED
  BY <1>7, <1>8 DEF n

ChosenAlike(s, T, t, U, k) == \A i \in 1..k : s[i] = t[i] /\ (s[i] \in T <=> t[i] \in U)

\* As long as the rows and their choice agree, so does what is chosen.
LEMMA AmongAgrees ==
    ASSUME NEW R, NEW s \in Seq(R), NEW t \in Seq(R), NEW T, NEW U,
           NEW k \in Nat, k <= Len(s), k <= Len(t),
           ChosenAlike(s, T, t, U, k), NEW f, AmongSteps(f, s, T), NEW g, AmongSteps(g, t, U)
    PROVE  f[k] = g[k]
<1>. DEFINE S == {i \in Nat : i <= k => f[i] = g[i]}
<1>1. 0 \in S
  BY DEF AmongSteps
<1>2. ASSUME NEW i \in Nat, i \in S PROVE i + 1 \in S
  <2>1. SUFFICES ASSUME i + 1 <= k PROVE f[i + 1] = g[i + 1]
    OBVIOUS
  <2>. DEFINE j == i + 1
  <2>2. j \in 1..k /\ j \in 1..Len(s) /\ j \in 1..Len(t) /\ j - 1 = i /\ i <= k
    BY <2>1
  <2>3. f[i] = g[i]
    BY <1>2, <2>2
  <2>. HIDE DEF j
  <2>4. /\ f[j] = IF s[j] \in T THEN Append(f[i], s[j]) ELSE f[i]
        /\ g[j] = IF t[j] \in U THEN Append(g[i], t[j]) ELSE g[i]
    BY <2>2 DEF AmongSteps
  <2>5. f[j] = g[j]
    BY <2>2, <2>3, <2>4 DEF ChosenAlike
  <2>. QED
    BY <2>5 DEF j
<1>. HIDE DEF S
<1>3. k \in S
  BY <1>1, <1>2, AllNats
<1>. QED
  BY <1>3 DEF S

LEMMA AmongEmpty ==
    ASSUME NEW R, NEW s \in Seq(R), NEW T
    PROVE  Len(s) = 0 => Among(s, T) = <<>>
<1>1. PICK f : AmongSteps(f, s, T) /\ Among(s, T) = f[Len(s)]
  BY AmongHas
<1>. QED
  BY <1>1 DEF AmongSteps

LEMMA AmongAppend ==
    ASSUME NEW R, NEW s \in Seq(R), NEW x \in R, NEW T
    PROVE  Among(Append(s, x), T) = IF x \in T THEN Append(Among(s, T), x) ELSE Among(s, T)
<1>. DEFINE t == Append(s, x)
            n == Len(s)
<1>1. t \in Seq(R) /\ Len(t) = n + 1 /\ n \in Nat /\ t[n + 1] = x /\ \A i \in 1..n : s[i] = t[i]
  OBVIOUS
<1>2. PICK f : AmongSteps(f, s, T) /\ Among(s, T) = f[n]
  BY AmongHas
<1>. HIDE DEF t
<1>3. PICK g : AmongSteps(g, t, T) /\ Among(t, T) = g[n + 1]
  BY <1>1, AmongHas
<1>4. n <= Len(s) /\ n <= Len(t) /\ ChosenAlike(s, T, t, T, n)
  BY <1>1 DEF ChosenAlike
<1>5. f[n] = g[n]
  BY <1>1, <1>2, <1>3, <1>4, AmongAgrees
<1>6. g[n + 1] = IF t[n + 1] \in T THEN Append(g[n], t[n + 1]) ELSE g[n]
  <2>1. n + 1 \in 1..Len(t) /\ (n + 1) - 1 = n
    BY <1>1
  <2>. QED
    BY <1>3, <2>1 DEF AmongSteps
<1>. QED
  BY <1>1, <1>2, <1>3, <1>5, <1>6 DEF t

\* Sets that agree about the rows choose the same.
LEMMA AmongSame ==
    ASSUME NEW R, NEW s \in Seq(R), NEW T, NEW U, \A i \in 1..Len(s) : s[i] \in T <=> s[i] \in U
    PROVE  Among(s, T) = Among(s, U)
<1>1. PICK f : AmongSteps(f, s, T) /\ Among(s, T) = f[Len(s)]
  BY AmongHas
<1>2. PICK g : AmongSteps(g, s, U) /\ Among(s, U) = g[Len(s)]
  BY AmongHas
<1>3. f[Len(s)] = g[Len(s)]
  <2>1. Len(s) \in Nat /\ Len(s) <= Len(s) /\ ChosenAlike(s, T, s, U, Len(s))
    BY DEF ChosenAlike
  <2>. QED
    BY <1>1, <1>2, <2>1, AmongAgrees
<1>. QED
  BY <1>1, <1>2, <1>3

\* What holds of the empty sequence, and of a sequence with one element more, holds of all.
LEMMA AllSequences ==
    ASSUME NEW R, NEW P, <<>> \in P,
           \A s \in Seq(R) : \A x \in R : s \in P => Append(s, x) \in P
    PROVE  Seq(R) \subseteq P
<1>. DEFINE S == {n \in Nat : \A s \in Seq(R) : Len(s) = n => s \in P}
<1>1. 0 \in S
  <2>1. \A s \in Seq(R) : Len(s) = 0 => s = <<>>
    OBVIOUS
  <2>. QED
    BY <2>1
<1>2. ASSUME NEW n \in Nat, n \in S PROVE n + 1 \in S
  <2>1. SUFFICES ASSUME NEW s \in Seq(R), Len(s) = n + 1 PROVE s \in P
    OBVIOUS
  <2>. DEFINE r == SubSeq(s, 1, n)
  <2>2. r \in Seq(R) /\ Len(r) = n /\ s[n + 1] \in R /\ s = Append(r, s[n + 1])
    BY <2>1
  <2>3. r \in P
    BY <1>2, <2>2
  <2>. HIDE DEF r
  <2>. QED
    BY <2>2, <2>3
<1>. HIDE DEF S
<1>3. \A n \in Nat : n \in S
  BY <1>1, <1>2, AllNats
<1>4. ASSUME NEW s \in Seq(R) PROVE s \in P
  <2>1. Len(s) \in S
    BY <1>3
  <2>. QED
    BY <2>1 DEF S
<1>. QED
  BY <1>4

LEMMA AmongType ==
    ASSUME NEW R, NEW T
    PROVE  \A s \in Seq(R) : Among(s, T) \in Seq(R \cap T)
<1>. DEFINE P == {s \in Seq(R) : Among(s, T) \in Seq(R \cap T)}
<1>1. <<>> \in P
  <2>1. <<>> \in Seq(R) /\ Len(<<>>) = 0 /\ <<>> \in Seq(R \cap T)
    OBVIOUS
  <2>. QED
    BY <2>1, AmongEmpty
<1>2. ASSUME NEW s \in Seq(R), NEW x \in R, s \in P PROVE Append(s, x) \in P
  <2>. DEFINE a == Among(s, T)
              t == Append(s, x)
              b == Among(t, T)
  <2>1. b = IF x \in T THEN Append(a, x) ELSE a
    BY AmongAppend
  <2>2. a \in Seq(R \cap T) /\ t \in Seq(R)
    BY <1>2
  <2>. HIDE DEF a, t, b
  <2>3. b \in Seq(R \cap T)
    BY <2>1, <2>2
  <2>. QED
    BY <2>2, <2>3 DEF b, t
<1>. HIDE DEF P
<1>3. Seq(R) \subseteq P
  BY <1>1, <1>2, AllSequences
<1>. QED
  BY <1>3 DEF P

LEMMA SameSequence ==
    ASSUME NEW R, NEW c \in Seq(R), NEW d \in Seq(R), Len(c) = Len(d),
           \A i \in 1..Len(c) : c[i] = d[i]
    PROVE  c = d
OBVIOUS

SameRows(c, d) == c = d

LEMMA AppendOfBoth ==
    ASSUME NEW R, NEW a \in Seq(R), NEW b \in Seq(R), NEW x \in R
    PROVE  SameRows(Append(a \o b, x), a \o Append(b, x))
<1>. DEFINE c == Append(a \o b, x)
            d == a \o Append(b, x)
            m == Len(a)
            n == Len(b)
<1>1. /\ c \in Seq(R) /\ d \in Seq(R) /\ m \in Nat /\ n \in Nat
      /\ Len(c) = (m + n) + 1 /\ Len(d) = (m + n) + 1
  OBVIOUS
<1>2. \A i \in 1..m : c[i] = d[i]
  OBVIOUS
<1>3. \A i \in m + 1..m + n : c[i] = d[i]
  OBVIOUS
<1>4. c[(m + n) + 1] = d[(m + n) + 1]
  OBVIOUS
<1>. HIDE DEF c, d, m, n
<1>5. \A i \in 1..(m + n) + 1 : i \in 1..m \/ i \in m + 1..m + n \/ i = (m + n) + 1
  BY <1>1
<1>6. \A i \in 1..(m + n) + 1 : c[i] = d[i]
  BY <1>2, <1>3, <1>4, <1>5
<1>7. c \in Seq(R) /\ d \in Seq(R) /\ Len(c) = Len(d) /\ \A i \in 1..Len(c) : c[i] = d[i]
  BY <1>1, <1>6
<1>8. c = d
  BY <1>7, SameSequence
<1>. QED
  BY <1>8 DEF SameRows, c, d

LEMMA AmongConcat ==
    ASSUME NEW R, NEW s \in Seq(R), NEW T
    PROVE  \A t \in Seq(R) : Among(s \o t, T) = Among(s, T) \o Among(t, T)
<1>. DEFINE P == {t \in Seq(R) : Among(s \o t, T) = Among(s, T) \o Among(t, T)}
            a == Among(s, T)
<1>0. a \in Seq(R)
  <2>1. a \in Seq(R \cap T)
    BY AmongType
  <2>. HIDE DEF a
  <2>. QED
    BY <2>1
<1>1. <<>> \in P
  <2>1. <<>> \in Seq(R) /\ Len(<<>>) = 0 /\ s \o <<>> = s
    OBVIOUS
  <2>2. Among(<<>>, T) = <<>>
    BY <2>1, AmongEmpty
  <2>. HIDE DEF a
  <2>3. a \o <<>> = a
    BY <1>0
  <2>. QED
    BY <2>1, <2>2, <2>3 DEF a
<1>2. ASSUME NEW t \in Seq(R), NEW x \in R, t \in P PROVE Append(t, x) \in P
  <2>. DEFINE u == s \o t
              b == Among(t, T)
  <2>1. Append(t, x) \in Seq(R) /\ u \in Seq(R) /\ s \o Append(t, x) = Append(u, x)
    OBVIOUS
  <2>2. b \in Seq(R)
    <3>1. b \in Seq(R \cap T)
      BY AmongType
    <3>. HIDE DEF b
    <3>. QED
      BY <3>1
  <2>3. Among(Append(t, x), T) = IF x \in T THEN Append(b, x) ELSE b
    BY AmongAppend
  <2>4. Among(u, T) = a \o b
    BY <1>2
  <2>. HIDE DEF u
  <2>5. Among(Append(u, x), T) = IF x \in T THEN Append(Among(u, T), x) ELSE Among(u, T)
    BY <2>1, AmongAppend
  <2>. HIDE DEF a, b
  <2>6. Append(a \o b, x) = a \o Append(b, x)
    <3>1. SameRows(Append(a \o b, x), a \o Append(b, x))
      BY <1>0, <2>2, AppendOfBoth
    <3>. QED
      BY <3>1 DEF SameRows
  <2>7. Among(Append(u, x), T) = a \o Among(Append(t, x), T)
    BY <2>3, <2>4, <2>5, <2>6
  <2>. QED
    BY <2>1, <2>7 DEF a
<1>. HIDE DEF P
<1>3. Seq(R) \subseteq P
  BY <1>1, <1>2, AllSequences
<1>. QED
  BY <1>3 DEF P

\* What is chosen was there, and something is if there is a row to choose.
AmongChosen(s, T) ==
    /\ \A i \in 1..Len(Among(s, T)) : \E k \in 1..Len(s) : Among(s, T)[i] = s[k] /\ s[k] \in T
    /\ \A k \in 1..Len(s) : s[k] \in T => Len(Among(s, T)) >= 1

LEMMA AmongIsChosen ==
    ASSUME NEW R, NEW T
    PROVE  \A s \in Seq(R) : AmongChosen(s, T)
<1>. DEFINE P == {s \in Seq(R) : AmongChosen(s, T)}
<1>1. <<>> \in P
  <2>1. <<>> \in Seq(R) /\ Len(<<>>) = 0
    OBVIOUS
  <2>2. Among(<<>>, T) = <<>>
    BY <2>1, AmongEmpty
  <2>. QED
    BY <2>1, <2>2 DEF AmongChosen
<1>2. ASSUME NEW s \in Seq(R), NEW x \in R, s \in P PROVE Append(s, x) \in P
  <2>. DEFINE a == Among(s, T)
              t == Append(s, x)
              b == Among(t, T)
              n == Len(s)
              m == Len(a)
  <2>1. b = IF x \in T THEN Append(a, x) ELSE a
    BY AmongAppend
  <2>2. a \in Seq(R \cap T) /\ t \in Seq(R) /\ n \in Nat /\ Len(t) = n + 1 /\ t[n + 1] = x
        /\ \A k \in 1..n : t[k] = s[k] /\ k \in 1..n + 1
    BY AmongType
  <2>3. /\ \A i \in 1..m : \E k \in 1..n : a[i] = s[k] /\ s[k] \in T
        /\ \A k \in 1..n : s[k] \in T => m >= 1
    BY <1>2 DEF AmongChosen
  <2>. HIDE DEF a, t, b
  <2>4. m \in Nat
    BY <2>2
  <2>5. CASE x \in T
    <3>1. b = Append(a, x)
      BY <2>1, <2>5
    <3>2. Len(b) = m + 1 /\ b[m + 1] = x /\ \A i \in 1..m : b[i] = a[i]
      BY <2>2, <3>1
    <3>. HIDE DEF n, m
    <3>3. ASSUME NEW i \in 1..m + 1 PROVE \E k \in 1..n + 1 : b[i] = t[k] /\ t[k] \in T
      <4>1. CASE i \in 1..m
        BY <2>2, <2>3, <3>2, <4>1
      <4>2. CASE i = m + 1
        <5>1. n + 1 \in 1..n + 1
          BY <2>2
        <5>. QED
          BY <2>2, <2>5, <3>2, <4>2, <5>1
      <4>. QED
        BY <2>4, <4>1, <4>2
    <3>4. Len(b) >= 1
      BY <2>4, <3>2
    <3>. QED
      BY <2>2, <3>2, <3>3, <3>4 DEF AmongChosen, b, t
  <2>6. CASE x \notin T
    <3>1. b = a
      BY <2>1, <2>6
    <3>. HIDE DEF n
    <3>2. \A i \in 1..m : \E k \in 1..n + 1 : b[i] = t[k] /\ t[k] \in T
      BY <2>2, <2>3, <3>1
    <3>3. ASSUME NEW k \in 1..n + 1, t[k] \in T PROVE m >= 1
      <4>1. k \in 1..n
        BY <2>2, <2>6, <3>3
      <4>. QED
        BY <2>2, <2>3, <3>3, <4>1
    <3>. QED
      BY <2>2, <3>1, <3>2, <3>3 DEF AmongChosen, b, t
  <2>. QED
    BY <2>5, <2>6
<1>. HIDE DEF P
<1>3. Seq(R) \subseteq P
  BY <1>1, <1>2, AllSequences
<1>. QED
  BY <1>3 DEF P

\* Nothing of a code is lost if all that was traced is chosen.
LEMMA AmongCounts ==
    ASSUME NEW T, \A row \in WindowRows : row.kind = "trace" => row \in T, NEW code
    PROVE  \A s \in Seq(WindowRows) : Requests1(Among(s, T), code) = Requests1(s, code)
<1>. DEFINE P == {s \in Seq(WindowRows) : Requests1(Among(s, T), code) = Requests1(s, code)}
<1>1. <<>> \in P
  <2>1. <<>> \in Seq(WindowRows) /\ Len(<<>>) = 0
    OBVIOUS
  <2>. QED
    BY <2>1, AmongEmpty
<1>2. ASSUME NEW s \in Seq(WindowRows), NEW row \in WindowRows, s \in P
      PROVE  Append(s, row) \in P
  <2>. DEFINE a == Among(s, T)
              t == Append(s, row)
              b == Among(t, T)
  <2>1. b = IF row \in T THEN Append(a, row) ELSE a
    BY AmongAppend
  <2>2. a \in Seq(WindowRows) /\ t \in Seq(WindowRows)
    <3>1. a \in Seq(WindowRows \cap T)
      BY AmongType
    <3>. HIDE DEF a
    <3>. QED
      BY <3>1
  <2>3. Requests1(a, code) = Requests1(s, code)
    BY <1>2
  <2>4. Requests1(t, code) = IF row.kind = "trace" /\ row.request.code = code
                             THEN Requests1(s, code) + 1 ELSE Requests1(s, code)
    BY RowCounts
  <2>. HIDE DEF a, t, b
  <2>5. Requests1(Append(a, row), code) =
             IF row.kind = "trace" /\ row.request.code = code
             THEN Requests1(a, code) + 1 ELSE Requests1(a, code)
    BY <2>2, RowCounts
  <2>6. row \notin T => row.kind # "trace"
    OBVIOUS
  <2>7. Requests1(b, code) = Requests1(t, code)
    BY <2>1, <2>3, <2>4, <2>5, <2>6
  <2>. QED
    BY <2>2, <2>7 DEF b, t
<1>. HIDE DEF P
<1>3. Seq(WindowRows) \subseteq P
  BY <1>1, <1>2, AllSequences
<1>. QED
  BY <1>3 DEF P

-----------------------------------------------------------------------------
(* The window.  What a sequence ends with.                                  *)

EndsWith(t, s) ==
    Len(s) <= Len(t) /\ \A k \in 1..Len(s) : s[k] = t[(Len(t) - Len(s)) + k]

LEMMA EndsConcat ==
    ASSUME NEW R, NEW t \in Seq(R), NEW s \in Seq(R), EndsWith(t, s)
    PROVE  \E u \in Seq(R) : t = u \o s
<1>. DEFINE m == Len(t)
            n == Len(s)
            d == m - n
            u == SubSeq(t, 1, d)
            c == u \o s
<1>1. m \in Nat /\ n \in Nat /\ n <= m /\ \A k \in 1..n : s[k] = t[d + k]
  BY DEF EndsWith
<1>2. d \in 0..m
  BY <1>1
<1>. HIDE DEF d
<1>3. u \in Seq(R) /\ Len(u) = d /\ \A k \in 1..d : u[k] = t[k]
  BY <1>2
<1>. HIDE DEF u
<1>4. c \in Seq(R) /\ Len(c) = d + n /\ (\A k \in 1..d : c[k] = u[k])
      /\ \A k \in d + 1..d + n : c[k] = s[k - d]
  BY <1>3, SMTT(30)
<1>5. d + n = m
  BY <1>1 DEF d
<1>. HIDE DEF c, m, n
<1>6. ASSUME NEW k \in 1..m PROVE t[k] = c[k]
  <2>1. CASE k \in 1..d
    BY <1>3, <1>4, <2>1
  <2>2. CASE k \notin 1..d
    <3>1. k \in d + 1..d + n /\ (k - d) \in 1..n /\ d + (k - d) = k
      BY <1>1, <1>2, <1>5, <2>2
    <3>. QED
      BY <1>1, <1>4, <3>1
  <2>. QED
    BY <2>1, <2>2
<1>7. t = c
  BY <1>4, <1>5, <1>6, SameSequence DEF m
<1>. QED
  BY <1>3, <1>7 DEF c

LEMMA ConcatEnds ==
    ASSUME NEW R, NEW u \in Seq(R), NEW s \in Seq(R)
    PROVE  EndsWith(u \o s, s)
<1>. DEFINE t == u \o s
            m == Len(u)
            n == Len(s)
<1>1. m \in Nat /\ n \in Nat /\ Len(t) = m + n /\ \A k \in 1..n : t[m + k] = s[k]
  OBVIOUS
<1>. HIDE DEF t, m, n
<1>2. n <= m + n /\ (m + n) - n = m
  BY <1>1
<1>. QED
  BY <1>1, <1>2 DEF EndsWith, t, n

LEMMA EndsSame ==
    ASSUME NEW R, NEW t \in Seq(R)
    PROVE  EndsWith(t, t)
<1>1. Len(t) \in Nat /\ \A k \in 1..Len(t) : (Len(t) - Len(t)) + k = k
  OBVIOUS
<1>. QED
  BY <1>1 DEF EndsWith

LEMMA EndsThrough ==
    ASSUME NEW R, NEW t \in Seq(R), NEW s \in Seq(R), NEW r \in Seq(R),
           EndsWith(t, s), EndsWith(s, r)
    PROVE  EndsWith(t, r)
<1>. DEFINE l == Len(t)
            m == Len(s)
            n == Len(r)
<1>1. l \in Nat /\ m \in Nat /\ n \in Nat /\ n <= m /\ m <= l
      /\ (\A k \in 1..m : s[k] = t[(l - m) + k]) /\ \A k \in 1..n : r[k] = s[(m - n) + k]
  BY DEF EndsWith
<1>. HIDE DEF l, m, n
<1>2. ASSUME NEW k \in 1..n PROVE r[k] = t[(l - n) + k]
  <2>1. (m - n) + k \in 1..m /\ (l - m) + ((m - n) + k) = (l - n) + k
    BY <1>1
  <2>. QED
    BY <1>1, <2>1
<1>. QED
  BY <1>1, <1>2 DEF EndsWith, l, n

LEMMA EndsWithin ==
    ASSUME NEW R, NEW t \in Seq(R), NEW s \in Seq(R), NEW r \in Seq(R),
           EndsWith(t, s), EndsWith(t, r), Len(r) <= Len(s)
    PROVE  EndsWith(s, r)
<1>. DEFINE l == Len(t)
            m == Len(s)
            n == Len(r)
<1>1. l \in Nat /\ m \in Nat /\ n \in Nat /\ n <= m /\ m <= l
      /\ (\A k \in 1..m : s[k] = t[(l - m) + k]) /\ \A k \in 1..n : r[k] = t[(l - n) + k]
  BY DEF EndsWith
<1>. HIDE DEF l, m, n
<1>2. ASSUME NEW k \in 1..n PROVE r[k] = s[(m - n) + k]
  <2>1. (m - n) + k \in 1..m /\ (l - m) + ((m - n) + k) = (l - n) + k
    BY <1>1
  <2>. QED
    BY <1>1, <2>1
<1>. QED
  BY <1>1, <1>2 DEF EndsWith, m, n

LEMMA EndsMore ==
    ASSUME NEW R, NEW t \in Seq(R), NEW s \in Seq(R), NEW x \in R, EndsWith(t, s)
    PROVE  EndsWith(Append(t, x), Append(s, x))
<1>. DEFINE v == Append(t, x)
            w == Append(s, x)
            m == Len(t)
            n == Len(s)
<1>1. /\ m \in Nat /\ n \in Nat /\ Len(v) = m + 1 /\ Len(w) = n + 1
      /\ v[m + 1] = x /\ w[n + 1] = x
      /\ (\A k \in 1..m : v[k] = t[k]) /\ \A k \in 1..n : w[k] = s[k]
  OBVIOUS
<1>2. n <= m /\ \A k \in 1..n : s[k] = t[(m - n) + k]
  BY DEF EndsWith
<1>. HIDE DEF v, w, m, n
<1>3. ASSUME NEW k \in 1..n + 1 PROVE w[k] = v[((m + 1) - (n + 1)) + k]
  <2>1. ((m + 1) - (n + 1)) + k = (m - n) + k
    BY <1>1
  <2>2. CASE k \in 1..n
    <3>1. (m - n) + k \in 1..m
      BY <1>1, <1>2, <2>2
    <3>. QED
      BY <1>1, <1>2, <2>1, <2>2, <3>1
  <2>3. CASE k = n + 1
    <3>1. (m - n) + k = m + 1
      BY <1>1, <2>3
    <3>. QED
      BY <1>1, <2>1, <2>3, <3>1
  <2>. QED
    BY <1>1, <2>2, <2>3
<1>4. n + 1 <= m + 1
  BY <1>1, <1>2
<1>. QED
  BY <1>1, <1>3, <1>4 DEF EndsWith, v, w

LEMMA LastOfEnds ==
    ASSUME NEW R, NEW s \in Seq(R), NEW M \in Nat
    PROVE  /\ LastOf(s, M) \in Seq(R) /\ EndsWith(s, LastOf(s, M))
           /\ Len(LastOf(s, M)) = IF Len(s) > M THEN M ELSE Len(s)
<1>. DEFINE n == Len(s)
            r == LastOf(s, M)
<1>1. CASE n > M
  <2>. DEFINE d == n - M
  <2>1. d \in Nat /\ n \in Nat /\ (n - M + 1) = d + 1 /\ d + M = n
    BY <1>1
  <2>2. r = SubSeq(s, d + 1, n)
    BY <1>1, <2>1 DEF LastOf
  <2>. HIDE DEF d, r
  <2>3. r \in Seq(R) /\ Len(r) = M /\ \A k \in 1..M : r[k] = s[d + k]
    BY <2>1, <2>2
  <2>4. M <= n /\ n - M = d
    BY <2>1
  <2>. HIDE DEF n
  <2>. QED
    BY <1>1, <2>3, <2>4 DEF EndsWith, r, n
<1>2. CASE ~(n > M)
  <2>1. r = s
    BY <1>2 DEF LastOf
  <2>. QED
    BY <1>2, <2>1, EndsSame
<1>. QED
  BY <1>1, <1>2

LEMMA EndsAmong ==
    ASSUME NEW R, NEW t \in Seq(R), NEW s \in Seq(R), NEW T, EndsWith(t, s)
    PROVE  EndsWith(Among(t, T), Among(s, T))
<1>1. PICK u \in Seq(R) : t = u \o s
  BY EndsConcat
<1>. DEFINE a == Among(u, T)
            b == Among(s, T)
<1>2. Among(t, T) = a \o b
  BY <1>1, AmongConcat
<1>3. a \in Seq(R \cap T) /\ b \in Seq(R \cap T)
  BY AmongType
<1>. HIDE DEF a, b
<1>4. EndsWith(a \o b, b)
  BY <1>3, ConcatEnds
<1>. QED
  BY <1>2, <1>4 DEF b

LEMMA EndsIsSuffix ==
    ASSUME NEW R, NEW t \in Seq(R), NEW s \in Seq(R), EndsWith(t, s)
    PROVE  IsSuffix(s, t)
<1>. DEFINE m == Len(t)
            n == Len(s)
            x == Reverse(s)
            y == Reverse(t)
<1>1. m \in Nat /\ n \in Nat /\ n <= m /\ \A k \in 1..n : s[k] = t[(m - n) + k]
  BY DEF EndsWith
<1>2. x = [i \in 1..n |-> s[(n - i) + 1]] /\ y = [i \in 1..m |-> t[(m - i) + 1]]
  BY DEF Reverse
<1>3. \A i \in 1..n : (n - i) + 1 \in 1..n
  OBVIOUS
<1>4. \A i \in 1..m : (m - i) + 1 \in 1..m
  OBVIOUS
<1>5. x \in Seq(R) /\ Len(x) = n
  <2>1. \A i \in 1..n : s[(n - i) + 1] \in R
    BY <1>3
  <2>. QED
    BY <1>1, <1>2, <2>1
<1>6. y \in Seq(R) /\ Len(y) = m
  <2>1. \A i \in 1..m : t[(m - i) + 1] \in R
    BY <1>4
  <2>. QED
    BY <1>1, <1>2, <2>1
<1>. HIDE DEF x, y, m, n
<1>7. ASSUME NEW i \in 1..n PROVE x[i] = y[i]
  <2>1. i \in 1..m /\ (n - i) + 1 \in 1..n /\ (m - n) + ((n - i) + 1) = (m - i) + 1
    BY <1>1
  <2>2. x[i] = s[(n - i) + 1] /\ y[i] = t[(m - i) + 1]
    BY <1>2, <2>1
  <2>. QED
    BY <1>1, <2>1, <2>2
<1>8. IsPrefix(x, y)
  BY <1>1, <1>5, <1>6, <1>7 DEF IsPrefix
<1>. QED
  BY <1>8 DEF IsSuffix, x, y

-----------------------------------------------------------------------------
(* The window.  The list.                                                   *)

\* What the boxes let through when none of them asks for more than the row.
Passing(ticked) ==
    {row \in WindowRows : row.kind = "trace" =>
        /\ "errors" \in ticked => ~row.request.ok
        /\ "known" \in ticked => DecodeNested(row.request) \notin {"confirmed", "functional"}
        /\ "text" \in ticked => row.request.code \in FilterMatches}

Fewest(n) == IF n > MaxLogRows THEN MaxLogRows ELSE n

ListOf(l, T, rows, view) ==
    /\ EndsWith(Among(rows, T), view) /\ Len(view) <= MaxLogRows
    /\ Len(view) >= Fewest(Len(Among(Retained(l), T)))

PlainBoxes == boxes \cap {"pause", "baseline"} = {}

ListEnds == list \in Seq(WindowRows) /\ (PlainBoxes => ListOf(log, Passing(boxes), session, list))

\* Whatever the statistics, the boxes choose the same rows.
LEMMA PassingIs ==
    ASSUME NEW rows \in Seq(WindowRows), NEW st, NEW quiets, NEW ticked, "baseline" \notin ticked
    PROVE  Shown(rows, st, quiets, ticked) = Among(rows, Passing(ticked))
<1>. DEFINE U == {row \in Range(rows) : Shows(st, quiets, ticked, row)}
<1>1. ASSUME NEW i \in 1..Len(rows) PROVE rows[i] \in U <=> rows[i] \in Passing(ticked)
  <2>1. rows[i] \in WindowRows /\ rows[i] \in Range(rows)
    BY DEF Range
  <2>. QED
    BY <2>1 DEF Passing, Shows
<1>2. Shown(rows, st, quiets, ticked) = Among(rows, U)
  BY DEF Shown
<1>. HIDE DEF U
<1>. QED
  BY <1>1, <1>2, AmongSame

LEMMA AmongRows ==
    ASSUME NEW s \in Seq(WindowRows), NEW T
    PROVE  Among(s, T) \in Seq(WindowRows)
<1>. DEFINE a == Among(s, T)
<1>1. a \in Seq(WindowRows \cap T)
  BY AmongType
<1>. HIDE DEF a
<1>2. a \in Seq(WindowRows)
  BY <1>1
<1>. QED
  BY <1>2 DEF a

\* A list that is built anew.
LEMMA BuiltIs ==
    ASSUME NEW s \in Seq(WindowRows), NEW l, Retained(l) \in Seq(WindowRows),
           EndsWith(s, Retained(l)), NEW st, NEW quiets, NEW ticked
    PROVE  /\ Rebuilt(st, quiets, l, ticked) \in Seq(WindowRows)
           /\ \A i \in DOMAIN Rebuilt(st, quiets, l, ticked) :
                 \E k \in DOMAIN s : Rebuilt(st, quiets, l, ticked)[i] = s[k]
           /\ ticked \cap {"pause", "baseline"} = {} =>
                 ListOf(l, Passing(ticked), s, Rebuilt(st, quiets, l, ticked))
<1>. DEFINE r == Retained(l)
            a == Shown(r, st, quiets, ticked)
            v == Rebuilt(st, quiets, l, ticked)
            T == Passing(ticked)
            b == Among(r, T)
            U == {row \in Range(r) : Shows(st, quiets, ticked, row)}
<1>1. MaxLogRows \in Nat
  BY SessionAssumption
<1>2. a = Among(r, U)
  BY DEF Shown
<1>3. v = IF "pause" \in ticked THEN <<>> ELSE LastOf(a, MaxLogRows)
  BY DEF Rebuilt
<1>. HIDE DEF U, v
<1>4. a \in Seq(WindowRows) /\ b \in Seq(WindowRows) /\ Among(s, T) \in Seq(WindowRows)
  BY <1>2, AmongRows
<1>5. \A i \in DOMAIN a : \E k \in DOMAIN r : a[i] = r[k]
  <2>1. AmongChosen(r, U)
    BY AmongIsChosen
  <2>2. DOMAIN a = 1..Len(a) /\ DOMAIN r = 1..Len(r)
    BY <1>4
  <2>. QED
    BY <1>2, <2>1, <2>2 DEF AmongChosen
<1>6. \A k \in DOMAIN r : \E j \in DOMAIN s : r[k] = s[j]
  <2>1. Len(s) \in Nat /\ Len(r) \in Nat /\ DOMAIN s = 1..Len(s) /\ DOMAIN r = 1..Len(r)
    OBVIOUS
  <2>2. ASSUME NEW k \in 1..Len(r) PROVE (Len(s) - Len(r)) + k \in 1..Len(s)
    BY <2>1 DEF EndsWith
  <2>. QED
    BY <2>1, <2>2 DEF EndsWith
<1>7. \A i \in DOMAIN a : \E j \in DOMAIN s : a[i] = s[j]
  BY <1>5, <1>6
<1>8. EndsWith(Among(s, T), b)
  BY EndsAmong
<1>. HIDE DEF r, a, b, T
<1>9. CASE "pause" \in ticked
  <2>1. v = <<>>
    BY <1>3, <1>9
  <2>2. v \in Seq(WindowRows) /\ DOMAIN v = {}
    BY <2>1
  <2>. QED
    BY <1>9, <2>2 DEF v
<1>10. CASE "pause" \notin ticked
  <2>1. v = LastOf(a, MaxLogRows)
    BY <1>3, <1>10
  <2>2. v \in Seq(WindowRows) /\ EndsWith(a, v) /\ Len(v) = Fewest(Len(a))
    BY <1>1, <1>4, <2>1, LastOfEnds DEF Fewest
  <2>3. ASSUME NEW i \in DOMAIN v PROVE \E k \in DOMAIN s : v[i] = s[k]
    <3>1. Len(a) \in Nat /\ Len(v) \in Nat /\ DOMAIN a = 1..Len(a) /\ DOMAIN v = 1..Len(v)
      BY <1>4, <2>2
    <3>2. (Len(a) - Len(v)) + i \in DOMAIN a
      BY <2>2, <3>1 DEF EndsWith
    <3>3. v[i] = a[(Len(a) - Len(v)) + i]
      BY <2>2, <3>1 DEF EndsWith
    <3>. QED
      BY <1>7, <3>2, <3>3
  <2>4. ASSUME ticked \cap {"pause", "baseline"} = {} PROVE ListOf(l, T, s, v)
    <3>1. a = b
      BY <2>4, PassingIs DEF a, b, r, T
    <3>2. EndsWith(Among(s, T), v)
      BY <1>4, <1>8, <2>2, <3>1, EndsThrough
    <3>3. Len(v) <= MaxLogRows /\ Len(v) >= Fewest(Len(b))
      <4>1. Len(b) \in Nat
        BY <1>4
      <4>. QED
        BY <1>1, <2>2, <3>1, <4>1 DEF Fewest
    <3>. QED
      BY <3>2, <3>3 DEF ListOf, b, r
  <2>. QED
    BY <2>2, <2>3, <2>4 DEF v, T
<1>. QED
  BY <1>9, <1>10

\* A row that the list takes.
LEMMA RowIsListed ==
    ASSUME NEW s \in Seq(WindowRows), NEW row \in WindowRows, NEW T, NEW view \in Seq(WindowRows),
           NEW l, NEW p, Retained(l) \in Seq(WindowRows), Retained(p) \in Seq(WindowRows),
           EndsWith(Append(Retained(l), row), Retained(p)), ListOf(l, T, s, view),
           NEW next,
           next = IF row \in T THEN LastOf(Append(view, row), MaxLogRows) ELSE view
    PROVE  ListOf(p, T, Append(s, row), next)
<1>. DEFINE t == Append(s, row)
            r == Retained(l)
            q == Retained(p)
            a == Among(s, T)
            b == Among(r, T)
            c == Among(q, T)
            d == Among(Append(r, row), T)
<1>1. MaxLogRows \in Nat
  BY SessionAssumption
<1>2. /\ a \in Seq(WindowRows) /\ b \in Seq(WindowRows) /\ c \in Seq(WindowRows)
      /\ Append(r, row) \in Seq(WindowRows)
  BY AmongRows
<1>3. Among(t, T) = IF row \in T THEN Append(a, row) ELSE a
  BY AmongAppend
<1>4. d = IF row \in T THEN Append(b, row) ELSE b
  BY AmongAppend
<1>5. EndsWith(d, c)
  BY <1>2, EndsAmong
<1>6. EndsWith(a, view) /\ Len(view) <= MaxLogRows /\ Len(view) >= Fewest(Len(b))
  BY DEF ListOf
<1>. HIDE DEF a, b, c, d, q, r, t
<1>7. Len(b) \in Nat /\ Len(c) \in Nat /\ Len(view) \in Nat
      /\ Len(c) <= IF row \in T THEN Len(b) + 1 ELSE Len(b)
  <2>1. Len(c) <= Len(d)
    BY <1>5 DEF EndsWith
  <2>2. Len(Append(b, row)) = Len(b) + 1
    BY <1>2
  <2>. QED
    BY <1>2, <1>4, <2>1, <2>2
<1>8. CASE row \in T
  <2>. DEFINE w == Append(view, row)
  <2>1. w \in Seq(WindowRows) /\ Len(w) = Len(view) + 1 /\ Append(a, row) \in Seq(WindowRows)
    BY <1>2
  <2>2. EndsWith(Append(a, row), w)
    BY <1>2, <1>6, EndsMore
  <2>. HIDE DEF w
  <2>3. /\ next \in Seq(WindowRows) /\ EndsWith(w, next) /\ Len(next) = Fewest(Len(w))
    <3>1. next = LastOf(w, MaxLogRows)
      BY <1>8 DEF w
    <3>. QED
      BY <1>1, <2>1, <3>1, LastOfEnds DEF Fewest
  <2>4. EndsWith(Append(a, row), next)
    BY <2>1, <2>2, <2>3, EndsThrough
  <2>5. Len(next) <= MaxLogRows /\ Len(next) >= Fewest(Len(c))
    BY <1>1, <1>6, <1>7, <1>8, <2>1, <2>3 DEF Fewest
  <2>. QED
    BY <1>3, <1>8, <2>4, <2>5 DEF ListOf, c, q, t
<1>9. CASE row \notin T
  <2>1. next = view /\ Len(c) <= Len(b)
    BY <1>7, <1>9
  <2>2. Len(view) >= Fewest(Len(c))
    BY <1>1, <1>6, <1>7, <2>1 DEF Fewest
  <2>. QED
    BY <1>3, <1>6, <1>9, <2>1, <2>2 DEF ListOf, c, q, t
<1>. QED
  BY <1>8, <1>9

\* What the ring keeps, after a row and before.
LEMMA RingEnds ==
    ASSUME SwTypeOK, RowsRetained
    PROVE  Retained(log) \in Seq(WindowRows) /\ EndsWith(session, Retained(log))
<1>1. session \in Seq(WindowRows) /\ MaxEvents \in Nat /\ Retained(log) = LastOf(session, MaxEvents)
  BY SessionAssumption DEF SwTypeOK, RowsRetained
<1>. QED
  BY <1>1, LastOfEnds

LEMMA RingMovesOn ==
    ASSUME NEW s \in Seq(WindowRows), NEW row \in WindowRows
    PROVE  EndsWith(Append(LastOf(s, MaxEvents), row), LastOf(Append(s, row), MaxEvents))
<1>. DEFINE M == MaxEvents
            r == LastOf(s, M)
            t == Append(s, row)
            q == LastOf(t, M)
            a == Append(r, row)
<1>1. M \in Nat /\ t \in Seq(WindowRows) /\ Len(t) = Len(s) + 1 /\ Len(s) \in Nat
  BY SessionAssumption
<1>2. r \in Seq(WindowRows) /\ EndsWith(s, r) /\ Len(r) = IF Len(s) > M THEN M ELSE Len(s)
  BY <1>1, LastOfEnds
<1>3. q \in Seq(WindowRows) /\ EndsWith(t, q) /\ Len(q) = IF Len(t) > M THEN M ELSE Len(t)
  BY <1>1, LastOfEnds
<1>. HIDE DEF r, q
<1>4. EndsWith(t, a) /\ a \in Seq(WindowRows) /\ Len(a) = Len(r) + 1
  BY <1>2, EndsMore
<1>5. Len(q) <= Len(a)
  BY <1>1, <1>2, <1>3, <1>4
<1>. HIDE DEF t, a
<1>. QED
  BY <1>1, <1>3, <1>4, <1>5, EndsWithin DEF a, t, r, q

ListedOf(view, s) == \A i \in DOMAIN view : \E k \in DOMAIN s : view[i] = s[k]

RowsListed == ListedOf(list, session)

\* A request that is handled is in the list if the boxes let it through.
LEMMA HandledIsListed ==
    ASSUME SwInv, RowsRetained, RowsRetained', HandleRecord, ListEnds, RowsListed
    PROVE  ListEnds' /\ RowsListed'
<1>1. PICK e \in WindowRequest : e = Head(onTheWay) /\ TraceRow(e) \in WindowRows
  BY HandledIs
<1>2. PICK row \in WindowRows : row = TraceRow(e)
  BY <1>1
<1>3. session \in Seq(WindowRows) /\ list \in Seq(WindowRows) /\ MaxLogRows \in Nat
      /\ MaxEvents \in Nat
  BY SessionAssumption DEF SwInv, SwTypeOK, ListEnds
<1>4. PICK s \in Seq(WindowRows), v \in Seq(WindowRows) : s = session /\ v = list
  BY <1>3
<1>5. PICK l, p, ticked : l = log /\ p = log' /\ ticked = boxes
  OBVIOUS
<1>6. session' = Append(s, row) /\ boxes' = ticked
  BY <1>1, <1>2, <1>4, <1>5 DEF HandleRecord
<1>7. PICK st, quiets :
         list' = IF "pause" \notin ticked /\ Shows(st, quiets, ticked, row)
                 THEN LastOf(Append(v, row), MaxLogRows) ELSE v
  BY <1>1, <1>2, <1>4, <1>5 DEF HandleRecord
<1>. DEFINE t == Append(s, row)
            w == Append(v, row)
            a == LastOf(w, MaxLogRows)
<1>8. w \in Seq(WindowRows) /\ t \in Seq(WindowRows) /\ Len(w) = Len(v) + 1 /\ Len(t) = Len(s) + 1
      /\ w[Len(v) + 1] = row /\ t[Len(s) + 1] = row /\ Len(v) \in Nat /\ Len(s) \in Nat
      /\ DOMAIN w = 1..Len(v) + 1 /\ DOMAIN t = 1..Len(s) + 1
      /\ (\A i \in 1..Len(v) : w[i] = v[i]) /\ \A k \in 1..Len(s) : t[k] = s[k] /\ k \in DOMAIN t
  OBVIOUS
<1>9. ListedOf(v, s)
  BY <1>4 DEF RowsListed
<1>10. ListedOf(v, t) /\ ListedOf(w, t)
  <2>1. DOMAIN v = 1..Len(v) /\ DOMAIN s = 1..Len(s)
    OBVIOUS
  <2>. HIDE DEF w, t
  <2>2. \A i \in 1..Len(v) : \E k \in DOMAIN t : v[i] = t[k]
    BY <1>8, <1>9, <2>1 DEF ListedOf
  <2>3. \E k \in DOMAIN t : row = t[k]
    BY <1>8
  <2>4. ASSUME NEW i \in 1..Len(v) + 1 PROVE \E k \in DOMAIN t : w[i] = t[k]
    <3>1. CASE i \in 1..Len(v)
      BY <1>8, <2>2, <3>1
    <3>2. CASE i = Len(v) + 1
      BY <1>8, <2>3, <3>2
    <3>. QED
      BY <1>8, <3>1, <3>2
  <2>. QED
    BY <1>8, <2>1, <2>2, <2>4 DEF ListedOf
<1>11. a \in Seq(WindowRows) /\ EndsWith(w, a)
  BY <1>3, <1>8, LastOfEnds
<1>12. ListedOf(a, t)
  <2>. HIDE DEF a, w, t
  <2>1. ASSUME NEW i \in DOMAIN a PROVE \E k \in DOMAIN t : a[i] = t[k]
    <3>0. Len(a) \in Nat /\ DOMAIN a = 1..Len(a)
      BY <1>11
    <3>1. Len(a) <= Len(w) /\ \A k \in 1..Len(a) : a[k] = w[(Len(w) - Len(a)) + k]
      BY <1>11 DEF EndsWith
    <3>2. (Len(w) - Len(a)) + i \in DOMAIN w
      BY <1>8, <3>0, <3>1
    <3>. QED
      BY <1>10, <3>0, <3>1, <3>2 DEF ListedOf
  <2>. QED
    BY <2>1 DEF ListedOf
<1>13. list' \in Seq(WindowRows) /\ RowsListed'
  <2>1. list' = a \/ list' = v
    BY <1>7
  <2>. HIDE DEF a, w
  <2>2. ListedOf(list', t)
    BY <1>10, <1>12, <2>1
  <2>. QED
    BY <1>6, <1>11, <2>1, <2>2 DEF RowsListed
<1>14. ASSUME PlainBoxes' PROVE ListOf(p, Passing(ticked), t, list')
  <2>. DEFINE T == Passing(ticked)
  <2>1. "pause" \notin ticked /\ "baseline" \notin ticked
    BY <1>6, <1>14 DEF PlainBoxes
  <2>2. ListOf(l, T, s, v)
    BY <1>4, <1>5, <2>1 DEF ListEnds, PlainBoxes
  <2>3. Shows(st, quiets, ticked, row) <=> row \in T
    BY <2>1 DEF Shows, Passing
  <2>4. Retained(l) = LastOf(s, MaxEvents) /\ Retained(p) = LastOf(t, MaxEvents)
    BY <1>4, <1>5, <1>6 DEF RowsRetained
  <2>5. Retained(l) \in Seq(WindowRows) /\ Retained(p) \in Seq(WindowRows)
    BY <1>3, <1>8, <2>4, LastOfEnds
  <2>6. EndsWith(Append(Retained(l), row), Retained(p))
    BY <2>4, RingMovesOn
  <2>7. PICK next : next = list'
    OBVIOUS
  <2>. HIDE DEF T
  <2>8. next = IF row \in T THEN LastOf(Append(v, row), MaxLogRows) ELSE v
    BY <1>7, <2>1, <2>3, <2>7
  <2>9. ListOf(p, T, t, next)
    BY <2>2, <2>5, <2>6, <2>8, RowIsListed
  <2>. QED
    BY <2>7, <2>9 DEF T
<1>. HIDE DEF t
<1>15. ListEnds'
  BY <1>5, <1>6, <1>13, <1>14 DEF ListEnds, PlainBoxes, t
<1>. QED
  BY <1>13, <1>15

RingKept ==
    /\ SwTypeOK /\ RowsRetained /\ session \in Seq(WindowRows)
    /\ Retained(log) \in Seq(WindowRows) /\ EndsWith(session, Retained(log))

LEMMA RingOfSession == SwInv => RingKept
<1>1. SwInv => SwTypeOK /\ RowsRetained
  BY RowsOfTheRing DEF SwInv
<1>. QED
  BY <1>1, RingEnds DEF SwTypeOK, RingKept

LEMMA ListSteps ==
    ASSUME SwInv, SwInv', [SwNext]_windowVars, ListEnds, RowsListed
    PROVE  ListEnds' /\ RowsListed'
<1>1. SwTypeOK /\ RowsRetained
  BY RingOfSession DEF RingKept
<1>2. SwTypeOK' /\ RowsRetained' /\ session' \in Seq(WindowRows)
      /\ Retained(log)' \in Seq(WindowRows) /\ EndsWith(session', Retained(log)')
  <2>1. SwInv' => RingKept'
    BY RingOfSession, PTL
  <2>. QED
    BY <2>1 DEF RingKept
<1>5. ASSUME \E st, quiets : list' = Rebuilt(st, quiets, log', boxes')
      PROVE  ListEnds' /\ RowsListed'
  <2>1. PICK s \in Seq(WindowRows) : s = session'
    BY <1>2
  <2>2. PICK l, ticked : l = log' /\ ticked = boxes'
    OBVIOUS
  <2>3. PICK st, quiets : list' = Rebuilt(st, quiets, l, ticked)
    BY <1>5, <2>2
  <2>4. PICK r : r = Retained(l)
    OBVIOUS
  <2>5. r = Retained(log)'
    BY <2>2, <2>4 DEF Retained, EventByOrdinal
  <2>6. Retained(l) \in Seq(WindowRows) /\ EndsWith(s, Retained(l))
    BY <1>2, <2>1, <2>4, <2>5
  <2>. DEFINE v == Rebuilt(st, quiets, l, ticked)
  <2>7. v \in Seq(WindowRows) /\ ListedOf(v, s)
        /\ (ticked \cap {"pause", "baseline"} = {} => ListOf(l, Passing(ticked), s, v))
    BY <2>6, BuiltIs DEF ListedOf
  <2>. HIDE DEF v
  <2>8. list' = v
    BY <2>3 DEF v
  <2>. QED
    BY <2>1, <2>2, <2>7, <2>8 DEF ListEnds, PlainBoxes, RowsListed
<1>6. ASSUME UNCHANGED <<list, log, session, boxes>> PROVE ListEnds' /\ RowsListed'
  BY <1>6 DEF ListEnds, PlainBoxes, RowsListed
<1>7. ASSUME NEW b \in Boxes, TickBox(b) PROVE ListEnds' /\ RowsListed'
  <2>1. CASE b = "pause" /\ b \in boxes'
    BY <1>7, <2>1 DEF TickBox, ListEnds, PlainBoxes, RowsListed
  <2>2. CASE ~(b = "pause" /\ b \in boxes')
    BY <1>5, <1>7, <2>2 DEF TickBox
  <2>. QED
    BY <2>1, <2>2
<1>8. CASE HandleRecord
  BY <1>1, <1>2, <1>8, HandledIsListed
<1>9. CASE ClearSessionRows
  <2>1. session' = <<>> /\ list' = <<>> /\ log'.count = 0
    BY <1>9 DEF ClearSessionRows, SwInv, SwTypeOK, RowLog
  <2>2. PICK l : l = log'
    OBVIOUS
  <2>3. PICK T : T = Passing(boxes')
    OBVIOUS
  <2>4. Retained(l) = <<>>
    BY <2>1, <2>2 DEF Retained
  <2>5. ListOf(l, T, <<>>, <<>>)
    <3>1. <<>> \in Seq(WindowRows) /\ Len(<<>>) = 0 /\ DOMAIN <<>> = {}
      OBVIOUS
    <3>2. Among(<<>>, T) = <<>>
      BY <3>1, AmongEmpty
    <3>3. 0 <= MaxLogRows /\ Fewest(0) = 0
      BY SessionAssumption DEF Fewest
    <3>. QED
      BY <2>4, <3>1, <3>2, <3>3 DEF ListOf, EndsWith
  <2>. QED
    BY <2>1, <2>2, <2>3, <2>5 DEF ListEnds, RowsListed, ListedOf
<1>10. CASE TimePasses \/ TraceRequest \/ RestartTrace \/ UpdateRates \/ UNCHANGED windowVars
  BY <1>6, <1>10 DEF TimePasses, TraceRequest, RestartTrace, UpdateRates, windowVars, viewVars
<1>11. CASE FinishBaseline \/ BeginBaseline \/ AddMarker \/ StartActionNamed \/ EndActionNow
  <2>1. boxes' = boxes /\ \E st, quiets : list' = Rebuilt(st, quiets, log', boxes)
    BY <1>11 DEF FinishBaseline, BeginBaseline, AddMarker, StartActionNamed, EndActionNow,
                 PushAndRebuild
  <2>. QED
    BY <1>5, <2>1
<1>. QED
  BY <1>7, <1>8, <1>9, <1>10, <1>11 DEF SwNext

LEMMA ListIsComplete ==
    ASSUME SwTypeOK, RowsRetained, ListEnds
    PROVE  ListComplete
<1>1. session \in Seq(WindowRows) /\ list \in Seq(WindowRows) /\ MaxLogRows \in Nat
      /\ Retained(log) \in Seq(WindowRows)
  BY RingEnds, SessionAssumption DEF SwTypeOK, ListEnds
<1>. DEFINE all == Shown(session, stats, calm, boxes)
            few == Shown(Retained(log), stats, calm, boxes)
            T == Passing(boxes)
<1>2. SUFFICES ASSUME PlainBoxes
               PROVE  /\ IsSuffix(list, all) /\ Len(list) <= MaxLogRows
                      /\ Len(list) >= Len(LastOf(few, MaxLogRows))
  BY DEF ListComplete, PlainBoxes
<1>3. "baseline" \notin boxes
  BY <1>2 DEF PlainBoxes
<1>4. PICK s \in Seq(WindowRows), r \in Seq(WindowRows) : s = session /\ r = Retained(log)
  BY <1>1
<1>5. PICK st, quiets, ticked : st = stats /\ quiets = calm /\ ticked = boxes
  OBVIOUS
<1>6. Shown(s, st, quiets, ticked) = Among(s, Passing(ticked))
      /\ Shown(r, st, quiets, ticked) = Among(r, Passing(ticked))
  BY <1>3, <1>5, PassingIs
<1>7. all = Among(s, T) /\ few = Among(r, T)
  BY <1>4, <1>5, <1>6
<1>8. EndsWith(all, list) /\ Len(list) <= MaxLogRows /\ Len(list) >= Fewest(Len(few))
  BY <1>2, <1>4, <1>7 DEF ListEnds, ListOf
<1>. HIDE DEF T
<1>9. all \in Seq(WindowRows) /\ few \in Seq(WindowRows)
  BY <1>7, AmongRows
<1>. HIDE DEF all, few
<1>10. Len(LastOf(few, MaxLogRows)) = Fewest(Len(few))
  BY <1>1, <1>9, LastOfEnds DEF Fewest
<1>11. IsSuffix(list, all)
  BY <1>1, <1>8, <1>9, EndsIsSuffix
<1>. QED
  BY <1>8, <1>10, <1>11

-----------------------------------------------------------------------------
(* The window.  Requests and their numbers.                                 *)

SeenIn(s, way) ==
    {s[k].request : k \in {j \in DOMAIN s : s[j].kind = "trace"}} \cup {way[k] : k \in DOMAIN way}

Numbered(S, n) == \A d \in S : d.seq <= n /\ \A e \in S : d.seq = e.seq => d = e

\* As long as the numbers go on, no two requests have the same.
RowsNumbered == ~restarted => Numbered(SeenIn(session, onTheWay), traceSeq)

PastRow(row, t) == row.time <= t /\ (row.kind = "trace" => row.time = row.request.time)

\* What the window has and what it is to get is of the past.
TimesPast ==
    /\ \A k \in DOMAIN session : PastRow(session[k], clock)
    /\ \A k \in DOMAIN onTheWay : onTheWay[k].time <= clock

\* The steps that add nothing but markers.
Marking == FinishBaseline \/ BeginBaseline \/ AddMarker \/ StartActionNamed \/ EndActionNow

MarkedNow(m, t) == \A k \in DOMAIN m : m[k] \in WindowMarkers /\ m[k].time = t

LEMMA OneMark ==
    ASSUME SwTypeOK, NEW text \in {"baseline", "user", "start", "end"}
    PROVE  /\ <<Mark(text)>> \in Seq(WindowMarkers) /\ MarkedNow(<<Mark(text)>>, clock)
           /\ Len(<<Mark(text)>>) = 1 /\ IsMark(<<Mark(text)>>[1], text)
<1>1. clock \in Nat
  BY DEF SwTypeOK
<1>2. /\ \A x \in {"baseline", "user", "start", "end"} :
            x \in {"", "baseline", "user", "start", "end", "none", "count"}
      /\ "" \in CodesSeen \cup {""} /\ 0 \in Int
  OBVIOUS
<1>3. Mark(text) \in WindowMarkers /\ Mark(text).time = clock /\ IsMark(Mark(text), text)
  BY <1>1, <1>2, MarkerType DEF Mark, Marker, IsMark
<1>. HIDE DEF Mark
<1>. QED
  BY <1>3 DEF MarkedNow

LEMMA LinesNow ==
    ASSUME SwTypeOK
    PROVE  CountLines \in Seq(WindowMarkers) /\ MarkedNow(CountLines, clock)
<1>1. clock \in Nat /\ stats \in Seq(Stat)
  BY DEF SwTypeOK
<1>2. /\ CountLines \in Seq(WindowMarkers)
      /\ \/ LinesTell(CountLines, Len(stats))
         \/ CountLines = <<Mark("none")>> /\ LinesTell(<<>>, Len(stats))
  BY <1>1, LinesAreTold
<1>. DEFINE c == CountLines
<1>3. ASSUME NEW k \in DOMAIN c PROVE c[k] \in WindowMarkers /\ c[k].time = clock
  <2>1. k \in 1..Len(c) /\ c[k] \in WindowMarkers
    BY <1>2
  <2>. HIDE DEF c
  <2>2. CASE LinesTell(c, Len(stats))
    <3>1. PICK j \in 1..Len(stats) : c[k] = LineOf(j)
      BY <2>1, <2>2 DEF LinesTell
    <3>. QED
      BY <2>1, <3>1 DEF LineOf, Marker
  <2>3. CASE c = <<Mark("none")>>
    <3>1. k = 1 /\ c[k] = Mark("none")
      BY <2>1, <2>3
    <3>2. Mark("none").time = clock
      BY DEF Mark, Marker
    <3>. QED
      BY <2>1, <3>1, <3>2
  <2>. QED
    BY <1>2, <2>2, <2>3 DEF c
<1>. QED
  BY <1>2, <1>3 DEF MarkedNow

LEMMA MarkedTogether ==
    ASSUME NEW a \in Seq(WindowMarkers), NEW b \in Seq(WindowMarkers), NEW t,
           MarkedNow(a, t), MarkedNow(b, t)
    PROVE  a \o b \in Seq(WindowMarkers) /\ MarkedNow(a \o b, t)
<1>. DEFINE c == a \o b
            m == Len(a)
            n == Len(b)
<1>1. /\ c \in Seq(WindowMarkers) /\ m \in Nat /\ n \in Nat /\ DOMAIN c = 1..m + n
      /\ DOMAIN a = 1..m /\ DOMAIN b = 1..n
      /\ (\A k \in 1..m : c[k] = a[k]) /\ \A k \in 1..n : c[m + k] = b[k]
  OBVIOUS
<1>. HIDE DEF c, m, n
<1>2. ASSUME NEW k \in 1..m + n PROVE c[k] \in WindowMarkers /\ c[k].time = t
  <2>1. CASE k \in 1..m
    BY <1>1, <2>1 DEF MarkedNow
  <2>2. CASE k \notin 1..m
    <3>1. k - m \in 1..n /\ m + (k - m) = k
      BY <1>1, <2>2
    <3>2. c[k] = b[k - m] /\ k - m \in DOMAIN b
      BY <1>1, <3>1
    <3>. QED
      BY <3>2 DEF MarkedNow
  <2>. QED
    BY <2>1, <2>2
<1>. QED
  BY <1>1, <1>2 DEF MarkedNow, c

LEMMA MarkersAre ==
    ASSUME SwTypeOK, Marking
    PROVE  /\ UNCHANGED <<clock, driverVars>>
           /\ \E m \in Seq(WindowMarkers) : session' = session \o m /\ MarkedNow(m, clock)
<1>1. CASE FinishBaseline \/ BeginBaseline
  BY <1>1, OneMark DEF FinishBaseline, BeginBaseline, PushAndRebuild
<1>2. CASE AddMarker
  BY <1>2, OneMark DEF AddMarker, PushAndRebuild
<1>3. CASE StartActionNamed
  BY <1>3, OneMark DEF StartActionNamed, PushAndRebuild
<1>4. CASE EndActionNow
  <2>. DEFINE a == <<Mark("end")>>
  <2>1. a \in Seq(WindowMarkers) /\ MarkedNow(a, clock)
    BY OneMark
  <2>2. CountLines \in Seq(WindowMarkers) /\ MarkedNow(CountLines, clock)
    BY LinesNow
  <2>. HIDE DEF a
  <2>3. PICK p \in Seq(WindowMarkers), q \in Seq(WindowMarkers), t \in {clock} :
           p = a /\ q = CountLines
    BY <2>1, <2>2
  <2>4. p \o q \in Seq(WindowMarkers) /\ MarkedNow(p \o q, t)
    <3>1. MarkedNow(p, t) /\ MarkedNow(q, t)
      BY <2>1, <2>2, <2>3
    <3>. QED
      BY <3>1, MarkedTogether
  <2>5. session' = session \o (p \o q) /\ UNCHANGED <<clock, driverVars>>
    BY <1>4, <2>3 DEF EndActionNow, PushAndRebuild, a
  <2>. QED
    BY <2>3, <2>4, <2>5
<1>. QED
  BY <1>1, <1>2, <1>3, <1>4 DEF Marking

\* The rows after markers.
LEMMA AfterMarkers ==
    ASSUME NEW s \in Seq(WindowRows), NEW m \in Seq(WindowMarkers), NEW t, MarkedNow(m, t)
    PROVE  LET w == s \o m IN
           /\ w \in Seq(WindowRows) /\ Len(w) = Len(s) + Len(m)
           /\ \A k \in 1..Len(s) : w[k] = s[k]
           /\ \A k \in 1..Len(m) : w[Len(s) + k] = m[k]
           /\ \A k \in 1..Len(w) : k > Len(s) =>
                 w[k] \in WindowMarkers /\ w[k].kind = "marker" /\ w[k].time = t
<1>. DEFINE w == s \o m
            l == Len(s)
            n == Len(m)
<1>1. w \in Seq(WindowRows)
  BY MarkersDoNotCount
<1>2. /\ l \in Nat /\ n \in Nat /\ Len(w) = l + n /\ DOMAIN m = 1..n
      /\ (\A k \in 1..l : w[k] = s[k]) /\ \A k \in 1..n : w[l + k] = m[k]
  OBVIOUS
<1>. HIDE DEF w, l, n
<1>3. ASSUME NEW k \in 1..l + n, k > l
      PROVE  w[k] \in WindowMarkers /\ w[k].kind = "marker" /\ w[k].time = t
  <2>1. k - l \in 1..n /\ l + (k - l) = k
    BY <1>2, <1>3
  <2>2. w[k] = m[k - l] /\ k - l \in DOMAIN m
    BY <1>2, <2>1
  <2>3. w[k] \in WindowMarkers /\ w[k].time = t
    BY <2>2 DEF MarkedNow
  <2>. QED
    BY <2>3 DEF WindowMarkers
<1>. QED
  BY <1>1, <1>2, <1>3 DEF w, l, n

LEMMA FewerNumbered ==
    ASSUME NEW S, NEW T, T \subseteq S, NEW n, Numbered(S, n)
    PROVE  Numbered(T, n)
BY DEF Numbered

LEMMA RequestsStart ==
    ASSUME SwInit
    PROVE  RowsNumbered /\ TimesPast /\ ListEnds /\ RowsListed
<1>1. session = <<>> /\ onTheWay = <<>> /\ list = <<>> /\ log.count = 0
  BY DEF SwInit, EmptyLog
<1>2. SeenIn(<<>>, <<>>) = {}
  BY DEF SeenIn
<1>3. RowsNumbered
  BY <1>1, <1>2 DEF RowsNumbered, Numbered
<1>4. TimesPast /\ RowsListed
  BY <1>1 DEF TimesPast, RowsListed, ListedOf
<1>5. ListEnds
  <2>1. <<>> \in Seq(WindowRows) /\ Len(<<>>) = 0
    OBVIOUS
  <2>2. \A T : Among(<<>>, T) = <<>>
    BY <2>1, AmongEmpty
  <2>3. Retained(log) = <<>>
    BY <1>1 DEF Retained
  <2>4. 0 <= MaxLogRows /\ Fewest(0) = 0
    BY SessionAssumption DEF Fewest
  <2>. QED
    BY <1>1, <2>1, <2>2, <2>3, <2>4 DEF ListEnds, ListOf, EndsWith
<1>. QED
  BY <1>3, <1>4, <1>5

LEMMA RequestsHandled ==
    ASSUME SwInv, HandleRecord, RowsNumbered, TimesPast
    PROVE  RowsNumbered' /\ TimesPast'
<1>1. PICK e \in WindowRequest : e = Head(onTheWay) /\ TraceRow(e) \in WindowRows
                                 /\ TraceRow(e).kind = "trace" /\ TraceRow(e).request = e
  BY HandledIs
<1>2. PICK row \in WindowRows : row = TraceRow(e)
  BY <1>1
<1>3. PICK s \in Seq(WindowRows), way \in Seq(WindowRequest) : s = session /\ way = onTheWay
  BY DEF SwInv, SwTypeOK
<1>. DEFINE t == Append(s, row)
            rest == Tail(way)
<1>4. /\ session' = t /\ onTheWay' = rest /\ UNCHANGED <<clock, traceSeq, restarted>>
      /\ way # <<>> /\ e = way[1]
  BY <1>1, <1>2, <1>3 DEF HandleRecord
<1>5. /\ DOMAIN t = 1..Len(s) + 1 /\ DOMAIN s = 1..Len(s) /\ Len(s) \in Nat
      /\ t[Len(s) + 1] = row /\ \A k \in 1..Len(s) : t[k] = s[k]
  OBVIOUS
<1>6. /\ 1 \in DOMAIN way /\ \A k \in DOMAIN rest : k + 1 \in DOMAIN way /\ rest[k] = way[k + 1]
  BY <1>4
<1>7. row.kind = "trace" /\ row.request = e /\ row.time = e.time
  BY <1>1, <1>2 DEF TraceRow
<1>. HIDE DEF t, rest
<1>8. SeenIn(t, rest) \subseteq SeenIn(s, way)
  <2>1. SUFFICES ASSUME NEW d \in SeenIn(t, rest) PROVE d \in SeenIn(s, way)
    OBVIOUS
  <2>2. CASE \E k \in DOMAIN t : t[k].kind = "trace" /\ d = t[k].request
    <3>1. PICK k \in DOMAIN t : t[k].kind = "trace" /\ d = t[k].request
      BY <2>2
    <3>2. CASE k \in 1..Len(s)
      BY <1>5, <3>1, <3>2 DEF SeenIn
    <3>3. CASE k = Len(s) + 1
      <4>1. d = way[1]
        BY <1>4, <1>5, <1>7, <3>1, <3>3
      <4>. QED
        BY <1>6, <4>1 DEF SeenIn
    <3>. QED
      BY <1>5, <3>2, <3>3
  <2>3. CASE \E k \in DOMAIN rest : d = rest[k]
    BY <1>6, <2>3 DEF SeenIn
  <2>. QED
    BY <2>1, <2>2, <2>3 DEF SeenIn
<1>9. RowsNumbered'
  BY <1>3, <1>4, <1>8, FewerNumbered DEF RowsNumbered
<1>10. \A k \in DOMAIN s : PastRow(s[k], clock)
  BY <1>3 DEF TimesPast
<1>11. \A k \in DOMAIN way : way[k].time <= clock
  BY <1>3 DEF TimesPast
<1>12. PastRow(row, clock)
  BY <1>4, <1>6, <1>7, <1>11 DEF PastRow
<1>13. \A k \in DOMAIN t : PastRow(t[k], clock)
  <2>1. \A k \in DOMAIN t : k \in 1..Len(s) \/ k = Len(s) + 1
    BY <1>5
  <2>. QED
    BY <1>5, <1>10, <1>12, <2>1
<1>14. \A k \in DOMAIN rest : rest[k].time <= clock
  BY <1>6, <1>11
<1>. QED
  BY <1>4, <1>9, <1>13, <1>14 DEF TimesPast

LEMMA RequestsMarked ==
    ASSUME SwInv, Marking, RowsNumbered, TimesPast
    PROVE  RowsNumbered' /\ TimesPast'
<1>1. UNCHANGED <<clock, onTheWay, traceSeq, restarted>>
      /\ \E m \in Seq(WindowMarkers) : session' = session \o m /\ MarkedNow(m, clock)
  BY MarkersAre DEF SwInv, driverVars
<1>2. PICK s \in Seq(WindowRows), way \in Seq(WindowRequest), t \in Nat :
         s = session /\ way = onTheWay /\ t = clock
  BY DEF SwInv, SwTypeOK
<1>3. PICK m \in Seq(WindowMarkers) : session' = s \o m /\ MarkedNow(m, t)
  BY <1>1, <1>2
<1>. DEFINE w == s \o m
<1>4. /\ w \in Seq(WindowRows) /\ Len(w) = Len(s) + Len(m)
      /\ (\A k \in 1..Len(s) : w[k] = s[k])
      /\ \A k \in 1..Len(w) : k > Len(s) => w[k].kind = "marker" /\ w[k].time = t
  BY <1>3, AfterMarkers
<1>. HIDE DEF w
<1>5. /\ DOMAIN w = 1..Len(w) /\ DOMAIN s = 1..Len(s) /\ Len(s) \in Nat
      /\ \A k \in 1..Len(w) : k \in 1..Len(s) \/ k > Len(s)
  BY <1>4
<1>6. \A k \in DOMAIN w : w[k].kind = "trace" => k \in DOMAIN s /\ w[k] = s[k]
  BY <1>4, <1>5
<1>7. SeenIn(w, way) \subseteq SeenIn(s, way)
  BY <1>6 DEF SeenIn
<1>8. session' = w
  BY <1>3 DEF w
<1>9. RowsNumbered'
  BY <1>1, <1>2, <1>7, <1>8, FewerNumbered DEF RowsNumbered
<1>10. \A k \in DOMAIN w : PastRow(w[k], t)
  <2>1. ASSUME NEW k \in DOMAIN w PROVE PastRow(w[k], t)
    <3>1. CASE k \in 1..Len(s)
      BY <1>2, <1>4, <1>5, <3>1 DEF TimesPast
    <3>2. CASE k > Len(s)
      BY <1>2, <1>4, <1>5, <3>2 DEF PastRow
    <3>. QED
      BY <1>5, <3>1, <3>2
  <2>. QED
    BY <2>1
<1>. QED
  BY <1>1, <1>2, <1>8, <1>9, <1>10 DEF TimesPast

LEMMA RequestTraced ==
    ASSUME SwInv, TraceRequest, RowsNumbered, TimesPast
    PROVE  /\ RowsNumbered' /\ TimesPast'
           /\ \E r \in WindowRequest : onTheWay' = Append(onTheWay, r) /\ r.time = clock
<1>1. PICK e \in Traced :
         onTheWay' = Append(onTheWay, [code |-> e.code, length |-> e.length,
            first |-> e.first, ok |-> e.ok, id |-> total + 1, seq |-> traceSeq + 1,
            time |-> clock])
  BY DEF TraceRequest
<1>. DEFINE r == [code |-> e.code, length |-> e.length, first |-> e.first, ok |-> e.ok,
                  id |-> total + 1, seq |-> traceSeq + 1, time |-> clock]
<1>2. /\ clock \in Nat \ {0} /\ traceSeq \in Nat /\ total \in Nat
      /\ onTheWay \in Seq(WindowRequest) /\ session \in Seq(WindowRows)
  BY DEF SwInv, SwTypeOK
<1>3. r \in WindowRequest /\ r.seq = traceSeq + 1 /\ r.time = clock
  BY <1>2 DEF WindowRequest
<1>. HIDE DEF r
<1>4. PICK way \in Seq(WindowRequest), x \in WindowRequest, s \in Seq(WindowRows), n \in Nat,
           t \in Nat :
         way = onTheWay /\ x = r /\ s = session /\ n = traceSeq /\ t = clock
  BY <1>2, <1>3
<1>. DEFINE more == Append(way, x)
<1>5. /\ onTheWay' = more /\ traceSeq' = n + 1 /\ UNCHANGED <<clock, restarted, session>>
      /\ x.seq = n + 1 /\ x.time = t
  <2>1. x.seq = n + 1 /\ x.time = t
    BY <1>3, <1>4
  <2>2. onTheWay' = Append(onTheWay, r)
    BY <1>1 DEF r
  <2>. QED
    BY <1>4, <2>1, <2>2 DEF TraceRequest
<1>6. \A k \in DOMAIN more : more[k] = x \/ (k \in DOMAIN way /\ more[k] = way[k])
  <2>1. /\ DOMAIN more = 1..Len(way) + 1 /\ DOMAIN way = 1..Len(way) /\ Len(way) \in Nat
        /\ more[Len(way) + 1] = x /\ \A k \in 1..Len(way) : more[k] = way[k]
    OBVIOUS
  <2>. HIDE DEF more
  <2>2. \A k \in DOMAIN more : k \in 1..Len(way) \/ k = Len(way) + 1
    BY <2>1
  <2>. QED
    BY <2>1, <2>2
<1>. HIDE DEF more
<1>7. SeenIn(s, more) \subseteq SeenIn(s, way) \cup {x}
  BY <1>6 DEF SeenIn
<1>8. SeenIn(s, way) \subseteq WindowRequest
  <2>1. \A k \in DOMAIN s : s[k].kind = "trace" => s[k].request \in WindowRequest
    <3>1. ASSUME NEW k \in DOMAIN s, s[k].kind = "trace" PROVE s[k].request \in WindowRequest
      <4>1. s[k] \in WindowRows
        OBVIOUS
      <4>. QED
        BY <3>1, <4>1 DEF WindowRows, WindowMarkers
    <3>. QED
      BY <3>1
  <2>. QED
    BY <2>1 DEF SeenIn
<1>9. \A d \in WindowRequest : d.seq \in Nat
  BY DEF WindowRequest
<1>10. ASSUME ~restarted PROVE Numbered(SeenIn(s, more), n + 1)
  <2>. DEFINE S == SeenIn(s, way)
  <2>1. Numbered(S, n)
    BY <1>4, <1>10 DEF RowsNumbered
  <2>. HIDE DEF S
  <2>2. \A d \in S : d.seq \in Nat /\ d.seq <= n
    BY <1>8, <1>9, <2>1 DEF Numbered, S
  <2>3. \A d \in S : d.seq <= n + 1 /\ d.seq # n + 1
    BY <2>2
  <2>4. Numbered(S \cup {x}, n + 1)
    BY <1>5, <2>1, <2>3 DEF Numbered
  <2>. QED
    BY <1>7, <2>4, FewerNumbered DEF S
<1>11. RowsNumbered'
  BY <1>4, <1>5, <1>10 DEF RowsNumbered
<1>12. \A k \in DOMAIN more : more[k].time <= t
  BY <1>4, <1>5, <1>6 DEF TimesPast
<1>13. TimesPast'
  BY <1>4, <1>5, <1>12 DEF TimesPast
<1>. QED
  BY <1>1, <1>3, <1>11, <1>13 DEF r

LEMMA RequestSteps ==
    ASSUME SwInv, [SwNext]_windowVars, RowsNumbered, TimesPast
    PROVE  RowsNumbered' /\ TimesPast'
<1>1. CASE TimePasses
  <2>1. /\ clock \in Nat /\ clock' = clock + 1 /\ UNCHANGED <<session, onTheWay, traceSeq, restarted>>
        /\ session \in Seq(WindowRows) /\ onTheWay \in Seq(WindowRequest)
    BY <1>1 DEF TimePasses, driverVars, SwInv, SwTypeOK
  <2>2. \A row \in WindowRows : row.time \in Nat
    BY DEF WindowRows, WindowMarkers
  <2>3. \A r \in WindowRequest : r.time \in Nat
    BY DEF WindowRequest
  <2>4. \A k \in DOMAIN session : PastRow(session[k], clock + 1)
    <3>1. ASSUME NEW k \in DOMAIN session PROVE PastRow(session[k], clock + 1)
      <4>1. session[k] \in WindowRows
        BY <2>1
      <4>2. PastRow(session[k], clock) /\ session[k].time \in Nat
        BY <2>2, <4>1 DEF TimesPast
      <4>. QED
        BY <2>1, <4>2 DEF PastRow
    <3>. QED
      BY <3>1
  <2>5. \A k \in DOMAIN onTheWay : onTheWay[k].time <= clock + 1
    <3>1. ASSUME NEW k \in DOMAIN onTheWay PROVE onTheWay[k].time <= clock + 1
      <4>1. onTheWay[k] \in WindowRequest
        BY <2>1
      <4>2. onTheWay[k].time <= clock /\ onTheWay[k].time \in Nat
        BY <2>3, <4>1 DEF TimesPast
      <4>. QED
        BY <2>1, <4>2
    <3>. QED
      BY <3>1
  <2>. QED
    BY <2>1, <2>4, <2>5 DEF TimesPast, RowsNumbered
<1>2. CASE TraceRequest
  BY <1>2, RequestTraced
<1>3. CASE RestartTrace
  BY <1>3 DEF RestartTrace, RowsNumbered, TimesPast
<1>4. CASE HandleRecord
  BY <1>4, RequestsHandled
<1>5. CASE Marking
  BY <1>5, RequestsMarked
<1>6. CASE UpdateRates \/ (\E b \in Boxes : TickBox(b)) \/ UNCHANGED windowVars
  <2>1. UNCHANGED <<session, onTheWay, traceSeq, restarted, clock>>
    BY <1>6 DEF UpdateRates, TickBox, windowVars, driverVars
  <2>. QED
    BY <2>1 DEF TimesPast, RowsNumbered
<1>7. CASE ClearSessionRows
  <2>1. session' = <<>> /\ UNCHANGED <<onTheWay, traceSeq, restarted, clock>>
    BY <1>7 DEF ClearSessionRows, driverVars
  <2>2. SeenIn(<<>>, onTheWay) \subseteq SeenIn(session, onTheWay)
    BY DEF SeenIn
  <2>3. PICK S, T : S = SeenIn(session, onTheWay) /\ T = SeenIn(<<>>, onTheWay)
    OBVIOUS
  <2>4. PICK n : n = traceSeq
    OBVIOUS
  <2>5. ~restarted => Numbered(T, n)
    BY <2>2, <2>3, <2>4, FewerNumbered DEF RowsNumbered
  <2>. QED
    BY <2>1, <2>3, <2>4, <2>5 DEF TimesPast, RowsNumbered
<1>. QED
  BY <1>1, <1>2, <1>3, <1>4, <1>5, <1>6, <1>7 DEF SwNext, Marking

TraceRows == [kind : {"trace"}, time : Nat, request : WindowRequest]

LEMMA SameRow ==
    ASSUME NEW a \in TraceRows, NEW b \in TraceRows, a.time = b.time, a.request = b.request
    PROVE  a = b
<1>1. a.kind = b.kind
  BY DEF TraceRows
<1>2. a = [kind |-> a.kind, time |-> a.time, request |-> a.request]
      /\ b = [kind |-> b.kind, time |-> b.time, request |-> b.request]
  BY DEF TraceRows
<1>. QED
  BY <1>1, <1>2

LEMMA DetailsAre ==
    ASSUME SwInv, RowsListed, RowsNumbered, TimesPast
    PROVE  DetailsOfRow
<1>1. SUFFICES ASSUME ~restarted, NEW row \in Range(list), row.kind = "trace"
               PROVE  Details(row) = row
  BY DEF DetailsOfRow
<1>2. session \in Seq(WindowRows) /\ Retained(log) \in Seq(WindowRows)
      /\ EndsWith(session, Retained(log))
  BY RingOfSession DEF RingKept
<1>. DEFINE r == Retained(log)
            S == {x \in Range(r) : x.kind = "trace" /\ x.request.seq = row.request.seq}
            same == Among(r, S)
<1>3. Details(row) = IF same = <<>> THEN row ELSE same[1]
  BY DEF Details
<1>4. AmongChosen(r, S) /\ same \in Seq(WindowRows)
  <2>. HIDE DEF S, r
  <2>1. PICK R \in Seq(WindowRows) : R = r
    BY <1>2 DEF r
  <2>2. PICK T : T = S
    OBVIOUS
  <2>. QED
    BY <2>1, <2>2, AmongIsChosen, AmongRows
<1>5. PICK i \in DOMAIN session : row = session[i]
  BY DEF RowsListed, ListedOf, Range
<1>6. ASSUME same # <<>> PROVE same[1] = row
  <2>1. 1 \in 1..Len(same)
    BY <1>4, <1>6
  <2>2. PICK k \in 1..Len(r) : same[1] = r[k] /\ r[k] \in S
    BY <1>4, <2>1 DEF AmongChosen
  <2>. DEFINE x == r[k]
  <2>3. x.kind = "trace" /\ x.request.seq = row.request.seq
    BY <2>2
  <2>. HIDE DEF S, same
  <2>4. PICK j \in DOMAIN session : x = session[j]
    <3>. DEFINE m == Len(session)
                n == Len(r)
                h == (m - n) + k
    <3>1. m \in Nat /\ n \in Nat /\ n <= m /\ DOMAIN session = 1..m /\ x = session[h]
      BY <1>2 DEF EndsWith
    <3>. HIDE DEF m, n
    <3>2. h \in 1..m
      BY <3>1 DEF n
    <3>. QED
      BY <3>1, <3>2
  <2>. HIDE DEF x
  <2>5. x.request \in SeenIn(session, onTheWay) /\ row.request \in SeenIn(session, onTheWay)
    BY <1>1, <1>5, <2>3, <2>4 DEF SeenIn
  <2>6. x.request = row.request
    BY <1>1, <2>3, <2>5 DEF RowsNumbered, Numbered
  <2>7. x \in WindowRows /\ row \in WindowRows /\ PastRow(x, clock) /\ PastRow(row, clock)
    BY <1>2, <1>5, <2>4 DEF TimesPast
  <2>8. x.time = row.time
    BY <1>1, <2>3, <2>6, <2>7 DEF PastRow
  <2>9. x \in TraceRows /\ row \in TraceRows
    BY <1>1, <2>3, <2>7 DEF WindowRows, WindowMarkers, TraceRows
  <2>10. x = row
    BY <2>6, <2>8, <2>9, SameRow
  <2>. QED
    BY <2>2, <2>10 DEF x
<1>. QED
  BY <1>3, <1>6

-----------------------------------------------------------------------------
(* The window.  Actions.                                                    *)

\* The rows of a code between two rows.
CodeRows(s, lo, hi, code) ==
    {k \in lo..hi : s[k].kind = "trace" /\ s[k].request.code = code}

Number(s, lo, hi, code) == Cardinality(CodeRows(s, lo, hi, code))

LEMMA NumberType ==
    ASSUME NEW s, NEW lo \in Int, NEW hi \in Int, NEW code
    PROVE  IsFiniteSet(CodeRows(s, lo, hi, code)) /\ Number(s, lo, hi, code) \in Nat
<1>1. IsFiniteSet(lo..hi)
  BY FS_Interval
<1>2. CodeRows(s, lo, hi, code) \subseteq lo..hi
  BY DEF CodeRows
<1>3. IsFiniteSet(CodeRows(s, lo, hi, code))
  BY <1>1, <1>2, FS_Subset
<1>. QED
  BY <1>3, FS_CardinalityType DEF Number

LEMMA NumberSame ==
    ASSUME NEW s, NEW w, NEW lo, NEW hi, NEW code, \A k \in lo..hi : w[k] = s[k]
    PROVE  Number(w, lo, hi, code) = Number(s, lo, hi, code)
<1>1. CodeRows(w, lo, hi, code) = CodeRows(s, lo, hi, code)
  BY DEF CodeRows
<1>. QED
  BY <1>1 DEF Number

LEMMA NumberParts ==
    ASSUME NEW s, NEW lo \in Int, NEW hi \in Int, NEW m \in Int, lo <= m, m <= hi, NEW code
    PROVE  Number(s, lo, hi, code) = Number(s, lo, m, code) + Number(s, m + 1, hi, code)
<1>. DEFINE A == CodeRows(s, lo, m, code)
            B == CodeRows(s, m + 1, hi, code)
            C == CodeRows(s, lo, hi, code)
<1>1. \A k : k \in lo..hi <=> k \in lo..m \/ k \in m + 1..hi
  OBVIOUS
<1>2. C = A \cup B
  BY <1>1 DEF CodeRows
<1>3. A \cap B = {}
  <2>1. \A k : ~(k \in lo..m /\ k \in m + 1..hi)
    OBVIOUS
  <2>. QED
    BY <2>1 DEF CodeRows
<1>4. m + 1 \in Int
  OBVIOUS
<1>5. IsFiniteSet(A) /\ IsFiniteSet(B) /\ Cardinality(A) \in Nat /\ Cardinality(B) \in Nat
  BY <1>4, NumberType DEF Number
<1>. HIDE DEF A, B, C
<1>6. Cardinality(A \cup B) = Cardinality(A) + Cardinality(B) - Cardinality(A \cap B)
  BY <1>5, FS_Union
<1>7. Cardinality(A \cap B) = 0
  BY <1>3, FS_EmptySet
<1>8. Cardinality(C) = Cardinality(A) + Cardinality(B)
  BY <1>2, <1>5, <1>6, <1>7
<1>. QED
  BY <1>8 DEF Number, A, B, C

\* A row that is no request does not count.
LEMMA NumberNoRow ==
    ASSUME NEW s, NEW k \in Int, NEW code, s[k].kind # "trace"
    PROVE  Number(s, k, k, code) = 0
<1>1. \A j \in k..k : j = k
  OBVIOUS
<1>2. CodeRows(s, k, k, code) = {}
  BY <1>1 DEF CodeRows
<1>. QED
  BY <1>2, FS_EmptySet DEF Number

LEMMA NumberAll ==
    ASSUME NEW s \in Seq(WindowRows), NEW code
    PROVE  Requests1(s, code) = Number(s, 1, Len(s), code)
<1>1. DOMAIN s = 1..Len(s)
  OBVIOUS
<1>2. RowsOfCode(s, code) = CodeRows(s, 1, Len(s), code)
  BY <1>1 DEF RowsOfCode, CodeRows
<1>. QED
  BY <1>2, CountOfRows DEF Number

LEMMA NumberNone ==
    ASSUME NEW s \in Seq(WindowRows), NEW code, Requests1(s, code) = 0,
           NEW lo \in 1..Len(s) + 1, NEW hi \in 0..Len(s)
    PROVE  Number(s, lo, hi, code) = 0
<1>. DEFINE A == CodeRows(s, lo, hi, code)
            B == CodeRows(s, 1, Len(s), code)
<1>1. A \subseteq B
  <2>1. lo..hi \subseteq 1..Len(s)
    OBVIOUS
  <2>. QED
    BY <2>1 DEF CodeRows
<1>2. IsFiniteSet(B) /\ Cardinality(B) = 0
  BY NumberType, NumberAll DEF Number
<1>. HIDE DEF A, B
<1>3. B = {}
  BY <1>2, FS_EmptySet
<1>4. A = {}
  BY <1>1, <1>3
<1>. QED
  BY <1>4, FS_EmptySet DEF Number, A

\* The row a is the last that marks something.
LastIs(s, text, a) ==
    a \in 1..Len(s) /\ IsMark(s[a], text) /\ \A k \in a + 1..Len(s) : ~IsMark(s[k], text)

\* What comes before a row is not later, what comes after it is not earlier.
Divides(s, a) ==
    \A k \in 1..Len(s) :
        (k < a => s[k].time <= s[a].time) /\ (k > a => s[a].time <= s[k].time)

Comes(way, t) == \A k \in DOMAIN way : t <= way[k].time

\* An action that goes on began with row a.
Opened(s, way, a) ==
    /\ LastIs(s, "start", a) /\ Divides(s, a) /\ Comes(way, s[a].time)
    /\ \A k \in a + 1..Len(s) : ~IsMark(s[k], "end")

CountedFrom(s, st, a) ==
    \A i \in DOMAIN st : st[i].actionFrom = Number(s, 1, a, st[i].code)

\* The last action began with row a and ended with row b.
Closed(s, way, a, b) ==
    /\ a < b /\ LastIs(s, "start", a) /\ LastIs(s, "end", b)
    /\ Divides(s, a) /\ Divides(s, b) /\ Comes(way, s[b].time)

LineFor(row, code) == IsMark(row, "count") /\ row.code = code

\* Its lines have the requests of their codes.
LinesWritten(s, st, a, b) ==
    /\ \A k \in b + 1..Len(s) : IsMark(s[k], "count") =>
          \E i \in DOMAIN st : st[i].code = s[k].code
    /\ \A i \in DOMAIN st :
          LET n == Number(s, a, b, st[i].code) IN
          /\ \A k \in b + 1..Len(s) : LineFor(s[k], st[i].code) => n # 0 /\ s[k].n = n
          /\ n # 0 => \E k \in b + 1..Len(s) : LineFor(s[k], st[i].code)

ActionWritten ==
    quiet =>
        /\ action => \E a \in 1..Len(session) :
                        Opened(session, onTheWay, a) /\ CountedFrom(session, stats, a)
        /\ ~action => \E a, b \in 1..Len(session) :
                        Closed(session, onTheWay, a, b) /\ LinesWritten(session, stats, a, b)

\* More rows, none of which begins, ends or counts an action.
Unmarked(row) == \A text \in {"start", "end", "count"} : ~IsMark(row, text)

Begins(w, s) == Len(s) <= Len(w) /\ \A k \in 1..Len(s) : w[k] = s[k]

Extends(w, s, t) ==
    /\ Begins(w, s)
    /\ \A k \in 1..Len(w) : k > Len(s) => Unmarked(w[k]) /\ t <= w[k].time

LEMMA DividesStill ==
    ASSUME NEW s \in Seq(WindowRows), NEW w \in Seq(WindowRows), NEW a \in 1..Len(s),
           Begins(w, s), Divides(s, a), \A k \in 1..Len(w) : k > Len(s) => s[a].time <= w[k].time
    PROVE  Divides(w, a)
<1>. DEFINE m == Len(s)
            n == Len(w)
<1>1. /\ m \in Nat /\ n \in Nat /\ m <= n /\ a \in 1..m
      /\ (\A k \in 1..m : w[k] = s[k])
      /\ \A k \in 1..n : k > m => s[a].time <= w[k].time
  BY DEF Begins
<1>2. \A k \in 1..m : (k < a => s[k].time <= s[a].time) /\ (k > a => s[a].time <= s[k].time)
  BY DEF Divides
<1>. HIDE DEF m, n
<1>3. ASSUME NEW k \in 1..n
      PROVE  (k < a => w[k].time <= w[a].time) /\ (k > a => w[a].time <= w[k].time)
  <2>1. CASE k \in 1..m
    BY <1>1, <1>2, <2>1
  <2>2. CASE k > m
    <3>1. ~(k < a) /\ s[a].time <= w[k].time /\ w[a] = s[a]
      BY <1>1, <2>2
    <3>. QED
      BY <3>1
  <2>. QED
    BY <1>1, <2>1, <2>2
<1>. QED
  BY <1>3 DEF Divides, n

LEMMA LastStill ==
    ASSUME NEW s \in Seq(WindowRows), NEW w \in Seq(WindowRows), NEW a, NEW t,
           Extends(w, s, t), NEW text \in {"start", "end", "count"}
    PROVE  /\ LastIs(s, text, a) => LastIs(w, text, a)
           /\ a \in 1..Len(s) /\ (\A k \in a + 1..Len(s) : ~IsMark(s[k], text)) =>
                 \A k \in a + 1..Len(w) : ~IsMark(w[k], text)
<1>. DEFINE m == Len(s)
            n == Len(w)
<1>1. /\ m \in Nat /\ n \in Nat /\ m <= n
      /\ (\A k \in 1..m : w[k] = s[k])
      /\ \A k \in 1..n : k > m => ~IsMark(w[k], text)
  BY DEF Extends, Unmarked, Begins
<1>. HIDE DEF m, n
<1>2. ASSUME a \in 1..m, \A k \in a + 1..m : ~IsMark(s[k], text), NEW k \in a + 1..n
      PROVE  ~IsMark(w[k], text)
  <2>1. CASE k <= m
    <3>1. k \in a + 1..m /\ k \in 1..m
      BY <1>1, <1>2, <2>1
    <3>. QED
      BY <1>1, <1>2, <3>1
  <2>2. CASE k > m
    <3>1. k \in 1..n
      BY <1>1, <1>2
    <3>. QED
      BY <1>1, <2>2, <3>1
  <2>. QED
    BY <1>1, <1>2, <2>1, <2>2
<1>3. a \in 1..m => a \in 1..n /\ w[a] = s[a]
  BY <1>1
<1>. QED
  BY <1>2, <1>3 DEF LastIs, m, n

LEMMA RowTimes == \A row \in WindowRows : row.time \in Nat
BY DEF WindowRows, WindowMarkers

\* An action is open or closed as before if the rows that follow are not earlier.
LEMMA OpenStill ==
    ASSUME NEW s \in Seq(WindowRows), NEW w \in Seq(WindowRows), NEW way, NEW rest, NEW a,
           Opened(s, way, a), Extends(w, s, s[a].time), Comes(rest, s[a].time)
    PROVE  Opened(w, rest, a)
<1>1. a \in 1..Len(s) /\ w[a] = s[a]
  BY DEF Opened, LastIs, Extends, Begins
<1>2. LastIs(w, "start", a)
  BY LastStill DEF Opened
<1>3. \A k \in a + 1..Len(w) : ~IsMark(w[k], "end")
  BY <1>1, LastStill DEF Opened
<1>4. Divides(w, a)
  BY <1>1, DividesStill DEF Opened, Extends
<1>. QED
  BY <1>1, <1>2, <1>3, <1>4 DEF Opened

LEMMA ClosedStill ==
    ASSUME NEW s \in Seq(WindowRows), NEW w \in Seq(WindowRows), NEW way, NEW rest, NEW a, NEW b,
           Closed(s, way, a, b), Extends(w, s, s[b].time), Comes(rest, s[b].time)
    PROVE  Closed(w, rest, a, b)
<1>1. /\ a \in 1..Len(s) /\ b \in 1..Len(s) /\ w[a] = s[a] /\ w[b] = s[b]
  BY DEF Closed, LastIs, Extends, Begins
<1>2. LastIs(w, "start", a) /\ LastIs(w, "end", b)
  BY LastStill DEF Closed
<1>3. Divides(w, b)
  BY <1>1, DividesStill DEF Closed, Extends
<1>4. \A k \in 1..Len(w) : k > Len(s) => s[a].time <= w[k].time
  <2>1. s[a].time <= s[b].time
    BY <1>1 DEF Closed, Divides
  <2>2. s[a].time \in Nat /\ s[b].time \in Nat
    <3>1. s[a] \in WindowRows /\ s[b] \in WindowRows
      BY <1>1
    <3>. QED
      BY <3>1, RowTimes
  <2>3. \A k \in 1..Len(w) : w[k].time \in Nat
    <3>1. \A k \in 1..Len(w) : w[k] \in WindowRows
      OBVIOUS
    <3>. QED
      BY <3>1, RowTimes
  <2>4. \A k \in 1..Len(w) : k > Len(s) => s[b].time <= w[k].time
    BY DEF Extends
  <2>. QED
    BY <2>1, <2>2, <2>3, <2>4
<1>5. Divides(w, a)
  BY <1>1, <1>4, DividesStill DEF Closed, Extends
<1>. QED
  BY <1>1, <1>2, <1>3, <1>5 DEF Closed

LEMMA NumberStill ==
    ASSUME NEW s \in Seq(WindowRows), NEW w \in Seq(WindowRows), NEW t, Extends(w, s, t),
           NEW lo \in 1..Len(s) + 1, NEW hi \in 0..Len(s), NEW code
    PROVE  Number(w, lo, hi, code) = Number(s, lo, hi, code)
<1>1. \A k \in lo..hi : k \in 1..Len(s)
  OBVIOUS
<1>2. \A k \in lo..hi : w[k] = s[k]
  BY <1>1 DEF Extends, Begins
<1>. QED
  BY <1>2, NumberSame

\* Statistics that keep what an action began with; a code that is new has no row.
StatsGoOn(st, next, s) ==
    /\ \A i \in DOMAIN st : i \in DOMAIN next
    /\ \A i \in DOMAIN next :
          IF i \in DOMAIN st
          THEN next[i].code = st[i].code /\ next[i].actionFrom = st[i].actionFrom
          ELSE next[i].actionFrom = 0 /\ Requests1(s, next[i].code) = 0

LEMMA FromStill ==
    ASSUME NEW s \in Seq(WindowRows), NEW w \in Seq(WindowRows), NEW t, Extends(w, s, t),
           NEW st, NEW next, StatsGoOn(st, next, s), NEW a \in 1..Len(s), CountedFrom(s, st, a)
    PROVE  CountedFrom(w, next, a)
<1>1. SUFFICES ASSUME NEW i \in DOMAIN next
               PROVE  next[i].actionFrom = Number(w, 1, a, next[i].code)
  BY DEF CountedFrom
<1>2. 1 \in 1..Len(s) + 1 /\ a \in 0..Len(s)
  OBVIOUS
<1>3. Number(w, 1, a, next[i].code) = Number(s, 1, a, next[i].code)
  BY <1>2, NumberStill
<1>4. CASE i \in DOMAIN st
  BY <1>3, <1>4 DEF StatsGoOn, CountedFrom
<1>5. CASE i \notin DOMAIN st
  <2>1. next[i].actionFrom = 0 /\ Requests1(s, next[i].code) = 0
    BY <1>5 DEF StatsGoOn
  <2>. QED
    BY <1>2, <1>3, <2>1, NumberNone
<1>. QED
  BY <1>4, <1>5

LEMMA LinesStill ==
    ASSUME NEW s \in Seq(WindowRows), NEW w \in Seq(WindowRows), NEW t, Extends(w, s, t),
           NEW st, NEW next, StatsGoOn(st, next, s),
           NEW a \in 1..Len(s), NEW b \in 1..Len(s), LinesWritten(s, st, a, b)
    PROVE  LinesWritten(w, next, a, b)
<1>. DEFINE m == Len(s)
            n == Len(w)
<1>1. /\ m \in Nat /\ n \in Nat /\ m <= n /\ a \in 1..m /\ b \in 1..m
      /\ (\A k \in 1..m : w[k] = s[k])
      /\ \A k \in 1..n : k > m => ~IsMark(w[k], "count")
  BY DEF Extends, Unmarked, Begins
<1>2. \A code : Number(w, a, b, code) = Number(s, a, b, code)
  <2>1. a \in 1..m + 1 /\ b \in 0..m
    BY <1>1
  <2>. QED
    BY <2>1, NumberStill
<1>3. ASSUME NEW k \in b + 1..n, IsMark(w[k], "count")
      PROVE  k \in b + 1..m /\ w[k] = s[k]
  <2>1. k \in 1..n
    BY <1>1, <1>3
  <2>. QED
    BY <1>1, <1>3, <2>1
<1>4. \A k \in b + 1..m : k \in b + 1..n /\ w[k] = s[k]
  BY <1>1
<1>5. /\ \A k \in b + 1..m : IsMark(s[k], "count") => \E i \in DOMAIN st : st[i].code = s[k].code
      /\ \A i \in DOMAIN st :
            LET x == Number(s, a, b, st[i].code) IN
            /\ \A k \in b + 1..m : LineFor(s[k], st[i].code) => x # 0 /\ s[k].n = x
            /\ x # 0 => \E k \in b + 1..m : LineFor(s[k], st[i].code)
  BY DEF LinesWritten
<1>. HIDE DEF m, n
<1>6. ASSUME NEW k \in b + 1..n, IsMark(w[k], "count")
      PROVE  \E i \in DOMAIN next : next[i].code = w[k].code
  <2>1. PICK i \in DOMAIN st : st[i].code = w[k].code
    BY <1>3, <1>5, <1>6
  <2>2. i \in DOMAIN next /\ next[i].code = st[i].code
    BY <2>1 DEF StatsGoOn
  <2>. QED
    BY <2>1, <2>2
<1>7. ASSUME NEW i \in DOMAIN next
      PROVE  LET x == Number(w, a, b, next[i].code) IN
             /\ \A k \in b + 1..n : LineFor(w[k], next[i].code) => x # 0 /\ w[k].n = x
             /\ x # 0 => \E k \in b + 1..n : LineFor(w[k], next[i].code)
  <2>. DEFINE x == Number(s, a, b, next[i].code)
  <2>1. Number(w, a, b, next[i].code) = x
    BY <1>2
  <2>2. CASE i \in DOMAIN st
    <3>1. next[i].code = st[i].code
      BY <2>2 DEF StatsGoOn
    <3>2. /\ \A k \in b + 1..m : LineFor(s[k], next[i].code) => x # 0 /\ s[k].n = x
          /\ x # 0 => \E k \in b + 1..m : LineFor(s[k], next[i].code)
      BY <1>5, <2>2, <3>1
    <3>. HIDE DEF x
    <3>3. \A k \in b + 1..n : LineFor(w[k], next[i].code) => x # 0 /\ w[k].n = x
      BY <1>3, <3>2 DEF LineFor
    <3>4. x # 0 => \E k \in b + 1..n : LineFor(w[k], next[i].code)
      BY <1>4, <3>2
    <3>. QED
      BY <2>1, <3>3, <3>4
  <2>3. CASE i \notin DOMAIN st
    <3>1. x = 0 /\ \A c \in DOMAIN st : st[c].code = next[i].code =>
                       Number(s, a, b, st[c].code) = 0
      <4>1. Requests1(s, next[i].code) = 0
        BY <2>3 DEF StatsGoOn
      <4>2. a \in 1..Len(s) + 1 /\ b \in 0..Len(s)
        BY <1>1
      <4>3. x = 0
        BY <4>1, <4>2, NumberNone
      <4>. QED
        BY <4>3
    <3>2. ASSUME NEW k \in b + 1..n, LineFor(w[k], next[i].code) PROVE FALSE
      <4>1. IsMark(w[k], "count") /\ w[k].code = next[i].code
        BY <3>2 DEF LineFor
      <4>2. k \in b + 1..m /\ w[k] = s[k]
        BY <1>3, <4>1
      <4>3. PICK c \in DOMAIN st : st[c].code = s[k].code
        BY <1>5, <4>1, <4>2
      <4>4. LineFor(s[k], st[c].code)
        BY <4>1, <4>2, <4>3 DEF LineFor
      <4>5. Number(s, a, b, st[c].code) # 0
        BY <1>5, <4>2, <4>4
      <4>. QED
        BY <3>1, <4>1, <4>2, <4>3, <4>5
    <3>. QED
      BY <2>1, <3>1, <3>2
  <2>. QED
    BY <2>2, <2>3
<1>. QED
  BY <1>6, <1>7 DEF LinesWritten, n

LEMMA ConcatParts ==
    ASSUME NEW S, NEW p \in Seq(S), NEW q \in Seq(S)
    PROVE  /\ Len(p) \in Nat /\ Len(q) \in Nat /\ Len(p \o q) = Len(p) + Len(q)
           /\ \A k \in 1..Len(p) : (p \o q)[k] = p[k]
           /\ \A k \in 1..Len(q) : (p \o q)[Len(p) + k] = q[k]
OBVIOUS

\* What follows a first element.
LEMMA OneBefore ==
    ASSUME NEW S, NEW p \in Seq(S), NEW q \in Seq(S), Len(p) = 1
    PROVE  /\ Len(p \o q) = Len(q) + 1 /\ (p \o q)[1] = p[1] /\ Len(q) \in Nat
           /\ \A k \in 1..Len(q) : (p \o q)[k + 1] = q[k]
<1>. DEFINE c == p \o q
            m == Len(p)
            n == Len(q)
<1>. HIDE DEF m
<1>1. /\ m \in Nat /\ n \in Nat /\ Len(c) = m + n
      /\ (\A k \in 1..m : c[k] = p[k]) /\ \A k \in 1..n : c[m + k] = q[k]
  BY ConcatParts DEF m
<1>. HIDE DEF c, n
<1>2. m = 1
  BY DEF m
<1>3. 1 \in 1..m /\ \A k \in 1..n : k + 1 = m + k
  BY <1>1, <1>2
<1>4. c[1] = p[1] /\ Len(c) = n + 1
  BY <1>1, <1>2, <1>3
<1>5. \A k \in 1..n : c[k + 1] = q[k]
  BY <1>1, <1>3
<1>. QED
  BY <1>1, <1>4, <1>5 DEF c, n

\* The rows after an action has ended.
LEMMA ActionEnds ==
    ASSUME SwInv, TimesPast, NEW a \in 1..Len(session), Opened(session, onTheWay, a),
           CountedFrom(session, stats, a)
    PROVE  LET w == session \o (<<Mark("end")>> \o CountLines)  b == Len(session) + 1 IN
           b \in 1..Len(w) /\ a \in 1..Len(w) /\ Closed(w, <<>>, a, b) /\ LinesWritten(w, stats, a, b)
<1>. DEFINE l == CountLines
            m == <<Mark("end")>> \o l
            w == session \o m
            h == Len(session)
            b == h + 1
            n == Len(w)
<1>1. /\ session \in Seq(WindowRows) /\ clock \in Nat /\ stats \in Seq(Stat) /\ SwTypeOK
      /\ CountsExact /\ h \in Nat
  BY DEF SwInv, SwTypeOK
<1>2. l \in Seq(WindowMarkers) /\ MarkedNow(l, clock)
  BY <1>1, LinesNow
<1>3. \/ LinesTell(l, Len(stats))
      \/ l = <<Mark("none")>> /\ LinesTell(<<>>, Len(stats))
  BY <1>1, LinesAreTold
<1>4. /\ m \in Seq(WindowMarkers) /\ MarkedNow(m, clock) /\ Len(m) = Len(l) + 1
      /\ Len(l) \in Nat /\ IsMark(m[1], "end") /\ \A k \in 1..Len(l) : m[k + 1] = l[k]
  <2>. DEFINE e == <<Mark("end")>>
  <2>1. e \in Seq(WindowMarkers) /\ MarkedNow(e, clock) /\ Len(e) = 1 /\ IsMark(e[1], "end")
    BY <1>1, OneMark
  <2>. HIDE DEF e, l
  <2>2. PICK p \in Seq(WindowMarkers), q \in Seq(WindowMarkers), t \in Nat :
           p = e /\ q = l /\ t = clock
    BY <1>1, <1>2, <2>1
  <2>3. p \o q \in Seq(WindowMarkers) /\ MarkedNow(p \o q, t)
    <3>1. MarkedNow(p, t) /\ MarkedNow(q, t)
      BY <1>2, <2>1, <2>2
    <3>. QED
      BY <3>1, MarkedTogether
  <2>4. /\ Len(p \o q) = Len(q) + 1 /\ (p \o q)[1] = p[1] /\ Len(q) \in Nat
        /\ \A k \in 1..Len(q) : (p \o q)[k + 1] = q[k]
    <3>1. Len(p) = 1
      BY <2>1, <2>2
    <3>. QED
      BY <3>1, OneBefore
  <2>. QED
    BY <2>1, <2>2, <2>3, <2>4 DEF e
<1>. HIDE DEF l, m
<1>5. /\ w \in Seq(WindowRows) /\ n = h + Len(m) /\ (\A k \in 1..h : w[k] = session[k])
      /\ (\A k \in 1..Len(m) : w[h + k] = m[k])
      /\ \A k \in 1..n : k > h => w[k].kind = "marker" /\ w[k].time = clock
  <2>1. PICK s \in Seq(WindowRows), x \in Seq(WindowMarkers), t \in Nat :
           s = session /\ x = m /\ t = clock
    BY <1>1, <1>4
  <2>2. MarkedNow(x, t)
    BY <1>4, <2>1
  <2>. QED
    BY <2>1, <2>2, AfterMarkers
<1>. HIDE DEF w, h, n
<1>6. /\ n = b + Len(l) /\ IsMark(w[b], "end") /\ b \in 1..n /\ a \in 1..h /\ a \in 1..n
      /\ \A k \in 1..Len(l) : w[b + k] = l[k]
  <2>1. a \in 1..h /\ 1 \in 1..Len(m) /\ \A k \in 1..Len(l) : k + 1 \in 1..Len(m) /\ h + (k + 1) = b + k
    BY <1>1, <1>4 DEF h
  <2>2. \A k \in 1..Len(l) : w[b + k] = l[k]
    BY <1>4, <1>5, <2>1
  <2>3. n = b + Len(l) /\ b \in 1..n /\ a \in 1..n
    BY <1>1, <1>4, <1>5, <2>1
  <2>. QED
    BY <1>4, <1>5, <2>1, <2>2, <2>3
<1>7. ASSUME NEW k \in b + 1..n
      PROVE  /\ ~IsMark(w[k], "start") /\ ~IsMark(w[k], "end")
             /\ IsMark(w[k], "count") =>
                  \E j \in 1..Len(stats) :
                     stats[j].count - stats[j].actionFrom # 0 /\ w[k] = LineOf(j)
  <2>1. k - b \in 1..Len(l) /\ b + (k - b) = k
    BY <1>1, <1>4, <1>6
  <2>2. w[k] = l[k - b]
    BY <1>6, <2>1
  <2>3. CASE LinesTell(l, Len(stats))
    <3>1. PICK j \in 1..Len(stats) : stats[j].count - stats[j].actionFrom # 0 /\ w[k] = LineOf(j)
      BY <2>1, <2>2, <2>3 DEF LinesTell
    <3>2. w[k].text = "count"
      BY <3>1 DEF LineOf, Marker
    <3>. QED
      BY <3>1, <3>2 DEF IsMark
  <2>4. CASE l = <<Mark("none")>>
    <3>1. k - b = 1
      BY <2>1, <2>4
    <3>2. w[k] = Mark("none")
      BY <2>2, <2>4, <3>1
    <3>3. Mark("none").text = "none"
      BY DEF Mark, Marker
    <3>. QED
      BY <3>2, <3>3 DEF IsMark
  <2>. QED
    BY <1>3, <2>3, <2>4
<1>8. ASSUME NEW j \in 1..Len(stats), stats[j].count - stats[j].actionFrom # 0
      PROVE  \E k \in b + 1..n : w[k] = LineOf(j)
  <2>1. LinesTell(l, Len(stats))
    <3>1. ~LinesTell(<<>>, Len(stats))
      BY <1>8 DEF LinesTell
    <3>. QED
      BY <1>3, <3>1
  <2>2. PICK k \in 1..Len(l) : l[k] = LineOf(j)
    BY <1>8, <2>1 DEF LinesTell
  <2>3. b + k \in b + 1..n
    BY <1>1, <1>4, <1>6
  <2>. QED
    BY <1>6, <2>2, <2>3
<1>9. /\ LastIs(session, "start", a) /\ Divides(session, a)
      /\ \A k \in a + 1..h : ~IsMark(session[k], "end")
  BY DEF Opened, h
<1>10. LastIs(w, "start", a)
  <2>1. IsMark(w[a], "start")
    BY <1>5, <1>6, <1>9 DEF LastIs
  <2>2. ASSUME NEW k \in a + 1..n PROVE ~IsMark(w[k], "start")
    <3>1. CASE k <= h
      <4>1. k \in a + 1..h /\ k \in 1..h
        BY <1>1, <1>6, <3>1
      <4>. QED
        BY <1>5, <1>9, <4>1 DEF LastIs, h
    <3>2. CASE k = b
      BY <1>6, <3>2 DEF IsMark
    <3>3. CASE k > b
      <4>1. k \in b + 1..n
        BY <1>1, <3>3
      <4>. QED
        BY <1>7, <4>1
    <3>. QED
      BY <1>1, <3>1, <3>2, <3>3
  <2>. QED
    BY <1>6, <2>1, <2>2 DEF LastIs, n
<1>11. LastIs(w, "end", b)
  BY <1>6, <1>7 DEF LastIs, n
<1>12. \A k \in 1..h : session[k].time <= clock /\ session[k] \in WindowRows
  <2>1. DOMAIN session = 1..h
    BY <1>1 DEF h
  <2>. QED
    BY <1>1, <2>1 DEF TimesPast, PastRow
<1>13. Divides(w, a)
  <2>1. Begins(w, session)
    BY <1>1, <1>4, <1>5 DEF Begins, h, n
  <2>2. \A k \in 1..n : k > h => session[a].time <= w[k].time
    BY <1>5, <1>6, <1>12
  <2>3. PICK s \in Seq(WindowRows) : s = session
    BY <1>1
  <2>. QED
    BY <1>5, <1>6, <1>9, <2>1, <2>2, <2>3, DividesStill DEF h, n
<1>14. Divides(w, b)
  <2>1. w[b].time = clock
    BY <1>1, <1>5, <1>6
  <2>2. ASSUME NEW k \in 1..n PROVE /\ k < b => w[k].time <= w[b].time
                                    /\ k > b => w[b].time <= w[k].time
    <3>1. CASE k <= h
      <4>1. k \in 1..h /\ ~(k > b)
        BY <1>1, <3>1
      <4>. QED
        BY <1>5, <1>12, <2>1, <4>1
    <3>2. CASE k > h
      <4>1. w[k].time = clock /\ ~(k < b)
        BY <1>1, <1>5, <3>2
      <4>. QED
        BY <1>1, <2>1, <4>1
    <3>. QED
      BY <1>1, <3>1, <3>2
  <2>. QED
    BY <2>2 DEF Divides, n
<1>15. Closed(w, <<>>, a, b)
  <2>1. a < b /\ Comes(<<>>, w[b].time)
    BY <1>1, <1>6 DEF Comes
  <2>. QED
    BY <1>10, <1>11, <1>13, <1>14, <2>1 DEF Closed
<1>16. ASSUME NEW i \in 1..Len(stats)
       PROVE  Number(w, a, b, stats[i].code) = stats[i].count - stats[i].actionFrom
  <2>. DEFINE c == stats[i].code
  <2>1. stats[i].actionFrom = Number(session, 1, a, c) /\ stats[i].count = Number(session, 1, h, c)
    <3>1. DOMAIN stats = 1..Len(stats)
      BY <1>1
    <3>2. stats[i].count = Requests1(session, c)
      BY <3>1 DEF SwInv, CountsExact
    <3>3. PICK s \in Seq(WindowRows) : s = session
      BY <1>1
    <3>4. Requests1(s, c) = Number(s, 1, Len(s), c)
      BY NumberAll
    <3>. QED
      BY <3>1, <3>2, <3>3, <3>4 DEF CountedFrom, h
  <2>2. session[a].kind # "trace" /\ w[a].kind # "trace" /\ w[b].kind # "trace"
    BY <1>5, <1>6, <1>9, <1>11 DEF LastIs, IsMark
  <2>3. a \in Int /\ b \in Int /\ h \in Int /\ 1 <= a /\ a <= h /\ a <= b /\ h <= b /\ h + 1 = b
        /\ a + 1 \in Int /\ a + 1 <= b
    BY <1>1, <1>6
  <2>. HIDE DEF c, b
  <2>4. Number(session, 1, h, c) = Number(session, 1, a, c) + Number(session, a + 1, h, c)
    BY <2>3, NumberParts
  <2>5. Number(w, a, b, c) = Number(w, a, a, c) + Number(w, a + 1, b, c)
    BY <2>3, NumberParts
  <2>6. Number(w, a + 1, b, c) = Number(w, a + 1, h, c) + Number(w, b, b, c)
    <3>1. CASE a + 1 <= h
      <4>1. Number(w, a + 1, b, c) = Number(w, a + 1, h, c) + Number(w, h + 1, b, c)
        BY <2>3, <3>1, NumberParts
      <4>. QED
        BY <2>3, <4>1
    <3>2. CASE a = h
      <4>1. \A k : ~(k \in a + 1..h)
        BY <2>3, <3>2
      <4>2. CodeRows(w, a + 1, h, c) = {}
        BY <4>1 DEF CodeRows
      <4>3. Number(w, a + 1, h, c) = 0
        BY <4>2, FS_EmptySet DEF Number
      <4>4. Number(w, b, b, c) \in Nat
        BY <2>3, NumberType
      <4>. QED
        BY <2>3, <3>2, <4>3, <4>4
    <3>. QED
      BY <2>3, <3>1, <3>2
  <2>7. Number(w, a, a, c) = 0 /\ Number(w, b, b, c) = 0
    BY <2>2, <2>3, NumberNoRow
  <2>8. Number(w, a + 1, h, c) = Number(session, a + 1, h, c)
    <3>1. \A k \in a + 1..h : k \in 1..h
      BY <2>3
    <3>2. \A k \in a + 1..h : w[k] = session[k]
      BY <1>5, <3>1
    <3>3. PICK s : s = session
      OBVIOUS
    <3>. QED
      BY <3>2, <3>3, NumberSame
  <2>9. Number(session, 1, a, c) \in Nat /\ Number(session, a + 1, h, c) \in Nat
    BY <2>3, NumberType
  <2>10. Number(w, a, b, c) = stats[i].count - stats[i].actionFrom
    BY <2>1, <2>4, <2>5, <2>6, <2>7, <2>8, <2>9
  <2>. QED
    BY <2>10 DEF c
<1>17. LinesWritten(w, stats, a, b)
  <2>1. DOMAIN stats = 1..Len(stats)
    BY <1>1
  <2>2. ASSUME NEW j \in 1..Len(stats)
        PROVE  /\ IsMark(LineOf(j), "count") /\ LineOf(j).code = stats[j].code
               /\ LineOf(j).n = stats[j].count - stats[j].actionFrom
    BY DEF LineOf, Marker, IsMark
  <2>3. ASSUME NEW k \in b + 1..n, IsMark(w[k], "count")
        PROVE  \E j \in 1..Len(stats) :
                  /\ stats[j].code = w[k].code /\ w[k].n # 0
                  /\ w[k].n = Number(w, a, b, w[k].code)
    <3>1. PICK j \in 1..Len(stats) : stats[j].count - stats[j].actionFrom # 0 /\ w[k] = LineOf(j)
      BY <1>7, <2>3
    <3>2. stats[j].code = w[k].code /\ w[k].n = stats[j].count - stats[j].actionFrom
      BY <2>2, <3>1
    <3>3. Number(w, a, b, stats[j].code) = stats[j].count - stats[j].actionFrom
      BY <1>16
    <3>. QED
      BY <3>1, <3>2, <3>3
  <2>4. ASSUME NEW i \in 1..Len(stats), Number(w, a, b, stats[i].code) # 0
        PROVE  \E k \in b + 1..n : LineFor(w[k], stats[i].code)
    <3>1. PICK k \in b + 1..n : w[k] = LineOf(i)
      BY <1>8, <1>16, <2>4
    <3>. QED
      BY <2>2, <3>1 DEF LineFor
  <2>5. ASSUME NEW i \in 1..Len(stats), NEW k \in b + 1..n, LineFor(w[k], stats[i].code)
        PROVE  Number(w, a, b, stats[i].code) # 0 /\ w[k].n = Number(w, a, b, stats[i].code)
    <3>1. IsMark(w[k], "count") /\ w[k].code = stats[i].code
      BY <2>5 DEF LineFor
    <3>. QED
      BY <2>3, <3>1
  <2>. HIDE DEF b
  <2>. QED
    BY <2>1, <2>3, <2>4, <2>5 DEF LinesWritten, n
<1>. QED
  BY <1>6, <1>15, <1>17 DEF w, h, n, m, l

\* A step that shows the action nothing but more rows and more requests.
LEMMA ActionStays ==
    ASSUME SwTypeOK, session' \in Seq(WindowRows), TimesPast, ActionWritten, UNCHANGED actVars,
           StatsGoOn(stats, stats', session),
           \A t \in Nat : t <= clock /\ Comes(onTheWay, t) =>
              Extends(session', session, t) /\ Comes(onTheWay', t)
    PROVE  ActionWritten'
<1>1. PICK s \in Seq(WindowRows), w \in Seq(WindowRows) : s = session /\ w = session'
  BY DEF SwTypeOK
<1>2. PICK way, rest, st, next :
         way = onTheWay /\ rest = onTheWay' /\ st = stats /\ next = stats'
  OBVIOUS
<1>3. StatsGoOn(st, next, s)
  BY <1>1, <1>2
<1>4. ASSUME NEW a \in 1..Len(s), Comes(way, s[a].time)
      PROVE  s[a].time \in Nat /\ Extends(w, s, s[a].time) /\ Comes(rest, s[a].time)
  <2>1. s[a].time \in Nat
    <3>1. s[a] \in WindowRows
      OBVIOUS
    <3>. QED
      BY <3>1, RowTimes
  <2>2. s[a].time <= clock
    <3>1. DOMAIN s = 1..Len(s)
      OBVIOUS
    <3>. QED
      BY <1>1, <3>1 DEF TimesPast, PastRow
  <2>. QED
    BY <1>1, <1>2, <1>4, <2>1, <2>2
<1>5. ASSUME quiet, action
      PROVE  \E a \in 1..Len(w) : Opened(w, rest, a) /\ CountedFrom(w, next, a)
  <2>1. PICK a \in 1..Len(s) : Opened(s, way, a) /\ CountedFrom(s, st, a)
    BY <1>1, <1>2, <1>5 DEF ActionWritten
  <2>2. Comes(way, s[a].time)
    BY <2>1 DEF Opened
  <2>3. s[a].time \in Nat /\ Extends(w, s, s[a].time) /\ Comes(rest, s[a].time)
    BY <1>4, <2>2
  <2>4. Opened(w, rest, a)
    BY <2>1, <2>3, OpenStill
  <2>5. CountedFrom(w, next, a)
    BY <1>3, <2>1, <2>3, FromStill
  <2>6. a \in 1..Len(w)
    BY <2>4 DEF Opened, LastIs
  <2>. QED
    BY <2>4, <2>5, <2>6
<1>6. ASSUME quiet, ~action
      PROVE  \E a, b \in 1..Len(w) : Closed(w, rest, a, b) /\ LinesWritten(w, next, a, b)
  <2>1. PICK a \in 1..Len(s), b \in 1..Len(s) :
           Closed(s, way, a, b) /\ LinesWritten(s, st, a, b)
    BY <1>1, <1>2, <1>6 DEF ActionWritten
  <2>2. Comes(way, s[b].time)
    BY <2>1 DEF Closed
  <2>3. s[b].time \in Nat /\ Extends(w, s, s[b].time) /\ Comes(rest, s[b].time)
    BY <1>4, <2>2
  <2>4. Closed(w, rest, a, b)
    BY <2>1, <2>3, ClosedStill
  <2>5. LinesWritten(w, next, a, b)
    BY <1>3, <2>1, <2>3, LinesStill
  <2>6. a \in 1..Len(w) /\ b \in 1..Len(w)
    BY <2>4 DEF Closed, LastIs
  <2>. QED
    BY <2>4, <2>5, <2>6
<1>7. quiet' = quiet /\ action' = action
  BY DEF actVars
<1>. QED
  BY <1>1, <1>2, <1>5, <1>6, <1>7 DEF ActionWritten

\* A row more.
LEMMA RowAfter ==
    ASSUME NEW s \in Seq(WindowRows), NEW r \in WindowRows
    PROVE  LET w == Append(s, r) IN
           /\ s \o <<r>> = w /\ w \in Seq(WindowRows) /\ Len(w) = Len(s) + 1
           /\ w[Len(s) + 1] = r /\ Begins(w, s)
<1>. DEFINE w == Append(s, r)
<1>1. s \o <<r>> = w
  OBVIOUS
<1>2. w \in Seq(WindowRows) /\ Len(w) = Len(s) + 1 /\ w[Len(s) + 1] = r
      /\ \A k \in 1..Len(s) : w[k] = s[k]
  OBVIOUS
<1>3. Len(s) \in Nat
  OBVIOUS
<1>. HIDE DEF w
<1>4. Begins(w, s)
  BY <1>2, <1>3 DEF Begins
<1>. QED
  BY <1>1, <1>2, <1>4 DEF w

LEMMA RowExtends ==
    ASSUME NEW s \in Seq(WindowRows), NEW r \in WindowRows, NEW t \in Nat, t <= r.time, Unmarked(r)
    PROVE  Extends(Append(s, r), s, t)
<1>. DEFINE w == Append(s, r)
<1>1. /\ w \in Seq(WindowRows) /\ Len(w) = Len(s) + 1
      /\ w[Len(s) + 1] = r /\ Begins(w, s)
  BY RowAfter
<1>2. Len(s) \in Nat
  OBVIOUS
<1>. HIDE DEF w
<1>3. \A k \in 1..Len(w) : k > Len(s) => k = Len(s) + 1
  BY <1>1, <1>2
<1>. QED
  BY <1>1, <1>3 DEF Extends, w

LEMMA HandledStays ==
    ASSUME SwInv, SwInv', TimesPast, ActionWritten, HandleRecord
    PROVE  ActionWritten'
<1>1. PICK e \in WindowRequest :
           /\ e = Head(onTheWay) /\ TraceRow(e) \in WindowRows
           /\ TraceRow(e).kind = "trace" /\ e.time \in Nat
  BY HandledIs
<1>2. /\ SwTypeOK /\ session \in Seq(WindowRows) /\ session' \in Seq(WindowRows)
      /\ onTheWay \in Seq(WindowRequest)
  BY DEF SwInv, SwTypeOK
<1>3. /\ UNCHANGED actVars /\ session' = Append(session, TraceRow(e)) /\ onTheWay # <<>>
      /\ onTheWay' = Tail(onTheWay)
  BY <1>1 DEF HandleRecord
<1>4. CountedFor(e)
  BY <1>1, HandledCounts
<1>5. StatsGoOn(stats, stats', session)
  <2>1. \A i \in DOMAIN stats : i \in DOMAIN stats'
    BY <1>4 DEF CountedFor
  <2>2. ASSUME NEW i \in DOMAIN stats'
        PROVE  IF i \in DOMAIN stats
               THEN stats'[i].code = stats[i].code /\ stats'[i].actionFrom = stats[i].actionFrom
               ELSE stats'[i].actionFrom = 0 /\ Requests1(session, stats'[i].code) = 0
    <3>1. PICK s \in Stat : /\ i \in DOMAIN stats => s = stats[i]
                            /\ i \notin DOMAIN stats =>
                                  s = NewStat(e.code) /\ Requests1(session, e.code) = 0
                            /\ stats'[i] = IF s.code = e.code THEN Counted1(s, e) ELSE s
      BY <1>4, <2>2 DEF CountedFor
    <3>2. stats'[i].code = s.code /\ stats'[i].actionFrom = s.actionFrom
      BY <3>1, CountedIs
    <3>3. NewStat(e.code).code = e.code /\ NewStat(e.code).actionFrom = 0
      BY DEF NewStat
    <3>. QED
      BY <3>1, <3>2, <3>3
  <2>. QED
    BY <2>1, <2>2 DEF StatsGoOn
<1>6. ASSUME NEW t \in Nat, Comes(onTheWay, t)
      PROVE  Extends(session', session, t) /\ Comes(onTheWay', t)
  <2>1. PICK way \in Seq(WindowRequest) : way = onTheWay /\ way # <<>>
    BY <1>2, <1>3
  <2>2. /\ 1 \in DOMAIN way /\ Head(way) = way[1]
        /\ \A k \in DOMAIN Tail(way) : k + 1 \in DOMAIN way /\ Tail(way)[k] = way[k + 1]
    BY <2>1
  <2>3. t <= e.time
    BY <1>1, <1>6, <2>1, <2>2 DEF Comes
  <2>4. Comes(onTheWay', t)
    BY <1>3, <1>6, <2>1, <2>2 DEF Comes
  <2>5. TraceRow(e).time = e.time
    BY DEF TraceRow
  <2>6. Unmarked(TraceRow(e))
    BY <1>1 DEF Unmarked, IsMark
  <2>7. PICK s \in Seq(WindowRows), r \in WindowRows : s = session /\ r = TraceRow(e)
    BY <1>1, <1>2
  <2>8. Extends(Append(s, r), s, t)
    BY <2>3, <2>5, <2>6, <2>7, RowExtends
  <2>. QED
    BY <1>3, <2>4, <2>7, <2>8
<1>. QED
  BY <1>2, <1>3, <1>5, <1>6, ActionStays

\* Statistics whose code and beginning stay.
LEMMA KeptGoOn ==
    ASSUME NEW st, NEW next, NEW s, DOMAIN next = DOMAIN st,
           \A i \in DOMAIN st : next[i].code = st[i].code /\ next[i].actionFrom = st[i].actionFrom
    PROVE  StatsGoOn(st, next, s)
BY DEF StatsGoOn

LEMMA MarkIs ==
    ASSUME SwTypeOK, NEW text \in {"baseline", "user", "start"}
    PROVE  /\ Mark(text) \in WindowRows /\ Mark(text).kind = "marker" /\ Mark(text).time = clock
           /\ Mark(text).text = text
<1>1. text \in {"", "baseline", "user", "start", "end", "none", "count"}
  BY \A x \in {"baseline", "user", "start"} :
        x \in {"", "baseline", "user", "start", "end", "none", "count"}
<1>2. clock \in Nat
  BY DEF SwTypeOK
<1>3. Mark(text) \in WindowMarkers
  <2>1. "" \in CodesSeen \cup {""} /\ 0 \in Int
    OBVIOUS
  <2>. QED
    BY <1>1, <1>2, <2>1, MarkerType DEF Mark
<1>. QED
  BY <1>3 DEF Mark, Marker, WindowRows

LEMMA MarkedStays ==
    ASSUME SwInv, SwInv', TimesPast, ActionWritten, FinishBaseline \/ BeginBaseline \/ AddMarker
    PROVE  ActionWritten'
<1>1. /\ SwTypeOK /\ session \in Seq(WindowRows) /\ session' \in Seq(WindowRows)
      /\ stats \in Seq(Stat) /\ clock \in Nat
  BY DEF SwInv, SwTypeOK
<1>2. PICK text \in {"baseline", "user"} : session' = session \o <<Mark(text)>>
  BY DEF FinishBaseline, BeginBaseline, AddMarker, PushAndRebuild
<1>3. UNCHANGED <<actVars, onTheWay>>
  BY DEF FinishBaseline, BeginBaseline, AddMarker, driverVars
<1>4. StatsGoOn(stats, stats', session)
  <2>. DEFINE v == stats'
  <2>1. /\ DOMAIN v = DOMAIN stats
        /\ \A i \in DOMAIN stats :
              v[i].code = stats[i].code /\ v[i].actionFrom = stats[i].actionFrom
    <3>1. CASE FinishBaseline
      <4>1. v = [i \in DOMAIN stats |->
                  [stats[i] EXCEPT !.rated = stats[i].count > stats[i].learnFrom]]
        BY <3>1 DEF FinishBaseline
      <4>2. ASSUME NEW i \in DOMAIN stats
            PROVE  v[i].code = stats[i].code /\ v[i].actionFrom = stats[i].actionFrom
        <5>1. PICK s \in Stat : s = stats[i]
          BY <1>1
        <5>2. PICK x : x = (s.count > s.learnFrom)
          OBVIOUS
        <5>3. v[i] = [s EXCEPT !.rated = x]
          BY <4>1, <5>1, <5>2
        <5>. QED
          BY <5>1, <5>3 DEF Stat
      <4>. QED
        BY <4>1, <4>2
    <3>2. CASE BeginBaseline
      <4>1. v = [i \in DOMAIN stats |->
                  [stats[i] EXCEPT !.learnFrom = stats[i].count, !.rated = FALSE,
                                   !.hashes = {}, !.overflow = FALSE, !.novelAt = 0]]
        BY <3>2 DEF BeginBaseline
      <4>2. ASSUME NEW i \in DOMAIN stats
            PROVE  v[i].code = stats[i].code /\ v[i].actionFrom = stats[i].actionFrom
        <5>1. PICK s \in Stat : s = stats[i]
          BY <1>1
        <5>2. v[i] = [s EXCEPT !.learnFrom = s.count, !.rated = FALSE,
                               !.hashes = {}, !.overflow = FALSE, !.novelAt = 0]
          BY <4>1, <5>1
        <5>. QED
          BY <5>1, <5>2 DEF Stat
      <4>. QED
        BY <4>1, <4>2
    <3>3. CASE AddMarker
      BY <3>3 DEF AddMarker
    <3>. QED
      BY <3>1, <3>2, <3>3
  <2>2. PICK st, next, s : st = stats /\ next = v /\ s = session
    OBVIOUS
  <2>. HIDE DEF v
  <2>3. StatsGoOn(st, next, s)
    BY <2>1, <2>2, KeptGoOn
  <2>. QED
    BY <2>2, <2>3 DEF v
<1>5. ASSUME NEW t \in Nat, t <= clock
      PROVE  Extends(session', session, t)
  <2>1. text \in {"baseline", "user", "start"} /\ text \notin {"start", "end", "count"}
    BY \A x \in {"baseline", "user"} :
          x \in {"baseline", "user", "start"} /\ x \notin {"start", "end", "count"}
  <2>2. /\ Mark(text) \in WindowRows /\ Mark(text).time = clock /\ Mark(text).text = text
    BY <1>1, <2>1, MarkIs
  <2>3. Unmarked(Mark(text))
    BY <2>1, <2>2 DEF Unmarked, IsMark
  <2>4. PICK s \in Seq(WindowRows), r \in WindowRows : s = session /\ r = Mark(text)
    BY <1>1, <2>2
  <2>5. Extends(Append(s, r), s, t)
    BY <1>5, <2>2, <2>3, <2>4, RowExtends
  <2>6. session' = Append(s, r)
    BY <1>2, <2>4, RowAfter
  <2>. QED
    BY <2>4, <2>5, <2>6
<1>. QED
  BY <1>1, <1>3, <1>4, <1>5, ActionStays

\* The rows after an action has begun.
LEMMA ActionBegins ==
    ASSUME SwInv, SwInv', TimesPast, StartActionNamed
    PROVE  ActionWritten'
<1>. DEFINE h == Len(session)
            a == h + 1
            v == stats'
<1>1. /\ SwTypeOK /\ session \in Seq(WindowRows) /\ stats \in Seq(Stat) /\ CountsExact
      /\ h \in Nat /\ DOMAIN session = 1..h
  BY DEF SwInv, SwTypeOK
<1>2. /\ session' = session \o <<Mark("start")>> /\ action' = TRUE /\ onTheWay' = onTheWay
      /\ quiet' = (onTheWay = <<>>)
      /\ v = [i \in DOMAIN stats |-> [stats[i] EXCEPT !.actionFrom = stats[i].count]]
  BY DEF StartActionNamed, PushAndRebuild, driverVars
<1>3. /\ Mark("start") \in WindowRows /\ Mark("start").kind = "marker"
      /\ Mark("start").time = clock /\ Mark("start").text = "start"
  <2>1. "start" \in {"baseline", "user", "start"}
    OBVIOUS
  <2>. QED
    BY <1>1, <2>1, MarkIs
<1>4. PICK s \in Seq(WindowRows), r \in WindowRows : s = session /\ r = Mark("start")
  BY <1>1, <1>3
<1>. DEFINE w == Append(s, r)
<1>5. /\ session' = w /\ w \in Seq(WindowRows) /\ Len(w) = a /\ w[a] = r /\ Begins(w, s)
  BY <1>2, <1>4, RowAfter
<1>. HIDE DEF w, h
<1>6. \A k \in 1..h : w[k] = session[k] /\ k \in DOMAIN session
  BY <1>1, <1>4, <1>5 DEF Begins, h
<1>7. a \in 1..a /\ \A k \in 1..a : k # a => k \in 1..h /\ k < a
  BY <1>1
<1>8. LastIs(w, "start", a)
  BY <1>1, <1>3, <1>4, <1>5, <1>7 DEF LastIs, IsMark
<1>9. Divides(w, a)
  <2>1. \A k \in 1..h : w[k].time <= clock
    BY <1>6 DEF TimesPast, PastRow
  <2>2. w[a].time = clock
    BY <1>3, <1>4, <1>5
  <2>3. \A k \in 1..a : (k < a => k \in 1..h) /\ ~(k > a)
    BY <1>1
  <2>. QED
    BY <1>5, <2>1, <2>2, <2>3 DEF Divides
<1>10. Opened(w, <<>>, a)
  <2>1. Comes(<<>>, w[a].time)
    BY DEF Comes
  <2>2. \A k \in a + 1..Len(w) : ~IsMark(w[k], "end")
    BY <1>1, <1>5
  <2>. QED
    BY <1>8, <1>9, <2>1, <2>2 DEF Opened
<1>11. CountedFrom(w, v, a)
  <2>1. ASSUME NEW i \in DOMAIN stats
        PROVE  v[i].actionFrom = stats[i].count /\ v[i].code = stats[i].code
    <3>1. v[i] = [stats[i] EXCEPT !.actionFrom = stats[i].count]
      BY <1>2
    <3>2. stats[i] \in Stat
      BY <1>1
    <3>. QED
      BY <3>1, <3>2 DEF Stat
  <2>2. ASSUME NEW i \in DOMAIN stats
        PROVE  stats[i].count = Number(w, 1, a, stats[i].code)
    <3>. DEFINE c == stats[i].code
    <3>1. stats[i].count = Requests1(s, c)
      BY <1>1, <1>4 DEF CountsExact
    <3>2. Requests1(s, c) = Number(s, 1, h, c)
      BY <1>4, NumberAll DEF h
    <3>. HIDE DEF c
    <3>3. Number(w, 1, h, c) = Number(s, 1, h, c)
      BY <1>4, <1>6, NumberSame
    <3>4. Number(w, a, a, c) = 0
      BY <1>1, <1>3, <1>4, <1>5, NumberNoRow
    <3>5. Number(w, 1, h, c) \in Nat
      BY <1>1, NumberType
    <3>6. Number(w, 1, a, c) = Number(w, 1, h, c)
      <4>1. CASE 1 <= h
        <5>1. Number(w, 1, a, c) = Number(w, 1, h, c) + Number(w, a, a, c)
          BY <1>1, <4>1, NumberParts
        <5>. QED
          BY <3>4, <3>5, <5>1
      <4>2. CASE h = 0
        <5>1. Number(w, 1, a, c) = 0
          BY <3>4, <4>2
        <5>2. CodeRows(w, 1, h, c) = {}
          BY <4>2 DEF CodeRows
        <5>3. Number(w, 1, h, c) = 0
          BY <5>2, FS_EmptySet DEF Number
        <5>. QED
          BY <5>1, <5>3
      <4>. QED
        BY <1>1, <4>1, <4>2
    <3>. QED
      BY <3>1, <3>2, <3>3, <3>6 DEF c
  <2>3. DOMAIN v = DOMAIN stats
    BY <1>2
  <2>. HIDE DEF v
  <2>. QED
    BY <2>1, <2>2, <2>3 DEF CountedFrom
<1>12. ASSUME quiet'
       PROVE  \E x \in 1..Len(session') :
                 Opened(session', onTheWay', x) /\ CountedFrom(session', stats', x)
  <2>1. onTheWay' = <<>>
    BY <1>2, <1>12
  <2>2. a \in 1..Len(w)
    BY <1>5, <1>7
  <2>. QED
    BY <1>5, <1>10, <1>11, <2>1, <2>2
<1>. QED
  BY <1>2, <1>12 DEF ActionWritten

LEMMA ActionStart ==
    ASSUME SwInit
    PROVE  ActionWritten
BY DEF SwInit, ActionWritten

\* What the window writes of an action stays true.
LEMMA ActionSteps ==
    ASSUME SwInv, SwInv', RowsNumbered, TimesPast, ActionWritten, [SwNext]_windowVars
    PROVE  ActionWritten'
<1>1. /\ SwTypeOK /\ session \in Seq(WindowRows) /\ session' \in Seq(WindowRows)
      /\ onTheWay \in Seq(WindowRequest) /\ clock \in Nat /\ stats \in Seq(Stat)
  BY DEF SwInv, SwTypeOK
<1>2. PICK st, s : st = stats /\ s = session
  OBVIOUS
<1>3. StatsGoOn(st, st, s)
  BY KeptGoOn
<1>4. ASSUME NEW t PROVE Extends(session, session, t)
  <2>1. \A k \in 1..Len(session) : ~(k > Len(session))
    BY <1>1
  <2>. QED
    BY <1>1, <2>1 DEF Extends, Begins
<1>5. ASSUME UNCHANGED <<stats, session, actVars, onTheWay>>
      PROVE  ActionWritten'
  <2>1. StatsGoOn(stats, stats', session)
    BY <1>2, <1>3, <1>5
  <2>2. \A t \in Nat : t <= clock /\ Comes(onTheWay, t) =>
           Extends(session', session, t) /\ Comes(onTheWay', t)
    BY <1>4, <1>5
  <2>. QED
    BY <1>1, <1>5, <2>1, <2>2, ActionStays
<1>6. CASE TimePasses \/ RestartTrace \/ UpdateRates
  BY <1>5, <1>6 DEF TimePasses, RestartTrace, UpdateRates, driverVars, actVars
<1>7. CASE \E b \in Boxes : TickBox(b)
  BY <1>5, <1>7 DEF TickBox, driverVars, actVars
<1>8. CASE TraceRequest
  <2>1. UNCHANGED <<stats, session, actVars>>
    BY <1>8 DEF TraceRequest, actVars
  <2>2. StatsGoOn(stats, stats', session)
    BY <1>2, <1>3, <2>1
  <2>3. PICK r : onTheWay' = Append(onTheWay, r) /\ r.time = clock
    BY <1>1, <1>8, RequestTraced
  <2>4. ASSUME NEW t \in Nat, t <= clock, Comes(onTheWay, t)
        PROVE  Comes(onTheWay', t)
    <3>1. PICK way \in Seq(WindowRequest) : way = onTheWay
      BY <1>1
    <3>2. \A k \in DOMAIN Append(way, r) :
             IF k \in DOMAIN way THEN Append(way, r)[k] = way[k] ELSE Append(way, r)[k] = r
      OBVIOUS
    <3>. QED
      BY <2>3, <2>4, <3>1, <3>2 DEF Comes
  <2>5. \A t \in Nat : t <= clock /\ Comes(onTheWay, t) =>
           Extends(session', session, t) /\ Comes(onTheWay', t)
    BY <1>4, <2>1, <2>4
  <2>. QED
    BY <1>1, <2>1, <2>2, <2>5, ActionStays
<1>9. CASE HandleRecord
  BY <1>9, HandledStays
<1>10. CASE FinishBaseline \/ BeginBaseline \/ AddMarker
  BY <1>10, MarkedStays
<1>11. CASE StartActionNamed
  BY <1>11, ActionBegins
<1>12. CASE EndActionNow
  <2>. DEFINE m == <<Mark("end")>> \o CountLines
  <2>1. /\ session' = session \o m /\ action /\ action' = FALSE
        /\ quiet' = (quiet /\ onTheWay = <<>>) /\ UNCHANGED <<stats, onTheWay>>
    BY <1>12 DEF EndActionNow, PushAndRebuild, driverVars
  <2>2. ASSUME quiet'
        PROVE  \E x, y \in 1..Len(session') :
                  Closed(session', onTheWay', x, y) /\ LinesWritten(session', stats', x, y)
    <3>1. PICK a \in 1..Len(session) :
             Opened(session, onTheWay, a) /\ CountedFrom(session, stats, a)
      BY <2>1, <2>2 DEF ActionWritten
    <3>. DEFINE w == session \o m
                b == Len(session) + 1
    <3>2. /\ b \in 1..Len(w) /\ a \in 1..Len(w)
          /\ Closed(w, <<>>, a, b) /\ LinesWritten(w, stats, a, b)
      BY <3>1, ActionEnds
    <3>3. onTheWay' = <<>> /\ stats' = stats /\ session' = w
      BY <2>1, <2>2
    <3>. HIDE DEF w, b, m
    <3>. QED
      BY <3>2, <3>3
  <2>. QED
    BY <2>1, <2>2 DEF ActionWritten
<1>13. CASE ClearSessionRows
  BY <1>13 DEF ClearSessionRows, ActionWritten
<1>14. CASE UNCHANGED windowVars
  BY <1>5, <1>14 DEF windowVars, driverVars
<1>. QED
  BY <1>6, <1>7, <1>8, <1>9, <1>10, <1>11, <1>12, <1>13, <1>14 DEF SwNext

-----------------------------------------------------------------------------
(* The window.  The rows by their time.                                     *)

\* A set that another has room for is not larger.
LEMMA RoomFor ==
    ASSUME NEW A, IsFiniteSet(A), NEW B, IsFiniteSet(B), NEW f,
           \A x \in A : f[x] \in B, \A x, y \in A : f[x] = f[y] => x = y
    PROVE  Cardinality(A) <= Cardinality(B)
<1>. DEFINE g == [x \in A |-> f[x]]
<1>1. g \in [A -> B] /\ \A x, y \in A : g[x] = g[y] => x = y
  OBVIOUS
<1>2. Cardinality(A) \in Nat /\ Cardinality(B) \in Nat
  BY FS_CardinalityType
<1>. HIDE DEF g
<1>3. ~(Cardinality(B) < Cardinality(A))
  BY <1>1, FS_PigeonHole
<1>. QED
  BY <1>2, <1>3

\* Rows that are found again are counted again.
LEMMA NumberMoved ==
    ASSUME NEW s, NEW w, NEW lo \in Int, NEW hi \in Int, NEW from \in Int, NEW to \in Int,
           NEW code, NEW f,
           \A k \in lo..hi : f[k] \in from..to /\ w[f[k]] = s[k],
           \A j, k \in lo..hi : f[j] = f[k] => j = k
    PROVE  Number(s, lo, hi, code) <= Number(w, from, to, code)
<1>. DEFINE A == CodeRows(s, lo, hi, code)
            B == CodeRows(w, from, to, code)
<1>1. IsFiniteSet(A) /\ IsFiniteSet(B)
  BY NumberType
<1>2. \A x \in A : f[x] \in B
  BY DEF CodeRows
<1>3. \A x, y \in A : f[x] = f[y] => x = y
  BY DEF CodeRows
<1>. HIDE DEF A, B
<1>4. Cardinality(A) <= Cardinality(B)
  BY <1>1, <1>2, <1>3, RoomFor
<1>. QED
  BY <1>4 DEF Number, A, B

Shifted(w, s, lo, hi, d) == \A k \in lo..hi : w[k] = s[d + k]

LEMMA NumberShifted ==
    ASSUME NEW s, NEW w, NEW lo \in Int, NEW hi \in Int, NEW d \in Int, NEW code,
           Shifted(w, s, lo, hi, d)
    PROVE  Number(w, lo, hi, code) = Number(s, d + lo, d + hi, code)
<1>. DEFINE f == [k \in lo..hi |-> d + k]
            g == [k \in d + lo..d + hi |-> k - d]
<1>1. \A k \in lo..hi : f[k] \in d + lo..d + hi /\ s[f[k]] = w[k]
  BY DEF Shifted
<1>2. \A j, k \in lo..hi : f[j] = f[k] => j = k
  OBVIOUS
<1>3. \A k \in d + lo..d + hi : g[k] \in lo..hi /\ w[g[k]] = s[k]
  <2>1. \A k \in d + lo..d + hi : k - d \in lo..hi /\ d + (k - d) = k
    OBVIOUS
  <2>. QED
    BY <2>1 DEF Shifted
<1>4. \A j, k \in d + lo..d + hi : g[j] = g[k] => j = k
  OBVIOUS
<1>5. d + lo \in Int /\ d + hi \in Int
  OBVIOUS
<1>. HIDE DEF f, g
<1>6. Number(w, lo, hi, code) <= Number(s, d + lo, d + hi, code)
  BY <1>1, <1>2, <1>5, NumberMoved
<1>7. Number(s, d + lo, d + hi, code) <= Number(w, lo, hi, code)
  BY <1>3, <1>4, <1>5, NumberMoved
<1>8. Number(w, lo, hi, code) \in Nat /\ Number(s, d + lo, d + hi, code) \in Nat
  BY <1>5, NumberType
<1>. QED
  BY <1>6, <1>7, <1>8

Before(r, i, j) == r[i].time < r[j].time \/ (r[i].time = r[j].time /\ i < j)
Earlier(r, i) == {j \in DOMAIN r : Before(r, j, i)}
Place(r, i) == Cardinality(Earlier(r, i)) + 1
RowAt(r, k) == CHOOSE i \in DOMAIN r : Place(r, i) = k

LEMMA ByTimeIs == \A r : ByTime(r) = [k \in DOMAIN r |-> r[RowAt(r, k)]]
BY DEF ByTime, RowAt, Place, Earlier, Before

LEMMA EarlierType ==
    ASSUME NEW r \in Seq(WindowRows), NEW i \in 1..Len(r)
    PROVE  /\ IsFiniteSet(Earlier(r, i)) /\ Earlier(r, i) \subseteq (1..Len(r)) \ {i}
           /\ Place(r, i) \in 1..Len(r)
<1>. DEFINE n == Len(r)
            S == 1..n
            E == Earlier(r, i)
<1>1. n \in Nat /\ DOMAIN r = S /\ i \in S
  OBVIOUS
<1>2. E \subseteq S \ {i}
  <2>1. \A j \in S : r[j].time \in Nat
    BY <1>1, RowTimes
  <2>2. ~Before(r, i, i)
    BY <1>1, <2>1 DEF Before
  <2>. QED
    BY <1>1, <2>2 DEF Earlier
<1>3. IsFiniteSet(S) /\ Cardinality(S) = n
  BY <1>1, FS_Interval, SMTT(30)
<1>. HIDE DEF n, S, E
<1>4. IsFiniteSet(S \ {i}) /\ Cardinality(S \ {i}) = n - 1
  BY <1>1, <1>3, FS_RemoveElement
<1>5. IsFiniteSet(E) /\ Cardinality(E) <= n - 1
  BY <1>2, <1>4, FS_Subset
<1>6. Cardinality(E) \in Nat
  BY <1>5, FS_CardinalityType
<1>7. Cardinality(E) + 1 \in 1..n
  BY <1>1, <1>5, <1>6
<1>. QED
  BY <1>2, <1>5, <1>7 DEF Place, E, S, n

LEMMA PlaceOrder ==
    ASSUME NEW r \in Seq(WindowRows), NEW i \in 1..Len(r), NEW j \in 1..Len(r), Before(r, i, j)
    PROVE  Place(r, i) < Place(r, j)
<1>. DEFINE A == Earlier(r, i)
            B == Earlier(r, j)
<1>1. DOMAIN r = 1..Len(r) /\ Len(r) \in Nat
  OBVIOUS
<1>2. \A k \in 1..Len(r) : r[k].time \in Nat
  BY <1>1, RowTimes
<1>3. ASSUME NEW k \in A PROVE k \in B /\ k # i
  <2>1. k \in 1..Len(r) /\ Before(r, k, i) /\ k # i
    BY <1>1, <1>3, EarlierType DEF Earlier
  <2>2. Before(r, k, j)
    BY <1>1, <1>2, <2>1 DEF Before
  <2>. QED
    BY <1>1, <2>1, <2>2 DEF Earlier
<1>4. IsFiniteSet(A) /\ IsFiniteSet(B) /\ i \in B
  BY <1>1, EarlierType DEF Earlier
<1>. HIDE DEF A, B
<1>5. A \subseteq B \ {i}
  BY <1>3
<1>6. IsFiniteSet(B \ {i}) /\ Cardinality(B \ {i}) = Cardinality(B) - 1
  BY <1>4, FS_RemoveElement
<1>7. Cardinality(A) <= Cardinality(B \ {i})
  BY <1>5, <1>6, FS_Subset
<1>8. Cardinality(A) \in Nat /\ Cardinality(B) \in Nat
  BY <1>4, FS_CardinalityType
<1>. QED
  BY <1>6, <1>7, <1>8 DEF Place, A, B

\* Every place has one row.
LEMMA PlaceOnce ==
    ASSUME NEW r \in Seq(WindowRows), NEW i \in 1..Len(r), NEW j \in 1..Len(r),
           Place(r, i) = Place(r, j)
    PROVE  i = j
<1>1. SUFFICES ASSUME i # j PROVE FALSE
  OBVIOUS
<1>2. r[i].time \in Nat /\ r[j].time \in Nat
  <2>1. r[i] \in WindowRows /\ r[j] \in WindowRows
    OBVIOUS
  <2>. QED
    BY <2>1, RowTimes
<1>3. i \in Int /\ j \in Int
  OBVIOUS
<1>4. Before(r, i, j) \/ Before(r, j, i)
  BY <1>1, <1>2, <1>3 DEF Before
<1>5. Place(r, i) \in Nat /\ Place(r, j) \in Nat
  BY EarlierType
<1>6. Place(r, i) < Place(r, j) \/ Place(r, j) < Place(r, i)
  BY <1>4, PlaceOrder
<1>. QED
  BY <1>5, <1>6

LEMMA PlaceTaken ==
    ASSUME NEW r \in Seq(WindowRows), NEW k \in 1..Len(r)
    PROVE  \E i \in 1..Len(r) : Place(r, i) = k
<1>. DEFINE S == 1..Len(r)
            f == [i \in S |-> Place(r, i)]
<1>1. SUFFICES ASSUME \A i \in S : Place(r, i) # k PROVE FALSE
  OBVIOUS
<1>2. Len(r) \in Nat
  OBVIOUS
<1>3. IsFiniteSet(S) /\ Cardinality(S) = Len(r)
  BY <1>2, FS_Interval
<1>4. f \in [S -> S \ {k}]
  BY <1>1, EarlierType
<1>5. \A x, y \in S : f[x] = f[y] => x = y
  BY PlaceOnce
<1>. HIDE DEF f, S
<1>6. IsFiniteSet(S \ {k}) /\ Cardinality(S \ {k}) = Len(r) - 1
  BY <1>3, FS_RemoveElement DEF S
<1>7. Cardinality(S \ {k}) < Cardinality(S)
  BY <1>2, <1>3, <1>6
<1>. QED
  BY <1>3, <1>4, <1>5, <1>6, <1>7, FS_PigeonHole

LEMMA RowAtIs ==
    ASSUME NEW r \in Seq(WindowRows)
    PROVE  /\ \A k \in 1..Len(r) : RowAt(r, k) \in 1..Len(r) /\ Place(r, RowAt(r, k)) = k
           /\ \A i \in 1..Len(r) : RowAt(r, Place(r, i)) = i
<1>1. DOMAIN r = 1..Len(r)
  OBVIOUS
<1>2. ASSUME NEW k \in 1..Len(r)
      PROVE  RowAt(r, k) \in 1..Len(r) /\ Place(r, RowAt(r, k)) = k
  <2>1. \E i \in DOMAIN r : Place(r, i) = k
    BY <1>1, PlaceTaken
  <2>. QED
    BY <1>1, <2>1 DEF RowAt
<1>3. ASSUME NEW i \in 1..Len(r) PROVE RowAt(r, Place(r, i)) = i
  <2>1. Place(r, i) \in 1..Len(r)
    BY EarlierType
  <2>2. RowAt(r, Place(r, i)) \in 1..Len(r) /\ Place(r, RowAt(r, Place(r, i))) = Place(r, i)
    BY <1>2, <2>1
  <2>. QED
    BY <2>2, PlaceOnce
<1>. QED
  BY <1>2, <1>3

\* A row that divides the others keeps its place, and they their side.
LEMMA DividerStays ==
    ASSUME NEW r \in Seq(WindowRows), NEW a \in 1..Len(r), Divides(r, a)
    PROVE  /\ Place(r, a) = a
           /\ \A i \in 1..Len(r) : (i < a <=> Place(r, i) < a) /\ (i > a <=> Place(r, i) > a)
<1>1. DOMAIN r = 1..Len(r) /\ Len(r) \in Nat /\ a \in Nat
  OBVIOUS
<1>2. \A k \in 1..Len(r) : r[k].time \in Nat
  BY <1>1, RowTimes
<1>3. \A k \in 1..Len(r) : (k < a => Before(r, k, a)) /\ (k > a => Before(r, a, k))
  BY <1>1, <1>2 DEF Divides, Before
<1>4. Earlier(r, a) = 1..a - 1
  <2>1. ASSUME NEW k \in Earlier(r, a) PROVE k \in 1..a - 1
    <3>1. k \in 1..Len(r) /\ Before(r, k, a) /\ k # a
      BY <1>1, <2>1, EarlierType DEF Earlier
    <3>2. ~(k > a)
      BY <1>1, <1>2, <1>3, <3>1 DEF Before
    <3>. QED
      BY <1>1, <3>1, <3>2
  <2>2. ASSUME NEW k \in 1..a - 1 PROVE k \in Earlier(r, a)
    <3>1. k \in 1..Len(r) /\ k < a
      BY <1>1
    <3>. QED
      BY <1>1, <1>3, <3>1 DEF Earlier
  <2>. QED
    BY <2>1, <2>2
<1>5. Cardinality(1..a - 1) = a - 1
  BY <1>1, FS_Interval
<1>6. Place(r, a) = a
  BY <1>1, <1>4, <1>5 DEF Place
<1>7. ASSUME NEW i \in 1..Len(r)
      PROVE  (i < a <=> Place(r, i) < a) /\ (i > a <=> Place(r, i) > a)
  <2>1. Place(r, i) \in Nat /\ i \in Nat
    BY EarlierType
  <2>2. CASE i < a
    <3>1. Place(r, i) < a
      BY <1>3, <1>6, <2>2, PlaceOrder
    <3>. QED
      BY <1>1, <2>1, <2>2, <3>1
  <2>3. CASE i > a
    <3>1. a < Place(r, i)
      BY <1>3, <1>6, <2>3, PlaceOrder
    <3>. QED
      BY <1>1, <2>1, <2>3, <3>1
  <2>4. CASE i = a
    BY <1>1, <1>6, <2>4
  <2>. QED
    BY <1>1, <2>1, <2>2, <2>3, <2>4
<1>. QED
  BY <1>6, <1>7

\* The last row with a mark.
LEMMA LastMarkIs ==
    ASSUME NEW r \in Seq(WindowRows), NEW text
    PROVE  /\ \A a : LastIs(r, text, a) => LastMark(r, text) = a
           /\ LastMark(r, text) # 0 => \E k \in 1..Len(r) : IsMark(r[k], text)
<1>. DEFINE I == {k \in 1..Len(r) : IsMark(r[k], text)}
<1>1. LastMark(r, text) = IF I # {} THEN Max(I) ELSE 0
  BY DEF LastMark, SelectLastInSeq
<1>2. ASSUME NEW a, LastIs(r, text, a) PROVE LastMark(r, text) = a
  <2>1. a \in I /\ \A k \in I : k <= a
    <3>1. a \in 1..Len(r) /\ Len(r) \in Nat
      BY <1>2 DEF LastIs
    <3>2. ASSUME NEW k \in I PROVE k <= a
      <4>1. k \in 1..Len(r) /\ k \notin a + 1..Len(r)
        BY <1>2 DEF LastIs
      <4>. QED
        BY <3>1, <4>1
    <3>. QED
      BY <1>2, <3>2 DEF LastIs
  <2>2. \A k \in I : k \in Nat
    OBVIOUS
  <2>. HIDE DEF I
  <2>3. Max(I) \in I /\ \A k \in I : Max(I) >= k
    BY <2>1 DEF Max
  <2>4. Max(I) = a
    BY <2>1, <2>2, <2>3
  <2>. QED
    BY <1>1, <2>1, <2>4
<1>. QED
  BY <1>1, <1>2

\* What a sorted session has between two rows that divide it.
LEMMA SortedIs ==
    ASSUME NEW r \in Seq(WindowRows)
    PROVE  LET s == ByTime(r) IN
           /\ s \in Seq(WindowRows) /\ Len(s) = Len(r)
           /\ \A k \in 1..Len(r) : s[k] = r[RowAt(r, k)] /\ RowAt(r, k) \in 1..Len(r)
<1>. DEFINE n == Len(r)
            s == ByTime(r)
<1>1. n \in Nat /\ DOMAIN r = 1..n
  OBVIOUS
<1>2. \A k \in 1..n : RowAt(r, k) \in 1..n
  BY RowAtIs
<1>3. \A i \in 1..n : r[i] \in WindowRows
  BY <1>1
<1>4. s = [k \in 1..n |-> r[RowAt(r, k)]]
  BY <1>1, ByTimeIs
<1>. HIDE DEF s, n
<1>5. \A k \in 1..n : s[k] = r[RowAt(r, k)] /\ s[k] \in WindowRows
  BY <1>2, <1>3, <1>4
<1>6. s = [k \in 1..n |-> s[k]]
  BY <1>4
<1>7. s \in Seq(WindowRows) /\ Len(s) = n
  BY <1>1, <1>5, <1>6
<1>. QED
  BY <1>2, <1>5, <1>7 DEF s, n

LEMMA SortedMark ==
    ASSUME NEW r \in Seq(WindowRows), NEW a, NEW text, LastIs(r, text, a), Divides(r, a)
    PROVE  LastIs(ByTime(r), text, a)
<1>. DEFINE s == ByTime(r)
            n == Len(r)
<1>1. /\ s \in Seq(WindowRows) /\ Len(s) = n /\ n \in Nat
      /\ \A k \in 1..n : s[k] = r[RowAt(r, k)] /\ RowAt(r, k) \in 1..n
  BY SortedIs
<1>2. a \in 1..n /\ IsMark(r[a], text) /\ \A k \in a + 1..n : ~IsMark(r[k], text)
  BY DEF LastIs
<1>3. /\ Place(r, a) = a
      /\ \A i \in 1..n : i > a <=> Place(r, i) > a
  BY <1>2, DividerStays
<1>4. /\ \A k \in 1..n : Place(r, RowAt(r, k)) = k
      /\ RowAt(r, a) = a
  BY <1>2, <1>3, RowAtIs
<1>. HIDE DEF s, n
<1>5. IsMark(s[a], text)
  BY <1>1, <1>2, <1>4
<1>6. ASSUME NEW k \in a + 1..n PROVE ~IsMark(s[k], text)
  <2>1. k \in 1..n /\ k > a
    BY <1>1, <1>2
  <2>2. RowAt(r, k) \in 1..n /\ RowAt(r, k) > a
    BY <1>1, <1>3, <1>4, <2>1
  <2>3. RowAt(r, k) \in a + 1..n
    BY <1>1, <1>2, <2>2
  <2>. QED
    BY <1>1, <1>2, <2>1, <2>3
<1>. QED
  BY <1>1, <1>2, <1>5, <1>6 DEF LastIs, s

LEMMA SortedNumber ==
    ASSUME NEW r \in Seq(WindowRows), NEW a \in 1..Len(r), NEW b \in 1..Len(r), NEW code,
           Divides(r, a), Divides(r, b)
    PROVE  Number(ByTime(r), a, b, code) = Number(r, a, b, code)
<1>. DEFINE s == ByTime(r)
            n == Len(r)
            f == [k \in a..b |-> RowAt(r, k)]
            g == [i \in a..b |-> Place(r, i)]
<1>1. /\ n \in Nat /\ a \in 1..n /\ b \in 1..n /\ a \in Int /\ b \in Int
      /\ \A k \in 1..n : s[k] = r[RowAt(r, k)] /\ RowAt(r, k) \in 1..n
  <2>1. \A k \in 1..n : s[k] = r[RowAt(r, k)] /\ RowAt(r, k) \in 1..n
    BY SortedIs
  <2>2. n \in Nat /\ a \in 1..n /\ b \in 1..n
    OBVIOUS
  <2>. QED
    BY <2>1, <2>2
<1>2. \A i \in 1..n : /\ i < a <=> Place(r, i) < a
                      /\ i > b <=> Place(r, i) > b
                      /\ Place(r, i) \in 1..n
  BY DividerStays, EarlierType
<1>3. /\ \A k \in 1..n : Place(r, RowAt(r, k)) = k
      /\ \A i \in 1..n : RowAt(r, Place(r, i)) = i
  BY RowAtIs
<1>4. \A i, j \in 1..n : Place(r, i) = Place(r, j) => i = j
  BY PlaceOnce
<1>. HIDE DEF s, n
<1>5. \A k \in a..b : k \in 1..n /\ ~(k < a) /\ ~(k > b)
  <2>1. n \in Nat /\ a \in 1..n /\ b \in 1..n
    BY <1>1
  <2>. QED
    BY <2>1
<1>6. ASSUME NEW k \in a..b
      PROVE  RowAt(r, k) \in a..b /\ r[RowAt(r, k)] = s[k] /\ Place(r, RowAt(r, k)) = k
  <2>1. k \in 1..n /\ ~(k < a) /\ ~(k > b)
    BY <1>5
  <2>2. RowAt(r, k) \in 1..n /\ Place(r, RowAt(r, k)) = k /\ r[RowAt(r, k)] = s[k]
    BY <1>1, <1>3, <2>1
  <2>3. ~(RowAt(r, k) < a) /\ ~(RowAt(r, k) > b)
    BY <1>2, <2>1, <2>2
  <2>4. RowAt(r, k) \in a..b
    BY <1>1, <2>2, <2>3, SMTT(30)
  <2>. QED
    BY <2>2, <2>4
<1>7. ASSUME NEW i \in a..b
      PROVE  Place(r, i) \in a..b /\ s[Place(r, i)] = r[i] /\ RowAt(r, Place(r, i)) = i
  <2>1. i \in 1..n /\ ~(i < a) /\ ~(i > b)
    BY <1>5
  <2>2. Place(r, i) \in 1..n /\ ~(Place(r, i) < a) /\ ~(Place(r, i) > b)
    BY <1>2, <2>1
  <2>3. RowAt(r, Place(r, i)) = i
    BY <1>3, <2>1
  <2>4. s[Place(r, i)] = r[RowAt(r, Place(r, i))]
    BY <1>1, <2>2
  <2>5. Place(r, i) \in a..b
    BY <1>1, <2>2, SMTT(30)
  <2>. QED
    BY <2>3, <2>4, <2>5
<1>8. Number(s, a, b, code) <= Number(r, a, b, code)
  <2>1. \A k \in a..b : f[k] \in a..b /\ r[f[k]] = s[k]
    BY <1>6
  <2>2. \A j, k \in a..b : f[j] = f[k] => j = k
    BY <1>6
  <2>. HIDE DEF f
  <2>. QED
    BY <1>1, <2>1, <2>2, NumberMoved
<1>9. Number(r, a, b, code) <= Number(s, a, b, code)
  <2>1. \A i \in a..b : g[i] \in a..b /\ s[g[i]] = r[i]
    BY <1>7
  <2>2. \A i, j \in a..b : g[i] = g[j] => i = j
    BY <1>7
  <2>. HIDE DEF g
  <2>. QED
    BY <1>1, <2>1, <2>2, NumberMoved
<1>10. Number(s, a, b, code) \in Nat /\ Number(r, a, b, code) \in Nat
  BY <1>1, NumberType
<1>. QED
  BY <1>8, <1>9, <1>10 DEF s

\* The summary counts the requests between the two rows.
LEMMA SummaryCounts ==
    ASSUME NEW r \in Seq(WindowRows), NEW a, NEW b, NEW code,
           LastIs(r, "start", a), LastIs(r, "end", b), a < b, Divides(r, a), Divides(r, b)
    PROVE  Requests1(LastAction(r), code) = Number(r, a, b, code)
<1>. DEFINE s == ByTime(r)
            n == Len(r)
            x == SubSeq(s, a, b)
            T == {row \in Range(r) : row.kind = "trace"}
            U == {row \in WindowRows : row.kind = "trace"}
<1>1. /\ s \in Seq(WindowRows) /\ Len(s) = n /\ n \in Nat /\ DOMAIN r = 1..n
      /\ \A k \in 1..n : s[k] = r[RowAt(r, k)] /\ RowAt(r, k) \in 1..n
  BY SortedIs
<1>2. a \in 1..n /\ b \in 1..n
  BY DEF LastIs
<1>3. LastMark(s, "start") = a /\ LastMark(s, "end") = b
  <2>1. LastIs(s, "start", a) /\ LastIs(s, "end", b)
    BY SortedMark
  <2>. HIDE DEF s
  <2>. QED
    BY <1>1, <2>1, LastMarkIs
<1>4. LastAction(r) = Among(x, T)
  <2>1. LastAction(r) = Among(SubSeq(s, LastMark(s, "start"), LastMark(s, "end")), T)
    BY DEF LastAction
  <2>. HIDE DEF s, T
  <2>. QED
    BY <1>3, <2>1
<1>. HIDE DEF s, n
<1>5. /\ x \in Seq(WindowRows) /\ Len(x) = b - a + 1
      /\ \A k \in 1..b - a + 1 : x[k] = s[(a - 1) + k]
  BY <1>1, <1>2
<1>. DEFINE m == b - a + 1
<1>6. /\ m \in Nat /\ a - 1 \in Int /\ (a - 1) + 1 = a /\ (a - 1) + m = b
      /\ \A k \in 1..m : (a - 1) + k \in 1..n
  BY <1>1, <1>2
<1>. HIDE DEF x, T, U, m
<1>7. \A k \in 1..Len(x) : x[k] \in T <=> x[k] \in U
  <2>1. SUFFICES ASSUME NEW k \in 1..m PROVE x[k] \in T <=> x[k] \in U
    BY <1>5 DEF m
  <2>2. x[k] = s[(a - 1) + k] /\ (a - 1) + k \in 1..n
    BY <1>5, <1>6 DEF m
  <2>3. x[k] \in Range(r) /\ x[k] \in WindowRows
    <3>1. PICK i \in 1..n : x[k] = r[i]
      BY <1>1, <2>2
    <3>2. r[i] \in WindowRows
      BY <1>1
    <3>. QED
      BY <1>1, <3>1, <3>2 DEF Range
  <2>. QED
    BY <2>3 DEF T, U
<1>8. Among(x, T) = Among(x, U)
  BY <1>5, <1>7, AmongSame
<1>9. Requests1(Among(x, U), code) = Requests1(x, code)
  <2>1. \A row \in WindowRows : row.kind = "trace" => row \in U
    BY DEF U
  <2>. QED
    BY <1>5, <2>1, AmongCounts
<1>10. Requests1(x, code) = Number(x, 1, m, code)
  BY <1>5, NumberAll DEF m
<1>11. Number(x, 1, m, code) = Number(s, a, b, code)
  <2>1. \A k \in 1..m : x[k] = s[(a - 1) + k]
    BY <1>5 DEF m
  <2>2. PICK d \in Int : d = a - 1
    BY <1>6
  <2>3. 1 \in Int /\ m \in Int /\ Shifted(x, s, 1, m, d)
    BY <1>6, <2>1, <2>2 DEF Shifted
  <2>4. Number(x, 1, m, code) = Number(s, d + 1, d + m, code)
    BY <2>3, NumberShifted
  <2>. QED
    BY <1>6, <2>2, <2>4
<1>12. Number(s, a, b, code) = Number(r, a, b, code)
  BY <1>2, SortedNumber DEF s, n
<1>. QED
  BY <1>4, <1>8, <1>9, <1>10, <1>11, <1>12

-----------------------------------------------------------------------------
(* The window.  The summary.                                                *)

\* Row c of a session is the last of a text, and the ring has it.
InRing(s, r, text, c) ==
    \E d \in Nat, a \in 1..Len(r) :
       /\ c = d + a /\ Len(s) = d + Len(r) /\ \A k \in 1..Len(r) : r[k] = s[d + k]
       /\ LastIs(r, text, a) /\ Divides(r, a)

\* The last mark, if the ring still has it.
LEMMA LastInRing ==
    ASSUME NEW s \in Seq(WindowRows), NEW r \in Seq(WindowRows), EndsWith(s, r), NEW text, NEW c,
           LastIs(s, text, c), Divides(s, c), LastMark(r, text) # 0
    PROVE  InRing(s, r, text, c)
<1>. DEFINE m == Len(s)
            n == Len(r)
<1>1. m \in Nat /\ n \in Nat
  OBVIOUS
<1>2. PICK d \in Nat : m = d + n /\ \A k \in 1..n : r[k] = s[d + k]
  <2>1. n <= m /\ (m - n) \in Nat /\ m = (m - n) + n
    BY <1>1 DEF EndsWith
  <2>. QED
    BY <2>1 DEF EndsWith
<1>3. /\ c \in 1..m /\ IsMark(s[c], text) /\ \A k \in c + 1..m : ~IsMark(s[k], text)
      /\ \A k \in 1..m : (k < c => s[k].time <= s[c].time) /\ (k > c => s[c].time <= s[k].time)
  BY DEF LastIs, Divides
<1>4. PICK j \in 1..n : IsMark(r[j], text)
  BY LastMarkIs
<1>. HIDE DEF m, n
<1>5. d + j \in 1..m /\ d + j \notin c + 1..m
  <2>1. IsMark(s[d + j], text)
    BY <1>2, <1>4
  <2>2. d + j \in 1..m
    BY <1>1, <1>2
  <2>. QED
    BY <1>3, <2>1, <2>2
<1>6. PICK a \in 1..n : c = d + a
  <2>1. c - d \in 1..n /\ c = d + (c - d)
    BY <1>1, <1>2, <1>3, <1>5
  <2>. QED
    BY <2>1
<1>7. LastIs(r, text, a)
  <2>1. IsMark(r[a], text)
    BY <1>2, <1>3, <1>6
  <2>2. ASSUME NEW k \in a + 1..n PROVE ~IsMark(r[k], text)
    <3>1. k \in 1..n /\ d + k \in c + 1..m
      BY <1>1, <1>2, <1>6
    <3>. QED
      BY <1>2, <1>3, <3>1
  <2>. QED
    BY <2>1, <2>2 DEF LastIs, n
<1>8. Divides(r, a)
  <2>1. ASSUME NEW k \in 1..n
        PROVE  (k < a => r[k].time <= r[a].time) /\ (k > a => r[a].time <= r[k].time)
    <3>1. d + k \in 1..m /\ (k < a => d + k < c) /\ (k > a => d + k > c)
      BY <1>1, <1>2, <1>6
    <3>2. r[k] = s[d + k] /\ r[a] = s[c]
      BY <1>2, <1>6
    <3>. QED
      BY <1>3, <3>1, <3>2
  <2>. QED
    BY <2>1 DEF Divides, n
<1>. QED
  BY <1>2, <1>6, <1>7, <1>8 DEF InRing, m, n

LEMMA WrittenInRing ==
    ASSUME NEW s \in Seq(WindowRows), NEW r \in Seq(WindowRows), EndsWith(s, r), NEW way,
           NEW A, NEW B, NEW st, NEW i \in DOMAIN st,
           Closed(s, way, A, B), LinesWritten(s, st, A, B),
           LastMark(r, "start") # 0, LastMark(r, "end") # 0
    PROVE  LET end == LastMark(r, "end")
               line == Among(SubSeq(r, end, Len(r)), {row \in Range(r) :
                         IsMark(row, "count") /\ row.code = st[i].code})
               counted == Requests1(LastAction(r), st[i].code) IN
           IF counted = 0 THEN line = <<>> ELSE line # <<>> /\ line[1].n = counted
<1>. DEFINE n == Len(r)
            code == st[i].code
<1>1. /\ LastIs(s, "start", A) /\ Divides(s, A) /\ LastIs(s, "end", B) /\ Divides(s, B) /\ A < B
  BY DEF Closed
<1>2. PICK d \in Nat, a \in 1..n :
         /\ A = d + a /\ Len(s) = d + n /\ \A k \in 1..n : r[k] = s[d + k]
         /\ LastIs(r, "start", a) /\ Divides(r, a)
  <2>1. InRing(s, r, "start", A)
    BY <1>1, LastInRing
  <2>. QED
    BY <2>1 DEF InRing
<1>3. PICK e \in Nat, b \in 1..n :
         /\ B = e + b /\ Len(s) = e + n /\ \A k \in 1..n : r[k] = s[e + k]
         /\ LastIs(r, "end", b) /\ Divides(r, b)
  <2>1. InRing(s, r, "end", B)
    BY <1>1, LastInRing
  <2>. QED
    BY <2>1 DEF InRing
<1>4. /\ n \in Nat /\ r \in Seq(WindowRows) /\ DOMAIN r = 1..n
  OBVIOUS
<1>. DEFINE x == SubSeq(r, b, n)
            T == {row \in Range(r) : IsMark(row, "count") /\ row.code = code}
            line == Among(x, T)
            N == Number(s, A, B, code)
<1>5. /\ x \in Seq(WindowRows) /\ Len(x) = n - b + 1
      /\ \A k \in 1..n - b + 1 : x[k] = r[(b - 1) + k]
  BY <1>4
<1>6. LastMark(r, "end") = b
  BY <1>3, LastMarkIs
<1>. HIDE DEF n
<1>7. e = d /\ a < b /\ a \in Int /\ b \in Int /\ d \in Int /\ B = d + b
  BY <1>1, <1>2, <1>3, <1>4
<1>8. Requests1(LastAction(r), code) = N
  <2>1. Requests1(LastAction(r), code) = Number(r, a, b, code)
    BY <1>2, <1>3, <1>7, SummaryCounts
  <2>2. Shifted(r, s, a, b, d)
    <3>1. \A k \in a..b : k \in 1..n
      BY <1>4
    <3>. QED
      BY <1>2, <3>1 DEF Shifted
  <2>3. Number(r, a, b, code) = Number(s, d + a, d + b, code)
    BY <1>7, <2>2, NumberShifted
  <2>. QED
    BY <1>2, <1>7, <2>1, <2>3
<1>9. /\ \A k \in B + 1..Len(s) : LineFor(s[k], code) => N # 0 /\ s[k].n = N
      /\ N # 0 => \E k \in B + 1..Len(s) : LineFor(s[k], code)
  BY DEF LinesWritten
<1>. HIDE DEF x, T, N, code
<1>10. AmongChosen(x, T) /\ line \in Seq(WindowRows)
  BY <1>5, AmongIsChosen, AmongRows
<1>. HIDE DEF line
<1>11. ASSUME line # <<>> PROVE N # 0 /\ line[1].n = N
  <2>1. 1 \in 1..Len(line)
    BY <1>10, <1>11
  <2>2. PICK k \in 1..Len(x) : line[1] = x[k] /\ x[k] \in T
    BY <1>10, <2>1 DEF AmongChosen, line
  <2>3. PICK j \in b..n : line[1] = r[j] /\ r[j] \in T
    <3>1. (b - 1) + k \in b..n /\ x[k] = r[(b - 1) + k]
      BY <1>4, <1>5
    <3>. QED
      BY <2>2, <3>1
  <2>4. LineFor(r[j], code)
    BY <2>3 DEF T, LineFor
  <2>5. j # b
    <3>1. IsMark(r[b], "end") /\ IsMark(r[j], "count")
      BY <1>3, <2>4 DEF LastIs, LineFor
    <3>. QED
      BY <3>1 DEF IsMark
  <2>6. d + j \in B + 1..Len(s) /\ j \in 1..n
    BY <1>2, <1>4, <1>7, <2>5
  <2>7. r[j] = s[d + j]
    BY <1>2, <2>6
  <2>. QED
    BY <1>9, <2>3, <2>4, <2>6, <2>7
<1>12. ASSUME N # 0 PROVE line # <<>>
  <2>1. PICK k \in B + 1..Len(s) : LineFor(s[k], code)
    BY <1>9, <1>12
  <2>2. PICK j \in b + 1..n : k = d + j
    <3>1. k - d \in b + 1..n /\ k = d + (k - d)
      BY <1>2, <1>4, <1>7
    <3>. QED
      BY <3>1
  <2>3. j \in 1..n /\ r[j] = s[k]
    <3>1. j \in 1..n
      BY <1>4
    <3>. QED
      BY <1>2, <2>2, <3>1
  <2>4. r[j] \in T
    BY <1>4, <2>1, <2>3 DEF T, LineFor, Range
  <2>5. PICK h \in 1..Len(x) : x[h] = r[j]
    <3>1. j - (b - 1) \in 1..n - b + 1 /\ (b - 1) + (j - (b - 1)) = j
      BY <1>4, <1>7
    <3>. QED
      BY <1>5, <3>1
  <2>6. Len(line) >= 1
    BY <1>10, <2>4, <2>5 DEF AmongChosen, line
  <2>. QED
    BY <2>6
<1>. QED
  BY <1>6, <1>8, <1>11, <1>12 DEF line, x, T, n, code

LEMMA SummaryIs ==
    ASSUME SwInv, ActionWritten
    PROVE  SummaryAgrees
<1>. DEFINE r == Retained(log)
<1>1. SUFFICES ASSUME ~action, quiet, LastMark(r, "start") # 0, LastMark(r, "end") # 0,
                      NEW i \in DOMAIN stats
               PROVE  LET end == LastMark(r, "end")
                          line == Among(SubSeq(r, end, Len(r)), {row \in Range(r) :
                                    IsMark(row, "count") /\ row.code = stats[i].code})
                          counted == Requests1(LastAction(r), stats[i].code) IN
                      IF counted = 0 THEN line = <<>> ELSE line # <<>> /\ line[1].n = counted
  BY DEF SummaryAgrees
<1>2. session \in Seq(WindowRows) /\ r \in Seq(WindowRows) /\ EndsWith(session, r)
  BY RingOfSession DEF RingKept
<1>3. PICK A, B \in 1..Len(session) :
         Closed(session, onTheWay, A, B) /\ LinesWritten(session, stats, A, B)
  BY <1>1 DEF ActionWritten
<1>. HIDE DEF r
<1>4. PICK s \in Seq(WindowRows), R \in Seq(WindowRows) : s = session /\ R = r
  BY <1>2
<1>5. PICK st, way : st = stats /\ way = onTheWay
  OBVIOUS
<1>6. /\ EndsWith(s, R) /\ Closed(s, way, A, B) /\ LinesWritten(s, st, A, B) /\ i \in DOMAIN st
      /\ LastMark(R, "start") # 0 /\ LastMark(R, "end") # 0
  BY <1>1, <1>2, <1>3, <1>4, <1>5
<1>7. LET end == LastMark(R, "end")
          line == Among(SubSeq(R, end, Len(R)), {row \in Range(R) :
                    IsMark(row, "count") /\ row.code = st[i].code})
          counted == Requests1(LastAction(R), st[i].code) IN
      IF counted = 0 THEN line = <<>> ELSE line # <<>> /\ line[1].n = counted
  BY <1>6, WrittenInRing
<1>. QED
  BY <1>4, <1>5, <1>7

-----------------------------------------------------------------------------
(* The window.  What is shown.                                              *)

\* What the window knows of its rows, its list and its actions.
ShownInv ==
    /\ SwInv /\ RowsNumbered /\ TimesPast
    /\ ListEnds /\ RowsListed /\ ActionWritten

LEMMA ShownStarts == SwInit => ShownInv
BY SessionStarts, RequestsStart, ActionStart DEF ShownInv

LEMMA ShownSteps == ShownInv /\ [SwNext]_windowVars => ShownInv'
<1>. SUFFICES ASSUME ShownInv, [SwNext]_windowVars PROVE ShownInv'
  OBVIOUS
<1>1. SwInv /\ RowsNumbered /\ TimesPast /\ ListEnds /\ RowsListed /\ ActionWritten
  BY DEF ShownInv
<1>2. SwInv'
  BY <1>1, SessionSteps
<1>3. RowsNumbered' /\ TimesPast'
  BY <1>1, <1>2, RequestSteps
<1>4. ListEnds' /\ RowsListed'
  BY <1>1, <1>2, ListSteps
<1>5. ActionWritten'
  BY <1>1, <1>2, ActionSteps
<1>. QED
  BY <1>2, <1>3, <1>4, <1>5 DEF ShownInv

\* What is shown of a session is what it keeps: the list has every row that its boxes let
\* through, the details of a click are those of its row, and the lines of an action agree
\* with the summary of the saved session (rebuild_log, show_trace_details, end_action of
\* lecwatch.c and extract_actions of summarize-actions.py).
THEOREM SessionIsShown == SwSpec => []SessionShown
<1>1. SwInit => ShownInv
  BY ShownStarts
<1>2. ShownInv /\ [SwNext]_windowVars => ShownInv'
  BY ShownSteps
<1>3. ShownInv => SessionShown
  <2>. SUFFICES ASSUME ShownInv PROVE SessionShown
    OBVIOUS
  <2>1. SwInv /\ RowsNumbered /\ TimesPast /\ ListEnds /\ RowsListed /\ ActionWritten
    BY DEF ShownInv
  <2>2. SwTypeOK /\ RowsRetained
    BY <2>1, RingOfSession DEF RingKept, SwInv
  <2>. QED
    BY <2>1, <2>2, ListIsComplete, DetailsAre, SummaryIs DEF SessionShown
<1>. QED
  BY <1>1, <1>2, <1>3, PTL DEF SwSpec

=============================================================================
