----------------------------- MODULE ListLemmas -----------------------------
(***************************************************************************)
(* Lemmas the other proof modules share: the arithmetic of ring indices,   *)
(* the least number of a set, and what the operators on sequences return.  *)
(***************************************************************************)
EXTENDS Integers, Sequences, SequencesExt, SequenceTheorems, WellFoundedInduction, TLAPS

\* What an index below N, below 2 N and below 3 N is reduced to.
LEMMA ModSmall ==
  ASSUME NEW N \in Nat \ {0}, NEW a \in 0 .. N - 1
  PROVE  a % N = a
  OBVIOUS

LEMMA ModOnce ==
  ASSUME NEW N \in Nat \ {0}, NEW a \in N .. 2 * N - 1
  PROVE  a % N = a - N
  OBVIOUS

LEMMA ModTwice ==
  ASSUME NEW N \in Nat \ {0}, NEW a \in 2 * N .. 3 * N - 1
  PROVE  a % N = a - 2 * N
  OBVIOUS

\* A reduced index is a place of the ring.
LEMMA ModRange ==
  ASSUME NEW N \in Nat \ {0}, NEW a \in Int
  PROVE  a % N \in 0 .. N - 1
  OBVIOUS

\* Two indices that are not congruent are reduced to different places.
LEMMA ModOther ==
  ASSUME NEW N \in Nat \ {0}, NEW i \in 0 .. N - 1, NEW t \in 0 .. 2 * N - 1, t # i, t # i + N
  PROVE  t % N \in 0 .. N - 1 /\ t % N # i
<1>1. CASE t < N
  <2>1. t % N = t
    BY <1>1, ModSmall
  <2> QED BY <1>1, <2>1
<1>2. CASE t >= N
  <2>1. t % N = t - N
    BY <1>2, ModOnce
  <2> QED BY <1>2, <2>1
<1> QED BY <1>1, <1>2

\* So are two indices less than N apart.
LEMMA ModApart ==
  ASSUME NEW N \in Nat \ {0}, NEW a \in 0 .. 2 * N - 1, NEW b \in 0 .. 2 * N - 1,
         a < b, b < a + N
  PROVE  a % N # b % N
<1>1. CASE b < N
  <2>1. a % N = a /\ b % N = b
    BY <1>1, ModSmall
  <2> QED BY <2>1
<1>2. CASE a < N /\ b >= N
  <2>1. a % N = a /\ b % N = b - N
    BY <1>2, ModSmall, ModOnce
  <2> QED BY <2>1
<1>3. CASE a >= N
  <2>1. a % N = a - N /\ b % N = b - N
    BY <1>3, ModOnce
  <2> QED BY <2>1
<1> QED BY <1>1, <1>2, <1>3

\* The index after a reduced one.
LEMMA ModNext ==
  ASSUME NEW N \in Nat \ {0}, NEW a \in 0 .. 2 * N - 1
  PROVE  ((a % N) + 1) % N = (a + 1) % N
<1>1. CASE a < N
  BY <1>1, ModSmall
<1>2. CASE a >= N /\ a + 1 < 2 * N
  <2>1. a % N = a - N
    BY <1>2, ModOnce
  <2>2. (a - N + 1) % N = a - N + 1 /\ (a + 1) % N = a + 1 - N
    <3>1. a - N + 1 \in 0 .. N - 1 /\ a + 1 \in N .. 2 * N - 1
      BY <1>2
    <3> QED BY ONLY <3>1, N \in Nat \ {0}, a \in Int, ModSmall, ModOnce
  <2> QED BY <2>1, <2>2
<1>3. CASE a + 1 = 2 * N
  <2>1. a % N = a - N
    BY <1>3, ModOnce
  <2>2. N % N = N - N
    <3>1. N \in N .. 2 * N - 1
      OBVIOUS
    <3> QED BY <3>1, ModOnce
  <2>3. (2 * N) % N = 2 * N - 2 * N
    <3>1. 2 * N \in 2 * N .. 3 * N - 1
      OBVIOUS
    <3> QED BY <3>1, ModTwice
  <2>4. (a % N) + 1 = N /\ a + 1 = 2 * N
    BY <1>3, <2>1
  <2> QED BY <2>2, <2>3, <2>4
<1> QED BY <1>1, <1>2, <1>3

\* Reducing an index twice is reducing it once.
LEMMA ModShift ==
  ASSUME NEW N \in Nat \ {0}, NEW a \in 0 .. 2 * N - 1, NEW b \in 0 .. N - 1
  PROVE  ((a % N) + b) % N = (a + b) % N
<1>1. CASE a < N
  BY <1>1, ModSmall
<1>2. CASE a >= N
  <2>1. a % N = a - N
    BY <1>2, ModOnce
  <2>2. CASE a + b < 2 * N
    <3>1. a - N + b \in 0 .. N - 1 /\ a + b \in N .. 2 * N - 1
      BY <1>2, <2>2
    <3>2. (a - N + b) % N = a - N + b /\ (a + b) % N = a + b - N
      BY ONLY <3>1, N \in Nat \ {0}, a \in Int, b \in Int, ModSmall, ModOnce
    <3> QED BY <2>1, <3>2
  <2>3. CASE a + b >= 2 * N
    <3>1. a - N + b \in N .. 2 * N - 1 /\ a + b \in 2 * N .. 3 * N - 1
      BY <1>2, <2>3
    <3>2. (a - N + b) % N = a - N + b - N
      BY ONLY <3>1, N \in Nat \ {0}, ModOnce
    <3>3. (a + b) % N = a + b - 2 * N
      <4> DEFINE s == a + b
      <4>1. s \in 2 * N .. 3 * N - 1
        BY <3>1
      <4> HIDE DEF s
      <4>2. s % N = s - 2 * N
        BY ONLY <4>1, N \in Nat \ {0}, ModTwice
      <4> QED BY <4>2 DEF s
    <3> QED BY <2>1, <3>2, <3>3
  <2> QED BY <2>2, <2>3
<1> QED BY <1>1, <1>2

\* Quotient and remainder.
LEMMA DivMod ==
  ASSUME NEW H \in Nat \ {0}, NEW t \in Nat
  PROVE  /\ t % H \in 0 .. H - 1 /\ t \div H \in Nat
         /\ t = (t \div H) * H + (t % H)
<1>1. t % H \in 0 .. H - 1
  OBVIOUS
<1>2. t = (t \div H) * H + (t % H)
  OBVIOUS
<1>3. t \div H \in Nat
  OBVIOUS
<1> QED BY <1>1, <1>2, <1>3

\* A larger number of whole parts is larger by a whole part.
LEMMA MulMono ==
  ASSUME NEW H \in Nat \ {0}, NEW p \in Nat, NEW q \in Nat, p < q
  PROVE  p * H + H <= q * H
  OBVIOUS

\* A set of natural numbers that is not empty has a least one.
LEMMA LeastOf ==
  ASSUME NEW S \in SUBSET Nat, S # {}
  PROVE  \E n \in S : \A m \in S : n <= m
<1>1. PICK n \in S : \A m \in S : ~ (<<m, n>> \in OpToRel(<, Nat))
  BY NatLessThanWellFounded, WFMin
<1>2. \A m \in S : ~ (m < n)
  BY <1>1 DEF OpToRel
<1> QED BY <1>2

\* Induction up to n, for the property of being in S.
LEMMA ByCounting ==
  ASSUME NEW n \in Nat, NEW S \in SUBSET Nat, 0 \in S, \A k \in 1 .. n : k - 1 \in S => k \in S
  PROVE  0 .. n \subseteq S
<1> DEFINE T == {k \in 0 .. n : k \notin S}
<1> SUFFICES ASSUME T # {} PROVE FALSE
  OBVIOUS
<1>1. T \in SUBSET Nat
  OBVIOUS
<1>2. PICK k \in T : \A m \in T : k <= m
  <2> HIDE DEF T
  <2> QED BY <1>1, LeastOf
<1>3. k \in 1 .. n /\ k - 1 \in 0 .. n /\ k - 1 \notin T
  BY <1>2
<1> QED BY <1>2, <1>3
-----------------------------------------------------------------------------
\* What removing the entry at place i does to a list.
LEMMA RemoveAtProperties ==
  ASSUME NEW S, NEW s \in Seq(S), NEW i \in 1..Len(s)
  PROVE  /\ RemoveAt(s, i) \in Seq(S)
         /\ Len(RemoveAt(s, i)) = Len(s) - 1
         /\ \A k \in 1..(Len(s) - 1) :
              RemoveAt(s, i)[k] = IF k < i THEN s[k] ELSE s[k + 1]
<1> DEFINE l == SubSeq(s, 1, i - 1)
           r == SubSeq(s, i + 1, Len(s))
<1>1. /\ l \in Seq(S) /\ Len(l) = i - 1
      /\ \A k \in 1..(i - 1) : l[k] = s[k]
  <2>1. \A k \in 1..(i - 1) : s[k] \in S
    BY ElementOfSeq, LenProperties
  <2>2. /\ l \in Seq(S)
        /\ Len(l) = IF 1 <= i - 1 THEN (i - 1) - 1 + 1 ELSE 0
        /\ \A k \in 1..((i - 1) - 1 + 1) : l[k] = s[1 + k - 1]
    BY <2>1, SubSeqProperties, LenProperties
  <2> QED BY <2>2, LenProperties
<1>2. /\ r \in Seq(S) /\ Len(r) = Len(s) - i
      /\ \A k \in 1..(Len(s) - i) : r[k] = s[i + k]
  <2>1. \A k \in (i + 1)..Len(s) : s[k] \in S
    BY ElementOfSeq, LenProperties
  <2>2. /\ r \in Seq(S)
        /\ Len(r) = IF i + 1 <= Len(s) THEN Len(s) - (i + 1) + 1 ELSE 0
        /\ \A k \in 1..(Len(s) - (i + 1) + 1) : r[k] = s[(i + 1) + k - 1]
    BY <2>1, SubSeqProperties, LenProperties
  <2> QED BY <2>2, LenProperties
<1>3. /\ l \o r \in Seq(S) /\ Len(l \o r) = Len(l) + Len(r)
      /\ \A k \in 1..Len(l) + Len(r) :
           (l \o r)[k] = IF k <= Len(l) THEN l[k] ELSE r[k - Len(l)]
  BY <1>1, <1>2, ConcatProperties
<1> HIDE DEF l, r
<1>4. RemoveAt(s, i) = l \o r
  BY DEF RemoveAt, l, r
<1>5. Len(l \o r) = Len(s) - 1
  BY <1>1, <1>2, <1>3, LenProperties
<1>6. \A k \in 1..(Len(s) - 1) : (l \o r)[k] = IF k < i THEN s[k] ELSE s[k + 1]
  <2> SUFFICES ASSUME NEW k \in 1..(Len(s) - 1)
               PROVE  (l \o r)[k] = IF k < i THEN s[k] ELSE s[k + 1]
    OBVIOUS
  <2>1. k \in 1..Len(l) + Len(r) /\ Len(s) \in Nat
    BY <1>1, <1>2, LenProperties
  <2>2. CASE k < i
    BY <1>1, <1>3, <2>1, <2>2
  <2>3. CASE ~(k < i)
    <3>1. (l \o r)[k] = r[k - (i - 1)]
      BY <1>1, <1>3, <2>1, <2>3
    <3>2. k - (i - 1) \in 1..(Len(s) - i) /\ i + (k - (i - 1)) = k + 1
      BY <2>1, <2>3
    <3> QED BY <1>2, <2>3, <3>1, <3>2
  <2> QED BY <2>2, <2>3
<1> QED BY <1>3, <1>4, <1>5, <1>6

\* Putting an entry in front of a list moves the others up by one.
LEMMA ConsProperties ==
  ASSUME NEW S, NEW s \in Seq(S), NEW e \in S
  PROVE  /\ <<e>> \o s \in Seq(S)
         /\ Len(<<e>> \o s) = Len(s) + 1
         /\ \A k \in 1..(Len(s) + 1) : (<<e>> \o s)[k] = IF k = 1 THEN e ELSE s[k - 1]
<1>1. <<e>> \in Seq(S) /\ Len(<<e>>) = 1 /\ <<e>>[1] = e /\ Len(s) \in Nat
  BY LenProperties
<1>2. /\ <<e>> \o s \in Seq(S)
      /\ Len(<<e>> \o s) = 1 + Len(s)
      /\ \A k \in 1..1 + Len(s) :
           (<<e>> \o s)[k] = IF k <= 1 THEN <<e>>[k] ELSE s[k - 1]
  BY <1>1, ConcatProperties
<1> QED BY <1>1, <1>2

-----------------------------------------------------------------------------
\* The sequence a ring's reader is to see: recent lies in the buf of N places
\* before the place idx that is written next.
RingHolds(buf, idx, recent, N) ==
  /\ Len(recent) <= N
  /\ \A i \in 1 .. Len(recent) : buf[(idx + N - Len(recent) + i - 1) % N] = recent[i]

\* A history that is cut to its last N entries.
KeepLast(s, e, N) == Append(IF Len(s) < N THEN s ELSE Tail(s), e)

\* A history stays a sequence of what it records.
LEMMA KeepLastInSeq ==
  ASSUME NEW S, NEW s \in Seq(S), NEW e \in S, NEW N \in Nat \ {0}
  PROVE  KeepLast(s, e, N) \in Seq(S)
<1>1. CASE Len(s) < N
  BY <1>1, AppendProperties DEF KeepLast
<1>2. CASE ~(Len(s) < N)
  <2>1. s # <<>>
    BY <1>2, EmptySeq
  <2>2. Tail(s) \in Seq(S)
    BY <2>1, HeadTailProperties
  <2> QED BY <1>2, <2>2, AppendProperties DEF KeepLast
<1> QED BY <1>1, <1>2

LEMMA KeepLastLen ==
  ASSUME NEW S, NEW s \in Seq(S), NEW e \in S, NEW N \in Nat \ {0}, Len(s) <= N
  PROVE  Len(KeepLast(s, e, N)) = IF Len(s) < N THEN Len(s) + 1 ELSE N
<1>1. Len(s) \in 0 .. N
  BY LenProperties
<1>2. CASE Len(s) < N
  BY <1>2, AppendProperties DEF KeepLast
<1>3. CASE Len(s) = N
  <2>1. s # <<>>
    BY <1>3, EmptySeq
  <2>2. Tail(s) \in Seq(S) /\ Len(Tail(s)) = N - 1
    BY <1>3, <2>1, HeadTailProperties
  <2>3. KeepLast(s, e, N) = Append(Tail(s), e)
    BY <1>3 DEF KeepLast
  <2> QED BY <1>3, <2>2, <2>3, AppendProperties
<1> QED BY <1>1, <1>2, <1>3

\* Writing at idx and moving on keeps the ring in step with the history.
LEMMA RingKeepsLast ==
  ASSUME NEW S, NEW recent \in Seq(S), NEW line \in S, NEW N \in Nat \ {0},
         NEW idx \in 0 .. N - 1, NEW buf, buf = [i \in 0 .. N - 1 |-> buf[i]],
         RingHolds(buf, idx, recent, N),
         NEW next, next = KeepLast(recent, line, N)
  PROVE  RingHolds([buf EXCEPT ![idx] = line], (idx + 1) % N, next, N)
<1> DEFINE n == Len(recent)
           new == [buf EXCEPT ![idx] = line]
           m == Len(next)
<1>1. n \in 0 .. N
  BY LenProperties DEF RingHolds
<1>2. /\ m = IF n < N THEN n + 1 ELSE N
      /\ next[m] = line
      /\ n < N => \A i \in 1 .. m - 1 : next[i] = recent[i]
      /\ n = N => \A i \in 1 .. m - 1 : next[i] = recent[i + 1]
  <2>1. CASE n < N
    BY <1>1, <2>1, AppendProperties DEF KeepLast
  <2>2. CASE n = N
    <3>1. recent # <<>>
      BY <2>2, EmptySeq
    <3>2. /\ Tail(recent) \in Seq(S) /\ Len(Tail(recent)) = N - 1
          /\ \A i \in 1 .. N - 1 : Tail(recent)[i] = recent[i + 1]
      BY <2>2, <3>1, HeadTailProperties
    <3>3. /\ Len(Append(Tail(recent), line)) = N
          /\ \A i \in 1 .. N - 1 : Append(Tail(recent), line)[i] = Tail(recent)[i]
          /\ Append(Tail(recent), line)[N] = line
      BY <3>2, AppendProperties
    <3>4. next = Append(Tail(recent), line)
      BY <2>2 DEF KeepLast
    <3> QED BY <2>2, <3>2, <3>3, <3>4
  <2> QED BY <1>1, <2>1, <2>2
<1>3. \A j \in 0 .. N - 1 : new[j] = IF j = idx THEN line ELSE buf[j]
  OBVIOUS
<1>4. \A i \in 1 .. n : buf[(idx + N - n + i - 1) % N] = recent[i]
  BY DEF RingHolds
<1> HIDE DEF m, new, n
<1>5. ASSUME NEW i \in 1 .. m
      PROVE  new[(((idx + 1) % N) + N - m + i - 1) % N] = next[i]
  <2>1. m \in 1 .. N /\ i \in Nat
    BY <1>1, <1>2
  <2>2. (((idx + 1) % N) + (N - m + i - 1)) % N = (idx + 1 + (N - m + i - 1)) % N
    <3>1. N - m + i - 1 \in 0 .. N - 1 /\ idx + 1 \in 0 .. 2 * N - 1
      BY <2>1
    <3> QED BY <3>1, ModShift
  <2>3. (((idx + 1) % N) + N - m + i - 1) = (((idx + 1) % N) + (N - m + i - 1))
    BY <2>1, ModRange
  <2>4. CASE i = m
    <3>1. idx + 1 + (N - m + i - 1) = idx + N /\ idx + N \in N .. 2 * N - 1
      BY <2>1, <2>4
    <3>2. (idx + N) % N = idx
      BY <3>1, ModOnce
    <3>3. new[idx] = line /\ next[i] = line
      BY <1>2, <1>3, <2>4
    <3> QED BY <2>2, <2>3, <3>1, <3>2, <3>3
  <2>5. CASE i < m
    <3>1. PICK k \in 1 .. n :
            /\ next[i] = recent[k] /\ (n = N => k >= 2)
            /\ idx + 1 + (N - m + i - 1) = idx + N - n + k - 1
      <4>1. CASE n < N
        <5>1. i \in 1 .. n /\ next[i] = recent[i]
          BY <1>1, <1>2, <2>1, <2>5, <4>1
        <5> QED BY <1>1, <1>2, <4>1, <5>1
      <4>2. CASE n = N
        <5>1. i + 1 \in 2 .. n /\ next[i] = recent[i + 1]
          BY <1>1, <1>2, <2>1, <2>5, <4>2
        <5>2. idx + 1 + (N - m + i - 1) = idx + N - n + (i + 1) - 1
          BY <1>1, <1>2, <2>1, <4>2
        <5> QED BY <5>1, <5>2
      <4> QED BY <1>1, <4>1, <4>2
    <3> DEFINE at == idx + N - n + k - 1
    <3>2. at \in 0 .. 2 * N - 1 /\ at # idx /\ at # idx + N
      <4>1. CASE n = N
        <5>1. k >= 2
          BY <3>1, <4>1
        <5> QED BY <1>1, <4>1, <5>1
      <4>2. CASE n # N
        BY <1>1, <4>2
      <4> QED BY <4>1, <4>2
    <3>3. at % N \in 0 .. N - 1 /\ at % N # idx
      BY <3>2, ModOther
    <3> QED BY <1>3, <1>4, <2>2, <2>3, <3>1, <3>3
  <2> QED BY <2>1, <2>4, <2>5
<1>6. m <= N
  BY <1>1, <1>2
<1> QED BY <1>5, <1>6 DEF RingHolds, m, new

-----------------------------------------------------------------------------
\* The entries of a ring of N places that is read at f and written at r.
RingLen(f, r, N) == (r + N - f) % N

\* ... as a difference.
LEMMA RingLenCases ==
  ASSUME NEW N \in Nat \ {0}, NEW f \in 0 .. N - 1, NEW r \in 0 .. N - 1
  PROVE  /\ RingLen(f, r, N) \in 0 .. N - 1
         /\ r >= f => RingLen(f, r, N) = r - f
         /\ r < f => RingLen(f, r, N) = r + N - f
         /\ r = (f + RingLen(f, r, N)) % N
<1>1. CASE r >= f
  <2>1. r + N - f \in N .. 2 * N - 1
    BY <1>1
  <2>2. (r + N - f) % N = r + N - f - N
    BY <2>1, ModOnce
  <2>3. RingLen(f, r, N) = r - f
    BY <2>2 DEF RingLen
  <2>4. r % N = r
    BY ModSmall
  <2> QED BY <1>1, <2>3, <2>4
<1>2. CASE r < f
  <2>1. r + N - f \in 0 .. N - 1
    BY <1>2
  <2>2. RingLen(f, r, N) = r + N - f
    BY <2>1, ModSmall DEF RingLen
  <2>3. (r + N) % N = r + N - N
    <3>1. r + N \in N .. 2 * N - 1
      OBVIOUS
    <3> QED BY <3>1, ModOnce
  <2>4. f + RingLen(f, r, N) = r + N
    BY <2>2
  <2> QED BY <1>2, <2>1, <2>2, <2>3, <2>4
<1> QED BY <1>1, <1>2

\* Writing an entry: the ring is one longer, unless it is full and then seems
\* to be empty.
LEMMA RingPut ==
  ASSUME NEW N \in Nat \ {0}, NEW f \in 0 .. N - 1, NEW r \in 0 .. N - 1
  PROVE  /\ (r + 1) % N = f => RingLen(f, r, N) = N - 1
         /\ (r + 1) % N # f => RingLen(f, (r + 1) % N, N) = RingLen(f, r, N) + 1
<1>0. (r + 1) % N \in 0 .. N - 1
  BY ModRange
<1>1. CASE r + 1 < N
  <2>1. (r + 1) % N = r + 1
    BY <1>1, ModSmall
  <2>2. CASE r >= f
    <3>1. RingLen(f, r, N) = r - f
      BY <2>2, RingLenCases
    <3>2. RingLen(f, r + 1, N) = r + 1 - f
      BY <1>0, <2>1, <2>2, RingLenCases
    <3>3. r + 1 # f
      BY <2>2
    <3> QED BY <2>1, <3>1, <3>2, <3>3
  <2>3. CASE r < f
    <3>1. RingLen(f, r, N) = r + N - f
      BY <2>3, RingLenCases
    <3>2. r + 1 # f => RingLen(f, r + 1, N) = r + 1 + N - f
      BY <1>0, <2>1, <2>3, RingLenCases
    <3> QED BY <2>1, <3>1, <3>2
  <2> QED BY <2>2, <2>3
<1>2. CASE r + 1 = N
  <2>1. (r + 1) % N = 0
    <3>1. r + 1 \in N .. 2 * N - 1
      BY <1>2
    <3>2. (r + 1) % N = r + 1 - N
      BY <3>1, ModOnce
    <3> QED BY <1>2, <3>2
  <2>2. RingLen(f, r, N) = r - f
    BY <1>2, RingLenCases
  <2>3. f # 0 => RingLen(f, 0, N) = 0 + N - f
    <3>1. 0 \in 0 .. N - 1 /\ (f # 0 => 0 < f)
      OBVIOUS
    <3> QED BY <3>1, RingLenCases
  <2> QED BY <1>2, <2>1, <2>2, <2>3
<1> QED BY <1>1, <1>2

\* Reading an entry: the ring is one shorter.
LEMMA RingGet ==
  ASSUME NEW N \in Nat \ {0}, NEW f \in 0 .. N - 1, NEW r \in 0 .. N - 1, f # r
  PROVE  RingLen(f, r, N) >= 1 /\ RingLen((f + 1) % N, r, N) = RingLen(f, r, N) - 1
<1>0. (f + 1) % N \in 0 .. N - 1
  BY ModRange
<1>1. RingLen(f, r, N) >= 1
  <2>1. CASE r > f
    BY <2>1, RingLenCases
  <2>2. CASE r < f
    BY <2>2, RingLenCases
  <2> QED BY <2>1, <2>2
<1>2. CASE f + 1 < N
  <2>1. (f + 1) % N = f + 1
    BY <1>2, ModSmall
  <2>2. CASE r > f
    <3>1. RingLen(f, r, N) = r - f
      BY <2>2, RingLenCases
    <3>2. RingLen(f + 1, r, N) = r - (f + 1)
      BY <1>0, <2>1, <2>2, RingLenCases
    <3> QED BY <1>1, <2>1, <3>1, <3>2
  <2>3. CASE r < f
    <3>1. RingLen(f, r, N) = r + N - f
      BY <2>3, RingLenCases
    <3>2. RingLen(f + 1, r, N) = r + N - (f + 1)
      BY <1>0, <2>1, <2>3, RingLenCases
    <3> QED BY <1>1, <2>1, <3>1, <3>2
  <2> QED BY <2>2, <2>3
<1>3. CASE f + 1 = N
  <2>1. (f + 1) % N = 0
    <3>1. f + 1 \in N .. 2 * N - 1
      BY <1>3
    <3>2. (f + 1) % N = f + 1 - N
      BY <3>1, ModOnce
    <3> QED BY <1>3, <3>2
  <2>2. RingLen(f, r, N) = r + N - f
    <3>1. r < f
      BY <1>3
    <3> QED BY <3>1, RingLenCases
  <2>3. RingLen(0, r, N) = r - 0
    <3>1. 0 \in 0 .. N - 1 /\ r >= 0
      OBVIOUS
    <3> QED BY <3>1, RingLenCases
  <2> QED BY <1>1, <1>3, <2>1, <2>2, <2>3
<1> QED BY <1>2, <1>3
=============================================================================
