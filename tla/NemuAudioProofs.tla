-------------------------- MODULE NemuAudioProofs --------------------------
(***************************************************************************)
(* Theorems about the audio ring, for every size of the ring and of SDL's  *)
(* blocks.  In any schedule the counter and both positions stay within the *)
(* buffer; until a callback overlaps a handler, the counter is exact.      *)
(***************************************************************************)
EXTENDS NemuAudio, ListLemmas

\* A memcpy under way stays within the buffer and within what is to play.
CopyFits ==
  gpc # "check" =>
    /\ done < chunk /\ wpos + chunk <= Size
    /\ written + (chunk - done) <= MaxWritten + Pending

RingInv == TypeOK /\ CopyFits

\* The count that will be in memory once the callback has returned.
Settled == IF cpc = "idle" THEN count ELSE ccount

\* Without a race, the handler's register is the count, what the callback
\* holds accounts for what it has played, and the copy fits the free space.
Exact ==
  /\ gpc = "update" => cpc = "idle" /\ gcount = count
  /\ Settled + Pending + Len(played) = written
  /\ cpc = "play" => ccount <= count
  /\ gpc # "check" => count + (chunk - done) <= Size

CountInv == ~raced => Exact

LEMMA TakenProperties ==
  ASSUME RingInv
  PROVE  /\ Taken \in 0..count /\ (tail + Taken) % Size \in 0..(Size - 1)
         /\ Played(Taken) \in Seq(0..MaxWritten) /\ Len(Played(Taken)) = Taken
         /\ played \o Played(Taken) \in Seq(0..MaxWritten)
         /\ Len(played \o Played(Taken)) = Len(played) + Taken
<1> USE AudioAssumption
<1>1. Taken \in 0..count
  BY DEF Taken, Least, RingInv, TypeOK
<1>2. \A n \in Nat : n % Size \in 0..(Size - 1)
  OBVIOUS
<1>3. (tail + Taken) % Size \in 0..(Size - 1)
  <2>1. tail + Taken \in Nat
    BY <1>1 DEF RingInv, TypeOK
  <2> QED BY <1>2, <2>1
<1>4. Played(Taken) \in Seq(0..MaxWritten) /\ Len(Played(Taken)) = Taken
  <2>1. \A i \in 1..Taken : sbuf[(tail + (i - 1)) % Size] \in 0..MaxWritten
    <3> SUFFICES ASSUME NEW i \in 1..Taken
                 PROVE  sbuf[(tail + (i - 1)) % Size] \in 0..MaxWritten
      OBVIOUS
    <3>1. tail + (i - 1) \in Nat
      BY <1>1 DEF RingInv, TypeOK
    <3>2. (tail + (i - 1)) % Size \in 0..(Size - 1)
      BY <1>2, <3>1
    <3> QED BY <3>2 DEF RingInv, TypeOK
  <2>2. Taken \in Nat
    BY <1>1 DEF RingInv, TypeOK
  <2>3. [i \in 1..Taken |-> sbuf[(tail + (i - 1)) % Size]] \in Seq(0..MaxWritten)
    BY <2>1, <2>2, IsASeq
  <2> QED BY <2>2, <2>3 DEF Played
<1> QED BY <1>1, <1>3, <1>4, ConcatProperties DEF RingInv, TypeOK

\* What has been played before, and then what lies from the tail on.
LEMMA PlayedParts ==
  ASSUME RingInv
  PROVE  /\ \A k \in 1..Len(played) : (played \o Played(Taken))[k] = played[k]
         /\ \A i \in 1..Taken :
              (played \o Played(Taken))[Len(played) + i] = sbuf[(tail + (i - 1)) % Size]
<1>1. Taken \in Nat /\ Len(played) \in Nat /\ played \in Seq(0..MaxWritten)
  BY TakenProperties, LenProperties DEF RingInv, TypeOK
<1> DEFINE p == Played(Taken)
<1>2. p \in Seq(0..MaxWritten) /\ Len(p) = Taken
  BY TakenProperties
<1>3. \A i \in 1..Taken : p[i] = sbuf[(tail + (i - 1)) % Size]
  BY DEF Played
<1> HIDE DEF p
<1>4. \A k \in 1..Len(played) + Taken :
        (played \o p)[k] = IF k <= Len(played) THEN played[k] ELSE p[k - Len(played)]
  BY <1>1, <1>2, ConcatProperties
<1>5. \A k \in 1..Len(played) : (played \o p)[k] = played[k]
  BY <1>1, <1>4
<1>6. ASSUME NEW i \in 1..Taken PROVE (played \o p)[Len(played) + i] = p[i]
  <2>1. PICK k \in 1..Len(played) + Taken : k = Len(played) + i
    BY <1>1
  <2>2. ~(k <= Len(played)) /\ k - Len(played) = i
    BY <1>1, <2>1
  <2>3. (played \o p)[k] = p[k - Len(played)]
    BY <1>4, <2>2, Zenon
  <2> QED BY <2>1, <2>2, <2>3
<1> QED BY <1>3, <1>5, <1>6 DEF p

LEMMA RingStep == ASSUME RingInv, [Next]_vars PROVE RingInv'
<1> USE AudioAssumption DEF RingInv, TypeOK, CopyFits, Pending
<1>1. CASE CheckSpace
  BY <1>1 DEF CheckSpace, Least, callbackVars
<1>2. CASE StoreSample
  BY <1>2 DEF StoreSample, callbackVars
<1>3. CASE LoadCount
  BY <1>3 DEF LoadCount, callbackVars
<1>4. CASE UpdateCount
  <2>1. count' \in 0..Size
    BY <1>4 DEF UpdateCount, Least
  <2>2. (wpos + chunk) % Size \in 0..(Size - 1)
    <3>1. wpos + chunk \in Nat
      OBVIOUS
    <3> QED BY <3>1
  <2>3. done \in Nat /\ chunk \in Nat /\ done < chunk /\ done' = done + 1 /\ chunk' = chunk
    BY <1>4 DEF UpdateCount
  <2>4. wpos' \in 0..(Size - 1) /\ gpc' \in {"check", "store"} /\ done' \in 0..chunk'
    BY <1>4, <2>2, <2>3 DEF UpdateCount
  <2>5. TypeOK'
    BY <1>4, <2>1, <2>4 DEF UpdateCount, callbackVars
  <2>6. CopyFits'
    <3>1. CASE done' < chunk
      BY <1>4, <2>3, <3>1 DEF UpdateCount
    <3>2. CASE ~(done' < chunk)
      BY <1>4, <3>2 DEF UpdateCount
    <3> QED BY <3>1, <3>2
  <2> QED BY <2>5, <2>6
<1>5. CASE Reset
  <2>1. <<>> \in Seq(0..MaxWritten)
    OBVIOUS
  <2> QED BY <1>5, <2>1 DEF Reset
<1>6. CASE Play
  <2>1. /\ played' = played \o Played(Taken) /\ cpc' = "play"
        /\ ctail' = (tail + Taken) % Size /\ ccount' = count - Taken
        /\ UNCHANGED <<sbuf, tail, count, gpc, wpos, chunk, done, gcount, written, inits>>
    BY <1>6 DEF Play, guestVars
  <2>2. played' \in Seq(0..MaxWritten) /\ ctail' \in 0..(Size - 1)
    BY <2>1, TakenProperties
  <2>3. ccount' \in 0..Size
    <3>1. Taken \in 0..count
      BY TakenProperties
    <3> QED BY <2>1, <3>1
  <2>4. raced' \in BOOLEAN
    BY <1>6 DEF Play
  <2> QED BY <2>1, <2>2, <2>3, <2>4
<1>7. CASE PlayDone
  BY <1>7 DEF PlayDone, guestVars
<1>8. CASE UNCHANGED vars
  BY <1>8 DEF vars, guestVars, callbackVars
<1> QED BY <1>1, <1>2, <1>3, <1>4, <1>5, <1>6, <1>7, <1>8 DEF Next, Guest, Callback

LEMMA RingStart == ASSUME Init PROVE RingInv
<1>1. <<>> \in Seq(0..MaxWritten)
  OBVIOUS
<1>2. Init => raced \in BOOLEAN
  BY DEF Init
<1> QED BY <1>1, <1>2, AudioAssumption DEF Init, RingInv, TypeOK, CopyFits, Silence

\* Races included, neither the counter nor a position leaves the buffer.
THEOREM AudioTypeCorrect == Spec => []TypeOK
<1>1. RingInv => TypeOK
  BY DEF RingInv
<1> QED BY <1>1, RingStart, RingStep, PTL DEF Spec

LEMMA CountStep == ASSUME RingInv, CountInv, [Next]_vars PROVE CountInv'
<1> SUFFICES ASSUME ~raced' PROVE Exact'
  BY DEF CountInv
<1>0. ~raced
  BY DEF RingInv, TypeOK, Next, Guest, Callback, CheckSpace, StoreSample, LoadCount,
         UpdateCount, Reset, Play, PlayDone, vars
<1>a. Exact
  BY <1>0 DEF CountInv
<1> USE <1>a, AudioAssumption DEF RingInv, TypeOK, CopyFits, Exact, Pending, Settled
<1>1. CASE CheckSpace
  BY <1>1 DEF CheckSpace, Least, callbackVars
<1>2. CASE StoreSample
  <2>1. /\ gpc = "store" /\ gpc' = "load" /\ written' = written + 1
        /\ UNCHANGED <<count, chunk, done, gcount, cpc, ccount, played>>
    BY <1>2 DEF StoreSample, callbackVars
  <2>2. written \in Nat /\ Len(played) \in Nat /\ Settled \in Nat
    <3>1. Len(played) \in Nat
      BY LenProperties
    <3> QED BY <3>1
  <2>3. Settled' = Settled /\ Pending = 0 /\ Pending' = 1
    BY <2>1
  <2>4. Settled' + Pending' + Len(played') = written'
    BY <2>1, <2>2, <2>3
  <2> QED BY <2>1, <2>4
<1>3. CASE LoadCount
  BY <1>3 DEF LoadCount, callbackVars
<1>4. CASE UpdateCount
  <2>1. cpc = "idle" /\ count' = count + 1 /\ done' = done + 1
    BY <1>4 DEF UpdateCount, Least
  <2>2. UNCHANGED <<chunk, written, cpc, ccount, played>>
    BY <1>4 DEF UpdateCount, callbackVars
  <2>3. gpc = "update" /\ gpc' \in {"store", "check"}
    BY <1>4 DEF UpdateCount
  <2>4. Len(played) \in Nat /\ count \in Nat /\ done \in Nat /\ chunk \in Nat
    BY LenProperties
  <2>5. Settled' + Pending' + Len(played') = written'
    BY <2>1, <2>2, <2>3, <2>4
  <2>6. gpc' # "check" => count' + (chunk' - done') <= Size
    BY <2>1, <2>2, <2>3, <2>4
  <2> QED BY <2>1, <2>2, <2>3, <2>5, <2>6
<1>5. CASE Reset
  <2>1. Len(<<>>) = 0
    OBVIOUS
  <2>2. /\ cpc = "idle" /\ cpc' = "idle" /\ gpc = "check" /\ gpc' = "check"
        /\ count' = 0 /\ written' = 0 /\ played' = <<>>
    BY <1>5 DEF Reset
  <2> QED BY <2>1, <2>2
<1>6. CASE Play
  <2>1. /\ Len(played') = Len(played) + Taken /\ Taken \in 0..count
        /\ ccount' = count - Taken /\ cpc' = "play" /\ gpc # "update"
    BY <1>6, TakenProperties DEF Play
  <2>2. cpc = "idle" /\ UNCHANGED <<count, gpc, chunk, done, written>>
    BY <1>6 DEF Play, guestVars
  <2>3. Len(played) \in Nat /\ count \in Nat /\ Taken \in Nat /\ Taken <= count
    BY <2>1, LenProperties
  <2>4. count + Pending + Len(played) = written
    BY <2>2
  <2>5. Settled' + Pending' + Len(played') = written'
    <3>1. Settled' = count - Taken /\ Pending' = Pending /\ Pending \in Nat
      BY <2>1, <2>2
    <3> HIDE <1>a DEF Settled, Pending, TypeOK, Exact, RingInv, CopyFits
    <3> QED BY <3>1, <2>1, <2>2, <2>3, <2>4
  <2>6. ccount' <= count'
    BY <2>1, <2>2, <2>3
  <2>7. gpc' # "check" => count' + (chunk' - done') <= Size
    BY <2>2
  <2> QED BY <2>1, <2>2, <2>5, <2>6, <2>7
<1>7. CASE PlayDone
  BY <1>7 DEF PlayDone, guestVars
<1>8. CASE UNCHANGED vars
  BY <1>8 DEF vars, guestVars, callbackVars
<1> QED BY <1>1, <1>2, <1>3, <1>4, <1>5, <1>6, <1>7, <1>8 DEF Next, Guest, Callback

LEMMA CountInvariant == Spec => []CountInv
<1>1. Init => CountInv
  BY DEF Init, CountInv, Exact, Settled, Pending
<1> QED BY <1>1, CountStep, RingStart, RingStep, PTL DEF Spec

\* Until a callback overlaps a handler, sbuf_count is the number of bytes
\* queued and not consumed: line 79's race is the only thing wrong with it.
THEOREM CountIsExact == Spec => []CountExactUntilRace
<1>1. CountInv => CountExactUntilRace
  BY DEF CountInv, Exact, CountExactUntilRace, CountIsQueued, Settled
<1> QED BY <1>1, CountInvariant, PTL

-----------------------------------------------------------------------------
\* Where the callback will read next once it has returned.
SettledTail == IF cpc = "idle" THEN tail ELSE ctail
\* Where the guest stores its next sample, and how many samples are queued.
NextPlace == IF gpc = "check" THEN wpos ELSE wpos + done + Pending
Queued == written - Len(played)

\* Without a race SDL has had every sample in order, those that are queued lie
\* from the tail on, and the guest goes on where they end.
Ordered ==
  /\ \A k \in 1..Len(played) : played[k] = k
  /\ \A k \in 1..Queued : sbuf[(SettledTail + k - 1) % Size] = Len(played) + k
  /\ (SettledTail + Queued) % Size = NextPlace % Size

OrderInv == ~raced => Ordered

LEMMA OrderStep ==
  ASSUME RingInv, CountInv, OrderInv, [Next]_vars, ~raced' PROVE Ordered'
<1> USE AudioAssumption
<1>0. ~raced
  BY DEF RingInv, TypeOK, Next, Guest, Callback, CheckSpace, StoreSample, LoadCount,
         UpdateCount, Reset, Play, PlayDone, vars
<1>1. Exact /\ Ordered
  BY <1>0 DEF CountInv, OrderInv
<1>2. /\ SettledTail \in 0..(Size - 1) /\ Len(played) \in Nat /\ written \in Nat
      /\ Settled \in 0..Size /\ count \in 0..Size /\ Pending \in 0..1
      /\ wpos \in 0..(Size - 1) /\ done \in Nat /\ chunk \in 0..Size
  BY LenProperties DEF SettledTail, Settled, Pending, RingInv, TypeOK
<1>3. Queued = Settled + Pending /\ Queued \in Nat
  BY <1>1, <1>2 DEF Exact, Queued
<1>4. CASE CheckSpace
  <2>1. /\ NextPlace = wpos /\ NextPlace' = wpos /\ SettledTail' = SettledTail
        /\ UNCHANGED <<sbuf, played, written>>
    BY <1>2, <1>4 DEF CheckSpace, callbackVars, NextPlace, Pending, SettledTail
  <2> QED BY <1>1, <2>1 DEF Ordered, Queued
<1>5. CASE StoreSample
  <2> DEFINE at == wpos + done
  <2>1. /\ sbuf' = [sbuf EXCEPT ![at] = written + 1] /\ written' = written + 1
        /\ played' = played /\ SettledTail' = SettledTail
        /\ NextPlace = at /\ NextPlace' = at + 1
    BY <1>2, <1>5 DEF StoreSample, callbackVars, NextPlace, Pending, SettledTail
  <2>2. Queued < Size
    <3>1. gpc = "store" /\ Pending = 0 /\ done < chunk /\ count + (chunk - done) <= Size
      BY <1>1, <1>5 DEF StoreSample, Pending, RingInv, CopyFits, Exact
    <3>2. Settled <= count
      BY <1>1, <1>2 DEF Settled, Exact, RingInv, TypeOK
    <3> QED BY <1>2, <1>3, <3>1, <3>2
  <2>3. at \in 0..(Size - 1)
    BY <1>2, <1>5 DEF StoreSample, RingInv, CopyFits
  <2>4. at = (SettledTail + Queued) % Size
    BY <1>1, <2>1, <2>3, ModSmall DEF Ordered
  <2>5. Queued' = Queued + 1 /\ Len(played') = Len(played)
    BY <1>2, <2>1 DEF Queued
  <2>6. sbuf'[at] = written + 1 /\ \A j \in 0..(Size - 1) : j # at => sbuf'[j] = sbuf[j]
    BY <2>1, <2>3 DEF RingInv, TypeOK
  <2> HIDE DEF at
  <2>7. ASSUME NEW k \in 1..(Queued + 1)
        PROVE  sbuf'[(SettledTail + k - 1) % Size] = Len(played) + k
    <3>1. CASE k = Queued + 1
      <4>1. SettledTail + k - 1 = SettledTail + Queued /\ Len(played) + k = written + 1
        BY <1>2, <1>3, <3>1 DEF Queued
      <4> QED BY <2>4, <2>6, <4>1
    <3>2. CASE k \in 1..Queued
      <4>1. sbuf[(SettledTail + k - 1) % Size] = Len(played) + k
        BY <1>1, <3>2 DEF Ordered
      <4>2. (SettledTail + k - 1) % Size \in 0..(Size - 1)
        <5>1. SettledTail + k - 1 \in Int
          BY <1>2
        <5> QED BY <5>1, ModRange
      <4>3. (SettledTail + k - 1) % Size # at
        <5>1. /\ SettledTail + k - 1 \in 0..(2 * Size - 1)
              /\ SettledTail + Queued \in 0..(2 * Size - 1)
              /\ SettledTail + k - 1 < SettledTail + Queued
              /\ SettledTail + Queued < SettledTail + k - 1 + Size
          BY <1>2, <1>3, <2>2, <3>2
        <5> QED BY <2>4, <5>1, ModApart
      <4> QED BY <2>6, <4>1, <4>2, <4>3
    <3> QED BY <1>3, <3>1, <3>2
  <2>8. (SettledTail + (Queued + 1)) % Size = (at + 1) % Size
    <3>1. SettledTail + Queued \in 0..(2 * Size - 1)
      BY <1>2, <1>3, <2>2
    <3>2. (((SettledTail + Queued) % Size) + 1) % Size = (SettledTail + Queued + 1) % Size
      BY <3>1, ModNext
    <3>3. SettledTail + Queued + 1 = SettledTail + (Queued + 1)
      BY <1>2, <1>3
    <3> QED BY <2>4, <3>2, <3>3
  <2> QED BY <1>1, <2>1, <2>5, <2>7, <2>8 DEF Ordered
<1>6. CASE LoadCount
  <2>1. /\ NextPlace' = NextPlace /\ SettledTail' = SettledTail
        /\ UNCHANGED <<sbuf, played, written>>
    BY <1>2, <1>6 DEF LoadCount, callbackVars, NextPlace, Pending, SettledTail
  <2> QED BY <1>1, <2>1 DEF Ordered, Queued
<1>7. CASE UpdateCount
  <2>1. SettledTail' = SettledTail /\ UNCHANGED <<sbuf, played, written>>
    BY <1>7 DEF UpdateCount, callbackVars, SettledTail
  <2>2. NextPlace' % Size = NextPlace % Size
    <3>1. gpc = "update" /\ Pending = 1 /\ NextPlace = wpos + done + 1 /\ done' = done + 1
      BY <1>7 DEF UpdateCount, Pending, NextPlace
    <3>2. CASE done' < chunk
      <4>1. gpc' = "store" /\ wpos' = wpos
        BY <1>7, <3>2 DEF UpdateCount
      <4> QED BY <1>2, <3>1, <4>1 DEF NextPlace, Pending
    <3>3. CASE ~(done' < chunk)
      <4>1. gpc' = "check" /\ wpos' = (wpos + chunk) % Size
        BY <1>7, <3>3 DEF UpdateCount
      <4>2. done + 1 = chunk
        BY <1>2, <3>1, <3>3 DEF RingInv, CopyFits
      <4>3. NextPlace' = (wpos + chunk) % Size /\ NextPlace = wpos + chunk
        BY <1>2, <3>1, <4>1, <4>2 DEF NextPlace
      <4>4. (wpos + chunk) % Size \in 0..(Size - 1)
        BY <1>2, ModRange
      <4> QED BY <4>3, <4>4, ModSmall
    <3> QED BY <3>2, <3>3
  <2> QED BY <1>1, <2>1, <2>2 DEF Ordered, Queued
<1>8. CASE Reset
  <2>1. /\ written' = 0 /\ cpc' = "idle" /\ tail' = 0
        /\ gpc' = "check" /\ wpos' = 0
    BY <1>8 DEF Reset, RingInv, TypeOK
  <2>2. Len(played') = 0
    BY <1>8 DEF Reset
  <2>3. Queued' = 0 /\ SettledTail' = 0 /\ NextPlace' = 0
    BY <2>1, <2>2 DEF Queued, SettledTail, NextPlace
  <2> QED BY <2>2, <2>3 DEF Ordered
<1>9. CASE Play
  <2>1. /\ cpc = "idle" /\ cpc' = "play" /\ played' = played \o Played(Taken)
        /\ ctail' = (tail + Taken) % Size /\ count > 0
        /\ UNCHANGED <<sbuf, tail, gpc, wpos, done, written>>
    BY <1>9 DEF Play, guestVars
  <2>2. Taken \in 1..count /\ Len(played') = Len(played) + Taken
    BY <1>2, <2>1, TakenProperties DEF Taken, Least
  <2>3. /\ SettledTail = tail /\ SettledTail' = (tail + Taken) % Size
        /\ NextPlace' = NextPlace /\ Settled = count
    BY <2>1 DEF SettledTail, NextPlace, Pending, Settled
  <2>4. Queued' = Queued - Taken /\ Queued \in Taken..Size
    <3>1. gpc # "check" => count < Size
      BY <1>1, <1>2 DEF Exact, RingInv, CopyFits
    <3>2. Pending = 1 => gpc # "check"
      BY DEF Pending
    <3>3. Queued \in Taken..Size
      BY <1>2, <1>3, <2>2, <2>3, <3>1, <3>2
    <3> QED BY <1>2, <2>1, <2>2, <3>3 DEF Queued
  <2>5. ASSUME NEW k \in 1..Len(played') PROVE played'[k] = k
    <3>1. CASE k <= Len(played)
      <4>1. played'[k] = played[k]
        BY <1>2, <2>1, <2>2, <3>1, PlayedParts
      <4> QED BY <1>1, <1>2, <3>1, <4>1 DEF Ordered
    <3>2. CASE k > Len(played)
      <4> DEFINE i == k - Len(played)
      <4>1. i \in 1..Taken /\ k = Len(played) + i
        BY <1>2, <2>2, <3>2
      <4>2. played'[k] = sbuf[(tail + (i - 1)) % Size]
        BY <1>2, <2>1, <4>1, PlayedParts
      <4>3. tail + (i - 1) = SettledTail + i - 1
        BY <1>2, <2>3, <4>1
      <4>4. i \in 1..Queued
        BY <2>2, <2>4, <4>1
      <4> QED BY <1>1, <4>1, <4>2, <4>3, <4>4 DEF Ordered
    <3> QED BY <1>2, <2>2, <3>1, <3>2
  <2>6. ASSUME NEW k \in 1..(Queued - Taken)
        PROVE  sbuf[(((tail + Taken) % Size) + k - 1) % Size] = Len(played) + Taken + k
    <3>1. tail + Taken \in 0..(2 * Size - 1) /\ k - 1 \in 0..(Size - 1)
      BY <1>2, <2>2, <2>3, <2>4
    <3>2. (((tail + Taken) % Size) + (k - 1)) % Size = (tail + Taken + (k - 1)) % Size
      BY <3>1, ModShift
    <3>3. /\ tail + Taken + (k - 1) = SettledTail + (Taken + k) - 1
          /\ Taken + k \in 1..Queued
          /\ Len(played) + (Taken + k) = Len(played) + Taken + k
      BY <1>2, <2>2, <2>3, <2>4
    <3>4. ((tail + Taken) % Size) + (k - 1) = ((tail + Taken) % Size) + k - 1
      <4>1. (tail + Taken) % Size \in Int
        BY <3>1, ModRange
      <4> QED BY <4>1
    <3>5. sbuf[(SettledTail + (Taken + k) - 1) % Size] = Len(played) + (Taken + k)
      BY <1>1, <3>3 DEF Ordered
    <3> QED BY <3>2, <3>3, <3>4, <3>5
  <2>7. (((tail + Taken) % Size) + (Queued - Taken)) % Size = (tail + Queued) % Size
    <3>1. tail + Taken \in 0..(2 * Size - 1) /\ Queued - Taken \in 0..(Size - 1)
      BY <1>2, <2>2, <2>3, <2>4
    <3>2. tail + Taken + (Queued - Taken) = tail + Queued
      BY <1>2, <2>2, <2>3, <2>4
    <3> QED BY <3>1, <3>2, ModShift
  <2> QED BY <1>1, <2>1, <2>2, <2>3, <2>4, <2>5, <2>6, <2>7 DEF Ordered
<1>10. CASE PlayDone
  <2>1. /\ NextPlace' = NextPlace /\ SettledTail' = SettledTail
        /\ UNCHANGED <<sbuf, played, written>>
    BY <1>10 DEF PlayDone, guestVars, NextPlace, Pending, SettledTail
  <2> QED BY <1>1, <2>1 DEF Ordered, Queued
<1>11. CASE UNCHANGED vars
  <2>1. /\ NextPlace' = NextPlace /\ SettledTail' = SettledTail
        /\ UNCHANGED <<sbuf, played, written>>
    BY <1>11 DEF vars, guestVars, callbackVars, NextPlace, Pending, SettledTail
  <2> QED BY <1>1, <2>1 DEF Ordered, Queued
<1> QED BY <1>4, <1>5, <1>6, <1>7, <1>8, <1>9, <1>10, <1>11 DEF Next, Guest, Callback

\* Whatever the size of the ring and of SDL's blocks, and however the two
\* threads take turns between their handlers: every sample is played once and
\* in order, and none is overwritten before.
THEOREM SamplesInOrder == Spec => []PlayedInOrder
<1>1. Init => OrderInv
  <2> SUFFICES ASSUME Init PROVE Ordered
    BY DEF OrderInv
  <2>1. /\ written = 0 /\ cpc = "idle" /\ tail = 0
        /\ gpc = "check" /\ wpos = 0
    BY DEF Init
  <2>2. Len(played) = 0
    BY DEF Init
  <2>3. Queued = 0 /\ SettledTail = 0 /\ NextPlace = 0
    BY <2>1, <2>2 DEF Queued, SettledTail, NextPlace
  <2> QED BY <2>2, <2>3 DEF Ordered
<1>2. RingInv /\ CountInv /\ OrderInv /\ [Next]_vars => OrderInv'
  BY OrderStep DEF OrderInv
<1>3. RingInv /\ CountInv /\ OrderInv => PlayedInOrder
  <2> SUFFICES ASSUME RingInv, Exact, Ordered PROVE PlayedInOrder
    BY DEF CountInv, OrderInv, PlayedInOrder
  <2>1. Len(played) \in Nat /\ Settled \in Nat /\ Pending \in Nat /\ written \in Nat
    BY LenProperties DEF RingInv, TypeOK, Settled, Pending
  <2> QED BY <2>1 DEF Exact, Ordered, PlayedInOrder
<1> QED BY <1>1, <1>2, <1>3, CountInvariant, RingStart, RingStep, PTL DEF Spec
=============================================================================
