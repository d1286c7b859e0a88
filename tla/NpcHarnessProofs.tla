-------------------------- MODULE NpcHarnessProofs --------------------------
(***************************************************************************)
(* Theorems about the simulation harness, for every datapath and program   *)
(* and every latency: first the key ring of NpcKeyboard, for every size    *)
(* and number of events, then the loop of NpcHarness, for every number of  *)
(* watchpoints and of recorded instructions.                               *)
(***************************************************************************)
EXTENDS NpcKeyboard, NpcHarness, MiniRvProofs, ListLemmas

Places == 0 .. QueueLen - 1
RingType == [buf : [Places -> 0 .. MaxKeys], head : Places, tail : Places]

Held(ring) == RingLen(ring.head, ring.tail, QueueLen)

\* The ring holds the latest of p events, and nothing else.
Latest(ring, p) ==
  /\ Held(ring) <= p
  /\ \A i \in 0 .. Held(ring) - 1 :
       ring.buf[(ring.head + i) % QueueLen] = p - Held(ring) + 1 + i

\* The last event that is no longer in the ring.
Gone(ring, p) == p - Held(ring)

KeyInv ==
  /\ keyQueue \in [Places -> 0 .. MaxKeys] /\ keyHead \in Places /\ keyTail \in Places
  /\ pressed \in 0 .. MaxKeys
  /\ Latest(Ring, pressed)

\* What a load is about to see is newer than all that was seen and older than
\* all that waits.
Fresh(k) ==
  k \in 0 .. MaxKeys /\ (k = KeyNone \/ (seen < k /\ k <= Gone(Ring, pressed)))

OrderInv ==
  /\ seen \in 0 .. MaxKeys /\ seen <= Gone(Ring, pressed)
  /\ lsuState = "R" /\ memReading /\ AluResult = KBD => Fresh(memWord)
  /\ lsuState = "DONE" /\ LsuRen /\ AluResult = KBD => Fresh(loaded)

LEMMA RingSizes ==
  ASSUME NEW ring \in RingType
  PROVE  /\ Held(ring) \in 0 .. QueueLen - 1
         /\ ring.tail = (ring.head + Held(ring)) % QueueLen
         /\ ring.buf \in [Places -> 0 .. MaxKeys] /\ ring.head \in Places /\ ring.tail \in Places
<1>1. ring.head \in 0 .. QueueLen - 1 /\ ring.tail \in 0 .. QueueLen - 1
  BY DEF RingType, Places
<1> QED BY <1>1, RingLenCases, KeyAssumption DEF Held, RingType, Places

\* The place of an entry.
LEMMA EntryPlace ==
  ASSUME NEW ring \in RingType, NEW i \in 0 .. Held(ring)
  PROVE  /\ (ring.head + i) % QueueLen \in Places
         /\ i < Held(ring) => (ring.head + i) % QueueLen # ring.tail
<1>1. /\ Held(ring) \in 0 .. QueueLen - 1 /\ ring.head \in 0 .. QueueLen - 1
      /\ ring.tail = (ring.head + Held(ring)) % QueueLen
  BY RingSizes DEF Places
<1>2. ring.head + i \in 0 .. 2 * QueueLen - 1 /\ ring.head + Held(ring) \in 0 .. 2 * QueueLen - 1
  BY <1>1, KeyAssumption
<1>3. (ring.head + i) % QueueLen \in Places
  <2>1. ring.head + i \in Int
    BY <1>2
  <2> QED BY <2>1, ModRange, KeyAssumption DEF Places
<1>4. i < Held(ring) => (ring.head + i) % QueueLen # (ring.head + Held(ring)) % QueueLen
  <2>1. i < Held(ring) => /\ ring.head + i < ring.head + Held(ring)
                          /\ ring.head + Held(ring) < ring.head + i + QueueLen
    BY <1>1, KeyAssumption
  <2> QED BY <1>2, <2>1, ModApart, KeyAssumption
<1> QED BY <1>1, <1>3, <1>4

\* An event enqueued: if the ring is full, the oldest makes room for it.
LEMMA EnqueueKeepsLatest ==
  ASSUME NEW ring \in RingType, NEW p \in 0 .. MaxKeys - 1, Latest(ring, p),
         NEW new, new = Enqueue(ring, p + 1)
  PROVE  new \in RingType /\ Latest(new, p + 1) /\ Gone(ring, p) <= Gone(new, p + 1)
<1> USE KeyAssumption
<1> DEFINE h == Held(ring)
           tail == (ring.tail + 1) % QueueLen
<1>1. /\ h \in 0 .. QueueLen - 1 /\ ring.head \in 0 .. QueueLen - 1
      /\ ring.tail \in 0 .. QueueLen - 1
      /\ ring.tail = (ring.head + h) % QueueLen /\ ring.buf \in [Places -> 0 .. MaxKeys]
  BY RingSizes DEF Places
<1>2. tail \in Places /\ (ring.head + 1) % QueueLen \in Places
  <2>1. ring.tail + 1 \in Int /\ ring.head + 1 \in Int
    BY <1>1
  <2> QED BY <2>1, ModRange DEF Places
<1>3. /\ new.buf = [ring.buf EXCEPT ![ring.tail] = p + 1] /\ new.tail = tail
      /\ new.head = IF tail = ring.head THEN (ring.head + 1) % QueueLen ELSE ring.head
      /\ new = [buf |-> new.buf, head |-> new.head, tail |-> new.tail]
  BY DEF Enqueue
<1>4. new \in RingType
  <2>1. p + 1 \in 0 .. MaxKeys
    OBVIOUS
  <2>2. new.buf \in [Places -> 0 .. MaxKeys]
    BY <1>1, <1>3, <2>1
  <2>3. new.head \in Places /\ new.tail \in Places
    BY <1>1, <1>2, <1>3 DEF Places
  <2> QED BY <1>3, <2>2, <2>3 DEF RingType
<1>5. \A j \in Places : new.buf[j] = IF j = ring.tail THEN p + 1 ELSE ring.buf[j]
  BY <1>1, <1>3 DEF Places
<1>6. /\ h <= p
      /\ \A i \in 0 .. h - 1 : ring.buf[(ring.head + i) % QueueLen] = p - h + 1 + i
  BY DEF Latest
<1>7. ASSUME NEW i \in 0 .. h
      PROVE  new.buf[(ring.head + i) % QueueLen] = p - h + 1 + i
  <2>1. (ring.head + i) % QueueLen \in Places
    BY EntryPlace
  <2>2. CASE i = h
    BY <1>1, <1>5, <2>1, <2>2
  <2>3. CASE i < h
    <3>1. (ring.head + i) % QueueLen # ring.tail /\ i \in 0 .. h - 1
      BY <1>1, <2>3, EntryPlace
    <3> QED BY <1>5, <1>6, <2>1, <3>1
  <2> QED BY <1>1, <2>2, <2>3
<1>8. CASE tail # ring.head
  <2>1. Held(new) = h + 1 /\ new.head = ring.head
    BY <1>1, <1>3, <1>8, RingPut DEF Held
  <2>2. ASSUME NEW i \in 0 .. Held(new) - 1
        PROVE  new.buf[(new.head + i) % QueueLen] = (p + 1) - Held(new) + 1 + i
    <3>1. i \in 0 .. h
      BY <1>1, <2>1
    <3> QED BY <1>1, <1>7, <2>1, <3>1
  <2> QED BY <1>1, <1>4, <1>6, <2>1, <2>2 DEF Latest, Gone
<1>9. CASE tail = ring.head
  <2>1. h = QueueLen - 1 /\ new.head = (ring.head + 1) % QueueLen
    BY <1>1, <1>3, <1>9, RingPut DEF Held
  <2>2. Held(new) = h
    <3>1. new.head = (new.tail + 1) % QueueLen
      BY <1>3, <1>9, <2>1
    <3>2. new.tail \in 0 .. QueueLen - 1 /\ new.head \in 0 .. QueueLen - 1
      BY <1>4, RingSizes DEF Places
    <3> QED BY <2>1, <3>1, <3>2, RingPut DEF Held
  <2>3. ASSUME NEW i \in 0 .. Held(new) - 1
        PROVE  new.buf[(new.head + i) % QueueLen] = (p + 1) - Held(new) + 1 + i
    <3>1. i \in 0 .. QueueLen - 1 /\ i + 1 \in 0 .. h /\ ring.head + 1 \in 0 .. 2 * QueueLen - 1
      BY <1>1, <2>1, <2>2
    <3>2. (((ring.head + 1) % QueueLen) + i) % QueueLen = (ring.head + 1 + i) % QueueLen
      BY <3>1, ModShift
    <3>3. new.buf[(ring.head + (i + 1)) % QueueLen] = p - h + 1 + (i + 1)
      BY <1>7, <3>1
    <3>4. ring.head + 1 + i = ring.head + (i + 1)
      BY <1>1, <3>1
    <3> QED BY <1>1, <2>1, <2>2, <3>1, <3>2, <3>3, <3>4
  <2> QED BY <1>1, <1>4, <1>6, <2>2, <2>3 DEF Latest, Gone
<1> QED BY <1>8, <1>9

\* The next event is the oldest of the ring.
LEMMA DequeueKeepsLatest ==
  ASSUME NEW ring \in RingType, NEW p \in 0 .. MaxKeys, Latest(ring, p),
         NEW new, new = Dequeue(ring)
  PROVE  /\ new \in RingType /\ Latest(new, p) /\ Gone(ring, p) <= Gone(new, p)
         /\ NextKey(ring) \in 0 .. MaxKeys
         /\ NextKey(ring) = KeyNone
              \/ (Gone(ring, p) < NextKey(ring) /\ NextKey(ring) <= Gone(new, p))
<1> USE KeyAssumption
<1> DEFINE h == Held(ring)
<1>1. /\ h \in 0 .. QueueLen - 1 /\ ring.head \in 0 .. QueueLen - 1
      /\ ring.tail \in 0 .. QueueLen - 1 /\ ring.buf \in [Places -> 0 .. MaxKeys]
  BY RingSizes DEF Places
<1>2. /\ h <= p
      /\ \A i \in 0 .. h - 1 : ring.buf[(ring.head + i) % QueueLen] = p - h + 1 + i
  BY DEF Latest
<1>3. CASE ring.head = ring.tail
  <2>1. new = ring /\ NextKey(ring) = KeyNone
    BY <1>3 DEF Dequeue, NextKey
  <2> QED BY <1>1, <1>2, <2>1 DEF Gone
<1>4. CASE ring.head # ring.tail
  <2>1. new = [buf |-> ring.buf, head |-> (ring.head + 1) % QueueLen, tail |-> ring.tail]
    BY <1>4 DEF Dequeue, RingType
  <2>2. new \in RingType
    <3>1. ring.head + 1 \in Int
      BY <1>1
    <3>2. (ring.head + 1) % QueueLen \in Places
      BY <3>1, ModRange DEF Places
    <3> QED BY <2>1, <3>2 DEF RingType
  <2>3. Held(new) = h - 1 /\ h >= 1
    BY <1>1, <1>4, <2>1, RingGet DEF Held
  <2>4. NextKey(ring) = p - h + 1
    <3>1. 0 \in 0 .. h - 1 /\ (ring.head + 0) % QueueLen = ring.head
      BY <1>1, <2>3, ModSmall
    <3> QED BY <1>1, <1>2, <1>4, <3>1 DEF NextKey
  <2>5. ASSUME NEW i \in 0 .. Held(new) - 1
        PROVE  new.buf[(new.head + i) % QueueLen] = p - Held(new) + 1 + i
    <3>1. i \in 0 .. QueueLen - 1 /\ i + 1 \in 0 .. h - 1 /\ ring.head + 1 \in 0 .. 2 * QueueLen - 1
      BY <1>1, <2>3
    <3>2. (((ring.head + 1) % QueueLen) + i) % QueueLen = (ring.head + 1 + i) % QueueLen
      BY <3>1, ModShift
    <3>3. ring.buf[(ring.head + (i + 1)) % QueueLen] = p - h + 1 + (i + 1)
      BY <1>2, <3>1
    <3>4. ring.head + 1 + i = ring.head + (i + 1)
      BY <1>1, <3>1
    <3> QED BY <1>1, <2>1, <2>3, <3>1, <3>2, <3>3, <3>4
  <2> QED BY <1>1, <1>2, <2>2, <2>3, <2>4, <2>5 DEF Latest, Gone
<1> QED BY <1>3, <1>4

-----------------------------------------------------------------------------
\* The rings poll_sdl_events passes through.
IsRun(f, ring, n) ==
  f = [k \in 0 .. n |-> IF k = 0 THEN ring ELSE Enqueue(f[k - 1], pressed + k)]

LEMMA RunExists ==
  ASSUME NEW ring, NEW n \in Nat PROVE \E f : IsRun(f, ring, n)
<1> DEFINE S == {m \in Nat : ~\E f : IsRun(f, ring, m)}
<1> SUFFICES ASSUME S # {} PROVE FALSE
  OBVIOUS
<1>1. PICK m \in S : \A j \in S : m <= j
  <2>1. S \in SUBSET Nat
    OBVIOUS
  <2> HIDE DEF S
  <2> QED BY <2>1, LeastOf
<1>2. m \in Nat /\ ~\E f : IsRun(f, ring, m)
  OBVIOUS
<1>3. CASE m = 0
  <2>1. IsRun([k \in 0 .. 0 |-> ring], ring, 0)
    BY DEF IsRun
  <2> QED BY <1>2, <1>3, <2>1
<1>4. CASE m # 0
  <2>1. m - 1 \in Nat /\ m - 1 \notin S
    BY <1>1, <1>2, <1>4
  <2>2. PICK g : IsRun(g, ring, m - 1)
    BY <2>1
  <2> DEFINE f == [k \in 0 .. m |-> IF k = m THEN Enqueue(g[m - 1], pressed + m) ELSE g[k]]
  <2>3. \A k \in 0 .. m - 1 :
          f[k] = IF k = 0 THEN ring ELSE Enqueue(g[k - 1], pressed + k)
    BY <1>2, <1>4, <2>2 DEF IsRun
  <2>4. \A k \in 0 .. m - 1 : f[k] = g[k]
    BY <1>2
  <2>5. ASSUME NEW k \in 0 .. m
        PROVE  f[k] = IF k = 0 THEN ring ELSE Enqueue(f[k - 1], pressed + k)
    <3>1. CASE k = m
      <4>1. f[k] = Enqueue(g[m - 1], pressed + m) /\ f[m - 1] = g[m - 1]
        BY <1>2, <1>4, <2>4, <3>1
      <4> QED BY <1>4, <3>1, <4>1
    <3>2. CASE k # m /\ k # 0
      <4>1. k \in 0 .. m - 1 /\ k - 1 \in 0 .. m - 1
        BY <1>2, <3>2
      <4> QED BY <2>3, <2>4, <3>2, <4>1
    <3>3. CASE k = 0
      <4>1. k \in 0 .. m - 1
        BY <1>2, <1>4, <3>3
      <4> QED BY <2>3, <3>3, <4>1
    <3> QED BY <3>1, <3>2, <3>3
  <2>6. f = [k \in 0 .. m |-> f[k]]
    OBVIOUS
  <2> HIDE DEF f
  <2>7. IsRun(f, ring, m)
    BY <2>5, <2>6, Zenon DEF IsRun
  <2> QED BY <1>2, <2>7
<1> QED BY <1>3, <1>4

LEMMA PolledRun ==
  ASSUME NEW ring, NEW n \in Nat
  PROVE  \E f : IsRun(f, ring, n) /\ Polled(ring, n) = f[n]
<1> DEFINE f == CHOOSE g : IsRun(g, ring, n)
<1>1. IsRun(f, ring, n)
  BY RunExists, Zenon
<1>2. Polled(ring, n) = f[n]
  BY Zenon DEF Polled, IsRun
<1> QED BY <1>1, <1>2

\* However many events one poll brings.
LEMMA PolledKeepsLatest ==
  ASSUME NEW ring \in RingType, pressed \in 0 .. MaxKeys, Latest(ring, pressed),
         NEW n \in 0 .. MaxKeys - pressed, NEW new, new = Polled(ring, n)
  PROVE  /\ new \in RingType /\ Latest(new, pressed + n)
         /\ Gone(ring, pressed) <= Gone(new, pressed + n)
<1> USE KeyAssumption
<1>1. PICK f : IsRun(f, ring, n) /\ new = f[n]
  BY PolledRun
<1> DEFINE Good(k) == /\ f[k] \in RingType /\ Latest(f[k], pressed + k)
                      /\ Gone(ring, pressed) <= Gone(f[k], pressed + k)
           S == {k \in 0 .. n : ~Good(k)}
<1>2. f[0] = ring /\ \A k \in 1 .. n : f[k] = Enqueue(f[k - 1], pressed + k)
  <2>1. \A k \in 0 .. n : f[k] = IF k = 0 THEN ring ELSE Enqueue(f[k - 1], pressed + k)
    BY <1>1 DEF IsRun
  <2> QED BY <2>1
<1>3. Good(0)
  <2>1. Held(ring) \in Int
    BY RingSizes
  <2> QED BY <1>2, <2>1 DEF Gone
<1>4. ASSUME NEW k \in 1 .. n, Good(k - 1) PROVE Good(k)
  <2>1. pressed + (k - 1) \in 0 .. MaxKeys - 1 /\ (pressed + (k - 1)) + 1 = pressed + k
    OBVIOUS
  <2>2. f[k] = Enqueue(f[k - 1], (pressed + (k - 1)) + 1)
    BY <1>2, <2>1
  <2>3. /\ f[k] \in RingType /\ Latest(f[k], (pressed + (k - 1)) + 1)
        /\ Gone(f[k - 1], pressed + (k - 1)) <= Gone(f[k], (pressed + (k - 1)) + 1)
    BY <1>4, <2>1, <2>2, EnqueueKeepsLatest
  <2>4. Held(ring) \in Int /\ Held(f[k - 1]) \in Int /\ Held(f[k]) \in Int
    BY <1>4, <2>3, RingSizes
  <2> QED BY <1>4, <2>1, <2>3, <2>4 DEF Gone
<1>5. S = {}
  <2> SUFFICES ASSUME S # {} PROVE FALSE
    OBVIOUS
  <2>1. S \in SUBSET Nat
    OBVIOUS
  <2>2. PICK k \in S : \A j \in S : k <= j
    <3> HIDE DEF S
    <3> QED BY <2>1, LeastOf
  <2>3. k \in 0 .. n /\ ~Good(k)
    OBVIOUS
  <2>4. k # 0
    BY <1>3, <2>3
  <2>5. k \in 1 .. n /\ k - 1 \in 0 .. n /\ k - 1 \notin S
    BY <2>2, <2>3, <2>4
  <2>6. Good(k - 1)
    BY <2>5
  <2> HIDE DEF Good
  <2> QED BY <1>4, <2>3, <2>5, <2>6
<1>6. Good(n)
  BY <1>5
<1> QED BY <1>1, <1>6

-----------------------------------------------------------------------------
LEMMA RingInType ==
  ASSUME KeyInv PROVE Ring \in RingType /\ pressed \in 0 .. MaxKeys /\ Latest(Ring, pressed)
  BY DEF KeyInv, Ring, RingType

\* An edge: what the memory may hand out is newer than all that is gone.
KeyEdge(key) ==
  /\ key \in 0 .. MaxKeys /\ Clock(key)
  /\ Gone(Ring, pressed) \in Int /\ Gone(Ring, pressed)' \in Int
  /\ Gone(Ring, pressed) <= Gone(Ring, pressed)'
  /\ key = KeyNone \/ (Gone(Ring, pressed) < key /\ key <= Gone(Ring, pressed)')
  /\ seen' = IF KeyLoad /\ loaded # KeyNone THEN loaded ELSE seen

LEMMA KeyStep ==
  ASSUME KeyInv, KNext
  PROVE  KeyInv' /\ \E key : KeyEdge(key)
<1> USE KeyAssumption
<1>0. Ring \in RingType /\ pressed \in 0 .. MaxKeys /\ Latest(Ring, pressed)
  BY RingInType
<1>1. CASE PollingCycle
  <2>1. PICK n \in 0 .. MaxKeys - pressed :
          /\ Clock(NextKey(Polled(Ring, n)))
          /\ SetRing(Dequeue(Polled(Ring, n)))
          /\ pressed' = pressed + n
    BY <1>1 DEF PollingCycle
  <2> DEFINE ring == Polled(Ring, n)
             new == Dequeue(ring)
             p == pressed + n
             key == NextKey(ring)
  <2>2. /\ ring \in RingType /\ Latest(ring, p)
        /\ Gone(Ring, pressed) <= Gone(ring, p)
    BY <1>0, PolledKeepsLatest
  <2>3. p \in 0 .. MaxKeys
    BY <1>0
  <2>4. /\ new \in RingType /\ Latest(new, p) /\ Gone(ring, p) <= Gone(new, p)
        /\ key \in 0 .. MaxKeys
        /\ key = KeyNone \/ (Gone(ring, p) < key /\ key <= Gone(new, p))
    BY <2>2, <2>3, DequeueKeepsLatest
  <2>5. Ring' = new /\ pressed' = p
    BY <2>1, <2>4 DEF SetRing, Ring, RingType
  <2>6. KeyInv'
    BY <2>3, <2>4, <2>5 DEF KeyInv, Ring, RingType
  <2>7. Gone(Ring, pressed)' = Gone(new, p)
    BY <2>5 DEF Gone, Held
  <2>8. Gone(Ring, pressed) \in Int /\ Gone(ring, p) \in Int /\ Gone(new, p) \in Int
    BY <1>0, <2>2, <2>3, <2>4, RingSizes DEF Gone
  <2>9. /\ Gone(Ring, pressed) <= Gone(Ring, pressed)'
        /\ key = KeyNone \/ (Gone(Ring, pressed) < key /\ key <= Gone(Ring, pressed)')
    BY <2>2, <2>4, <2>7, <2>8
  <2>10. KeyEdge(key)
    BY <1>1, <2>1, <2>4, <2>7, <2>8, <2>9 DEF KeyEdge, PollingCycle
  <2> QED BY <2>6, <2>10
<1>2. CASE RedrawCycle
  <2>1. PICK n \in 0 .. MaxKeys - pressed : SetRing(Polled(Ring, n)) /\ pressed' = pressed + n
    BY <1>2 DEF RedrawCycle
  <2> DEFINE new == Polled(Ring, n)
             p == pressed + n
  <2>2. new \in RingType /\ Latest(new, p) /\ Gone(Ring, pressed) <= Gone(new, p)
    BY <1>0, PolledKeepsLatest
  <2>3. p \in 0 .. MaxKeys
    BY <1>0
  <2>4. Ring' = new /\ pressed' = p
    BY <2>1, <2>2 DEF SetRing, Ring, RingType
  <2>5. KeyInv'
    BY <2>2, <2>3, <2>4 DEF KeyInv, Ring, RingType
  <2>6. /\ Gone(Ring, pressed) <= Gone(Ring, pressed)'
        /\ Gone(Ring, pressed) \in Int /\ Gone(Ring, pressed)' \in Int
    <3>1. Gone(Ring, pressed)' = Gone(new, p)
      BY <2>4 DEF Gone, Held
    <3>2. Gone(Ring, pressed) \in Int /\ Gone(new, p) \in Int
      BY <1>0, <2>2, <2>3, RingSizes DEF Gone
    <3> QED BY <2>2, <3>1, <3>2
  <2>7. ~KeyLoad
    BY <1>2
    DEF RedrawCycle, SyncWrite, KeyLoad, Retiring, ExecDone, LsuRen, LsuValid, LsuAwValid,
        Offered
  <2>8. KeyEdge(KeyNone)
    BY <1>2, <2>6, <2>7 DEF KeyEdge, RedrawCycle
  <2> QED BY <2>5, <2>8
<1>3. CASE OtherCycle
  <2>1. UNCHANGED <<keyQueue, keyHead, keyTail, pressed>>
    BY <1>3 DEF OtherCycle
  <2>2. KeyInv' /\ Gone(Ring, pressed)' = Gone(Ring, pressed)
    BY <2>1 DEF KeyInv, Ring, Latest, Gone, Held
  <2>3. Gone(Ring, pressed) \in Int
    BY <1>0, RingSizes DEF Gone
  <2>4. KeyEdge(KeyNone)
    BY <1>3, <2>2, <2>3 DEF KeyEdge, OtherCycle
  <2> QED BY <2>2, <2>4
<1> QED BY <1>1, <1>2, <1>3 DEF KNext

LEMMA KeyInvariant == KSpec => []KeyInv
<1>1. KInit => KeyInv
  <2> SUFFICES ASSUME KInit PROVE KeyInv
    OBVIOUS
  <2>1. /\ keyQueue = [i \in 0 .. QueueLen - 1 |-> KeyNone]
        /\ keyHead = 0 /\ keyTail = 0 /\ pressed = 0
    BY DEF KInit
  <2>2. /\ keyQueue \in [Places -> 0 .. MaxKeys] /\ keyHead \in Places /\ keyTail \in Places
        /\ pressed \in 0 .. MaxKeys
    BY <2>1, KeyAssumption DEF Places
  <2>3. Held(Ring) = 0
    <3>1. 0 \in 0 .. QueueLen - 1
      BY KeyAssumption
    <3>2. RingLen(0, 0, QueueLen) = 0 - 0
      BY <3>1, RingLenCases, KeyAssumption
    <3> QED BY <2>1, <3>2 DEF Held, Ring
  <2> QED BY <2>1, <2>2, <2>3 DEF KeyInv, Latest
<1>2. KeyInv /\ [KNext]_<<vars, keyVars>> => KeyInv'
  <2>1. KeyInv /\ KNext => KeyInv'
    BY KeyStep
  <2>2. KeyInv /\ UNCHANGED <<vars, keyVars>> => KeyInv'
    BY DEF KeyInv, keyVars, Ring, Latest, Held
  <2> QED BY <2>1, <2>2
<1> QED BY <1>1, <1>2, PTL DEF KSpec

\* The key queue never hands the core anything but a word of the keyboard.
THEOREM KeyboardRunsCore == KSpec => Spec
<1>1. KInit => Init
  BY DEF KInit
<1>2. KeyInv /\ [KNext]_<<vars, keyVars>> => [Next]_vars
  <2>1. ASSUME KeyInv, KNext PROVE Next
    <3>1. PICK key : KeyEdge(key)
      BY <2>1, KeyStep
    <3> QED BY <3>1, KeyAssumption DEF KeyEdge, Next
  <2> QED BY <2>1
<1> QED BY <1>1, <1>2, KeyInvariant, PTL DEF KSpec, Spec

\* What key_enqueue drops is always the oldest: the ring holds the latest events,
\* in order and without a gap, for every size and every burst of events.
THEOREM RingIsLatest == KSpec => []RingHoldsLatest
<1>1. KeyInv => RingHoldsLatest
  BY DEF KeyInv, RingHoldsLatest, Latest, Held, Ring, RingLen, Waiting
<1> QED BY <1>1, KeyInvariant, PTL

-----------------------------------------------------------------------------
\* What the key queue hands out goes through the memory's latch and the load/store
\* unit before software sees it; on the way nothing overtakes it.
LEMMA OrderStep ==
  ASSUME BusInv, OrderInv, NEW key, KeyEdge(key)
  PROVE  OrderInv' /\ (KeyLoad /\ loaded # KeyNone => loaded > seen)
<1> USE KeyAssumption
<1> DEFINE g == Gone(Ring, pressed)
<1>1. key \in Key /\ Clock(key) /\ g \in Int /\ g' \in Int /\ g <= g'
  BY DEF KeyEdge
<1>2. seen \in 0 .. MaxKeys /\ seen <= g
  BY DEF OrderInv
<1>3. CASE KeyLoad /\ loaded # KeyNone
  <2>1. lsuState = "DONE" /\ LsuRen /\ AluResult = KBD
    BY <1>3 DEF KeyLoad, Retiring, ExecDone, LsuRen, LsuWen, LsuValid
  <2>2. loaded \in 0 .. MaxKeys /\ seen < loaded /\ loaded <= g
    BY <1>3, <2>1 DEF OrderInv, Fresh
  <2>3. seen' = loaded /\ lsuState' = "IDLE"
    BY <1>1, <1>3, <2>1, LsuMoves DEF KeyEdge, BusInv, TypeOK
  <2>4. seen' \in 0 .. MaxKeys /\ seen' <= g'
    BY <1>1, <2>2, <2>3
  <2> QED BY <1>2, <2>2, <2>3, <2>4 DEF OrderInv
<1>4. CASE ~(KeyLoad /\ loaded # KeyNone)
  <2>1. seen' = seen /\ seen' \in 0 .. MaxKeys /\ seen' <= g'
    BY <1>1, <1>2, <1>4 DEF KeyEdge
  <2>2. ASSUME NEW k, Fresh(k) PROVE Fresh(k)'
    <3>1. k \in 0 .. MaxKeys /\ (k = KeyNone \/ (seen < k /\ k <= g'))
      BY <1>1, <2>2 DEF Fresh
    <3> QED BY <2>1, <3>1 DEF Fresh
  <2>3. Fresh(key)'
    <3>1. key \in 0 .. MaxKeys /\ (key = KeyNone \/ (seen < key /\ key <= g'))
      BY <1>1, <1>2 DEF KeyEdge
    <3> QED BY <2>1, <3>1 DEF Fresh
  <2>4. ASSUME lsuState' = "R", memReading', AluResult' = KBD PROVE Fresh(memWord)'
    <3>1. lsuState \in {"AR", "R"}
      BY <1>1, <2>4, LsuMoves DEF LsuType, BusInv, TypeOK
    <3>2. AluResult = KBD /\ ~GrantIfu
      BY <1>1, <2>4, <3>1, LsuStalls, OperandsHold
      DEF BusInv, TypeOK, IfuValid, GrantIfu, IfuArValid, Offered
    <3>3. CASE lsuState = "AR"
      <4>1. SArValid /\ SArAddr = KBD
        BY <1>1, <2>4, <3>2, <3>3, LsuMoves DEF SArValid, SArAddr, BusInv, TypeOK
      <4>2. memWord' = key
        BY <1>1, <2>4, <4>1, WordsMove DEF PmemRead
      <4> QED BY <2>3, <4>2 DEF Fresh
    <3>4. CASE lsuState = "R"
      <4>1. ~SArValid
        BY <3>2, <3>4 DEF SArValid, GrantLsu, LsuArValid, Offered
      <4>2. memReading /\ memWord' = memWord
        BY <1>1, <2>4, <4>1, WordsMove
      <4>3. Fresh(memWord)
        BY <3>2, <3>4, <4>2 DEF OrderInv
      <4> QED BY <2>2, <4>2, <4>3 DEF Fresh
    <3> QED BY <3>1, <3>3, <3>4
  <2>5. ASSUME lsuState' = "DONE", LsuRen', AluResult' = KBD PROVE Fresh(loaded)'
    <3>1. lsuState \in {"R", "B"}
      BY <1>1, <2>5, LsuMoves DEF LsuType, BusInv, TypeOK
    <3>2. UNCHANGED <<D, AluResult>> /\ ~GrantIfu
      BY <1>1, <3>1, LsuStalls, OperandsHold
      DEF BusInv, TypeOK, IfuValid, GrantIfu, IfuArValid, Offered
    <3>3. lsuState = "R" /\ SRValid
      BY <1>1, <2>5, <3>1, <3>2, LsuMoves DEF LsuServesExec, LsuRen, BusInv, TypeOK
    <3>4. loaded' = SRData
      BY <1>1, <2>5, <3>3
      DEF Clock, LsuTick, LsuStart, LsuSendRead, LsuReceive, LsuSendWrite, LsuResponse,
          LsuFinish, LsuHold, LsuValid, LsuArValid, LsuAwValid, LsuBReady, Offered
    <3>5. AluResult = KBD /\ ~SelClint
      BY <2>5, <3>2, MapAssumption DEF SelClint, SArAddr
    <3>6. memReading /\ loaded' = memWord
      BY <3>3, <3>4, <3>5 DEF SRValid, SRData, MemRValid
    <3>7. Fresh(memWord)
      BY <3>3, <3>5, <3>6 DEF OrderInv
    <3> QED BY <2>2, <3>6, <3>7 DEF Fresh
  <2> QED BY <1>4, <2>1, <2>4, <2>5 DEF OrderInv
<1> QED BY <1>3, <1>4

LEMMA OrderInvariant == KSpec => []OrderInv
<1>1. KInit => OrderInv
  <2> SUFFICES ASSUME KInit PROVE OrderInv
    OBVIOUS
  <2>1. seen = 0 /\ lsuState = "IDLE" /\ pressed = 0 /\ keyHead = 0 /\ keyTail = 0
    BY DEF KInit, Init, LsuInit
  <2>2. Gone(Ring, pressed) = 0
    <3>1. 0 \in 0 .. QueueLen - 1
      BY KeyAssumption
    <3>2. RingLen(0, 0, QueueLen) = 0 - 0
      BY <3>1, RingLenCases, KeyAssumption
    <3> QED BY <2>1, <3>2 DEF Gone, Held, Ring
  <2> QED BY <2>1, <2>2, KeyAssumption DEF OrderInv
<1>2. BusInv /\ KeyInv /\ OrderInv /\ [KNext]_<<vars, keyVars>> => OrderInv'
  <2>1. ASSUME BusInv, KeyInv, OrderInv, KNext PROVE OrderInv'
    <3>1. PICK key : KeyEdge(key)
      BY <2>1, KeyStep
    <3> QED BY <2>1, <3>1, OrderStep
  <2>2. ASSUME OrderInv, UNCHANGED <<vars, keyVars>> PROVE OrderInv'
    BY <2>2
    DEF vars, keyVars, ifuVars, hartVars, lsuVars, memReadVars, OrderInv, Fresh, Gone,
        Held, Ring, LsuRen, IfuValid, D, AluResult, Rs1Val, Rs2Val, RegVal
  <2> QED BY <2>1, <2>2
<1> QED BY <1>1, <1>2, KeyInvariant, KeyboardRunsCore, BusCorrect, PTL DEF KSpec

\* A load from the keyboard returns an event newer than every one returned before
\* it, whatever the memory's delays and whatever the ring lost in between.
THEOREM KeysAreInOrder == KSpec => KeysInOrder
<1>1. BusInv /\ KeyInv /\ OrderInv /\ [KNext]_<<vars, keyVars>>
        => [KeyLoad /\ loaded # KeyNone => loaded > seen]_<<vars, keyVars>>
  <2>1. ASSUME BusInv, KeyInv, OrderInv, KNext
        PROVE  KeyLoad /\ loaded # KeyNone => loaded > seen
    <3>1. PICK key : KeyEdge(key)
      BY <2>1, KeyStep
    <3> QED BY <2>1, <3>1, OrderStep
  <2> QED BY <2>1
<1> QED
  BY <1>1, OrderInvariant, KeyInvariant, KeyboardRunsCore, BusCorrect, PTL
  DEF KSpec, KeysInOrder

-----------------------------------------------------------------------------
(* The loop of main.cpp: its trace, its watchpoints, DiffTest.              *)

TraceLine == Word \X Word

\* The ring of itrace_record holds, from the oldest on, what retired last.
RingInv ==
  /\ recent \in Seq(TraceLine)
  /\ traceBuf = [i \in 0 .. TraceSize - 1 |-> traceBuf[i]]
  /\ traceIdx \in 0 .. TraceSize - 1
  /\ traceCount = Len(recent)
  /\ RingHolds(traceBuf, traceIdx, recent, TraceSize)

Watchpoint == [no : Nat, expr : Exprs, old : Word]

\* What a watchpoint is compared with is the value its expression has now, if
\* it has one.  After an ebreak nobody compares any more.
WatchInv ==
  /\ wps \in Seq(Watchpoint) /\ freeWps \in Seq(Nat)
  /\ ~halted => \A i \in DOMAIN wps : Value(wps[i])[1] => wps[i].old = Value(wps[i])[2]

\* The memory of the core: the reference's, and the store that is already made
\* but not yet retired.
AheadMem ==
  IF StoreDone /\ Align(AluResult) \in Ram
  THEN [refMem EXCEPT ![Align(AluResult)] = StoreMerge(inst, AluResult, @, Rs2Val)]
  ELSE refMem

\* While DiffTest may still complain, the reference is in the state the core
\* was in before the instruction it works on, and fetches the same word.
SyncInv ==
  /\ mismatch => refEnded
  /\ difftest /\ ~halted /\ ~refEnded =>
       /\ refPc = pc /\ refRegs = SeenRegs /\ refCsrs = csrs
       /\ mem = AheadMem
       /\ IfuValid /\ pc \notin {KBD, RTC, RTCHI} => inst = RefFetched

\* The harness only lets the core run or wait.
LEMMA HarnessRunsCore == HSpec => Spec
<1>1. HInit => Init
  BY DEF HInit
<1>2. [HNext]_hVars => [Next]_vars
  BY DEF HNext, Cycle, StepEnds, CmdStep, CmdW, CmdD, Next, hVars
<1> QED BY <1>1, <1>2, PTL DEF HSpec, Spec

-----------------------------------------------------------------------------
LEMMA RecordStep ==
  ASSUME RingInv, NEW line \in TraceLine, Record(line),
         recent' = KeepLast(recent, line, TraceSize)
  PROVE  RingInv'
<1> USE HarnessAssumption
<1>1. recent' \in Seq(TraceLine)
  BY KeepLastInSeq DEF RingInv
<1>2. RingHolds(traceBuf', traceIdx', recent', TraceSize)
  <2>1. RingHolds([traceBuf EXCEPT ![traceIdx] = line], (traceIdx + 1) % TraceSize,
                  recent', TraceSize)
    BY RingKeepsLast DEF RingInv
  <2> QED BY <2>1 DEF Record
<1>3. traceBuf' = [i \in 0 .. TraceSize - 1 |-> traceBuf'[i]]
  BY DEF RingInv, Record
<1>4. traceIdx' \in 0 .. TraceSize - 1
  BY ModRange DEF RingInv, Record
<1>5. traceCount' = Len(recent')
  <2>1. Len(recent) \in 0 .. TraceSize
    BY LenProperties DEF RingInv, RingHolds
  <2>2. Len(recent') = IF Len(recent) < TraceSize THEN Len(recent) + 1 ELSE TraceSize
    BY <2>1, KeepLastLen DEF RingInv
  <2> QED BY <2>1, <2>2 DEF RingInv, Record
<1> QED BY <1>1, <1>2, <1>3, <1>4, <1>5 DEF RingInv

\* After a bad end itrace_display_ring shows the instructions that retired last,
\* each once however many cycles it took, for every size of the ring.
THEOREM TraceIsExact == HSpec => []TraceIsRecent
<1> USE HarnessAssumption
<1>1. HInit => RingInv
  <2> SUFFICES ASSUME HInit PROVE RingInv
    OBVIOUS
  <2>1. /\ recent = <<>> /\ traceIdx = 0 /\ traceCount = 0
        /\ traceBuf = [i \in 0 .. TraceSize - 1 |-> <<>>]
    BY DEF HInit
  <2>2. recent \in Seq(TraceLine) /\ Len(recent) = 0
    BY <2>1
  <2>3. traceBuf = [i \in 0 .. TraceSize - 1 |-> traceBuf[i]] /\ traceIdx \in 0 .. TraceSize - 1
    BY <2>1
  <2> QED BY <2>1, <2>2, <2>3 DEF RingInv, RingHolds
<1>2. TypeOK /\ RingInv /\ [HNext]_hVars => RingInv'
  <2> SUFFICES ASSUME TypeOK, RingInv, [HNext]_hVars PROVE RingInv'
    OBVIOUS
  <2>1. CASE Cycle /\ Retiring(LsuValid)
    <3>1. <<pc, inst>> \in TraceLine
      BY DEF TypeOK, IfuType, TraceLine
    <3>2. Record(<<pc, inst>>) /\ recent' = KeepLast(recent, <<pc, inst>>, TraceSize)
      BY <2>1 DEF Cycle, RetiringNow, KeepLast
    <3> QED BY <3>1, <3>2, RecordStep
  <2>2. CASE UNCHANGED traceVars
    BY <2>2 DEF RingInv, traceVars
  <2>3. Cycle /\ ~Retiring(LsuValid) => UNCHANGED traceVars
    BY DEF Cycle, RetiringNow, traceVars
  <2> QED
    BY <2>1, <2>2, <2>3 DEF HNext, StepEnds, CmdStep, CmdW, CmdD, hVars, harnessVars
<1>3. RingInv => TraceIsRecent
  <2> SUFFICES ASSUME RingInv PROVE TraceIsRecent
    OBVIOUS
  <2>1. /\ recent = [i \in 1 .. traceCount |-> recent[i]]
        /\ \A i \in 1 .. traceCount :
             traceBuf[(traceIdx + TraceSize - traceCount + i - 1) % TraceSize] = recent[i]
    BY LenProperties DEF RingInv, RingHolds
  <2> QED BY <2>1, Zenon DEF TraceIsRecent, TraceShown
<1> QED BY <1>1, <1>2, <1>3, HarnessRunsCore, TypeCorrect, PTL DEF HSpec
-----------------------------------------------------------------------------
LEMMA SeenType ==
  ASSUME TypeOK
  PROVE  pc \in Word /\ SeenRegs \in [Reg -> Word]
  BY WordAssumption DEF TypeOK, IfuType, HartType, SeenRegs, RegVal

\* Between two retirements software sees nothing change in the core.
LEMMA SeenHolds ==
  ASSUME TypeOK, NEW key \in Key, Clock(key), ~Retiring(LsuValid)
  PROVE  UNCHANGED <<pc, SeenRegs, csrs, halted>>
<1>1. pc' = pc
  BY IfuMoves DEF TypeOK, IfuType, Retiring, IfuValid
<1> QED BY <1>1, HartHolds DEF hartVars, SeenRegs, RegVal

LEMMA ValueOf ==
  ASSUME NEW wp PROVE Value(wp) = EvalExpr(wp.expr, pc, SeenRegs)
  BY DEF Value, SeenRegs

\* What check_watchpoints leaves in a watchpoint.
LEMMA CheckedWatchpoint ==
  ASSUME TypeOK', wps \in Seq(Watchpoint), CheckWatchpoints, NEW i \in DOMAIN wps,
         NEW now, now = EvalExpr(wps[i].expr, pc', SeenRegs')
  PROVE  /\ now \in BOOLEAN \X Word
         /\ wps'[i] \in Watchpoint /\ wps'[i].expr = wps[i].expr
         /\ now[1] => wps'[i].old = now[2]
         /\ now[1] /\ now[2] # wps[i].old => wpTriggered'
<1>1. wps[i] \in Watchpoint
  BY ElementOfSeq, LenProperties
<1>2. pc' \in Word /\ SeenRegs' \in [Reg -> Word]
  BY WordAssumption DEF TypeOK, IfuType, HartType, SeenRegs, RegVal
<1>3. now \in BOOLEAN \X Word
  BY <1>1, <1>2, EvalAssumption DEF Watchpoint
<1>4. wps'[i] = IF now[1] /\ now[2] # wps[i].old THEN [wps[i] EXCEPT !.old = now[2]]
                                                 ELSE wps[i]
  BY DEF CheckWatchpoints, SeenRegs
<1>5. now[1] /\ now[2] # wps[i].old => wpTriggered'
  BY DEF CheckWatchpoints, SeenRegs
<1>6. CASE now[1] /\ now[2] # wps[i].old
  BY <1>1, <1>3, <1>4, <1>5, <1>6 DEF Watchpoint
<1>7. CASE ~(now[1] /\ now[2] # wps[i].old)
  BY <1>1, <1>3, <1>4, <1>5, <1>7
<1> QED BY <1>6, <1>7

LEMMA WatchStep ==
  ASSUME TypeOK, TypeOK', WatchInv, HNext
  PROVE  WatchInv'
<1>1. CASE UNCHANGED <<wpVars, pc, SeenRegs, halted>>
  BY <1>1 DEF WatchInv, wpVars, Value, SeenRegs
<1>2. CASE Cycle
  <2>1. PICK key \in Key : Clock(key)
    BY <1>2 DEF Cycle
  <2>2. CASE Retiring(LsuValid) /\ ~halted'
    <3>1. CheckWatchpoints
      BY <1>2, <2>2 DEF Cycle, RetiringNow
    <3>2. wps \in Seq(Watchpoint) /\ DOMAIN wps' = DOMAIN wps /\ freeWps' = freeWps
          /\ wps' = [i \in DOMAIN wps |-> wps'[i]]
      BY <3>1 DEF CheckWatchpoints, WatchInv
    <3>3. ASSUME NEW i \in DOMAIN wps
          PROVE  /\ wps'[i] \in Watchpoint
                 /\ Value(wps[i])'[1] => wps'[i].old = Value(wps[i])'[2]
      <4>1. Value(wps[i])' = EvalExpr(wps'[i].expr, pc', SeenRegs')
        BY DEF Value, SeenRegs
      <4> QED BY <3>1, <3>2, <4>1, CheckedWatchpoint
    <3>4. wps' \in Seq(Watchpoint)
      <4>1. Len(wps) \in Nat /\ DOMAIN wps = 1 .. Len(wps)
        BY <3>2, LenProperties
      <4> QED BY <3>2, <3>3, <4>1, SeqDef
    <3> QED BY <3>2, <3>3, <3>4 DEF WatchInv
  <2>3. CASE Retiring(LsuValid) /\ halted'
    <3>1. UNCHANGED wpVars
      BY <1>2, <2>3 DEF Cycle
    <3> QED BY <2>3, <3>1 DEF WatchInv, wpVars
  <2>4. CASE ~Retiring(LsuValid)
    <3>1. UNCHANGED wpVars
      BY <1>2, <2>4 DEF Cycle, RetiringNow
    <3> QED BY <1>1, <2>1, <2>4, <3>1, SeenHolds
  <2> QED BY <2>2, <2>3, <2>4
<1>3. ASSUME NEW expr \in Exprs, CmdW(expr) PROVE WatchInv'
  <2> DEFINE v == EvalExpr(expr, pc, SeenRegs)
             new == [no |-> Head(freeWps), expr |-> expr, old |-> v[2]]
  <2>1. /\ wps' = <<new>> \o wps /\ freeWps' = Tail(freeWps) /\ freeWps # <<>>
        /\ UNCHANGED <<pc, SeenRegs, halted>>
    BY <1>3 DEF CmdW, SeenRegs, RegVal, vars, ifuVars, hartVars
  <2>2. new \in Watchpoint /\ freeWps' \in Seq(Nat)
    <3>1. Head(freeWps) \in Nat /\ Tail(freeWps) \in Seq(Nat)
      BY <2>1, HeadTailProperties DEF WatchInv
    <3>2. v \in BOOLEAN \X Word
      BY SeenType, EvalAssumption
    <3> QED BY <2>1, <3>1, <3>2 DEF Watchpoint
  <2>3. new.expr = expr /\ new.old = v[2]
    OBVIOUS
  <2> HIDE DEF new
  <2>4. /\ wps' \in Seq(Watchpoint)
        /\ DOMAIN wps' = 1 .. Len(wps) + 1 /\ DOMAIN wps = 1 .. Len(wps) /\ Len(wps) \in Nat
        /\ \A k \in 1 .. Len(wps) + 1 : wps'[k] = IF k = 1 THEN new ELSE wps[k - 1]
    BY <2>1, <2>2, ConsProperties, LenProperties DEF WatchInv
  <2>5. ASSUME ~halted, NEW i \in 1 .. Len(wps) + 1, Value(wps[i])'[1]
        PROVE  wps'[i].old = Value(wps[i])'[2]
    <3>1. Value(wps[i])' = EvalExpr(wps'[i].expr, pc, SeenRegs)
      BY <2>1 DEF Value, SeenRegs
    <3>2. CASE i = 1
      BY <2>3, <2>4, <3>1, <3>2
    <3>3. CASE i # 1
      <4>1. i - 1 \in DOMAIN wps /\ wps'[i] = wps[i - 1]
        BY <2>4, <3>3
      <4> QED BY <2>5, <3>1, <4>1, ValueOf DEF WatchInv
    <3> QED BY <3>2, <3>3
  <2> QED BY <2>1, <2>2, <2>4, <2>5 DEF WatchInv
<1>4. ASSUME NEW j \in DOMAIN wps, CmdD(j) PROVE WatchInv'
  <2>1. /\ wps' = RemoveAt(wps, j) /\ freeWps' = <<wps[j].no>> \o freeWps
        /\ UNCHANGED <<pc, SeenRegs, halted>>
    BY <1>4 DEF CmdD, SeenRegs, RegVal, vars, ifuVars, hartVars
  <2>2. j \in 1 .. Len(wps) /\ DOMAIN wps = 1 .. Len(wps) /\ Len(wps) \in Nat
    BY LenProperties DEF WatchInv
  <2>3. freeWps' \in Seq(Nat)
    <3>1. wps[j] \in Watchpoint
      BY <2>2, ElementOfSeq DEF WatchInv
    <3>2. wps[j].no \in Nat
      BY <3>1 DEF Watchpoint
    <3> QED BY <2>1, <3>2, ConsProperties DEF WatchInv
  <2>4. /\ wps' \in Seq(Watchpoint) /\ Len(wps') = Len(wps) - 1
        /\ \A k \in 1 .. Len(wps) - 1 : wps'[k] = IF k < j THEN wps[k] ELSE wps[k + 1]
    BY <2>1, <2>2, RemoveAtProperties DEF WatchInv
  <2>5. DOMAIN wps' = 1 .. Len(wps) - 1
    BY <2>4, LenProperties
  <2>6. ASSUME ~halted, NEW i \in 1 .. Len(wps) - 1, Value(wps[i])'[1]
        PROVE  wps'[i].old = Value(wps[i])'[2]
    <3>1. Value(wps[i])' = EvalExpr(wps'[i].expr, pc, SeenRegs)
      BY <2>1 DEF Value, SeenRegs
    <3>2. PICK k \in DOMAIN wps : wps'[i] = wps[k]
      BY <2>2, <2>4
    <3> QED BY <2>6, <3>1, <3>2, ValueOf DEF WatchInv
  <2> QED BY <2>1, <2>3, <2>4, <2>5, <2>6 DEF WatchInv
<1>5. StepEnds \/ CmdStep => UNCHANGED <<wpVars, pc, SeenRegs, halted>>
  BY DEF StepEnds, CmdStep, vars, ifuVars, hartVars, SeenRegs, RegVal
<1> QED BY <1>1, <1>2, <1>3, <1>4, <1>5 DEF HNext

LEMMA WatchInvariant == HSpec => []WatchInv
<1>1. HInit => WatchInv
  <2>1. ASSUME HInit PROVE wps = <<>> /\ freeWps = [i \in 1 .. NrWp |-> i - 1]
    BY <2>1 DEF HInit
  <2>2. \A i \in 1 .. NrWp : i - 1 \in Nat
    BY HarnessAssumption
  <2> QED BY <2>1, <2>2, SeqDef, HarnessAssumption DEF WatchInv
<1>2. TypeOK /\ TypeOK' /\ WatchInv /\ [HNext]_hVars => WatchInv'
  <2>1. TypeOK /\ TypeOK' /\ WatchInv /\ HNext => WatchInv'
    BY WatchStep
  <2>2. WatchInv /\ UNCHANGED hVars => WatchInv'
    BY DEF WatchInv, hVars, vars, ifuVars, hartVars, harnessVars, wpVars, Value, RegVal
  <2> QED BY <2>1, <2>2
<1> QED BY <1>1, <1>2, HarnessRunsCore, TypeCorrect, PTL DEF HSpec

\* A change of a watched value is never stepped over, whatever the expressions.
THEOREM NoChangeMissed == HSpec => ChangesStop
<1>1. TypeOK /\ TypeOK' /\ WatchInv /\ [HNext]_hVars
        => [Cycle /\ ~halted' =>
              \A i \in DOMAIN wps :
                Value(wps[i])[1] /\ Value(wps[i])'[1] /\ Value(wps[i])' # Value(wps[i])
                  => wpTriggered']_hVars
  <2> SUFFICES ASSUME TypeOK, TypeOK', WatchInv, Cycle, ~halted', NEW i \in DOMAIN wps,
                      Value(wps[i])[1], Value(wps[i])'[1], Value(wps[i])' # Value(wps[i])
               PROVE  wpTriggered'
    OBVIOUS
  <2>1. PICK key \in Key : Clock(key)
    BY DEF Cycle
  <2>2. Retiring(LsuValid)
    <3>1. ASSUME ~Retiring(LsuValid) PROVE UNCHANGED <<wps, pc, SeenRegs>>
      BY <2>1, <3>1, SeenHolds DEF Cycle, RetiringNow, wpVars
    <3> QED BY <3>1 DEF Value, SeenRegs
  <2>3. CheckWatchpoints
    BY <2>2 DEF Cycle, RetiringNow
  <2>4. ~halted /\ wps \in Seq(Watchpoint)
    BY <2>1 DEF Clock, WatchInv
  <2> DEFINE now == EvalExpr(wps[i].expr, pc', SeenRegs')
  <2>5. Value(wps[i]) \in BOOLEAN \X Word /\ wps[i].old = Value(wps[i])[2]
    <3>1. wps[i] \in Watchpoint
      BY <2>4, ElementOfSeq, LenProperties
    <3> QED BY <2>4, <3>1, SeenType, ValueOf, EvalAssumption DEF Watchpoint, WatchInv
  <2>6. /\ now \in BOOLEAN \X Word /\ wps'[i].expr = wps[i].expr
        /\ now[1] /\ now[2] # wps[i].old => wpTriggered'
    BY <2>3, <2>4, CheckedWatchpoint
  <2>7. Value(wps[i])' = now
    BY <2>6 DEF Value, SeenRegs
  <2>8. now[2] # Value(wps[i])[2]
    BY <2>5, <2>6, <2>7
  <2> QED BY <2>5, <2>6, <2>7, <2>8
<1> QED
  BY <1>1, WatchInvariant, HarnessRunsCore, TypeCorrect, PTL DEF HSpec, ChangesStop
-----------------------------------------------------------------------------
LEMMA RefWriteSeen ==
  ASSUME HartType, refRegs = SeenRegs, NEW r \in Reg, NEW v, Ref!SetReg(r, v),
         regs' = [regs EXCEPT ![r] = v]
  PROVE  refRegs' = SeenRegs'
  BY WordAssumption DEF Ref!SetReg, SeenRegs, RegVal, HartType

\* On memory the reference and the core read the same word.
LEMMA SameWord ==
  ASSUME NEW a, a \notin {KBD, RTC, RTCHI}
  PROVE  /\ Ref!Read(a) = {IF Align(a) \in Ram THEN refMem[Align(a)] ELSE Zero}
         /\ Arch!Read(a) = {IF Align(a) \in Ram THEN mem[Align(a)] ELSE Zero}
  BY DEF Ref!Read, Arch!Read

\* One instruction that touches no device, on both sides.
LEMMA RefFollows ==
  ASSUME NEW key \in Key, Clock(key), TypeOK, BusInv, ReadInv, Retiring(LsuValid),
         refPc = pc, refRegs = SeenRegs, refCsrs = csrs, mem = AheadMem,
         inst = RefFetched, pc \notin {KBD, RTC, RTCHI}, ~TouchedDevice, Ref!Step
  PROVE  refPc' = pc' /\ refRegs' = SeenRegs' /\ refCsrs' = csrs' /\ refMem' = mem'
<1> DEFINE a == IF D.rs1 = X0 THEN Zero ELSE SeenRegs[D.rs1]
           b == IF D.rs2 = X0 THEN Zero ELSE SeenRegs[D.rs2]
<1>1. D \in Fields /\ D = Decode(inst) /\ HartType
  BY HartValues DEF D, TypeOK
<1>2. a = Rs1Val /\ b = Rs2Val
  BY <1>1 DEF SeenRegs, Rs1Val, Rs2Val, RegVal, Fields
<1>3. /\ pc' = NextPc /\ UNCHANGED mem /\ IfuValid /\ (LsuWen => StoreDone)
      /\ regs' = IF WritesRd THEN [regs EXCEPT ![D.rd] = WriteBack(loaded)] ELSE regs
      /\ csrs' = NewCsrs
  BY RetiringEdge
<1>4. D.op \in {"load", "store"} => LsuValid /\ AluResult \notin {UART, RTC, RTCHI, KBD}
  BY <1>3 DEF Retiring, ExecDone, TouchedDevice, IsDeviceAddr, LsuRen, LsuWen
<1>5. Ref!Read(refPc) = {inst}
  BY SameWord DEF RefFetched
<1>6. \/ Ref!Compute(inst, Rs1Val, Rs2Val) \/ Ref!Load(inst, Rs1Val, Rs2Val)
      \/ Ref!Store(inst, Rs1Val, Rs2Val) \/ Ref!System(inst, Rs1Val)
  BY <1>1, <1>2, <1>5 DEF Ref!Step
<1>7. UNCHANGED regs => UNCHANGED SeenRegs
  BY DEF SeenRegs, RegVal
<1>8. D.op # "store" => mem' = refMem
  BY <1>3 DEF AheadMem, StoreDone, LsuWen
<1>9. CASE D.op \in {"alu", "jump", "branch", "other", "ebreak"}
  <2>1. Ref!Compute(inst, Rs1Val, Rs2Val)
    BY <1>1, <1>6, <1>9 DEF Ref!Load, Ref!Store, Ref!System
  <2>2. csrs' = csrs /\ refCsrs' = refCsrs /\ refMem' = refMem
    BY <1>3, <1>9, <2>1 DEF NewCsrs, Ref!Compute
  <2>3. refPc' = pc'
    BY <1>1, <1>3, <1>9, <2>1 DEF NextPc, Ref!Compute
  <2>4. CASE D.op \in {"alu", "jump"}
    <3>1. regs' = [regs EXCEPT ![D.rd] = IF D.op = "alu" THEN AluResult ELSE Plus4(pc)]
      BY <1>3, <2>4 DEF WritesRd, WriteBack
    <3>2. Ref!SetReg(D.rd, IF D.op = "alu" THEN AluResult ELSE Plus4(pc))
      BY <1>1, <2>1, <2>4 DEF Ref!Compute, AluResult
    <3>3. D.rd \in Reg
      BY <1>1 DEF Fields
    <3>4. refRegs' = SeenRegs'
      BY <1>1, <3>1, <3>2, <3>3, RefWriteSeen
    <3> QED BY <1>8, <1>9, <2>2, <2>3, <3>4
  <2>5. CASE D.op \notin {"alu", "jump"}
    <3>1. UNCHANGED refRegs
      BY <1>1, <2>1, <2>5 DEF Ref!Compute
    <3>2. UNCHANGED SeenRegs
      BY <1>3, <1>7, <1>9, <2>5 DEF WritesRd
    <3> QED BY <1>8, <1>9, <2>2, <2>3, <3>1, <3>2
  <2> QED BY <2>4, <2>5
<1>10. CASE D.op = "load"
  <2>1. Ref!Load(inst, Rs1Val, Rs2Val)
    BY <1>1, <1>6, <1>10 DEF Ref!Compute, Ref!Store, Ref!System
  <2>2. csrs' = csrs /\ refCsrs' = refCsrs /\ refMem' = refMem /\ refPc' = pc'
    BY <1>3, <1>10, <2>1 DEF NewCsrs, NextPc, Ref!Load
  <2>3. loaded \in Arch!Read(AluResult) /\ mem = refMem
    BY <1>3, <1>4, <1>8, <1>10 DEF ReadInv, LsuRen, LsuValid
  <2>4. Ref!Read(AluResult) = {loaded}
    BY <1>4, <1>10, <2>3, SameWord
  <2>5. Ref!SetReg(D.rd, LoadExt(inst, AluResult, loaded))
    BY <1>1, <2>1, <2>4 DEF Ref!Load, AluResult
  <2>6. regs' = [regs EXCEPT ![D.rd] = LoadExt(inst, AluResult, loaded)] /\ D.rd \in Reg
    BY <1>1, <1>3, <1>10 DEF WritesRd, WriteBack, Fields
  <2>7. refRegs' = SeenRegs'
    BY <1>1, <2>5, <2>6, RefWriteSeen
  <2> QED BY <1>8, <1>10, <2>2, <2>7
<1>11. CASE D.op = "store"
  <2>1. Ref!Store(inst, Rs1Val, Rs2Val)
    BY <1>1, <1>6, <1>11 DEF Ref!Compute, Ref!Load, Ref!System
  <2>2. csrs' = csrs /\ refCsrs' = refCsrs /\ refRegs' = refRegs /\ refPc' = pc'
    BY <1>3, <1>11, <2>1 DEF NewCsrs, NextPc, Ref!Store
  <2>3. UNCHANGED SeenRegs
    BY <1>3, <1>7, <1>11 DEF WritesRd
  <2>4. StoreDone /\ AluResult # UART
    BY <1>3, <1>4, <1>11 DEF LsuWen
  <2>5. refMem' = AheadMem
    BY <2>1, <2>4 DEF Ref!Store, AheadMem, AluResult
  <2> QED BY <1>3, <2>2, <2>3, <2>5
<1>12. CASE D.op \in {"ecall", "mret", "csrrw", "csrrs"}
  <2>1. Ref!System(inst, Rs1Val)
    BY <1>1, <1>6, <1>12 DEF Ref!Compute, Ref!Load, Ref!Store
  <2>2. refMem' = refMem
    BY <2>1 DEF Ref!System
  <2>3. CASE D.op = "ecall"
    <3>1. /\ refCsrs' = [refCsrs EXCEPT !["mepc"] = refPc, !["mcause"] = EcallCause]
          /\ refPc' = refCsrs["mtvec"] /\ UNCHANGED refRegs
      BY <1>1, <2>1, <2>3 DEF Ref!System
    <3>2. csrs' = refCsrs' /\ pc' = refPc' /\ UNCHANGED SeenRegs
      BY <1>3, <1>7, <2>3, <3>1 DEF NewCsrs, NextPc, WritesRd
    <3> QED BY <1>8, <2>2, <2>3, <3>1, <3>2
  <2>4. CASE D.op = "mret"
    <3>1. refCsrs' = refCsrs /\ refPc' = refCsrs["mepc"] /\ UNCHANGED refRegs
      BY <1>1, <2>1, <2>4 DEF Ref!System
    <3>2. csrs' = refCsrs' /\ pc' = refPc' /\ UNCHANGED SeenRegs
      BY <1>3, <1>7, <2>4, <3>1 DEF NewCsrs, NextPc, WritesRd
    <3> QED BY <1>8, <2>2, <2>4, <3>1, <3>2
  <2>5. CASE D.op \in {"csrrw", "csrrs"}
    <3>1. Ref!CsrVal(D.csr) = CsrRead
      BY DEF Ref!CsrVal, CsrRead
    <3>2. /\ Ref!SetReg(D.rd, CsrRead) /\ Ref!SetCsr(D.csr, CsrWrite)
          /\ refPc' = Plus4(refPc)
      BY <1>1, <2>1, <2>5, <3>1 DEF Ref!System, CsrWrite
    <3>3. regs' = [regs EXCEPT ![D.rd] = CsrRead] /\ D.rd \in Reg /\ pc' = Plus4(pc)
      BY <1>1, <1>3, <2>5 DEF WritesRd, WriteBack, NextPc, Fields
    <3>4. csrs' = IF D.csr = "none" THEN csrs ELSE [csrs EXCEPT ![D.csr] = CsrWrite]
      BY <1>3, <2>5 DEF NewCsrs
    <3>5. refCsrs' = csrs'
      BY <3>2, <3>4 DEF Ref!SetCsr
    <3>6. refRegs' = SeenRegs'
      BY <1>1, <3>2, <3>3, RefWriteSeen
    <3> QED BY <1>8, <2>2, <2>5, <3>2, <3>3, <3>5, <3>6
  <2> QED BY <1>12, <2>3, <2>4, <2>5
<1> QED BY <1>1, <1>9, <1>10, <1>11, <1>12 DEF Fields, Op

\* An edge that retires nothing.
LEMMA SyncHolds ==
  ASSUME NEW key \in Key, Clock(key), TypeOK, BusInv, ReadInv', SyncInv,
         ~Retiring(LsuValid), UNCHANGED <<refVars, mismatch, difftest>>
  PROVE  SyncInv'
<1> SUFFICES ASSUME difftest, ~halted, ~refEnded
             PROVE  /\ (refPc = pc /\ refRegs = SeenRegs /\ refCsrs = csrs)'
                    /\ (mem = AheadMem)'
                    /\ (IfuValid /\ pc \notin {KBD, RTC, RTCHI} => inst = RefFetched)'
  <2>1. halted' = halted
    BY SeenHolds
  <2> QED BY <2>1 DEF SyncInv, refVars
<1>1. /\ refPc = pc /\ refRegs = SeenRegs /\ refCsrs = csrs /\ mem = AheadMem
      /\ IfuValid /\ pc \notin {KBD, RTC, RTCHI} => inst = RefFetched
  BY DEF SyncInv
<1>2. (refPc = pc /\ refRegs = SeenRegs /\ refCsrs = csrs)'
  BY <1>1, SeenHolds DEF refVars
<1>3. (mem = AheadMem)'
  <2>1. CASE StoreDone
    <3>1. StoreDone' /\ UNCHANGED <<AluResult, Rs2Val, inst, mem>>
      BY <2>1, EdgeBetween, StoreMoves
    <3> QED BY <1>1, <2>1, <3>1 DEF AheadMem, refVars
  <2>2. CASE ~StoreDone /\ StoreDone'
    <3>1. lsuState = "AWW" /\ LsuAwValid /\ UNCHANGED <<AluResult, Rs2Val, inst>>
      BY <2>2, EdgeBetween
    <3>2. mem = refMem
      BY <1>1, <2>2 DEF AheadMem
    <3>3. SelUart => Align(AluResult) \notin Ram
      BY MapAssumption DEF SelUart
    <3>4. mem' = IF Align(AluResult) \in Ram
                THEN [mem EXCEPT ![Align(AluResult)] = StoreMerge(inst, AluResult, @, Rs2Val)]
                ELSE mem
      BY <3>1, <3>3, StoreMoves
    <3> QED BY <2>2, <3>1, <3>2, <3>4 DEF AheadMem, refVars
  <2>3. CASE ~StoreDone /\ ~StoreDone'
    <3>1. mem' = mem
      BY <2>3, EdgeBetween, StoreMoves
    <3> QED BY <1>1, <2>3, <3>1 DEF AheadMem, refVars
  <2> QED BY <2>1, <2>2, <2>3
<1>4. (IfuValid /\ pc \notin {KBD, RTC, RTCHI} => inst = RefFetched)'
  <2> SUFFICES ASSUME IfuValid', pc' \notin {KBD, RTC, RTCHI} PROVE inst' = RefFetched'
    OBVIOUS
  <2>1. CASE StoreDone'
    <3>1. IfuValid /\ UNCHANGED <<inst, pc>>
      BY <2>1, EdgeBetween DEF IfuValid
    <3> QED BY <1>1, <3>1 DEF RefFetched, refVars
  <2>2. CASE ~StoreDone'
    <3>1. inst' \in {IF Align(pc') \in Ram THEN mem'[Align(pc')] ELSE Zero}
      BY <2>2 DEF ReadInv, Arch!Read
    <3>2. mem' = refMem' /\ pc' = refPc'
      BY <1>2, <1>3, <2>2 DEF AheadMem
    <3> QED BY <3>1, <3>2 DEF RefFetched
  <2> QED BY <2>1, <2>2
<1> QED BY <1>2, <1>3, <1>4

LEMMA SyncStep ==
  ASSUME TypeOK, BusInv, ReadInv, ReadInv', SyncInv, HNext
  PROVE  SyncInv'
<1>1. CASE UNCHANGED <<vars, refVars, mismatch, difftest>>
  BY <1>1
  DEF SyncInv, vars, ifuVars, hartVars, lsuVars, memReadVars, memWriteVars, refVars,
      AheadMem, RefFetched, SeenRegs, RegVal, StoreDone, LsuWen, IfuValid, D, AluResult,
      Rs1Val, Rs2Val
<1>2. CASE Cycle
  <2>1. PICK key \in Key : Clock(key)
    BY <1>2 DEF Cycle
  <2>2. difftest' = difftest
    BY <1>2 DEF Cycle
  <2>3. CASE ~Retiring(LsuValid)
    <3>1. UNCHANGED <<refVars, mismatch>>
      BY <1>2, <2>3 DEF Cycle, RetiringNow
    <3> QED BY <2>1, <2>2, <2>3, <3>1, SyncHolds
  <2>4. CASE Retiring(LsuValid) /\ (halted' \/ ~difftest)
    <3>1. UNCHANGED <<refVars, mismatch>>
      BY <1>2, <2>4 DEF Cycle
    <3> QED BY <2>2, <2>4, <3>1 DEF SyncInv, refVars
  <2>5. CASE Retiring(LsuValid) /\ ~halted' /\ difftest
    <3>1. DifftestCheck
      BY <1>2, <2>5 DEF Cycle, RetiringNow
    <3>2. ~IfuValid' /\ ~StoreDone' /\ UNCHANGED mem /\ ~halted
      BY <2>1, <2>5, RetiringEdge
    <3>3. AheadMem' = refMem'
      BY <3>2 DEF AheadMem
    <3>4. CASE TouchedDevice
      <4>1. /\ refPc' = pc' /\ refRegs' = SeenRegs' /\ refCsrs' = csrs'
            /\ UNCHANGED <<refMem, refEnded, mismatch>>
        BY <3>1, <3>4 DEF DifftestCheck, ResyncRef, SeenRegs
      <4>2. Align(AluResult) \notin Ram
        BY <3>4, MapAssumption DEF TouchedDevice, IsDeviceAddr
      <4>3. ~refEnded => mem' = refMem'
        BY <2>5, <3>2, <4>1, <4>2 DEF SyncInv, AheadMem
      <4> QED BY <3>2, <3>3, <4>1, <4>3 DEF SyncInv
    <3>5. CASE ~TouchedDevice
      <4>1. /\ ExecRef
            /\ mismatch' = (mismatch \/ refPc' # pc' \/ refRegs' # SeenRegs')
        BY <3>1, <3>5 DEF DifftestCheck, SeenRegs
      <4>2. CASE refEnded'
        BY <4>2 DEF SyncInv
      <4>3. CASE ~refEnded'
        <5>1. /\ ~refEnded /\ Ref!Step
              /\ Decode(RefFetched).op \notin {"other", "ebreak"}
          BY <4>1, <4>3 DEF ExecRef, refVars
        <5>2. /\ refPc = pc /\ refRegs = SeenRegs /\ refCsrs = csrs /\ mem = AheadMem
              /\ IfuValid /\ pc \notin {KBD, RTC, RTCHI} => inst = RefFetched
          BY <2>5, <3>2, <5>1 DEF SyncInv
        <5>3. pc \notin {KBD, RTC, RTCHI}
          BY <5>1, <5>2, ZeroAssumption, MapAssumption DEF RefFetched
        <5>4. inst = RefFetched
          BY <2>5, <5>2, <5>3 DEF Retiring
        <5>5. refPc' = pc' /\ refRegs' = SeenRegs' /\ refCsrs' = csrs' /\ refMem' = mem'
          BY <2>1, <2>5, <3>5, <5>1, <5>2, <5>3, <5>4, RefFollows
        <5>6. ~mismatch'
          BY <4>1, <5>1, <5>5 DEF SyncInv
        <5> QED BY <3>2, <3>3, <5>5, <5>6 DEF SyncInv
      <4> QED BY <4>2, <4>3
    <3> QED BY <3>4, <3>5
  <2> QED BY <2>3, <2>4, <2>5
<1>3. HNext /\ ~Cycle => UNCHANGED <<vars, refVars, mismatch, difftest>>
  BY DEF HNext, StepEnds, CmdStep, CmdW, CmdD
<1> QED BY <1>1, <1>2, <1>3

\* DiffTest raises no false alarm, for every program, every latency and every
\* datapath both sides agree on: it complains only after an instruction NEMU does
\* not have, and what it does not compare agrees as well.
THEOREM NoFalseAlarm == HSpec => []RefInSync
<1>1. HInit => SyncInv
  BY DEF HInit, Init, IfuInit, HartInit, LsuInit, SyncInv, SeenRegs, RegVal, AheadMem,
     StoreDone, IfuValid
<1>2. TypeOK /\ BusInv /\ ReadInv /\ ReadInv' /\ SyncInv /\ [HNext]_hVars => SyncInv'
  <2>1. SyncInv /\ UNCHANGED hVars => SyncInv'
    BY DEF SyncInv, hVars, vars, ifuVars, hartVars, lsuVars, memReadVars, memWriteVars,
       harnessVars, refVars, AheadMem, RefFetched, SeenRegs, RegVal, StoreDone, LsuWen,
       IfuValid, D, AluResult, Rs1Val, Rs2Val
  <2> QED BY <2>1, SyncStep
<1>3. SyncInv => RefInSync
  BY DEF SyncInv, RefInSync, SeenRegs, AheadMem
<1> QED
  BY <1>1, <1>2, <1>3, HarnessRunsCore, TypeCorrect, BusCorrect, ReadsAreCurrent, PTL
  DEF HSpec

\* Under the harness, too, the core is the machine of NpcIsa.
THEOREM HarnessImplementsIsa == HSpec => ImplementsIsa
  BY HarnessRunsCore, CoreImplementsIsa, PTL
=============================================================================
