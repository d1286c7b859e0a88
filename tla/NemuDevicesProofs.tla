------------------------- MODULE NemuDevicesProofs -------------------------
(***************************************************************************)
(* Theorems about NEMU's devices and the drivers on them: the clock, the   *)
(* key queue and what the window's events go through, and the SD card,     *)
(* whose driver is shown to implement SdBlockDevice.                       *)
(***************************************************************************)
EXTENDS NemuDevices, ListLemmas

-----------------------------------------------------------------------------
\* The clock.

\* The latch holds one time, the low word a call has read is of one time, and
\* neither is ahead of the clock.
ClockInv ==
  /\ machine \in {"nemu", "npc"} /\ now \in Nat
  /\ latched \in 0..now /\ latch = <<Low(latched), High(latched)>>
  /\ reading => at \in 0..now /\ lo = Low(at)

LEMMA DevicesAreApart ==
  ASSUME [Next]_deviceVars
  PROVE  [ClockNext]_clockVars /\ [InputNext]_inputVars /\ [SdNext]_sdVars
BY DEF Next, deviceVars

LEMMA ClockStep == ASSUME ClockInv, [ClockNext]_clockVars PROVE ClockInv'
<1> USE DEF ClockInv
<1>1. CASE CountUp
  BY <1>1 DEF CountUp
<1>2. CASE ReadLow
  BY <1>2 DEF ReadLow
<1>3. CASE ReadHigh
  BY <1>3 DEF ReadHigh, RtcReadHigh
<1>4. CASE UNCHANGED clockVars
  BY <1>4 DEF clockVars
<1> QED BY <1>1, <1>2, <1>3, <1>4 DEF ClockNext

\* What the result is made of: the high word of now, the low word of at.
LEMMA ReadHighResult ==
  ASSUME ClockInv, ReadHigh
  PROVE  /\ at <= uptime' /\ uptime' < now + Half
         /\ High(at) = High(now) => uptime' = at
<1>1. uptime' = (now \div Half) * Half + (at % Half)
  BY DEF ClockInv, ReadHigh, RtcReadHigh, High, Low
<1>2. at \in Nat /\ now \in Nat /\ at <= now
  BY DEF ClockInv, ReadHigh
<1> DEFINE p == at \div Half
           q == now \div Half
<1>3. p \in Nat /\ at % Half \in 0..(Half - 1) /\ at = p * Half + (at % Half)
  BY <1>2, UptimeAssumption, DivMod
<1>4. q \in Nat /\ now % Half \in 0..(Half - 1) /\ now = q * Half + (now % Half)
  BY <1>2, UptimeAssumption, DivMod
<1>5. High(at) = p /\ High(now) = q /\ uptime' = q * Half + (at % Half)
  BY <1>1 DEF High
<1> HIDE DEF p, q
<1> DEFINE pH == p * Half
           qH == q * Half
<1>6. pH \in Nat /\ qH \in Nat /\ (p = q => pH = qH)
  BY <1>3, <1>4, UptimeAssumption
<1>7. p <= q
  <2> SUFFICES ASSUME q < p PROVE FALSE
    BY <1>3, <1>4
  <2>1. qH + Half <= pH
    BY <1>3, <1>4, UptimeAssumption, MulMono
  <2> HIDE DEF pH, qH
  <2> QED BY <1>2, <1>3, <1>4, <1>6, <2>1, UptimeAssumption DEF pH, qH
<1>8. pH <= qH
  <2>1. CASE p < q
    <3>1. pH + Half <= qH
      BY <1>3, <1>4, <2>1, UptimeAssumption, MulMono
    <3> QED BY <1>6, <3>1, UptimeAssumption
  <2>2. CASE p = q
    BY <1>6, <2>2
  <2> QED BY <1>3, <1>4, <1>7, <2>1, <2>2
<1>9. /\ at = pH + (at % Half) /\ now = qH + (now % Half)
      /\ uptime' = qH + (at % Half)
  BY <1>3, <1>4, <1>5
<1>10. at % Half \in 0..(Half - 1) /\ now % Half \in 0..(Half - 1)
  BY <1>3, <1>4
<1> DEFINE l == at % Half
           m == now % Half
<1>11. /\ at = pH + l /\ now = qH + m /\ uptime' = qH + l
       /\ l \in 0..(Half - 1) /\ m \in 0..(Half - 1)
  BY <1>9, <1>10
<1> HIDE DEF pH, qH, l, m
<1> QED BY <1>5, <1>6, <1>8, <1>11, UptimeAssumption

\* However large a word is and however far the clock has come, an uptime is
\* wrong by a carry at most.
THEOREM UptimeIsOffByACarry == Spec => UptimeOffByACarry
<1>1. Init => ClockInv
  BY UptimeAssumption DEF Init, ClockInit, ClockInv, Low, High
<1>2. ClockInv /\ [Next]_deviceVars => ClockInv'
  BY DevicesAreApart, ClockStep
<1>3. ClockInv /\ [Next]_deviceVars
        => [ReadHigh => /\ at <= uptime' /\ uptime' < now + Half
                        /\ High(at) = High(now) => uptime' = at]_clockVars
  BY ReadHighResult
<1> QED BY <1>1, <1>2, <1>3, PTL DEF Spec, UptimeOffByACarry

-----------------------------------------------------------------------------
\* The window.

Events == [kind : {"key", "other", "close"}, code : Nat \ {KeyNone},
           at : {"prompt", "command", "guest", "polling", "aborted"}]
Keys == Nat \ {KeyNone}
InRing == RingLen(keyF, keyR, KeyQueueLen)

InputType ==
  /\ where \in {"prompt", "command", "guest", "polling", "aborted"}
  /\ made \in Nat /\ events \in Seq(Events)
  /\ keyQueue = [i \in 0 .. KeyQueueLen - 1 |-> keyQueue[i]]
  /\ keyF \in 0 .. KeyQueueLen - 1 /\ keyR \in 0 .. KeyQueueLen - 1
  /\ accepted \in Seq(Keys) /\ received \in Seq(Keys)

\* What the guest has received is the beginning of what was accepted; the rest
\* lies in the ring from key_f on.
FifoOrdered ==
  IF where = "aborted" THEN Len(accepted) = Len(received) + KeyQueueLen
  ELSE /\ Len(accepted) = Len(received) + InRing
       /\ \A i \in 1 .. Len(received) : accepted[i] = received[i]
       /\ \A i \in 1 .. InRing :
            accepted[Len(received) + i] = keyQueue[(keyF + i - 1) % KeyQueueLen]

\* Away from the prompt, nothing in SDL's queue was made at the prompt.
NoPromptEvents == where # "prompt" => \A i \in DOMAIN events : events[i].at # "prompt"

InputInv == InputType /\ FifoOrdered /\ NoPromptEvents

LEMMA InputStart == ASSUME InputInit PROVE InputInv
<1> USE InputAssumption
<1>1. InputType
  BY DEF InputInit, InputType
<1>2. InRing = 0
  <2>1. keyF = 0 /\ keyR = 0 /\ 0 \in 0 .. KeyQueueLen - 1
    BY DEF InputInit
  <2>2. RingLen(0, 0, KeyQueueLen) = 0 - 0
    BY <2>1, RingLenCases
  <2> QED BY <2>1, <2>2 DEF InRing
<1>3. FifoOrdered
  <2>1. Len(accepted) = 0 /\ Len(received) = 0
    BY DEF InputInit
  <2>2. where = "prompt"
    BY DEF InputInit
  <2> QED BY <1>2, <2>1, <2>2 DEF FifoOrdered
<1>4. NoPromptEvents
  BY DEF InputInit, NoPromptEvents
<1> QED BY <1>1, <1>3, <1>4 DEF InputInv

LEMMA ReadKeyInv == ASSUME InputInv, ReadKey PROVE InputType' /\ FifoOrdered'
<1> USE InputAssumption
<1> DEFINE n == InRing
           m == Len(received)
           k == keyQueue[keyF]
<1>1. /\ InputType /\ where = "guest" /\ where' \in {"guest", "prompt"}
      /\ Len(accepted) = m + n
      /\ \A i \in 1 .. m : accepted[i] = received[i]
      /\ \A i \in 1 .. n : accepted[m + i] = keyQueue[(keyF + i - 1) % KeyQueueLen]
  BY DEF InputInv, FifoOrdered, ReadKey, AfterInst
<1>2. UNCHANGED <<events, made, keyQueue, keyR, accepted>>
  BY DEF ReadKey
<1>3. m \in Nat /\ n \in 0 .. KeyQueueLen - 1 /\ keyF \in 0 .. KeyQueueLen - 1
  BY <1>1, LenProperties, RingLenCases DEF InputType, InRing
<1>4. CASE keyF = keyR
  <2>1. keyF' = keyF /\ received' = received
    BY <1>4 DEF ReadKey, KeyDequeue
  <2>2. InRing' = InRing
    BY <1>2, <2>1 DEF InRing
  <2>3. InputType'
    BY <1>1, <1>2, <2>1 DEF InputType
  <2>4. FifoOrdered'
    BY <1>1, <1>2, <2>1, <2>2 DEF FifoOrdered
  <2> QED BY <2>3, <2>4
<1>5. CASE keyF # keyR
  <2>1. keyF' = (keyF + 1) % KeyQueueLen
    BY <1>5 DEF ReadKey, KeyDequeue
  <2>2. keyF' \in 0 .. KeyQueueLen - 1
    BY <1>1, <2>1, ModRange DEF InputType
  <2>3. n >= 1 /\ InRing' = n - 1
    <3>1. /\ RingLen(keyF, keyR, KeyQueueLen) >= 1
          /\ RingLen((keyF + 1) % KeyQueueLen, keyR, KeyQueueLen)
               = RingLen(keyF, keyR, KeyQueueLen) - 1
      BY <1>1, <1>5, RingGet DEF InputType
    <3> QED BY <1>2, <2>1, <3>1 DEF InRing
  <2>4. k = accepted[m + 1] /\ k \in Keys
    <3>1. keyF % KeyQueueLen = keyF /\ keyF + 1 - 1 = keyF
      BY <1>1, ModSmall DEF InputType
    <3>2. 1 \in 1 .. n /\ m + 1 \in 1 .. Len(accepted)
      BY <1>1, <1>3, <2>3
    <3>3. accepted[m + 1] = k
      BY <1>1, <3>1, <3>2
    <3> QED BY <1>1, <3>2, <3>3, ElementOfSeq DEF InputType
  <2>5. received' = Append(received, k)
    BY <1>5, <2>4 DEF ReadKey, KeyDequeue, Keys
  <2> HIDE DEF k
  <2>6. /\ received' \in Seq(Keys) /\ Len(received') = m + 1
        /\ \A i \in 1 .. m : received'[i] = received[i]
        /\ received'[m + 1] = k
    BY <1>1, <2>4, <2>5, AppendProperties DEF InputType
  <2> HIDE DEF n, m
  <2>7. \A i \in 1 .. m + 1 : accepted[i] = received'[i]
    BY <1>1, <1>3, <2>4, <2>6
  <2>8. ASSUME NEW i \in 1 .. n - 1
        PROVE  accepted[m + 1 + i] = keyQueue[(keyF' + i - 1) % KeyQueueLen]
    <3>1. keyF + 1 \in 0 .. 2 * KeyQueueLen - 1 /\ i - 1 \in 0 .. KeyQueueLen - 1
      BY <1>3
    <3>2. (((keyF + 1) % KeyQueueLen) + (i - 1)) % KeyQueueLen
            = (keyF + 1 + (i - 1)) % KeyQueueLen
      BY <3>1, ModShift
    <3>3. keyF + 1 + (i - 1) = keyF + (i + 1) - 1 /\ keyF' + (i - 1) = keyF' + i - 1
      BY <1>1, <2>2 DEF InputType
    <3>4. i + 1 \in 1 .. n /\ m + 1 + i = m + (i + 1)
      BY <1>3
    <3>5. accepted[m + (i + 1)] = keyQueue[(keyF + (i + 1) - 1) % KeyQueueLen]
      BY <1>1, <3>4
    <3> QED BY <2>1, <3>2, <3>3, <3>4, <3>5
  <2>9. Len(accepted) = m + 1 + (n - 1)
    BY <1>1, <1>3
  <2>10. where' # "aborted"
    BY <1>1
  <2>11. FifoOrdered'
    BY <1>2, <2>3, <2>6, <2>7, <2>8, <2>9, <2>10 DEF FifoOrdered
  <2>12. InputType'
    BY <1>1, <1>2, <2>2, <2>6 DEF InputType
  <2> QED BY <2>11, <2>12
<1> QED BY <1>4, <1>5

LEMMA KeyEnqueueInv ==
  ASSUME InputInv, where = "polling", NEW code \in Keys, KeyEnqueue(code), UNCHANGED received
  PROVE  /\ keyQueue' = [i \in 0 .. KeyQueueLen - 1 |-> keyQueue'[i]]
         /\ keyF' \in 0 .. KeyQueueLen - 1 /\ keyR' \in 0 .. KeyQueueLen - 1
         /\ accepted' \in Seq(Keys) /\ where' \in {"polling", "aborted"}
         /\ FifoOrdered'
<1> USE InputAssumption
<1> DEFINE n == InRing
           m == Len(received)
<1>1. /\ InputType
      /\ Len(accepted) = m + n
      /\ \A i \in 1 .. m : accepted[i] = received[i]
      /\ \A i \in 1 .. n : accepted[m + i] = keyQueue[(keyF + i - 1) % KeyQueueLen]
  BY DEF InputInv, FifoOrdered
<1>2. /\ keyQueue' = [keyQueue EXCEPT ![keyR] = code] /\ keyR' = (keyR + 1) % KeyQueueLen
      /\ accepted' = Append(accepted, code) /\ keyF' = keyF
      /\ where' = IF keyR' = keyF THEN "aborted" ELSE where
  BY DEF KeyEnqueue
<1>3. /\ m \in Nat /\ n \in 0 .. KeyQueueLen - 1 /\ keyF \in 0 .. KeyQueueLen - 1
      /\ keyR = (keyF + n) % KeyQueueLen
  BY <1>1, LenProperties, RingLenCases DEF InputType, InRing
<1>4. keyR' \in 0 .. KeyQueueLen - 1 /\ keyF' \in 0 .. KeyQueueLen - 1
  BY <1>1, <1>2, ModRange DEF InputType
<1>5. keyQueue' = [i \in 0 .. KeyQueueLen - 1 |-> keyQueue'[i]]
  BY <1>1, <1>2 DEF InputType
<1>6. /\ accepted' \in Seq(Keys) /\ Len(accepted') = m + n + 1
      /\ \A i \in 1 .. m + n : accepted'[i] = accepted[i]
      /\ accepted'[m + n + 1] = code
  BY <1>1, <1>2, AppendProperties DEF InputType
<1>7. /\ keyR' = keyF => n = KeyQueueLen - 1
      /\ keyR' # keyF => InRing' = n + 1
  BY <1>1, <1>2, RingPut DEF InputType, InRing
<1>8. CASE keyR' = keyF
  <2>1. where' = "aborted" /\ Len(accepted') = m + KeyQueueLen
    BY <1>2, <1>3, <1>6, <1>7, <1>8
  <2> QED BY <1>4, <1>5, <1>6, <2>1 DEF FifoOrdered
<1>9. CASE keyR' # keyF
  <2>1. where' = "polling" /\ InRing' = n + 1
    BY <1>2, <1>7, <1>9
  <2> HIDE DEF n, m
  <2>2. \A i \in 1 .. m : accepted'[i] = received[i]
    BY <1>1, <1>3, <1>6
  <2>3. ASSUME NEW i \in 1 .. n + 1
        PROVE  accepted'[m + i] = keyQueue'[(keyF + i - 1) % KeyQueueLen]
    <3>1. keyQueue'[keyR] = code
          /\ \A j \in 0 .. KeyQueueLen - 1 : j # keyR => keyQueue'[j] = keyQueue[j]
      BY <1>1, <1>2 DEF InputType
    <3>2. CASE i = n + 1
      <4>1. keyF + i - 1 = keyF + n /\ m + i = m + n + 1
        BY <1>3, <3>2
      <4> QED BY <1>3, <1>6, <3>1, <4>1
    <3>3. CASE i \in 1 .. n
      <4>1. /\ keyF + i - 1 \in 0 .. 2 * KeyQueueLen - 1
            /\ keyF + n \in 0 .. 2 * KeyQueueLen - 1
            /\ keyF + i - 1 < keyF + n /\ keyF + n < keyF + i - 1 + KeyQueueLen
        BY <1>3, <3>3
      <4>2. (keyF + i - 1) % KeyQueueLen # keyR
        BY <1>3, <4>1, ModApart
      <4>3. (keyF + i - 1) % KeyQueueLen \in 0 .. KeyQueueLen - 1
        <5>1. keyF + i - 1 \in Int
          BY <4>1
        <5> QED BY <5>1, ModRange
      <4>4. accepted'[m + i] = accepted[m + i]
        <5>1. m + i \in 1 .. m + n
          BY <1>3, <3>3
        <5> QED BY <1>6, <5>1
      <4> QED BY <1>1, <3>1, <3>3, <4>2, <4>3, <4>4
    <3> QED BY <1>3, <3>2, <3>3
  <2>4. Len(accepted') = m + (n + 1)
    BY <1>3, <1>6
  <2>5. FifoOrdered'
    BY <1>2, <2>1, <2>2, <2>3, <2>4 DEF FifoOrdered, m
  <2> QED BY <1>4, <1>5, <1>6, <2>1, <2>5
<1> QED BY <1>8, <1>9

LEMMA InputStep == ASSUME InputInv, [InputNext]_inputVars PROVE InputInv'
<1> USE InputAssumption
<1>0. InputType /\ FifoOrdered /\ NoPromptEvents
  BY DEF InputInv
\* Steps that leave the queue of keys alone.
<1>a. ASSUME UNCHANGED <<ringVars, received>>, where # "aborted", where' # "aborted"
      PROVE  FifoOrdered'
  BY <1>0, <1>a DEF FifoOrdered, ringVars, InRing
<1>1. ASSUME NEW kind \in {"key", "other", "close"}, UserEvent(kind) PROVE InputInv'
  <2> DEFINE e == [kind |-> kind, code |-> made + 1, at |-> where]
  <2>1. e \in Events
    BY <1>0 DEF InputType, Events, KeyNone
  <2>2. events' = Append(events, e) /\ made' = made + 1
    BY <1>1 DEF UserEvent
  <2>3. UNCHANGED <<promptVars, ringVars, received>>
    BY <1>1 DEF UserEvent
  <2>4. e.at = where
    OBVIOUS
  <2> HIDE DEF e
  <2>5. /\ events' \in Seq(Events) /\ Len(events') = Len(events) + 1
        /\ \A i \in 1 .. Len(events) : events'[i] = events[i]
        /\ events'[Len(events) + 1] = e
    BY <1>0, <2>1, <2>2, AppendProperties DEF InputType
  <2>6. InputType'
    BY <1>0, <2>2, <2>3, <2>5 DEF InputType, promptVars, ringVars
  <2>7. FifoOrdered'
    BY <1>0, <2>3 DEF FifoOrdered, promptVars, ringVars, InRing
  <2>8. NoPromptEvents'
    <3> SUFFICES ASSUME where # "prompt", NEW i \in 1 .. Len(events) + 1
                 PROVE  events'[i].at # "prompt"
      BY <2>3, <2>5, LenProperties DEF NoPromptEvents, promptVars
    <3>1. Len(events) \in Nat /\ DOMAIN events = 1 .. Len(events)
      BY <1>0, LenProperties DEF InputType
    <3> QED BY <1>0, <2>4, <2>5, <3>1 DEF NoPromptEvents
  <2> QED BY <2>6, <2>7, <2>8 DEF InputInv
<1>2. CASE EnterCommand
  <2>1. /\ where = "prompt" /\ where' = "command" /\ events' = <<>>
        /\ UNCHANGED <<made, ringVars, received>>
    BY <1>2 DEF EnterCommand
  <2> QED BY <1>0, <1>a, <2>1 DEF InputInv, InputType, NoPromptEvents, ringVars
<1>3. CASE RunCommand \/ ExecuteReturns
  <2>1. /\ where \in {"command", "guest"} /\ where' \in {"prompt", "guest"}
        /\ UNCHANGED <<events, made, ringVars, received>>
    BY <1>3 DEF RunCommand, ExecuteReturns
  <2> QED BY <1>0, <1>a, <2>1 DEF InputInv, InputType, NoPromptEvents, ringVars
<1>4. CASE ReadKey
  <2>1. where = "guest" /\ UNCHANGED events
    BY <1>4 DEF ReadKey
  <2>2. NoPromptEvents'
    BY <1>0, <2>1 DEF NoPromptEvents
  <2> QED BY <1>4, <2>2, ReadKeyInv DEF InputInv
<1>5. CASE StorePixel \/ RequestSync
  <2>1. /\ where = "guest" /\ where' \in {"prompt", "guest"}
        /\ UNCHANGED <<events, made, ringVars, received>>
    BY <1>5 DEF StorePixel, RequestSync, AfterInst
  <2> QED BY <1>0, <1>a, <2>1 DEF InputInv, InputType, NoPromptEvents, ringVars
<1>6. CASE StartUpdate \/ PollingDone
  <2>1. /\ where \in {"guest", "polling"} /\ where' \in {"polling", "guest"}
        /\ UNCHANGED <<events, made, ringVars, received>>
    BY <1>6 DEF StartUpdate, PollingDone
  <2> QED BY <1>0, <1>a, <2>1 DEF InputInv, InputType, NoPromptEvents, ringVars
<1>7. CASE PollEvent
  <2>1. where = "polling" /\ events # <<>> /\ events' = Tail(events) /\ UNCHANGED <<made, received>>
    BY <1>7 DEF PollEvent
  <2>2. /\ events' \in Seq(Events) /\ Len(events') = Len(events) - 1
        /\ \A i \in 1 .. Len(events') : events'[i] = events[i + 1]
        /\ Head(events) \in Events
    BY <1>0, <2>1, HeadTailProperties DEF InputType
  <2>3. NoPromptEvents'
    <3> SUFFICES ASSUME NEW i \in 1 .. Len(events) - 1 PROVE events'[i].at # "prompt"
      BY <2>2, LenProperties DEF NoPromptEvents
    <3>1. i + 1 \in DOMAIN events
      BY <1>0, LenProperties DEF InputType
    <3> QED BY <1>0, <2>1, <2>2, <3>1 DEF NoPromptEvents
  <2>4. CASE UNCHANGED <<ringVars, where>>
    BY <1>0, <1>a, <2>1, <2>2, <2>3, <2>4 DEF InputInv, InputType, ringVars
  <2>5. CASE KeyEnqueue(Head(events).code)
    <3>1. Head(events).code \in Keys
      BY <2>2 DEF Events, Keys
    <3>2. /\ keyQueue' = [i \in 0 .. KeyQueueLen - 1 |-> keyQueue'[i]]
          /\ keyF' \in 0 .. KeyQueueLen - 1 /\ keyR' \in 0 .. KeyQueueLen - 1
          /\ accepted' \in Seq(Keys) /\ where' \in {"polling", "aborted"}
          /\ FifoOrdered'
      BY <2>1, <2>5, <3>1, KeyEnqueueInv
    <3> QED BY <1>0, <2>1, <2>2, <2>3, <3>2 DEF InputInv, InputType
  <2> QED BY <1>7, <2>4, <2>5 DEF PollEvent
<1>8. CASE UNCHANGED inputVars
  BY <1>0, <1>8 DEF InputInv, InputType, FifoOrdered, NoPromptEvents, InRing, inputVars,
     promptVars, ringVars
<1> QED BY <1>1, <1>2, <1>3, <1>4, <1>5, <1>6, <1>7, <1>8 DEF InputNext, Emulator

LEMMA InputInvariant == Spec => []InputInv
<1>1. Init => InputInv
  BY InputStart DEF Init
<1>2. InputInv /\ [Next]_deviceVars => InputInv'
  BY DevicesAreApart, InputStep
<1> QED BY <1>1, <1>2, PTL DEF Spec

\* For every length of the ring and however polls and loads alternate: the
\* guest gets the keys in order and once, and NEMU gives up only when the ring
\* is full.
THEOREM KeysAreFifo == Spec => []KeysInFifoOrder
<1>1. InputInv => KeysInFifoOrder
  <2> SUFFICES ASSUME InputInv PROVE KeysInFifoOrder
    OBVIOUS
  <2>1. CASE where = "aborted"
    BY <2>1 DEF InputInv, FifoOrdered, KeysInFifoOrder
  <2>2. CASE where # "aborted"
    <3> DEFINE n == InRing
               m == Len(received)
    <3>1. /\ Len(accepted) = m + n
          /\ \A i \in 1 .. m : accepted[i] = received[i]
          /\ \A i \in 1 .. n : accepted[m + i] = keyQueue[(keyF + i - 1) % KeyQueueLen]
      BY <2>2 DEF InputInv, FifoOrdered
    <3>2. /\ accepted \in Seq(Keys) /\ received \in Seq(Keys) /\ m \in Nat
      BY LenProperties DEF InputInv, InputType
    <3>3. n \in Nat
      BY RingLenCases, InputAssumption DEF InputInv, InputType, InRing
    <3>4. InQueue = [i \in 1 .. n |-> keyQueue[(keyF + i - 1) % KeyQueueLen]]
      BY DEF InQueue, InRing, RingLen
    <3> HIDE DEF n, m
    <3>5. \A i \in 1 .. n : InQueue[i] = accepted[m + i] /\ InQueue[i] \in Keys
      <4> SUFFICES ASSUME NEW i \in 1 .. n
                   PROVE  InQueue[i] = accepted[m + i] /\ InQueue[i] \in Keys
        OBVIOUS
      <4>1. m + i \in 1 .. Len(accepted)
        BY <3>1, <3>2, <3>3
      <4>2. accepted[m + i] \in Keys
        BY <3>2, <4>1, ElementOfSeq
      <4> QED BY <3>1, <3>4, <4>2
    <3>6. InQueue \in Seq(Keys) /\ Len(InQueue) = n
      <4>1. [i \in 1 .. n |-> InQueue[i]] \in Seq(Keys)
        BY <3>3, <3>5, IsASeq
      <4>2. InQueue = [i \in 1 .. n |-> InQueue[i]]
        BY <3>4
      <4> QED BY <3>3, <4>1, <4>2, LenProperties
    <3>7. /\ received \o InQueue \in Seq(Keys) /\ Len(received \o InQueue) = m + n
          /\ \A i \in 1 .. m + n : (received \o InQueue)[i]
                = IF i <= m THEN received[i] ELSE InQueue[i - m]
      BY <3>2, <3>6, ConcatProperties DEF m
    <3>8. ASSUME NEW i \in 1 .. m + n PROVE accepted[i] = (received \o InQueue)[i]
      <4>1. CASE i <= m
        BY <3>1, <3>2, <3>7, <4>1
      <4>2. CASE ~(i <= m)
        <5>1. i - m \in 1 .. n /\ m + (i - m) = i
          BY <3>2, <3>3, <4>2
        <5> QED BY <3>5, <3>7, <4>2, <5>1
      <4> QED BY <4>1, <4>2
    <3>9. accepted = received \o InQueue
      BY <3>1, <3>2, <3>7, <3>8, SeqEqual
    <3> QED BY <2>2, <3>9 DEF KeysInFifoOrder
  <2> QED BY <2>1, <2>2
<1> QED BY <1>1, InputInvariant, PTL

\* However long the user has typed at the prompt.
THEOREM PromptKeysDropped == Spec => []PromptKeysStayOut
<1>1. InputInv => PromptKeysStayOut
  BY DEF InputInv, NoPromptEvents, PromptKeysStayOut
<1> QED BY <1>1, InputInvariant, PTL

-----------------------------------------------------------------------------
\* The SD card.

Transfer == mrq.op \in {"read", "write"}

\* The requests the mmc core makes, as far as the proof needs to know them.
MrqOk ==
  IF hpc = "idle" THEN mrq = NoRequest
  ELSE /\ mrq.op \in {"read", "write", "csd", "status", "if_cond"}
       /\ mrq.op = "csd" => mrq.room = BlockWords /\ ~mrq.stop
       /\ mrq.op = "if_cond" => ~identified
       /\ Transfer => /\ mrq.blocks \in Nat /\ mrq.start \in Nat /\ identified
                      /\ mrq.stop = (mrq.blocks > 1)

\* EXT_CSD is out of the way when blocks are moved.
CsdSelected ==
  IF mrq.op = "csd" /\ hpc \in {"pio", "finish"}
  THEN (card.extCsd <=> moved < BlockWords) /\ (hpc = "pio" => card.addr = moved)
  ELSE identified => ~card.extCsd

\* The card's place in the image is the driver's, and its direction.
CardFollows ==
  hpc = "pio" /\ Transfer =>
    /\ card.pos = mrq.start * BlockWords + moved
    /\ card.write = (mrq.op = "write")
    /\ mrq.blocks > 1

QuotaInv ==
  /\ quota = IF hpc \in {"pio", "stop"} /\ Transfer
             THEN IF useSbc THEN <<"words", Total(mrq) - moved>> ELSE <<"open">>
             ELSE <<"words", 0>>
  /\ useSbc /\ hpc # "idle" => mrq.op = "read" /\ (hpc = "cmd" => card.blkcnt = mrq.blocks)

CardType ==
  card = [arg |-> card.arg, rsp |-> card.rsp, data |-> card.data, blkcnt |-> card.blkcnt,
          addr |-> card.addr, pos |-> card.pos, write |-> card.write, extCsd |-> card.extCsd]

HostType ==
  /\ CardType
  /\ hpc \in {"idle", "sbc", "cmd", "pio", "stop", "finish", "panicked"}
  /\ moved \in Nat /\ useSbc \in BOOLEAN /\ identified \in BOOLEAN
  /\ hpc \in {"sbc", "cmd"} => moved = 0
  /\ hpc # "idle" => moved <= Total(mrq)
  /\ hpc = "finish" /\ mrq.op = "csd" => moved = BlockWords
  /\ hpc = "stop" => Transfer
  /\ hpc = "pio" => Transfer \/ mrq.op = "csd"

SdInv == HostType /\ MrqOk /\ CsdSelected /\ CardFollows /\ QuotaInv

\* What is known of a request when it is started.
LEMMA RequestsKnown ==
  ASSUME NEW r \in Requests
  PROVE  /\ r # NoRequest
         /\ r.op \in {"read", "write", "csd", "status", "if_cond"}
         /\ r.op = "csd" => r.room = BlockWords /\ ~r.stop
         /\ r.op \in {"read", "write"} => /\ r \in BlockRequests
                                        /\ r.blocks \in Nat /\ r.start \in Nat
                                        /\ r.stop = (r.blocks > 1)
         /\ r \in BlockRequests => r.op \in {"read", "write"}
         /\ r.sbc \in BOOLEAN
<1>1. ASSUME r \in BlockRequests
      PROVE  /\ r.op \in {"read", "write"} /\ r.blocks \in Nat /\ r.start \in Nat
             /\ r.stop = (r.blocks > 1) /\ r.sbc \in BOOLEAN
  BY <1>1 DEF BlockRequests
<1>2. ASSUME NEW op \in {"csd", "status", "if_cond"}, r = Plain(op)
      PROVE  r.op = op /\ (op = "csd" => r.room = BlockWords) /\ ~r.stop /\ r.sbc \in BOOLEAN
  BY <1>2 DEF Plain
<1>3. r \in BlockRequests \/ \E op \in {"csd", "status", "if_cond"} : r = Plain(op)
  BY DEF Requests, SetupRequests
<1>4. r.op # "none"
  BY <1>1, <1>2, <1>3
<1>5. r # NoRequest
  BY <1>4 DEF NoRequest
<1> QED BY <1>1, <1>2, <1>3, <1>5

LEMMA TotalIsNat == ASSUME SdInv, hpc # "idle" PROVE Total(mrq) \in Nat
<1>1. Transfer => mrq.blocks * BlockWords \in Nat
  BY CardAssumption DEF SdInv, MrqOk
<1> QED BY <1>1, CardAssumption DEF Total, Transfer

\* The commands the driver sends, one by one.
LEMMA CommandEffects ==
  ASSUME NEW c, NEW preset \in BOOLEAN
  PROVE  /\ Commanded(c, SendExtCsd) = [c EXCEPT !.extCsd = TRUE, !.addr = 0]
         /\ Commanded(c, ReadMultiple)
              = [c EXCEPT !.pos = c.arg * BlockWords, !.addr = 0, !.write = FALSE]
         /\ Commanded(c, WriteMultiple)
              = [c EXCEPT !.pos = c.arg * BlockWords, !.addr = 0, !.write = TRUE]
         /\ Expected(SendExtCsd, c, preset) = quota
         /\ Expected(ReadMultiple, c, preset)
              = IF preset THEN <<"words", c.blkcnt * BlockWords>> ELSE <<"open">>
         /\ Expected(WriteMultiple, c, preset)
              = IF preset THEN <<"words", c.blkcnt * BlockWords>> ELSE <<"open">>
<1> USE DEF SendExtCsd, SetBlockCount, ReadMultiple, WriteMultiple, SendStatus,
            StopTransmission
<1>1. Commanded(c, SendExtCsd) = [c EXCEPT !.extCsd = TRUE, !.addr = 0]
  BY DEF Commanded
<1>2. Commanded(c, ReadMultiple)
        = [c EXCEPT !.pos = c.arg * BlockWords, !.addr = 0, !.write = FALSE]
  BY DEF Commanded, PreparedRw
<1>3. Commanded(c, WriteMultiple)
        = [c EXCEPT !.pos = c.arg * BlockWords, !.addr = 0, !.write = TRUE]
  BY DEF Commanded, PreparedRw
<1>4. Expected(SendExtCsd, c, preset) = quota
  BY DEF Expected
<1>5. /\ Expected(ReadMultiple, c, preset)
           = IF preset THEN <<"words", c.blkcnt * BlockWords>> ELSE <<"open">>
      /\ Expected(WriteMultiple, c, preset)
           = IF preset THEN <<"words", c.blkcnt * BlockWords>> ELSE <<"open">>
  BY DEF Expected
<1> QED BY <1>1, <1>2, <1>3, <1>4, <1>5

LEMMA SdStep == ASSUME SdInv, [SdNext]_sdVars PROVE SdInv'
<1> USE CardAssumption
<1>0. HostType /\ MrqOk /\ CsdSelected /\ CardFollows /\ QuotaInv
  BY DEF SdInv
<1>1. ASSUME NEW r \in Requests, Request(r) PROVE SdInv'
  <2>1. /\ hpc = "idle" /\ hpc' \in {"sbc", "cmd"} /\ mrq' = r /\ mrq = NoRequest
        /\ useSbc' = (r.sbc /\ r.op = "read") /\ moved' = 0
        /\ hpc' = IF useSbc' THEN "sbc" ELSE "cmd"
        /\ r.op = "if_cond" => ~identified
        /\ r \in BlockRequests => identified
        /\ UNCHANGED <<card, image, quota, identified>>
    BY <1>0, <1>1 DEF Request, cardVars, MrqOk
  <2>2. useSbc' \in BOOLEAN
    BY <2>1, RequestsKnown
  <2>3. Total(r) \in Nat
    <3>1. r.op \in {"read", "write"} => r.blocks * BlockWords \in Nat
      BY RequestsKnown
    <3> QED BY <3>1 DEF Total
  <2>4. HostType'
    BY <1>0, <2>1, <2>2, <2>3 DEF HostType, CardType
  <2>5. MrqOk'
    BY <2>1, RequestsKnown DEF MrqOk, Transfer
  <2>6. CsdSelected'
    <3>1. mrq.op = "none"
      BY <2>1 DEF NoRequest
    <3> QED BY <1>0, <2>1, <3>1 DEF CsdSelected
  <2>7. CardFollows' /\ QuotaInv'
    BY <1>0, <2>1 DEF CardFollows, QuotaInv
  <2> QED BY <2>4, <2>5, <2>6, <2>7 DEF SdInv
<1>2. CASE SendSbc
  <2>1. /\ hpc = "sbc" /\ hpc' = "cmd"
        /\ UNCHANGED <<image, mrq, useSbc, moved, identified>>
    BY <1>2 DEF SendSbc, SendCommand
  <2>2. /\ card' = [[card EXCEPT !.arg = mrq.blocks] EXCEPT !.blkcnt = mrq.blocks]
        /\ quota' = quota
    BY <1>2, <1>0 DEF SendSbc, SendCommand, Commanded, Expected, SetBlockCount, SendExtCsd,
                ReadMultiple, WriteMultiple, SendStatus, StopTransmission, HostType, CardType
  <2>3. CardType' /\ card'.extCsd = card.extCsd /\ card'.blkcnt = mrq.blocks
    BY <1>0, <2>2 DEF HostType, CardType
  <2>4. Total(mrq)' = Total(mrq) /\ Transfer' = Transfer
    BY <2>1 DEF Total, Transfer
  <2>5. HostType'
    BY <1>0, <2>1, <2>3, <2>4 DEF HostType
  <2>6. MrqOk' /\ CsdSelected' /\ CardFollows'
    BY <1>0, <2>1, <2>3, <2>4 DEF MrqOk, CsdSelected, CardFollows
  <2>7. QuotaInv'
    BY <1>0, <2>1, <2>2, <2>3, <2>4 DEF QuotaInv
  <2> QED BY <2>5, <2>6, <2>7 DEF SdInv
<1>3. CASE SendCmd
  <2>1. hpc = "cmd" /\ UNCHANGED <<mrq, useSbc, moved, identified>> /\ moved = 0
    BY <1>0, <1>3 DEF SendCmd, HostType
  <2>2. Total(mrq)' = Total(mrq) /\ Transfer' = Transfer /\ Total(mrq) \in Nat
    BY <2>1, TotalIsNat DEF Total, Transfer
  <2>3. CASE hpc' = "panicked" /\ UNCHANGED cardVars
    BY <1>0, <2>1, <2>2, <2>3
       DEF SdInv, HostType, CardType, MrqOk, CsdSelected, CardFollows, QuotaInv, cardVars
  <2>4. CASE Opcode(mrq) \in Handled
    <3>1. /\ SendCommand(Opcode(mrq), mrq.start)
          /\ hpc' = IF HasData(mrq) THEN "pio" ELSE "finish"
      BY <1>3, <2>4 DEF SendCmd
    <3> DEFINE c == [card EXCEPT !.arg = mrq.start]
    <3>2. /\ CardType /\ c.arg = mrq.start /\ c.extCsd = card.extCsd /\ c.blkcnt = card.blkcnt
          /\ c = [arg |-> c.arg, rsp |-> c.rsp, data |-> c.data, blkcnt |-> c.blkcnt,
                  addr |-> c.addr, pos |-> c.pos, write |-> c.write, extCsd |-> c.extCsd]
      BY <1>0 DEF HostType, CardType
    <3>3. card' = Commanded(c, Opcode(mrq)) /\ quota' = Expected(Opcode(mrq), c, useSbc)
      BY <3>1 DEF SendCommand
    <3> HIDE DEF c
    <3>4. CASE Transfer
      <4>1. /\ mrq.blocks > 1 /\ mrq.blocks \in Nat /\ mrq.start \in Nat
            /\ Opcode(mrq) = IF mrq.op = "read" THEN ReadMultiple ELSE WriteMultiple
        BY <1>0, <2>1, <2>4, <3>4 DEF MrqOk, Transfer, Opcode, Handled, ReadMultiple,
           WriteMultiple, ReadSingle, WriteSingle
      <4>2. card' = [c EXCEPT !.pos = c.arg * BlockWords, !.addr = 0, !.write = (mrq.op = "write")]
        <5>1. useSbc \in BOOLEAN
          BY <1>0 DEF HostType
        <5>2. CASE mrq.op = "read"
          <6>1. card' = Commanded(c, ReadMultiple)
            BY <3>3, <4>1, <5>2
          <6>2. card' = [c EXCEPT !.pos = c.arg * BlockWords, !.addr = 0, !.write = FALSE]
            BY <5>1, <6>1, CommandEffects
          <6> QED BY <5>2, <6>2
        <5>3. CASE mrq.op = "write"
          <6>1. card' = Commanded(c, WriteMultiple)
            BY <3>3, <4>1, <5>3
          <6>2. card' = [c EXCEPT !.pos = c.arg * BlockWords, !.addr = 0, !.write = TRUE]
            BY <5>1, <6>1, CommandEffects
          <6> QED BY <5>3, <6>2
        <5> QED BY <3>4, <5>2, <5>3 DEF Transfer
      <4>3. /\ CardType' /\ card'.extCsd = card.extCsd
            /\ card'.pos = mrq.start * BlockWords /\ card'.write = (mrq.op = "write")
        BY <3>2, <4>2 DEF CardType
      <4>4. quota' = IF useSbc THEN <<"words", card.blkcnt * BlockWords>> ELSE <<"open">>
        <5>1. useSbc \in BOOLEAN
          BY <1>0 DEF HostType
        <5> QED BY <3>2, <3>3, <4>1, <5>1, CommandEffects
      <4>5. hpc' = "pio"
        BY <3>1, <3>4 DEF HasData, Transfer
      <4>6. Total(mrq) = mrq.blocks * BlockWords
        BY <3>4 DEF Total, Transfer
      <4>7. HostType' /\ MrqOk'
        BY <1>0, <2>1, <2>2, <3>4, <4>3, <4>5 DEF HostType, MrqOk, Transfer
      <4>8. CsdSelected'
        BY <1>0, <2>1, <3>4, <4>3, <4>5 DEF CsdSelected, Transfer
      <4>9. CardFollows'
        <5>1. mrq.start * BlockWords \in Nat
          BY <4>1
        <5> QED BY <2>1, <4>1, <4>3, <4>5, <5>1 DEF CardFollows
      <4>10. QuotaInv'
        <5>1. useSbc => card.blkcnt = mrq.blocks
          BY <1>0, <2>1 DEF QuotaInv
        <5>2. useSbc => quota' = <<"words", Total(mrq) - moved>>
          BY <2>1, <2>2, <4>4, <4>6, <5>1
        <5> QED BY <1>0, <2>1, <2>2, <3>4, <4>4, <4>5, <5>2 DEF QuotaInv
      <4> QED BY <4>7, <4>8, <4>9, <4>10 DEF SdInv
    <3>5. CASE mrq.op \in {"csd", "if_cond"}
      <4>1. Opcode(mrq) = SendExtCsd
        BY <3>5 DEF Opcode
      <4>2. card' = [c EXCEPT !.extCsd = TRUE, !.addr = 0] /\ quota' = quota
        BY <3>3, <4>1, <1>0, CommandEffects DEF HostType
      <4>3. CardType' /\ card'.extCsd = TRUE /\ card'.addr = 0
        BY <3>2, <4>2 DEF CardType
      <4>4. hpc' = IF mrq.op = "csd" THEN "pio" ELSE "finish"
        BY <3>1, <3>5 DEF HasData
      <4>5. HostType' /\ MrqOk'
        BY <1>0, <2>1, <2>2, <3>5, <4>3, <4>4 DEF HostType, MrqOk, Transfer
      <4>6. CsdSelected' /\ CardFollows'
        BY <1>0, <2>1, <3>5, <4>3, <4>4 DEF CsdSelected, MrqOk, CardFollows, Transfer
      <4>7. QuotaInv'
        BY <1>0, <2>1, <2>2, <3>5, <4>2, <4>4 DEF QuotaInv, Transfer
      <4> QED BY <4>5, <4>6, <4>7 DEF SdInv
    <3>6. CASE mrq.op = "status"
      <4>1. Opcode(mrq) = SendStatus
        BY <3>6 DEF Opcode
      <4>2. card' = [c EXCEPT !.rsp = "ready"] /\ quota' = quota
        BY <3>3, <4>1 DEF Commanded, Expected, SendExtCsd, ReadMultiple, WriteMultiple,
           StopTransmission, SendStatus, SetBlockCount
      <4>3. CardType' /\ card'.extCsd = card.extCsd
        BY <3>2, <4>2 DEF CardType
      <4>4. hpc' = "finish"
        BY <3>1, <3>6 DEF HasData
      <4>5. HostType' /\ MrqOk'
        BY <1>0, <2>1, <2>2, <3>6, <4>3, <4>4 DEF HostType, MrqOk, Transfer
      <4>6. CsdSelected' /\ CardFollows'
        BY <1>0, <2>1, <3>6, <4>3, <4>4 DEF CsdSelected, MrqOk, CardFollows, Transfer
      <4>7. QuotaInv'
        BY <1>0, <2>1, <2>2, <3>6, <4>2, <4>4 DEF QuotaInv, Transfer
      <4> QED BY <4>5, <4>6, <4>7 DEF SdInv
    <3> QED BY <1>0, <2>1, <3>4, <3>5, <3>6 DEF MrqOk, Transfer
  <2> QED BY <1>3, <2>3, <2>4 DEF SendCmd
<1>4. CASE PioWord
  <2>1. /\ hpc = "pio" /\ hpc' = "pio" /\ moved < Total(mrq) /\ moved' = moved + 1
        /\ UNCHANGED <<mrq, useSbc, identified>>
    BY <1>4 DEF PioWord
  <2> DEFINE c == IF mrq.op = "write" THEN [card EXCEPT !.data = <<mrq.tag, moved>>] ELSE card
  <2>2. card' = DataAccessed(c)
    BY <1>4 DEF PioWord
  <2>3. quota' = IF mrq.op = "csd" THEN quota ELSE Moved(quota)
    BY <1>4 DEF PioWord
  <2>4. /\ c.extCsd = card.extCsd /\ c.addr = card.addr /\ c.pos = card.pos
        /\ c.write = card.write
        /\ c = [arg |-> c.arg, rsp |-> c.rsp, data |-> c.data, blkcnt |-> c.blkcnt,
                addr |-> c.addr, pos |-> c.pos, write |-> c.write, extCsd |-> c.extCsd]
    BY <1>0 DEF HostType, CardType
  <2>5. Total(mrq)' = Total(mrq) /\ Transfer' = Transfer /\ Total(mrq) \in Nat
    BY <2>1, TotalIsNat DEF Total, Transfer
  <2>6. moved \in Nat
    BY <1>0 DEF HostType
  <2> HIDE DEF c
  <2>7. CardType'
    BY <2>2, <2>4 DEF DataAccessed, CardType
  <2>8. HostType' /\ MrqOk'
    BY <1>0, <2>1, <2>5, <2>6, <2>7 DEF HostType, MrqOk
  <2>9. CASE mrq.op = "csd"
    <3>1. Total(mrq) = BlockWords
      BY <2>9 DEF Total
    <3>2. c.extCsd /\ c.addr = moved
      BY <1>0, <2>1, <2>4, <2>9, <3>1 DEF CsdSelected
    <3>3. (card'.extCsd <=> moved # BlockWords - 1) /\ card'.addr = moved + 1
      BY <2>2, <2>4, <3>2 DEF DataAccessed
    <3>4. CsdSelected' /\ CardFollows'
      BY <2>1, <2>5, <2>6, <2>9, <3>1, <3>3 DEF CsdSelected, CardFollows, Transfer
    <3>5. QuotaInv'
      BY <1>0, <2>1, <2>3, <2>5, <2>9 DEF QuotaInv, Transfer
    <3> QED BY <2>8, <3>4, <3>5 DEF SdInv
  <2>10. CASE Transfer
    <3>1. ~c.extCsd
      BY <1>0, <2>1, <2>4, <2>10 DEF CsdSelected, MrqOk, Transfer
    <3>2. card'.extCsd = FALSE /\ card'.pos = card.pos + 1 /\ card'.write = card.write
      BY <2>2, <2>4, <3>1 DEF DataAccessed
    <3>3. CsdSelected'
      BY <2>1, <2>10, <3>2 DEF CsdSelected, Transfer
    <3>4. CardFollows'
      <4>1. mrq.start * BlockWords \in Nat
        BY <1>0, <2>1, <2>10 DEF MrqOk
      <4> QED BY <1>0, <2>1, <2>5, <2>6, <3>2, <4>1 DEF CardFollows
    <3>5. QuotaInv'
      <4>1. CASE useSbc
        <5>1. quota = <<"words", Total(mrq) - moved>>
          BY <1>0, <2>1, <2>10, <4>1 DEF QuotaInv
        <5>2. quota' = <<"words", Total(mrq) - moved - 1>>
          BY <2>3, <2>10, <5>1 DEF Moved, Transfer
        <5>3. Total(mrq) - moved - 1 = Total(mrq) - (moved + 1)
          BY <2>5, <2>6
        <5> QED BY <1>0, <2>1, <2>5, <2>10, <4>1, <5>2, <5>3 DEF QuotaInv
      <4>2. CASE ~useSbc
        <5>1. quota = <<"open">>
          BY <1>0, <2>1, <2>10, <4>2 DEF QuotaInv
        <5>2. quota' = <<"open">>
          BY <2>3, <2>10, <5>1 DEF Moved, Transfer
        <5> QED BY <1>0, <2>1, <2>5, <2>10, <4>2, <5>2 DEF QuotaInv
      <4> QED BY <4>1, <4>2
    <3> QED BY <2>8, <3>3, <3>4, <3>5 DEF SdInv
  <2>11. mrq.op \notin {"status", "if_cond"}
    BY <2>1, <2>6 DEF Total
  <2> QED BY <1>0, <2>1, <2>9, <2>10, <2>11 DEF MrqOk, Transfer
<1>5. CASE TransferComplete
  <2>1. /\ hpc = "pio" /\ (moved = Total(mrq) \/ moved = mrq.room)
        /\ hpc' = IF mrq.stop /\ (DataError \/ ~useSbc) THEN "stop" ELSE "finish"
        /\ UNCHANGED <<card, quota, mrq, useSbc, moved, identified>>
    BY <1>5 DEF TransferComplete, cardVars
  <2>2. /\ Total(mrq)' = Total(mrq) /\ Transfer' = Transfer /\ Total(mrq) \in Nat
        /\ moved \in Nat /\ moved <= Total(mrq)
    BY <1>0, <2>1, TotalIsNat DEF Total, Transfer, HostType
  <2>3. CardType' /\ MrqOk' /\ CardFollows'
    BY <1>0, <2>1, <2>2 DEF HostType, CardType, MrqOk, CardFollows
  <2>4. CASE mrq.op = "csd"
    <3>1. Total(mrq) = BlockWords /\ mrq.room = BlockWords /\ hpc' = "finish"
      BY <1>0, <2>1, <2>4 DEF Total, MrqOk
    <3>2. moved = BlockWords
      BY <2>1, <3>1
    <3>3. HostType'
      BY <1>0, <2>1, <2>2, <2>3, <2>4, <3>1, <3>2 DEF HostType
    <3>4. CsdSelected' /\ QuotaInv'
      BY <1>0, <2>1, <2>2, <2>4, <3>1, <3>2 DEF CsdSelected, QuotaInv, Transfer
    <3> QED BY <2>3, <3>3, <3>4 DEF SdInv
  <2>5. CASE Transfer
    <3>1. mrq.stop
      BY <1>0, <2>1, <2>5 DEF MrqOk, CardFollows
    <3>2. hpc' \in {"stop", "finish"} /\ (hpc' = "finish" => useSbc /\ moved = Total(mrq))
      BY <2>1, <2>2, <3>1 DEF DataError
    <3>3. HostType'
      BY <1>0, <2>1, <2>2, <2>3, <2>5, <3>2 DEF HostType, Transfer
    <3>4. CsdSelected'
      BY <1>0, <2>1, <2>2, <2>5, <3>2 DEF CsdSelected, Transfer
    <3>5. QuotaInv'
      <4>1. CASE hpc' = "stop"
        BY <1>0, <2>1, <2>2, <2>5, <4>1 DEF QuotaInv
      <4>2. CASE hpc' = "finish"
        <5>1. quota = <<"words", Total(mrq) - moved>> /\ Total(mrq) - moved = 0
          BY <1>0, <2>1, <2>2, <2>5, <3>2, <4>2 DEF QuotaInv
        <5> QED BY <1>0, <2>1, <2>2, <2>5, <4>2, <5>1 DEF QuotaInv
      <4> QED BY <3>2, <4>1, <4>2
    <3> QED BY <2>3, <3>3, <3>4, <3>5 DEF SdInv
  <2> QED BY <1>0, <2>1, <2>4, <2>5 DEF HostType
<1>6. CASE SendStop
  <2>1. /\ hpc = "stop" /\ hpc' = "finish" /\ UNCHANGED <<mrq, useSbc, moved, identified>>
    BY <1>6 DEF SendStop
  <2>2. card' = [card EXCEPT !.arg = 0] /\ quota' = <<"words", 0>>
    BY <1>6 DEF SendStop, SendCommand, Commanded, Expected, SetBlockCount, SendExtCsd,
                ReadMultiple, WriteMultiple, SendStatus, StopTransmission
  <2>3. CardType' /\ card'.extCsd = card.extCsd
    BY <1>0, <2>2 DEF HostType, CardType
  <2>4. Total(mrq)' = Total(mrq) /\ Transfer' = Transfer /\ Transfer
    BY <1>0, <2>1 DEF Total, Transfer, HostType
  <2> QED BY <1>0, <2>1, <2>2, <2>3, <2>4
          DEF SdInv, HostType, MrqOk, CsdSelected, CardFollows, QuotaInv, Transfer
<1>7. CASE FinishRequest
  <2>1. /\ hpc = "finish" /\ hpc' = "idle" /\ identified' = (identified \/ mrq.op = "csd")
        /\ mrq' = NoRequest
        /\ UNCHANGED <<card, quota, useSbc, moved>>
    BY <1>7 DEF FinishRequest, cardVars
  <2>2. identified' => ~card.extCsd
    BY <1>0, <2>1 DEF CsdSelected, HostType
  <2> QED BY <1>0, <2>1, <2>2
          DEF SdInv, HostType, CardType, MrqOk, CsdSelected, CardFollows, QuotaInv, NoRequest
<1>8. CASE UNCHANGED sdVars
  BY <1>8 DEF sdVars, cardVars, hostVars, SdInv, HostType, CardType, MrqOk, CsdSelected,
              CardFollows, QuotaInv, Transfer
<1> QED BY <1>1, <1>2, <1>3, <1>4, <1>5, <1>6, <1>7, <1>8 DEF SdNext, Driver

LEMMA SdInvariant == Spec => []SdInv
<1>1. Init => SdInv
  <2> SUFFICES ASSUME SdInit PROVE SdInv
    BY DEF Init
  <2>1. hpc = "idle" /\ mrq = NoRequest /\ mrq.op = "none"
    BY DEF SdInit, NoRequest
  <2>2. CardType
    BY DEF SdInit, CardInit, CardType
  <2> QED BY <2>1, <2>2
          DEF SdInit, CardInit, SdInv, HostType, MrqOk, CsdSelected, CardFollows, QuotaInv,
              Transfer
<1>2. SdInv /\ [Next]_deviceVars => SdInv'
  BY DevicesAreApart, SdStep
<1> QED BY <1>1, <1>2, PTL DEF Spec

\* For every block size, every image and every sequence of requests: between
\* requests the card does not wait for data.
THEOREM CardIsQuiescent == Spec => []CardQuiescent
<1>1. SdInv => CardQuiescent
  BY DEF SdInv, QuotaInv, CardQuiescent
<1> QED BY <1>1, SdInvariant, PTL

\* A step of driver or card is a step of the block device, or none.
LEMMA SdRefines ==
  ASSUME SdInv, [SdNext]_sdVars
  PROVE  [\/ \E r \in Requests : BlockDevice!Issue(r)
          \/ BlockDevice!MoveWord \/ BlockDevice!Finish]_BlockDevice!bdVars
<1> USE CardAssumption
<1>0. HostType /\ MrqOk /\ CsdSelected /\ CardFollows
  BY DEF SdInv
<1>1. ASSUME NEW r \in Requests, Request(r) PROVE BlockDevice!Issue(r)
  BY <1>0, <1>1 DEF Request, MrqOk, NoRequest, cardVars, BlockDevice!Issue, BlockDevice!None
<1>2. CASE SendSbc \/ SendCmd \/ TransferComplete \/ SendStop
  BY <1>2 DEF SendSbc, SendCmd, TransferComplete, SendStop, SendCommand, cardVars,
              BlockDevice!bdVars
<1>3. ASSUME PioWord PROVE BlockDevice!MoveWord
  <2>1. /\ hpc = "pio" /\ moved < Total(mrq) /\ moved' = moved + 1
        /\ UNCHANGED <<mrq, result>>
    BY <1>3 DEF PioWord
  <2>2. mrq.op # "none" /\ mrq # BlockDevice!None /\ BlockDevice!Total(mrq) = Total(mrq)
    BY <1>0, <2>1 DEF MrqOk, BlockDevice!None, BlockDevice!Total, Total
  <2> DEFINE c == IF mrq.op = "write" THEN [card EXCEPT !.data = <<mrq.tag, moved>>] ELSE card
             place == mrq.start * BlockWords + moved
  <2>3. /\ card' = DataAccessed(c) /\ image' = ImageAccessed(c)
        /\ buf' = IF mrq.op = "write" THEN buf ELSE Append(buf, card'.data)
    BY <1>3 DEF PioWord
  <2>4. /\ c.extCsd = card.extCsd /\ c.addr = card.addr /\ c.pos = card.pos
        /\ c.write = card.write /\ (mrq.op = "write" => c.data = <<mrq.tag, moved>>)
        /\ c = [arg |-> c.arg, rsp |-> c.rsp, data |-> c.data, blkcnt |-> c.blkcnt,
                addr |-> c.addr, pos |-> c.pos, write |-> c.write, extCsd |-> c.extCsd]
    BY <1>0 DEF HostType, CardType
  <2> HIDE DEF c
  <2>5. CASE mrq.op = "csd"
    <3>1. moved < BlockWords /\ c.extCsd /\ c.addr = moved
      BY <1>0, <2>1, <2>4, <2>5 DEF Total, CsdSelected
    <3>2. card'.data = ExtCsd[moved] /\ image' = image
      BY <2>3, <2>4, <3>1 DEF DataAccessed, ImageAccessed
    <3> QED BY <2>1, <2>2, <2>3, <2>5, <3>2 DEF BlockDevice!MoveWord
  <2>6. CASE Transfer
    <3>1. /\ ~c.extCsd /\ c.pos = place /\ (c.write <=> mrq.op = "write")
      BY <1>0, <2>1, <2>4, <2>6 DEF CsdSelected, MrqOk, CardFollows, Transfer
    <3>2. CASE mrq.op = "read"
      <4>1. card'.data = image[place] /\ image' = image
        BY <2>3, <2>4, <3>1, <3>2 DEF DataAccessed, ImageAccessed
      <4> QED BY <2>1, <2>2, <2>3, <3>2, <4>1 DEF BlockDevice!MoveWord
    <3>3. CASE mrq.op = "write"
      <4>1. image' = [image EXCEPT ![place] = <<mrq.tag, moved>>] /\ buf' = buf
        BY <2>3, <2>4, <3>1, <3>3 DEF ImageAccessed
      <4> QED BY <2>1, <2>2, <3>3, <4>1 DEF BlockDevice!MoveWord
    <3> QED BY <2>6, <3>2, <3>3 DEF Transfer
  <2> QED BY <1>0, <2>1, <2>5, <2>6 DEF HostType
<1>4. ASSUME FinishRequest PROVE BlockDevice!Finish
  <2>1. /\ hpc = "finish" /\ mrq' = NoRequest /\ UNCHANGED <<image, moved, buf>>
        /\ result' = IF DataError THEN "error" ELSE "ok"
    BY <1>4 DEF FinishRequest, cardVars
  <2>2. mrq.op # "none" /\ mrq # BlockDevice!None /\ BlockDevice!Total(mrq) = Total(mrq)
    BY <1>0, <2>1 DEF MrqOk, BlockDevice!None, BlockDevice!Total, Total
  <2>3. DataError <=> moved # Total(mrq)
    <3>1. Total(mrq) \in Nat /\ moved \in Nat /\ moved <= Total(mrq)
      BY <1>0, <2>1, TotalIsNat DEF HostType
    <3> QED BY <3>1 DEF DataError
  <2> QED BY <2>1, <2>2, <2>3 DEF BlockDevice!Finish, BlockDevice!None, NoRequest
<1>5. CASE UNCHANGED sdVars
  BY <1>5 DEF sdVars, cardVars, hostVars, BlockDevice!bdVars
<1> QED BY <1>1, <1>2, <1>3, <1>4, <1>5 DEF SdNext, Driver

\* Driver and card implement the block device: no request, however it ends,
\* reads or writes a word that is not its own.
THEOREM SdImplementsBlockDevice == Spec => ImplementsBlockDevice
<1>1. Init => BlockDevice!Init
  BY DEF Init, SdInit, CardInit, NoRequest, BlockDevice!Init, BlockDevice!None
<1>2. SdInv /\ [Next]_deviceVars
        => [\/ \E r \in Requests : BlockDevice!Issue(r)
            \/ BlockDevice!MoveWord \/ BlockDevice!Finish]_BlockDevice!bdVars
  BY DevicesAreApart, SdRefines
<1> QED BY <1>1, <1>2, SdInvariant, PTL DEF Spec, ImplementsBlockDevice, BlockDevice!Spec

=============================================================================
