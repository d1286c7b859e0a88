---------------------------- MODULE NpcKeyboard ----------------------------
(***************************************************************************)
(* The keyboard of the NPC simulator: the ring of csrc/main.cpp, filled    *)
(* from SDL at each poll and each redraw of the screen, and emptied by     *)
(* pmem_read(KBD_ADDR), together with the core that calls it.  axi_mem.v   *)
(* reads pmem with a continuous assignment (axi_mem.v:60), so the call is  *)
(* made in every cycle that has KBD on the read address, not only in the   *)
(* one that accepts a request.                                             *)
(*                                                                         *)
(* Key events are numbered in the order SDL reports them, from 1.          *)
(***************************************************************************)
EXTENDS MiniRv

CONSTANTS SYNC,       \* VGACTL_ADDR + 4
          KeyNone,    \* NPC_KEY_NONE
          QueueLen,   \* KEY_QUEUE_LEN
          MaxKeys     \* bound: events the user ever causes

VARIABLES keyQueue, keyHead, keyTail,   \* key_queue, key_head, key_tail
          pressed,                      \* events SDL has reported so far
          seen                          \* the last event a load has returned

keyVars == <<keyQueue, keyHead, keyTail, pressed, seen>>

ASSUME KeyAssumption == /\ QueueLen \in Nat \ {0, 1} /\ MaxKeys \in Nat
                        /\ KeyNone = 0 /\ 0 .. MaxKeys \subseteq Key

ASSUME SyncAssumption == SYNC \notin {UART, RTC, RTCHI, KBD} /\ Align(SYNC) \notin Ram

Ring == [buf |-> keyQueue, head |-> keyHead, tail |-> keyTail]

\* (bug: a full ring refuses the new event)
EnqueueRefuses(ring, code) ==
  IF (ring.tail + 1) % QueueLen = ring.head THEN ring
  ELSE [ring EXCEPT !.buf[ring.tail] = code, !.tail = (@ + 1) % QueueLen]
\* key_enqueue: a full ring drops its oldest event.
Enqueue(ring, code) ==
  LET tail == (ring.tail + 1) % QueueLen IN
  [buf  |-> [ring.buf EXCEPT ![ring.tail] = code],
   head |-> IF tail = ring.head THEN (ring.head + 1) % QueueLen ELSE ring.head,
   tail |-> tail]

NextKey(ring) == IF ring.head = ring.tail THEN KeyNone ELSE ring.buf[ring.head]

DequeuePeeks(ring) == ring     \* (bug: key_head is not advanced)
\* key_dequeue
Dequeue(ring) ==
  IF ring.head = ring.tail THEN ring ELSE [ring EXCEPT !.head = (@ + 1) % QueueLen]

\* poll_sdl_events: everything that happened since the last poll.
Polled(ring, n) ==
  LET after[k \in 0 .. n] ==
        IF k = 0 THEN ring ELSE Enqueue(after[k - 1], pressed + k)
  IN  after[n]

\* This edge retires a load from KBD.
KeyLoad == Retiring(LsuValid) /\ D.op = "load" /\ AluResult = KBD

KInit ==
  /\ Init
  /\ keyQueue = [i \in 0 .. QueueLen - 1 |-> KeyNone]
  /\ keyHead = 0 /\ keyTail = 0 /\ pressed = 0 /\ seen = 0

SetRing(ring) ==
  keyQueue' = ring.buf /\ keyHead' = ring.head /\ keyTail' = ring.tail

\* A cycle with KBD on the read address: pmem_read polls SDL and pops.
PollingCycle ==
  /\ SArAddr = KBD
  /\ \E n \in 0 .. MaxKeys - pressed :
       LET ring == Polled(Ring, n) IN
       /\ Clock(NextKey(ring))
       /\ SetRing(Dequeue(ring))
       /\ pressed' = pressed + n
  /\ seen' = IF KeyLoad /\ loaded # KeyNone THEN loaded ELSE seen

\* This edge accepts a store to the sync register: pmem_write redraws the
\* screen, and that polls SDL as well (vga_redraw).
SyncWrite == LsuAwValid /\ ~SelUart /\ ~memWriting /\ AluResult = SYNC

RedrawCycle ==
  /\ SArAddr # KBD /\ SyncWrite
  /\ Clock(KeyNone)
  /\ \E n \in 0 .. MaxKeys - pressed : SetRing(Polled(Ring, n)) /\ pressed' = pressed + n
  /\ seen' = seen

OtherCycle ==
  /\ SArAddr # KBD /\ ~SyncWrite
  /\ Clock(KeyNone)
  /\ seen' = IF KeyLoad /\ loaded # KeyNone THEN loaded ELSE seen
  /\ UNCHANGED <<keyQueue, keyHead, keyTail, pressed>>

KNext == PollingCycle \/ RedrawCycle \/ OtherCycle

KSpec == KInit /\ [][KNext]_<<vars, keyVars>>

\* The simulator's loop does not stop (MiniRv).
KFairSpec == KSpec /\ WF_<<vars, keyVars>>(KNext)

-----------------------------------------------------------------------------
Waiting == (keyTail + QueueLen - keyHead) % QueueLen

\* The ring holds the latest events SDL reported, in order and without a gap:
\* however full it is, what key_enqueue drops is the oldest.
RingHoldsLatest ==
  \A i \in 0 .. Waiting - 1 :
    keyQueue[(keyHead + i) % QueueLen] = pressed - Waiting + 1 + i

\* Software sees every event at most once, and in the order SDL reported them,
\* whatever was lost before it was seen.
KeysInOrder == [][KeyLoad /\ loaded # KeyNone => loaded > seen]_<<vars, keyVars>>

\* "the guest reads to pop one key event off a queue": an event leaves the
\* queue only into the read request the memory accepts in that cycle.
EveryPopIsRead ==
  [][keyHead' # keyHead /\ pressed' = pressed
       => ~memReading /\ memReading' /\ memWord' = keyQueue[keyHead]]_<<vars, keyVars>>
=============================================================================
