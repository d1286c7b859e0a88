----------------------------- MODULE NemuAudio -----------------------------
(***************************************************************************)
(* The audio stream buffer between the guest's driver                      *)
(* (abstract-machine, platform/nemu/ioe/audio.c) and SDL's playback        *)
(* callback, which runs on a thread of its own (nemu/src/device/audio.c).  *)
(* The guest fills the ring and learns from the register COUNT how much is *)
(* free; the callback drains it.                                           *)
(*                                                                         *)
(* sbuf_count is written by both without a lock.  The steps are those of   *)
(* an -O2 build: the handler loads the count and stores the sum, the       *)
(* callback keeps count and tail in registers from its first instruction   *)
(* to its last.  `raced' records that the two have overlapped.             *)
(***************************************************************************)
EXTENDS Naturals, Sequences

CONSTANTS
  Size,      \* CONFIG_SB_SIZE
  Block,     \* the len SDL asks for in one callback
  MaxWritten,\* bound: samples the guest plays after an initialisation
  MaxInits   \* bound: how often the guest initialises the device again

ASSUME AudioAssumption ==
  /\ Size \in Nat \ {0} /\ Block \in Nat \ {0}
  /\ MaxWritten \in Nat /\ MaxInits \in Nat

VARIABLES
  sbuf, tail, count,        \* the ring, sbuf_tail, sbuf_count
  gpc, wpos, chunk, done,   \* the guest: where it is; of the current memcpy,
                            \*   its place, its length and how far it is
  gcount,                   \* the handler's register
  cpc, ctail, ccount,       \* the callback: where it is, its registers
  written, played, inits,   \* history: samples stored, bytes given to SDL
  raced                     \*   and whether a callback overlapped a handler

guestVars == <<gpc, wpos, chunk, done, gcount, written, inits>>
callbackVars == <<cpc, ctail, ccount, played>>
vars == <<sbuf, tail, count, guestVars, callbackVars, raced>>

Silence == 0               \* the samples are 1, 2, 3, ...

TypeOK ==
  /\ sbuf \in [0..(Size - 1) -> 0..MaxWritten]
  /\ tail \in 0..(Size - 1) /\ count \in 0..Size
  /\ gpc \in {"check", "store", "load", "update"}
  /\ wpos \in 0..(Size - 1) /\ chunk \in 0..Size /\ done \in 0..chunk
  /\ gcount \in 0..Size
  /\ cpc \in {"idle", "play"} /\ ctail \in 0..(Size - 1) /\ ccount \in 0..Size
  /\ written \in 0..MaxWritten /\ played \in Seq(0..MaxWritten)
  /\ inits \in 0..MaxInits /\ raced \in BOOLEAN

\* After the first __am_audio_ctrl.
Init ==
  /\ sbuf = [i \in 0..(Size - 1) |-> Silence] /\ tail = 0 /\ count = 0
  /\ gpc = "check" /\ wpos = 0 /\ chunk = 0 /\ done = 0 /\ gcount = 0
  /\ cpc = "idle" /\ ctail = 0 /\ ccount = 0
  /\ written = 0 /\ played = <<>> /\ inits = 0 /\ raced = FALSE

Least(a, b) == IF a <= b THEN a ELSE b

-----------------------------------------------------------------------------
\* The guest: __am_audio_play, and the handlers its loads and stores call.

\* (bug: a chunk may run past the end of the buffer)
CheckSpaceNoWrap ==
  /\ gpc = "check" /\ written < MaxWritten /\ count < Size
  /\ chunk' = Least(MaxWritten - written, Size - count)
  /\ done' = 0 /\ gpc' = "store"
  /\ UNCHANGED <<sbuf, tail, count, wpos, gcount, written, inits, callbackVars, raced>>
\* Read COUNT; wait if the ring is full, else choose how much to copy.
CheckSpace ==
  /\ gpc = "check" /\ written < MaxWritten /\ count < Size
  /\ chunk' = Least(Least(MaxWritten - written, Size - count), Size - wpos)
  /\ done' = 0 /\ gpc' = "store"
  /\ UNCHANGED <<sbuf, tail, count, wpos, gcount, written, inits, callbackVars, raced>>

\* One byte of memcpy; map_write stores it and then calls sbuf_io_handler.
StoreSample ==
  /\ gpc = "store" /\ gpc' = "load"
  /\ sbuf' = [sbuf EXCEPT ![wpos + done] = written + 1]
  /\ written' = written + 1
  /\ UNCHANGED <<tail, count, wpos, chunk, done, gcount, inits, callbackVars, raced>>

\* sbuf_io_handler: `sbuf_count += len' and the clamp.
LoadCount ==
  /\ gpc = "load" /\ gpc' = "update"
  /\ gcount' = count
  /\ raced' = (raced \/ cpc = "play")
  /\ UNCHANGED <<sbuf, tail, count, wpos, chunk, done, written, inits, callbackVars>>

\* (bug: the clamp keeps one byte free)
UpdateCountShort ==
  /\ gpc = "update"
  /\ count' = Least(gcount + 1, Size - 1)
  /\ done' = done + 1
  /\ IF done' < chunk
     THEN gpc' = "store" /\ UNCHANGED wpos
     ELSE gpc' = "check" /\ wpos' = (wpos + chunk) % Size
  /\ UNCHANGED <<sbuf, tail, chunk, gcount, written, inits, callbackVars, raced>>
UpdateCount ==
  /\ gpc = "update"
  /\ count' = Least(gcount + 1, Size)
  /\ done' = done + 1
  /\ IF done' < chunk
     THEN gpc' = "store" /\ UNCHANGED wpos
     ELSE gpc' = "check" /\ wpos' = (wpos + chunk) % Size
  /\ UNCHANGED <<sbuf, tail, chunk, gcount, written, inits, callbackVars, raced>>

\* __am_audio_ctrl once more: a store to the register INIT empties the ring.
\* What was queued is dropped, so the histories start again.
Reset ==
  /\ gpc = "check" /\ inits < MaxInits
  /\ tail' = 0 /\ count' = 0 /\ wpos' = 0
  /\ written' = 0 /\ played' = <<>> /\ inits' = inits + 1
  /\ raced' = (raced \/ cpc = "play")
  /\ UNCHANGED <<sbuf, gpc, chunk, done, gcount, cpc, ctail, ccount>>

-----------------------------------------------------------------------------
\* SDL's thread: audio_callback.

Taken == Least(Block, count)
Played(n) == [i \in 1..n |-> sbuf[(tail + (i - 1)) % Size]]

\* (bug: waits until there is a whole block)
PlayWholeBlocks ==
  /\ cpc = "idle" /\ cpc' = "play"
  /\ raced' = (raced \/ gpc = "update")
  /\ count >= Block
  /\ played' = played \o Played(Taken)
  /\ ctail' = (tail + Taken) % Size /\ ccount' = count - Taken
  /\ UNCHANGED <<sbuf, tail, count, guestVars>>
\* The loop: what is there is played, the rest is silence.  A call that finds
\* nothing changes nothing.
Play ==
  /\ cpc = "idle" /\ cpc' = "play"
  /\ raced' = (raced \/ gpc = "update")
  /\ count > 0
  /\ played' = played \o Played(Taken)
  /\ ctail' = (tail + Taken) % Size /\ ccount' = count - Taken
  /\ UNCHANGED <<sbuf, tail, count, guestVars>>

\* (bug: the silence is counted as consumed)
PlayedAllBlock ==
  /\ cpc = "play" /\ cpc' = "idle"
  /\ tail' = (tail + Block) % Size
  /\ count' = count - Block
  /\ UNCHANGED <<sbuf, guestVars, ctail, ccount, played, raced>>
\* The registers are written back.
PlayDone ==
  /\ cpc = "play" /\ cpc' = "idle"
  /\ tail' = ctail /\ count' = ccount
  /\ UNCHANGED <<sbuf, guestVars, ctail, ccount, played, raced>>

Guest == CheckSpace \/ StoreSample \/ LoadCount \/ UpdateCount
Callback == Play \/ PlayDone

Next == Guest \/ Reset \/ Callback

Spec == Init /\ [][Next]_vars

\* NEMU executes the guest and SDL keeps calling.
FairSpec == Spec /\ WF_vars(Guest) /\ WF_vars(Callback)

-----------------------------------------------------------------------------
\* sbuf_count is what its comment says (audio.c:33), the bytes queued and not
\* consumed, whenever neither side is in the middle of changing it.
Pending == IF gpc \in {"load", "update"} THEN 1 ELSE 0
CountIsQueued ==
  cpc = "idle" => count + Pending + Len(played) = written

\* Only a callback that overlaps a handler can make the count wrong.
CountExactUntilRace == ~raced => CountIsQueued

\* Until then SDL gets every sample once and in order: the guest never
\* overwrites a sample that is still to be played, although it computes the
\* free space from a count that may be old when it uses it.
PlayedInOrder ==
  ~raced => /\ Len(played) <= written
            /\ \A k \in 1..Len(played) : played[k] = k

\* Races included, the guest is never left waiting for room; without a race
\* playing ends too: neither side waits for the other for ever, and the last
\* samples are played although they do not fill a block.
EverythingPlayed ==
  /\ <>(written = MaxWritten)
  /\ <>(raced \/ Len(played) = MaxWritten)
=============================================================================
