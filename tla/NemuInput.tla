----------------------------- MODULE NemuInput -----------------------------
(***************************************************************************)
(* NEMU's window: keyboard and screen (keyboard.c, vga.c), device_update,  *)
(* which serves both between two instructions, and the debugger's prompt,  *)
(* where the window goes on collecting events.  The guest draws frames and *)
(* reads keys through abstract-machine (platform/nemu/ioe).                *)
(*                                                                         *)
(* A frame is drawn pixel by pixel; a pixel is the number of the frame it  *)
(* belongs to.  Key events are numbered in the order they are made.        *)
(***************************************************************************)
EXTENDS Naturals, Sequences, SequencesExt

CONSTANTS
  KeyQueueLen,   \* KEY_QUEUE_LEN
  Pixels,        \* pixels of a frame
  MaxFrames,     \* bound: frames the guest draws
  MaxEvents      \* bound: events the user causes

ASSUME InputAssumption ==
  KeyQueueLen \in Nat \ {0, 1} /\ Pixels \in Nat \ {0} /\ {MaxFrames, MaxEvents} \subseteq Nat

VARIABLES
  where,              \* "prompt", "command", "guest", "polling", "aborted"
  nemuState,          \* nemu_state.state
  events, made,       \* SDL's queue; how many events there have been
  keyQueue, keyF, keyR,
  fb, sync, screen,   \* vmem, vgactl_port_base[1], what the window shows
  frame, drawn,       \* the guest: the frame it draws, pixels it has stored
  accepted, received  \* auxiliary: keys enqueued, and read by the guest

promptVars == <<where, nemuState>>
ringVars == <<keyQueue, keyF, keyR, accepted>>
screenVars == <<fb, sync, screen, frame, drawn>>
inputVars == <<promptVars, events, made, ringVars, screenVars, received>>

KeyNone == 0
Pixel == 1 .. Pixels

InputInit ==
  /\ where = "prompt" /\ nemuState = "STOP"
  /\ events = <<>> /\ made = 0
  /\ keyQueue = [i \in 0 .. KeyQueueLen - 1 |-> KeyNone] /\ keyF = 0 /\ keyR = 0
  /\ fb = [p \in Pixel |-> 0] /\ sync = FALSE /\ screen = [p \in Pixel |-> 0]
  /\ frame = 1 /\ drawn = 0
  /\ accepted = <<>> /\ received = <<>>

-----------------------------------------------------------------------------
\* The user, at any time: a mapped key, a key NEMU has no name for, the close
\* button.  `at' records where the program was.
UserEvent(kind) ==
  /\ made < MaxEvents /\ made' = made + 1
  /\ events' = Append(events, [kind |-> kind, code |-> made + 1, at |-> where])
  /\ UNCHANGED <<promptVars, ringVars, screenVars, received>>

\* (bug: the queue is not cleared)
CommandKeepsEvents ==
  /\ where = "prompt" /\ where' = "command"
  /\ UNCHANGED <<nemuState, events, made, ringVars, screenVars, received>>
\* sdb_mainloop: a command line has been read; sdl_clear_event_queue.
EnterCommand ==
  /\ where = "prompt" /\ where' = "command"
  /\ events' = <<>>
  /\ UNCHANGED <<nemuState, made, ringVars, screenVars, received>>

\* The command: one that does not run the guest, or cpu_exec.
RunCommand ==
  /\ where = "command"
  /\ \/ where' = "prompt" /\ UNCHANGED nemuState
     \/ nemuState # "QUIT" /\ where' = "guest" /\ nemuState' = "RUNNING"
  /\ UNCHANGED <<events, made, ringVars, screenVars, received>>

\* execute() ends: its count ran out (RUNNING becomes STOP), or an instruction
\* of no concern here was the last.
ExecuteReturns ==
  /\ where = "guest" /\ where' = "prompt"
  /\ nemuState' = IF nemuState = "RUNNING" THEN "STOP" ELSE nemuState
  /\ UNCHANGED <<events, made, ringVars, screenVars, received>>

-----------------------------------------------------------------------------
\* Instructions of the guest.

\* key_dequeue: the event and the new key_f.
KeyDequeue ==
  IF keyF = keyR THEN <<KeyNone, keyF>>
  ELSE <<keyQueue[keyF], (keyF + 1) % KeyQueueLen>>

\* execute() looks at the state after each instruction, not after the poll: a
\* closed window lets one more through.
AfterInst == where' = IF nemuState = "RUNNING" THEN "guest" ELSE "prompt"

\* A load from KBD_ADDR.
ReadKey ==
  /\ where = "guest"
  /\ LET k == KeyDequeue IN
     /\ keyF' = k[2]
     /\ received' = IF k[1] = KeyNone THEN received ELSE Append(received, k[1])
  /\ AfterInst
  /\ UNCHANGED <<nemuState, events, made, keyQueue, keyR, accepted, screenVars>>

StorePixel ==
  /\ where = "guest" /\ frame <= MaxFrames /\ drawn < Pixels
  /\ fb' = [fb EXCEPT ![drawn + 1] = frame] /\ drawn' = drawn + 1
  /\ AfterInst
  /\ UNCHANGED <<nemuState, events, made, ringVars, sync, screen, frame, received>>

\* The end of a __am_gpu_fbdraw with sync.
RequestSync ==
  /\ where = "guest" /\ frame <= MaxFrames /\ drawn = Pixels
  /\ frame' = frame + 1 /\ drawn' = 0
  /\ sync' = TRUE
  /\ AfterInst
  /\ UNCHANGED <<nemuState, events, made, ringVars, fb, screen, received>>

-----------------------------------------------------------------------------
\* (bug: the request is cleared before it is looked at)
StartUpdateClearsFirst ==
  /\ where = "guest" /\ nemuState = "RUNNING" /\ where' = "polling"
  /\ sync' = FALSE
  /\ screen' = IF sync' THEN fb ELSE screen
  /\ UNCHANGED <<nemuState, events, made, ringVars, fb, frame, drawn, received>>
\* vga_update_screen, and into the loop over the events; device_update's limit
\* on the rate is the choice of the moment.
StartUpdate ==
  /\ where = "guest" /\ nemuState = "RUNNING" /\ where' = "polling"
  /\ screen' = IF sync THEN fb ELSE screen
  /\ sync' = FALSE
  /\ UNCHANGED <<nemuState, events, made, ringVars, fb, frame, drawn, received>>

\* (bug: the place that tells full from empty is kept free twice)
KeyEnqueueEarly(code) ==
  /\ keyQueue' = [keyQueue EXCEPT ![keyR] = code]
  /\ keyR' = (keyR + 1) % KeyQueueLen
  /\ accepted' = Append(accepted, code)
  /\ where' = IF (keyR' + 1) % KeyQueueLen = keyF THEN "aborted" ELSE where
  /\ UNCHANGED keyF
\* key_enqueue, with its Assert.
KeyEnqueue(code) ==
  /\ keyQueue' = [keyQueue EXCEPT ![keyR] = code]
  /\ keyR' = (keyR + 1) % KeyQueueLen
  /\ accepted' = Append(accepted, code)
  /\ where' = IF keyR' = keyF THEN "aborted" ELSE where
  /\ UNCHANGED keyF

\* One event of the loop; send_key takes a key only if it has a name and the
\* window has not been closed.
PollEvent ==
  /\ where = "polling" /\ events # <<>>
  /\ events' = Tail(events)
  /\ LET e == Head(events) IN
     /\ nemuState' = IF e.kind = "close" THEN "QUIT" ELSE nemuState
     /\ IF e.kind = "key" /\ nemuState = "RUNNING"
        THEN KeyEnqueue(e.code) ELSE UNCHANGED <<ringVars, where>>
  /\ UNCHANGED <<made, screenVars, received>>

PollingDone ==
  /\ where = "polling" /\ events = <<>> /\ where' = "guest"
  /\ UNCHANGED <<nemuState, events, made, ringVars, screenVars, received>>

Emulator ==
  \/ ReadKey \/ StorePixel \/ RequestSync
  \/ StartUpdate \/ PollEvent \/ PollingDone \/ ExecuteReturns

InputNext ==
  \/ \E kind \in {"key", "other", "close"} : UserEvent(kind)
  \/ EnterCommand \/ RunCommand
  \/ Emulator

-----------------------------------------------------------------------------
InQueue == [i \in 1 .. (keyR + KeyQueueLen - keyF) % KeyQueueLen |->
              keyQueue[(keyF + i - 1) % KeyQueueLen]]

\* The guest receives the keys send_key accepts, each once, in their order,
\* around the ring's end; whatever is not read yet is in the ring.  NEMU aborts
\* for want of room only when the guest has left KEY_QUEUE_LEN events unread
\* (keyboard.c:55), never sooner.
KeysInFifoOrder ==
  IF where # "aborted" THEN accepted = received \o InQueue
  ELSE Len(accepted) = Len(received) + KeyQueueLen

\* What is typed in the window while the debugger waits for a command never
\* reaches the guest (sdb.c:241-244).
PromptKeysStayOut ==
  where = "polling" => \A i \in DOMAIN events : events[i].at # "prompt"

\* When the guest has drawn its last frame the window comes to show all of it,
\* unless the guest is stopped first: no update shows a part and then forgets
\* the request (vga.c:75).
LastFrameShown ==
  (frame > MaxFrames)
    ~> (screen = [p \in Pixel |-> MaxFrames] \/ where \notin {"guest", "polling"}
        \/ nemuState # "RUNNING")
=============================================================================
