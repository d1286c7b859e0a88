------------------------------- MODULE SdHost -------------------------------
(***************************************************************************)
(* The Linux driver of NEMU's SD card (resource/sdcard/nemu.c) on the card *)
(* of SdCard.  The driver polls: nemu_request does the whole request.  The *)
(* mmc core above it is external: it sends SD_SEND_IF_COND only before it  *)
(* has identified the card, and starts block requests only after it has    *)
(* read EXT_CSD; several blocks are one READ or WRITE_MULTIPLE_BLOCK with  *)
(* a CMD12 to stop it, one block a READ or WRITE_SINGLE_BLOCK.             *)
(***************************************************************************)
EXTENDS SdCard

CONSTANTS
  MaxBlocks,    \* bound: blocks of a request
  Tags,         \* what a write may write
  MaxRequests   \* bound: requests

VARIABLES
  hpc,          \* where nemu_request is
  mrq,          \* the request
  useSbc,
  moved, buf,   \* words moved by the PIO loops, and the ones read
  result,       \* how the last request ended: "none", "ok", "error"
  identified,   \* external: EXT_CSD has been read
  issued        \* requests so far

cardVars == <<card, image, quota>>
hostVars == <<hpc, mrq, useSbc, moved, buf, result, identified, issued>>
sdVars == <<cardVars, hostVars>>

NoRequest == [op |-> "none"]
Plain(op) == [op |-> op, sbc |-> FALSE, stop |-> FALSE, blocks |-> 0, start |-> 0,
              room |-> IF op = "csd" THEN BlockWords ELSE 0, tag |-> "none"]

\* room: the words the scatter list has a place for.
BlockRequests ==
  {r \in [op : {"read", "write"}, sbc : BOOLEAN, stop : BOOLEAN, blocks : 1 .. MaxBlocks,
          start : 0 .. ImageWords \div BlockWords - 1,
          room : 0 .. MaxBlocks * BlockWords, tag : Tags \cup {"none"}] :
     /\ (r.start + r.blocks) * BlockWords <= ImageWords
     /\ r.room \in {r.blocks * BlockWords, r.blocks * BlockWords - 1}
     /\ r.stop = (r.blocks > 1) /\ (r.sbc => r.stop)
     /\ (r.tag = "none") = (r.op = "read")}
SetupRequests == {Plain(op) : op \in {"csd", "status", "if_cond"}}
Requests == BlockRequests \cup SetupRequests

HasData(r) == r.op \in {"read", "write", "csd"}
Total(r) == IF r.op \in {"read", "write"} THEN r.blocks * BlockWords
            ELSE IF r.op = "csd" THEN BlockWords ELSE 0
Opcode(r) ==
  CASE r.op = "read"  -> IF r.blocks > 1 THEN ReadMultiple ELSE ReadSingle
    [] r.op = "write" -> IF r.blocks > 1 THEN WriteMultiple ELSE WriteSingle
    [] r.op \in {"csd", "if_cond"} -> SendExtCsd
    [] r.op = "status" -> SendStatus

SdInit ==
  /\ CardInit
  /\ hpc = "idle" /\ mrq = NoRequest /\ useSbc = FALSE
  /\ moved = 0 /\ buf = <<>> /\ result = "none" /\ identified = FALSE /\ issued = 0

\* The argument, then the command register, whose write runs the command.
SendCommand(cmd, arg) ==
  LET c == [card EXCEPT !.arg = arg] IN
  /\ card' = Commanded(c, cmd)
  /\ quota' = Expected(cmd, c, useSbc)
  /\ UNCHANGED image

-----------------------------------------------------------------------------
\* nemu_request up to the first command.
Request(r) ==
  /\ hpc = "idle" /\ issued < MaxRequests
  /\ r.op = "if_cond" => ~identified
  /\ r \in BlockRequests => identified
  /\ mrq' = r
  /\ useSbc' = (r.sbc /\ r.op = "read")
  /\ hpc' = IF useSbc' THEN "sbc" ELSE "cmd"
  /\ moved' = 0 /\ buf' = <<>> /\ result' = "none"
  /\ issued' = issued + 1
  /\ UNCHANGED <<cardVars, identified>>

SendSbc ==
  /\ hpc = "sbc" /\ hpc' = "cmd"
  /\ SendCommand(SetBlockCount, mrq.blocks)
  /\ UNCHANGED <<mrq, useSbc, moved, buf, result, identified, issued>>

\* nemu_send_command of the actual command; NEMU panics if it has none such.
SendCmd ==
  /\ hpc = "cmd"
  /\ IF Opcode(mrq) \in Handled
     THEN /\ SendCommand(Opcode(mrq), mrq.start)
          /\ hpc' = IF HasData(mrq) THEN "pio" ELSE "finish"
     ELSE hpc' = "panicked" /\ UNCHANGED cardVars
  /\ UNCHANGED <<mrq, useSbc, moved, buf, result, identified, issued>>

Moved(q) == IF q[1] = "words" THEN <<"words", q[2] - 1>> ELSE q

\* One word of nemu_transfer_block_pio: a store to SDDATA or a load from it.
PioWord ==
  /\ hpc = "pio" /\ moved < Total(mrq) /\ moved < mrq.room
  /\ moved' = moved + 1
  /\ LET c == IF mrq.op = "write" THEN [card EXCEPT !.data = <<mrq.tag, moved>>] ELSE card IN
     /\ card' = DataAccessed(c)
     /\ image' = ImageAccessed(c)
     /\ buf' = IF mrq.op = "write" THEN buf ELSE Append(buf, card'.data)
  /\ quota' = IF mrq.op = "csd" THEN quota ELSE Moved(quota)
  /\ UNCHANGED <<hpc, mrq, useSbc, result, identified, issued>>

DataError == moved < Total(mrq)

\* (bug: after an error the transfer is left open)
TransferCompleteNoStop ==
  /\ hpc = "pio" /\ (moved = Total(mrq) \/ moved = mrq.room)
  /\ hpc' = IF mrq.stop /\ ~useSbc THEN "stop" ELSE "finish"
  /\ UNCHANGED <<cardVars, mrq, useSbc, moved, buf, result, identified, issued>>
\* nemu_finish_data, nemu_finish_command and nemu_transfer_complete.
TransferComplete ==
  /\ hpc = "pio" /\ (moved = Total(mrq) \/ moved = mrq.room)
  /\ hpc' = IF mrq.stop /\ (DataError \/ ~useSbc) THEN "stop" ELSE "finish"
  /\ UNCHANGED <<cardVars, mrq, useSbc, moved, buf, result, identified, issued>>

\* (bug: the request is not finished after its stop command)
SendStopWaits ==
  /\ hpc = "stop" /\ hpc' = "waiting"
  /\ SendCommand(StopTransmission, 0)
  /\ UNCHANGED <<mrq, useSbc, moved, buf, result, identified, issued>>
SendStop ==
  /\ hpc = "stop" /\ hpc' = "finish"
  /\ SendCommand(StopTransmission, 0)
  /\ UNCHANGED <<mrq, useSbc, moved, buf, result, identified, issued>>

FinishRequest ==
  /\ hpc = "finish" /\ hpc' = "idle"
  /\ result' = IF DataError THEN "error" ELSE "ok"
  /\ identified' = (identified \/ mrq.op = "csd")
  /\ mrq' = NoRequest
  /\ UNCHANGED <<cardVars, useSbc, moved, buf, issued>>

Driver ==
  \/ SendSbc \/ SendCmd \/ PioWord \/ TransferComplete \/ SendStop \/ FinishRequest

SdNext == (\E r \in Requests : Request(r)) \/ Driver

-----------------------------------------------------------------------------
\* Between two requests the card is not in the middle of a transfer: one that
\* is open-ended, or that went wrong, has been closed by a CMD12
\* (nemu.c:260-263), and a counted one has moved all it was told to expect.
CardQuiescent == hpc = "idle" => quota = <<"words", 0>>

\* A request ends, whatever its scatter list holds; only a block on its own is
\* beyond the emulated card.
RequestsEnd ==
  (hpc # "idle") ~> (hpc = "idle" \/ (hpc = "panicked" /\ mrq.blocks = 1))

BlockDevice == INSTANCE SdBlockDevice WITH
  disk <- image, request <- mrq, buffer <- buf, status <- result

\* Driver and card are a block device: whatever was transferred before, and
\* however it ended, a request moves its own words (sdcard.c:94-118).
ImplementsBlockDevice == BlockDevice!Spec
=============================================================================
