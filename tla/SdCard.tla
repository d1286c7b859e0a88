------------------------------- MODULE SdCard -------------------------------
(***************************************************************************)
(* NEMU's SD card and host controller (src/device/sdcard.c): a register    *)
(* file whose SDCMD and SDDATA have effects, and an image file.  A word    *)
(* stands for four bytes, BlockWords for the 512 bytes of a block and of   *)
(* EXT_CSD.                                                                *)
(***************************************************************************)
EXTENDS Naturals, Sequences

CONSTANTS
  BlockWords,
  ImageWords,   \* size of the image, in words
  ExtCsd        \* what the card answers at each word of EXT_CSD

ASSUME CardAssumption ==
  BlockWords \in Nat \ {0} /\ ImageWords \in Nat /\ DOMAIN ExtCsd = 0 .. BlockWords - 1

VARIABLES
  card,         \* base[SDCMD, SDARG, SDRSP0, SDDATA] and the static variables
  image,
  quota         \* auxiliary: the words the card still expects to move

Handled == {0, 1, 2, 3, 5, 7, 8, 9, 12, 13, 18, 23, 25, 52, 55}
SendExtCsd == 8
StopTransmission == 12
SendStatus == 13
ReadSingle == 17
ReadMultiple == 18
SetBlockCount == 23
WriteSingle == 24
WriteMultiple == 25

CardInit ==
  /\ card = [arg |-> 0, rsp |-> "none", data |-> <<"zero", 0>>, blkcnt |-> 0, addr |-> 0, pos |-> 0,
             write |-> FALSE, extCsd |-> FALSE]
  /\ image = [w \in 0 .. ImageWords - 1 |-> <<"old", w>>]
  /\ quota = <<"words", 0>>

PreparedRw(c, isWrite) == [c EXCEPT !.pos = c.arg * BlockWords, !.addr = 0, !.write = isWrite]

\* sdcard_handle_cmd, for a command it knows.
Commanded(c, cmd) ==
  CASE cmd = SendExtCsd    -> [c EXCEPT !.extCsd = TRUE, !.addr = 0]
    [] cmd = SetBlockCount -> [c EXCEPT !.blkcnt = c.arg]
    [] cmd = ReadMultiple  -> PreparedRw(c, FALSE)
    [] cmd = WriteMultiple -> PreparedRw(c, TRUE)
    [] cmd = SendStatus    -> [c EXCEPT !.rsp = "ready"]
    [] OTHER -> c

\* What a card is in the middle of after a command; preset: CMD23 went before.
Expected(cmd, c, preset) ==
  CASE cmd \in {ReadMultiple, WriteMultiple} ->
         IF preset THEN <<"words", c.blkcnt * BlockWords>> ELSE <<"open">>
    [] cmd = StopTransmission -> <<"words", 0>>
    [] OTHER -> quota

\* (bug: EXT_CSD stays selected)
DataAccessedSticky(c) ==
  IF c.extCsd THEN [c EXCEPT !.data = ExtCsd[c.addr % BlockWords], !.addr = @ + 1]
  ELSE IF c.write THEN [c EXCEPT !.pos = @ + 1, !.addr = @ + 1]
  ELSE [c EXCEPT !.data = image[c.pos], !.pos = @ + 1, !.addr = @ + 1]
\* The handler's SDDATA case, on the registers: while EXT_CSD is selected it
\* comes first, whatever the direction.
DataAccessed(c) ==
  IF c.extCsd
  THEN [c EXCEPT !.data = IF c.addr < BlockWords THEN ExtCsd[c.addr] ELSE <<"zero", 0>>,
                 !.extCsd = (c.addr # BlockWords - 1), !.addr = @ + 1]
  ELSE IF c.write THEN [c EXCEPT !.pos = @ + 1, !.addr = @ + 1]
  ELSE [c EXCEPT !.data = image[c.pos], !.pos = @ + 1, !.addr = @ + 1]

\* ... and on the image.
ImageAccessed(c) ==
  IF c.extCsd \/ ~c.write THEN image ELSE [image EXCEPT ![c.pos] = c.data]
=============================================================================
