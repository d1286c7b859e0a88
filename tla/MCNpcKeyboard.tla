--------------------------- MODULE MCNpcKeyboard ---------------------------
(***************************************************************************)
(* The machine of MCMiniRv with key events numbered 1..4.  Programs that   *)
(* read the keyboard in a loop, bare, with the UART address on the ALU     *)
(* between two reads or after a redraw, are added to those of MCMiniRv.    *)
(***************************************************************************)
EXTENDS NpcKeyboard, MCMiniRv

MCKeys == 0 .. 4
MCKeyImages == {Program(<<5, 7, 9>>), Program(<<5, 7, 3, 9>>), Program(<<5, 6, 9>>),
                Program(<<22, 5, 7, 9>>)}
MCSystemImages == MCLiveImages \cup MCKeyImages
=============================================================================
