------------------------------- MODULE Uart --------------------------------
(***************************************************************************)
(* The write-only UART slave, vsrc/uart.v.  Its one register sits at a     *)
(* word-aligned address and the crossbar routes only that exact address    *)
(* here, so wstrb[0] is always set and every accepted write prints.        *)
(***************************************************************************)
EXTENDS NpcArch

VARIABLES uartBusy, uartOut    \* uartOut: what $write has printed

uartVars == <<uartBusy, uartOut>>

UartType == uartBusy \in BOOLEAN /\ uartOut \in Seq(Word)

UartInit == uartBusy = FALSE /\ uartOut = <<>>

UartPrint(awvalid, data) ==
  /\ awvalid /\ ~uartBusy
  /\ uartBusy' = TRUE
  /\ uartOut' = Append(uartOut, data)

UartRespond(bready) ==
  /\ uartBusy /\ bready
  /\ uartBusy' = FALSE
  /\ UNCHANGED uartOut

UartHold(awvalid, bready) ==
  /\ ~(awvalid /\ ~uartBusy) /\ ~(uartBusy /\ bready)
  /\ UNCHANGED uartVars

UartTick(awvalid, data, bready) ==
  \/ UartPrint(awvalid, data)
  \/ UartRespond(bready)
  \/ UartHold(awvalid, bready)
=============================================================================
