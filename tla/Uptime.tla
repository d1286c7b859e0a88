------------------------------- MODULE Uptime -------------------------------
(***************************************************************************)
(* AM_TIMER_UPTIME on NEMU and on the NPC: a driver that reads a 64-bit    *)
(* counter as two words while it counts.  NEMU's device latches both words *)
(* when the high one is read (timer.c), and the driver reads the high one  *)
(* last; the NPC's clint does not latch at all.                            *)
(***************************************************************************)
EXTENDS Naturals

CONSTANTS
  Half,        \* 2^32
  MaxTime      \* bound: the last value of the counter

ASSUME UptimeAssumption == Half \in Nat \ {0} /\ MaxTime \in Nat

VARIABLES
  machine,     \* "nemu" or "npc"
  now,         \* get_time(), mtime
  latch,       \* rtc_port_base[0 .. 1]
  reading, lo, \* the driver is between its two reads; the first word
  uptime,      \* what the last call returned
  latched, at  \* auxiliary: when latch was filled; the time lo is from

clockVars == <<machine, now, latch, reading, lo, uptime, latched, at>>

ClockInit ==
  /\ machine \in {"nemu", "npc"}
  /\ now = 0 /\ latch = <<0, 0>> /\ reading = FALSE /\ lo = 0 /\ uptime = 0
  /\ latched = 0 /\ at = 0

Low(t) == t % Half
High(t) == t \div Half

CountUp ==
  /\ now < MaxTime /\ now' = now + 1
  /\ UNCHANGED <<machine, latch, reading, lo, uptime, latched, at>>

\* (bug: the high word is latched from the low bits)
RtcReadHighTwice ==
  IF machine = "nemu" THEN latch' = <<Low(now), Low(now)>> /\ latched' = now
                      ELSE UNCHANGED <<latch, latched>>
\* rtc_io_handler: the words are refreshed by a read of the second one only.
RtcReadHigh ==
  IF machine = "nemu" THEN latch' = <<Low(now), High(now)>> /\ latched' = now
                      ELSE UNCHANGED <<latch, latched>>

\* inl(RTC_ADDR)
ReadLow ==
  /\ ~reading /\ reading' = TRUE
  /\ IF machine = "nemu" THEN lo' = latch[1] /\ at' = latched
                         ELSE lo' = Low(now) /\ at' = now
  /\ UNCHANGED <<machine, now, latch, uptime, latched>>

\* inl(RTC_ADDR + 4), and the result.
ReadHigh ==
  /\ reading /\ reading' = FALSE
  /\ RtcReadHigh
  /\ uptime' = (IF machine = "nemu" THEN latch'[2] ELSE High(now)) * Half + lo
  /\ UNCHANGED <<machine, now, lo, at>>

ClockNext == CountUp \/ ReadLow \/ ReadHigh

-----------------------------------------------------------------------------
\* A call returns the time its low word is from, give or take nothing, unless
\* the low word overflowed in between (timer.c:24, npc timer.c:8); then it is
\* ahead of the clock by less than 2^32, and never behind that time.
UptimeOffByACarry ==
  [][ReadHigh => /\ at <= uptime' /\ uptime' < now + Half
                 /\ High(at) = High(now) => uptime' = at]_clockVars
=============================================================================
