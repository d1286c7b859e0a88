---------------------------- MODULE NemuDevices ----------------------------
(***************************************************************************)
(* NEMU with its devices.  They share no state -- each has its own map and *)
(* its own handler (device/io/map.c) -- so one of them is built in at a    *)
(* time, as menuconfig allows.                                             *)
(***************************************************************************)
EXTENDS Uptime, NemuInput, SdHost

CONSTANT Devices     \* what may be built in: subset of {"timer", "window", "sdcard"}

VARIABLE built       \* CONFIG_HAS_TIMER, _KEYBOARD and _VGA, _SDCARD

deviceVars == <<built, clockVars, inputVars, sdVars>>

Init ==
  /\ built \in Devices /\ ClockInit /\ InputInit /\ SdInit
  /\ machine = "npc" => built = "timer"

Next ==
  \/ built = "timer" /\ ClockNext /\ UNCHANGED <<built, inputVars, sdVars>>
  \/ built = "window" /\ InputNext /\ UNCHANGED <<built, clockVars, sdVars>>
  \/ built = "sdcard" /\ SdNext /\ UNCHANGED <<built, clockVars, inputVars>>

Spec == Init /\ [][Next]_deviceVars

\* device_update is called after every instruction, and time passes; the driver
\* is straight-line code under a mutex.
FairSpec ==
  /\ Spec
  /\ WF_deviceVars(built = "window" /\ StartUpdate /\ UNCHANGED <<built, clockVars, sdVars>>)
  /\ WF_deviceVars(built = "window" /\ PollEvent /\ UNCHANGED <<built, clockVars, sdVars>>)
  /\ WF_deviceVars(built = "window" /\ PollingDone /\ UNCHANGED <<built, clockVars, sdVars>>)
  /\ WF_deviceVars(built = "sdcard" /\ Driver /\ UNCHANGED <<built, clockVars, inputVars>>)
=============================================================================
