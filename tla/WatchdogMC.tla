----------------------------- MODULE WatchdogMC -----------------------------
(***************************************************************************)
(* Watchdog for TLC, with delays the timeout leaves room for.               *)
(***************************************************************************)
EXTENDS Watchdog

ASSUME RoomAssumption == RoomForDelays
=============================================================================
