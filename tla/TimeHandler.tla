----------------------------- MODULE TimeHandler -----------------------------
(***************************************************************************)
(* The clock, time_handler.c: epoch, the time at the last update, and       *)
(* epoch_tk, k_uptime_get_32() at that moment.  The modem's time is taken   *)
(* once at start-up, by main, before anything else uses the clock.  GPS     *)
(* sets it at every fix, on the driver's thread: the UART interrupt and     *)
(* main can read the clock between the two stores.                          *)
(*                                                                         *)
(* The unit is a tick; that seconds are rounded down is left out.  Now is   *)
(* what a right clock would show.                                           *)
(***************************************************************************)
EXTENDS Integers

CONSTANTS
  Wrap,     \* ticks after which k_uptime_get_32() starts again
  Boot,     \* ticks from 1970 to the start of the device
  Zone,     \* the most the modem's time may be ahead of UTC: the code
            \* ignores its time zone
  MaxLate   \* the most ticks from a fix to update_ts_gps

ASSUME ClockAssumption ==
  /\ Wrap \in Nat \ {0}
  /\ Zone \in Nat
  /\ Boot \in Nat
  /\ MaxLate \in Nat

VARIABLES
  uptime,    \* ticks since the start
  ticks,     \* k_uptime_get_32()
  epoch,     \* epoch
  epoch_tk,  \* epoch_tk
  fixTime,   \* the time of the last fix; the argument of update_ts_gps
  setPc,     \* where the driver's thread is: "idle", "fix" before the first
             \* store of update_ts_gps, "tick" between the two
  source,    \* history: where epoch comes from: "unasked", "none" if the modem
             \* had no time, "modem" or "gps"
  ahead,     \* history: how far the modem's time was ahead of UTC
  updated    \* history: uptime when epoch_tk was taken

timeVars == <<uptime, ticks, epoch, epoch_tk, fixTime, setPc, source, ahead,
              updated>>

ClockInit ==
  /\ uptime = 0
  /\ ticks = 0
  /\ epoch = 0
  /\ epoch_tk = 0
  /\ fixTime = 0
  /\ setPc = "idle"
  /\ source = "unasked"
  /\ ahead = 0
  /\ updated = 0

Now == Boot + uptime

(* Mutant of Elapsed: a difference that is not taken modulo Wrap.            *)
ElapsedSigned == ticks - epoch_tk

(* now - epoch_tk, unsigned.                                                 *)
Elapsed == IF ticks >= epoch_tk THEN ticks - epoch_tk ELSE ticks + Wrap - epoch_tk

(* get_ts                                                                    *)
GetTs == epoch + Elapsed

(* Mutant of Tick: the counter wraps a tick too late.                        *)
TickWrapsLate ==
  /\ setPc # "idle" => Now < fixTime + MaxLate
  /\ uptime' = uptime + 1
  /\ ticks' = IF ticks = Wrap THEN 0 ELSE ticks + 1
  /\ UNCHANGED <<epoch, epoch_tk, fixTime, setPc, source, ahead, updated>>

(* A fix is handled within MaxLate ticks.                                    *)
Tick ==
  /\ setPc # "idle" => Now < fixTime + MaxLate
  /\ uptime' = uptime + 1
  /\ ticks' = IF ticks + 1 = Wrap THEN 0 ELSE ticks + 1
  /\ UNCHANGED <<epoch, epoch_tk, fixTime, setPc, source, ahead, updated>>

ModemHasNoTime ==
  /\ source' = "none"
  /\ UNCHANGED <<epoch, epoch_tk, ahead, updated>>

(* The zone is behind a '+'.  Of one that is behind UTC, with a '-', strtok   *)
(* finds no token: atoi takes NULL, a fault before epoch is stored.          *)
ModemHasTime ==
  \E e \in 0 .. Zone :
    /\ epoch_tk' = ticks
    /\ updated' = uptime
    /\ epoch' = Now + e
    /\ ahead' = e
    /\ source' = "modem"

(* update_ts_modem *)
UpdateTsModem ==
  /\ ModemHasNoTime \/ ModemHasTime
  /\ UNCHANGED <<uptime, ticks, fixTime, setPc>>

(* The driver announces a fix, with its time.                                *)
TakeFix ==
  /\ setPc = "idle"
  /\ fixTime' = Now
  /\ setPc' = "fix"
  /\ UNCHANGED <<uptime, ticks, epoch, epoch_tk, source, ahead, updated>>

(* Mutant of StoreTick: epoch is stored first.                               *)
StoreEpochFirst ==
  /\ setPc = "fix"
  /\ epoch' = fixTime
  /\ setPc' = "tick"
  /\ UNCHANGED <<uptime, ticks, epoch_tk, fixTime, source, ahead, updated>>

(* update_ts_gps *)
StoreTick ==
  /\ setPc = "fix"
  /\ epoch_tk' = ticks
  /\ updated' = uptime
  /\ setPc' = "tick"
  /\ UNCHANGED <<uptime, ticks, epoch, fixTime, source, ahead>>

(* Mutant of StoreEpoch: the time of the fix is taken for local time.        *)
StoreLocalEpoch ==
  /\ setPc = "tick"
  /\ epoch' = fixTime - Zone
  /\ ahead' = 0
  /\ source' = "gps"
  /\ setPc' = "idle"
  /\ UNCHANGED <<uptime, ticks, epoch_tk, fixTime, updated>>

StoreEpoch ==
  /\ setPc = "tick"
  /\ epoch' = fixTime
  /\ ahead' = 0
  /\ source' = "gps"
  /\ setPc' = "idle"
  /\ UNCHANGED <<uptime, ticks, epoch_tk, fixTime, updated>>

SetByGps == StoreTick \/ StoreEpoch

(* Only the start-up asks the modem, and no fix comes before it has.         *)
ClockNext ==
  \/ Tick
  \/ source = "unasked" /\ UpdateTsModem
  \/ source # "unasked" /\ TakeFix
  \/ SetByGps

ClockSpec == ClockInit /\ [][ClockNext]_timeVars
-----------------------------------------------------------------------------
(* Every variable has its type.                                              *)
ClockTypeOK ==
  /\ uptime \in Nat /\ updated \in 0 .. uptime
  /\ ticks \in 0 .. Wrap - 1 /\ epoch_tk \in 0 .. Wrap - 1
  /\ epoch \in Nat /\ fixTime \in Nat
  /\ setPc \in {"idle", "fix", "tick"}
  /\ source \in {"unasked", "none", "modem", "gps"}
  /\ ahead \in Nat

(* get_ts never shows a time that has not come yet, except by what the       *)
(* modem's time was ahead: not between the two stores of update_ts_gps, nor  *)
(* when the uptime has wrapped.                                              *)
NeverInFuture == GetTs <= Now + ahead

(* Once a fix has set the clock it is right, late by no more than the fix    *)
(* was, until the uptime has wrapped since: the wrap itself, at any moment   *)
(* between two fixes, does no harm.                                          *)
RightAfterFix ==
  source = "gps" /\ setPc = "idle" /\ uptime - updated < Wrap
    => GetTs \in Now - MaxLate .. Now

(* get_ts falls back only between the stores of update_ts_gps, where it      *)
(* shows the time of the update before, when the uptime has wrapped since    *)
(* the last update, and when an update takes back what the modem's time was  *)
(* ahead.  Nobody reads the clock before the start-up has asked the modem.   *)
TimeFallsBack ==
  GetTs' < GetTs /\ source' # "unasked" =>
    \/ StoreTick
    \/ uptime' - updated >= Wrap
    \/ ahead # 0

FallsBackSeldom == [][TimeFallsBack]_timeVars
-----------------------------------------------------------------------------
(* The inductive invariant behind these properties.                          *)

(* What has passed since epoch_tk was taken, until the uptime wraps.         *)
ElapsedIsTrue ==
  /\ Elapsed <= uptime - updated
  /\ uptime - updated < Wrap => Elapsed = uptime - updated

(* epoch is no later than the moment epoch_tk was taken.                     *)
EpochIsPast == epoch <= Boot + updated + ahead

(* Before the modem is asked.                                                *)
StartsIn1970 ==
  source = "unasked" => epoch = 0 /\ updated = 0 /\ setPc = "idle"

(* A fix that is being handled, and the last one that set the clock.         *)
FixIsRecent ==
  /\ setPc = "fix" => fixTime >= Boot + updated
  /\ setPc = "tick" => /\ fixTime <= Boot + updated
                       /\ epoch <= fixTime + ahead
  /\ setPc # "idle" => fixTime \in Now - MaxLate .. Now
  /\ source = "gps" /\ setPc = "idle" =>
       epoch = fixTime /\ fixTime \in Boot + updated - MaxLate .. Boot + updated

ClockInv ==
  /\ ClockTypeOK
  /\ ElapsedIsTrue
  /\ EpochIsPast
  /\ StartsIn1970
  /\ FixIsRecent
=============================================================================
