------------------------------ MODULE RuuviNode ------------------------------
(***************************************************************************)
(* The device: the start-up and the loop of main.c over the clock of        *)
(* TimeHandler, with its time stamps of GPS, and resets.                    *)
(*                                                                         *)
(* GPS is one search at a time, without the races of its threads that       *)
(* GpsControl has; a reset, by a fault or the watchdog, can come anywhere.  *)
(* Intervals are in ticks, as the clock is, and a step of main takes none.  *)
(***************************************************************************)
EXTENDS TimeHandler

CONSTANTS
  UpdateInt,    \* CONFIG_RUUVI_GPS_UPDATE_INT
  FailedRetry,  \* CONFIG_RUUVI_GPS_FAILED_RETRY
  MaxUptime     \* bound: time stops here

ASSUME NodeAssumption ==
  /\ UpdateInt \in Nat \ {0}
  /\ FailedRetry \in Nat \ {0}
  /\ MaxUptime \in Nat

VARIABLES
  phase,       \* where main is: "connect", "time", "gps", "uart", "online" and
               \* "start" at the start-up, then "loop" and "post"
  gpsReady,    \* gps_control_init has initialised the two works
  uartOn,      \* the UART's interrupt is enabled
  asked,       \* the start work is queued
  searching,   \* a GPS search is under way
  flag,        \* gps_is_active
  firstFix,    \* gps_first_fix
  lastActive,  \* gps_last_active_time
  lastUpdate,  \* gps_last_update_time
  activeAt     \* history: uptime when lastActive was taken

gps    == <<asked, searching, flag, firstFix>>
stamps == <<lastActive, lastUpdate, activeAt>>
nodeVars == <<uptime, ticks, epoch, epoch_tk, fixTime, setPc, source, ahead,
              updated, phase, gpsReady, uartOn, asked, searching, flag,
              firstFix, lastActive, lastUpdate, activeAt>>

NodeInit ==
  /\ ClockInit
  /\ phase = "connect"
  /\ gpsReady = FALSE
  /\ uartOn = FALSE
  /\ asked = FALSE
  /\ searching = FALSE
  /\ flag = FALSE
  /\ firstFix = FALSE
  /\ lastActive = 0
  /\ lastUpdate = 0
  /\ activeAt = 0
-----------------------------------------------------------------------------
(* Resets.                                                                   *)

(* sys_reboot from the fault handler, or the watchdog.                       *)
Reset ==
  /\ uptime' = 0 /\ ticks' = 0 /\ epoch' = 0 /\ epoch_tk' = 0
  /\ fixTime' = 0 /\ setPc' = "idle" /\ source' = "unasked"
  /\ ahead' = 0 /\ updated' = 0
  /\ phase' = "connect"
  /\ gpsReady' = FALSE /\ uartOn' = FALSE
  /\ asked' = FALSE /\ searching' = FALSE /\ flag' = FALSE
  /\ firstFix' = FALSE
  /\ lastActive' = 0 /\ lastUpdate' = 0 /\ activeAt' = 0

(* Mutant of NullHandler: the queue ignores a work without handler.          *)
NullHandlerIgnored ==
  /\ asked /\ ~gpsReady
  /\ asked' = FALSE
  /\ UNCHANGED <<timeVars, phase, gpsReady, uartOn, searching, flag, firstFix,
                 stamps>>

(* The start work runs although gps_control_init failed before the works     *)
(* were initialised: its handler is NULL.                                    *)
NullHandler ==
  /\ asked /\ ~gpsReady
  /\ Reset

(* update_ts_modem gets a time with a zone behind UTC, and faults.           *)
ZoneFault ==
  /\ phase = "time" /\ Zone > 0
  /\ Reset

Resets == NullHandler \/ ZoneFault \/ Reset
-----------------------------------------------------------------------------
(* The start-up.                                                             *)

(* Mutant of Connect: update_ts_modem is not called.                         *)
ConnectOnly ==
  /\ phase = "connect"
  /\ phase' = "gps"
  /\ UNCHANGED <<timeVars, gpsReady, uartOn, gps, stamps>>

(* modem_configure, tried until the network is there.                        *)
Connect ==
  /\ phase = "connect"
  /\ phase' = "time"
  /\ UNCHANGED <<timeVars, gpsReady, uartOn, gps, stamps>>

AskTime ==
  /\ phase = "time"
  /\ UpdateTsModem
  /\ phase' = "gps"
  /\ UNCHANGED <<gpsReady, uartOn, gps, stamps>>

(* gps_control_init.  If it fails sensors_init returns.                      *)
InitGps ==
  /\ phase = "gps"
  /\ \/ gpsReady' = TRUE /\ phase' = "uart"
     \/ gpsReady' = FALSE /\ phase' = "online"
  /\ UNCHANGED <<timeVars, uartOn, gps, stamps>>

(* uart_init finds the device or not.                                        *)
InitUart ==
  /\ phase = "uart"
  /\ uartOn' \in BOOLEAN
  /\ phase' = "online"
  /\ UNCHANGED <<timeVars, gpsReady, gps, stamps>>

OnlinePost ==
  /\ phase = "online"
  /\ phase' = "start"
  /\ UNCHANGED <<timeVars, gpsReady, uartOn, gps, stamps>>

FirstStart ==
  /\ phase = "start"
  /\ asked' = TRUE
  /\ phase' = "loop"
  /\ UNCHANGED <<timeVars, gpsReady, uartOn, searching, flag, firstFix, stamps>>

StartUp ==
  Connect \/ AskTime \/ InitGps \/ InitUart \/ OnlinePost \/ FirstStart
-----------------------------------------------------------------------------
(* The loop.                                                                 *)

(* Mutants of Due: one of the two intervals for both cases.                  *)
DueAfterUpdateInt ==
  GetTs - (IF firstFix THEN lastUpdate ELSE lastActive) >= UpdateInt

DueAfterRetry ==
  GetTs - (IF firstFix THEN lastUpdate ELSE lastActive) >= FailedRetry

Due ==
  IF firstFix THEN GetTs - lastUpdate >= UpdateInt
              ELSE GetTs - lastActive >= FailedRetry

RequestStart ==
  /\ phase = "loop" /\ ~flag
  /\ Due
  /\ asked' = TRUE
  /\ UNCHANGED <<timeVars, phase, gpsReady, uartOn, searching, flag, firstFix,
                 stamps>>

Post ==
  /\ phase = "loop" /\ ~flag
  /\ ~Due
  /\ phase' = "post"
  /\ UNCHANGED <<timeVars, gpsReady, uartOn, gps, stamps>>

PostDone ==
  /\ phase = "post"
  /\ phase' = "loop"
  /\ UNCHANGED <<timeVars, gpsReady, uartOn, gps, stamps>>

(* The application queue's thread comes before main.                         *)
MainStep ==
  /\ asked => gpsReady
  /\ StartUp \/ RequestStart \/ Post \/ PostDone
-----------------------------------------------------------------------------
(* GPS, as gps_handler sees it.                                              *)

(* gps_handler: gps_last_active_time.                                        *)
Stamp == lastActive' = GetTs /\ activeAt' = uptime

(* The driver refuses, or searches already.                                  *)
StartRefused ==
  /\ asked /\ gpsReady
  /\ asked' = FALSE
  /\ UNCHANGED <<timeVars, searching, flag, firstFix, stamps>>

SearchStarted ==
  /\ asked /\ gpsReady /\ ~searching
  /\ asked' = FALSE
  /\ searching' = TRUE
  /\ flag' = TRUE
  /\ Stamp
  /\ UNCHANGED <<timeVars, firstFix, lastUpdate>>

Pvt ==
  /\ searching /\ setPc = "idle"
  /\ Stamp
  /\ UNCHANGED <<timeVars, gps, lastUpdate>>

(* GPS_EVT_SEARCH_TIMEOUT, and the stop it submits.                          *)
SearchTimeout ==
  /\ searching /\ setPc = "idle"
  /\ searching' = FALSE
  /\ flag' = FALSE
  /\ Stamp
  /\ UNCHANGED <<timeVars, asked, firstFix, lastUpdate>>

(* GPS_EVT_PVT_FIX: the time stamps, then the clock, then the stop.          *)
FixStamp ==
  /\ searching
  /\ TakeFix
  /\ Stamp
  /\ lastUpdate' = GetTs
  /\ firstFix' = TRUE
  /\ UNCHANGED <<asked, searching, flag>>

FixTick ==
  /\ StoreTick
  /\ UNCHANGED <<gps, stamps>>

FixEpoch ==
  /\ StoreEpoch
  /\ flag' = FALSE
  /\ searching' = FALSE
  /\ UNCHANGED <<asked, firstFix, stamps>>

GpsStep ==
  /\ StartRefused \/ SearchStarted \/ Pvt \/ SearchTimeout \/ FixStamp
       \/ FixTick \/ FixEpoch
  /\ UNCHANGED <<phase, gpsReady, uartOn>>

TimePasses ==
  /\ uptime < MaxUptime
  /\ asked => gpsReady
  /\ Tick
  /\ UNCHANGED <<phase, gpsReady, uartOn, gps, stamps>>

NodeNext == MainStep \/ GpsStep \/ TimePasses \/ Resets

NodeSpec == NodeInit /\ [][NodeNext]_nodeVars

(* Main and the queue's thread get to run; that anything else happens is     *)
(* left open.                                                                *)
NodeFairSpec ==
  NodeSpec /\ WF_nodeVars(MainStep) /\ WF_nodeVars(NullHandler)
-----------------------------------------------------------------------------
(* Every variable has its type.                                              *)
NodeTypeOK ==
  /\ ClockTypeOK
  /\ phase \in {"connect", "time", "gps", "uart", "online", "start", "loop",
                "post"}
  /\ gpsReady \in BOOLEAN /\ uartOn \in BOOLEAN
  /\ asked \in BOOLEAN /\ searching \in BOOLEAN /\ flag \in BOOLEAN
  /\ firstFix \in BOOLEAN
  /\ lastActive \in Nat /\ lastUpdate \in Nat
  /\ activeAt \in 0 .. uptime

(* The last fix found the clock wrong by more than a fix may be late.        *)
Moved == lastUpdate \notin fixTime - MaxLate .. fixTime

Wrapped == uptime - updated >= Wrap

SinceFix == Boot + uptime - fixTime

(* main.c:464 and 469: the loop goes on posting only while the last search   *)
(* is younger than the interval, although its age is a difference of a clock *)
(* that fixes move and that is read at other moments than it was set.  Not   *)
(* so once the uptime has wrapped since the last update, nor after a fix     *)
(* that found the clock wrong.                                               *)
SearchesInTime ==
  [][Post => \/ Wrapped
             \/ firstFix /\ (Moved \/ uptime - activeAt < UpdateInt + MaxLate)
             \/ ~firstFix /\ uptime - activeAt < FailedRetry]_nodeVars

(* The other way round: no search is requested before its interval is over,  *)
(* but for the first, and after a fix that found the clock wrong.            *)
RequestsInTime ==
  [][RequestStart =>
       \/ firstFix /\ (Moved \/ SinceFix >= UpdateInt - MaxLate)
       \/ ~firstFix /\ (lastActive = 0 \/ uptime - activeAt >= FailedRetry)
    ]_nodeVars

(* The device uses its clock as TimeHandler supposes: main asks the modem     *)
(* once and before GPS can bring a fix, a fix comes only when the one before *)
(* has been handled, and only a reset starts the clock again.                *)
NodeClock == ClockInit /\ [][ClockNext \/ ClockInit']_timeVars

(* No report comes in before the modem was asked for the time and GPS is     *)
(* ready, at any start-up.                                                   *)
ReportsComeLast == uartOn => source # "unasked" /\ gpsReady

(* A device that cannot initialise GPS, and so never listens to the nRF52,   *)
(* does not stay like that: it starts again.                                 *)
DeafStartsAgain == phase = "online" /\ ~gpsReady ~> phase = "connect"
-----------------------------------------------------------------------------
(* The inductive invariant behind these properties.                          *)

Asking == phase \in {"connect", "time"}
Starting == phase \in {"connect", "time", "gps", "uart", "online", "start"}

(* What the start-up has done so far.                                        *)
StartUpInOrder ==
  /\ Asking <=> source = "unasked"
  /\ Starting => /\ ~asked /\ ~searching /\ ~firstFix
                  /\ lastActive = 0 /\ activeAt = 0
  /\ Asking \/ phase = "gps" => ~uartOn
  /\ phase = "uart" \/ uartOn => gpsReady

(* A fix is handled while its search is announced, and no earlier than the   *)
(* last time stamp.                                                          *)
SearchInv ==
  /\ flag = searching
  /\ setPc # "idle" => searching /\ firstFix
  /\ firstFix /\ setPc = "idle" => source = "gps"
  /\ firstFix => fixTime <= Boot + activeAt
  /\ source = "gps" => ahead = 0

(* Before the first fix the clock only runs on, and falls behind by the wrap:*)
(* the age of the last search is never overrated, nor underrated without it. *)
AgeInv ==
  ~firstFix /\ ~Asking =>
    /\ lastActive = 0 \/ GetTs - lastActive <= uptime - activeAt
    /\ Wrapped \/ GetTs - lastActive >= uptime - activeAt

NodeInv ==
  /\ NodeTypeOK
  /\ ClockInv
  /\ StartUpInOrder
  /\ SearchInv
  /\ AgeInv
=============================================================================
