----------------------------- MODULE GpsControl -----------------------------
(***************************************************************************)
(* GPS and posting: gps_controller.c, gps_handler and the loop of main.c,   *)
(* and of the GPS driver what they rely on.  Start and stop are works of    *)
(* the application queue; the driver announces the end of a search from the *)
(* system queue and a fix from its own thread.  Between searches the main   *)
(* loop posts.                                                             *)
(*                                                                         *)
(* Both queues are cooperative: a work gives way only where it waits for    *)
(* the modem.  The main thread runs when neither queue can, and the GPS     *)
(* thread when the main thread cannot either.  gps_is_enabled is read at    *)
(* the start-up only and left out.                                         *)
(***************************************************************************)
EXTENDS Naturals, Sequences

CONSTANTS
  UpdateInt,     \* CONFIG_RUUVI_GPS_UPDATE_INT, in minutes
  FailedRetry,   \* CONFIG_RUUVI_GPS_FAILED_RETRY, in minutes
  ModemFails,    \* whether the modem may refuse a start or a stop
  MaxAge         \* bound: minutes are counted up to here

ASSUME GpsAssumption ==
  /\ UpdateInt \in Nat \ {0}
  /\ FailedRetry \in Nat \ {0}
  /\ ModemFails \in BOOLEAN
  /\ MaxAge \in Nat /\ MaxAge >= UpdateInt /\ MaxAge >= FailedRetry

VARIABLES
  mainPc,       \* the main loop: "sleep", "decide" or "post"
  flag,         \* gps_is_active
  firstFix,     \* gps_first_fix
  sinceActive,  \* get_ts() - gps_last_active_time
  sinceUpdate,  \* get_ts() - gps_last_update_time
  skew,         \* minutes the clock is behind GPS time
  queue,        \* the works in the application queue
  appPc,        \* where its thread waits for the modem, or "idle"
  active,       \* the driver's is_active
  timer,        \* the driver's timeout_work: "off", "new", or "due" for a
                \* search that has gone on for minutes
  stopped,      \* the driver's stop_work is pending
  sysPc,        \* "timeout" while timeout_work waits for the modem
  sem,          \* the semaphore that lets the GPS thread run
  gpsPc,        \* where the GPS thread is
  failed        \* history: the last search ended without a fix

clock   == <<sinceActive, sinceUpdate, skew>>
driver  == <<active, timer, stopped, sem>>
vars == <<mainPc, flag, firstFix, sinceActive, sinceUpdate, skew, queue, appPc,
          active, timer, stopped, sysPc, sem, gpsPc, failed>>

(* main has called gps_control_start(0).  If the modem gave a time, the time *)
(* since 1970 has passed since the last activity; if none, the clock starts  *)
(* in 1970.  A clock that is ahead by a time zone is RuuviNode's.            *)
Init ==
  /\ mainPc = "sleep"
  /\ flag = FALSE
  /\ firstFix = FALSE
  /\ skew \in {0, MaxAge}
  /\ sinceActive = IF skew = 0 THEN MaxAge ELSE 0
  /\ sinceUpdate = 0
  /\ queue = <<"start">>
  /\ appPc = "idle"
  /\ active = FALSE
  /\ timer = "off"
  /\ stopped = FALSE
  /\ sysPc = "idle"
  /\ sem = 0
  /\ gpsPc = "wait"
  /\ failed = FALSE
-----------------------------------------------------------------------------
(* The works that the application queue runs, but for the watchdog's: these  *)
(* two and, in RsrpWork, the one that prints the signal strength.            *)
Work == {"start", "stop", "rsrp"}

(* Who may run.                                                              *)

AppReady == appPc = "idle" /\ queue # <<>>
SysReady == sysPc = "idle" /\ stopped

MainMayRun == ~AppReady /\ ~SysReady

GpsMayRun == MainMayRun /\ mainPc # "decide"

(* Mutant of Submitted: a work that is queued already is queued again.       *)
SubmittedAgain(w) == Append(queue, w)

(* The work w is in the queue q, and the queue when Zephyr has cancelled it.  *)
Has(q, w) == \E i \in DOMAIN q : q[i] = w

At(q, w) == CHOOSE i \in DOMAIN q : q[i] = w

Without(q, w) ==
  IF Has(q, w)
  THEN [i \in 1 .. Len(q) - 1 |-> IF i < At(q, w) THEN q[i] ELSE q[i + 1]]
  ELSE q

(* gps_control_start(0), gps_control_stop(0): a work that is queued already  *)
(* goes to the end.                                                          *)
Submitted(w) == Append(Without(queue, w), w)

Later(a, n) == IF a + n < MaxAge THEN a + n ELSE MaxAge
-----------------------------------------------------------------------------
(* The works of gps_controller.c.                                            *)

(* start: the PSM request waits for the modem.                               *)
Start ==
  /\ appPc = "idle"
  /\ queue # <<>> /\ Head(queue) = "start"
  /\ queue' = Tail(queue)
  /\ appPc' = "psm"
  /\ UNCHANGED <<mainPc, flag, firstFix, clock, driver, sysPc, gpsPc, failed>>

(* gps_start: an active driver returns -EALREADY, another asks the modem.    *)
GpsStart ==
  /\ appPc = "psm"
  /\ appPc' = IF active THEN "idle" ELSE "starting"
  /\ UNCHANGED <<mainPc, flag, firstFix, clock, queue, driver, sysPc, gpsPc,
                 failed>>

StartFails ==
  /\ ModemFails
  /\ appPc = "starting"
  /\ appPc' = "idle"
  /\ UNCHANGED <<mainPc, flag, firstFix, clock, queue, driver, sysPc, gpsPc,
                 failed>>

(* Mutant of StartDone: the configuration has no timeout.                    *)
StartDoneWithoutTimeout ==
  /\ appPc = "starting"
  /\ active' = TRUE
  /\ timer' = "off"
  /\ sem' = 1
  /\ flag' = TRUE
  /\ appPc' = "idle"
  /\ UNCHANGED <<mainPc, firstFix, clock, queue, stopped, sysPc, gpsPc, failed>>

(* The GPS thread may still receive, or handle a fix, from the search before.*)
StartDone ==
  /\ appPc = "starting"
  /\ active' = TRUE
  /\ timer' = "new"
  /\ sem' = 1
  /\ flag' = TRUE
  /\ appPc' = "idle"
  /\ UNCHANGED <<mainPc, firstFix, clock, queue, stopped, sysPc, gpsPc, failed>>

(* What stop does once gps_stop has succeeded.                               *)
StopFinished(q) ==
  /\ stopped' = TRUE
  /\ queue' = Without(q, "start")
  /\ flag' = FALSE
  /\ appPc' = "idle"

(* gps_stop cancels the timeout; a driver that is not active only announces  *)
(* the end.                                                                  *)
StopIdle ==
  /\ ~active
  /\ StopFinished(Tail(queue))
  /\ UNCHANGED active

StopActive ==
  /\ active
  /\ active' = FALSE
  /\ appPc' = "stopping"
  /\ queue' = Tail(queue)
  /\ UNCHANGED <<flag, stopped>>

(* Mutant of Stop: gps_stop is not called, as if every search were over.     *)
StopOnlyAnnounces ==
  /\ appPc = "idle"
  /\ queue # <<>> /\ Head(queue) = "stop"
  /\ StopFinished(Tail(queue))
  /\ UNCHANGED <<mainPc, firstFix, clock, active, timer, sysPc, sem, gpsPc,
                 failed>>

Stop ==
  /\ appPc = "idle"
  /\ queue # <<>> /\ Head(queue) = "stop"
  /\ timer' = "off"
  /\ StopIdle \/ StopActive
  /\ UNCHANGED <<mainPc, firstFix, clock, sysPc, sem, gpsPc, failed>>

StopDone ==
  /\ appPc = "stopping"
  /\ StopFinished(queue)
  /\ UNCHANGED <<mainPc, firstFix, clock, active, timer, sysPc, sem, gpsPc,
                 failed>>

StopFails ==
  /\ ModemFails
  /\ appPc = "stopping"
  /\ appPc' = "idle"
  /\ UNCHANGED <<mainPc, flag, firstFix, clock, queue, driver, sysPc, gpsPc,
                 failed>>

AppStep ==
  Start \/ GpsStart \/ StartFails \/ StartDone \/ Stop \/ StopDone \/ StopFails
-----------------------------------------------------------------------------
(* The driver's works in the system queue, with gps_handler.                 *)

SearchStopped ==
  /\ sysPc = "idle"
  /\ stopped
  /\ stopped' = FALSE
  /\ sinceActive' = 0
  /\ flag' = FALSE
  /\ UNCHANGED <<mainPc, firstFix, sinceUpdate, skew, queue, appPc, active,
                 timer, sysPc, sem, gpsPc, failed>>

(* timeout_work stops the search, and waits for the modem.                   *)
Timeout ==
  /\ sysPc = "idle"
  /\ timer = "due"
  /\ timer' = "off"
  /\ active' = FALSE
  /\ sysPc' = "timeout"
  /\ failed' = (gpsPc # "fix")
  /\ UNCHANGED <<mainPc, flag, firstFix, clock, queue, appPc, stopped, sem,
                 gpsPc>>

(* Mutant of SearchTimeout: gps_handler does nothing for the event.          *)
SearchTimeoutIgnored ==
  /\ sysPc = "timeout"
  /\ sysPc' = "idle"
  /\ sinceActive' = 0
  /\ UNCHANGED <<mainPc, flag, firstFix, sinceUpdate, skew, queue, appPc, driver,
                 gpsPc, failed>>

SearchTimeout ==
  /\ sysPc = "timeout"
  /\ sysPc' = "idle"
  /\ sinceActive' = 0
  /\ flag' = FALSE
  /\ queue' = Submitted("stop")
  /\ UNCHANGED <<mainPc, firstFix, sinceUpdate, skew, appPc, driver, gpsPc,
                 failed>>

SysStep == SearchStopped \/ Timeout \/ SearchTimeout
-----------------------------------------------------------------------------
(* The GPS thread, with gps_handler.  It can be preempted anywhere.          *)

TakeSem ==
  /\ gpsPc = "wait"
  /\ sem = 1
  /\ sem' = 0
  /\ gpsPc' = "started"
  /\ UNCHANGED <<flag, firstFix, clock, queue, active, timer, failed>>

SearchStarted ==
  /\ gpsPc = "started"
  /\ sinceActive' = 0
  /\ flag' = TRUE
  /\ gpsPc' = "recv"
  /\ UNCHANGED <<firstFix, sinceUpdate, skew, queue, active, timer, sem, failed>>

(* nrf_recv fails because the search is over.                                *)
RecvEnds ==
  /\ gpsPc = "recv"
  /\ ~active
  /\ gpsPc' = "wait"
  /\ UNCHANGED <<flag, firstFix, clock, queue, active, timer, sem, failed>>

(* Left out is a fix while start waits for the PSM request, the only wait of *)
(* the application queue with an active driver: a fix takes far longer.      *)
Fix ==
  /\ gpsPc = "recv"
  /\ appPc = "idle"
  /\ active
  /\ gpsPc' = "fix"
  /\ UNCHANGED <<flag, firstFix, clock, queue, active, timer, sem, failed>>

(* The driver cancels the timeout and stops the search.                      *)
FixStops ==
  /\ gpsPc = "fix"
  /\ timer' = "off"
  /\ active' = FALSE
  /\ gpsPc' = "stamp"
  /\ UNCHANGED <<flag, firstFix, clock, queue, sem, failed>>

FixStamp ==
  /\ gpsPc = "stamp"
  /\ sinceActive' = 0
  /\ sinceUpdate' = 0
  /\ firstFix' = TRUE
  /\ failed' = FALSE
  /\ gpsPc' = "clock"
  /\ UNCHANGED <<flag, skew, queue, active, timer, sem>>

(* gps_time_set moves the clock, after the time stamps were taken.           *)
FixClock ==
  /\ gpsPc = "clock"
  /\ sinceActive' = Later(sinceActive, skew)
  /\ sinceUpdate' = Later(sinceUpdate, skew)
  /\ skew' = 0
  /\ flag' = FALSE
  /\ gpsPc' = "stop"
  /\ UNCHANGED <<firstFix, queue, active, timer, sem, failed>>

FixStop ==
  /\ gpsPc = "stop"
  /\ queue' = Submitted("stop")
  /\ gpsPc' = "recv"
  /\ UNCHANGED <<flag, firstFix, clock, active, timer, sem, failed>>

Handling ==
  TakeSem \/ SearchStarted \/ RecvEnds \/ FixStops \/ FixStamp \/ FixClock
    \/ FixStop

GpsStep(A) ==
  /\ GpsMayRun
  /\ A
  /\ UNCHANGED <<mainPc, appPc, stopped, sysPc>>
-----------------------------------------------------------------------------
(* The main loop.                                                            *)

Due ==
  IF firstFix THEN sinceUpdate >= UpdateInt ELSE sinceActive >= FailedRetry

Look ==
  /\ mainPc = "sleep"
  /\ ~flag
  /\ mainPc' = "decide"
  /\ UNCHANGED queue

RequestStart ==
  /\ mainPc = "decide"
  /\ Due
  /\ queue' = Submitted("start")
  /\ mainPc' = "sleep"

Post ==
  /\ mainPc = "decide"
  /\ ~Due
  /\ mainPc' = "post"
  /\ UNCHANGED queue

PostDone ==
  /\ mainPc = "post"
  /\ mainPc' = "sleep"
  /\ UNCHANGED queue

MainStep ==
  /\ MainMayRun
  /\ Look \/ RequestStart \/ Post \/ PostDone
  /\ UNCHANGED <<flag, firstFix, clock, appPc, driver, sysPc, gpsPc, failed>>

(* Works, answers of the modem and the handling of an event take seconds,    *)
(* and a main loop that neither waits for GPS nor posts looks at once.  A    *)
(* semaphore that is given while the thread receives is left to the end of   *)
(* the search.                                                               *)
Settled ==
  /\ mainPc = "post" \/ (mainPc = "sleep" /\ flag)
  /\ queue = <<>> /\ appPc = "idle"
  /\ ~stopped /\ sysPc = "idle"
  /\ gpsPc = IF active THEN "recv" ELSE "wait"
  /\ sem = 1 => gpsPc = "recv"

(* A search announces GPS_EVT_PVT every second, unless LTE blocks it; each    *)
(* sets gps_last_active_time.                                                *)
Minute ==
  /\ Settled
  /\ timer' = IF timer = "new" THEN "due" ELSE timer
  /\ sinceActive' \in {Later(sinceActive, 1)} \cup (IF active THEN {0} ELSE {})
  /\ sinceUpdate' = Later(sinceUpdate, 1)
  /\ UNCHANGED <<mainPc, flag, firstFix, skew, queue, appPc, active, stopped,
                 sysPc, sem, gpsPc, failed>>

Next ==
  \/ AppStep
  \/ SysStep
  \/ GpsStep(Handling)
  \/ GpsStep(Fix)
  \/ MainStep
  \/ Minute

Spec == Init /\ [][Next]_vars

(* Time passes and the queues run their works.  The main thread and the GPS  *)
(* thread are preempted again and again, and run again and again.  The modem *)
(* starts and stops a search at least now and then when asked to; whether a  *)
(* search finds a fix is left open.                                          *)
Fairness ==
  /\ SF_vars(Minute)
  /\ WF_vars(AppStep) /\ SF_vars(StartDone) /\ SF_vars(StopDone)
  /\ WF_vars(SysStep)
  /\ SF_vars(MainStep)
  /\ SF_vars(GpsStep(Handling))

FairSpec == Spec /\ Fairness
-----------------------------------------------------------------------------
(* A work is in the queue once.                                              *)
IsQueue(q) ==
  /\ q \in Seq(Work)
  /\ \A i, j \in DOMAIN q : q[i] = q[j] => i = j

(* Every variable has its type.                                              *)
TypeOK ==
  /\ mainPc \in {"sleep", "decide", "post"}
  /\ flag \in BOOLEAN /\ firstFix \in BOOLEAN /\ failed \in BOOLEAN
  /\ sinceActive \in 0 .. MaxAge
  /\ sinceUpdate \in 0 .. MaxAge
  /\ skew \in {0, MaxAge}
  /\ IsQueue(queue)
  /\ appPc \in {"idle", "psm", "starting", "stopping"}
  /\ active \in BOOLEAN /\ timer \in {"off", "new", "due"} /\ stopped \in BOOLEAN
  /\ sysPc \in {"idle", "timeout"}
  /\ sem \in {0, 1}
  /\ gpsPc \in {"wait", "started", "recv", "fix", "stamp", "clock", "stop"}

(* A search that is under way is known to the main loop, which would post    *)
(* through it otherwise: no start, stop, time-out, fix or event of a search  *)
(* before, in whatever order they come, leaves gps_is_active clear.          *)
SearchIsAnnounced == Settled /\ active => flag

(* Every search ends, by a fix, a stop or its time-out.                      *)
SearchEnds == active ~> ~active

(* GPS does not keep the main loop from posting for ever, as long as fixes   *)
(* come, and before the first one, however often starts and stops fail.      *)
KeepsPosting ==
  []<>(gpsPc = "stamp") \/ [](~firstFix) => []<>(mainPc = "post")

(* main.c:189, "GPS will be attempted again in %d minutes", and Kconfig:196: *)
(* the minutes are waited before a search that failed is tried again.        *)
RetryWaits == [][RequestStart /\ failed => sinceActive >= FailedRetry]_vars

(* main.c:203, "GPS will be started in %d seconds", logged before the search *)
(* with a fix is stopped: GPS is started again.                              *)
StartsAgain == firstFix ~> active
-----------------------------------------------------------------------------
(* The inductive invariant behind SearchIsAnnounced.                         *)

(* The search is going to be announced, or to be stopped.                    *)
Announcing ==
  \/ Has(queue, "stop") \/ sysPc = "timeout"
  \/ gpsPc \in {"started", "stamp", "clock", "stop"}
  \/ sem = 1 /\ gpsPc = "wait"

(* A stop stands behind every start in the queue.                            *)
StopsLast(q) ==
  \A i \in DOMAIN q : q[i] = "start" => \E j \in DOMAIN q : i < j /\ q[j] = "stop"

(* gps_is_active, or whatever is going to clear it, is behind the search only *)
(* while that is so; the start that comes too early for the event of the last*)
(* search is to be stopped.                                                  *)
AnnounceInv ==
  /\ active /\ (~flag \/ stopped) => Announcing
  /\ appPc = "stopping" => ~active
  /\ SysReady => /\ StopsLast(queue)
                 /\ appPc \in {"psm", "starting"} => Has(queue, "stop")
=============================================================================
