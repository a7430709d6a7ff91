------------------------------ MODULE RsrpWork ------------------------------
(***************************************************************************)
(* The signal strength, main.c:262-316, beside GPS and posting.  The modem  *)
(* library's thread calls modem_rsrp_handler, which submits rsrp_work to    *)
(* the application queue that GPS's works share; the work prints the value, *)
(* unless the main loop is posting, and submits itself for the hold time.   *)
(* The library's thread has the GPS thread's priority.                      *)
(*                                                                         *)
(* Of rsrp.value and rsrp_prev only whether they differ is kept.  Values    *)
(* above 97, which the handler ignores, are left out.                       *)
(***************************************************************************)
EXTENDS GpsControl

VARIABLES
  news,     \* rsrp.value differs from rsrp_prev
  hold,     \* the timer of rsrp_work: "off", "new", or "due" when it has run
            \* for CONFIG_HOLD_TIME_RSRP, a minute
  atPc,     \* where the library's thread is in modem_rsrp_handler
  skipped,  \* history: the last run of the work met an active post
  printed   \* history of the last value printed: "held", "rested" once the
            \* hold time has passed, or "crossed" if a submission was under way

signal   == <<news, hold, atPc, skipped, printed>>
rsrpVars == <<mainPc, flag, firstFix, sinceActive, sinceUpdate, skew, queue,
              appPc, active, timer, stopped, sysPc, sem, gpsPc, failed,
              news, hold, atPc, skipped, printed>>

RsrpInit ==
  /\ Init
  /\ news = FALSE
  /\ hold = "off"
  /\ atPc = "idle"
  /\ skipped = FALSE
  /\ printed = "rested"
-----------------------------------------------------------------------------
(* modem_rsrp_handler.                                                       *)

StoreValue ==
  /\ atPc = "idle"
  /\ news' \in BOOLEAN
  /\ atPc' = "test"
  /\ UNCHANGED <<queue, hold>>

(* Mutants of TestRemaining: the work is submitted whatever remains, and not *)
(* while the main loop posts.                                                *)
TestNothing ==
  /\ atPc = "test"
  /\ atPc' = "submit"
  /\ UNCHANGED <<queue, news, hold>>

TestPosting ==
  /\ atPc = "test"
  /\ atPc' = IF hold = "off" /\ mainPc # "post" THEN "submit" ELSE "idle"
  /\ UNCHANGED <<queue, news, hold>>

(* k_delayed_work_remaining_get is zero unless the timer runs: also for a    *)
(* work that is queued.                                                      *)
TestRemaining ==
  /\ atPc = "test"
  /\ atPc' = IF hold = "off" THEN "submit" ELSE "idle"
  /\ UNCHANGED <<queue, news, hold>>

(* Mutant of SubmitNow: the callback starts the queue anew.                  *)
SubmitToNewQueue ==
  /\ atPc = "submit"
  /\ hold' = "off"
  /\ queue' = <<"rsrp">>
  /\ atPc' = "idle"
  /\ UNCHANGED news

(* k_delayed_work_submit_to_queue without delay; it cancels a timer that was *)
(* started since the test.                                                   *)
SubmitNow ==
  /\ atPc = "submit"
  /\ hold' = "off"
  /\ queue' = Submitted("rsrp")
  /\ atPc' = "idle"
  /\ UNCHANGED news

AtStep(A) ==
  /\ GpsMayRun
  /\ A
  /\ UNCHANGED <<mainPc, flag, firstFix, clock, appPc, driver, sysPc, gpsPc,
                 failed, skipped, printed>>
-----------------------------------------------------------------------------
(* The work and its timer.                                                   *)

(* http_post_active *)
Posting == mainPc = "post"

(* modem_rsrp_data_print prints a value that is new, and holds the next.     *)
PrintValue ==
  /\ ~Posting
  /\ news
  /\ news' = FALSE
  /\ hold' = "new"
  /\ printed' = IF atPc = "submit" THEN "crossed" ELSE "held"

PrintWork ==
  /\ appPc = "idle"
  /\ queue # <<>> /\ Head(queue) = "rsrp"
  /\ queue' = Tail(queue)
  /\ skipped' = Posting
  /\ \/ PrintValue
     \/ Posting /\ UNCHANGED <<news, hold, printed>>
     \/ ~news /\ UNCHANGED <<news, hold, printed>>
  /\ UNCHANGED <<mainPc, flag, firstFix, clock, appPc, driver, sysPc, gpsPc,
                 failed, atPc>>

HoldEnds ==
  /\ hold = "due"
  /\ hold' = "off"
  /\ queue' = Submitted("rsrp")
  /\ UNCHANGED <<mainPc, flag, firstFix, clock, appPc, driver, sysPc, gpsPc,
                 failed, news, atPc, skipped, printed>>

HoldMinute ==
  /\ Minute
  /\ atPc = "idle"
  /\ hold' = IF hold = "new" THEN "due" ELSE hold
  /\ printed' = "rested"
  /\ UNCHANGED <<news, atPc, skipped>>

Gps(A) == A /\ UNCHANGED signal

RsrpNext ==
  \/ Gps(AppStep)
  \/ Gps(SysStep)
  \/ Gps(GpsStep(Handling))
  \/ Gps(GpsStep(Fix))
  \/ Gps(MainStep)
  \/ AtStep(StoreValue)
  \/ AtStep(TestRemaining)
  \/ AtStep(SubmitNow)
  \/ PrintWork
  \/ HoldEnds
  \/ HoldMinute

RsrpSpec == RsrpInit /\ [][RsrpNext]_rsrpVars

(* As GpsControl's.  The library's thread goes on as the GPS thread does;    *)
(* whether the modem reports a signal strength is left open.                 *)
RsrpFairness ==
  /\ SF_rsrpVars(HoldMinute)
  /\ WF_rsrpVars(Gps(AppStep) \/ PrintWork)
  /\ SF_rsrpVars(Gps(StartDone)) /\ SF_rsrpVars(Gps(StopDone))
  /\ WF_rsrpVars(Gps(SysStep))
  /\ SF_rsrpVars(Gps(MainStep))
  /\ SF_rsrpVars(Gps(GpsStep(Handling)))
  /\ SF_rsrpVars(AtStep(TestRemaining \/ SubmitNow))

RsrpFairSpec == RsrpSpec /\ RsrpFairness
-----------------------------------------------------------------------------
(* Every variable has its type.                                              *)
RsrpTypeOK ==
  /\ TypeOK
  /\ news \in BOOLEAN /\ skipped \in BOOLEAN
  /\ hold \in {"off", "new", "due"}
  /\ atPc \in {"idle", "test", "submit"}
  /\ printed \in {"held", "rested", "crossed"}

(* A value that was not printed yet will be looked at again, by a work that  *)
(* is queued or whose timer runs, however the callback, the hold time and    *)
(* the works of GPS interleave; only a post that was active when the work    *)
(* ran leaves a value to the next callback.                                  *)
NewValueIsScheduled ==
  atPc = "idle" /\ news /\ ~skipped
    => hold # "off" \/ Has(queue, "rsrp")

(* Kconfig:145, "Minimum time [s] between RSRP subscription messages": kept  *)
(* between any two values, unless the one before was printed while the       *)
(* callback was between its test and its submission.                         *)
HoldTimeKept == [][PrintWork /\ PrintValue => printed # "held"]_rsrpVars

(* GPS does the same as without the signal strength: rsrp_work and the        *)
(* library's thread, which share its queue and its processor, neither take a *)
(* work of it nor let it do a step it would not do alone.                    *)
GpsQueue == Without(queue, "rsrp")

Alone == INSTANCE GpsControl WITH queue <- GpsQueue

GpsAsAlone == Alone!Spec
-----------------------------------------------------------------------------
(* The inductive invariant behind HoldTimeKept: between a value and the end of*)
(* its hold time nothing runs the work.                                      *)
HoldInv ==
  printed = "held" => hold = "new" /\ atPc # "submit" /\ ~Has(queue, "rsrp")
=============================================================================
