------------------------------ MODULE Watchdog ------------------------------
(***************************************************************************)
(* The feeding of the hardware watchdog, watchdog.c.  Feeding is a chain    *)
(* through both work queues: a delayed work of the system work queue        *)
(* submits a work to the application work queue, and that one feeds the     *)
(* watchdog and submits the delayed work again.  A queue that hangs, or a   *)
(* feed that fails, breaks the chain and the hardware resets the SoC.       *)
(*                                                                         *)
(* Time advances in Tick.  A pending work waits at most Delay of its queue  *)
(* for the work ahead of it, unless the queue hangs.                        *)
(***************************************************************************)
EXTENDS Naturals, FiniteSets

CONSTANTS
  Timeout,    \* CONFIG_RUUVI_WATCHDOG_TIMEOUT_MSEC, in ticks
  SysDelay,   \* the longest a work waits in the system work queue
  AppDelay    \* the longest a work waits in the application work queue

ASSUME WatchdogAssumption ==
  /\ Timeout \in Nat /\ Timeout >= 2
  /\ SysDelay \in Nat
  /\ AppDelay \in Nat

(* Mutant of FeedDelay: feed just before the timeout.                        *)
FeedDelayLate == Timeout - 1

(* WDT_FEED_WORKER_DELAY_MS *)
FeedDelay == Timeout \div 2

Queue == {"sys", "app"}

Delay == [q \in Queue |-> IF q = "sys" THEN SysDelay ELSE AppDelay]

VARIABLES
  hw,        \* the hardware watchdog: "boot" until main starts it, then "on",
             \* or "off" for good if that failed
  left,      \* ticks until it resets the SoC
  pending,   \* "timer": the delayed work counts down; "sys", "app": the work
             \* is in that queue
  age,       \* ticks since each of them became pending
  hung,      \* the queues whose thread no longer runs works
  broken     \* a feed or a submission has failed since the boot

vars == <<hw, left, pending, age, hung, broken>>

Init ==
  /\ hw = "boot"
  /\ left = 0
  /\ pending = {}
  /\ age = [s \in {"timer", "sys", "app"} |-> 0]
  /\ hung = {}
  /\ broken = FALSE

(* A work that is pending already keeps its place.                           *)
Submit(s, from) ==
  /\ pending' = (pending \ from) \cup {s}
  /\ age' = IF s \in pending THEN age ELSE [age EXCEPT ![s] = 0]

(* watchdog_init_and_start.  Each call it makes can fail; main ignores it.   *)
InitFails ==
  /\ hw' = "off"
  /\ UNCHANGED <<left, pending, age, broken>>

FeedEnableFails ==
  /\ hw' = "on"
  /\ left' = Timeout
  /\ broken' = TRUE
  /\ UNCHANGED <<pending, age>>

FeedEnabled ==
  /\ hw' = "on"
  /\ left' = Timeout
  /\ Submit("timer", {})
  /\ UNCHANGED broken

InitAndStart ==
  /\ hw = "boot"
  /\ InitFails \/ FeedEnableFails \/ FeedEnabled
  /\ UNCHANGED hung

(* Mutants of PrimaryFeedWorker: one that submits without its own work being *)
(* over, and one that feeds by itself, past the application queue.           *)
PrimarySubmitsTwice ==
  /\ "sys" \in pending \ hung
  /\ Submit("app", {})
  /\ UNCHANGED <<hw, left, hung, broken>>

PrimaryFeeds ==
  /\ "sys" \in pending \ hung
  /\ left > 0
  /\ left' = Timeout
  /\ Submit("timer", {"sys"})
  /\ UNCHANGED <<hw, hung, broken>>

PrimaryFeedWorker ==
  /\ "sys" \in pending \ hung
  /\ Submit("app", {"sys"})
  /\ UNCHANGED <<hw, left, hung, broken>>

(* Mutant of Fed: feeding adds a timeout to what is left.                    *)
FedAdds ==
  /\ left' = left + Timeout
  /\ pending' = (pending \ {"app"}) \cup {"timer"}
  /\ age' = [age EXCEPT !["timer"] = 0]
  /\ UNCHANGED broken

(* k_delayed_work_submit restarts the countdown even if it is under way.     *)
Fed ==
  /\ left' = Timeout
  /\ pending' = (pending \ {"app"}) \cup {"timer"}
  /\ age' = [age EXCEPT !["timer"] = 0]
  /\ UNCHANGED broken

FeedFails ==
  /\ pending' = pending \ {"app"}
  /\ broken' = TRUE
  /\ UNCHANGED <<left, age>>

SecondaryFeedWorker ==
  /\ "app" \in pending \ hung
  /\ left > 0
  /\ Fed \/ FeedFails
  /\ UNCHANGED <<hw, hung>>

(* A tick passes when no queue is due to run a work.                         *)
QueuesInTime == \A q \in (pending \cap Queue) \ hung : age[q] < Delay[q]

Elapse ==
  IF "timer" \in pending /\ age["timer"] + 1 >= FeedDelay
  THEN /\ pending' = (pending \ {"timer"}) \cup {"sys"}
       /\ age' = [s \in DOMAIN age |->
                    IF s = "sys" /\ "sys" \notin pending THEN 0
                    ELSE IF s \in pending THEN age[s] + 1 ELSE age[s]]
  ELSE /\ age' = [s \in DOMAIN age |->
                    IF s \in pending THEN age[s] + 1 ELSE age[s]]
       /\ UNCHANGED pending

Tick ==
  /\ hw = "on"
  /\ left > 0
  /\ QueuesInTime
  /\ left' = left - 1
  /\ Elapse
  /\ UNCHANGED <<hw, hung, broken>>

(* A work that never returns, or a thread that is pended for good.           *)
Hang(q) ==
  /\ q \notin hung
  /\ hung' = hung \cup {q}
  /\ UNCHANGED <<hw, left, pending, age, broken>>

(* WDT_FLAG_RESET_SOC: the firmware boots again.                             *)
ResetSoc ==
  /\ hw = "on"
  /\ left = 0
  /\ hw' = "boot"
  /\ pending' = {}
  /\ age' = [s \in DOMAIN age |-> 0]
  /\ hung' = {}
  /\ broken' = FALSE
  /\ UNCHANGED left

Next ==
  \/ InitAndStart
  \/ PrimaryFeedWorker
  \/ SecondaryFeedWorker
  \/ Tick
  \/ \E q \in Queue : Hang(q)
  \/ ResetSoc

Spec == Init /\ [][Next]_vars

(* Time passes, a queue that does not hang runs its works, and the hardware  *)
(* resets.                                                                   *)
Fairness ==
  /\ WF_vars(Tick)
  /\ WF_vars(PrimaryFeedWorker)
  /\ WF_vars(SecondaryFeedWorker)
  /\ WF_vars(ResetSoc)

FairSpec == Spec /\ Fairness
-----------------------------------------------------------------------------
(* Every variable has its type.                                              *)
TypeOK ==
  /\ hw \in {"boot", "off", "on"}
  /\ left \in 0 .. Timeout
  /\ pending \subseteq {"timer", "sys", "app"}
  /\ age \in [{"timer", "sys", "app"} -> Nat]
  /\ hung \subseteq Queue
  /\ broken \in BOOLEAN

Healthy == hung = {} /\ ~broken

(* The works watchdog.c submits form one chain: while it is not broken,      *)
(* exactly one of the delayed work and the two queued works is under way.    *)
OneChain == hw = "on" /\ ~broken => Cardinality(pending) = 1

(* What the timeout must leave room for: a trip through both queues.         *)
RoomForDelays == (Timeout \div 2) + SysDelay + AppDelay < Timeout

(* The watchdog expires only after a queue hung or a feed failed: waiting in *)
(* both queues never adds up to a reset of a healthy device.                 *)
ExpiresOnlyOnFault == hw = "on" /\ left = 0 => ~Healthy

(* The chain will not come to its feed again: a feed failed, or the queue it  *)
(* has yet to pass hangs.                                                    *)
ChainIsCut ==
  \/ broken
  \/ "app" \in hung
  \/ "sys" \in hung /\ "app" \notin pending

(* What FaultResets rests on: after a fault, with the works that are under   *)
(* way still going on, nothing sets the count of the hardware back before    *)
(* the reset.                                                                *)
FaultIsFinal ==
  [][hw = "on" /\ ChainIsCut /\ hw' = "on" => ChainIsCut' /\ left' <= left]_vars

(* The purpose of watchdog.c: when a queue hangs or feeding fails, the       *)
(* device is reset.                                                          *)
FaultResets == hw = "on" /\ ~Healthy ~> hw = "boot"
-----------------------------------------------------------------------------
(* The inductive invariant: where the chain is, and how much of the timeout  *)
(* is left there on a healthy device.                                        *)
ChainInv ==
  /\ hw = "on" /\ broken => pending = {}
  /\ hw = "on" /\ ~broken => pending \in {{"timer"}, {"sys"}, {"app"}}

NotStarted == hw # "on" => pending = {} /\ ~broken

TimeLeft ==
  hw = "on" /\ Healthy =>
    /\ pending = {"timer"} => /\ age["timer"] < FeedDelay
                             /\ left = Timeout - age["timer"]
    /\ pending = {"sys"} => /\ age["sys"] <= SysDelay
                           /\ left + FeedDelay + age["sys"] >= Timeout
    /\ pending = {"app"} => /\ age["app"] <= AppDelay
                           /\ left + FeedDelay + SysDelay + age["app"] >= Timeout

IInv == TypeOK /\ ChainInv /\ NotStarted /\ TimeLeft
=============================================================================
