--------------------------- MODULE WatchdogProofs ---------------------------
(***************************************************************************)
(* Watchdog proved for every timeout and every delay of the work queues.    *)
(***************************************************************************)
EXTENDS Watchdog, FiniteSetTheorems, TLAPS

LEMMA FeedDelayType == FeedDelay \in Nat /\ FeedDelay >= 1 /\ FeedDelay < Timeout
BY WatchdogAssumption DEF FeedDelay

LEMMA InitInv == Init => IInv
<1> SUFFICES ASSUME Init
             PROVE  IInv
  OBVIOUS
<1>1. TypeOK
  <2>1. left \in 0 .. Timeout
    BY WatchdogAssumption DEF Init
  <2>2. age \in [{"timer", "sys", "app"} -> Nat]
    BY DEF Init
  <2>3. hw \in {"boot", "off", "on"} /\ pending = {} /\ hung = {}
    BY DEF Init
  <2>4. broken \in BOOLEAN
    BY DEF Init
  <2> QED
    BY <2>1, <2>2, <2>3, <2>4 DEF TypeOK
<1>2. ChainInv /\ NotStarted /\ TimeLeft
  BY DEF Init, ChainInv, NotStarted, TimeLeft
<1> QED
  BY <1>1, <1>2 DEF IInv

LEMMA NextType == TypeOK /\ [Next]_vars => TypeOK'
<1> SUFFICES ASSUME TypeOK, [Next]_vars
             PROVE  TypeOK'
  OBVIOUS
<1> USE WatchdogAssumption
<1>1. CASE InitAndStart
  <2>1. hw' \in {"boot", "off", "on"} /\ left' \in 0 .. Timeout
    BY <1>1 DEF TypeOK, InitAndStart, InitFails, FeedEnableFails, FeedEnabled
  <2>2. pending' \subseteq {"timer", "sys", "app"}
    BY <1>1 DEF TypeOK, InitAndStart, InitFails, FeedEnableFails, FeedEnabled,
                Submit
  <2>4. age' \in [{"timer", "sys", "app"} -> Nat]
    BY <1>1 DEF TypeOK, InitAndStart, InitFails, FeedEnableFails, FeedEnabled,
                Submit
  <2>3. hung' \subseteq Queue /\ broken' \in BOOLEAN
    BY <1>1 DEF TypeOK, InitAndStart, InitFails, FeedEnableFails, FeedEnabled
  <2> QED
    BY <2>1, <2>2, <2>3, <2>4 DEF TypeOK
<1>2. CASE PrimaryFeedWorker
  BY <1>2 DEF TypeOK, PrimaryFeedWorker, Submit
<1>3. CASE SecondaryFeedWorker
  <2>1. UNCHANGED <<hw, hung>> /\ left' \in 0 .. Timeout
    BY <1>3 DEF TypeOK, SecondaryFeedWorker, Fed, FeedFails
  <2>2. pending' \subseteq {"timer", "sys", "app"}
    BY <1>3 DEF TypeOK, SecondaryFeedWorker, Fed, FeedFails
  <2>4. age' \in [{"timer", "sys", "app"} -> Nat]
    BY <1>3 DEF TypeOK, SecondaryFeedWorker, Fed, FeedFails
  <2>3. broken' \in BOOLEAN
    <3>1. CASE Fed
      BY <3>1 DEF TypeOK, Fed
    <3>2. CASE FeedFails
      BY <3>2 DEF FeedFails
    <3> QED
      BY <1>3, <3>1, <3>2 DEF SecondaryFeedWorker
  <2> QED
    BY <2>1, <2>2, <2>3, <2>4 DEF TypeOK
<1>4. CASE Tick
  <2>1. left' \in 0 .. Timeout
    BY <1>4 DEF TypeOK, Tick
  <2>2. pending' \subseteq {"timer", "sys", "app"}
    BY <1>4 DEF TypeOK, Tick, Elapse
  <2>3. age' \in [{"timer", "sys", "app"} -> Nat]
    BY <1>4 DEF TypeOK, Tick, Elapse
  <2> QED
    BY <1>4, <2>1, <2>2, <2>3 DEF TypeOK, Tick
<1>5. ASSUME NEW q \in Queue, Hang(q)
      PROVE  TypeOK'
  BY <1>5 DEF TypeOK, Hang
<1>6. CASE ResetSoc
  BY <1>6 DEF TypeOK, ResetSoc
<1>7. CASE UNCHANGED vars
  BY <1>7 DEF TypeOK, vars
<1> QED
  BY <1>1, <1>2, <1>3, <1>4, <1>5, <1>6, <1>7 DEF Next

LEMMA NextInv == IInv /\ [Next]_vars => IInv'
<1> SUFFICES ASSUME IInv, [Next]_vars
             PROVE  ChainInv' /\ NotStarted' /\ TimeLeft'
  BY NextType DEF IInv
<1> USE WatchdogAssumption, FeedDelayType
<1>0. TypeOK /\ ChainInv /\ NotStarted /\ TimeLeft
  BY DEF IInv
<1>1. CASE InitAndStart
  <2>1. pending = {} /\ hw = "boot" /\ ~broken
    BY <1>0, <1>1 DEF NotStarted, InitAndStart
  <2>2. CASE InitFails
    BY <2>1, <2>2 DEF InitFails, ChainInv, NotStarted, TimeLeft
  <2>3. CASE FeedEnableFails
    BY <2>1, <2>3 DEF FeedEnableFails, ChainInv, NotStarted, TimeLeft, Healthy
  <2>4. CASE FeedEnabled
    <3>1. /\ hw' = "on"
          /\ left' = Timeout
          /\ pending' = {"timer"}
          /\ age'["timer"] = 0
          /\ ~broken'
      BY <1>0, <2>1, <2>4 DEF FeedEnabled, Submit, TypeOK
    <3> QED
      BY <3>1 DEF ChainInv, NotStarted, TimeLeft
  <2> QED
    BY <1>1, <2>2, <2>3, <2>4 DEF InitAndStart
<1>2. CASE PrimaryFeedWorker
  <2>1. /\ UNCHANGED <<hw, left, hung, broken>>
        /\ "sys" \in pending
        /\ hw = "on"
    BY <1>0, <1>2 DEF PrimaryFeedWorker, NotStarted
  <2>2. CASE broken
    BY <1>0, <2>1, <2>2 DEF ChainInv
  <2>3. CASE ~broken
    <3>1. pending = {"sys"}
      BY <1>0, <2>1, <2>3 DEF ChainInv
    <3>2. pending' = {"app"} /\ age'["app"] = 0
      BY <1>0, <1>2, <3>1 DEF PrimaryFeedWorker, Submit, TypeOK
    <3>3. Healthy => age["sys"] <= SysDelay /\ left + FeedDelay + age["sys"] >= Timeout
      BY <1>0, <2>1, <3>1 DEF TimeLeft
    <3>4. Healthy' => left' + FeedDelay + SysDelay + age'["app"] >= Timeout
      BY <1>0, <2>1, <3>2, <3>3 DEF Healthy, TypeOK
    <3> QED
      BY <2>1, <2>3, <3>2, <3>4 DEF ChainInv, NotStarted, TimeLeft
  <2> QED
    BY <2>2, <2>3
<1>3. CASE SecondaryFeedWorker
  <2>1. UNCHANGED <<hw, hung>> /\ "app" \in pending /\ hw = "on"
    BY <1>0, <1>3 DEF SecondaryFeedWorker, NotStarted
  <2>2. CASE Fed
    <3>1. /\ ~broken'
          /\ left' = Timeout
          /\ age'["timer"] = 0
          /\ pending' = {"timer"}
      BY <1>0, <2>1, <2>2 DEF Fed, ChainInv, TypeOK
    <3> QED
      BY <2>1, <3>1 DEF ChainInv, NotStarted, TimeLeft, Healthy
  <2>3. CASE FeedFails
    <3>1. pending' = {} /\ broken'
      BY <1>0, <2>1, <2>3 DEF FeedFails, ChainInv
    <3> QED
      BY <2>1, <3>1 DEF ChainInv, NotStarted, TimeLeft, Healthy
  <2> QED
    BY <1>3, <2>2, <2>3 DEF SecondaryFeedWorker
<1>4. CASE Tick
  <2>1. UNCHANGED <<hw, hung, broken>> /\ hw = "on" /\ left' = left - 1 /\ left > 0
    BY <1>4 DEF Tick
  <2>2. CASE broken
    <3>1. pending' = {}
      BY <1>0, <1>4, <2>1, <2>2 DEF Tick, Elapse, ChainInv
    <3> QED
      BY <2>1, <2>2, <3>1 DEF ChainInv, NotStarted, TimeLeft, Healthy
  <2>3. CASE ~broken /\ pending = {"timer"} /\ age["timer"] + 1 >= FeedDelay
    <3>1. pending' = {"sys"} /\ age'["sys"] = 0
      BY <1>0, <1>4, <2>3 DEF Tick, Elapse, TypeOK
    <3>2. Healthy => left = Timeout - age["timer"] /\ age["timer"] < FeedDelay
      BY <1>0, <2>1, <2>3 DEF TimeLeft
    <3>3. Healthy' => left' + FeedDelay + age'["sys"] >= Timeout
      BY <1>0, <2>1, <3>1, <3>2 DEF Healthy, TypeOK
    <3> QED
      BY <2>1, <2>3, <3>1, <3>3 DEF ChainInv, NotStarted, TimeLeft
  <2>4. CASE ~broken /\ pending = {"timer"} /\ ~(age["timer"] + 1 >= FeedDelay)
    <3>1. pending' = {"timer"} /\ age'["timer"] = age["timer"] + 1
      BY <1>0, <1>4, <2>4 DEF Tick, Elapse, TypeOK
    <3>2. Healthy => left = Timeout - age["timer"]
      BY <1>0, <2>1, <2>4 DEF TimeLeft
    <3>3. Healthy' => age'["timer"] < FeedDelay /\ left' = Timeout - age'["timer"]
      BY <1>0, <2>1, <2>4, <3>1, <3>2 DEF Healthy, TypeOK
    <3> QED
      BY <2>1, <2>4, <3>1, <3>3 DEF ChainInv, NotStarted, TimeLeft
  <2>5. ASSUME NEW q \in Queue, ~broken, pending = {q}
        PROVE  ChainInv' /\ NotStarted' /\ TimeLeft'
    <3>1. pending' = {q} /\ age'[q] = age[q] + 1
      BY <1>0, <1>4, <2>5 DEF Tick, Elapse, TypeOK, Queue
    <3>2. Healthy => age[q] < Delay[q]
      BY <1>4, <2>5 DEF Tick, QueuesInTime, Healthy
    <3>3. CASE q = "sys"
      <4>1. Healthy => left + FeedDelay + age["sys"] >= Timeout
        BY <1>0, <2>1, <2>5, <3>3 DEF TimeLeft
      <4>2. Delay["sys"] = SysDelay
        BY DEF Delay, Queue
      <4> QED
        BY <1>0, <2>1, <2>5, <3>1, <3>2, <3>3, <4>1, <4>2
           DEF ChainInv, NotStarted, TimeLeft, Healthy, TypeOK
    <3>4. CASE q = "app"
      <4>1. Healthy => left + FeedDelay + SysDelay + age["app"] >= Timeout
        BY <1>0, <2>1, <2>5, <3>4 DEF TimeLeft
      <4>2. Delay["app"] = AppDelay
        BY DEF Delay, Queue
      <4> QED
        BY <1>0, <2>1, <2>5, <3>1, <3>2, <3>4, <4>1, <4>2
           DEF ChainInv, NotStarted, TimeLeft, Healthy, TypeOK
    <3> QED
      BY <3>3, <3>4 DEF Queue
  <2> QED
    BY <1>0, <2>1, <2>2, <2>3, <2>4, <2>5 DEF ChainInv, Queue
<1>5. ASSUME NEW q \in Queue, Hang(q)
      PROVE  ChainInv' /\ NotStarted' /\ TimeLeft'
  BY <1>0, <1>5 DEF Hang, ChainInv, NotStarted, TimeLeft, Healthy
<1>6. CASE ResetSoc
  BY <1>6 DEF ResetSoc, ChainInv, NotStarted, TimeLeft
<1>7. CASE UNCHANGED vars
  BY <1>0, <1>7 DEF vars, ChainInv, NotStarted, TimeLeft, Healthy
<1> QED
  BY <1>1, <1>2, <1>3, <1>4, <1>5, <1>6, <1>7 DEF Next

LEMMA InvariantHolds == Spec => []IInv
BY InitInv, NextInv, PTL DEF Spec

(* The queues and the timers keep their types, and the hardware's count never *)
(* passes the timeout.                                                       *)
THEOREM TypeCorrect == Spec => []TypeOK
<1>1. IInv => TypeOK
  BY DEF IInv
<1> QED
  BY <1>1, InvariantHolds, PTL

(* The works of watchdog.c never multiply and never vanish: until a feed     *)
(* fails, exactly one of them is under way.                                  *)
THEOREM ChainIsSingle == Spec => []OneChain
<1>1. IInv => OneChain
  BY FS_Singleton DEF IInv, ChainInv, OneChain
<1> QED
  BY <1>1, InvariantHolds, PTL

(* A fault is final: once a feed has failed, or the queue that the chain has  *)
(* yet to pass hangs, no step but the start after the reset sets the count   *)
(* of the hardware back.                                                     *)
THEOREM NoFeedAfterFault == Spec => FaultIsFinal
<1> DEFINE Final == hw = "on" /\ ChainIsCut /\ hw' = "on" => ChainIsCut' /\ left' <= left
<1>1. IInv /\ [Next]_vars => [Final]_vars
  <2> SUFFICES ASSUME IInv, Next, hw = "on", ChainIsCut, hw' = "on"
               PROVE  ChainIsCut' /\ left' <= left
    OBVIOUS
  <2>1. left \in Nat /\ (broken => pending = {})
    BY WatchdogAssumption DEF IInv, TypeOK, ChainInv
  <2>2. CASE InitAndStart \/ ResetSoc
    BY <2>2 DEF InitAndStart, ResetSoc
  <2>3. CASE PrimaryFeedWorker
    BY <2>1, <2>3 DEF PrimaryFeedWorker, Submit, ChainIsCut
  <2>4. CASE SecondaryFeedWorker
    BY <2>1, <2>4 DEF SecondaryFeedWorker, ChainIsCut
  <2>5. CASE Tick
    <3>1. UNCHANGED <<hung, broken>> /\ left' = left - 1
      BY <2>5 DEF Tick
    <3>2. "app" \in pending' => "app" \in pending
      BY <2>5 DEF Tick, Elapse
    <3> QED
      BY <2>1, <3>1, <3>2 DEF ChainIsCut
  <2>6. ASSUME NEW q \in Queue, Hang(q)
        PROVE  ChainIsCut' /\ left' <= left
    BY <2>1, <2>6 DEF Hang, ChainIsCut
  <2> QED
    BY <2>2, <2>3, <2>4, <2>5, <2>6 DEF Next
<1> QED
  BY <1>1, InvariantHolds, PTL DEF Spec, FaultIsFinal

(* For every timeout with room for a trip through both queues, a device      *)
(* whose queues do not hang and whose feeds do not fail is never reset by    *)
(* its watchdog.                                                             *)
THEOREM HealthyNeverExpires ==
  ASSUME RoomForDelays
  PROVE  Spec => []ExpiresOnlyOnFault
<1>1. IInv => ExpiresOnlyOnFault
  <2> SUFFICES ASSUME IInv, hw = "on", left = 0, Healthy
               PROVE  FALSE
    BY DEF ExpiresOnlyOnFault
  <2>1. FeedDelay + SysDelay + AppDelay < Timeout
    BY DEF RoomForDelays, FeedDelay
  <2>2. pending \in {{"timer"}, {"sys"}, {"app"}}
    BY DEF IInv, ChainInv, Healthy
  <2> QED
    BY <2>1, <2>2, WatchdogAssumption, FeedDelayType DEF IInv, TimeLeft, TypeOK
<1> QED
  BY <1>1, InvariantHolds, PTL
=============================================================================
