--------------------------- MODULE RuuviNodeProofs ---------------------------
(***************************************************************************)
(* Proofs about RuuviNode, for every interval and every width of the uptime *)
(* counter, with the clock's invariant from TimeHandlerProofs.              *)
(***************************************************************************)
EXTENDS RuuviNode, TimeHandlerProofs

LEMMA ResetClock == Reset => ClockInv'
<1>1. Reset => ClockInit'
  BY DEF Reset, ClockInit
<1>2. ClockInit' => ClockInv'
  BY InvInit, PTL
<1> QED BY <1>1, <1>2

LEMMA ClockOrReset ==
  ASSUME StartUpInOrder, [NodeNext]_nodeVars
  PROVE  [ClockNext]_timeVars \/ Reset
<1>1. CASE MainStep
  <2>1. CASE AskTime
    BY <2>1 DEF AskTime, StartUpInOrder, Asking, ClockNext
  <2>2. CASE UNCHANGED timeVars
    BY <2>2
  <2> QED BY <1>1, <2>1, <2>2 DEF MainStep, StartUp, Connect, InitGps, InitUart,
              OnlinePost, FirstStart, RequestStart, Post, PostDone
<1>2. CASE GpsStep
  <2>1. CASE FixStamp
    BY <2>1 DEF FixStamp, StartUpInOrder, Asking, Starting, ClockNext
  <2>2. CASE FixTick \/ FixEpoch
    BY <2>2 DEF FixTick, FixEpoch, ClockNext, SetByGps
  <2>3. CASE UNCHANGED timeVars
    BY <2>3
  <2> QED BY <1>2, <2>1, <2>2, <2>3 DEF GpsStep, StartRefused, SearchStarted, Pvt,
              SearchTimeout
<1>3. CASE TimePasses
  BY <1>3 DEF TimePasses, ClockNext
<1>4. CASE Resets
  BY <1>4 DEF Resets, NullHandler, ZoneFault
<1>5. CASE UNCHANGED nodeVars
  BY <1>5 DEF nodeVars, timeVars
<1> QED BY <1>1, <1>2, <1>3, <1>4, <1>5 DEF NodeNext

LEMMA ClockKept ==
  ASSUME NodeInv, [NodeNext]_nodeVars
  PROVE  ClockInv'
  BY ClockOrReset, ResetClock, InvStep DEF NodeInv

(* What get_ts shows is a number.                                            *)
LEMMA GetTsType == ClockInv => GetTs \in Nat
  BY ClockAssumption DEF ClockInv, ClockTypeOK, GetTs, Elapsed

LEMMA NodeTypeKept ==
  ASSUME NodeInv, [NodeNext]_nodeVars
  PROVE  NodeTypeOK'
<1> USE DEF NodeInv, NodeTypeOK
<1>1. ClockTypeOK' /\ uptime \in Nat /\ uptime' \in Nat
  BY ClockKept DEF ClockInv, ClockTypeOK
<1>2. GetTs \in Nat
  BY GetTsType
<1>3. CASE MainStep
  BY <1>1, <1>3 DEF MainStep, StartUp, Connect, AskTime, InitGps, InitUart,
     OnlinePost, FirstStart, RequestStart, Post, PostDone, UpdateTsModem, gps,
     stamps, timeVars
<1>4. CASE GpsStep
  <2>1. CASE StartRefused
    BY <1>1, <1>4, <2>1 DEF GpsStep, StartRefused, stamps, timeVars
  <2>2. CASE SearchStarted \/ Pvt \/ SearchTimeout
    <3>1. lastActive' = GetTs /\ activeAt' = uptime /\ uptime' = uptime
            /\ lastUpdate' = lastUpdate
      BY <2>2 DEF SearchStarted, Pvt, SearchTimeout, Stamp, timeVars
    <3>2. asked' \in BOOLEAN /\ searching' \in BOOLEAN /\ flag' \in BOOLEAN
            /\ firstFix' \in BOOLEAN
      BY <2>2 DEF SearchStarted, Pvt, SearchTimeout, gps
    <3>3. phase' = phase /\ gpsReady' = gpsReady /\ uartOn' = uartOn
      BY <1>4 DEF GpsStep
    <3>4. lastActive' \in Nat /\ activeAt' \in 0 .. uptime'
      BY <1>1, <1>2, <3>1
    <3> QED BY <1>1, <3>1, <3>2, <3>3, <3>4
  <2>3. CASE FixStamp
    BY <1>1, <1>2, <1>4, <2>3 DEF GpsStep, FixStamp, Stamp, TakeFix
  <2>4. CASE FixTick \/ FixEpoch
    BY <1>1, <1>4, <2>4 DEF GpsStep, FixTick, FixEpoch, StoreTick, StoreEpoch,
       gps, stamps
  <2> QED BY <1>4, <2>1, <2>2, <2>3, <2>4 DEF GpsStep
<1>5. CASE TimePasses
  BY <1>1, <1>5 DEF TimePasses, Tick, gps, stamps
<1>6. CASE Resets
  <2>1. Reset
    BY <1>6 DEF Resets, NullHandler, ZoneFault
  <2>2. activeAt' \in 0 .. uptime'
    BY <2>1 DEF Reset
  <2> QED BY <1>1, <2>1, <2>2 DEF Reset
<1>7. CASE UNCHANGED nodeVars
  BY <1>1, <1>7 DEF nodeVars
<1> QED BY <1>3, <1>4, <1>5, <1>6, <1>7 DEF NodeNext

LEMMA StartUpKept ==
  ASSUME NodeInv, [NodeNext]_nodeVars
  PROVE  StartUpInOrder'
<1> USE DEF NodeInv, StartUpInOrder, Asking, Starting
<1>1. CASE MainStep
  <2>1. CASE AskTime
    BY <2>1 DEF AskTime, UpdateTsModem, ModemHasNoTime, ModemHasTime, gps, stamps
  <2>2. CASE Connect \/ InitGps \/ InitUart \/ OnlinePost \/ FirstStart
    BY <2>2 DEF Connect, InitGps, InitUart, OnlinePost, FirstStart, gps, stamps,
       timeVars
  <2>3. CASE RequestStart \/ Post \/ PostDone
    BY <2>3 DEF RequestStart, Post, PostDone, gps, stamps, timeVars
  <2> QED BY <1>1, <2>1, <2>2, <2>3 DEF MainStep, StartUp
<1>2. CASE GpsStep
  BY <1>2 DEF SearchInv, GpsStep, StartRefused, SearchStarted, Pvt, SearchTimeout,
     FixStamp, FixTick, FixEpoch, Stamp, TakeFix, StoreTick, StoreEpoch, gps,
     stamps, timeVars
<1>3. CASE TimePasses
  BY <1>3 DEF TimePasses, Tick, gps, stamps
<1>4. CASE Resets
  BY <1>4 DEF Resets, NullHandler, ZoneFault, Reset
<1>5. CASE UNCHANGED nodeVars
  BY <1>5 DEF nodeVars
<1> QED BY <1>1, <1>2, <1>3, <1>4, <1>5 DEF NodeNext

LEMMA SearchKept ==
  ASSUME NodeInv, [NodeNext]_nodeVars
  PROVE  SearchInv'
<1> USE DEF NodeInv, SearchInv
<1>1. uptime \in Nat /\ fixTime \in Int /\ ahead \in Nat /\ activeAt \in 0 .. uptime
  BY DEF NodeTypeOK, ClockTypeOK
<1>2. flag \in BOOLEAN /\ searching \in BOOLEAN
  BY DEF NodeTypeOK
<1>3. CASE MainStep
  <2>1. CASE AskTime
    BY <2>1 DEF AskTime, UpdateTsModem, ModemHasNoTime, ModemHasTime, gps, stamps,
       StartUpInOrder, Asking, Starting
  <2>2. CASE UNCHANGED <<timeVars, searching, flag, firstFix, stamps>>
    BY <2>2 DEF timeVars, stamps
  <2> QED BY <1>3, <2>1, <2>2 DEF MainStep, StartUp, Connect, InitGps, InitUart,
      OnlinePost, FirstStart, RequestStart, Post, PostDone, gps
<1>4. CASE GpsStep
  <2>1. CASE StartRefused
    BY <2>1 DEF StartRefused, stamps, timeVars
  <2>2. CASE SearchStarted \/ Pvt \/ SearchTimeout
    <3>1. activeAt' = uptime /\ UNCHANGED <<timeVars, firstFix>>
      BY <2>2 DEF SearchStarted, Pvt, SearchTimeout, Stamp, gps
    <3>2. firstFix' => fixTime' <= Boot + activeAt'
      BY <1>1, <3>1, ClockAssumption DEF timeVars
    <3>3. flag' = searching' /\ (setPc' # "idle" => searching' /\ firstFix')
      BY <1>2, <2>2, <3>1 DEF SearchStarted, Pvt, SearchTimeout, gps, timeVars
    <3> QED BY <3>1, <3>2, <3>3 DEF timeVars
  <2>3. CASE FixStamp
    BY <1>1, <2>3, ClockAssumption DEF FixStamp, Stamp, TakeFix, Now
  <2>4. CASE FixTick \/ FixEpoch
    BY <2>4 DEF FixTick, FixEpoch, StoreTick, StoreEpoch, gps, stamps
  <2> QED BY <1>4, <2>1, <2>2, <2>3, <2>4 DEF GpsStep
<1>5. CASE TimePasses
  BY <1>5 DEF TimePasses, Tick, gps, stamps
<1>6. CASE Resets
  BY <1>6, ClockAssumption DEF Resets, NullHandler, ZoneFault, Reset
<1>7. CASE UNCHANGED nodeVars
  BY <1>7 DEF nodeVars
<1> QED BY <1>3, <1>4, <1>5, <1>6, <1>7 DEF NodeNext

(* Main and GPS's events before a fix leave the clock alone.                 *)
LEMMA SameAge ==
  ASSUME UNCHANGED <<timeVars, firstFix>>,
         UNCHANGED <<lastActive, activeAt>>, AgeInv, ~Asking' => ~Asking
  PROVE  AgeInv'
  BY DEF AgeInv, timeVars, GetTs, Elapsed, Wrapped

(* A tick moves the clock by one, or back when the uptime wraps.             *)
LEMMA GetTsTick ==
  ASSUME ClockInv, Tick
  PROVE  /\ GetTs' <= GetTs + 1
         /\ ~Wrapped' => ~Wrapped /\ GetTs' = GetTs + 1
<1>1. ClockTypeOK /\ ElapsedIsTrue /\ uptime \in Nat /\ updated \in Nat
  BY DEF ClockInv, ClockTypeOK
<1>2. UNCHANGED <<epoch, epoch_tk, updated>> /\ uptime' = uptime + 1
        /\ ticks' = IF ticks + 1 = Wrap THEN 0 ELSE ticks + 1
  BY DEF Tick
<1>3. PICK t \in 0 .. Wrap - 1 : t = ticks' /\ (t = ticks + 1 \/ t = 0)
  BY <1>1, <1>2, ClockAssumption DEF ClockTypeOK
<1>4. GetTs' = epoch + (IF t >= epoch_tk THEN t - epoch_tk ELSE t + Wrap - epoch_tk)
  BY <1>2, <1>3 DEF GetTs, Elapsed
<1>5. (IF t >= epoch_tk THEN t - epoch_tk ELSE t + Wrap - epoch_tk)
        \in {Elapsed + 1, 0, Elapsed + 1 - Wrap}
  BY <1>1, <1>2, <1>3, ClockAssumption DEF ClockTypeOK, Elapsed
<1>6. Elapsed \in 0 .. Wrap - 1
  BY <1>1, ClockAssumption DEF ClockTypeOK, Elapsed
<1>7. ~Wrapped' => uptime + 1 - updated < Wrap
  BY <1>1, <1>2, ClockAssumption DEF Wrapped
<1>8. CASE uptime + 1 - updated < Wrap
  <2>1. Elapsed + 1 < Wrap /\ ~Wrapped
    BY <1>1, <1>8, ClockAssumption DEF ElapsedIsTrue, Wrapped
  <2>2. (IF t >= epoch_tk THEN t - epoch_tk ELSE t + Wrap - epoch_tk) = Elapsed + 1
    BY <1>1, <1>2, <1>3, <2>1, ClockAssumption DEF ClockTypeOK, Elapsed
  <2> QED BY <1>1, <1>4, <1>6, <2>1, <2>2 DEF GetTs, ClockTypeOK
<1>9. CASE ~(uptime + 1 - updated < Wrap)
  BY <1>1, <1>4, <1>5, <1>6, <1>7, <1>9, ClockAssumption DEF GetTs, ClockTypeOK
<1> QED BY <1>8, <1>9

LEMMA AgeKept ==
  ASSUME NodeInv, [NodeNext]_nodeVars
  PROVE  AgeInv'
<1> USE DEF NodeInv
<1>1. ClockTypeOK /\ GetTs \in Nat /\ GetTs' \in Nat
  <2>1. GetTs \in Nat
    BY GetTsType
  <2>2. GetTs' \in Nat
    <3>1. ClockInv' => (GetTs \in Nat)'
      BY GetTsType, PTL
    <3> QED BY <3>1, ClockKept
  <2> QED BY <2>1, <2>2 DEF ClockInv
<1>2. CASE MainStep
  <2>1. CASE AskTime
    <3>1. lastActive' = 0 /\ activeAt' = 0 /\ uptime' = uptime /\ updated = 0
      BY <2>1 DEF AskTime, UpdateTsModem, stamps, StartUpInOrder, Asking, Starting,
         ClockInv, StartsIn1970
    <3>2. Wrapped' \/ GetTs' >= uptime
      <4>1. CASE ModemHasNoTime
        <5>1. UNCHANGED <<ticks, epoch, epoch_tk, updated>>
          BY <2>1, <4>1 DEF AskTime, UpdateTsModem, ModemHasNoTime
        <5>2. GetTs' = GetTs
          BY <5>1 DEF GetTs, Elapsed
        <5>3. Wrapped' <=> uptime >= Wrap
          BY <1>1, <3>1, <5>1 DEF Wrapped, ClockTypeOK
        <5>4. uptime < Wrap => GetTs >= uptime
          BY <1>1, <3>1, ClockAssumption
             DEF ClockInv, ElapsedIsTrue, GetTs, Elapsed, ClockTypeOK
        <5> QED BY <1>1, <5>2, <5>3, <5>4, ClockAssumption DEF ClockTypeOK
      <4>2. CASE ModemHasTime
        <5>1. PICK e \in 0 .. Zone : epoch' = Boot + uptime + e
          BY <4>2 DEF ModemHasTime, Now
        <5>2. epoch_tk' = ticks /\ ticks' = ticks
          BY <2>1, <4>2 DEF AskTime, UpdateTsModem, ModemHasTime
        <5>3. GetTs' = Boot + uptime + e
          BY <1>1, <5>1, <5>2, ClockAssumption DEF GetTs, Elapsed, ClockTypeOK
        <5> QED BY <1>1, <5>1, <5>3, ClockAssumption DEF ClockTypeOK
      <4> QED BY <2>1, <4>1, <4>2 DEF AskTime, UpdateTsModem
    <3>3. GetTs' >= uptime => GetTs' - lastActive' >= uptime' - activeAt'
      <4>1. PICK g \in Nat : GetTs' = g
        BY <1>1
      <4>2. g >= uptime => g - 0 >= uptime - 0
        BY <1>1 DEF ClockTypeOK
      <4> QED BY <3>1, <4>1, <4>2
    <3> QED BY <3>1, <3>2, <3>3 DEF AgeInv
  <2>2. CASE StartUp /\ ~AskTime
    BY <2>2, SameAge DEF StartUp, Connect, InitGps, InitUart, OnlinePost,
       FirstStart, gps, stamps, Asking
  <2>3. CASE RequestStart \/ Post \/ PostDone
    BY <2>3, SameAge DEF RequestStart, Post, PostDone, gps, stamps, Asking
  <2> QED BY <1>2, <2>1, <2>2, <2>3 DEF MainStep
<1>3. CASE GpsStep
  <2>1. CASE StartRefused
    BY <1>3, <2>1, SameAge DEF GpsStep, StartRefused, stamps, Asking
  <2>2. CASE SearchStarted \/ Pvt \/ SearchTimeout
    <3>1. lastActive' = GetTs /\ activeAt' = uptime /\ UNCHANGED timeVars
      BY <2>2 DEF SearchStarted, Pvt, SearchTimeout, Stamp
    <3>2. GetTs' = GetTs /\ uptime' = uptime
      BY <3>1 DEF GetTs, Elapsed, timeVars
    <3> QED BY <1>1, <3>1, <3>2 DEF AgeInv, ClockTypeOK
  <2>3. CASE FixStamp
    BY <2>3 DEF FixStamp, AgeInv
  <2>4. CASE FixTick \/ FixEpoch
    BY <2>4 DEF FixTick, FixEpoch, StoreTick, StoreEpoch, gps, SearchInv, AgeInv
  <2> QED BY <1>3, <2>1, <2>2, <2>3, <2>4 DEF GpsStep
<1>4. CASE TimePasses
  <2>1. UNCHANGED <<phase, firstFix, lastActive, activeAt, updated, epoch, epoch_tk>>
    BY <1>4 DEF TimePasses, Tick, gps, stamps
  <2>2. uptime' = uptime + 1
    BY <1>4 DEF TimePasses, Tick
  <2>3. /\ GetTs' <= GetTs + 1
        /\ ~Wrapped' => ~Wrapped /\ GetTs' = GetTs + 1
    BY <1>4, GetTsTick DEF TimePasses
  <2>4. activeAt \in Nat /\ lastActive \in Nat /\ uptime \in Nat
    BY <1>1 DEF NodeTypeOK, ClockTypeOK
  <2>5. PICK g \in Nat : GetTs' = g
    BY <1>1
  <2>6. GetTs - lastActive <= uptime - activeAt
          => g - lastActive <= uptime + 1 - activeAt
    BY <1>1, <2>3, <2>4, <2>5
  <2>7. ~Wrapped' => ~Wrapped /\ (GetTs - lastActive >= uptime - activeAt
          => g - lastActive >= uptime + 1 - activeAt)
    BY <1>1, <2>3, <2>4, <2>5
  <2>8. CASE firstFix \/ Asking
    BY <2>1, <2>8 DEF AgeInv, Asking
  <2>9. CASE ~firstFix /\ ~Asking
    <3>1. lastActive = 0 \/ g - lastActive <= uptime + 1 - activeAt
      BY <2>6, <2>9 DEF AgeInv
    <3>2. Wrapped' \/ g - lastActive >= uptime + 1 - activeAt
      BY <2>7, <2>9 DEF AgeInv
    <3>3. GetTs' - lastActive' = g - lastActive
      BY <2>1, <2>5
    <3>4. uptime' - activeAt' = uptime + 1 - activeAt
      BY <2>1, <2>2, <2>4
    <3> QED BY <2>1, <3>1, <3>2, <3>3, <3>4 DEF AgeInv
  <2> QED BY <2>8, <2>9
<1>5. CASE Resets
  BY <1>5 DEF Resets, NullHandler, ZoneFault, Reset, AgeInv, Asking
<1>6. CASE UNCHANGED nodeVars
  BY <1>6, SameAge DEF nodeVars, timeVars, Asking
<1> QED BY <1>2, <1>3, <1>4, <1>5, <1>6 DEF NodeNext

LEMMA NodeInvInit == NodeInit => NodeInv
<1> SUFFICES ASSUME NodeInit PROVE NodeInv
  OBVIOUS
<1>1. ClockInv
  BY InvInit DEF NodeInit
<1>2. source = "unasked" /\ setPc = "idle" /\ fixTime = 0 /\ ahead = 0
  BY DEF NodeInit, ClockInit
<1>3. NodeTypeOK
  <2>1. ClockTypeOK /\ uptime \in Nat
    BY <1>1 DEF ClockInv, ClockTypeOK
  <2>2. activeAt \in 0 .. uptime
    BY <2>1 DEF NodeInit
  <2> QED BY <2>1, <2>2 DEF NodeTypeOK, NodeInit
<1>4. StartUpInOrder /\ AgeInv
  BY <1>2 DEF NodeInit, StartUpInOrder, AgeInv, Asking, Starting
<1>5. SearchInv
  BY <1>2 DEF NodeInit, SearchInv
<1> QED BY <1>1, <1>3, <1>4, <1>5 DEF NodeInv

LEMMA NodeInvStep == NodeInv /\ [NodeNext]_nodeVars => NodeInv'
  BY ClockKept, NodeTypeKept, StartUpKept, SearchKept, AgeKept DEF NodeInv

LEMMA NodeInvariance == NodeSpec => []NodeInv
  BY NodeInvInit, NodeInvStep, PTL DEF NodeSpec

(* The types, and that no time stamp is ever negative.                       *)
THEOREM NodeTypeCorrect == NodeSpec => []NodeTypeOK
<1>1. NodeInv => NodeTypeOK
  BY DEF NodeInv
<1> QED BY NodeInvariance, <1>1, PTL

(* The start-up and the loop of main.c, GPS and the resets, step by step, use *)
(* the clock as the specification of time_handler.c alone supposes.          *)
THEOREM NodeUsesClock == NodeSpec => NodeClock
<1>1. NodeInit => ClockInit
  BY DEF NodeInit
<1>2. NodeInv /\ [NodeNext]_nodeVars => [ClockNext \/ ClockInit']_timeVars
  <2>1. Reset => ClockInit'
    BY DEF Reset, ClockInit
  <2> QED BY <2>1, ClockOrReset DEF NodeInv
<1> QED BY NodeInvariance, <1>1, <1>2, PTL DEF NodeSpec, NodeClock

(* On the whole device, with its resets, the clock is never ahead by more    *)
(* than the modem made it.                                                   *)
THEOREM NodeNeverInFuture == NodeSpec => []NeverInFuture
<1>1. NodeInv => ClockInv
  BY DEF NodeInv
<1> QED BY NodeInvariance, <1>1, InvNeverInFuture, PTL

(* On the whole device the clock is right after every fix.                   *)
THEOREM NodeRightAfterFix == NodeSpec => []RightAfterFix
<1>1. NodeInv => ClockInv
  BY DEF NodeInv
<1> QED BY NodeInvariance, <1>1, InvRightAfterFix, PTL

(* On the whole device the clock falls back in the three cases only; a reset *)
(* is none of them, as nobody reads the clock until the modem was asked.     *)
THEOREM NodeFallsBackSeldom == NodeSpec => FallsBackSeldom
<1>1. NodeInv /\ NodeInv' /\ [NodeNext]_nodeVars => [TimeFallsBack]_timeVars
  <2> SUFFICES ASSUME NodeInv, NodeInv', [NodeNext]_nodeVars
               PROVE  [TimeFallsBack]_timeVars
    OBVIOUS
  <2>1. CASE [ClockNext]_timeVars
    BY <2>1, FallsBackStep DEF NodeInv
  <2>2. CASE Reset
    BY <2>2 DEF Reset, TimeFallsBack
  <2> QED BY <2>1, <2>2, ClockOrReset DEF NodeInv
<1> QED BY NodeInvariance, <1>1, PTL DEF NodeSpec, FallsBackSeldom

(* The UART is the last part of the device to be started.                    *)
THEOREM NodeReportsComeLast == NodeSpec => []ReportsComeLast
<1>1. NodeInv => ReportsComeLast
  BY DEF NodeInv, StartUpInOrder, ReportsComeLast
<1> QED BY NodeInvariance, <1>1, PTL

(* What the loop knows of the clock while no search is under way, once there *)
(* has been a fix.                                                           *)
LEMMA ClockInLoop ==
  ASSUME NodeInv, phase = "loop", ~flag, firstFix
  PROVE  /\ GetTs \in Nat /\ GetTs <= Now
         /\ Wrapped \/ GetTs >= Now - MaxLate
<1>1. setPc = "idle" /\ source = "gps" /\ ahead = 0
  BY DEF NodeInv, SearchInv
<1>2. GetTs \in Nat /\ NeverInFuture /\ RightAfterFix
  BY GetTsType, InvNeverInFuture, InvRightAfterFix DEF NodeInv
<1>3. uptime \in Nat /\ updated \in Nat
  BY DEF NodeInv, NodeTypeOK, ClockTypeOK
<1> QED BY <1>1, <1>2, <1>3, ClockAssumption
        DEF NeverInFuture, RightAfterFix, Wrapped, Now

(* Main never goes on posting past the interval after which it is to search  *)
(* again, but in the two cases that SearchesInTime names.                    *)
THEOREM NodeSearchesInTime == NodeSpec => SearchesInTime
<1> DEFINE InTime == \/ Wrapped
                     \/ firstFix /\ (Moved \/ uptime - activeAt < UpdateInt + MaxLate)
                     \/ ~firstFix /\ uptime - activeAt < FailedRetry
<1>1. NodeInv /\ [NodeNext]_nodeVars => [Post => InTime]_nodeVars
  <2> SUFFICES ASSUME NodeInv, Post, ~Wrapped PROVE InTime
    OBVIOUS
  <2>1. phase = "loop" /\ ~flag /\ ~Due
    BY DEF Post
  <2>2. /\ uptime \in Nat /\ activeAt \in Nat /\ fixTime \in Nat
        /\ lastActive \in Nat /\ lastUpdate \in Nat /\ GetTs \in Nat
    BY GetTsType DEF NodeInv, NodeTypeOK, ClockTypeOK
  <2>3. CASE firstFix
    <3>1. GetTs - lastUpdate < UpdateInt
      BY <2>1, <2>2, <2>3, NodeAssumption DEF Due
    <3>2. GetTs >= Now - MaxLate
      BY <2>1, <2>3, ClockInLoop
    <3>3. fixTime <= Boot + activeAt
      BY <2>3 DEF NodeInv, SearchInv
    <3>4. ~Moved => lastUpdate <= fixTime
      BY <2>2, ClockAssumption DEF Moved
    <3>5. CASE ~Moved
      BY <2>2, <2>3, <3>1, <3>2, <3>3, <3>4, <3>5, ClockAssumption, NodeAssumption
         DEF Now
    <3> QED BY <2>3, <3>5
  <2>4. CASE ~firstFix
    <3>1. GetTs - lastActive < FailedRetry
      BY <2>1, <2>2, <2>4, NodeAssumption DEF Due
    <3>2. GetTs - lastActive >= uptime - activeAt
      BY <2>1, <2>4 DEF NodeInv, AgeInv, Asking
    <3> QED BY <2>2, <2>4, <3>1, <3>2, NodeAssumption
  <2> QED BY <2>3, <2>4
<1> QED BY NodeInvariance, <1>1, PTL DEF NodeSpec, SearchesInTime

(* Main never asks for a search before the interval is over, but in the      *)
(* cases that RequestsInTime names: the wrap of the uptime is none of them.  *)
THEOREM NodeRequestsInTime == NodeSpec => RequestsInTime
<1> DEFINE InTime ==
      \/ firstFix /\ (Moved \/ SinceFix >= UpdateInt - MaxLate)
      \/ ~firstFix /\ (lastActive = 0 \/ uptime - activeAt >= FailedRetry)
<1>1. NodeInv /\ [NodeNext]_nodeVars => [RequestStart => InTime]_nodeVars
  <2> SUFFICES ASSUME NodeInv, RequestStart PROVE InTime
    OBVIOUS
  <2>1. phase = "loop" /\ ~flag /\ Due
    BY DEF RequestStart
  <2>2. /\ uptime \in Nat /\ activeAt \in Nat /\ fixTime \in Nat
        /\ lastActive \in Nat /\ lastUpdate \in Nat /\ GetTs \in Nat
    BY GetTsType DEF NodeInv, NodeTypeOK, ClockTypeOK
  <2>3. CASE firstFix
    <3>1. GetTs - lastUpdate >= UpdateInt
      BY <2>1, <2>3 DEF Due
    <3>2. GetTs <= Now
      BY <2>1, <2>3, ClockInLoop
    <3>3. ~Moved => lastUpdate >= fixTime - MaxLate
      BY <2>2, ClockAssumption DEF Moved
    <3>4. CASE ~Moved
      BY <2>2, <2>3, <3>1, <3>2, <3>3, <3>4, ClockAssumption, NodeAssumption
         DEF Now, SinceFix
    <3> QED BY <2>3, <3>4
  <2>4. CASE ~firstFix
    <3>1. GetTs - lastActive >= FailedRetry
      BY <2>1, <2>4 DEF Due
    <3>2. lastActive = 0 \/ GetTs - lastActive <= uptime - activeAt
      BY <2>1, <2>4 DEF NodeInv, AgeInv, Asking
    <3> QED BY <2>2, <2>4, <3>1, <3>2, NodeAssumption
  <2> QED BY <2>3, <2>4
<1> QED BY NodeInvariance, <1>1, PTL DEF NodeSpec, RequestsInTime
=============================================================================
