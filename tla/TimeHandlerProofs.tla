-------------------------- MODULE TimeHandlerProofs --------------------------
(***************************************************************************)
(* Proofs about TimeHandler, for every width of the uptime counter.         *)
(***************************************************************************)
EXTENDS TimeHandler, TLAPS

LEMMA InvInit == ClockInit => ClockInv
<1> USE ClockAssumption
<1>1. ClockInit => ClockTypeOK
  BY DEF ClockInit, ClockTypeOK
<1>2. ClockInit => ElapsedIsTrue
  BY DEF ClockInit, ElapsedIsTrue, Elapsed
<1>3. ClockInit => EpochIsPast /\ StartsIn1970 /\ FixIsRecent
  BY DEF ClockInit, EpochIsPast, StartsIn1970, FixIsRecent
<1> QED BY <1>1, <1>2, <1>3 DEF ClockInv

LEMMA TypeStep == ClockInv /\ [ClockNext]_timeVars => ClockTypeOK'
<1> SUFFICES ASSUME ClockInv, [ClockNext]_timeVars PROVE ClockTypeOK'
  OBVIOUS
<1> USE ClockAssumption DEF ClockInv, ClockTypeOK
<1>1. CASE Tick
  BY <1>1 DEF Tick
<1>2. CASE UpdateTsModem
  BY <1>2 DEF UpdateTsModem, ModemHasNoTime, ModemHasTime, Now
<1>3. CASE TakeFix
  BY <1>3 DEF TakeFix, Now
<1>4. CASE SetByGps
  BY <1>4 DEF SetByGps, StoreTick, StoreEpoch
<1>5. CASE UNCHANGED timeVars
  BY <1>5 DEF timeVars
<1> QED BY <1>1, <1>2, <1>3, <1>4, <1>5 DEF ClockNext

(* The counter goes back to zero and the difference with it.                 *)
LEMMA ElapsedStep == ClockInv /\ [ClockNext]_timeVars => ElapsedIsTrue'
<1> SUFFICES ASSUME ClockInv, [ClockNext]_timeVars PROVE ElapsedIsTrue'
  OBVIOUS
<1> USE ClockAssumption DEF ClockInv, ClockTypeOK, ElapsedIsTrue, Elapsed
<1>1. CASE Tick
  <2>1. CASE ticks + 1 = Wrap
    BY <1>1, <2>1 DEF Tick
  <2>2. CASE ticks + 1 # Wrap
    BY <1>1, <2>2 DEF Tick
  <2> QED BY <2>1, <2>2
<1>2. CASE UpdateTsModem
  BY <1>2 DEF UpdateTsModem, ModemHasNoTime, ModemHasTime
<1>3. CASE TakeFix
  BY <1>3 DEF TakeFix
<1>4. CASE SetByGps
  BY <1>4 DEF SetByGps, StoreTick, StoreEpoch
<1>5. CASE UNCHANGED timeVars
  BY <1>5 DEF timeVars
<1> QED BY <1>1, <1>2, <1>3, <1>4, <1>5 DEF ClockNext

LEMMA EpochStep == ClockInv /\ [ClockNext]_timeVars => EpochIsPast'
<1> SUFFICES ASSUME ClockInv, [ClockNext]_timeVars PROVE EpochIsPast'
  OBVIOUS
<1> USE ClockAssumption DEF ClockInv, ClockTypeOK, EpochIsPast
<1>1. CASE Tick
  BY <1>1 DEF Tick
<1>2. CASE UpdateTsModem
  BY <1>2 DEF UpdateTsModem, ModemHasNoTime, ModemHasTime, Now
<1>3. CASE TakeFix
  BY <1>3 DEF TakeFix
<1>4. CASE SetByGps
  BY <1>4 DEF SetByGps, StoreTick, StoreEpoch, FixIsRecent
<1>5. CASE UNCHANGED timeVars
  BY <1>5 DEF timeVars
<1> QED BY <1>1, <1>2, <1>3, <1>4, <1>5 DEF ClockNext

LEMMA StartStep == ClockInv /\ [ClockNext]_timeVars => StartsIn1970'
  BY DEF ClockInv, StartsIn1970, ClockNext, timeVars, Tick, UpdateTsModem,
         ModemHasNoTime, ModemHasTime, TakeFix, SetByGps, StoreTick, StoreEpoch

LEMMA FixStep == ClockInv /\ [ClockNext]_timeVars => FixIsRecent'
<1> SUFFICES ASSUME ClockInv, [ClockNext]_timeVars PROVE FixIsRecent'
  OBVIOUS
<1> USE ClockAssumption DEF ClockInv, ClockTypeOK, FixIsRecent, Now
<1>1. CASE Tick
  BY <1>1 DEF Tick
<1>2. CASE source = "unasked" /\ UpdateTsModem
  BY <1>2 DEF UpdateTsModem, ModemHasNoTime, ModemHasTime, StartsIn1970
<1>3. CASE TakeFix
  BY <1>3 DEF TakeFix
<1>4. CASE StoreTick
  BY <1>4 DEF StoreTick, EpochIsPast
<1>5. CASE StoreEpoch
  BY <1>5 DEF StoreEpoch
<1>6. CASE UNCHANGED timeVars
  BY <1>6 DEF timeVars
<1> QED BY <1>1, <1>2, <1>3, <1>4, <1>5, <1>6 DEF ClockNext, SetByGps

LEMMA InvStep == ClockInv /\ [ClockNext]_timeVars => ClockInv'
  BY TypeStep, ElapsedStep, EpochStep, StartStep, FixStep DEF ClockInv

LEMMA InvNeverInFuture == ClockInv => NeverInFuture
  BY ClockAssumption
     DEF ClockInv, ClockTypeOK, ElapsedIsTrue, EpochIsPast, NeverInFuture,
         GetTs, Elapsed, Now

LEMMA InvRightAfterFix == ClockInv => RightAfterFix
  BY ClockAssumption
     DEF ClockInv, ClockTypeOK, ElapsedIsTrue, FixIsRecent, RightAfterFix,
         GetTs, Elapsed, Now

(* What a step of the clock does to get_ts.                                  *)
LEMMA FallsBackStep ==
  ClockInv /\ ClockInv' /\ [ClockNext]_timeVars => [TimeFallsBack]_timeVars
<1> SUFFICES ASSUME ClockInv, ClockInv', ClockNext PROVE TimeFallsBack
  BY DEF timeVars
<1> USE ClockAssumption DEF TimeFallsBack, GetTs, ClockInv, ClockTypeOK
<1>1. CASE Tick
  <2>1. CASE uptime' - updated >= Wrap
    BY <2>1
  <2>2. CASE uptime' - updated < Wrap
    <3>1. Elapsed = uptime - updated /\ Elapsed' = uptime' - updated
      BY <1>1, <2>2 DEF ElapsedIsTrue, Tick
    <3> QED BY <1>1, <3>1 DEF Tick
  <2> QED BY <1>1, <2>1, <2>2 DEF Tick
<1>2. CASE source = "unasked" /\ UpdateTsModem
  <2>1. ModemHasNoTime => ~(GetTs' < GetTs)
    BY <1>2 DEF UpdateTsModem, ModemHasNoTime, Elapsed
  <2>2. CASE ModemHasTime
    <3>1. PICK e \in 0 .. Zone : epoch' = Boot + uptime + e
      BY <2>2 DEF ModemHasTime, Now
    <3>2. epoch_tk' = ticks /\ ticks' = ticks
      BY <1>2, <2>2 DEF UpdateTsModem, ModemHasTime
    <3>3. GetTs' = Boot + uptime + e
      BY <3>1, <3>2 DEF Elapsed
    <3>4. GetTs \in Nat /\ GetTs <= uptime
      BY <1>2 DEF ElapsedIsTrue, StartsIn1970, Elapsed
    <3>5. GetTs <= GetTs'
      BY <3>1, <3>3, <3>4
    <3> QED BY <3>3, <3>4, <3>5
  <2> QED BY <1>2, <2>1, <2>2 DEF UpdateTsModem
<1>3. CASE TakeFix
  BY <1>3 DEF TakeFix, Elapsed
<1>4. CASE StoreTick
  BY <1>4
<1>5. CASE StoreEpoch
  BY <1>5 DEF StoreEpoch, Elapsed, FixIsRecent
<1> QED BY <1>1, <1>2, <1>3, <1>4, <1>5 DEF ClockNext, SetByGps

LEMMA Invariance == ClockSpec => []ClockInv
  BY InvInit, InvStep, PTL DEF ClockSpec

(* The two counters stay within their width, and every time is a number.     *)
THEOREM ClockTypeCorrect == ClockSpec => []ClockTypeOK
<1>1. ClockInv => ClockTypeOK
  BY DEF ClockInv
<1> QED BY Invariance, <1>1, PTL

(* No reader, at whatever moment, gets a time that has not come.             *)
THEOREM ClockNeverInFuture == ClockSpec => []NeverInFuture
  BY Invariance, InvNeverInFuture, PTL

(* After a fix the clock is right until the uptime has wrapped.              *)
THEOREM ClockRightAfterFix == ClockSpec => []RightAfterFix
  BY Invariance, InvRightAfterFix, PTL

(* The three cases in which a time stamp can be earlier than the one before. *)
THEOREM ClockFallsBackSeldom == ClockSpec => FallsBackSeldom
  BY Invariance, FallsBackStep, PTL DEF ClockSpec, FallsBackSeldom
=============================================================================
