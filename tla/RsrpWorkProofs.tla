---------------------------- MODULE RsrpWorkProofs ----------------------------
(***************************************************************************)
(* Proofs about GPS and the signal strength, for any intervals: the types,  *)
(* what the queue's operators do, and the properties of GpsControl and      *)
(* RsrpWork that are not liveness.                                          *)
(***************************************************************************)
EXTENDS RsrpWork, SequenceTheorems, TLAPS

-----------------------------------------------------------------------------
(* The queue.                                                                *)

LEMMA QueueLen ==
  ASSUME NEW q, IsQueue(q)
  PROVE  /\ q \in Seq(Work) /\ Len(q) \in Nat /\ DOMAIN q = 1 .. Len(q)
         /\ \A i \in 1 .. Len(q) : q[i] \in Work
         /\ \A i, j \in 1 .. Len(q) : q[i] = q[j] => i = j
  BY LenProperties, ElementOfSeq DEF IsQueue

LEMMA AtIsPlace ==
  ASSUME NEW q, NEW w, Has(q, w)
  PROVE  At(q, w) \in DOMAIN q /\ q[At(q, w)] = w
  BY DEF Has, At

(* Cancelling closes the gap.                                                *)
LEMMA WithoutElements ==
  ASSUME NEW q, IsQueue(q), NEW w, Has(q, w), NEW k, k = At(q, w)
  PROVE  /\ k \in 1 .. Len(q) /\ q[k] = w
         /\ Without(q, w) \in Seq(Work)
         /\ Len(Without(q, w)) = Len(q) - 1
         /\ \A i \in 1 .. Len(q) - 1 :
              Without(q, w)[i] = IF i < k THEN q[i] ELSE q[i + 1]
<1> DEFINE s == Without(q, w)
<1>1. /\ Len(q) \in Nat /\ DOMAIN q = 1 .. Len(q)
      /\ \A i \in 1 .. Len(q) : q[i] \in Work
  BY QueueLen
<1>2. k \in 1 .. Len(q) /\ q[k] = w
  BY <1>1, AtIsPlace
<1>3. Len(q) - 1 \in Nat
  BY <1>1, <1>2
<1>4. s = [i \in 1 .. Len(q) - 1 |-> IF i < k THEN q[i] ELSE q[i + 1]]
  BY DEF Without
<1>5. \A i \in 1 .. Len(q) - 1 : (IF i < k THEN q[i] ELSE q[i + 1]) \in Work
  BY <1>1, <1>2
<1>6. s \in [1 .. Len(q) - 1 -> Work]
  BY <1>4, <1>5
<1>7. s \in Seq(Work) /\ Len(s) = Len(q) - 1
  BY <1>3, <1>6, LenProperties, IsASeq
<1> QED BY <1>2, <1>4, <1>7

LEMMA WithoutAbsent ==
  ASSUME NEW q, NEW w, ~Has(q, w)
  PROVE  Without(q, w) = q
  BY DEF Without

(* A work that is cancelled is gone, and every other one stays.              *)
LEMMA WithoutQueue ==
  ASSUME NEW q, IsQueue(q), NEW w
  PROVE  /\ IsQueue(Without(q, w))
         /\ ~Has(Without(q, w), w)
         /\ \A v : v # w => (Has(Without(q, w), v) <=> Has(q, v))
<1>1. CASE ~Has(q, w)
  BY <1>1, WithoutAbsent
<1>2. CASE Has(q, w)
  <2> DEFINE s == Without(q, w)
  <2>1. PICK k : k = At(q, w)
    OBVIOUS
  <2>2. PICK n : n = Len(q)
    OBVIOUS
  <2>3. /\ k \in 1 .. n /\ q[k] = w
        /\ s \in Seq(Work) /\ Len(s) = n - 1
        /\ \A i \in 1 .. n - 1 : s[i] = IF i < k THEN q[i] ELSE q[i + 1]
    BY <1>2, <2>1, <2>2, WithoutElements
  <2>4. /\ n \in Nat /\ DOMAIN q = 1 .. n
        /\ \A i, j \in 1 .. n : q[i] = q[j] => i = j
    BY <2>2, QueueLen
  <2> HIDE DEF s
  <2>5. DOMAIN s = 1 .. n - 1
    BY <2>3, LenProperties
  <2>6. \A i, j \in 1 .. n - 1 : s[i] = s[j] => i = j
    <3> SUFFICES ASSUME NEW i \in 1 .. n - 1, NEW j \in 1 .. n - 1, s[i] = s[j]
                 PROVE  i = j
      OBVIOUS
    <3>1. PICK a \in 1 .. n : s[i] = q[a] /\ a = IF i < k THEN i ELSE i + 1
      BY <2>3, <2>4
    <3>2. PICK b \in 1 .. n : s[j] = q[b] /\ b = IF j < k THEN j ELSE j + 1
      BY <2>3, <2>4
    <3>3. a = b
      BY <2>4, <3>1, <3>2
    <3> QED BY <2>3, <2>4, <3>1, <3>2, <3>3
  <2>7. \A i \in 1 .. n - 1 : s[i] # w
    BY <2>3, <2>4
  <2>8. ASSUME NEW v, v # w PROVE Has(s, v) <=> Has(q, v)
    <3>1. ASSUME NEW i \in 1 .. n - 1, s[i] = v PROVE \E j \in 1 .. n : q[j] = v
      BY <2>3, <2>4, <3>1
    <3>2. ASSUME NEW j \in 1 .. n, q[j] = v PROVE \E i \in 1 .. n - 1 : s[i] = v
      <4>1. j # k
        BY <2>3, <2>8, <3>2
      <4>2. CASE j < k
        <5>1. j \in 1 .. n - 1 /\ s[j] = q[j]
          BY <2>3, <2>4, <4>2
        <5> QED BY <3>2, <5>1
      <4>3. CASE j > k
        <5>1. j - 1 \in 1 .. n - 1 /\ ~(j - 1 < k) /\ (j - 1) + 1 = j
          BY <2>3, <2>4, <4>3
        <5>2. s[j - 1] = q[j]
          BY <2>3, <5>1
        <5> QED BY <3>2, <5>1, <5>2
      <4> QED BY <2>3, <2>4, <4>1, <4>2, <4>3
    <3> QED BY <2>4, <2>5, <3>1, <3>2 DEF Has
  <2>9. IsQueue(s)
    BY <2>3, <2>5, <2>6 DEF IsQueue
  <2> QED BY <2>5, <2>7, <2>8, <2>9 DEF Has, s
<1> QED BY <1>1, <1>2

LEMMA AppendQueue ==
  ASSUME NEW q, IsQueue(q), NEW w \in Work, ~Has(q, w)
  PROVE  /\ IsQueue(Append(q, w))
         /\ \A v : Has(Append(q, w), v) <=> v = w \/ Has(q, v)
<1> DEFINE s == Append(q, w)
<1>1. PICK n \in Nat : n = Len(q)
  BY QueueLen
<1>2. /\ q \in Seq(Work) /\ DOMAIN q = 1 .. n
      /\ \A i, j \in 1 .. n : q[i] = q[j] => i = j
  BY <1>1, QueueLen
<1>3. /\ s \in Seq(Work) /\ Len(s) = n + 1 /\ s[n + 1] = w
      /\ \A i \in 1 .. n : s[i] = q[i]
  BY <1>1, <1>2, AppendProperties
<1> HIDE DEF s
<1>4. DOMAIN s = 1 .. n + 1
  BY <1>3, LenProperties
<1>5. \A i \in 1 .. n : q[i] # w
  BY <1>2 DEF Has
<1>6. \A i, j \in 1 .. n + 1 : s[i] = s[j] => i = j
  <2> SUFFICES ASSUME NEW i \in 1 .. n + 1, NEW j \in 1 .. n + 1, s[i] = s[j]
               PROVE  i = j
    OBVIOUS
  <2>1. CASE i = n + 1 \/ j = n + 1
    BY <1>3, <1>5, <2>1
  <2>2. CASE i \in 1 .. n /\ j \in 1 .. n
    BY <1>2, <1>3, <2>2
  <2> QED BY <1>1, <2>1, <2>2
<1>7. ASSUME NEW v PROVE Has(s, v) <=> v = w \/ Has(q, v)
  <2>1. ASSUME NEW i \in 1 .. n + 1, s[i] = v PROVE v = w \/ Has(q, v)
    <3>1. CASE i = n + 1
      BY <1>3, <2>1, <3>1
    <3>2. CASE i # n + 1
      <4>1. i \in 1 .. n
        BY <3>2
      <4> QED BY <1>2, <1>3, <2>1, <4>1 DEF Has
    <3> QED BY <3>1, <3>2
  <2>2. ASSUME v = w \/ Has(q, v) PROVE \E i \in 1 .. n + 1 : s[i] = v
    BY <1>2, <1>3, <2>2 DEF Has
  <2> QED BY <1>4, <2>1, <2>2 DEF Has
<1>8. IsQueue(s)
  BY <1>3, <1>4, <1>6 DEF IsQueue
<1> QED BY <1>7, <1>8 DEF s

LEMMA SubmittedQueue ==
  ASSUME IsQueue(queue), NEW w \in Work
  PROVE  /\ IsQueue(Submitted(w))
         /\ \A v : Has(Submitted(w), v) <=> v = w \/ Has(queue, v)
<1>1. /\ IsQueue(Without(queue, w)) /\ ~Has(Without(queue, w), w)
      /\ \A v : v # w => (Has(Without(queue, w), v) <=> Has(queue, v))
  BY WithoutQueue
<1> QED BY <1>1, AppendQueue DEF Submitted

(* The work that is run leaves the queue.                                    *)
LEMMA TailQueue ==
  ASSUME NEW q, IsQueue(q), q # <<>>
  PROVE  /\ IsQueue(Tail(q))
         /\ Head(q) \in Work /\ Has(q, Head(q))
         /\ ~Has(Tail(q), Head(q))
         /\ \A v : v # Head(q) => (Has(Tail(q), v) <=> Has(q, v))
<1> DEFINE s == Tail(q)
<1>1. PICK n \in Nat : n = Len(q)
  BY QueueLen
<1>2. /\ q \in Seq(Work) /\ DOMAIN q = 1 .. n
      /\ \A i, j \in 1 .. n : q[i] = q[j] => i = j
  BY <1>1, QueueLen
<1>3. n # 0
  BY <1>1, <1>2, EmptySeq
<1>4. /\ s \in Seq(Work) /\ Len(s) = n - 1 /\ Head(q) = q[1] /\ Head(q) \in Work
      /\ \A i \in 1 .. n - 1 : s[i] = q[i + 1]
  BY <1>1, <1>2, HeadTailProperties
<1> HIDE DEF s
<1>5. DOMAIN s = 1 .. n - 1
  BY <1>4, LenProperties
<1>6. \A i, j \in 1 .. n - 1 : s[i] = s[j] => i = j
  <2> SUFFICES ASSUME NEW i \in 1 .. n - 1, NEW j \in 1 .. n - 1, s[i] = s[j]
               PROVE  i = j
    OBVIOUS
  <2>1. i + 1 \in 1 .. n /\ j + 1 \in 1 .. n /\ q[i + 1] = q[j + 1]
    BY <1>3, <1>4
  <2>2. i + 1 = j + 1
    BY <1>2, <2>1
  <2> QED BY <2>2
<1>7. ~Has(s, Head(q))
  <2> SUFFICES ASSUME NEW i \in 1 .. n - 1, s[i] = Head(q) PROVE FALSE
    BY <1>5 DEF Has
  <2>1. i + 1 \in 1 .. n /\ 1 \in 1 .. n /\ q[i + 1] = q[1]
    BY <1>3, <1>4
  <2>2. i + 1 = 1
    BY <1>2, <2>1
  <2> QED BY <2>2
<1>8. ASSUME NEW v, v # Head(q) PROVE Has(s, v) <=> Has(q, v)
  <2>1. ASSUME NEW i \in 1 .. n - 1, s[i] = v PROVE Has(q, v)
    <3>1. i + 1 \in 1 .. n /\ q[i + 1] = v
      BY <1>3, <1>4, <2>1
    <3> QED BY <1>2, <3>1 DEF Has
  <2>2. ASSUME NEW j \in 1 .. n, q[j] = v PROVE \E i \in 1 .. n - 1 : s[i] = v
    <3>1. j # 1
      BY <1>4, <1>8, <2>2
    <3>2. j - 1 \in 1 .. n - 1 /\ (j - 1) + 1 = j
      BY <3>1
    <3>3. s[j - 1] = v
      BY <1>4, <2>2, <3>2
    <3> QED BY <3>2, <3>3
  <2> QED BY <1>2, <1>5, <2>1, <2>2 DEF Has
<1>9. IsQueue(s)
  BY <1>4, <1>5, <1>6 DEF IsQueue
<1>10. Has(q, Head(q))
  BY <1>2, <1>3, <1>4 DEF Has
<1> QED BY <1>4, <1>7, <1>8, <1>9, <1>10 DEF s

LEMMA EmptyHasNone == \A v : ~Has(<<>>, v)
  BY DEF Has
-----------------------------------------------------------------------------
(* Types.                                                                    *)

LEMMA LaterType ==
  ASSUME NEW a \in 0 .. MaxAge, NEW n \in Nat
  PROVE  Later(a, n) \in 0 .. MaxAge
  BY GpsAssumption DEF Later

Queued == IsQueue(queue)

(* A step of GPS, whoever takes it.                                          *)
GpsNext == AppStep \/ SysStep \/ GpsStep(Handling) \/ GpsStep(Fix) \/ MainStep
             \/ Minute

LEMMA AppQueue ==
  ASSUME Queued, AppStep
  PROVE  /\ Queued'
         /\ UNCHANGED clock
         /\ \A v \in {"stop", "rsrp"} :
              Has(queue', v) <=> Has(queue, v) /\ ~(Stop /\ v = "stop")
<1>1. CASE Start
  <2>1. queue' = Tail(queue) /\ queue # <<>> /\ Head(queue) = "start"
    BY <1>1 DEF Start
  <2> QED BY <1>1, <2>1, TailQueue DEF Start, Stop, Queued
<1>2. CASE Stop
  <2>1. queue # <<>> /\ Head(queue) = "stop" /\ UNCHANGED clock
    BY <1>2 DEF Stop, clock
  <2>2. queue' = Tail(queue) \/ queue' = Without(Tail(queue), "start")
    BY <1>2 DEF Stop, StopIdle, StopActive, StopFinished
  <2>3. /\ IsQueue(Tail(queue)) /\ ~Has(Tail(queue), "stop")
        /\ Has(Tail(queue), "rsrp") <=> Has(queue, "rsrp")
    BY <2>1, TailQueue DEF Queued
  <2>4. LET s == Without(Tail(queue), "start")
        IN  /\ IsQueue(s) /\ ~Has(s, "stop")
            /\ Has(s, "rsrp") <=> Has(queue, "rsrp")
    BY <2>3, WithoutQueue
  <2> QED BY <1>2, <2>1, <2>2, <2>3, <2>4 DEF Queued
<1>3. CASE StopDone
  <2>1. queue' = Without(queue, "start") /\ UNCHANGED clock /\ ~Stop
    BY <1>3 DEF StopDone, StopFinished, Stop, clock
  <2> QED BY <2>1, WithoutQueue DEF Queued
<1>4. CASE GpsStart \/ StartFails \/ StartDone \/ StopFails
  <2>1. queue' = queue /\ UNCHANGED clock /\ ~Stop
    BY <1>4 DEF GpsStart, StartFails, StartDone, StopFails, Stop, clock
  <2> QED BY <2>1 DEF Queued
<1> QED BY <1>1, <1>2, <1>3, <1>4 DEF AppStep

(* The system queue, the two threads and the clock only submit works.        *)
LEMMA OtherQueue ==
  ASSUME Queued, SysStep \/ GpsStep(Handling) \/ GpsStep(Fix) \/ MainStep \/ Minute
  PROVE  /\ Queued'
         /\ \A v : Has(queue, v) => Has(queue', v)
         /\ Has(queue', "rsrp") <=> Has(queue, "rsrp")
<1>1. queue' = queue \/ \E w \in {"start", "stop"} : queue' = Submitted(w)
  BY DEF SysStep, SearchStopped, Timeout, SearchTimeout, GpsStep, Handling,
         TakeSem, SearchStarted, RecvEnds, Fix, FixStops, FixStamp, FixClock,
         FixStop, MainStep, Look, RequestStart, Post, PostDone, Minute
<1> QED BY <1>1, SubmittedQueue DEF Queued, Work

LEMMA GpsType ==
  ASSUME TypeOK, GpsNext
  PROVE  TypeOK'
<1>0. 0 \in 0 .. MaxAge
  BY GpsAssumption
<1>1. Queued
  BY DEF TypeOK, Queued
<1>2. CASE AppStep
  <2>1. IsQueue(queue') /\ UNCHANGED clock
    BY <1>1, <1>2, AppQueue DEF Queued
  <2>2. UNCHANGED <<mainPc, firstFix, sinceActive, sinceUpdate, skew, sysPc, gpsPc,
                    failed>>
    BY <1>2, <2>1 DEF clock, AppStep, Start, GpsStart, StartFails, StartDone,
       Stop, StopDone, StopFails
  <2>3. flag' \in BOOLEAN /\ appPc' \in {"idle", "psm", "starting", "stopping"}
    BY <1>2 DEF TypeOK, AppStep, Start, GpsStart, StartFails, StartDone, Stop,
       StopIdle, StopActive, StopFinished, StopDone, StopFails
  <2>4. /\ active' \in BOOLEAN /\ timer' \in {"off", "new", "due"}
        /\ stopped' \in BOOLEAN /\ sem' \in {0, 1}
    <3>1. CASE Stop
      BY <3>1 DEF TypeOK, Stop, StopIdle, StopActive, StopFinished
    <3>2. CASE Start \/ GpsStart \/ StartFails \/ StopFails
      BY <3>2 DEF TypeOK, Start, GpsStart, StartFails, StopFails, driver
    <3>3. CASE StartDone \/ StopDone
      BY <3>3 DEF TypeOK, StartDone, StopDone, StopFinished
    <3> QED BY <1>2, <3>1, <3>2, <3>3 DEF AppStep
  <2> QED BY <2>1, <2>2, <2>3, <2>4 DEF TypeOK
<1>3. CASE SysStep
  <2>1. IsQueue(queue')
    BY <1>1, <1>3, OtherQueue DEF Queued
  <2>2. CASE SearchStopped
    <3>1. /\ flag' \in BOOLEAN /\ sinceActive' \in 0 .. MaxAge
          /\ stopped' \in BOOLEAN
      BY <1>0, <2>2 DEF SearchStopped
    <3>2. UNCHANGED <<mainPc, firstFix, sinceUpdate, skew, appPc, active, timer,
                      sysPc, sem, gpsPc, failed>>
      BY <2>2 DEF SearchStopped
    <3> QED BY <2>1, <3>1, <3>2 DEF TypeOK
  <2>3. CASE Timeout
    BY <2>1, <2>3 DEF TypeOK, Timeout, clock
  <2>4. CASE SearchTimeout
    <3>1. flag' \in BOOLEAN /\ sinceActive' \in 0 .. MaxAge /\ sysPc' = "idle"
      BY <1>0, <2>4 DEF SearchTimeout
    <3>2. UNCHANGED <<mainPc, firstFix, sinceUpdate, skew, appPc, active, timer,
                      stopped, sem, gpsPc, failed>>
      BY <2>4 DEF SearchTimeout, driver
    <3> QED BY <2>1, <3>1, <3>2 DEF TypeOK
  <2> QED BY <1>3, <2>2, <2>3, <2>4 DEF SysStep
<1>4. CASE GpsStep(Handling) \/ GpsStep(Fix)
  <2>1. IsQueue(queue')
    BY <1>1, <1>4, OtherQueue DEF Queued
  <2>2. CASE FixClock
    <3>1. skew \in Nat
      BY DEF TypeOK
    <3>2. sinceActive' \in 0 .. MaxAge /\ sinceUpdate' \in 0 .. MaxAge
      BY <2>2, <3>1, LaterType DEF FixClock, TypeOK
    <3>3. UNCHANGED <<mainPc, appPc, stopped, sysPc>>
      BY <1>4 DEF GpsStep
    <3> QED BY <2>1, <2>2, <3>2, <3>3 DEF TypeOK, FixClock
  <2>3. CASE ~FixClock
    <3>1. UNCHANGED <<mainPc, appPc, stopped, sysPc>>
      BY <1>4 DEF GpsStep
    <3>2. CASE TakeSem \/ RecvEnds
      BY <2>1, <3>1, <3>2 DEF TypeOK, TakeSem, RecvEnds, clock
    <3>5. CASE Fix \/ FixStops
      BY <2>1, <3>1, <3>5 DEF TypeOK, Fix, FixStops, clock
    <3>3. CASE SearchStarted \/ FixStamp
      <4>1. /\ flag' \in BOOLEAN /\ firstFix' \in BOOLEAN /\ failed' \in BOOLEAN
            /\ sinceActive' \in 0 .. MaxAge /\ sinceUpdate' \in 0 .. MaxAge
        BY <1>0, <3>3 DEF TypeOK, SearchStarted, FixStamp
      <4>2. /\ gpsPc' \in {"recv", "clock"}
            /\ UNCHANGED <<skew, active, timer, sem>>
        BY <3>3 DEF SearchStarted, FixStamp
      <4> QED BY <2>1, <3>1, <4>1, <4>2 DEF TypeOK
    <3>4. CASE FixStop
      BY <2>1, <3>1, <3>4 DEF TypeOK, FixStop, clock
    <3> QED BY <1>4, <2>3, <3>2, <3>3, <3>4, <3>5 DEF GpsStep, Handling
  <2> QED BY <2>2, <2>3
<1>5. CASE MainStep
  <2>1. IsQueue(queue')
    BY <1>1, <1>5, OtherQueue DEF Queued
  <2> QED BY <1>5, <2>1 DEF TypeOK, MainStep, Look, RequestStart, Post,
        PostDone, clock, driver
<1>6. CASE Minute
  <2>1. Later(sinceActive, 1) \in 0 .. MaxAge /\ Later(sinceUpdate, 1) \in 0 .. MaxAge
    BY LaterType DEF TypeOK
  <2>2. /\ sinceActive' \in 0 .. MaxAge /\ sinceUpdate' \in 0 .. MaxAge
        /\ timer' \in {"off", "new", "due"}
    BY <1>0, <1>6, <2>1 DEF TypeOK, Minute
  <2>3. UNCHANGED <<mainPc, flag, firstFix, skew, queue, appPc, active, stopped,
                    sysPc, sem, gpsPc, failed>>
    BY <1>6 DEF Minute
  <2> QED BY <2>2, <2>3 DEF TypeOK
<1> QED BY <1>2, <1>3, <1>4, <1>5, <1>6 DEF GpsNext

(* The steps of the signal strength beside them.                             *)
SignalNext ==
  \/ AtStep(StoreValue)
  \/ AtStep(TestRemaining)
  \/ AtStep(SubmitNow)
  \/ PrintWork
  \/ HoldEnds

(* They touch nothing of GPS but the queue, and there only rsrp_work.        *)
LEMMA SignalQueue ==
  ASSUME Queued, SignalNext
  PROVE  /\ Queued'
         /\ UNCHANGED <<mainPc, flag, firstFix, clock, driver, appPc, sysPc, gpsPc,
                        failed>>
         /\ \A v : v # "rsrp" => (Has(queue', v) <=> Has(queue, v))
         /\ Has(queue', "rsrp") <=>
              AtStep(SubmitNow) \/ HoldEnds \/ (Has(queue, "rsrp") /\ ~PrintWork)
<1>1. UNCHANGED <<mainPc, flag, firstFix, clock, driver, appPc, sysPc, gpsPc, failed>>
  BY DEF SignalNext, AtStep, PrintWork, HoldEnds
<1>2. CASE AtStep(StoreValue) \/ AtStep(TestRemaining)
  <2>1. queue' = queue /\ atPc' # atPc
    BY <1>2 DEF AtStep, StoreValue, TestRemaining
  <2>2. ~HoldEnds /\ ~PrintWork
    BY <2>1 DEF HoldEnds, PrintWork
  <2>3. ~AtStep(SubmitNow)
    BY <1>2 DEF AtStep, StoreValue, TestRemaining, SubmitNow
  <2> QED BY <1>1, <2>1, <2>2, <2>3 DEF Queued
<1>3. CASE AtStep(SubmitNow) \/ HoldEnds
  <2>1. queue' = Submitted("rsrp")
    BY <1>3 DEF AtStep, SubmitNow, HoldEnds
  <2> QED BY <1>1, <1>3, <2>1, SubmittedQueue DEF Queued, Work
<1>4. CASE PrintWork
  <2>1. queue # <<>> /\ Head(queue) = "rsrp" /\ queue' = Tail(queue)
    BY <1>4 DEF PrintWork
  <2>2. /\ IsQueue(queue') /\ ~Has(queue', "rsrp")
        /\ \A v : v # "rsrp" => (Has(queue', v) <=> Has(queue, v))
    BY <2>1, TailQueue DEF Queued
  <2>3. ~HoldEnds /\ ~AtStep(SubmitNow)
    <3>1. CASE HoldEnds \/ AtStep(SubmitNow)
      <4>1. queue' = Submitted("rsrp")
        BY <3>1 DEF AtStep, SubmitNow, HoldEnds
      <4>2. Has(queue', "rsrp")
        BY <4>1, SubmittedQueue DEF Queued, Work
      <4> QED BY <2>2, <4>2
    <3> QED BY <3>1
  <2> QED BY <1>1, <1>4, <2>2, <2>3 DEF Queued
<1> QED BY <1>2, <1>3, <1>4 DEF SignalNext

LEMMA RsrpNextSplit ==
  ASSUME [RsrpNext]_rsrpVars
  PROVE  \/ GpsNext /\ UNCHANGED signal
         \/ SignalNext
         \/ HoldMinute
         \/ UNCHANGED rsrpVars
  BY DEF RsrpNext, Gps, GpsNext, SignalNext

LEMMA RsrpTypeStep ==
  ASSUME RsrpTypeOK, [RsrpNext]_rsrpVars
  PROVE  RsrpTypeOK'
<1>1. TypeOK /\ Queued
  BY DEF RsrpTypeOK, TypeOK, Queued
<1>2. CASE GpsNext /\ UNCHANGED signal
  BY <1>1, <1>2, GpsType DEF RsrpTypeOK, signal
<1>3. CASE SignalNext
  <2>1. TypeOK'
    <3>1. /\ IsQueue(queue')
          /\ UNCHANGED <<mainPc, flag, firstFix, clock, driver, appPc, sysPc, gpsPc,
                         failed>>
      BY <1>1, <1>3, SignalQueue DEF Queued
    <3> QED BY <1>1, <3>1 DEF TypeOK, clock, driver
  <2>2. /\ news' \in BOOLEAN /\ skipped' \in BOOLEAN
        /\ hold' \in {"off", "new", "due"}
        /\ atPc' \in {"idle", "test", "submit"}
        /\ printed' \in {"held", "rested", "crossed"}
    <3>1. CASE PrintWork
      BY <3>1 DEF RsrpTypeOK, PrintWork, PrintValue, Posting
    <3>2. CASE ~PrintWork
      BY <1>3, <3>2 DEF RsrpTypeOK, SignalNext, AtStep, StoreValue,
         TestRemaining, SubmitNow, HoldEnds
    <3> QED BY <3>1, <3>2
  <2> QED BY <2>1, <2>2 DEF RsrpTypeOK
<1>4. CASE HoldMinute
  <2>1. TypeOK'
    BY <1>1, <1>4, GpsType DEF HoldMinute, GpsNext
  <2> QED BY <1>4, <2>1 DEF RsrpTypeOK, HoldMinute
<1>5. CASE UNCHANGED rsrpVars
  BY <1>5 DEF RsrpTypeOK, TypeOK, rsrpVars
<1> QED BY <1>2, <1>3, <1>4, <1>5, RsrpNextSplit

LEMMA RsrpTypeInit == RsrpInit => RsrpTypeOK
<1> SUFFICES ASSUME RsrpInit PROVE RsrpTypeOK
  OBVIOUS
<1>1. Init
  BY DEF RsrpInit
<1>2. IsQueue(<<"start">>)
  BY DEF IsQueue, Work
<1>3. TypeOK
  <2>1. /\ skew \in {0, MaxAge} /\ sinceActive \in 0 .. MaxAge
        /\ sinceUpdate \in 0 .. MaxAge
    BY <1>1, GpsAssumption DEF Init
  <2>2. IsQueue(queue)
    BY <1>1, <1>2 DEF Init
  <2> QED BY <1>1, <2>1, <2>2 DEF Init, TypeOK
<1> QED BY <1>3 DEF RsrpInit, RsrpTypeOK

(* The two counts of minutes stay within their bound, and no work is queued  *)
(* twice, whichever of the four submitters comes first.                      *)
THEOREM RsrpTypeCorrect == RsrpSpec => []RsrpTypeOK
<1>1. RsrpTypeOK /\ [RsrpNext]_rsrpVars => RsrpTypeOK'
  BY RsrpTypeStep
<1> QED BY <1>1, RsrpTypeInit, PTL DEF RsrpSpec
-----------------------------------------------------------------------------
(* A search is announced.                                                    *)

LEMMA NoStartStopsLast ==
  ASSUME NEW q, ~Has(q, "start")
  PROVE  StopsLast(q)
  BY DEF Has, StopsLast

LEMMA StopsLastHasStop ==
  ASSUME NEW q, StopsLast(q), Has(q, "start")
  PROVE  Has(q, "stop")
  BY DEF Has, StopsLast

(* Running a work leaves the others in their order.                          *)
LEMMA TailStopsLast ==
  ASSUME NEW q, IsQueue(q), q # <<>>, StopsLast(q)
  PROVE  /\ StopsLast(Tail(q))
         /\ Head(q) = "stop" => ~Has(q, "start")
<1>1. PICK n \in Nat : n = Len(q)
  BY QueueLen
<1>2. /\ q \in Seq(Work) /\ DOMAIN q = 1 .. n
      /\ \A i, j \in 1 .. n : q[i] = q[j] => i = j
  BY <1>1, QueueLen
<1>3. n # 0
  BY <1>1, <1>2, EmptySeq
<1>4. PICK s : s = Tail(q)
  OBVIOUS
<1>5. /\ s \in Seq(Work) /\ Len(s) = n - 1 /\ Head(q) = q[1]
      /\ \A i \in 1 .. n - 1 : s[i] = q[i + 1]
  BY <1>1, <1>2, <1>4, HeadTailProperties
<1>6. DOMAIN s = 1 .. n - 1
  BY <1>5, LenProperties
<1>7. ASSUME NEW i \in 1 .. n - 1, s[i] = "start"
      PROVE  \E j \in 1 .. n - 1 : i < j /\ s[j] = "stop"
  <2>1. i + 1 \in 1 .. n /\ q[i + 1] = "start"
    BY <1>3, <1>5, <1>7
  <2>2. PICK k \in 1 .. n : i + 1 < k /\ q[k] = "stop"
    BY <1>2, <2>1 DEF StopsLast
  <2>3. k - 1 \in 1 .. n - 1 /\ i < k - 1 /\ (k - 1) + 1 = k
    BY <2>2
  <2> QED BY <1>5, <2>2, <2>3
<1>8. StopsLast(s)
  BY <1>6, <1>7 DEF StopsLast
<1>9. ASSUME Head(q) = "stop", NEW i \in 1 .. n, q[i] = "start" PROVE FALSE
  <2>1. PICK k \in 1 .. n : i < k /\ q[k] = "stop"
    BY <1>2, <1>9 DEF StopsLast
  <2>2. 1 \in 1 .. n /\ q[1] = "stop"
    BY <1>3, <1>5, <1>9
  <2> QED BY <1>2, <2>1, <2>2
<1> QED BY <1>2, <1>4, <1>8, <1>9 DEF Has

(* Nor does submitting the signal strength's work change it, and the stop is *)
(* submitted behind the start.                                               *)
LEMMA WithoutStopsLast ==
  ASSUME NEW q, IsQueue(q), StopsLast(q)
  PROVE  StopsLast(Without(q, "rsrp"))
<1>1. CASE ~Has(q, "rsrp")
  BY <1>1, WithoutAbsent
<1>2. CASE Has(q, "rsrp")
  <2>1. PICK k, s, n : k = At(q, "rsrp") /\ s = Without(q, "rsrp") /\ n = Len(q)
    OBVIOUS
  <2>2. /\ k \in 1 .. n /\ q[k] = "rsrp"
        /\ s \in Seq(Work) /\ Len(s) = n - 1
        /\ \A i \in 1 .. n - 1 : s[i] = IF i < k THEN q[i] ELSE q[i + 1]
    BY <1>2, <2>1, WithoutElements
  <2>3. n \in Nat /\ DOMAIN q = 1 .. n /\ DOMAIN s = 1 .. n - 1
    BY <2>1, <2>2, QueueLen, LenProperties
  <2>4. ASSUME NEW i \in 1 .. n - 1, s[i] = "start"
        PROVE  \E j \in 1 .. n - 1 : i < j /\ s[j] = "stop"
    <3>1. PICK a \in 1 .. n : q[a] = "start" /\ a = IF i < k THEN i ELSE i + 1
      BY <2>2, <2>3, <2>4
    <3>2. PICK b \in 1 .. n : a < b /\ q[b] = "stop"
      BY <2>3, <3>1 DEF StopsLast
    <3>3. b # k
      BY <2>2, <3>2
    <3>4. CASE b < k
      <4>1. b \in 1 .. n - 1 /\ i < b
        BY <2>2, <2>3, <3>1, <3>2, <3>4
      <4> QED BY <2>2, <3>2, <3>4, <4>1
    <3>5. CASE b > k
      <4>1. b - 1 \in 1 .. n - 1 /\ ~(b - 1 < k) /\ (b - 1) + 1 = b /\ i < b - 1
        BY <2>2, <2>3, <3>1, <3>2, <3>5
      <4>2. s[b - 1] = q[b]
        BY <2>2, <4>1
      <4> QED BY <3>2, <4>1, <4>2
    <3> QED BY <2>2, <2>3, <3>2, <3>3, <3>4, <3>5
  <2> QED BY <2>1, <2>3, <2>4 DEF StopsLast
<1> QED BY <1>1, <1>2

LEMMA AppendStopsLast ==
  ASSUME NEW q, IsQueue(q), NEW w \in Work,
         w = "stop" \/ (w = "rsrp" /\ StopsLast(q))
  PROVE  StopsLast(Append(q, w))
<1>1. PICK n, s : n = Len(q) /\ s = Append(q, w)
  OBVIOUS
<1>2. q \in Seq(Work) /\ n \in Nat /\ DOMAIN q = 1 .. n
  BY <1>1, QueueLen
<1>3. /\ s \in Seq(Work) /\ Len(s) = n + 1 /\ s[n + 1] = w
      /\ \A i \in 1 .. n : s[i] = q[i]
  BY <1>1, <1>2, AppendProperties
<1>4. DOMAIN s = 1 .. n + 1
  BY <1>3, LenProperties
<1>5. ASSUME NEW i \in 1 .. n + 1, s[i] = "start"
      PROVE  \E j \in 1 .. n + 1 : i < j /\ s[j] = "stop"
  <2>1. i \in 1 .. n /\ q[i] = "start"
    BY <1>2, <1>3, <1>5
  <2>2. CASE w = "stop"
    <3>1. n + 1 \in 1 .. n + 1 /\ i < n + 1 /\ s[n + 1] = "stop"
      BY <1>3, <2>1, <2>2
    <3> QED BY <3>1
  <2>3. CASE StopsLast(q)
    <3>1. PICK j \in 1 .. n : i < j /\ q[j] = "stop"
      BY <1>2, <2>1, <2>3 DEF StopsLast
    <3> QED BY <1>2, <1>3, <3>1
  <2> QED BY <2>2, <2>3
<1> QED BY <1>1, <1>4, <1>5 DEF StopsLast

LEMMA SubmittedStopsLast ==
  ASSUME Queued
  PROVE  /\ StopsLast(Submitted("stop"))
         /\ StopsLast(queue) => StopsLast(Submitted("rsrp"))
  BY WithoutQueue, WithoutStopsLast, AppendStopsLast DEF Queued, Submitted, Work

(* What AnnounceInv says of a start while an event is to come.               *)
StopComes ==
  SysReady => /\ StopsLast(queue)
              /\ appPc \in {"psm", "starting"} => Has(queue, "stop")

LEMMA AppStopComes ==
  ASSUME Queued, StopComes, AppStep
  PROVE  StopComes'
<1>1. sysPc' = sysPc
  BY DEF AppStep, Start, GpsStart, StartFails, StartDone, Stop, StopDone, StopFails
<1>2. CASE Start
  <2>1. queue' = Tail(queue) /\ queue # <<>> /\ Head(queue) = "start" /\ stopped' = stopped
    BY <1>2 DEF Start, driver
  <2>2. Has(queue, "start") /\ (Has(queue', "stop") <=> Has(queue, "stop"))
    BY <2>1, TailQueue DEF Queued
  <2> QED BY <1>1, <2>1, <2>2, TailStopsLast, StopsLastHasStop
          DEF StopComes, SysReady, Queued
<1>3. CASE Stop
  <2>1. queue # <<>> /\ Head(queue) = "stop"
    BY <1>3 DEF Stop
  <2>2. IsQueue(Tail(queue))
    BY <2>1, TailQueue DEF Queued
  <2>3. CASE StopIdle
    <3>1. queue' = Without(Tail(queue), "start") /\ appPc' = "idle"
      BY <2>3 DEF StopIdle, StopFinished
    <3> QED BY <2>2, <3>1, WithoutQueue, NoStartStopsLast DEF StopComes
  <2>4. CASE StopActive
    <3>1. queue' = Tail(queue) /\ appPc' = "stopping" /\ stopped' = stopped
      BY <2>4 DEF StopActive
    <3> QED BY <1>1, <2>1, <3>1, TailStopsLast DEF StopComes, SysReady, Queued
  <2> QED BY <1>3, <2>3, <2>4 DEF Stop
<1>4. CASE StopDone
  <2>1. queue' = Without(queue, "start") /\ appPc' = "idle"
    BY <1>4 DEF StopDone, StopFinished
  <2> QED BY <2>1, WithoutQueue, NoStartStopsLast DEF StopComes, Queued
<1>5. CASE GpsStart \/ StartFails \/ StartDone \/ StopFails
  <2>1. queue' = queue /\ stopped' = stopped
    BY <1>5 DEF GpsStart, StartFails, StartDone, StopFails, driver
  <2>2. appPc' \in {"psm", "starting"} => appPc \in {"psm", "starting"}
    BY <1>5 DEF GpsStart, StartFails, StartDone, StopFails
  <2> QED BY <1>1, <2>1, <2>2 DEF StopComes, SysReady
<1> QED BY <1>2, <1>3, <1>4, <1>5 DEF AppStep

LEMMA AppAnnounces ==
  ASSUME Queued, TypeOK, AnnounceInv, AppStep
  PROVE  AnnounceInv'
<1>1. ~Stop /\ Has(queue, "stop") => Has(queue', "stop")
  BY AppQueue
<1>2. UNCHANGED <<sysPc, gpsPc>>
  BY DEF AppStep, Start, GpsStart, StartFails, StartDone, Stop, StopDone, StopFails
<1>3. StopComes'
  BY AppStopComes DEF StopComes, AnnounceInv
<1>4. CASE StartDone
  <2>1. /\ flag' /\ appPc = "starting" /\ appPc' = "idle" /\ sem' = 1
        /\ UNCHANGED <<queue, stopped>>
    BY <1>4 DEF StartDone
  <2>2. stopped => sysPc = "timeout" \/ Has(queue, "stop")
    BY <2>1 DEF AnnounceInv, SysReady, TypeOK
  <2>3. stopped' => Announcing'
    BY <1>2, <2>1, <2>2 DEF Announcing
  <2> QED BY <1>3, <2>1, <2>3 DEF AnnounceInv, StopComes
<1>5. CASE Stop
  BY <1>3, <1>5 DEF Stop, StopIdle, StopActive, StopFinished, AnnounceInv, StopComes
<1>6. CASE StopDone
  BY <1>3, <1>6 DEF StopDone, StopFinished, AnnounceInv, StopComes
<1>7. CASE Start \/ GpsStart \/ StartFails \/ StopFails
  <2>1. UNCHANGED <<active, flag, stopped, sem>> /\ appPc' # "stopping"
    BY <1>7 DEF Start, GpsStart, StartFails, StopFails, driver
  <2>2. ~Stop
    BY <1>7 DEF Start, GpsStart, StartFails, StopFails, Stop
  <2> QED BY <1>1, <1>2, <1>3, <2>1, <2>2 DEF AnnounceInv, StopComes, Announcing
<1> QED BY <1>4, <1>5, <1>6, <1>7 DEF AppStep

LEMMA SysAnnounces ==
  ASSUME Queued, AnnounceInv, SysStep
  PROVE  AnnounceInv'
<1>1. CASE SearchStopped
  BY <1>1 DEF SearchStopped, AnnounceInv, Announcing, SysReady
<1>2. CASE Timeout
  BY <1>2 DEF Timeout, AnnounceInv, SysReady
<1>3. CASE SearchTimeout
  <2>1. Has(queue', "stop") /\ StopsLast(queue')
    BY <1>3, SubmittedQueue, SubmittedStopsLast DEF SearchTimeout, Queued, Work
  <2> QED BY <1>3, <2>1 DEF SearchTimeout, AnnounceInv, Announcing, driver
<1> QED BY <1>1, <1>2, <1>3 DEF SysStep

(* The GPS thread runs only when no event of the system queue waits: what it  *)
(* announces stays, unless a time-out is to come that submits a stop.        *)
LEMMA ThreadAnnounces ==
  ASSUME TypeOK, AnnounceInv, GpsStep(Handling) \/ GpsStep(Fix)
  PROVE  AnnounceInv'
<1>1. Has(queue, "stop") => Has(queue', "stop")
  BY OtherQueue DEF TypeOK, Queued
<1>2. /\ ~SysReady /\ ~SysReady' /\ (stopped => sysPc = "timeout")
      /\ UNCHANGED <<appPc, stopped, sysPc>>
  BY DEF GpsStep, GpsMayRun, MainMayRun, SysReady, TypeOK
<1>3. appPc = "stopping" => ~active
  BY DEF AnnounceInv
<1>4. CASE SearchStarted
  <2>1. flag' /\ active' = active
    BY <1>4 DEF SearchStarted
  <2>2. stopped' => Announcing'
    BY <1>2 DEF Announcing
  <2> QED BY <1>2, <1>3, <2>1, <2>2 DEF AnnounceInv
<1>5. CASE TakeSem \/ FixStamp \/ FixClock
  <2>1. active' = active /\ gpsPc' \in {"started", "clock", "stop"}
    BY <1>5 DEF TakeSem, FixStamp, FixClock
  <2> QED BY <1>2, <1>3, <2>1 DEF AnnounceInv, Announcing
<1>6. CASE FixStops \/ RecvEnds
  <2>1. ~active'
    BY <1>6 DEF FixStops, RecvEnds
  <2> QED BY <1>2, <2>1 DEF AnnounceInv
<1>7. CASE FixStop
  <2>1. Has(queue', "stop") /\ active' = active
    BY <1>7, SubmittedQueue DEF FixStop, TypeOK, Work
  <2> QED BY <1>2, <1>3, <2>1 DEF AnnounceInv, Announcing
<1>8. CASE Fix
  <2>1. gpsPc = "recv" /\ gpsPc' = "fix" /\ UNCHANGED <<active, flag, sem, queue>>
    BY <1>8 DEF Fix
  <2> QED BY <1>2, <2>1 DEF AnnounceInv, Announcing
<1> QED BY <1>4, <1>5, <1>6, <1>7, <1>8 DEF GpsStep, Handling

LEMMA AnnounceStep ==
  ASSUME RsrpTypeOK, AnnounceInv, [RsrpNext]_rsrpVars
  PROVE  AnnounceInv'
<1>0. TypeOK /\ Queued
  BY DEF RsrpTypeOK, TypeOK, Queued
<1>1. CASE MainStep \/ Minute
  <2>1. Has(queue, "stop") => Has(queue', "stop")
    BY <1>0, <1>1, OtherQueue
  <2>2. UNCHANGED <<active, flag, stopped, sem, sysPc, gpsPc, appPc>>
    BY <1>1 DEF MainStep, Minute, driver
  <2>3. ~SysReady'
    BY <1>1, <2>2 DEF MainStep, MainMayRun, Minute, Settled, SysReady
  <2> QED BY <2>1, <2>2, <2>3 DEF AnnounceInv, Announcing
<1>2. CASE GpsNext
  BY <1>0, <1>1, <1>2, AppAnnounces, SysAnnounces, ThreadAnnounces DEF GpsNext
<1>3. CASE SignalNext
  <2>1. Has(queue', "stop") <=> Has(queue, "stop")
    BY <1>0, <1>3, SignalQueue
  <2>2. UNCHANGED <<active, flag, stopped, sem, sysPc, gpsPc, appPc>>
    BY <1>0, <1>3, SignalQueue DEF driver
  <2>3. StopsLast(queue) => StopsLast(queue')
    <3>1. CASE PrintWork
      BY <1>0, <3>1, TailStopsLast DEF PrintWork, Queued
    <3>2. CASE ~PrintWork
      <4>1. queue' = queue \/ queue' = Submitted("rsrp")
        BY <1>3, <3>2 DEF SignalNext, AtStep, StoreValue, TestRemaining, SubmitNow,
           HoldEnds
      <4> QED BY <1>0, <4>1, SubmittedStopsLast
    <3> QED BY <3>1, <3>2
  <2> QED BY <2>1, <2>2, <2>3 DEF AnnounceInv, Announcing, SysReady
<1>4. CASE HoldMinute
  BY <1>1, <1>4 DEF HoldMinute
<1>5. CASE UNCHANGED rsrpVars
  BY <1>5 DEF rsrpVars, AnnounceInv, Announcing, SysReady
<1> QED BY <1>2, <1>3, <1>4, <1>5, RsrpNextSplit

(* The main loop knows of every search that is under way: an event of the    *)
(* search before is followed by the announcement of this one, or by a stop.  *)
THEOREM EverySearchIsAnnounced == RsrpSpec => []SearchIsAnnounced
<1>1. RsrpInit => AnnounceInv
  BY DEF RsrpInit, Init, AnnounceInv, SysReady
<1>2. RsrpTypeOK /\ AnnounceInv /\ [RsrpNext]_rsrpVars => AnnounceInv'
  BY AnnounceStep
<1>3. RsrpTypeOK /\ AnnounceInv => SearchIsAnnounced
  <2> SUFFICES ASSUME AnnounceInv, Settled, active, flag \in BOOLEAN PROVE flag
    BY DEF SearchIsAnnounced, RsrpTypeOK, TypeOK
  <2>1. ~Announcing
    BY EmptyHasNone DEF Announcing, Settled
  <2> QED BY <2>1 DEF AnnounceInv
<1> QED BY <1>1, <1>2, <1>3, RsrpTypeCorrect, PTL DEF RsrpSpec
-----------------------------------------------------------------------------
(* The signal strength.                                                      *)

(* A step of GPS neither cancels rsrp_work nor runs it.                      *)
LEMMA GpsKeepsSignal ==
  ASSUME Queued, GpsNext
  PROVE  Has(queue', "rsrp") <=> Has(queue, "rsrp")
  BY AppQueue, OtherQueue DEF GpsNext

LEMMA ScheduledStep ==
  ASSUME Queued, NewValueIsScheduled, [RsrpNext]_rsrpVars
  PROVE  NewValueIsScheduled'
<1>1. CASE GpsNext /\ UNCHANGED signal
  BY <1>1, GpsKeepsSignal DEF NewValueIsScheduled, signal
<1>2. CASE AtStep(StoreValue)
  BY <1>2 DEF AtStep, StoreValue, NewValueIsScheduled
<1>3. CASE AtStep(TestRemaining)
  BY <1>3 DEF AtStep, TestRemaining, NewValueIsScheduled
<1>4. CASE AtStep(SubmitNow) \/ HoldEnds
  <2>1. Has(queue', "rsrp")
    BY <1>4, SignalQueue DEF SignalNext
  <2> QED BY <2>1 DEF NewValueIsScheduled
<1>5. CASE PrintWork
  <2>1. ~news' \/ skipped'
    BY <1>5 DEF PrintWork, PrintValue
  <2> QED BY <2>1 DEF NewValueIsScheduled
<1>6. CASE HoldMinute
  <2>1. queue' = queue /\ (hold # "off" => hold' # "off")
    BY <1>6 DEF HoldMinute, Minute
  <2> QED BY <1>6, <2>1 DEF NewValueIsScheduled, HoldMinute
<1>7. CASE UNCHANGED rsrpVars
  BY <1>7 DEF rsrpVars, NewValueIsScheduled
<1> QED BY <1>1, <1>2, <1>3, <1>4, <1>5, <1>6, <1>7, RsrpNextSplit DEF SignalNext

(* However the callback, the hold time and GPS interleave, a value that is   *)
(* not printed yet has a work or a timer that will look at it.               *)
THEOREM NoValueIsForgotten == RsrpSpec => []NewValueIsScheduled
<1>1. RsrpInit => NewValueIsScheduled
  BY DEF RsrpInit, NewValueIsScheduled
<1>2. /\ RsrpTypeOK /\ NewValueIsScheduled /\ [RsrpNext]_rsrpVars
      => NewValueIsScheduled'
  BY ScheduledStep DEF RsrpTypeOK, TypeOK, Queued
<1> QED BY <1>1, <1>2, RsrpTypeCorrect, PTL DEF RsrpSpec

LEMMA HoldStep ==
  ASSUME Queued, HoldInv, [RsrpNext]_rsrpVars
  PROVE  HoldInv'
<1>1. CASE GpsNext /\ UNCHANGED signal
  BY <1>1, GpsKeepsSignal DEF HoldInv, signal
<1>2. CASE AtStep(StoreValue) \/ AtStep(TestRemaining)
  <2>1. UNCHANGED <<queue, hold, printed>>
    BY <1>2 DEF AtStep, StoreValue, TestRemaining
  <2>2. atPc' = "submit" => hold = "off"
    BY <1>2 DEF AtStep, StoreValue, TestRemaining
  <2> QED BY <2>1, <2>2 DEF HoldInv
<1>3. CASE AtStep(SubmitNow)
  BY <1>3 DEF AtStep, SubmitNow, HoldInv
<1>4. CASE HoldEnds
  BY <1>4 DEF HoldEnds, HoldInv
<1>5. CASE PrintWork
  <2>1. Has(queue, "rsrp") /\ ~Has(queue', "rsrp")
    <3>1. queue # <<>> /\ Head(queue) = "rsrp" /\ queue' = Tail(queue)
      BY <1>5 DEF PrintWork
    <3> QED BY <3>1, TailQueue DEF Queued
  <2>2. printed # "held"
    BY <2>1 DEF HoldInv
  <2>3. printed' = "held" => hold' = "new" /\ atPc' # "submit"
    BY <1>5, <2>2 DEF PrintWork, PrintValue
  <2> QED BY <2>1, <2>3 DEF HoldInv
<1>6. CASE HoldMinute
  BY <1>6 DEF HoldMinute, HoldInv
<1>7. CASE UNCHANGED rsrpVars
  BY <1>7 DEF rsrpVars, HoldInv
<1> QED BY <1>1, <1>2, <1>3, <1>4, <1>5, <1>6, <1>7, RsrpNextSplit DEF SignalNext

(* While a value is held nothing that prints can be at the head of the queue.*)
LEMMA HeldIsNotPrinted ==
  ASSUME Queued, HoldInv, PrintWork
  PROVE  printed # "held"
<1>1. queue # <<>> /\ Head(queue) = "rsrp"
  BY DEF PrintWork
<1> QED BY <1>1, TailQueue DEF HoldInv, Queued

(* Two values are printed a hold time apart, but for the one submission that *)
(* had tested the timer before it was started.                               *)
THEOREM HoldTimeIsKept == RsrpSpec => HoldTimeKept
<1>1. RsrpInit => HoldInv
  BY DEF RsrpInit, HoldInv
<1>2. RsrpTypeOK /\ HoldInv /\ [RsrpNext]_rsrpVars => HoldInv'
  BY HoldStep DEF RsrpTypeOK, TypeOK, Queued
<1>3. RsrpTypeOK /\ HoldInv =>
        [PrintWork /\ PrintValue => printed # "held"]_rsrpVars
  BY HeldIsNotPrinted DEF RsrpTypeOK, TypeOK, Queued
<1> QED BY <1>1, <1>2, <1>3, RsrpTypeCorrect, PTL DEF RsrpSpec, HoldTimeKept
-----------------------------------------------------------------------------
(* GPS beside the signal strength does what GPS does alone.                  *)

LEMMA AtIsOnlyPlace ==
  ASSUME NEW q, IsQueue(q), NEW k \in 1 .. Len(q), NEW w, q[k] = w
  PROVE  Has(q, w) /\ At(q, w) = k
<1>1. /\ DOMAIN q = 1 .. Len(q)
      /\ \A i, j \in 1 .. Len(q) : q[i] = q[j] => i = j
  BY QueueLen
<1>2. Has(q, w)
  BY <1>1 DEF Has
<1>3. At(q, w) \in 1 .. Len(q) /\ q[At(q, w)] = w
  BY <1>1, <1>2, AtIsPlace
<1> QED BY <1>1, <1>2, <1>3

(* Two works that are cancelled, the first of them ahead of the second.      *)
LEMMA WithoutTwo ==
  ASSUME NEW q, IsQueue(q), NEW v, NEW w, Has(q, v), Has(q, w),
         At(q, v) < At(q, w)
  PROVE  Without(Without(q, v), w) = Without(Without(q, w), v)
<1>1. PICK a, b, n : a = At(q, v) /\ b = At(q, w) /\ n = Len(q)
  OBVIOUS
<1>2. PICK s, t : s = Without(q, v) /\ t = Without(q, w)
  OBVIOUS
<1>3. /\ a \in 1 .. n /\ q[a] = v /\ b \in 1 .. n /\ q[b] = w /\ a < b
      /\ n \in Nat
  BY <1>1, WithoutElements, QueueLen
<1>4. /\ IsQueue(s) /\ Len(s) = n - 1
      /\ \A i \in 1 .. n - 1 : s[i] = IF i < a THEN q[i] ELSE q[i + 1]
  BY <1>1, <1>2, WithoutElements, WithoutQueue
<1>5. /\ IsQueue(t) /\ Len(t) = n - 1
      /\ \A i \in 1 .. n - 1 : t[i] = IF i < b THEN q[i] ELSE q[i + 1]
  BY <1>1, <1>2, WithoutElements, WithoutQueue
<1>6. Has(s, w) /\ At(s, w) = b - 1
  <2>1. b - 1 \in 1 .. n - 1 /\ ~(b - 1 < a) /\ (b - 1) + 1 = b
    BY <1>3
  <2>2. s[b - 1] = w
    BY <1>3, <1>4, <2>1
  <2> QED BY <1>4, <2>1, <2>2, AtIsOnlyPlace
<1>7. Has(t, v) /\ At(t, v) = a
  <2>1. a \in 1 .. n - 1
    BY <1>3
  <2>2. t[a] = v
    BY <1>3, <1>5, <2>1
  <2> QED BY <1>5, <2>1, <2>2, AtIsOnlyPlace
<1>8. PICK x, y : x = Without(s, w) /\ y = Without(t, v)
  OBVIOUS
<1>9. /\ x \in Seq(Work) /\ Len(x) = n - 2
      /\ \A i \in 1 .. n - 2 : x[i] = IF i < b - 1 THEN s[i] ELSE s[i + 1]
  <2>1. /\ x \in Seq(Work) /\ Len(x) = Len(s) - 1
        /\ \A i \in 1 .. Len(s) - 1 : x[i] = IF i < b - 1 THEN s[i] ELSE s[i + 1]
    BY <1>4, <1>6, <1>8, WithoutElements
  <2>2. Len(s) - 1 = n - 2
    BY <1>3, <1>4
  <2> QED BY <2>1, <2>2
<1>10. /\ y \in Seq(Work) /\ Len(y) = n - 2
       /\ \A i \in 1 .. n - 2 : y[i] = IF i < a THEN t[i] ELSE t[i + 1]
  <2>1. /\ y \in Seq(Work) /\ Len(y) = Len(t) - 1
        /\ \A i \in 1 .. Len(t) - 1 : y[i] = IF i < a THEN t[i] ELSE t[i + 1]
    BY <1>5, <1>7, <1>8, WithoutElements
  <2>2. Len(t) - 1 = n - 2
    BY <1>3, <1>5
  <2> QED BY <2>1, <2>2
<1>11. ASSUME NEW i \in 1 .. n - 2 PROVE x[i] = y[i]
  <2>1. i \in 1 .. n - 1 /\ i + 1 \in 1 .. n - 1
    BY <1>3
  <2>2. CASE i < a
    <3>1. x[i] = q[i]
      BY <1>3, <1>4, <1>9, <2>1, <2>2
    <3>2. y[i] = q[i]
      BY <1>3, <1>5, <1>10, <2>1, <2>2
    <3> QED BY <3>1, <3>2
  <2>3. CASE ~(i < a) /\ i < b - 1
    <3>1. x[i] = q[i + 1]
      BY <1>3, <1>4, <1>9, <2>1, <2>3
    <3>2. y[i] = q[i + 1]
      BY <1>3, <1>5, <1>10, <2>1, <2>3
    <3> QED BY <3>1, <3>2
  <2>4. CASE ~(i < b - 1)
    <3>1. x[i] = q[(i + 1) + 1]
      BY <1>3, <1>4, <1>9, <2>1, <2>4
    <3>2. y[i] = q[(i + 1) + 1]
      BY <1>3, <1>5, <1>10, <2>1, <2>4
    <3> QED BY <3>1, <3>2
  <2> QED BY <1>3, <2>2, <2>3, <2>4
<1>12. x = y
  BY <1>9, <1>10, <1>11, SeqEqual
<1> QED BY <1>2, <1>8, <1>12

LEMMA WithoutCommutes ==
  ASSUME NEW q, IsQueue(q), NEW v, NEW w
  PROVE  Without(Without(q, v), w) = Without(Without(q, w), v)
<1>1. CASE v = w
  BY <1>1
<1>2. CASE v # w /\ ~Has(q, v)
  <2>1. ~Has(Without(q, w), v)
    BY <1>2, WithoutQueue
  <2> QED BY <1>2, <2>1, WithoutAbsent
<1>3. CASE v # w /\ ~Has(q, w)
  <2>1. ~Has(Without(q, v), w)
    BY <1>3, WithoutQueue
  <2> QED BY <1>3, <2>1, WithoutAbsent
<1>4. CASE v # w /\ Has(q, v) /\ Has(q, w)
  <2>1. /\ Len(q) \in Nat
        /\ At(q, v) \in 1 .. Len(q) /\ At(q, w) \in 1 .. Len(q)
        /\ At(q, v) # At(q, w)
    BY <1>4, AtIsPlace, QueueLen
  <2>2. At(q, v) < At(q, w) \/ At(q, w) < At(q, v)
    BY <2>1
  <2> QED BY <1>4, <2>2, WithoutTwo
<1> QED BY <1>1, <1>2, <1>3, <1>4

LEMMA WithoutAppended ==
  ASSUME NEW q, IsQueue(q), NEW w \in Work, ~Has(q, w)
  PROVE  /\ Without(Append(q, w), w) = q
         /\ \A v : v # w => Without(Append(q, w), v) = Append(Without(q, v), w)
<1>1. PICK n \in Nat : n = Len(q)
  BY QueueLen
<1>2. PICK s : s = Append(q, w)
  OBVIOUS
<1>3. /\ q \in Seq(Work) /\ IsQueue(s) /\ Len(s) = n + 1 /\ s[n + 1] = w
      /\ \A i \in 1 .. n : s[i] = q[i]
      /\ \A v : Has(s, v) <=> v = w \/ Has(q, v)
  BY <1>1, <1>2, QueueLen, AppendQueue, AppendProperties
<1>4. Without(s, w) = q
  <2>1. At(s, w) = n + 1 /\ Has(s, w)
    BY <1>3, AtIsOnlyPlace
  <2>2. PICK x : x = Without(s, w)
    OBVIOUS
  <2>3. /\ x \in Seq(Work) /\ Len(x) = n
        /\ \A i \in 1 .. n : x[i] = IF i < n + 1 THEN s[i] ELSE s[i + 1]
    BY <1>3, <2>1, <2>2, WithoutElements
  <2>4. \A i \in 1 .. n : x[i] = q[i]
    BY <1>3, <2>3
  <2> QED BY <1>1, <1>3, <2>2, <2>3, <2>4, SeqEqual
<1>5. ASSUME NEW v, v # w PROVE Without(s, v) = Append(Without(q, v), w)
  <2>1. CASE ~Has(q, v)
    <3>1. ~Has(s, v)
      BY <1>3, <1>5, <2>1
    <3> QED BY <1>2, <2>1, <3>1, WithoutAbsent
  <2>2. CASE Has(q, v)
    <3>1. PICK k : k = At(q, v)
      OBVIOUS
    <3>2. PICK t : t = Without(q, v)
      OBVIOUS
    <3>3. /\ k \in 1 .. n /\ q[k] = v
          /\ t \in Seq(Work) /\ Len(t) = n - 1
          /\ \A i \in 1 .. n - 1 : t[i] = IF i < k THEN q[i] ELSE q[i + 1]
      BY <1>1, <2>2, <3>1, <3>2, WithoutElements
    <3>4. k \in 1 .. Len(s) /\ s[k] = v
      BY <1>3, <3>3
    <3>5. At(s, v) = k /\ Has(s, v)
      BY <1>3, <3>4, AtIsOnlyPlace
    <3>6. PICK x : x = Without(s, v)
      OBVIOUS
    <3>7. /\ x \in Seq(Work) /\ Len(x) = n
          /\ \A i \in 1 .. n : x[i] = IF i < k THEN s[i] ELSE s[i + 1]
      <4>1. /\ x \in Seq(Work) /\ Len(x) = Len(s) - 1
            /\ \A i \in 1 .. Len(s) - 1 : x[i] = IF i < k THEN s[i] ELSE s[i + 1]
        <5>1. IsQueue(s)
          BY <1>3
        <5> QED BY <3>5, <3>6, <5>1, WithoutElements
      <4>2. Len(s) - 1 = n
        BY <1>3
      <4> QED BY <4>1, <4>2
    <3>8. PICK y : y = Append(t, w)
      OBVIOUS
    <3>9. /\ y \in Seq(Work) /\ Len(y) = n /\ y[n] = w
          /\ \A i \in 1 .. n - 1 : y[i] = t[i]
      BY <3>3, <3>8, AppendProperties
    <3>10. ASSUME NEW i \in 1 .. n PROVE x[i] = y[i]
      <4>1. CASE i = n
        <5>1. x[i] = s[n + 1]
          BY <3>3, <3>7, <4>1
        <5> QED BY <1>3, <3>9, <4>1, <5>1
      <4>2. CASE i # n
        <5>1. i \in 1 .. n - 1 /\ i + 1 \in 1 .. n
          BY <4>2
        <5>2. x[i] = IF i < k THEN q[i] ELSE q[i + 1]
          BY <1>3, <3>7, <5>1
        <5> QED BY <3>3, <3>9, <5>1, <5>2
      <4> QED BY <4>1, <4>2
    <3> QED BY <1>1, <3>2, <3>6, <3>7, <3>8, <3>9, <3>10, SeqEqual
  <2> QED BY <2>1, <2>2
<1> QED BY <1>2, <1>4, <1>5

(* What is at the head, and what is left when it is taken.                   *)
LEMMA WithoutTail ==
  ASSUME NEW q, IsQueue(q), q # <<>>, NEW v
  PROVE  /\ Head(q) = v => Without(q, v) = Tail(q)
         /\ Head(q) # v => /\ Without(q, v) # <<>>
                           /\ Head(Without(q, v)) = Head(q)
                           /\ Tail(Without(q, v)) = Without(Tail(q), v)
<1>1. PICK n : n = Len(q)
  OBVIOUS
<1>2. PICK s : s = Tail(q)
  OBVIOUS
<1>3. /\ n \in Nat /\ n # 0 /\ q \in Seq(Work) /\ Head(q) = q[1]
      /\ IsQueue(s) /\ s \in Seq(Work) /\ Len(s) = n - 1
      /\ \A i \in 1 .. n - 1 : s[i] = q[i + 1]
      /\ \A u : u # Head(q) => (Has(s, u) <=> Has(q, u))
  BY <1>1, <1>2, QueueLen, EmptySeq, HeadTailProperties, TailQueue
<1>4. ASSUME Head(q) = v PROVE Without(q, v) = s
  <2>1. 1 \in 1 .. n /\ q[1] = v
    BY <1>3, <1>4
  <2>2. At(q, v) = 1 /\ Has(q, v)
    BY <1>1, <2>1, AtIsOnlyPlace
  <2>3. PICK x : x = Without(q, v)
    OBVIOUS
  <2>4. /\ x \in Seq(Work) /\ Len(x) = n - 1
        /\ \A i \in 1 .. n - 1 : x[i] = IF i < 1 THEN q[i] ELSE q[i + 1]
    BY <1>1, <2>2, <2>3, WithoutElements
  <2>5. \A i \in 1 .. n - 1 : x[i] = s[i]
    BY <1>3, <2>4
  <2> QED BY <1>3, <2>3, <2>4, <2>5, SeqEqual
<1>5. ASSUME Head(q) # v, Has(q, v)
      PROVE  /\ Without(q, v) # <<>> /\ Head(Without(q, v)) = Head(q)
             /\ Tail(Without(q, v)) = Without(s, v)
  <2>1. PICK k : k = At(q, v)
    OBVIOUS
  <2>2. PICK x : x = Without(q, v)
    OBVIOUS
  <2>3. /\ k \in 1 .. n /\ q[k] = v
        /\ x \in Seq(Work) /\ Len(x) = n - 1
        /\ \A i \in 1 .. n - 1 : x[i] = IF i < k THEN q[i] ELSE q[i + 1]
    BY <1>1, <1>5, <2>1, <2>2, WithoutElements
  <2>4. k > 1 /\ k \in Int /\ n > 1
    BY <1>3, <1>5, <2>3
  <2>5. x # <<>>
    BY <1>3, <2>3, <2>4, EmptySeq
  <2>6. x[1] = q[1]
    BY <1>3, <2>3, <2>4
  <2>7. PICK y : y = Tail(x)
    OBVIOUS
  <2>8. /\ Head(x) = x[1]
        /\ y \in Seq(Work) /\ Len(y) = n - 2
        /\ \A i \in 1 .. n - 2 : y[i] = x[i + 1]
    BY <1>3, <2>3, <2>5, <2>7, HeadTailProperties
  <2>9. At(s, v) = k - 1 /\ Has(s, v)
    <3>1. k - 1 \in 1 .. n - 1 /\ (k - 1) + 1 = k
      BY <1>3, <2>3, <2>4
    <3>2. s[k - 1] = v
      BY <1>3, <2>3, <3>1
    <3> QED BY <1>3, <3>1, <3>2, AtIsOnlyPlace
  <2>10. PICK z : z = Without(s, v)
    OBVIOUS
  <2>11. /\ z \in Seq(Work) /\ Len(z) = n - 2
         /\ \A i \in 1 .. n - 2 : z[i] = IF i < k - 1 THEN s[i] ELSE s[i + 1]
    BY <1>3, <2>9, <2>10, WithoutElements
  <2>12. ASSUME NEW i \in 1 .. n - 2 PROVE y[i] = z[i]
    <3>1. i \in 1 .. n - 1 /\ i + 1 \in 1 .. n - 1
      BY <1>3
    <3>2. y[i] = IF i + 1 < k THEN q[i + 1] ELSE q[(i + 1) + 1]
      BY <2>3, <2>8, <3>1
    <3>3. z[i] = IF i < k - 1 THEN q[i + 1] ELSE q[(i + 1) + 1]
      BY <1>3, <2>11, <3>1
    <3> QED BY <2>4, <3>1, <3>2, <3>3
  <2>13. y = z
    BY <2>8, <2>11, <2>12, SeqEqual
  <2> QED BY <1>3, <2>2, <2>5, <2>6, <2>7, <2>8, <2>10, <2>13
<1>6. ASSUME Head(q) # v, ~Has(q, v)
      PROVE  /\ Without(q, v) # <<>> /\ Head(Without(q, v)) = Head(q)
             /\ Tail(Without(q, v)) = Without(s, v)
  <2>1. ~Has(s, v)
    BY <1>3, <1>6
  <2> QED BY <1>2, <1>6, <2>1, WithoutAbsent
<1> QED BY <1>2, <1>4, <1>5, <1>6

(* The same operators, seen from the abstract GPS.                           *)
LEMMA SameOperators ==
  ASSUME NEW q, NEW w
  PROVE  Alone!Has(q, w) = Has(q, w) /\ Alone!Without(q, w) = Without(q, w)
  BY DEF Alone!Has, Alone!Without, Alone!At, Has, Without, At

LEMMA SubmittedAlone ==
  ASSUME Queued, NEW w \in {"start", "stop"}, queue' = Submitted(w)
  PROVE  GpsQueue' = Alone!Submitted(w)
<1> DEFINE s == Without(queue, w)
<1>1. IsQueue(s) /\ ~Has(s, w)
  BY WithoutQueue DEF Queued
<1>2. GpsQueue' = Without(Append(s, w), "rsrp")
  BY DEF GpsQueue, Submitted
<1>3. w \in Work /\ w # "rsrp"
  BY DEF Work
<1> HIDE DEF s
<1>4. GpsQueue' = Append(Without(s, "rsrp"), w)
  BY <1>1, <1>2, <1>3, WithoutAppended
<1>5. Without(s, "rsrp") = Without(GpsQueue, w)
  BY WithoutCommutes DEF s, GpsQueue, Queued
<1> QED BY <1>4, <1>5, SameOperators DEF Alone!Submitted

(* rsrp_work's coming and going is not seen.                                 *)
LEMMA SignalIsUnseen ==
  ASSUME Queued, SignalNext
  PROVE  GpsQueue' = GpsQueue
<1>1. CASE AtStep(StoreValue) \/ AtStep(TestRemaining)
  BY <1>1 DEF AtStep, StoreValue, TestRemaining, GpsQueue
<1>2. CASE AtStep(SubmitNow) \/ HoldEnds
  <2> DEFINE s == Without(queue, "rsrp")
  <2>1. IsQueue(s) /\ ~Has(s, "rsrp") /\ "rsrp" \in Work
    BY WithoutQueue DEF Queued, Work
  <2>2. queue' = Append(s, "rsrp")
    BY <1>2 DEF AtStep, SubmitNow, HoldEnds, Submitted
  <2> HIDE DEF s
  <2>3. GpsQueue' = s
    BY <2>1, <2>2, WithoutAppended DEF GpsQueue
  <2> QED BY <2>3 DEF s, GpsQueue
<1>3. CASE PrintWork
  <2>1. queue # <<>> /\ Head(queue) = "rsrp" /\ queue' = Tail(queue)
    BY <1>3 DEF PrintWork
  <2>2. GpsQueue = Tail(queue)
    BY <2>1, WithoutTail DEF GpsQueue, Queued
  <2>3. ~Has(Tail(queue), "rsrp")
    BY <2>1, TailQueue DEF Queued
  <2>4. GpsQueue' = Tail(queue)
    BY <2>1, <2>3, WithoutAbsent DEF GpsQueue
  <2> QED BY <2>2, <2>4
<1> QED BY <1>1, <1>2, <1>3 DEF SignalNext

(* A work of GPS at the head is at the head without rsrp_work.               *)
LEMMA HeadAlone ==
  ASSUME Queued, queue # <<>>, NEW w \in {"start", "stop"}, Head(queue) = w
  PROVE  /\ GpsQueue # <<>> /\ Head(GpsQueue) = w
         /\ Without(Tail(queue), "rsrp") = Tail(GpsQueue)
  BY WithoutTail DEF GpsQueue, Queued

LEMMA AppAlone ==
  ASSUME Queued, AppStep
  PROVE  Alone!AppStep
<1>1. CASE Start
  <2>1. queue # <<>> /\ Head(queue) = "start" /\ queue' = Tail(queue)
    BY <1>1 DEF Start
  <2>2. GpsQueue # <<>> /\ Head(GpsQueue) = "start" /\ GpsQueue' = Tail(GpsQueue)
    BY <2>1, HeadAlone DEF GpsQueue
  <2> QED BY <1>1, <2>2 DEF Start, Alone!AppStep, Alone!Start, clock, driver,
        Alone!clock, Alone!driver
<1>2. CASE Stop
  <2>1. queue # <<>> /\ Head(queue) = "stop"
    BY <1>2 DEF Stop
  <2>2. /\ GpsQueue # <<>> /\ Head(GpsQueue) = "stop"
        /\ Without(Tail(queue), "rsrp") = Tail(GpsQueue)
    BY <2>1, HeadAlone
  <2>3. StopIdle => Alone!StopIdle
    <3> SUFFICES ASSUME StopIdle PROVE Alone!StopIdle
      OBVIOUS
    <3>2. IsQueue(Tail(queue))
      BY <2>1, TailQueue DEF Queued
    <3>3. queue' = Without(Tail(queue), "start")
      BY DEF StopIdle, StopFinished
    <3>4. GpsQueue' = Without(Tail(GpsQueue), "start")
      <4>1. GpsQueue' = Without(Without(Tail(queue), "start"), "rsrp")
        BY <3>3 DEF GpsQueue
      <4>2. @ = Without(Without(Tail(queue), "rsrp"), "start")
        BY <3>2, WithoutCommutes
      <4> QED BY <2>2, <4>1, <4>2
    <3> QED BY <3>4, SameOperators
        DEF StopIdle, StopFinished, Alone!StopIdle, Alone!StopFinished
  <2>4. StopActive => Alone!StopActive
    BY <2>2 DEF StopActive, Alone!StopActive, GpsQueue
  <2> QED BY <1>2, <2>2, <2>3, <2>4 DEF Stop, Alone!AppStep, Alone!Stop, clock,
        Alone!clock
<1>3. CASE StopDone
  <2>1. GpsQueue' = Without(GpsQueue, "start")
    BY <1>3, WithoutCommutes DEF StopDone, StopFinished, GpsQueue, Queued
  <2> QED BY <1>3, <2>1, SameOperators DEF StopDone, StopFinished,
        Alone!AppStep, Alone!StopDone, Alone!StopFinished, clock, Alone!clock
<1>4. CASE GpsStart \/ StartFails \/ StartDone \/ StopFails
  <2>1. GpsQueue' = GpsQueue
    BY <1>4 DEF GpsStart, StartFails, StartDone, StopFails, GpsQueue
  <2>2. CASE GpsStart
    BY <2>1, <2>2 DEF GpsStart, Alone!AppStep, Alone!GpsStart, clock, driver,
       Alone!clock, Alone!driver
  <2>3. CASE StartFails
    BY <2>1, <2>3 DEF StartFails, Alone!AppStep, Alone!StartFails, clock, driver,
       Alone!clock, Alone!driver
  <2>4. CASE StartDone
    BY <2>1, <2>4 DEF StartDone, Alone!AppStep, Alone!StartDone, clock, Alone!clock
  <2>5. CASE StopFails
    BY <2>1, <2>5 DEF StopFails, Alone!AppStep, Alone!StopFails, clock, driver,
       Alone!clock, Alone!driver
  <2> QED BY <1>4, <2>2, <2>3, <2>4, <2>5
<1> QED BY <1>1, <1>2, <1>3, <1>4 DEF AppStep

LEMMA SysAlone ==
  ASSUME Queued, SysStep
  PROVE  Alone!SysStep
<1>1. CASE SearchStopped
  <2>1. GpsQueue' = GpsQueue
    BY <1>1 DEF SearchStopped, GpsQueue
  <2> QED BY <1>1, <2>1 DEF SearchStopped, Alone!SysStep, Alone!SearchStopped
<1>2. CASE Timeout
  <2>1. GpsQueue' = GpsQueue
    BY <1>2 DEF Timeout, GpsQueue
  <2> QED BY <1>2, <2>1 DEF Timeout, Alone!SysStep, Alone!Timeout, clock, Alone!clock
<1>3. CASE SearchTimeout
  <2>1. GpsQueue' = Alone!Submitted("stop")
    BY <1>3, SubmittedAlone DEF SearchTimeout
  <2> QED BY <1>3, <2>1 DEF SearchTimeout, Alone!SysStep, Alone!SearchTimeout,
        driver, Alone!driver
<1> QED BY <1>1, <1>2, <1>3 DEF SysStep

(* Who may run beside rsrp_work may run without it.                          *)
LEMMA MayRunAlone ==
  /\ queue = <<>> => GpsQueue = <<>>
  /\ MainMayRun => Alone!MainMayRun
  /\ GpsMayRun => Alone!GpsMayRun
<1>1. queue = <<>> => GpsQueue = <<>>
  BY EmptyHasNone, WithoutAbsent DEF GpsQueue
<1> QED BY <1>1 DEF MainMayRun, GpsMayRun, AppReady, SysReady,
     Alone!MainMayRun, Alone!GpsMayRun, Alone!AppReady, Alone!SysReady

LEMMA ThreadAlone ==
  ASSUME Queued, GpsStep(Handling) \/ GpsStep(Fix)
  PROVE  Alone!GpsStep(Alone!Handling) \/ Alone!GpsStep(Alone!Fix)
<1>1. Alone!GpsMayRun /\ UNCHANGED <<mainPc, appPc, stopped, sysPc>>
  BY MayRunAlone DEF GpsStep
<1>2. Handling => Alone!Handling
  <2>1. TakeSem => Alone!TakeSem
    BY DEF TakeSem, Alone!TakeSem, clock, Alone!clock, GpsQueue
  <2>2. SearchStarted => Alone!SearchStarted
    BY DEF SearchStarted, Alone!SearchStarted, GpsQueue
  <2>3. RecvEnds => Alone!RecvEnds
    BY DEF RecvEnds, Alone!RecvEnds, clock, Alone!clock, GpsQueue
  <2>4. FixStops => Alone!FixStops
    BY DEF FixStops, Alone!FixStops, clock, Alone!clock, GpsQueue
  <2>5. FixStamp => Alone!FixStamp
    BY DEF FixStamp, Alone!FixStamp, GpsQueue
  <2>6. FixClock => Alone!FixClock
    BY DEF FixClock, Alone!FixClock, Later, Alone!Later, GpsQueue
  <2>7. FixStop => Alone!FixStop
    BY SubmittedAlone DEF FixStop, Alone!FixStop, clock, Alone!clock
  <2> QED BY <2>1, <2>2, <2>3, <2>4, <2>5, <2>6, <2>7 DEF Handling, Alone!Handling
<1>3. Fix => Alone!Fix
  BY DEF Fix, Alone!Fix, clock, Alone!clock, GpsQueue
<1> QED BY <1>1, <1>2, <1>3 DEF GpsStep, Alone!GpsStep

LEMMA MainAlone ==
  ASSUME Queued, MainStep
  PROVE  Alone!MainStep
<1>1. /\ Alone!MainMayRun
      /\ UNCHANGED <<flag, firstFix, clock, appPc, driver, sysPc, gpsPc, failed>>
  BY MayRunAlone DEF MainStep
<1>2. Look => Alone!Look
  BY DEF Look, Alone!Look, GpsQueue
<1>3. RequestStart => Alone!RequestStart
  BY SubmittedAlone DEF RequestStart, Alone!RequestStart, Due, Alone!Due
<1>4. Post => Alone!Post
  BY DEF Post, Alone!Post, Due, Alone!Due, GpsQueue
<1>5. PostDone => Alone!PostDone
  BY DEF PostDone, Alone!PostDone, GpsQueue
<1> QED BY <1>1, <1>2, <1>3, <1>4, <1>5 DEF MainStep, Alone!MainStep, clock,
        driver, Alone!clock, Alone!driver

LEMMA MinuteAlone == Minute => Alone!Minute
<1> SUFFICES ASSUME Minute PROVE Alone!Minute
  OBVIOUS
<1>1. Alone!Settled
  BY MayRunAlone DEF Minute, Settled, Alone!Settled
<1>2. GpsQueue' = GpsQueue
  BY DEF Minute, GpsQueue
<1> QED BY <1>1, <1>2 DEF Minute, Alone!Minute, Later, Alone!Later

(* rsrp_work and the library's thread share the application queue and the    *)
(* processor with GPS: they make it do nothing it would not do without them. *)
THEOREM GpsIsAsAlone == RsrpSpec => GpsAsAlone
<1>1. RsrpInit => Alone!Init
  <2> SUFFICES ASSUME RsrpInit PROVE Alone!Init
    OBVIOUS
  <2>1. GpsQueue = <<"start">>
    <3>1. ~Has(<<"start">>, "rsrp")
      BY DEF Has
    <3> QED BY <3>1, WithoutAbsent DEF RsrpInit, Init, GpsQueue
  <2> QED BY <2>1 DEF RsrpInit, Init, Alone!Init
<1>2. RsrpTypeOK /\ [RsrpNext]_rsrpVars => [Alone!Next]_(Alone!vars)
  <2> SUFFICES ASSUME RsrpTypeOK, [RsrpNext]_rsrpVars
               PROVE  Alone!Next \/ UNCHANGED Alone!vars
    OBVIOUS
  <2>1. Queued
    BY DEF RsrpTypeOK, TypeOK, Queued
  <2>2. CASE GpsNext
    BY <2>1, <2>2, AppAlone, SysAlone, ThreadAlone, MainAlone, MinuteAlone
       DEF GpsNext, Alone!Next
  <2>3. CASE SignalNext
    <3>1. GpsQueue' = GpsQueue
      BY <2>1, <2>3, SignalIsUnseen
    <3>2. UNCHANGED <<mainPc, flag, firstFix, clock, driver, appPc, sysPc, gpsPc,
                      failed>>
      BY <2>1, <2>3, SignalQueue
    <3> QED BY <3>1, <3>2 DEF Alone!vars, clock, driver
  <2>4. CASE HoldMinute
    BY <2>4, MinuteAlone DEF HoldMinute, Alone!Next
  <2>5. CASE UNCHANGED rsrpVars
    BY <2>5 DEF rsrpVars, Alone!vars, GpsQueue
  <2> QED BY <2>2, <2>3, <2>4, <2>5, RsrpNextSplit
<1> QED BY <1>1, <1>2, RsrpTypeCorrect, PTL DEF RsrpSpec, GpsAsAlone, Alone!Spec
=============================================================================
