--------------------------- MODULE AdvStoreProofs ---------------------------
(***************************************************************************)
(* AdvTable implements AdvStore: every step of the table is a step of the   *)
(* abstract store, or changes nothing the store knows of.                   *)
(***************************************************************************)
EXTENDS AdvTableProofs, FiniteSetTheorems

LEMMA WaitingIsPresent ==
  ASSUME IInv, NEW t \in Tag
  PROVE  Store!Waiting(t) <=> Present(t)
BY DEF IInv, HistoryMatches, Store!Waiting

(* The number of entries is the number of tags that wait.                    *)
LEMMA WaitsCount ==
  ASSUME IInv
  PROVE  Cardinality(Store!Waits) = num
<1> DEFINE f == [i \in Live |-> table[i].tag]
<1>1. num \in Nat /\ Live = 1 .. num
  BY DEF IInv, TypeOK, Live
<1>2. \A i \in Live : table[i].tag \in Store!Waits
  <2> SUFFICES ASSUME NEW i \in Live
               PROVE  table[i].tag \in Store!Waits
    OBVIOUS
  <2>1. table[i].tag \in Tag
    BY DEF IInv, TableHoldsLatest
  <2> QED
    BY <2>1, WaitingIsPresent DEF Store!Waits, Present
<1>3. \A t \in Store!Waits : \E i \in Live : table[i].tag = t
  BY WaitingIsPresent DEF Store!Waits, Present
<1>4. f \in Injection(Live, Store!Waits)
  BY <1>2 DEF Injection, IsInjective, IInv, TableHoldsLatest
<1>5. f \in Surjection(Live, Store!Waits)
  BY <1>2, <1>3 DEF Surjection
<1>6. ExistsBijection(1 .. num, Store!Waits)
  BY <1>1, <1>4, <1>5 DEF ExistsBijection, Bijection
<1> QED
  BY <1>1, <1>6, FS_CountingElements

LEMMA SameCardinality == \A S : Store!Cardinality(S) = Cardinality(S)
BY DEF Store!Cardinality, Cardinality

LEMMA InitRefines == Init => Store!Init
BY DEF Init, Store!Init, Copying, Batch

LEMMA AdvReportRefines ==
  ASSUME IInv, NEW t \in Tag, AdvReport(t)
  PROVE  Store!Accept(t) \/ Store!Refuse(t)
<1>1. /\ received' = received + 1
      /\ Remember(t)
      /\ UNCHANGED <<buf, bufNum, pc, posted>>
  BY DEF AdvReport, bufVars
<1>2. Copying' = Copying /\ Batch' = Batch
  BY <1>1 DEF Copying, Batch, Handed
<1>3. Store!Waiting(t) <=> Present(t)
  BY WaitingIsPresent
<1>4. Store!Cardinality(Store!Waits) = num /\ num \in Nat
  BY WaitsCount, SameCardinality DEF IInv, TypeOK
<1>5. CASE ~Present(t) /\ num >= MaxAdvs
  <2>1. UNCHANGED <<kept, racing>>
    BY <1>1, <1>5 DEF Remember
  <2> QED
    BY <1>1, <1>2, <1>3, <1>4, <1>5, <2>1 DEF Store!Refuse
<1>6. CASE ~(~Present(t) /\ num >= MaxAdvs)
  <2>1. Store!Waiting(t) \/ Store!Cardinality(Store!Waits) < MaxAdvs
    BY <1>3, <1>4, <1>6, TableAssumption
  <2>2. IF Copying
        THEN /\ racing' = [racing EXCEPT ![t] = @ \cup {received'}]
             /\ UNCHANGED kept
        ELSE /\ kept' = [kept EXCEPT ![t] = received']
             /\ UNCHANGED racing
    BY <1>1, <1>6 DEF Remember
  <2> QED
    BY <1>1, <1>2, <2>1, <2>2 DEF Store!Accept
<1> QED
  BY <1>5, <1>6

LEMMA ClearRefines ==
  ASSUME IInv, Clear
  PROVE  Store!HandOver
<1>0. TypeOK /\ TableHoldsLatest /\ HistoryMatches /\ CopySoFar
  BY DEF IInv
<1>1. /\ UNCHANGED <<received, buf, bufNum, posted>>
      /\ pc = "clear" /\ pc' = "unlock"
      /\ kept' = [t \in Tag |-> 0]
      /\ racing' = [t \in Tag |-> {}]
  BY DEF Clear, bufVars
<1>2. Copying /\ ~Copying' /\ Batch' = {buf[i] : i \in Handed}
  BY <1>1 DEF Copying, Batch, Handed
<1>3. ASSUME NEW i \in Handed
      PROVE  /\ i \in Live
             /\ buf[i].tag = table[i].tag
             /\ buf[i].tag \in Tag
             /\ StillWaits(buf[i].tag, buf[i].head)
             /\ StillWaits(buf[i].tag, buf[i].data)
  BY <1>1, BufferWaits
<1>4. ASSUME NEW i \in Handed
      PROVE  buf[i] \in [tag : Tag, head : Nat \ {0}, data : Nat \ {0}]
  <2>1. buf[i] \in Entry
    BY <1>0, TableAssumption DEF TypeOK, Handed, Slot
  <2>2. \A n \in Nat : StillWaits(buf[i].tag, n) => n # 0
    BY <1>0, <1>3, WaitingIsNumber DEF HistoryMatches, TypeOK
  <2> QED
    BY <1>3, <2>1, <2>2 DEF Entry
<1>5. \A x \in Batch', y \in Batch' : x.tag = y.tag => x = y
  BY <1>0, <1>2, <1>3 DEF TableHoldsLatest
<1>6. \A x \in Batch' : {x.head, x.data} \subseteq
                          racing[x.tag] \cup ({kept[x.tag]} \ {0})
  BY <1>2, <1>3 DEF StillWaits
<1>7. ASSUME NEW t \in Tag, kept[t] # 0
      PROVE  \E x \in Batch' :
               /\ x.tag = t
               /\ racing[t] = {} => x.head = kept[t] /\ x.data = kept[t]
  <2>1. PICK i \in Live : table[i].tag = t
    BY <1>0, <1>7 DEF HistoryMatches, Present
  <2>2. word > 0
    BY <1>1, TableAssumption DEF IInv, CopyDone
  <2>3. i \in Handed
    BY <1>0, <1>2, <1>7, <2>1, <2>2 DEF CopySoFar, Live, Handed, TypeOK
  <2> QED
    BY <1>2, <1>3, <2>1, <2>3 DEF StillWaits
<1> QED
  BY <1>1, <1>2, <1>4, <1>5, <1>6, <1>7
     DEF Store!HandOver, Store!Allowed, Store!Report

LEMMA PostRefines ==
  ASSUME IInv, Post
  PROVE  Store!Post \/ UNCHANGED Store!vars
<1>0. TypeOK /\ HandedInOrder
  BY DEF IInv, HandedIsOlder, Post
<1>1. /\ UNCHANGED <<received, kept, racing>>
      /\ pc = "post" /\ pc' = "away"
      /\ posted' = [t \in Tag |->
                      IF \E i \in Handed : buf[i].tag = t
                      THEN buf[CHOOSE i \in Handed : buf[i].tag = t].head
                      ELSE posted[t]]
  BY DEF Post, tableVars
<1>2. ~Copying /\ ~Copying' /\ Batch = {buf[i] : i \in Handed} /\ Batch' = {}
  BY <1>1 DEF Copying, Batch
<1>3. CASE Batch = {}
  <2>1. posted' = posted
    <3>1. \A i \in Handed : FALSE
      BY <1>2, <1>3
    <3>2. posted' = [t \in Tag |-> posted[t]]
      BY <1>1, <3>1
    <3> QED
      BY <1>0, <3>2 DEF TypeOK
  <2>2. Copying' = Copying /\ Batch' = Batch
    BY <1>2, <1>3 DEF Copying
  <2> QED
    BY <1>1, <2>1, <2>2 DEF Store!vars
<1>4. CASE Batch # {}
  <2>1. ASSUME NEW t \in Tag
        PROVE  posted'[t] = IF \E x \in Batch : x.tag = t
                            THEN (CHOOSE x \in Batch : x.tag = t).head
                            ELSE posted[t]
    <3>1. CASE \E i \in Handed : buf[i].tag = t
      <4>1. PICK i \in Handed : buf[i].tag = t /\ posted'[t] = buf[i].head
        BY <1>1, <3>1
      <4>2. \A x \in Batch : x.tag = t <=> x = buf[i]
        BY <1>0, <1>2, <4>1 DEF HandedInOrder
      <4>3. (CHOOSE x \in Batch : x.tag = t) = buf[i]
        BY <1>2, <4>1, <4>2
      <4> QED
        BY <1>2, <4>1, <4>3
    <3>2. CASE ~\E i \in Handed : buf[i].tag = t
      BY <1>1, <1>2, <3>2
    <3> QED
      BY <3>1, <3>2
  <2>2. posted' = [t \in Tag |-> IF \E x \in Batch : x.tag = t
                                 THEN (CHOOSE x \in Batch : x.tag = t).head
                                 ELSE posted[t]]
    BY <1>1, <2>1
  <2>3. Copying' = Copying
    BY <1>2 DEF Copying
  <2> QED
    BY <1>1, <1>2, <1>4, <2>2, <2>3 DEF Store!Post
<1> QED
  BY <1>3, <1>4

LEMMA NextRefines == IInv /\ [Next]_vars => [Store!Next]_(Store!vars)
<1> SUFFICES ASSUME IInv, [Next]_vars
             PROVE  Store!Next \/ UNCHANGED Store!vars
  OBVIOUS
<1>1. ASSUME NEW t \in Tag, AdvReport(t)
      PROVE  Store!Next
  BY <1>1, AdvReportRefines DEF Store!Next
<1>2. CASE Lock
  <2>1. UNCHANGED <<received, kept, racing, posted>>
        /\ ~Copying /\ Copying' /\ Batch = {} /\ Batch' = {}
    BY <1>2 DEF Lock, tableVars, history, Copying, Batch
  <2> QED
    BY <2>1 DEF Store!Next, Store!BeginHandOver
<1>3. CASE CopyWord
  BY <1>3 DEF CopyWord, tableVars, history, Copying, Batch, Store!vars
<1>4. CASE Clear
  BY <1>4, ClearRefines DEF Store!Next
<1>5. CASE Unlock
  <2>1. UNCHANGED <<received, buf, bufNum, kept, racing, posted>>
        /\ ~Copying /\ ~Copying'
    BY <1>5 DEF Unlock, tableVars, bufVars, history, Copying
  <2>2. Batch = {buf[i] : i \in Handed}
    BY <1>5 DEF Unlock, Batch
  <2>3. Batch' = Batch
    <3>1. CASE bufNum # 0
      BY <1>5, <2>1, <2>2, <3>1 DEF Unlock, Batch, Handed
    <3>2. CASE bufNum = 0
      <4>1. Handed = {}
        BY <3>2 DEF Handed
      <4> QED
        BY <1>5, <2>2, <3>2, <4>1 DEF Unlock, Batch
    <3> QED
      BY <3>1, <3>2
  <2>4. Copying' = Copying
    BY <2>1 DEF Copying
  <2> QED
    BY <2>1, <2>3, <2>4 DEF Store!vars
<1>6. CASE Post
  BY <1>6, PostRefines DEF Store!Next
<1>7. CASE Switch
  BY <1>7 DEF Switch, tableVars, bufVars, history, Copying, Batch, Handed,
              Store!vars
<1>8. CASE UNCHANGED vars
  BY <1>8 DEF vars, Copying, Batch, Handed, Store!vars
<1> QED
  BY <1>1, <1>2, <1>3, <1>4, <1>5, <1>6, <1>7, <1>8 DEF Next, MainStep

(* What adv_post.c promises the main loop: a report received outside a copy  *)
(* is posted whole and once unless a later one of its tag supersedes it, and *)
(* a report that races with a copy is at worst lost or mixed with the one it *)
(* supersedes, for every table size and however threads are scheduled.       *)
THEOREM TableImplementsStore == Spec => StoreSpec
BY InitRefines, NextRefines, InvariantHolds, PTL
   DEF Spec, StoreSpec, Store!Spec
=============================================================================
