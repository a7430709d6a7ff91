--------------------------- MODULE AdvTableProofs ---------------------------
(***************************************************************************)
(* AdvTable proved for any number of tags, any table size, any set of work  *)
(* queue threads and any number of reports: its types, and what the table   *)
(* holds and the main loop posts, however the interrupt splits the copy.    *)
(***************************************************************************)
EXTENDS AdvTable, TLAPS

LEMMA InitType == Init => TypeOK
BY TableAssumption, ThreadAssumption
   DEF Init, TypeOK, Entry, EmptyEntry, Slot, Thread, Number

Mutex == [owner : Thread \cup {NoThread}, count : Nat, waiting : SUBSET Thread]

LEMMA LockedType ==
  ASSUME NEW m \in Mutex, NEW t \in Thread
  PROVE  Locked(m, t) \in Mutex
<1>1. CASE m.count = 0 \/ m.owner = t
  BY <1>1 DEF Locked, Mutex
<1>2. CASE ~(m.count = 0 \/ m.owner = t)
  <2>1. m.waiting \cup ({t} \ {Idle}) \in SUBSET Thread
    BY DEF Mutex
  <2> QED
    BY <1>2, <2>1 DEF Locked, Mutex
<1> QED
  BY <1>1, <1>2

LEMMA UnlockedType ==
  ASSUME NEW m \in Mutex, NEW t \in Thread, NEW r \in Unlocked(m, t)
  PROVE  r \in Mutex
<1>1. CASE m.owner # t
  BY <1>1 DEF Unlocked
<1>2. CASE m.owner = t /\ m.count > 1
  BY <1>2 DEF Unlocked, Mutex
<1>3. CASE m.owner = t /\ m.count <= 1 /\ m.waiting = {}
  <2>1. r = [owner |-> NoThread, count |-> 0, waiting |-> {}]
    BY <1>3 DEF Unlocked, Mutex
  <2> QED
    BY <2>1 DEF Mutex
<1>4. CASE m.owner = t /\ m.count <= 1 /\ m.waiting # {}
  <2>1. PICK w \in m.waiting :
              r = [owner |-> w, count |-> m.count, waiting |-> m.waiting \ {w}]
    BY <1>4 DEF Unlocked, Mutex
  <2>2. w \in Thread /\ m.waiting \ {w} \in SUBSET Thread
    BY DEF Mutex
  <2> QED
    BY <2>1, <2>2 DEF Mutex
<1> QED
  BY <1>1, <1>2, <1>3, <1>4 DEF Mutex

LEMMA ResumeType ==
  ASSUME NEW m, NEW p, cur \in Thread, NEW c \in Resume(m, p)
  PROVE  c \in Thread
BY DEF Resume, Eligible

LEMMA PutType ==
  ASSUME TypeOK, NEW t \in Tag, Put(t)
  PROVE  table' \in [Slot -> Entry] /\ num' \in 0 .. MaxAdvs
<1> DEFINE new == [tag |-> t, head |-> received + 1, data |-> received + 1]
<1>1. new \in Entry
  BY DEF TypeOK, Entry
<1>2. CASE Present(t)
  BY <1>1, <1>2 DEF TypeOK, Put, Live, Slot
<1>3. CASE ~Present(t) /\ num < MaxAdvs
  <2>1. num + 1 \in Slot /\ num' = num + 1
        /\ table' = [table EXCEPT ![num + 1] = new]
    BY <1>3, TableAssumption DEF TypeOK, Put, Slot
  <2> QED
    BY <1>1, <1>3, <2>1, TableAssumption DEF TypeOK, Slot
<1>4. CASE ~Present(t) /\ ~(num < MaxAdvs)
  BY <1>4, TableAssumption DEF TypeOK, Put, Slot
<1> QED
  BY <1>2, <1>3, <1>4

LEMMA NextType == TypeOK /\ [Next]_vars => TypeOK'
<1> SUFFICES ASSUME TypeOK, [Next]_vars
             PROVE  TypeOK'
  OBVIOUS
<1> USE TableAssumption
<1>1. ASSUME NEW t \in Tag, AdvReport(t)
      PROVE  TypeOK'
  <2>1. mutex' \in Mutex
    BY <1>1, LockedType, UnlockedType DEF TypeOK, AdvReport, Mutex
  <2>2. cur' \in Thread
    BY <1>1, ResumeType DEF TypeOK, AdvReport
  <2>3. table' \in [Slot -> Entry] /\ num' \in 0 .. MaxAdvs
    BY <1>1, PutType DEF AdvReport
  <2>4. received' = received + 1 /\ Number \subseteq Number'
        /\ received + 1 \in Number'
    BY <1>1 DEF TypeOK, AdvReport, Number
  <2>5. kept' \in [Tag -> Number'] /\ racing' \in [Tag -> SUBSET (Number')]
    BY <1>1, <2>4 DEF TypeOK, AdvReport, Remember
  <2> QED
    BY <1>1, <2>1, <2>2, <2>3, <2>4, <2>5
       DEF TypeOK, AdvReport, bufVars, Mutex
<1>2. CASE Lock
  <2>1. mutex' \in Mutex
    BY <1>2, LockedType DEF TypeOK, Lock, Thread, Mutex
  <2>2. cur' \in Thread
    BY <1>2, ResumeType DEF TypeOK, Lock
  <2> QED
    BY <1>2, <2>1, <2>2 DEF TypeOK, Lock, Mutex, tableVars, history, Number
<1>3. CASE CopyWord
  <2>1. word' \in 0 .. 2 * MaxAdvs + 1
    BY <1>3 DEF TypeOK, CopyWord, CopyNum, CopyHead, CopyData, Slot
  <2>2. bufNum' \in 0 .. MaxAdvs
    BY <1>3 DEF TypeOK, CopyWord, CopyNum, CopyHead, CopyData
  <2>3. buf' \in [Slot -> Entry]
    BY <1>3 DEF TypeOK, CopyWord, CopyNum, CopyHead, CopyData, Entry
  <2> QED
    BY <1>3, <2>1, <2>2, <2>3
       DEF TypeOK, CopyWord, tableVars, history, Number
<1>4. CASE Clear
  BY <1>4 DEF TypeOK, Clear, bufVars, Number
<1>5. CASE Unlock
  <2>1. mutex' \in Mutex
    BY <1>5, UnlockedType DEF TypeOK, Unlock, Thread, Mutex
  <2> QED
    BY <1>5, <2>1 DEF TypeOK, Unlock, Mutex, tableVars, bufVars, history, Number
<1>6. CASE Post
  <2>1. \A i \in Handed : buf[i].head \in Nat
    BY DEF TypeOK, Handed, Slot, Entry
  <2>2. posted' \in [Tag -> Nat]
    BY <1>6, <2>1 DEF TypeOK, Post
  <2> QED
    BY <1>6, <2>2 DEF TypeOK, Post, tableVars, bufVars, Number
<1>7. CASE Switch
  BY <1>7 DEF TypeOK, Switch, Eligible, tableVars, bufVars, history, Number
<1>8. CASE UNCHANGED vars
  BY <1>8 DEF TypeOK, vars, Number
<1> QED
  BY <1>1, <1>2, <1>3, <1>4, <1>5, <1>6, <1>7, <1>8 DEF Next, MainStep

(* Every variable keeps its type: the table and the buffer never hold more   *)
(* than MAX_ADVS_TABLE reports, and no word outside them is copied.          *)
THEOREM TypeCorrect == Spec => []TypeOK
BY InitType, NextType, PTL DEF Spec
-----------------------------------------------------------------------------
LEMMA InitInv == Init => IInv
<1> SUFFICES ASSUME Init
             PROVE  IInv
  OBVIOUS
<1>1. TypeOK
  BY InitType
<1>2. Live = {} /\ pc = "away"
  BY DEF Init, Live
<1>3. HistoryMatches
  BY <1>2 DEF Init, HistoryMatches, Present, StillWaits, Number
<1> QED
  BY <1>1, <1>2, <1>3
     DEF IInv, TableHoldsLatest, CopySoFar, CopyDone, HandedIsOlder, Copying

(* What still waits was received.                                            *)
LEMMA WaitingIsNumber ==
  ASSUME TypeOK, NEW t \in Tag, NEW n, StillWaits(t, n)
  PROVE  n \in Number /\ n \in Nat
BY DEF TypeOK, StillWaits, Number

(* How adv_put_to_table changes the table when it accepts a report.          *)
LEMMA PutAccepted ==
  ASSUME TypeOK, TableHoldsLatest, NEW t \in Tag, Put(t),
         Present(t) \/ num < MaxAdvs
  PROVE  LET new == [tag |-> t, head |-> received + 1, data |-> received + 1]
         IN  /\ num <= num'
             /\ \A i \in Live : table'[i].tag = table[i].tag
             /\ \A i \in Live' : \/ table'[i] = new
                                 \/ /\ i \in Live
                                    /\ table'[i] = table[i]
                                    /\ table[i].tag # t
             /\ \A i \in Live', j \in Live' :
                  table'[i].tag = table'[j].tag => i = j
             /\ Present(t)'
             /\ \A i \in Live' \ Live : table'[i] = new /\ ~Present(t)
<1> DEFINE new == [tag |-> t, head |-> received + 1, data |-> received + 1]
<1>1. CASE Present(t)
  <2>1. /\ table' = [i \in Slot |-> IF i \in Live /\ table[i].tag = t
                                  THEN new ELSE table[i]]
        /\ num' = num
    BY <1>1 DEF Put
  <2>2. Live' = Live /\ Live \subseteq Slot
    BY <2>1, TableAssumption DEF Live, Slot, TypeOK
  <2>3. \A i \in Live : table'[i].tag = table[i].tag
    BY <2>1, <2>2
  <2>4. PICK j \in Live : table[j].tag = t
    BY <1>1 DEF Present
  <2>5. Present(t)'
    BY <2>2, <2>3, <2>4 DEF Present
  <2> QED
    BY <2>1, <2>2, <2>3, <2>5 DEF TableHoldsLatest, TypeOK
<1>2. CASE ~Present(t) /\ num < MaxAdvs
  <2>1. table' = [table EXCEPT ![num + 1] = new] /\ num' = num + 1
    BY <1>2 DEF Put
  <2>2. Live' = Live \cup {num + 1} /\ num + 1 \notin Live /\ Live' \subseteq Slot
    BY <1>2, <2>1, TableAssumption DEF Live, Slot, TypeOK
  <2>3. table'[num + 1] = new /\ \A i \in Live : table'[i] = table[i]
    BY <2>1, <2>2 DEF TypeOK
  <2>4. \A i \in Live : table[i].tag # t
    BY <1>2 DEF Present
  <2>5. Present(t)'
    BY <2>2, <2>3 DEF Present
  <2>6. \A i \in Live', j \in Live' : table'[i].tag = table'[j].tag => i = j
    BY <2>2, <2>3, <2>4 DEF TableHoldsLatest
  <2> QED
    BY <1>2, <2>1, <2>2, <2>3, <2>4, <2>5, <2>6 DEF TypeOK
<1> QED
  BY <1>1, <1>2

(* How the history changes when a report is accepted.                        *)
LEMMA RememberAccepted ==
  ASSUME TypeOK, HistoryMatches, NEW t \in Tag, AdvReport(t),
         Present(t) \/ num < MaxAdvs
  PROVE  /\ \A u \in Tag, k \in Nat :
              StillWaits(u, k)' => StillWaits(u, k) \/ (u = t /\ k = received + 1)
         /\ Copying => /\ kept' = kept
                       /\ \A u \in Tag, k \in Nat :
                            StillWaits(u, k) => StillWaits(u, k)'
         /\ \A u \in Tag \ {t} : kept'[u] = kept[u] /\ racing'[u] = racing[u]
         /\ IsLatest(t, received)'
         /\ kept'[t] # 0 \/ racing'[t] # {}
         /\ ~Copying => racing' = racing
<1> DEFINE n == received + 1
<1>1. n \in Nat /\ n # 0 /\ \A u \in Tag : \A m \in racing[u] : m <= n
  BY DEF TypeOK, Number
<1>2. Remember(t)
  BY DEF AdvReport
<1>3. received' = n
  BY DEF AdvReport
<1>4. CASE Copying
  <2>1. racing' = [racing EXCEPT ![t] = @ \cup {n}] /\ kept' = kept
    BY <1>2, <1>4, TableAssumption DEF Remember, TypeOK
  <2>2. racing'[t] = racing[t] \cup {n}
        /\ \A u \in Tag \ {t} : racing'[u] = racing[u]
    BY <2>1 DEF TypeOK
  <2>3. IsLatest(t, received)'
    BY <1>1, <1>3, <2>2 DEF IsLatest
  <2> QED
    BY <1>1, <1>4, <2>1, <2>2, <2>3 DEF StillWaits
<1>5. CASE ~Copying
  <2>1. kept' = [kept EXCEPT ![t] = n] /\ racing' = racing
    BY <1>2, <1>5, TableAssumption DEF Remember, TypeOK
  <2>2. kept'[t] = n /\ \A u \in Tag \ {t} : kept'[u] = kept[u]
    BY <2>1 DEF TypeOK
  <2>3. racing[t] = {}
    BY <1>5 DEF HistoryMatches
  <2>4. IsLatest(t, received)'
    BY <1>3, <2>1, <2>2, <2>3 DEF IsLatest
  <2> QED
    BY <1>1, <1>5, <2>1, <2>2, <2>3, <2>4 DEF StillWaits
<1> QED
  BY <1>4, <1>5
-----------------------------------------------------------------------------
LEMMA AcceptInv ==
  ASSUME IInv, TypeOK', NEW t \in Tag, AdvReport(t),
         Present(t) \/ num < MaxAdvs
  PROVE  IInv'
<1> USE TableAssumption
<1> DEFINE new == [tag |-> t, head |-> received + 1, data |-> received + 1]
<1>0. TypeOK /\ TableHoldsLatest /\ HistoryMatches /\ CopySoFar /\ HandedIsOlder
  BY DEF IInv
<1>1. /\ received' = received + 1
      /\ UNCHANGED <<buf, bufNum, word, pc, posted>>
      /\ Put(t)
      /\ Copying' = Copying
      /\ Handed' = Handed
      /\ Number \subseteq Number'
  BY <1>0 DEF AdvReport, bufVars, Copying, Handed, Number, TypeOK
<1>2. /\ num <= num'
      /\ \A i \in Live : table'[i].tag = table[i].tag
      /\ \A i \in Live' : \/ table'[i] = new
                          \/ /\ i \in Live
                             /\ table'[i] = table[i]
                             /\ table[i].tag # t
      /\ \A i \in Live', j \in Live' : table'[i].tag = table'[j].tag => i = j
      /\ Present(t)'
      /\ \A i \in Live' \ Live : table'[i] = new /\ ~Present(t)
  BY <1>0, <1>1, PutAccepted
<1>3. /\ \A u \in Tag, k \in Nat :
           StillWaits(u, k)' => StillWaits(u, k) \/ (u = t /\ k = received + 1)
      /\ Copying => /\ kept' = kept
                    /\ \A u \in Tag, k \in Nat :
                         StillWaits(u, k) => StillWaits(u, k)'
      /\ \A u \in Tag \ {t} : kept'[u] = kept[u] /\ racing'[u] = racing[u]
      /\ IsLatest(t, received)'
      /\ kept'[t] # 0 \/ racing'[t] # {}
      /\ ~Copying => racing' = racing
  BY <1>0, RememberAccepted
<1>4. Live \subseteq Live' /\ Live \subseteq Slot /\ Handed \subseteq Slot
  BY <1>0, <1>2 DEF TypeOK, Live, Handed, Slot
<1>5. TableHoldsLatest'
  <2>1. ASSUME NEW i \in Live'
        PROVE  /\ table'[i].tag \in Tag
               /\ table'[i].head = table'[i].data
               /\ IsLatest(table[i].tag, table[i].head)'
    <3>1. CASE table'[i] = new
      BY <1>1, <1>3, <3>1
    <3>2. CASE i \in Live /\ table'[i] = table[i] /\ table[i].tag # t
      <4>1. /\ table[i].tag \in Tag \ {t}
            /\ table[i].head = table[i].data
            /\ IsLatest(table[i].tag, table[i].head)
        BY <1>0, <3>2 DEF TableHoldsLatest
      <4>2. /\ kept'[table[i].tag] = kept[table[i].tag]
            /\ racing'[table[i].tag] = racing[table[i].tag]
        BY <1>3, <4>1
      <4> QED
        BY <3>2, <4>1, <4>2 DEF IsLatest
    <3> QED
      BY <1>2, <2>1, <3>1, <3>2
  <2> QED
    BY <1>2, <2>1 DEF TableHoldsLatest
<1>6. HistoryMatches'
  <2>1. ASSUME NEW u \in Tag
        PROVE  (Present(u) <=> kept[u] # 0 \/ racing[u] # {})'
    <3>1. CASE u = t
      BY <1>2, <1>3, <3>1
    <3>2. CASE u # t
      <4>1. Present(u)' <=> Present(u)
        BY <1>2, <1>4, <3>2 DEF Present
      <4> QED
        BY <1>0, <1>3, <3>2, <4>1 DEF HistoryMatches
    <3> QED
      BY <3>1, <3>2
  <2>2. (~Copying => \A u \in Tag : racing[u] = {})'
    BY <1>0, <1>1, <1>3 DEF HistoryMatches
  <2>3. ASSUME NEW u \in Tag
        PROVE  posted'[u] <= received' /\ posted[u] < received + 1
    BY <1>0, <1>1 DEF HistoryMatches, TypeOK
  <2>4. ASSUME NEW u \in Tag, NEW k \in Number', StillWaits(u, k)'
        PROVE  k > posted'[u]
    <3>1. k \in Nat
      BY DEF Number
    <3>2. CASE StillWaits(u, k)
      BY <1>0, <1>1, <3>2, WaitingIsNumber DEF HistoryMatches
    <3>3. CASE u = t /\ k = received + 1
      BY <1>0, <1>1, <2>3, <3>3 DEF TypeOK
    <3> QED
      BY <1>3, <2>4, <3>1, <3>2, <3>3
  <2> QED
    BY <2>1, <2>2, <2>3, <2>4 DEF HistoryMatches
<1>7. CopySoFar'
  <2> SUFFICES ASSUME Copying, word > 0
               PROVE  CopySoFar'
    BY <1>1 DEF CopySoFar
  <2>1. bufNum <= num /\ bufNum' <= num'
    BY <1>0, <1>1, <1>2 DEF CopySoFar, TypeOK
  <2>2. ASSUME NEW i \in Live', i > bufNum
        PROVE  kept'[table'[i].tag] = 0
    <3>1. CASE i \in Live
      BY <1>0, <1>2, <1>3, <2>2, <3>1 DEF CopySoFar
    <3>2. CASE i \notin Live
      BY <1>0, <1>2, <1>3, <3>2 DEF HistoryMatches
    <3> QED
      BY <3>1, <3>2
  <2>3. Handed \subseteq Live
    BY <1>0, <2>1 DEF Handed, Live, TypeOK
  <2>4. \A i \in Handed : buf[i].head \in Nat /\ buf[i].data \in Nat
    BY <1>0, <1>4 DEF TypeOK, Entry
  <2>5. ASSUME NEW i \in Handed, 2 * i - 1 < word
        PROVE  /\ buf[i].tag = table'[i].tag
               /\ buf[i].tag \in Tag
               /\ StillWaits(buf[i].tag, buf[i].head)'
    BY <1>0, <1>1, <1>2, <1>3, <2>3, <2>4, <2>5
       DEF CopySoFar, TableHoldsLatest
  <2>6. ASSUME NEW i \in Handed, 2 * i < word
        PROVE  StillWaits(buf[i].tag, buf[i].data)'
    <3>1. 2 * i - 1 < word
      BY <1>0, <2>6 DEF TypeOK, Handed
    <3> QED
      BY <1>0, <1>1, <1>3, <2>4, <2>5, <2>6, <3>1 DEF CopySoFar
  <2> QED
    BY <1>1, <2>1, <2>2, <2>5, <2>6 DEF CopySoFar
<1>8. CopyDone'
  BY <1>1 DEF IInv, CopyDone
<1>9. HandedIsOlder'
  <2> SUFFICES ASSUME pc \in {"unlock", "post"}
               PROVE  HandedIsOlder'
    BY <1>1 DEF HandedIsOlder
  <2>1. HandedInOrder'
    BY <1>0, <1>1 DEF HandedIsOlder, HandedInOrder
  <2>2. ASSUME NEW i \in Handed, NEW k \in Number'
        PROVE  /\ buf[i].head \in Number'
               /\ StillWaits(buf[i].tag, k)' => k > buf[i].head
    <3>1. buf[i].tag \in Tag /\ buf[i].head \in Number /\ k \in Nat
      BY <1>0 DEF HandedIsOlder, HandedInOrder, Number
    <3>2. buf[i].head < received + 1
      BY <1>0, <3>1 DEF Number, TypeOK
    <3>3. CASE StillWaits(buf[i].tag, k)
      BY <1>0, <1>1, <3>1, <3>3, WaitingIsNumber DEF HandedIsOlder
    <3> QED
      BY <1>0, <1>1, <1>3, <3>1, <3>2, <3>3 DEF TypeOK
  <2>3. 0 \in Number'
    BY <1>0, <1>1 DEF Number, TypeOK
  <2> QED
    BY <1>1, <2>1, <2>2, <2>3 DEF HandedIsOlder
<1> QED
  BY <1>5, <1>6, <1>7, <1>8, <1>9 DEF IInv

(* A refused report leaves the table, the buffer and the history alone.      *)
LEMMA RefuseInv ==
  ASSUME IInv, TypeOK', NEW t \in Tag, AdvReport(t),
         ~Present(t), ~(num < MaxAdvs)
  PROVE  IInv'
<1> USE TableAssumption
<1>0. TypeOK /\ TableHoldsLatest /\ HistoryMatches /\ CopySoFar /\ HandedIsOlder
  BY DEF IInv
<1>1. /\ received' = received + 1
      /\ UNCHANGED <<table, num, buf, bufNum, word, pc, posted, kept, racing>>
      /\ Number \subseteq Number'
  BY <1>0 DEF AdvReport, Put, Remember, bufVars, Number, TypeOK
<1>2. /\ Copying' = Copying
      /\ Handed' = Handed
      /\ Live' = Live
      /\ \A u \in Tag, k \in Nat : StillWaits(u, k)' <=> StillWaits(u, k)
      /\ \A u \in Tag : Present(u)' <=> Present(u)
  BY <1>1 DEF Copying, Handed, Live, StillWaits, Present
<1>3. TableHoldsLatest'
  BY <1>0, <1>1, <1>2 DEF TableHoldsLatest, IsLatest
<1>4. HistoryMatches'
  <2>1. \A u \in Tag : posted[u] <= received'
    BY <1>0, <1>1 DEF HistoryMatches, TypeOK
  <2>2. ASSUME NEW u \in Tag, NEW k \in Number', StillWaits(u, k)
        PROVE  k > posted[u]
    BY <1>0, <2>2, WaitingIsNumber DEF HistoryMatches
  <2> QED
    BY <1>0, <1>1, <1>2, <2>1, <2>2 DEF HistoryMatches, Number
<1>5. CopySoFar'
  BY <1>0, <1>1, <1>2 DEF CopySoFar, StillWaits
<1>6. CopyDone'
  BY <1>1 DEF IInv, CopyDone
<1>7. HandedIsOlder'
  <2> SUFFICES ASSUME pc \in {"unlock", "post"}
               PROVE  HandedIsOlder'
    BY <1>1 DEF HandedIsOlder
  <2>1. HandedInOrder /\ \A i \in Handed : buf[i].head \in Number
    BY <1>0 DEF HandedIsOlder
  <2>2. HandedInOrder'
    BY <1>1, <1>2, <2>1 DEF HandedInOrder
  <2>3. ASSUME NEW i \in Handed, NEW k \in Number', StillWaits(buf[i].tag, k)
        PROVE  k > buf[i].head
    BY <1>0, <2>1, <2>3, WaitingIsNumber DEF HandedIsOlder, HandedInOrder
  <2> QED
    BY <1>1, <1>2, <2>1, <2>2, <2>3 DEF HandedIsOlder, StillWaits
<1> QED
  BY <1>3, <1>4, <1>5, <1>6, <1>7 DEF IInv
-----------------------------------------------------------------------------
(* Steps that touch neither the table, the buffer nor the history.           *)
LEMMA FrameInv ==
  ASSUME IInv, TypeOK',
         UNCHANGED <<tableVars, buf, bufNum, history>>,
         Copying => Copying',
         Copying' => word' = 0 \/ (Copying /\ word' = word),
         pc' = "clear" => pc = "clear" /\ word' = word,
         pc' \in {"unlock", "post"} => pc \in {"unlock", "post"}
  PROVE  IInv'
<1>0. TypeOK /\ TableHoldsLatest /\ HistoryMatches /\ CopySoFar /\ HandedIsOlder
  BY DEF IInv
<1>1. UNCHANGED <<received, table, num, buf, bufNum, kept, racing, posted>>
  BY DEF tableVars, history
<1>2. TableHoldsLatest'
  BY <1>0, <1>1 DEF TableHoldsLatest, IsLatest, Live
<1>3. HistoryMatches'
  BY <1>0, <1>1 DEF HistoryMatches, StillWaits, Present, Live, Number
<1>4. CopySoFar'
  BY <1>0, <1>1 DEF CopySoFar, StillWaits, Live, Handed
<1>5. CopyDone'
  BY DEF IInv, CopyDone
<1>6. HandedIsOlder'
  BY <1>0, <1>1 DEF HandedIsOlder, HandedInOrder, StillWaits, Handed, Number
<1> QED
  BY <1>2, <1>3, <1>4, <1>5, <1>6 DEF IInv

(* What is in the table still waits.                                         *)
LEMMA LiveWaits ==
  ASSUME TableHoldsLatest, HistoryMatches, NEW j \in Live
  PROVE  /\ StillWaits(table[j].tag, table[j].head)
         /\ StillWaits(table[j].tag, table[j].data)
<1>1. /\ table[j].tag \in Tag
      /\ table[j].head = table[j].data
      /\ IsLatest(table[j].tag, table[j].head)
  BY DEF TableHoldsLatest
<1>2. kept[table[j].tag] # 0 \/ racing[table[j].tag] # {}
  BY <1>1 DEF HistoryMatches, Present
<1> QED
  BY <1>1, <1>2 DEF IsLatest, StillWaits

LEMMA CopyWordInv ==
  ASSUME IInv, TypeOK', CopyWord
  PROVE  IInv'
<1> USE TableAssumption
<1>0. TypeOK /\ TableHoldsLatest /\ HistoryMatches /\ CopySoFar
  BY DEF IInv
<1>1. /\ UNCHANGED <<received, table, num, kept, racing, posted>>
      /\ Copying /\ Copying'
      /\ word' = word + 1
      /\ pc' \notin {"unlock", "post"}
  BY DEF CopyWord, tableVars, history, Copying
<1>2. TableHoldsLatest'
  BY <1>0, <1>1 DEF TableHoldsLatest, IsLatest, Live
<1>3. HistoryMatches'
  BY <1>0, <1>1 DEF HistoryMatches, StillWaits, Present, Live, Number
<1>4. CopyDone'
  BY <1>0, <1>1 DEF CopyDone, CopyWord, TypeOK
<1>5. HandedIsOlder'
  BY <1>1 DEF HandedIsOlder
<1>6. CopySoFar'
  <2>1. \A u, k : StillWaits(u, k)' <=> StillWaits(u, k)
    BY <1>1 DEF StillWaits
  <2>2. Live' = Live /\ Live \subseteq Slot /\ Slot \subseteq Nat
    BY <1>0, <1>1 DEF Live, Slot, TypeOK
  <2>3. CASE CopyNum
    <3>1. word = 0 /\ bufNum' = num /\ buf' = buf
      BY <2>3 DEF CopyNum
    <3>2. \A i \in Nat \ {0} : ~(2 * i - 1 < word') /\ ~(2 * i < word')
      BY <1>1, <3>1
    <3>3. Handed' = Live
      BY <3>1 DEF Handed, Live
    <3> QED
      BY <1>0, <1>1, <2>2, <3>1, <3>2, <3>3 DEF CopySoFar, Live, TypeOK
  <2>4. CASE CopyHead
    <3>1. PICK j \in Slot :
             /\ word = 2 * j - 1
             /\ buf' = [buf EXCEPT ![j] = [tag |-> table[j].tag,
                                           head |-> table[j].head,
                                           data |-> @.data]]
      BY <2>4 DEF CopyHead
    <3>2. bufNum' = bufNum /\ Handed' = Handed /\ word > 0
      BY <2>4, <3>1 DEF CopyHead, Handed, Slot
    <3>3. bufNum <= num /\ \A i \in Live : i > bufNum => kept[table[i].tag] = 0
      BY <1>0, <1>1, <3>2 DEF CopySoFar
    <3>4. Handed \subseteq Live
      BY <1>0, <3>3 DEF Handed, Live, TypeOK
    <3>5. /\ buf'[j] = [tag |-> table[j].tag, head |-> table[j].head,
                        data |-> buf[j].data]
          /\ \A i \in Slot \ {j} : buf'[i] = buf[i]
      BY <1>0, <3>1 DEF TypeOK
    <3>6. j \in Live => StillWaits(table[j].tag, table[j].head)
      BY <1>0, LiveWaits
    <3>7. ASSUME NEW i \in Handed, 2 * i - 1 < word'
          PROVE  /\ buf'[i].tag = table[i].tag
                 /\ StillWaits(buf'[i].tag, buf'[i].head)
      <4>1. CASE i = j
        BY <3>4, <3>5, <3>6, <4>1
      <4>2. CASE i # j
        <5>1. i \in Slot /\ 2 * i - 1 < word
          BY <1>1, <2>2, <3>1, <3>4, <3>7, <4>2 DEF Slot
        <5> QED
          BY <1>0, <1>1, <3>2, <3>5, <4>2, <5>1 DEF CopySoFar
      <4> QED
        BY <4>1, <4>2
    <3>8. ASSUME NEW i \in Handed, 2 * i < word'
          PROVE  StillWaits(buf'[i].tag, buf'[i].data)
      <4>1. i # j /\ i \in Slot /\ 2 * i < word
        BY <1>1, <2>2, <3>1, <3>4, <3>8 DEF Slot
      <4> QED
        BY <1>0, <1>1, <3>2, <3>5, <4>1 DEF CopySoFar
    <3> QED
      BY <1>1, <2>1, <2>2, <3>2, <3>3, <3>7, <3>8 DEF CopySoFar
  <2>5. CASE CopyData
    <3>1. PICK j \in Slot :
             /\ word = 2 * j
             /\ buf' = [buf EXCEPT ![j] = [tag |-> @.tag,
                                           head |-> @.head,
                                           data |-> table[j].data]]
      BY <2>5 DEF CopyData
    <3>2. bufNum' = bufNum /\ Handed' = Handed /\ word > 0
      BY <2>5, <3>1 DEF CopyData, Handed, Slot
    <3>3. bufNum <= num /\ \A i \in Live : i > bufNum => kept[table[i].tag] = 0
      BY <1>0, <1>1, <3>2 DEF CopySoFar
    <3>4. Handed \subseteq Live
      BY <1>0, <3>3 DEF Handed, Live, TypeOK
    <3>5. /\ buf'[j] = [tag |-> buf[j].tag, head |-> buf[j].head,
                        data |-> table[j].data]
          /\ \A i \in Slot \ {j} : buf'[i] = buf[i]
      BY <1>0, <3>1 DEF TypeOK
    <3>6. j \in Live => StillWaits(table[j].tag, table[j].data)
      BY <1>0, LiveWaits
    <3>7. ASSUME NEW i \in Handed, 2 * i - 1 < word'
          PROVE  /\ buf'[i].tag = table[i].tag
                 /\ StillWaits(buf'[i].tag, buf'[i].head)
      <4>1. i \in Slot /\ 2 * i - 1 < word
        BY <1>1, <2>2, <3>1, <3>4, <3>7 DEF Slot
      <4>2. buf'[i].tag = buf[i].tag /\ buf'[i].head = buf[i].head
        BY <3>5, <4>1
      <4> QED
        BY <1>0, <1>1, <3>2, <4>1, <4>2 DEF CopySoFar
    <3>8. ASSUME NEW i \in Handed, 2 * i < word'
          PROVE  StillWaits(buf'[i].tag, buf'[i].data)
      <4>1. CASE i = j
        <5>1. 2 * j - 1 < word'
          BY <1>1, <3>1 DEF Slot
        <5> QED
          BY <3>4, <3>5, <3>6, <3>7, <4>1, <5>1
      <4>2. CASE i # j
        <5>1. i \in Slot /\ 2 * i < word
          BY <1>1, <2>2, <3>1, <3>4, <3>8, <4>2 DEF Slot
        <5> QED
          BY <1>0, <1>1, <3>2, <3>5, <4>2, <5>1 DEF CopySoFar
      <4> QED
        BY <4>1, <4>2
    <3> QED
      BY <1>1, <2>1, <2>2, <3>2, <3>3, <3>7, <3>8 DEF CopySoFar
  <2> QED
    BY <2>3, <2>4, <2>5 DEF CopyWord
<1> QED
  BY <1>2, <1>3, <1>4, <1>5, <1>6 DEF IInv
-----------------------------------------------------------------------------
(* When the copy is complete, the buffer's live part mirrors the table's,    *)
(* word by word: the same tags, each word of a report that still waits.      *)
LEMMA BufferWaits ==
  ASSUME IInv, pc = "clear", NEW i \in Handed
  PROVE  /\ i \in Live
         /\ buf[i].tag = table[i].tag
         /\ buf[i].tag \in Tag
         /\ StillWaits(buf[i].tag, buf[i].head)
         /\ StillWaits(buf[i].tag, buf[i].data)
<1>1. TypeOK /\ TableHoldsLatest /\ CopySoFar /\ CopyDone
  BY DEF IInv
<1>2. Copying /\ word = 2 * MaxAdvs + 1 /\ word > 0
  BY <1>1, TableAssumption DEF CopyDone, Copying
<1>3. i \in Nat /\ i <= MaxAdvs /\ i <= bufNum /\ i >= 1
  BY <1>1, TableAssumption DEF TypeOK, Handed
<1>4. 2 * i - 1 < word /\ 2 * i < word
  BY <1>2, <1>3, TableAssumption
<1>5. i \in Live
  BY <1>1, <1>2, <1>3 DEF CopySoFar, Live, TypeOK
<1> QED
  BY <1>1, <1>2, <1>4, <1>5 DEF CopySoFar, TableHoldsLatest

LEMMA ClearInv ==
  ASSUME IInv, TypeOK', Clear
  PROVE  IInv'
<1>0. TypeOK /\ TableHoldsLatest /\ HistoryMatches
  BY DEF IInv
<1>1. /\ UNCHANGED <<received, table, buf, bufNum, word, posted>>
      /\ pc = "clear" /\ pc' = "unlock"
      /\ num' = 0
      /\ kept' = [t \in Tag |-> 0]
      /\ racing' = [t \in Tag |-> {}]
  BY DEF Clear, bufVars
<1>2. Live' = {} /\ Handed' = Handed /\ ~Copying'
  BY <1>1 DEF Live, Handed, Copying
<1>3. \A t \in Tag : ~Present(t)' /\ \A k : ~StillWaits(t, k)'
  BY <1>1, <1>2 DEF Present, StillWaits
<1>4. TableHoldsLatest'
  BY <1>2 DEF TableHoldsLatest
<1>5. HistoryMatches'
  BY <1>0, <1>1, <1>3 DEF HistoryMatches
<1>6. HandedIsOlder'
  <2>1. ASSUME NEW i \in Handed
        PROVE  /\ buf[i].tag \in Tag
               /\ buf[i].head \in Number
               /\ buf[i].head > posted[buf[i].tag]
               /\ buf[i].data > posted[buf[i].tag]
    BY <1>0, <1>1, BufferWaits, WaitingIsNumber DEF HistoryMatches
  <2>2. \A i \in Handed, j \in Handed : buf[i].tag = buf[j].tag => i = j
    BY <1>0, <1>1, BufferWaits DEF TableHoldsLatest
  <2>3. HandedInOrder'
    BY <1>1, <1>2, <2>1, <2>2 DEF HandedInOrder
  <2> QED
    BY <1>1, <1>2, <1>3, <2>1, <2>3 DEF HandedIsOlder, Number
<1> QED
  BY <1>1, <1>2, <1>4, <1>5, <1>6 DEF IInv, CopySoFar, CopyDone

LEMMA PostInv ==
  ASSUME IInv, TypeOK', Post
  PROVE  IInv'
<1>0. TypeOK /\ TableHoldsLatest /\ HistoryMatches /\ HandedIsOlder
  BY DEF IInv
<1>1. /\ UNCHANGED <<received, table, num, buf, bufNum, word, kept, racing>>
      /\ pc = "post" /\ pc' = "away"
      /\ posted' = [t \in Tag |->
                      IF \E i \in Handed : buf[i].tag = t
                      THEN buf[CHOOSE i \in Handed : buf[i].tag = t].head
                      ELSE posted[t]]
  BY DEF Post, tableVars, bufVars
<1>2. ~Copying /\ ~Copying'
  BY <1>1 DEF Copying
<1>3. TableHoldsLatest'
  BY <1>0, <1>1 DEF TableHoldsLatest, IsLatest, Live
<1>4. HistoryMatches'
  <2>1. ASSUME NEW t \in Tag
        PROVE  /\ posted'[t] <= received
               /\ \A n \in Number : StillWaits(t, n) => n > posted'[t]
    <3>1. CASE \E i \in Handed : buf[i].tag = t
      <4>1. PICK i \in Handed : buf[i].tag = t /\ posted'[t] = buf[i].head
        BY <1>1, <3>1
      <4> QED
        BY <1>0, <1>1, <4>1 DEF HandedIsOlder, Number, TypeOK
    <3>2. CASE ~\E i \in Handed : buf[i].tag = t
      BY <1>0, <1>1, <3>2 DEF HistoryMatches
    <3> QED
      BY <3>1, <3>2
  <2> QED
    BY <1>0, <1>1, <1>2, <2>1
       DEF HistoryMatches, StillWaits, Present, Live, Number
<1> QED
  BY <1>1, <1>2, <1>3, <1>4
     DEF IInv, CopySoFar, CopyDone, HandedIsOlder

LEMMA NextInv == IInv /\ [Next]_vars => IInv'
<1> SUFFICES ASSUME IInv, [Next]_vars
             PROVE  IInv'
  OBVIOUS
<1>0. TypeOK'
  BY NextType DEF IInv
<1>1. ASSUME NEW t \in Tag, AdvReport(t)
      PROVE  IInv'
  BY <1>0, <1>1, AcceptInv, RefuseInv
<1>2. CASE Lock
  BY <1>0, <1>2, FrameInv DEF Lock, Copying
<1>3. CASE CopyWord
  BY <1>0, <1>3, CopyWordInv
<1>4. CASE Clear
  BY <1>0, <1>4, ClearInv
<1>5. CASE Unlock
  BY <1>0, <1>5, FrameInv DEF Unlock, bufVars, Copying
<1>6. CASE Post
  BY <1>0, <1>6, PostInv
<1>7. CASE Switch
  BY <1>0, <1>7, FrameInv DEF Switch, bufVars, Copying
<1>8. CASE UNCHANGED vars
  BY <1>0, <1>8, FrameInv DEF vars, tableVars, history, Copying
<1> QED
  BY <1>1, <1>2, <1>3, <1>4, <1>5, <1>6, <1>7, <1>8 DEF Next, MainStep

LEMMA InvariantHolds == Spec => []IInv
BY InitInv, NextInv, PTL DEF Spec

(* However the interrupt splits the copy, the table never holds a tag twice  *)
(* and each of its entries is, whole, the latest report accepted for its tag.*)
THEOREM TableIsLatest == Spec => []TableHoldsLatest
<1>1. IInv => TableHoldsLatest
  BY DEF IInv
<1> QED
  BY <1>1, InvariantHolds, PTL

(* However the interrupt splits the copy, no report is passed to             *)
(* http_send_advs twice, in whole or in part, or after a later one of its tag.*)
THEOREM PostsAreInOrder == Spec => []PostedInOrder
<1>1. IInv => PostedInOrder
  BY DEF IInv, HandedIsOlder, PostedInOrder
<1> QED
  BY <1>1, InvariantHolds, PTL
=============================================================================
