------------------------------ MODULE AdvTable ------------------------------
(***************************************************************************)
(* The advertisement table of adv_post.c: the UART interrupt puts reports   *)
(* into adv_reports, the main loop copies the table to adv_reports_buf,     *)
(* clears it and posts the copy.  Both sides take adv_table_mux, a mutex of *)
(* the Zephyr kernel that knows threads only: in the interrupt, the kernel  *)
(* believes it is called by the thread that was interrupted.                *)
(*                                                                         *)
(* The interrupt runs to completion, so adv_put_to_table is one action.     *)
(* The main loop's copy is a structure assignment that the interrupt can    *)
(* split anywhere: it is modelled word by word, first num_of_advs, then two *)
(* words of each entry (the address and the head of the report, and its     *)
(* payload).                                                               *)
(***************************************************************************)
EXTENDS Naturals, FiniteSets

CONSTANTS
  Tag,         \* MAC addresses of the tags that are heard
  NoTag,       \* the address in an entry nothing was ever stored in
  MaxAdvs,     \* MAX_ADVS_TABLE
  Worker,      \* threads of higher priority than main: the two work queues
  Main,        \* the main thread
  Idle,        \* the idle thread, for whatever runs when main is blocked
  NoThread     \* NULL, the owner of a free mutex

ASSUME TableAssumption ==
  /\ MaxAdvs \in Nat \ {0}
  /\ NoTag \notin Tag

ASSUME ThreadAssumption ==
  /\ Main # Idle
  /\ {Main, Idle} \cap Worker = {}
  /\ NoThread \notin Worker \cup {Main, Idle}

Thread == Worker \cup {Main, Idle}

Slot == 1 .. MaxAdvs

(* An adv_report_t: the two words of the copy carry the number of the report *)
(* they were written for, so that a mixture of two reports can be told.      *)
Entry == [tag : Tag \cup {NoTag}, head : Nat, data : Nat]

EmptyEntry == [tag |-> NoTag, head |-> 0, data |-> 0]

VARIABLES
  received,   \* gw_metrics.received_advertisements
  table,      \* adv_reports.table
  num,        \* adv_reports.num_of_advs
  buf,        \* adv_reports_buf.table
  bufNum,     \* adv_reports_buf.num_of_advs
  word,       \* words of the structure assignment already copied
  pc,         \* where the main thread is in adv_post
  mutex,      \* adv_table_mux: owner, lock_count and the pended threads
  cur,        \* _current: the thread that runs, or that the interrupt stopped
  kept,       \* history: per tag, the report in the table when main took the lock
  racing,     \* history: per tag, the reports stored while main copies
  posted      \* history: per tag, the latest report passed to http_send_advs

tableVars == <<received, table, num>>
bufVars   == <<buf, bufNum, word>>
history   == <<kept, racing, posted>>
vars == <<received, table, num, buf, bufNum, word, pc, mutex, cur,
          kept, racing, posted>>

Live    == 1 .. num
Handed  == 1 .. bufNum

Init ==
  /\ received = 0
  /\ table = [i \in Slot |-> EmptyEntry]
  /\ num = 0
  /\ buf = [i \in Slot |-> EmptyEntry]
  /\ bufNum = 0
  /\ word = 0
  /\ pc = "away"
  /\ mutex = [owner |-> NoThread, count |-> 0, waiting |-> {}]
  /\ cur = Main
  /\ kept = [t \in Tag |-> 0]
  /\ racing = [t \in Tag |-> {}]
  /\ posted = [t \in Tag |-> 0]
-----------------------------------------------------------------------------
(* The kernel's mutex, as the calling thread t finds it.                     *)

(* k_mutex_lock(m, K_FOREVER): a free mutex, or one t owns already, is       *)
(* taken; otherwise t is pended.  The idle thread runs whatever is pended.   *)
Locked(m, t) ==
  IF m.count = 0 \/ m.owner = t
  THEN [owner |-> t, count |-> m.count + 1, waiting |-> m.waiting]
  ELSE [m EXCEPT !.waiting = @ \cup ({t} \ {Idle})]

(* k_mutex_unlock(m): refused unless t owns the mutex; the last unlock gives *)
(* it to a pended thread and leaves lock_count at one for that thread.       *)
Unlocked(m, t) ==
  CASE m.owner # t -> {m}
    [] m.owner = t /\ m.count > 1 -> {[m EXCEPT !.count = @ - 1]}
    [] m.owner = t /\ m.count <= 1 /\ m.waiting = {} ->
         {[owner |-> NoThread, count |-> 0, waiting |-> {}]}
    [] OTHER ->
         {[owner |-> w, count |-> m.count, waiting |-> m.waiting \ {w}] :
            w \in m.waiting}

(* The main thread is blocked, in k_sleep or in the socket calls of a post,  *)
(* at most while it is out of adv_post's critical section.                   *)
MainMayBlock(p) == p \in {"away", "post"}

(* Who may run when main is at p: lower priorities only if main cannot.      *)
Eligible(m, p) ==
  {t \in Thread \ m.waiting : t = Idle => MainMayBlock(p) \/ Main \in m.waiting}

(* The current thread goes on, unless the kernel has just pended it.         *)
Resume(m, p) == IF cur \in m.waiting THEN Eligible(m, p) ELSE {cur}

(* A scheduling decision.  A main thread that owns a mutex others wait for   *)
(* has inherited the priority of the work queues, which cannot preempt it.   *)
Switch ==
  /\ cur' \in Eligible(mutex, pc) \ {cur}
  /\ cur' \in Worker => ~(cur = Main /\ mutex.owner = Main /\ mutex.waiting # {})
  /\ UNCHANGED <<tableVars, bufVars, pc, mutex, history>>
-----------------------------------------------------------------------------
(* adv_put_to_table, from the interrupt, in the name of the current thread.  *)

Present(t) == \E i \in Live : table[i].tag = t

Copying == pc \in {"copy", "clear"}

(* Mutants of Put: a table without its limit, and one that never looks for   *)
(* the tag it has.                                                           *)
PutWithoutLimit(t) ==
  LET new == [tag |-> t, head |-> received + 1, data |-> received + 1]
  IN  IF Present(t)
      THEN /\ table' = [i \in Slot |-> IF i \in Live /\ table[i].tag = t
                                       THEN new ELSE table[i]]
           /\ num' = num
      ELSE /\ table' = [i \in Slot |-> IF i = num + 1 THEN new ELSE table[i]]
           /\ num' = num + 1

PutWithoutSearch(t) ==
  LET new == [tag |-> t, head |-> received + 1, data |-> received + 1]
  IN  IF num < MaxAdvs
      THEN /\ table' = [table EXCEPT ![num + 1] = new]
           /\ num' = num + 1
      ELSE UNCHANGED <<table, num>>

Put(t) ==
  LET new == [tag |-> t, head |-> received + 1, data |-> received + 1]
  IN  CASE Present(t) ->
             /\ table' = [i \in Slot |-> IF i \in Live /\ table[i].tag = t
                                         THEN new ELSE table[i]]
             /\ num' = num
        [] ~Present(t) /\ num < MaxAdvs ->
             /\ table' = [table EXCEPT ![num + 1] = new]
             /\ num' = num + 1
        [] OTHER -> UNCHANGED <<table, num>>

Remember(t) ==
  IF ~Present(t) /\ num >= MaxAdvs
  THEN UNCHANGED <<kept, racing>>
  ELSE IF Copying
       THEN /\ racing' = [racing EXCEPT ![t] = @ \cup {received + 1}]
            /\ UNCHANGED kept
       ELSE /\ kept' = [kept EXCEPT ![t] = received + 1]
            /\ UNCHANGED racing

(* adv_post_send_report.  parse_adv_report_from_uart passes every report that*)
(* was decoded, as its data is what to_hex_str wrote; one that was not is    *)
(* refused there, and UartLink's Stored leaves it out.                       *)
AdvReport(t) ==
  /\ mutex' \in Unlocked(Locked(mutex, cur), cur)
  /\ received' = received + 1
  /\ Put(t)
  /\ Remember(t)
  /\ cur' \in Resume(mutex', pc)
  /\ UNCHANGED <<bufVars, pc, posted>>
-----------------------------------------------------------------------------
(* adv_post, from the main loop.                                             *)

Lock ==
  /\ cur = Main
  /\ pc = "away"
  /\ mutex' = Locked(mutex, Main)
  /\ pc' = "copy"
  /\ word' = 0
  /\ cur' \in Resume(mutex', "copy")
  /\ UNCHANGED <<tableVars, buf, bufNum, history>>

(* Mutant of CopyNum: the last entry of the table is left behind.            *)
CopyNumShort ==
  /\ word = 0
  /\ bufNum' = IF num > 0 THEN num - 1 ELSE 0
  /\ UNCHANGED buf

(* Words 2i-1 and 2i are the two words of entry i.                           *)
CopyNum ==
  /\ word = 0
  /\ bufNum' = num
  /\ UNCHANGED buf

CopyHead ==
  /\ \E i \in Slot :
       /\ word = 2 * i - 1
       /\ buf' = [buf EXCEPT ![i] = [tag |-> table[i].tag,
                                     head |-> table[i].head,
                                     data |-> @.data]]
  /\ UNCHANGED bufNum

CopyData ==
  /\ \E i \in Slot :
       /\ word = 2 * i
       /\ buf' = [buf EXCEPT ![i] = [tag |-> @.tag,
                                     head |-> @.head,
                                     data |-> table[i].data]]
  /\ UNCHANGED bufNum

CopyWord ==
  /\ cur = Main
  /\ pc = "copy"
  /\ CopyNum \/ CopyHead \/ CopyData
  /\ word' = word + 1
  /\ pc' = IF word = 2 * MaxAdvs THEN "clear" ELSE "copy"
  /\ UNCHANGED <<tableVars, mutex, cur, history>>

(* Mutant of Clear: num_of_advs is not reset.                                *)
ClearNothing ==
  /\ cur = Main
  /\ pc = "clear"
  /\ pc' = "unlock"
  /\ kept' = [t \in Tag |-> 0]
  /\ racing' = [t \in Tag |-> {}]
  /\ UNCHANGED <<tableVars, bufVars, mutex, cur, posted>>

Clear ==
  /\ cur = Main
  /\ pc = "clear"
  /\ num' = 0
  /\ pc' = "unlock"
  /\ kept' = [t \in Tag |-> 0]
  /\ racing' = [t \in Tag |-> {}]
  /\ UNCHANGED <<received, table, bufVars, mutex, cur, posted>>

(* Mutant of Unlock: a batch of one report is not worth a post.              *)
UnlockPostsMany ==
  /\ cur = Main
  /\ pc = "unlock"
  /\ mutex' \in Unlocked(mutex, Main)
  /\ pc' = IF bufNum > 1 THEN "post" ELSE "away"
  /\ UNCHANGED <<tableVars, bufVars, cur, history>>

Unlock ==
  /\ cur = Main
  /\ pc = "unlock"
  /\ mutex' \in Unlocked(mutex, Main)
  /\ pc' = IF bufNum # 0 THEN "post" ELSE "away"
  /\ UNCHANGED <<tableVars, bufVars, cur, history>>

(* http_send_advs: the batch leaves, whatever becomes of the message.        *)
Post ==
  /\ cur = Main
  /\ pc = "post"
  /\ posted' = [t \in Tag |->
                  IF \E i \in Handed : buf[i].tag = t
                  THEN buf[CHOOSE i \in Handed : buf[i].tag = t].head
                  ELSE posted[t]]
  /\ pc' = "away"
  /\ UNCHANGED <<tableVars, bufVars, mutex, cur, kept, racing>>

MainStep == Lock \/ CopyWord \/ Clear \/ Unlock \/ Post

Next ==
  \/ \E t \in Tag : AdvReport(t)
  \/ MainStep
  \/ Switch

Spec == Init /\ [][Next]_vars
-----------------------------------------------------------------------------
(* The scheduling the code may rely on: interrupts and work items are short, *)
(* so the main thread gets the processor again and again unless the kernel   *)
(* has pended it, and makes progress while it has it.                        *)
SwitchToMain == Switch /\ cur' = Main

Fairness == SF_vars(SwitchToMain) /\ SF_vars(MainStep)

FairSpec == Spec /\ Fairness
-----------------------------------------------------------------------------
Number == 0 .. received

(* Every variable has its type.                                              *)
TypeOK ==
  /\ received \in Nat
  /\ table \in [Slot -> Entry]
  /\ num \in 0 .. MaxAdvs
  /\ buf \in [Slot -> Entry]
  /\ bufNum \in 0 .. MaxAdvs
  /\ word \in 0 .. 2 * MaxAdvs + 1
  /\ pc \in {"away", "copy", "clear", "unlock", "post"}
  /\ mutex \in [owner : Thread \cup {NoThread}, count : Nat, waiting : SUBSET Thread]
  /\ cur \in Thread
  /\ kept \in [Tag -> Number]
  /\ racing \in [Tag -> SUBSET Number]
  /\ posted \in [Tag -> Nat]

(* The report of tag t that waits: the latest one the table accepted.        *)
IsLatest(t, n) ==
  IF racing[t] = {} THEN n = kept[t]
  ELSE n \in racing[t] /\ \A m \in racing[t] : m <= n

(* adv_put_to_table updates a tag's entry in place: however puts, copies and *)
(* clears interleave, the live entries have distinct tags and each holds,    *)
(* whole, the latest report accepted for its tag since the table was cleared.*)
TableHoldsLatest ==
  /\ \A i \in Live, j \in Live : table[i].tag = table[j].tag => i = j
  /\ \A i \in Live : /\ table[i].tag \in Tag
                     /\ table[i].head = table[i].data
                     /\ IsLatest(table[i].tag, table[i].head)

(* What adv_post passes to http_send_advs names no tag twice, and no word of *)
(* it was posted before or is older than a report of that tag posted before, *)
(* though adv_reports_buf and the cleared table still hold earlier reports.  *)
HandedInOrder ==
  /\ \A i \in Handed, j \in Handed : buf[i].tag = buf[j].tag => i = j
  /\ \A i \in Handed : /\ buf[i].tag \in Tag
                       /\ buf[i].head > posted[buf[i].tag]
                       /\ buf[i].data > posted[buf[i].tag]

PostedInOrder == pc = "post" => HandedInOrder

(* The store the table implements: a hand-over is in progress from the lock  *)
(* to the clearing, and its batch is what is left in the buffer.             *)
Batch == IF pc \in {"unlock", "post"} THEN {buf[i] : i \in Handed} ELSE {}

Store == INSTANCE AdvStore WITH copying <- Copying, batch <- Batch

(* Reports received outside the copy are posted exactly once and whole; only *)
(* reports that race with the copy can be mixed or lost.                     *)
StoreSpec == Store!Spec

(* adv_post.c:236: "for thread safety copy the advertisements to a separate  *)
(* buffer": when the table is cleared, the buffer holds what the table held. *)
CopyIsFaithful ==
  [][Clear => {buf[i] : i \in Handed} = {table[i] : i \in Live}]_vars
-----------------------------------------------------------------------------
(* The inductive invariant behind these properties.                          *)

(* Report n of tag t still waits: it is kept, or races with the copy.        *)
StillWaits(t, n) == n \in racing[t] \cup ({kept[t]} \ {0})

(* The history agrees with the table, and with what was posted.              *)
HistoryMatches ==
  /\ \A t \in Tag : Present(t) <=> kept[t] # 0 \/ racing[t] # {}
  /\ ~Copying => \A t \in Tag : racing[t] = {}
  /\ \A t \in Tag : posted[t] <= received
  /\ \A t \in Tag, n \in Number : StillWaits(t, n) => n > posted[t]

(* The words copied so far: num_of_advs can only have grown since, and each  *)
(* word of an entry is a report of its tag that still waits.                 *)
CopySoFar ==
  Copying /\ word > 0 =>
    /\ bufNum <= num
    /\ \A i \in Live : i > bufNum => kept[table[i].tag] = 0
    /\ \A i \in Handed : 2 * i - 1 < word =>
         buf[i].tag = table[i].tag /\ StillWaits(buf[i].tag, buf[i].head)
    /\ \A i \in Handed : 2 * i < word => StillWaits(buf[i].tag, buf[i].data)

CopyDone == pc = "clear" => word = 2 * MaxAdvs + 1

(* After the clearing: what is handed over is older than what waits again.   *)
HandedIsOlder ==
  pc \in {"unlock", "post"} =>
    /\ HandedInOrder
    /\ \A i \in Handed :
         /\ buf[i].head \in Number
         /\ \A n \in Number : StillWaits(buf[i].tag, n) => n > buf[i].head

IInv ==
  /\ TypeOK
  /\ TableHoldsLatest
  /\ HistoryMatches
  /\ CopySoFar
  /\ CopyDone
  /\ HandedIsOlder
=============================================================================
