------------------------------ MODULE AdvStore ------------------------------
(***************************************************************************)
(* What the advertisement store of adv_post.c promises the main loop,      *)
(* without its table, its buffer, its mutex or its threads.  Reports are    *)
(* numbered in the order they were received.  A tag's report waits until a  *)
(* hand-over gives the main loop a batch to post; a newer report of the     *)
(* same tag supersedes the waiting one.                                     *)
(*                                                                         *)
(* The store keeps two promises.  Reports received outside a hand-over are  *)
(* handed over exactly: whole, once, and the latest of each tag.  A report  *)
(* received while a hand-over is in progress ("racing") may be handed over, *)
(* mixed with the one it supersedes, or lost.                               *)
(***************************************************************************)
EXTENDS Naturals, FiniteSets

CONSTANTS
  Tag,        \* the MAC addresses of the tags around the gateway
  MaxAdvs     \* MAX_ADVS_TABLE: how many tags the store can hold

VARIABLES
  received,   \* number of reports received so far; the last one's number
  kept,       \* per tag, the report that waited when the last hand-over began
  racing,     \* per tag, the reports accepted since that hand-over began
  copying,    \* a hand-over is in progress
  batch,      \* what the last hand-over gave the main loop, until it is posted
  posted      \* per tag, the latest report posted

vars == <<received, kept, racing, copying, batch, posted>>

Report == Nat \ {0}

Waiting(t) == kept[t] # 0 \/ racing[t] # {}

Waits == {t \in Tag : Waiting(t)}

Init ==
  /\ received = 0
  /\ kept = [t \in Tag |-> 0]
  /\ racing = [t \in Tag |-> {}]
  /\ copying = FALSE
  /\ batch = {}
  /\ posted = [t \in Tag |-> 0]

Accept(t) ==
  /\ Waiting(t) \/ Cardinality(Waits) < MaxAdvs
  /\ received' = received + 1
  /\ IF copying
     THEN /\ racing' = [racing EXCEPT ![t] = @ \cup {received'}]
          /\ UNCHANGED kept
     ELSE /\ kept' = [kept EXCEPT ![t] = received']
          /\ UNCHANGED racing
  /\ UNCHANGED <<copying, batch, posted>>

Refuse(t) ==
  /\ ~Waiting(t)
  /\ Cardinality(Waits) >= MaxAdvs
  /\ received' = received + 1
  /\ UNCHANGED <<kept, racing, copying, batch, posted>>

BeginHandOver ==
  /\ ~copying
  /\ batch = {}
  /\ copying' = TRUE
  /\ UNCHANGED <<received, kept, racing, batch, posted>>

(* The batches a hand-over may give: one entry per tag, every entry made of  *)
(* reports of that tag that still wait, and a tag that no racing report      *)
(* touched is there with exactly the report that was kept for it.            *)
Allowed(b) ==
  /\ \A x \in b, y \in b : x.tag = y.tag => x = y
  /\ \A x \in b : {x.head, x.data} \subseteq
                    racing[x.tag] \cup ({kept[x.tag]} \ {0})
  /\ \A t \in Tag : kept[t] # 0 =>
       \E x \in b : /\ x.tag = t
                    /\ racing[t] = {} => x.head = kept[t] /\ x.data = kept[t]

HandOver ==
  /\ copying
  /\ copying' = FALSE
  /\ batch' \in SUBSET [tag : Tag, head : Report, data : Report]
  /\ Allowed(batch')
  /\ kept' = [t \in Tag |-> 0]
  /\ racing' = [t \in Tag |-> {}]
  /\ UNCHANGED <<received, posted>>

Post ==
  /\ batch # {}
  /\ posted' = [t \in Tag |->
                  IF \E x \in batch : x.tag = t
                  THEN (CHOOSE x \in batch : x.tag = t).head
                  ELSE posted[t]]
  /\ batch' = {}
  /\ UNCHANGED <<received, kept, racing, copying>>

Next ==
  \/ \E t \in Tag : Accept(t) \/ Refuse(t)
  \/ BeginHandOver
  \/ HandOver
  \/ Post

Spec == Init /\ [][Next]_vars
=============================================================================
