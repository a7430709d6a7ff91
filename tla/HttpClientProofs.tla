-------------------------- MODULE HttpClientProofs --------------------------
(***************************************************************************)
(* A request never takes or releases more than there is; with TLS it        *)
(* releases the socket and the address list on every path, and a message    *)
(* counted as sent was accepted to its full length, for every length, every *)
(* limit of the heaps and however send splits messages.                     *)
(***************************************************************************)
EXTENDS HttpClient, TLAPS

(* TypeOK in two parts, for the provers: the Boolean variables, the others.  *)
Flags == fd \in BOOLEAN /\ ok \in BOOLEAN

Others ==
  /\ net \in {"up", "down"}
  /\ pc \in {"boot", "idle", "resolve", "socket", "connect", "post", "close",
             "free"}
  /\ text \in {"none", "whole", "partial", "null"}
  /\ lost \in 0 .. Heap
  /\ open \in 0 .. MaxSockets
  /\ addrs \in 0 .. Pool
  /\ off \in 0 .. MessageLen
  /\ stream \in Seq(1 .. MessageLen)

LEMMA Parts == TypeOK <=> Flags /\ Others
  BY DEF TypeOK, Flags, Others

(* What send accepted is appended to the stream.                             *)
LEMMA StreamGrows ==
  ASSUME TypeOK, NEW n \in 1 .. MessageLen - off
  PROVE  LET s == stream \o [i \in 1 .. n |-> i]
         IN  s \in Seq(1 .. MessageLen) /\ Len(s) = Len(stream) + n
<1> DEFINE bytes == [i \in 1 .. n |-> i]
<1>1. n \in Nat /\ off \in Nat /\ MessageLen \in Nat /\ n <= MessageLen
  BY ClientAssumption DEF TypeOK
<1>2. bytes \in [1 .. n -> 1 .. MessageLen]
  BY <1>1
<1>3. bytes \in Seq(1 .. MessageLen) /\ Len(bytes) = n
  BY <1>1, <1>2
<1>4. stream \in Seq(1 .. MessageLen)
  BY DEF TypeOK
<1> QED
  BY <1>3, <1>4

LEMMA InitInv == Init => IInv
<1> SUFFICES ASSUME Init
             PROVE  IInv
  OBVIOUS
<1>1. TypeOK
  <2>1. Flags
    BY DEF Init, Flags
  <2>2. Others
    BY ClientAssumption, <<>> \in Seq(1 .. MessageLen) DEF Init, Others
  <2> QED
    BY <2>1, <2>2, Parts
<1>2. HeldInv
  BY DEF Init, HeldInv
<1>3. SentInv
  BY DEF Init, SentInv
<1> QED
  BY <1>1, <1>2, <1>3 DEF IInv

LEMMA NextInv ==
  ASSUME IInv, [Next]_vars
  PROVE  IInv'
<1> USE ClientAssumption
<1>1. TypeOK /\ HeldInv /\ SentInv
  BY DEF IInv
<1>2. CASE BuildOnline
  BY <1>1, <1>2
     DEF BuildOnline, IInv, TypeOK, HeldInv, SentInv, held, request
<1>3. CASE BuildBatch
  <2>1. lost' \in 0 .. Heap /\ text' \in {"whole", "partial", "null"}
    BY <1>1, <1>3 DEF BuildBatch, Enough, Short, TypeOK
  <2> QED
    BY <1>1, <1>3, <2>1
       DEF BuildBatch, IInv, TypeOK, HeldInv, SentInv, held, request
<1>4. CASE Resolve
  BY <1>1, <1>4
     DEF Resolve, IInv, TypeOK, HeldInv, SentInv, memory, request
<1>5. CASE OpenSocket
  <2>1. TypeOK'
    <3>1. Flags'
      BY <1>1, <1>5 DEF OpenSocket, NoSocket, memory, request, TypeOK, Flags
    <3>2. Others'
      BY <1>1, <1>5 DEF OpenSocket, NoSocket, memory, request, TypeOK, HeldInv, Others
    <3> QED
      BY <3>1, <3>2, Parts DEF TypeOK, Flags, Others
  <2>2. HeldInv'
    BY <1>1, <1>5 DEF OpenSocket, NoSocket, TypeOK, HeldInv
  <2>3. SentInv'
    BY <1>1, <1>5 DEF OpenSocket, NoSocket, SentInv, request
  <2> QED
    BY <2>1, <2>2, <2>3 DEF IInv
<1>6. CASE Connect
  <2>1. CASE Connected
    BY <1>1, <1>6, <2>1
       DEF Connect, Connected, IInv, TypeOK, HeldInv, SentInv, memory, held
  <2>2. CASE ConnectFails
    <3>1. TypeOK'
      <4>1. CASE HTTPS
        <5>1. Flags'
          BY <1>1, <1>6, <2>2, <4>1 DEF Connect, ConnectFails, CloseSocket, memory, request, TypeOK, Flags
        <5>2. Others'
          BY <1>1, <1>6, <2>2, <4>1 DEF Connect, ConnectFails, CloseSocket, memory, request, TypeOK, HeldInv, Others
        <5> QED
          BY <5>1, <5>2, Parts DEF TypeOK, Flags, Others
      <4>2. CASE ~HTTPS
        BY <1>1, <1>6, <2>2, <4>2 DEF Connect, ConnectFails, held, memory, request, TypeOK
      <4> QED
        BY <4>1, <4>2
    <3>2. HeldInv'
      <4>1. CASE HTTPS
        BY <1>1, <1>6, <2>2, <4>1 DEF Connect, ConnectFails, CloseSocket, TypeOK, HeldInv
      <4>2. CASE ~HTTPS
        BY <1>1, <1>6, <2>2, <4>2 DEF Connect, ConnectFails, held, HeldInv
      <4> QED
        BY <4>1, <4>2
    <3>3. SentInv'
      BY <1>1, <1>6, <2>2 DEF Connect, ConnectFails, SentInv, request
    <3> QED
      BY <3>1, <3>2, <3>3 DEF IInv
  <2> QED
    BY <1>6, <2>1, <2>2 DEF Connect
<1>7. CASE Fault
  <2>1. TypeOK'
    <3>1. Flags'
      BY <1>1, <1>7, <<>> \in Seq(1 .. MessageLen) DEF Fault, TypeOK, Flags
    <3>2. Others'
      BY <1>1, <1>7, <<>> \in Seq(1 .. MessageLen) DEF Fault, TypeOK, HeldInv, Others
    <3> QED
      BY <3>1, <3>2, Parts DEF TypeOK, Flags, Others
  <2>2. HeldInv'
    BY <1>7 DEF Fault, HeldInv
  <2>3. SentInv'
    BY <1>7 DEF Fault, SentInv
  <2> QED
    BY <2>1, <2>2, <2>3 DEF IInv
<1>8. CASE Send
  <2>1. PICK n \in 1 .. MessageLen - off :
          /\ Accept(n)
          /\ ok' = AllSent(n)
          /\ pc' = IF AllSent(n) THEN "close" ELSE "post"
    BY <1>8 DEF Send
  <2>2. stream' \in Seq(1 .. MessageLen) /\ Len(stream') = Len(stream) + n
    BY <1>1, <2>1, StreamGrows DEF Accept
  <2>3. off' = off + n /\ off' \in 0 .. MessageLen
    BY <1>1, <2>1 DEF Accept, TypeOK
  <2>9. AllSent(n) => off' = MessageLen \/ (~HTTPS /\ Partial)
    BY <1>1, <2>1, <2>3 DEF Accept, AllSent, TypeOK
  <2>10. ~AllSent(n) => off' < MessageLen
    BY <1>1, <2>1, <2>3 DEF Accept, AllSent, TypeOK
  <2>4. UNCHANGED <<net, memory, held>> /\ pc = "post"
    BY <1>8 DEF Send
  <2>5. TypeOK'
    <3>1. Flags'
      <4>1. AllSent(n) \in BOOLEAN
        BY DEF AllSent
      <4> QED
        BY <1>1, <2>1, <2>4, <4>1 DEF TypeOK, Flags, held
    <3>2. Others'
      BY <1>1, <2>1, <2>2, <2>3, <2>4 DEF TypeOK, Others, memory, held
    <3> QED
      BY <3>1, <3>2, Parts DEF TypeOK, Flags, Others
  <2>6. HeldInv'
    BY <1>1, <2>1, <2>4 DEF HeldInv, held
  <2>7. SentInv'
    <3>1. Len(stream') = off'
      BY <1>1, <2>2, <2>3, <2>4 DEF SentInv, TypeOK
    <3>2. CASE AllSent(n)
      <4>1. pc' = "close"
        BY <2>1, <3>2
      <4>2. HTTPS \/ ~Partial => off' = MessageLen
        BY <2>9, <3>2
      <4> QED
        BY <3>1, <4>1, <4>2 DEF SentInv
    <3>3. CASE ~AllSent(n)
      <4>1. pc' = "post"
        BY <2>1, <3>3
      <4>2. off' < MessageLen
        BY <2>10, <3>3
      <4> QED
        BY <3>1, <4>1, <4>2 DEF SentInv
    <3> QED
      BY <3>2, <3>3
  <2> QED
    BY <2>5, <2>6, <2>7 DEF IInv
<1>9. CASE SendFails
  BY <1>1, <1>9
     DEF SendFails, IInv, TypeOK, HeldInv, SentInv, memory, held
<1>10. CASE Close
  <2>1. TypeOK'
    <3>1. Flags'
      BY <1>1, <1>10 DEF Close, CloseSocket, memory, request, TypeOK, Flags
    <3>2. Others'
      BY <1>1, <1>10 DEF Close, CloseSocket, memory, request, TypeOK, HeldInv, Others
    <3> QED
      BY <3>1, <3>2, Parts DEF TypeOK, Flags, Others
  <2>2. HeldInv'
    BY <1>1, <1>10 DEF Close, CloseSocket, TypeOK, HeldInv
  <2>3. SentInv'
    BY <1>1, <1>10 DEF Close, SentInv, request
  <2> QED
    BY <2>1, <2>2, <2>3 DEF IInv
<1>11. CASE Free
  BY <1>1, <1>11 DEF Free, IInv, TypeOK, HeldInv, SentInv, held
<1>12. CASE NetChanges
  BY <1>1, <1>12
     DEF NetChanges, IInv, TypeOK, HeldInv, SentInv, memory, held, request
<1>13. CASE UNCHANGED vars
  BY <1>1, <1>13 DEF vars, IInv, TypeOK, HeldInv, SentInv
<1> QED
  BY <1>2, <1>3, <1>4, <1>5, <1>6, <1>7, <1>8, <1>9, <1>10, <1>11, <1>12,
     <1>13 DEF Next, MainStep

LEMMA InvariantHolds == Spec => []IInv
BY InitInv, NextInv, PTL DEF Spec

(* With TLS or without, no request takes more sockets or lists than there    *)
(* are, and none releases what it does not hold, although the plain client    *)
(* loses sockets and lists.                                                  *)
THEOREM ClientTypeCorrect == Spec => []TypeOK
<1>1. IInv => TypeOK
  BY DEF IInv
<1> QED
  BY <1>1, InvariantHolds, PTL

(* open_https_socket's error paths and close_https_socket release everything *)
(* a request has taken.                                                      *)
THEOREM TlsHoldsNothing ==
  ASSUME HTTPS
  PROVE  Spec => []HoldsNothing
<1>1. IInv => HoldsNothing
  BY DEF IInv, HeldInv, HoldsNothing
<1> QED
  BY <1>1, InvariantHolds, PTL

(* https_post's loop ends without an error only when the whole length was    *)
(* accepted; http_post's one call does if send accepts all it is given.       *)
THEOREM WholeMessageIsSent ==
  ASSUME HTTPS \/ ~Partial
  PROVE  Spec => []SentIsAccepted
<1>1. IInv => SentIsAccepted
  BY DEF IInv, SentInv, SentIsAccepted
<1> QED
  BY <1>1, InvariantHolds, PTL
=============================================================================
