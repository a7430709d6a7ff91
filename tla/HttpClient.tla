----------------------------- MODULE HttpClient -----------------------------
(***************************************************************************)
(* The HTTP client of http_controller.c, as the main thread uses it: one    *)
(* request at a time, http_send_online after a boot and then one            *)
(* http_send_advs after the other.  A request builds its JSON text, looks   *)
(* the host up, opens and connects a socket, sends, and releases what it    *)
(* took.  HTTPS selects the functions for TLS or those for plain HTTP.      *)
(*                                                                         *)
(* The modem's sockets, the kernel's heap pool that address lists come from *)
(* and the C library's heap that JSON comes from are finite.                *)
(***************************************************************************)
EXTENDS Naturals, Sequences

CONSTANTS
  HTTPS,        \* CONFIG_RUUVI_ENDPOINT_HTTPS
  Partial,      \* whether send may accept less than it is given
  MessageLen,   \* length of a message, in the units that send accepts
  MaxSockets,   \* sockets the modem has
  Pool,         \* address lists the kernel's heap pool has room for
  Heap,         \* objects the C library's heap has room for
  Need          \* objects that a request's JSON takes

ASSUME ClientAssumption ==
  /\ HTTPS \in BOOLEAN /\ Partial \in BOOLEAN
  /\ MessageLen \in Nat \ {0}
  /\ MaxSockets \in Nat \ {0} /\ Pool \in Nat \ {0}
  /\ Need \in Nat \ {0} /\ Heap \in Nat /\ Heap >= Need

VARIABLES
  net,      \* the network
  pc,       \* where the main thread is in the request
  text,     \* json_str: "whole", "partial", "null", or "none" between requests
  lost,     \* objects of the C library's heap that nothing points to
  open,     \* sockets that are open
  addrs,    \* address lists that are not freed
  fd,       \* whether fd names an open socket
  off,      \* bytes send has accepted in this request
  stream,   \* the offsets in the message of the bytes that were accepted
  ok        \* whether the message was counted as sent

request == <<off, stream, ok>>
held    == <<open, addrs, fd>>
memory  == <<text, lost>>
vars == <<net, pc, text, lost, open, addrs, fd, off, stream, ok>>

Init ==
  /\ net = "up"
  /\ pc = "boot"
  /\ text = "none"
  /\ lost = 0
  /\ open = 0
  /\ addrs = 0
  /\ fd = FALSE
  /\ off = 0
  /\ stream = <<>>
  /\ ok = FALSE
-----------------------------------------------------------------------------
(* The JSON text.                                                            *)

BuildOnline ==
  /\ pc = "boot"
  /\ text' = "whole"
  /\ pc' = "resolve"
  /\ UNCHANGED <<net, lost, held, request>>

(* The first "location" of http_send_advs is never freed.                    *)
Enough ==
  /\ lost + 1 + Need <= Heap
  /\ lost' = lost + 1
  /\ text' = "whole"

(* Without memory the parts that cannot be created are left out, and without *)
(* a root or a text json_str is NULL.                                        *)
Short ==
  /\ lost + 1 + Need > Heap
  /\ lost' \in (IF lost = Heap THEN {Heap} ELSE lost + 1 .. Heap)
  /\ text' \in (IF lost + 1 >= Heap THEN {"null"} ELSE {"partial", "null"})

BuildBatch ==
  /\ pc = "idle"
  /\ Enough \/ Short
  /\ pc' = "resolve"
  /\ UNCHANGED <<net, held, request>>
-----------------------------------------------------------------------------
(* open_socket                                                               *)

(* close_https_socket frees the address list and closes the socket,          *)
(* close_http_socket closes the socket only.                                 *)
CloseSocket ==
  /\ open' = IF fd THEN open - 1 ELSE open
  /\ fd' = FALSE
  /\ addrs' = IF HTTPS THEN addrs - 1 ELSE addrs

Resolve ==
  /\ pc = "resolve"
  /\ \/ /\ net = "up" /\ addrs < Pool
        /\ addrs' = addrs + 1
        /\ pc' = "socket"
     \/ /\ net = "down" \/ addrs = Pool
        /\ pc' = "free"
        /\ UNCHANGED addrs
  /\ UNCHANGED <<net, memory, open, fd, request>>

(* open_http_socket does not look at the result of socket.                   *)
NoSocket ==
  IF HTTPS
  THEN /\ addrs' = addrs - 1
       /\ fd' = FALSE
       /\ pc' = "free"
  ELSE /\ fd' = FALSE
       /\ pc' = "connect"
       /\ UNCHANGED addrs

OpenSocket ==
  /\ pc = "socket"
  /\ \/ /\ open < MaxSockets
        /\ open' = open + 1
        /\ fd' = TRUE
        /\ pc' = "connect"
        /\ UNCHANGED addrs
     \/ /\ open = MaxSockets \/ net = "down"
        /\ NoSocket
        /\ UNCHANGED open
  /\ UNCHANGED <<net, memory, request>>

(* Mutants of ConnectFails: the TLS path forgets its clean-up, and its error *)
(* is not returned, so that the caller closes a second time.                 *)
ConnectFailsOnly ==
  /\ net = "down" \/ ~fd
  /\ pc' = "free"
  /\ UNCHANGED <<held, request>>

ConnectFailsAndIsClosed ==
  /\ net = "down" \/ ~fd
  /\ pc' = "close"
  /\ IF HTTPS THEN CloseSocket ELSE UNCHANGED held
  /\ UNCHANGED request

(* With setsockopt before it, or with bind, whose error connect repeats.     *)
ConnectFails ==
  /\ net = "down" \/ ~fd
  /\ pc' = "free"
  /\ IF HTTPS THEN CloseSocket ELSE UNCHANGED held
  /\ UNCHANGED request

Connected ==
  /\ net = "up" /\ fd
  /\ pc' = "post"
  /\ off' = 0
  /\ stream' = <<>>
  /\ UNCHANGED <<held, ok>>

Connect ==
  /\ pc = "connect"
  /\ Connected \/ ConnectFails
  /\ UNCHANGED <<net, memory>>
-----------------------------------------------------------------------------
(* https_post and http_post                                                  *)

(* strlen(NULL): the fault handler reboots.                                  *)
Fault ==
  /\ pc = "post"
  /\ text = "null"
  /\ pc' = "boot"
  /\ text' = "none"
  /\ lost' = 0
  /\ open' = 0
  /\ addrs' = 0
  /\ fd' = FALSE
  /\ off' = 0
  /\ stream' = <<>>
  /\ ok' = FALSE
  /\ UNCHANGED net

(* Every call of send is given the beginning of send_buf.                    *)
Accept(n) ==
  /\ n = MessageLen - off \/ Partial
  /\ off' = off + n
  /\ stream' = stream \o [i \in 1 .. n |-> i]

(* Mutant of AllSent: the last byte does not count.                          *)
AllButOneSent(n) == ~HTTPS \/ off + n >= MessageLen - 1

(* https_post loops until off has reached the length, http_post does not.    *)
AllSent(n) == ~HTTPS \/ off + n >= MessageLen

Send ==
  /\ pc = "post"
  /\ text # "null"
  /\ \E n \in 1 .. MessageLen - off :
       /\ Accept(n)
       /\ ok' = AllSent(n)
       /\ pc' = IF AllSent(n) THEN "close" ELSE "post"
  /\ UNCHANGED <<net, memory, held>>

SendFails ==
  /\ pc = "post"
  /\ text # "null"
  /\ net = "down"
  /\ ok' = FALSE
  /\ pc' = "close"
  /\ UNCHANGED <<net, memory, held, off, stream>>

Close ==
  /\ pc = "close"
  /\ CloseSocket
  /\ pc' = "free"
  /\ UNCHANGED <<net, memory, request>>

(* free(json_str); the result of the request is not looked at.               *)
Free ==
  /\ pc = "free"
  /\ text' = "none"
  /\ ok' = FALSE
  /\ pc' = "idle"
  /\ UNCHANGED <<net, lost, held, off, stream>>

MainStep ==
  \/ BuildOnline
  \/ BuildBatch
  \/ Resolve
  \/ OpenSocket
  \/ Connect
  \/ Fault
  \/ Send
  \/ SendFails
  \/ Close
  \/ Free

(* The network comes and goes (external).                                    *)
NetChanges ==
  /\ net' = IF net = "up" THEN "down" ELSE "up"
  /\ UNCHANGED <<pc, memory, held, request>>

Next == MainStep \/ NetChanges

Spec == Init /\ [][Next]_vars

(* The main loop goes on; tags are heard between two posts.                  *)
Fairness == WF_vars(MainStep)

FairSpec == Spec /\ Fairness
-----------------------------------------------------------------------------
(* Every variable has its type, and no limit is exceeded.                    *)
TypeOK ==
  /\ net \in {"up", "down"}
  /\ pc \in {"boot", "idle", "resolve", "socket", "connect", "post", "close",
             "free"}
  /\ text \in {"none", "whole", "partial", "null"}
  /\ lost \in 0 .. Heap
  /\ open \in 0 .. MaxSockets
  /\ addrs \in 0 .. Pool
  /\ fd \in BOOLEAN
  /\ off \in 0 .. MessageLen
  /\ stream \in Seq(1 .. MessageLen)
  /\ ok \in BOOLEAN

(* Whatever fails in a request, open_socket's error paths and close_socket   *)
(* leave no socket and no address list behind.                               *)
HoldsNothing == pc = "idle" => open = 0 /\ addrs = 0

(* A message counted as sent was accepted to its full length, however send   *)
(* splits it.                                                                *)
SentIsAccepted == pc = "close" /\ ok => Len(stream) = MessageLen

(* Once the network stays up, messages go on being sent: no failed request   *)
(* and no exhausted heap ends the posting for good.                          *)
KeepsPosting == <>[](net = "up") => []<>(pc = "close" /\ ok)
-----------------------------------------------------------------------------
(* The inductive invariant.  With TLS where the main thread is tells what is  *)
(* held; the plain client gives back no more than it holds.                  *)
HeldInv ==
  /\ fd => open > 0
  /\ HTTPS => /\ addrs = IF pc \in {"socket", "connect", "post", "close"} THEN 1 ELSE 0
              /\ open = IF pc \in {"connect", "post", "close"} THEN 1 ELSE 0
              /\ fd <=> open = 1

SentInv ==
  /\ pc \in {"post", "close"} => Len(stream) = off
  /\ pc = "post" => off < MessageLen
  /\ HTTPS \/ ~Partial => (pc = "close" /\ ok => off = MessageLen)

IInv == TypeOK /\ HeldInv /\ SentInv
=============================================================================
