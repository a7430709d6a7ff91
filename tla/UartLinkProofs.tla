--------------------------- MODULE UartLinkProofs ---------------------------
(***************************************************************************)
(* Proofs about UartLink, for frames of any content and length, any number of*)
(* frames, lost bytes and commands and any length of the window.            *)
(***************************************************************************)
EXTENDS UartLink, SequenceTheorems, TLAPS

LEMMA FrameLenType == /\ FrameLen \in Nat /\ FrameLen >= 5
                      /\ PayloadLen \in Nat /\ FrameLen = PayloadLen + 4
  BY LinkAssumption DEF FrameLen

(* What a byte's value says of its frame.                                    *)
LEMMA ValueOfByte ==
  ASSUME NEW f \in FrameType, NEW i \in 1 .. FrameLen,
         NEW b, b = [frame |-> f, pos |-> i]
  PROVE  /\ i = 1 => Val(b) = "stx"
         /\ i = 2 => Val(b) = f.len
         /\ i = 3 => Val(b) = f.cmd
         /\ i = FrameLen => Val(b) = "nl"
         /\ Val(b) = "id" => i # 1 /\ (CarriesId(f) \/ (i = 2 /\ f.len = "id"))
         /\ Val(b) = "nl" => i # 1 /\ (i = FrameLen \/ HasNewline(f))
<1> USE FrameLenType
<1>1. b.frame = f /\ b.pos = i /\ f.cmd \in {"none", "adv", "id"}
  BY DEF FrameType
<1>2. CASE i \in {1, 2, 3, FrameLen}
  BY <1>1, <1>2 DEF Val, CarriesId, HasNewline
<1>3. CASE i \notin {1, 2, 3, FrameLen}
  <2>1. i - 3 \in 1 .. PayloadLen /\ Val(b) = f.payload[i - 3] /\ i > 3
    BY <1>1, <1>3 DEF Val
  <2> QED BY <1>3, <2>1 DEF CarriesId, HasNewline
<1> QED BY <1>2, <1>3

LEMMA NoFrameIsPlain ==
  /\ NoFrame \in FrameType
  /\ ~CarriesId(NoFrame) /\ NoFrame.len = "other" /\ ~HasNewline(NoFrame)
  BY LinkAssumption DEF NoFrame, FrameType, Value, CarriesId, HasNewline

-----------------------------------------------------------------------------
(* Types.                                                                    *)

(* What happens to the frame and the counters at the end of a byte.          *)
LEMMA EndOfByteType ==
  ASSUME TypeOK, SendingInv, frame # NoFrame,
         NEW d \in BOOLEAN, NEW c \in BOOLEAN, EndOfByte(d, c)
  PROVE  /\ frame' \in FrameType /\ pos' \in 1 .. FrameLen /\ cut' \in BOOLEAN
         /\ sent' \in 0 .. MaxFrames /\ missed' \in Nat /\ newlines' \in Nat
         /\ suspect' \in BOOLEAN
         /\ frame' = NoFrame => pos' = 1
         /\ frame' # NoFrame => sent' < MaxFrames
<1> USE FrameLenType, LinkAssumption
<1>1. /\ pos \in 1 .. FrameLen /\ sent \in 0 .. MaxFrames /\ sent < MaxFrames
      /\ missed \in Nat /\ newlines \in Nat /\ suspect \in BOOLEAN
  BY DEF TypeOK, SendingInv
<1>2. CASE pos = FrameLen
  <2>1. /\ frame' = NoFrame /\ pos' = 1 /\ cut' = FALSE /\ sent' = sent + 1
        /\ missed' \in {missed, missed + 1} /\ newlines' \in {newlines, newlines + 1}
        /\ suspect' = (suspect \/ Misleads(frame, c))
    BY <1>2 DEF EndOfByte
  <2>2. frame' \in FrameType /\ pos' \in 1 .. FrameLen /\ cut' \in BOOLEAN
    <3>1. frame' = NoFrame /\ pos' = 1 /\ cut' = FALSE
      BY <2>1
    <3>2. 1 \in 1 .. FrameLen
      OBVIOUS
    <3> QED BY <3>1, <3>2, NoFrameIsPlain
  <2>3. sent' \in 0 .. MaxFrames /\ missed' \in Nat /\ newlines' \in Nat
    BY <1>1, <2>1
  <2>4. suspect' \in BOOLEAN
    BY <1>1, <2>1 DEF Misleads, CarriesId, Damaged, HasNewline, Behind
  <2> QED BY <2>1, <2>2, <2>3, <2>4
<1>3. CASE pos # FrameLen
  <2>1. pos' = pos + 1 /\ cut' = c /\ frame' = frame /\ UNCHANGED history
    BY <1>3 DEF EndOfByte
  <2> QED BY <1>1, <1>3, <2>1 DEF TypeOK, history
<1> QED BY <1>2, <1>3

LEMMA SendType ==
  ASSUME TypeOK, SendingInv, SendAdv \/ SendReply
  PROVE  TypeOK' /\ SendingInv'
<1> USE FrameLenType, LinkAssumption DEF TypeOK
<1>1. PICK c \in {"adv", "id"} : Start(c)
  BY DEF SendAdv, SendReply
<1>2. PICK d \in Contents :
        frame' = [id |-> sent + 1, len |-> d.len, cmd |-> c, payload |-> d.payload]
  BY <1>1 DEF Start
<1>3. sent \in Nat /\ sent < MaxFrames /\ pos' = 1
  BY <1>1 DEF Start
<1>4. frame' \in FrameType
  BY <1>2, <1>3 DEF FrameType
<1>5. UNCHANGED <<rx, cmdSent, age, pc, mac, commands, lost, cut, sent, missed,
                  newlines, suspect>>
  BY <1>1 DEF Start, counts, history
<1>6. requests' \in 0 .. MaxCommands /\ requests' <= requests
  <2>1. CASE SendAdv
    BY <2>1 DEF SendAdv
  <2>2. CASE SendReply
    BY <2>2 DEF SendReply
  <2> QED BY <2>1, <2>2
<1>7. TypeOK'
  BY <1>3, <1>4, <1>5, <1>6
<1>8. requests' <= commands' /\ (pc' = "write" => requests' < commands')
  BY <1>5, <1>6 DEF SendingInv
<1> QED BY <1>3, <1>5, <1>7, <1>8 DEF SendingInv

(* The byte that arrives, and the packet it may end.                         *)
LEMMA ByteArrives ==
  ASSUME TypeOK, Receive,
         NEW b, b = [frame |-> frame, pos |-> pos]
  PROVE  /\ b \in ByteType /\ Append(rx, b) \in Seq(ByteType)
         /\ \E d \in BOOLEAN : EndOfByte(d, cut)
<1>1. b \in ByteType /\ rx \in Seq(ByteType)
  BY DEF TypeOK, ByteType
<1>2. Stored(Append(rx, b)) \in BOOLEAN
  BY DEF Stored, Reaches, Whole
<1>3. EndOfByte(Stored(Append(rx, b)), cut) \/ EndOfByte(FALSE, cut)
  BY DEF Receive, EndOfPacket, Decode
<1>4. Append(rx, b) \in Seq(ByteType)
  BY <1>1, AppendProperties
<1> QED BY <1>1, <1>2, <1>3, <1>4

LEMMA ReceiveType ==
  ASSUME TypeOK, SendingInv, Receive
  PROVE  TypeOK' /\ SendingInv'
<1> DEFINE b == [frame |-> frame, pos |-> pos]
           p == Append(rx, b)
<1>1. frame # NoFrame /\ UNCHANGED <<requests, age, pc, commands, lost>>
  BY DEF Receive
<1>2. p \in Seq(ByteType) /\ <<>> \in Seq(ByteType)
  BY ByteArrives
<1>3. rx' \in Seq(ByteType) /\ cmdSent' \in BOOLEAN
  BY <1>2 DEF Receive, EndOfPacket, TypeOK
<1>4. mac' \in {"unset", "right", "zeros"}
  BY DEF Receive, EndOfPacket, Decode, TypeOK
<1>5. PICK d \in BOOLEAN : EndOfByte(d, cut)
  BY ByteArrives
<1>6. cut \in BOOLEAN
  BY DEF TypeOK
<1> QED BY <1>1, <1>3, <1>4, <1>5, <1>6, EndOfByteType DEF TypeOK, SendingInv

LEMMA LoseType ==
  ASSUME TypeOK, SendingInv, LoseByte
  PROVE  TypeOK' /\ SendingInv'
<1> USE LinkAssumption
<1>1. /\ frame # NoFrame /\ EndOfByte(FALSE, TRUE)
      /\ UNCHANGED <<requests, rx, cmdSent, age, pc, mac, commands>>
  BY DEF LoseByte
<1>2. lost' \in 0 .. MaxLost
  BY DEF LoseByte, TypeOK
<1> QED BY <1>1, <1>2, EndOfByteType DEF TypeOK, SendingInv

LEMMA WriteType ==
  ASSUME TypeOK, SendingInv, SetCmdSent \/ PollOut \/ TakeTime \/ Tick
  PROVE  TypeOK' /\ SendingInv'
<1> USE LinkAssumption
<1>1. UNCHANGED <<frame, pos, rx, mac, lost, cut, sent, missed, newlines, suspect>>
  BY DEF SetCmdSent, PollOut, TakeTime, Tick, counts, history
<1>2. requests \in Nat /\ commands \in 0 .. MaxCommands /\ age \in 0 .. Window + 1
  BY DEF TypeOK
<1>3. requests <= commands /\ (pc = "write" => requests < commands)
  BY DEF SendingInv
<1>4. /\ requests' \in Nat /\ commands' \in 0 .. MaxCommands
      /\ requests' <= commands' /\ (pc' = "write" => requests' < commands')
  <2>1. CASE SetCmdSent
    BY <1>2, <1>3, <2>1 DEF SetCmdSent
  <2>2. CASE PollOut
    BY <1>2, <1>3, <2>2 DEF PollOut, counts
  <2>3. CASE TakeTime
    BY <1>2, <1>3, <2>3 DEF TakeTime, counts
  <2>4. CASE Tick
    BY <1>2, <1>3, <2>4 DEF Tick, counts
  <2> QED BY <2>1, <2>2, <2>3, <2>4
<1>5. requests' \in 0 .. MaxCommands
  BY <1>4
<1>6. age' \in 0 .. Window + 1
  BY <1>2 DEF SetCmdSent, PollOut, TakeTime, Tick, Later
<1>7. pc' \in {"idle", "write", "stamp"} /\ cmdSent' \in BOOLEAN
  BY DEF SetCmdSent, PollOut, TakeTime, Tick, TypeOK
<1>8. TypeOK'
  BY <1>1, <1>4, <1>5, <1>6, <1>7 DEF TypeOK
<1> QED BY <1>1, <1>4, <1>8 DEF SendingInv

LEMMA TypeStep == TypeOK /\ SendingInv /\ [Next]_vars => TypeOK' /\ SendingInv'
<1>1. TypeOK /\ SendingInv /\ UNCHANGED vars => TypeOK' /\ SendingInv'
  BY DEF vars, TypeOK, SendingInv
<1> QED BY <1>1, SendType, ReceiveType, LoseType, WriteType DEF Next

LEMMA TypeInit == Init => TypeOK /\ SendingInv
<1> SUFFICES ASSUME Init PROVE TypeOK /\ SendingInv
  OBVIOUS
<1> USE LinkAssumption, FrameLenType
<1>1. TypeOK
  <2>1. age \in 0 .. Window + 1 /\ pos \in 1 .. FrameLen
    BY DEF Init
  <2>2. /\ requests \in 0 .. MaxCommands /\ commands \in 0 .. MaxCommands
        /\ lost \in 0 .. MaxLost /\ sent \in 0 .. MaxFrames
    BY DEF Init
  <2>3. rx \in Seq(ByteType)
    BY DEF Init
  <2> QED BY <2>1, <2>2, <2>3, NoFrameIsPlain DEF Init, TypeOK
<1>2. SendingInv
  <2>1. requests <= commands /\ pc # "write"
    BY DEF Init
  <2> QED BY <2>1 DEF Init, SendingInv
<1> QED BY <1>1, <1>2

LEMMA Typed == Spec => [](TypeOK /\ SendingInv)
  BY TypeInit, TypeStep, PTL DEF Spec

(* No more answers are due than commands were written, and no more frames    *)
(* are over than were sent.                                                  *)
THEOREM LinkTypeCorrect == Spec => []TypeOK
  BY Typed, PTL
-----------------------------------------------------------------------------
(* The buffer.                                                               *)

(* A new frame starts where the last one ended.                              *)
LEMMA SendKeeps ==
  ASSUME TypeOK, SendingInv, SendAdv \/ SendReply
  PROVE  /\ frame = NoFrame /\ pos = 1 /\ pos' = 1
         /\ UNCHANGED <<rx, cmdSent, commands, lost, cut, mac, missed, newlines,
                       suspect>>
  BY DEF SendingInv, SendAdv, SendReply, Start, counts, history

LEMMA OneMore ==
  ASSUME NEW a \in Nat, NEW n \in Nat
  PROVE  a * n \in Nat /\ a * (n + 1) = a * n + a
  OBVIOUS

LEMMA FillStep ==
  ASSUME TypeOK, SendingInv, FillInv, [Next]_vars
  PROVE  FillInv'
<1> DEFINE a == FrameLen - 1
           room == a * lost
<1>1. /\ pos \in 1 .. FrameLen /\ lost \in Nat /\ a \in Nat
      /\ rx \in Seq(ByteType) /\ Len(rx) \in Nat
  BY FrameLenType, LinkAssumption DEF TypeOK
<1>2. room \in Nat /\ a * (lost + 1) = room + a
  BY <1>1, OneMore
<1>3. Len(rx) < pos + room
  BY DEF FillInv
<1>4. SUFFICES Len(rx') < pos' + a * lost'
  BY DEF FillInv
<1>5. CASE SendAdv \/ SendReply
  BY <1>3, <1>5, SendKeeps
<1>6. CASE Receive
  <2> DEFINE b == [frame |-> frame, pos |-> pos]
  <2>1. a * lost' = room
    BY <1>6 DEF Receive
  <2>2. CASE rx' = <<>>
    <3>1. pos' \in {1, pos + 1}
      BY <1>6 DEF Receive, EndOfPacket, Decode, EndOfByte
    <3>2. Len(rx') = 0
      BY <2>2
    <3> HIDE DEF room, a
    <3> QED BY <1>1, <1>2, <2>1, <3>1, <3>2
  <2>3. CASE rx' # <<>>
    <3>1. rx' = Append(rx, b) /\ ~IsNewline(b) /\ EndOfByte(FALSE, cut)
      BY <1>6, <2>3 DEF Receive, EndOfPacket
    <3>2. frame \in FrameType /\ b \in ByteType
      BY DEF ByteType, TypeOK
    <3>3. pos # FrameLen
      BY <1>1, <3>1, <3>2, ValueOfByte DEF IsNewline
    <3>4. pos' = pos + 1
      BY <3>1, <3>3 DEF EndOfByte
    <3>5. Len(rx') = Len(rx) + 1
      BY <1>1, <3>1, <3>2, AppendProperties
    <3> HIDE DEF room, a
    <3> QED BY <1>1, <1>2, <1>3, <2>1, <3>4, <3>5
  <2> QED BY <2>2, <2>3
<1>7. CASE LoseByte
  <2>1. a * lost' = room + a /\ rx' = rx
    BY <1>2, <1>7 DEF LoseByte
  <2>2. pos' = pos + 1 \/ (pos = a + 1 /\ pos' = 1)
    <3>1. EndOfByte(FALSE, TRUE)
      BY <1>7 DEF LoseByte
    <3>2. FrameLen = a + 1
      BY FrameLenType
    <3>3. CASE pos = FrameLen
      BY <3>1, <3>2, <3>3 DEF EndOfByte
    <3>4. CASE pos # FrameLen
      BY <3>1, <3>4 DEF EndOfByte
    <3> QED BY <3>3, <3>4
  <2> HIDE DEF room, a
  <2> QED BY <1>1, <1>2, <1>3, <2>1, <2>2
<1>8. CASE UNCHANGED <<pos, lost, rx>>
  BY <1>3, <1>8
<1> QED BY <1>5, <1>6, <1>7, <1>8
        DEF Next, SetCmdSent, PollOut, TakeTime, Tick, counts, vars

(* No command, no window, no payload and no missing answer make the buffer   *)
(* fill: only lost bytes do.                                                 *)
THEOREM LinkBufferFills == Spec => []BufferFills
<1>1. Init => FillInv
  <2> SUFFICES ASSUME Init PROVE FillInv
    OBVIOUS
  <2>1. Len(rx) = 0 /\ pos = 1 /\ lost = 0
    BY DEF Init
  <2> QED BY <2>1, FrameLenType DEF FillInv
<1>2. TypeOK /\ SendingInv /\ FillInv /\ [Next]_vars => FillInv'
  BY FillStep
<1>3. TypeOK /\ FillInv => BufferFills
  <2> SUFFICES ASSUME TypeOK, FillInv PROVE BufferFills
    OBVIOUS
  <2> DEFINE room == (FrameLen - 1) * lost
  <2>1. room \in Nat
    BY FrameLenType, LinkAssumption, OneMore DEF TypeOK
  <2>2. Len(rx) < pos + room /\ pos <= FrameLen /\ pos \in Nat /\ Len(rx) \in Nat
    BY FrameLenType DEF FillInv, TypeOK
  <2>3. Len(rx) < FrameLen + room
    <3> HIDE DEF room
    <3> QED BY <2>1, <2>2, FrameLenType
  <2> QED BY <2>3 DEF BufferFills
<1> QED BY Typed, <1>1, <1>2, <1>3, PTL DEF Spec
-----------------------------------------------------------------------------
(* The damage.                                                               *)

LEMMA AppendLast ==
  ASSUME NEW S, NEW s \in Seq(S), NEW x \in S, NEW n \in Nat, n = Len(s)
  PROVE  /\ Len(Append(s, x)) = n + 1
         /\ Append(s, x)[n + 1] = x
         /\ \A i \in 1 .. n : Append(s, x)[i] = s[i]
  BY AppendProperties

(* A frame whose bytes are all in the buffer, and no others, is whole.       *)
LEMMA IntactIsWhole ==
  ASSUME TypeOK, Intact, pos = FrameLen,
         NEW p, p = Append(rx, [frame |-> frame, pos |-> pos])
  PROVE  /\ Whole(p) /\ p[1].frame = frame
         /\ Val(p[1]) = "stx" /\ Cmd(p) = frame.cmd
<1> DEFINE b == [frame |-> frame, pos |-> pos]
           n == FrameLen - 1
<1>1. /\ rx \in Seq(ByteType) /\ b \in ByteType /\ frame \in FrameType
      /\ n \in Nat /\ n = Len(rx) /\ FrameLen = n + 1
  BY FrameLenType DEF TypeOK, ByteType, Intact
<1>2. b = [frame |-> frame, pos |-> n + 1]
  BY <1>1
<1>3. \A i \in 1 .. n : rx[i] = [frame |-> frame, pos |-> i]
  BY <1>1 DEF Intact
<1> HIDE DEF b, n
<1>4. Len(p) = n + 1 /\ p[n + 1] = b /\ \A i \in 1 .. n : p[i] = rx[i]
  BY <1>1, AppendLast DEF b
<1>5. \A i \in 1 .. n + 1 : p[i] = [frame |-> frame, pos |-> i]
  BY <1>1, <1>2, <1>3, <1>4
<1>6. 1 \in 1 .. FrameLen /\ 3 \in 1 .. FrameLen
  BY FrameLenType
<1>7. /\ p[1] = [frame |-> frame, pos |-> 1] /\ p[3] = [frame |-> frame, pos |-> 3]
      /\ Len(p) = FrameLen
  BY <1>1, <1>4, <1>5, <1>6
<1>8. Whole(p) /\ p[1].frame = frame
  <2>1. p[1].frame = frame
    BY <1>7
  <2>2. \A i \in 1 .. FrameLen : p[i] = [frame |-> p[1].frame, pos |-> i]
    BY <1>1, <1>5, <2>1
  <2> QED BY <1>7, <2>1, <2>2 DEF Whole
<1>9. Val(p[1]) = "stx" /\ Val(p[3]) = frame.cmd
  BY <1>1, <1>6, <1>7, ValueOfByte
<1> QED BY <1>7, <1>8, <1>9, FrameLenType DEF Cmd

(* The counters at the end of a byte.                                        *)
LEMMA EndOfByteCounts ==
  ASSUME TypeOK, NEW d \in BOOLEAN, NEW c \in BOOLEAN, EndOfByte(d, c)
  PROVE  /\ pos # FrameLen => UNCHANGED <<frame, missed, newlines>> /\ pos' = pos + 1
         /\ pos = FrameLen =>
              /\ pos' = 1
              /\ missed' \in {missed, missed + 1}
              /\ missed' # missed => frame.cmd = "adv" /\ ~CommandPending /\ ~d
              /\ newlines' = IF HasNewline(frame) THEN newlines + 1 ELSE newlines
  BY DEF EndOfByte, history

LEMMA DamageReceive ==
  ASSUME TypeOK, SendingInv, DamageInv, Receive
  PROVE  DamageInv'
<1> DEFINE b == [frame |-> frame, pos |-> pos]
           p == Append(rx, b)
<1>1. /\ pos \in 1 .. FrameLen /\ frame \in FrameType /\ cut \in BOOLEAN
      /\ lost \in Nat /\ commands \in Nat /\ missed \in Nat /\ newlines \in Nat
      /\ cmdSent \in BOOLEAN /\ rx \in Seq(ByteType) /\ b \in ByteType
  BY LinkAssumption DEF TypeOK, ByteType
<1>2. UNCHANGED <<lost, commands>>
  BY DEF Receive
<1>5. lost \in Nat /\ commands \in Nat /\ missed \in Nat /\ newlines \in Nat
  BY <1>1
<1>3. CASE pos = FrameLen
  <2>1. IsNewline(b)
    BY <1>1, <1>3, ValueOfByte DEF IsNewline
  <2>2. /\ rx' = <<>> /\ cmdSent' = (cmdSent /\ ~TimedOut)
        /\ EndOfByte(Stored(p), cut)
    BY <2>1 DEF Receive, EndOfPacket, Decode
  <2>3. Stored(p) \in BOOLEAN
    BY DEF Stored, Reaches, Whole
  <2>4. /\ pos' = 1 /\ missed' \in {missed, missed + 1}
        /\ missed' # missed => frame.cmd = "adv" /\ ~CommandPending /\ ~Stored(p)
        /\ newlines' = IF HasNewline(frame) THEN newlines + 1 ELSE newlines
    BY <1>1, <1>3, <2>2, <2>3, EndOfByteCounts
  <2>5. Intact'
    BY <2>2, <2>4 DEF Intact
  <2>6. missed' # missed /\ Intact => cmdSent /\ ~cmdSent'
    <3> SUFFICES ASSUME missed' # missed, Intact PROVE cmdSent /\ ~cmdSent'
      OBVIOUS
    <3>1. Whole(p) /\ Val(p[1]) = "stx" /\ Cmd(p) = "adv"
      BY <1>3, <2>4, IntactIsWhole
    <3>2. ~Parsed(p) /\ ~CommandPending
      BY <2>4, <3>1 DEF Stored, Reaches
    <3>3. cmdSent
      BY <3>2 DEF Parsed
    <3>4. age \in Nat /\ ~(age <= Window)
      BY <3>2, LinkAssumption DEF CommandPending, TypeOK
    <3>5. TimedOut
      BY <3>3, <3>4, LinkAssumption DEF TimedOut
    <3> QED BY <2>2, <3>3, <3>5
  <2>7. Pending' = 0 /\ {Pending, Held, Held'} \subseteq {0, 1}
    BY <2>5 DEF Pending, Held
  <2>8. Held' <= Held
    BY <1>1, <2>2 DEF Held
  <2>9. ~Intact /\ ~HasNewline(frame) => Pending = 1
    BY DEF Pending
  <2>10. missed' # missed /\ Intact => Held = 1 /\ Held' = 0
    BY <2>6 DEF Held
  <2>11. missed' + Held' <= 2 * lost + commands + newlines'
    <3> HIDE DEF p
    <3>1. missed + Pending + Held <= 2 * lost + commands + newlines
      BY DEF DamageInv
    <3>2. CASE HasNewline(frame)
      BY <1>5, <2>4, <2>7, <2>8, <3>1, <3>2
    <3>3. CASE ~HasNewline(frame)
      <4>1. newlines' = newlines
        BY <2>4, <3>3
      <4>2. CASE missed' = missed
        BY <1>5, <2>7, <2>8, <3>1, <4>1, <4>2
      <4>3. CASE missed' # missed /\ Intact
        <5>1. missed' = missed + 1 /\ Held = 1 /\ Held' = 0
          BY <2>4, <2>10, <4>3
        <5> QED BY <1>5, <2>7, <3>1, <4>1, <5>1
      <4>4. CASE missed' # missed /\ ~Intact
        BY <1>5, <2>4, <2>7, <2>8, <2>9, <3>1, <3>3, <4>1, <4>4
      <4> QED BY <4>2, <4>3, <4>4
    <3> QED BY <3>2, <3>3
  <2>12. missed' \in Nat /\ newlines' \in Nat
    BY <1>5, <2>4
  <2> QED BY <1>5, <1>2, <2>7, <2>11, <2>12 DEF DamageInv
<1>4. CASE pos # FrameLen
  <2>1. PICK d \in BOOLEAN : EndOfByte(d, cut)
    BY ByteArrives
  <2>2. pos' = pos + 1 /\ UNCHANGED <<frame, missed, newlines>>
    BY <1>1, <1>4, <2>1, EndOfByteCounts
  <2>3. cmdSent' => cmdSent
    BY <1>1 DEF Receive, EndOfPacket
  <2>4. Intact \/ HasNewline(frame) => Intact' \/ HasNewline(frame')
    <3>1. CASE IsNewline(b)
      BY <1>1, <1>4, <2>2, <3>1, ValueOfByte DEF IsNewline
    <3>2. CASE ~IsNewline(b)
      <4>1. rx' = Append(rx, b)
        BY <3>2 DEF Receive
      <4>2. Intact => Intact'
        <5> SUFFICES ASSUME Intact PROVE Intact'
          OBVIOUS
        <5>1. PICK n \in Nat : n = Len(rx) /\ pos = n + 1
          BY <1>1 DEF Intact
        <5>2. /\ Len(rx') = n + 1 /\ rx'[n + 1] = b
              /\ \A i \in 1 .. n : rx'[i] = rx[i]
          BY <1>1, <4>1, <5>1, AppendLast
        <5>3. \A i \in 1 .. n + 1 : rx'[i] = [frame |-> frame, pos |-> i]
          BY <5>1, <5>2 DEF Intact
        <5> QED BY <2>2, <5>1, <5>2, <5>3 DEF Intact
      <4> QED BY <2>2, <4>2
    <3> QED BY <3>1, <3>2
  <2>5. Pending' <= Pending /\ Held' <= Held
    BY <2>3, <2>4 DEF Pending, Held
  <2>6. {Pending, Pending', Held, Held'} \subseteq {0, 1}
    BY DEF Pending, Held
  <2> QED BY <1>1, <1>2, <2>2, <2>5, <2>6 DEF DamageInv
<1> QED BY <1>3, <1>4

LEMMA DamageLose ==
  ASSUME TypeOK, SendingInv, DamageInv, LoseByte
  PROVE  DamageInv'
<1>1. EndOfByte(FALSE, TRUE) /\ lost' = lost + 1 /\ UNCHANGED <<cmdSent, commands>>
  BY DEF LoseByte
<1>2. /\ lost \in Nat /\ commands \in Nat /\ missed \in Nat /\ newlines \in Nat
      /\ cmdSent \in BOOLEAN
  BY LinkAssumption DEF TypeOK
<1>3. missed' \in {missed, missed + 1} /\ newlines' \in {newlines, newlines + 1}
  BY <1>1, EndOfByteCounts
<1>4. {Pending, Pending', Held} \subseteq {0, 1} /\ Held' = Held
  BY <1>1 DEF Pending, Held
<1>5. newlines' >= newlines /\ missed' <= missed + 1 /\ {missed', newlines'} \subseteq Nat
  BY <1>2, <1>3
<1> QED BY <1>1, <1>2, <1>4, <1>5 DEF DamageInv

LEMMA DamageStep ==
  ASSUME TypeOK, SendingInv, DamageInv, [Next]_vars
  PROVE  DamageInv'
<1>1. /\ lost \in Nat /\ commands \in Nat /\ missed \in Nat /\ newlines \in Nat
      /\ cmdSent \in BOOLEAN /\ rx \in Seq(ByteType)
  BY LinkAssumption DEF TypeOK
<1>2. CASE SendAdv \/ SendReply
  <2>1. /\ frame = NoFrame /\ pos = 1 /\ pos' = 1
        /\ UNCHANGED <<rx, cmdSent, commands, lost, missed, newlines>>
    BY <1>2, SendKeeps
  <2>2. (Intact <=> Len(rx) = 0) /\ (Intact' <=> Len(rx) = 0)
    BY <1>1, <2>1 DEF Intact
  <2>3. Pending' <= Pending /\ {Pending, Pending', Held} \subseteq {0, 1}
    BY <2>1, <2>2, NoFrameIsPlain DEF Pending, Held
  <2>4. Held' = Held
    BY <2>1 DEF Held
  <2> QED BY <1>1, <2>1, <2>3, <2>4 DEF DamageInv
<1>3. CASE SetCmdSent
  <2>1. /\ cmdSent' = TRUE /\ commands' = commands + 1
        /\ UNCHANGED <<frame, pos, rx, lost, missed, newlines>>
    BY <1>3 DEF SetCmdSent, history
  <2>2. (Intact' <=> Intact) /\ (HasNewline(frame') <=> HasNewline(frame))
    BY <2>1 DEF Intact
  <2>3. Pending' = Pending /\ {Pending, Held, Held'} \subseteq {0, 1}
    BY <2>2 DEF Pending, Held
  <2> QED BY <1>1, <2>1, <2>3 DEF DamageInv
<1>4. CASE UNCHANGED <<frame, pos, rx, cmdSent, commands, lost, missed, newlines>>
  BY <1>4 DEF DamageInv, Pending, Held, Intact
<1> QED BY <1>2, <1>3, <1>4, DamageReceive, DamageLose
        DEF Next, PollOut, TakeTime, Tick, counts, history, vars

(* The receiver always recovers: two reports at most for every lost byte, one*)
(* for every command, and of the payloads with 0x0A only their own.          *)
THEOREM LinkDamageIsBounded == Spec => []DamageIsBounded
<1>1. Init => DamageInv
  <2> SUFFICES ASSUME Init PROVE DamageInv
    OBVIOUS
  <2>1. Intact /\ ~cmdSent /\ lost = 0 /\ commands = 0 /\ missed = 0 /\ newlines = 0
    BY DEF Init, Intact
  <2> QED BY <2>1 DEF DamageInv, Pending, Held
<1>2. TypeOK /\ SendingInv /\ DamageInv /\ [Next]_vars => DamageInv'
  BY DamageStep
<1>3. TypeOK /\ DamageInv => DamageIsBounded
  <2> SUFFICES ASSUME TypeOK, DamageInv PROVE DamageIsBounded
    OBVIOUS
  <2>1. {Pending, Held} \subseteq {0, 1}
    BY DEF Pending, Held
  <2> QED BY <2>1, LinkAssumption DEF TypeOK, DamageInv, DamageIsBounded
<1> QED BY Typed, <1>1, <1>2, <1>3, PTL DEF Spec
-----------------------------------------------------------------------------
(* The device id.                                                            *)

(* A frame that misleads is remembered; what it holds of others does not get *)
(* less before it is over.                                                   *)
LEMMA EndOfByteKeeps ==
  ASSUME TypeOK, NEW d \in BOOLEAN, NEW c \in BOOLEAN, EndOfByte(d, c), cut => c,
         pos # FrameLen /\ ~Damaged(frame, c) /\ Behind => Behind'
  PROVE  /\ Misled => Misled'
         /\ CarriesId(frame) /\ c => Misled'
<1>1. CASE pos = FrameLen
  <2>1. suspect' = (suspect \/ Misleads(frame, c))
    BY <1>1 DEF EndOfByte
  <2> QED BY <2>1 DEF Misled, Misleads, Damaged
<1>2. CASE pos # FrameLen
  <2>1. cut' = c /\ UNCHANGED <<frame, suspect>>
    BY <1>2 DEF EndOfByte, history
  <2>2. Damaged(frame, cut) => Damaged(frame, c)
    BY DEF Damaged
  <2>3. Misled' <=> suspect \/ (CarriesId(frame) /\ Damaged(frame, c))
                            \/ (frame.len = "id" /\ (Damaged(frame, c) \/ Behind'))
    BY <2>1 DEF Misled, Misleads
  <2>4. Misled <=> suspect \/ (CarriesId(frame) /\ Damaged(frame, cut))
                           \/ (frame.len = "id" /\ (Damaged(frame, cut) \/ Behind))
    BY DEF Misled, Misleads
  <2>5. c => Damaged(frame, c)
    BY DEF Damaged
  <2> QED BY <1>2, <2>2, <2>3, <2>4, <2>5
<1> QED BY <1>1, <1>2

LEMMA MacSend ==
  ASSUME TypeOK, SendingInv, MacInv, SendAdv \/ SendReply
  PROVE  MacInv'
<1>1. frame = NoFrame /\ pos = 1 /\ pos' = 1 /\ UNCHANGED <<rx, mac, cut, suspect>>
  BY SendKeeps
<1>2. Len(rx) \in Nat
  BY DEF TypeOK
<1>3. NoFrame.cmd # "id"
  BY DEF NoFrame
<1>4. Misled => Misled'
  BY <1>1, NoFrameIsPlain DEF Misled, Misleads
<1>5. Together'
  BY <1>1, <1>2 DEF Together
<1> QED BY <1>1, <1>3, <1>4, <1>5 DEF MacInv, Cmd

(* A byte that does not end a packet.  If it is taken for DEVICE_ID it is the*)
(* command of a frame that is not damaged and all the buffer holds.          *)
LEMMA MacCollect ==
  ASSUME TypeOK, MacInv,
         NEW b, b = [frame |-> frame, pos |-> pos], ~IsNewline(b),
         rx' = Append(rx, b), EndOfByte(FALSE, cut), mac' = mac
  PROVE  MacInv'
<1>1. /\ pos \in 1 .. FrameLen /\ pos \in Nat /\ frame \in FrameType
      /\ rx \in Seq(ByteType) /\ b \in ByteType /\ cut \in BOOLEAN
  BY FrameLenType DEF TypeOK, ByteType
<1>2. /\ pos = 1 => Val(b) = "stx"
      /\ pos = 2 => Val(b) = frame.len
      /\ pos = 3 => Val(b) = frame.cmd
      /\ Val(b) = "id" => pos # 1 /\ (CarriesId(frame) \/ (pos = 2 /\ frame.len = "id"))
      /\ pos # FrameLen
  BY <1>1, ValueOfByte DEF IsNewline
<1>3. pos' = pos + 1 /\ UNCHANGED <<frame, cut, suspect>>
  BY <1>2 DEF EndOfByte, history
<1>4. PICK n \in Nat : n = Len(rx)
  BY <1>1
<1>5. Len(rx') = n + 1 /\ rx'[n + 1] = b /\ \A i \in 1 .. n : rx'[i] = rx[i]
  BY <1>1, <1>4, AppendLast
<1>6. Misled => Misled'
  <2>1. Behind => Behind'
    BY <1>1, <1>3, <1>4, <1>5 DEF Behind
  <2> QED BY <1>1, <2>1, EndOfByteKeeps
<1>7. ~Damaged(frame', cut') => Together'
  <2> SUFFICES ASSUME ~Damaged(frame, cut) PROVE Together'
    BY <1>3
  <2>1. /\ n >= pos - 1
        /\ \A i \in 1 .. pos - 1 :
             rx[n - (pos - 1) + i] = [frame |-> frame, pos |-> i]
    BY <1>4 DEF MacInv, Together
  <2>2. \A i \in 1 .. pos : rx'[n + 1 - pos + i] = [frame |-> frame, pos |-> i]
    <3> TAKE i \in 1 .. pos
    <3>1. CASE i = pos
      BY <1>1, <1>4, <1>5, <3>1
    <3>2. CASE i # pos
      <4>1. i \in 1 .. pos - 1 /\ n + 1 - pos + i = n - (pos - 1) + i
        BY <1>1, <1>4, <3>2
      <4>2. n - (pos - 1) + i \in 1 .. n
        BY <1>1, <1>4, <2>1, <4>1
      <4> QED BY <1>5, <2>1, <4>1, <4>2
    <3> QED BY <3>1, <3>2
  <2>3. pos' - 1 = pos /\ Len(rx') - (pos' - 1) = n + 1 - pos /\ Len(rx') >= pos' - 1
    BY <1>1, <1>3, <1>4, <1>5, <2>1
  <2> QED BY <1>3, <2>2, <2>3 DEF Together
<1>8. Cmd(rx') = "id" => Misled' \/ (Intact' /\ frame'.cmd = "id")
  <2> SUFFICES ASSUME Cmd(rx') = "id", ~Misled PROVE Intact' /\ frame.cmd = "id"
    BY <1>3, <1>6
  <2>1. CASE n >= 3
    <3>1. Cmd(rx) = "id"
      BY <1>4, <1>5, <2>1 DEF Cmd
    <3>2. Intact /\ frame.cmd = "id"
      BY <3>1 DEF MacInv
    <3>3. pos = n + 1 /\ \A i \in 1 .. n : rx[i] = [frame |-> frame, pos |-> i]
      BY <1>1, <1>4, <3>2 DEF Intact
    <3>4. \A i \in 1 .. n + 1 : rx'[i] = [frame |-> frame, pos |-> i]
      BY <1>4, <1>5, <3>3
    <3> QED BY <1>3, <1>4, <1>5, <3>2, <3>3, <3>4 DEF Intact
  <2>2. CASE n = 2
    <3>1. Val(b) = "id" /\ rx'[3] = b
      BY <1>5, <2>2 DEF Cmd
    <3>2. ~(CarriesId(frame) /\ Damaged(frame, cut))
      /\ ~(frame.len = "id" /\ (Damaged(frame, cut) \/ Behind))
      BY DEF Misled, Misleads
    <3>3. ~Damaged(frame, cut)
      BY <1>2, <3>1, <3>2
    <3>4. 2 >= pos - 1 /\ \A i \in 1 .. pos - 1 :
            rx[2 - (pos - 1) + i] = [frame |-> frame, pos |-> i]
      BY <1>4, <2>2, <3>3 DEF MacInv, Together
    <3>5. pos # 2
      BY <1>2, <1>4, <2>2, <3>1, <3>2, <3>3 DEF Behind
    <3>6. pos = 3
      BY <1>1, <1>2, <3>1, <3>4, <3>5
    <3>7. \A i \in 1 .. 2 : rx[i] = [frame |-> frame, pos |-> i]
      BY <3>4, <3>6
    <3>8. \A i \in 1 .. 3 : rx'[i] = [frame |-> frame, pos |-> i]
      BY <1>5, <2>2, <3>1, <3>6, <3>7
    <3> QED BY <1>2, <1>3, <1>5, <2>2, <3>1, <3>6, <3>8 DEF Intact
  <2>3. n >= 2
    BY <1>4, <1>5 DEF Cmd
  <2> QED BY <1>4, <2>1, <2>2, <2>3
<1> QED BY <1>6, <1>7, <1>8 DEF MacInv

(* The last byte of a packet: what is taken for an answer is whole, or comes *)
(* from a frame that misleads.                                               *)
LEMMA MacDecode ==
  ASSUME TypeOK, MacInv, Receive,
         NEW b, b = [frame |-> frame, pos |-> pos], IsNewline(b),
         EndOfPacket(Append(rx, b))
  PROVE  MacInv'
<1> DEFINE p == Append(rx, b)
<1>1. /\ pos \in 1 .. FrameLen /\ frame \in FrameType /\ cut \in BOOLEAN
      /\ rx \in Seq(ByteType) /\ b \in ByteType
  BY DEF TypeOK, ByteType
<1>2. Val(b) = "nl" /\ (pos = FrameLen \/ HasNewline(frame))
  BY <1>1, ValueOfByte DEF IsNewline
<1>3. rx' = <<>> /\ Decode(p)
  BY DEF EndOfPacket
<1>4. PICK d \in BOOLEAN : EndOfByte(d, cut)
  BY ByteArrives
<1>5. Misled => Misled'
  <2>1. pos # FrameLen => Damaged(frame, cut)
    BY <1>2 DEF Damaged
  <2> QED BY <1>1, <1>4, <2>1, EndOfByteKeeps
<1>6. pos' = 1 \/ Damaged(frame', cut')
  <2>1. CASE pos = FrameLen
    BY <1>4, <2>1 DEF EndOfByte
  <2>2. CASE pos # FrameLen
    BY <1>1, <1>2, <1>4, <2>2 DEF EndOfByte, Damaged
  <2> QED BY <2>1, <2>2
<1>7. mac' = "zeros" => Misled'
  <2> SUFFICES ASSUME mac' = "zeros", ~Misled PROVE FALSE
    BY <1>5
  <2>1. mac # "zeros"
    BY DEF MacInv
  <2>2. Cmd(p) = "id" /\ ~(Whole(p) /\ p[1].frame.cmd = "id")
    BY <1>3, <2>1 DEF Decode, Reaches
  <2>3. PICK n \in Nat : n = Len(rx)
    BY <1>1
  <2>4. Len(p) = n + 1 /\ p[n + 1] = b /\ \A i \in 1 .. n : p[i] = rx[i]
    BY <1>1, <2>3, AppendLast
  <2> HIDE DEF p
  <2>5. n >= 2
    BY <2>2, <2>3, <2>4 DEF Cmd
  <2>6. n # 2
    BY <1>2, <2>2, <2>4 DEF Cmd
  <2>7. Cmd(rx) = "id"
    BY <2>2, <2>3, <2>4, <2>5, <2>6 DEF Cmd
  <2>8. Intact /\ frame.cmd = "id"
    BY <2>7 DEF MacInv
  <2>9. ~Damaged(frame, cut)
    BY <2>8 DEF Misled, Misleads, CarriesId
  <2>10. pos = FrameLen
    BY <1>2, <2>9 DEF Damaged
  <2>11. Whole(p) /\ p[1].frame = frame
    BY <2>8, <2>10, IntactIsWhole DEF p
  <2> QED BY <2>2, <2>8, <2>11
<1>8. Cmd(rx') # "id" /\ Len(rx') = 0
  BY <1>3 DEF Cmd
<1>9. pos' = 1 => Together'
  BY <1>8 DEF Together
<1> QED BY <1>6, <1>7, <1>8, <1>9 DEF MacInv

LEMMA MacLose ==
  ASSUME TypeOK, MacInv, LoseByte
  PROVE  MacInv'
<1>1. EndOfByte(FALSE, TRUE) /\ UNCHANGED <<rx, mac>>
  BY DEF LoseByte
<1>2. /\ Misled => Misled'
      /\ CarriesId(frame) => Misled'
  <2>1. Damaged(frame, TRUE)
    BY DEF Damaged
  <2> QED BY <1>1, <2>1, EndOfByteKeeps
<1>3. Len(rx) \in Nat
  BY DEF TypeOK
<1>4. Cmd(rx') = "id" => Misled'
  BY <1>1, <1>2 DEF MacInv, CarriesId
<1>5. pos' = 1 \/ Damaged(frame', cut')
  <2>1. CASE pos = FrameLen
    BY <1>1, <2>1 DEF EndOfByte
  <2>2. CASE pos # FrameLen
    BY <1>1, <2>2 DEF EndOfByte, Damaged
  <2> QED BY <2>1, <2>2
<1>6. pos' = 1 => Together'
  BY <1>1, <1>3 DEF Together
<1> QED BY <1>1, <1>2, <1>4, <1>5, <1>6 DEF MacInv

LEMMA MacStep ==
  ASSUME TypeOK, SendingInv, MacInv, [Next]_vars
  PROVE  MacInv'
<1>1. CASE Receive
  <2> DEFINE b == [frame |-> frame, pos |-> pos]
  <2>1. CASE IsNewline(b)
    BY <1>1, <2>1, MacDecode DEF Receive
  <2>2. CASE ~IsNewline(b)
    <3>1. rx' = Append(rx, b) /\ EndOfByte(FALSE, cut) /\ mac' = mac
      BY <1>1, <2>2 DEF Receive
    <3> QED BY <2>2, <3>1, MacCollect
  <2> QED BY <2>1, <2>2
<1>2. CASE UNCHANGED <<frame, pos, rx, mac, cut, suspect>>
  BY <1>2 DEF MacInv, Misled, Misleads, Behind, Together, Cmd, Intact
<1> QED BY <1>1, <1>2, MacSend, MacLose
        DEF Next, SetCmdSent, PollOut, TakeTime, Tick, counts, history, vars

(* Whatever byte is taken for a command, nrf_mac becomes zeros only by a     *)
(* frame with DEVICE_ID among its own bytes that lost one or contains 0x0A,  *)
(* or whose length it is, behind the remains of another frame.               *)
THEOREM LinkZerosHaveCause == Spec => []ZerosHaveCause
<1>1. Init => MacInv
  <2> SUFFICES ASSUME Init PROVE MacInv
    OBVIOUS
  <2>1. Len(rx) = 0 /\ pos = 1 /\ mac = "unset"
    BY DEF Init
  <2> QED BY <2>1 DEF MacInv, Cmd, Together
<1>2. TypeOK /\ SendingInv /\ MacInv /\ [Next]_vars => MacInv'
  BY MacStep
<1>3. MacInv => ZerosHaveCause
  BY DEF MacInv, ZerosHaveCause
<1> QED BY Typed, <1>1, <1>2, <1>3, PTL DEF Spec
=============================================================================
