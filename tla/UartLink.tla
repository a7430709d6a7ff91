------------------------------ MODULE UartLink ------------------------------
(***************************************************************************)
(* The serial link to the nRF52, uart_controller.c: the interrupt collects  *)
(* bytes into packets that end with 0x0A and decodes them; uart_driver_write*)
(* sends a command from the main thread, and for five seconds afterwards    *)
(* only responses are decoded.                                              *)
(*                                                                         *)
(* A frame on the wire is the start byte, the length, the command, the      *)
(* binary payload and the end byte 0x0A.  A checksum, which is part of the  *)
(* payload here, covers the frame: re_ca_uart_decode accepts exactly a whole*)
(* one.                                                                     *)
(***************************************************************************)
EXTENDS Naturals, Sequences

CONSTANTS
  Window,       \* the five seconds, in ticks
  PayloadLen,   \* bytes of a payload
  Contents,     \* the length bytes and payloads that frames have
  MaxFrames,    \* bound: frames the nRF52 sends
  MaxLost,      \* bound: bytes lost on the line
  MaxCommands   \* bound: commands the main thread writes; the code writes one

(* What tells bytes apart: the start byte, the commands ADV_RPRT and          *)
(* DEVICE_ID, 0x0A, and all others.  A payload may contain each of them, and *)
(* the length be any: an answer and a report have different ones.            *)
Value == {"stx", "adv", "id", "nl", "other"}

ASSUME LinkAssumption ==
  /\ Window \in Nat
  /\ PayloadLen \in Nat \ {0}
  /\ Contents \subseteq [len : Value, payload : [1 .. PayloadLen -> Value]]
  /\ MaxFrames \in Nat /\ MaxLost \in Nat /\ MaxCommands \in Nat

VARIABLES
  frame,      \* the frame the nRF52 is sending, or NoFrame
  pos,        \* the next byte of it
  requests,   \* commands the nRF52 has not answered yet
  rx,         \* terminal.rx_buffer up to rx_i
  cmdSent,    \* cmd_sent
  age,        \* k_uptime_get() - cmd_sent_t, up to Window + 1
  pc,         \* where the main thread is in uart_driver_write
  mac,        \* nrf_mac: "unset", "right" or "zeros"
  commands,   \* history: commands written
  lost,       \* history: bytes lost
  cut,        \* history: a byte of the frame is lost
  sent,       \* history: frames that are over
  missed,     \* history: reports among them that were sent outside any
              \* command's five seconds and not stored
  newlines,   \* history: frames among them whose payload contains 0x0A
  suspect     \* history: one of them Misleads

counts  == <<mac, commands, lost, cut>>
history == <<sent, missed, newlines, suspect>>
vars == <<frame, pos, requests, rx, cmdSent, age, pc, mac, commands, lost, cut,
          sent, missed, newlines, suspect>>

FrameLen == PayloadLen + 4

NoFrame == [id |-> 0, len |-> "other", cmd |-> "none",
            payload |-> [i \in 1 .. PayloadLen |-> "other"]]

HasNewline(f) == f.len = "nl" \/ \E i \in 1 .. PayloadLen : f.payload[i] = "nl"

(* DEVICE_ID is the frame's command or a byte of its payload.                *)
CarriesId(f) == f.cmd = "id" \/ \E i \in 1 .. PayloadLen : f.payload[i] = "id"

(* It does not arrive as it was sent; c: a byte of it is lost.               *)
Damaged(f, c) == c \/ HasNewline(f)

(* Bytes of other frames stand before it in the buffer.                      *)
Behind == Len(rx) > pos - 1

(* A byte of it may come to the command's index and be DEVICE_ID, though it  *)
(* is no answer that arrives as it was sent.                                 *)
Misleads(f, c) ==
  \/ CarriesId(f) /\ Damaged(f, c)
  \/ f.len = "id" /\ (Damaged(f, c) \/ Behind)

(* Uptime is far beyond five seconds when uart_init runs, and cmd_sent_t is  *)
(* zero until a command has been written.                                    *)
Init ==
  /\ frame = NoFrame
  /\ pos = 1
  /\ requests = 0
  /\ rx = <<>>
  /\ cmdSent = FALSE
  /\ age = Window + 1
  /\ pc = "idle"
  /\ mac = "unset"
  /\ commands = 0
  /\ lost = 0
  /\ cut = FALSE
  /\ sent = 0
  /\ missed = 0
  /\ newlines = 0
  /\ suspect = FALSE
-----------------------------------------------------------------------------
(* The nRF52 (external): it reports advertisements, and answers a command.   *)

Start(c) ==
  /\ frame = NoFrame
  /\ sent < MaxFrames
  /\ \E d \in Contents :
       frame' = [id |-> sent + 1, len |-> d.len, cmd |-> c, payload |-> d.payload]
  /\ pos' = 1
  /\ UNCHANGED <<rx, cmdSent, age, pc, counts, history>>

SendAdv ==
  /\ Start("adv")
  /\ UNCHANGED requests

SendReply ==
  /\ requests > 0
  /\ requests' = requests - 1
  /\ Start("id")
-----------------------------------------------------------------------------
(* The interrupt.                                                            *)

(* The value of a byte, by its place in its frame.                           *)
Val(b) ==
  IF b.pos = 1 THEN "stx"
  ELSE IF b.pos = 2 THEN b.frame.len
  ELSE IF b.pos = 3 THEN b.frame.cmd
  ELSE IF b.pos = FrameLen THEN "nl"
  ELSE b.frame.payload[b.pos - 3]

IsNewline(b) == Val(b) = "nl"

(* re_ca_uart_decode accepts the packet.                                     *)
Whole(p) ==
  /\ Len(p) = FrameLen
  /\ \A i \in 1 .. FrameLen : p[i] = [frame |-> p[1].frame, pos |-> i]

(* Mutant of Cmd: an index too far.                                          *)
CmdIsPayload(p) == IF Len(p) >= 4 THEN Val(p[4]) ELSE "none"

(* rx_buffer[RE_CA_UART_CMD_INDEX], whatever byte of whatever frame it is;   *)
(* zero if the packet is shorter.                                            *)
Cmd(p) == IF Len(p) >= 3 THEN Val(p[3]) ELSE "none"

TimedOut == cmdSent /\ age > Window

(* The packets uart_fifo_callback passes to rx_parse_task; an ACK, which also*)
(* passes in the window, has no effect there.                                *)
Parsed(p) ==
  \/ ~cmdSent
  \/ ~TimedOut /\ Cmd(p) = "id"

(* rx_parse_task: what reaches the case of command c.                        *)
Reaches(p, c) == Parsed(p) /\ Val(p[1]) = "stx" /\ Cmd(p) = c

(* A report is stored; parse_adv_report_from_uart refuses the zeros that are *)
(* left of one that cannot be decoded.                                       *)
Stored(p) == Reaches(p, "adv") /\ Whole(p)

(* A command is being written, or was within the last five seconds.          *)
CommandPending == pc # "idle" \/ age <= Window

(* A byte of the frame is over; stored: its report is; c: a byte was lost.   *)
EndOfByte(stored, c) ==
  IF pos = FrameLen
  THEN /\ frame' = NoFrame
       /\ pos' = 1
       /\ cut' = FALSE
       /\ sent' = sent + 1
       /\ missed' = IF frame.cmd = "adv" /\ ~CommandPending /\ ~stored
                    THEN missed + 1 ELSE missed
       /\ newlines' = IF HasNewline(frame) THEN newlines + 1 ELSE newlines
       /\ suspect' = (suspect \/ Misleads(frame, c))
  ELSE /\ pos' = pos + 1
       /\ cut' = c
       /\ UNCHANGED <<frame, history>>

(* What rx_parse_task does with packet p.  The result of re_ca_uart_decode is*)
(* not looked at: without an address to decode nrf_mac becomes zeros.        *)
Decode(p) ==
  /\ mac' = IF ~Reaches(p, "id") THEN mac
            ELSE IF Whole(p) /\ p[1].frame.cmd = "id" THEN "right" ELSE "zeros"
  /\ EndOfByte(Stored(p), cut)

(* Mutants of EndOfPacket: the five seconds are never over, and a packet that*)
(* is not parsed stays in the buffer.                                        *)
EndOfPacketWaitsOn(p) ==
  /\ rx' = <<>>
  /\ Decode(p)
  /\ UNCHANGED cmdSent

EndOfPacketKeepsBytes(p) ==
  /\ rx' = IF Parsed(p) THEN <<>> ELSE p
  /\ cmdSent' = (cmdSent /\ ~TimedOut)
  /\ Decode(p)

(* Packet p ends with 0x0A.  The first packet after the five seconds only    *)
(* ends them.                                                                *)
EndOfPacket(p) ==
  /\ rx' = <<>>
  /\ cmdSent' = (cmdSent /\ ~TimedOut)
  /\ Decode(p)

Receive ==
  LET b == [frame |-> frame, pos |-> pos]
      p == Append(rx, b)
  IN  /\ frame # NoFrame
      /\ \/ IsNewline(b) /\ EndOfPacket(p)
         \/ ~IsNewline(b) /\ rx' = p /\ EndOfByte(FALSE, cut) /\ UNCHANGED <<cmdSent, mac>>
      /\ UNCHANGED <<requests, age, pc, commands, lost>>

(* A byte never reaches the FIFO.                                            *)
LoseByte ==
  /\ frame # NoFrame
  /\ lost < MaxLost
  /\ lost' = lost + 1
  /\ EndOfByte(FALSE, TRUE)
  /\ UNCHANGED <<requests, rx, cmdSent, age, pc, mac, commands>>
-----------------------------------------------------------------------------
(* uart_driver_write: the flag is set, the bytes are polled out, and only    *)
(* then the time is taken.                                                   *)

SetCmdSent ==
  /\ pc = "idle"
  /\ commands < MaxCommands
  /\ commands' = commands + 1
  /\ cmdSent' = TRUE
  /\ pc' = "write"
  /\ UNCHANGED <<frame, pos, requests, rx, age, mac, lost, cut, history>>

(* Mutant of PollOut: the command goes out twice.                            *)
PollOutTwice ==
  /\ pc = "write"
  /\ requests' = requests + 2
  /\ pc' = "stamp"
  /\ UNCHANGED <<frame, pos, rx, cmdSent, age, counts, history>>

PollOut ==
  /\ pc = "write"
  /\ requests' = requests + 1
  /\ pc' = "stamp"
  /\ UNCHANGED <<frame, pos, rx, cmdSent, age, counts, history>>

TakeTime ==
  /\ pc = "stamp"
  /\ age' = 0
  /\ pc' = "idle"
  /\ UNCHANGED <<frame, pos, requests, rx, cmdSent, counts, history>>

Later(t) == IF t <= Window THEN t + 1 ELSE t

Tick ==
  /\ age' = Later(age)
  /\ UNCHANGED <<frame, pos, requests, rx, cmdSent, pc, counts, history>>

Next ==
  \/ SendAdv
  \/ SendReply
  \/ Receive
  \/ LoseByte
  \/ SetCmdSent
  \/ PollOut
  \/ TakeTime
  \/ Tick

Spec == Init /\ [][Next]_vars
-----------------------------------------------------------------------------
FrameType == [id : 0 .. MaxFrames, len : Value, cmd : {"none", "adv", "id"},
              payload : [1 .. PayloadLen -> Value]]
ByteType  == [frame : FrameType, pos : 1 .. FrameLen]

(* Every variable has its type.                                              *)
TypeOK ==
  /\ frame \in FrameType
  /\ pos \in 1 .. FrameLen
  /\ requests \in 0 .. MaxCommands
  /\ rx \in Seq(ByteType)
  /\ cmdSent \in BOOLEAN
  /\ age \in 0 .. Window + 1
  /\ pc \in {"idle", "write", "stamp"}
  /\ mac \in {"unset", "right", "zeros"}
  /\ cut \in BOOLEAN
  /\ commands \in 0 .. MaxCommands
  /\ lost \in 0 .. MaxLost
  /\ sent \in 0 .. MaxFrames
  /\ missed \in Nat /\ newlines \in Nat
  /\ suspect \in BOOLEAN

(* The receiver recovers: a lost byte spoils its packet and at most the next *)
(* one, a command costs at most one report once its window has closed, and a *)
(* 0x0A in a payload only the report it is in, whatever bytes are lost and   *)
(* whenever cmd_sent_t is taken.                                             *)
DamageIsBounded == missed <= 2 * lost + commands + newlines

(* uart_fifo_callback checks no bound on rx_i: only lost end bytes, each     *)
(* joining one more packet to the next, make the buffer fill.                *)
BufferFills == Len(rx) < FrameLen + (FrameLen - 1) * lost

(* A frame that misleads is over or under way.                               *)
Misled == suspect \/ Misleads(frame, cut)

(* uart_fifo_callback and rx_parse_task take whatever byte stands at the     *)
(* command's index for the command, and the result of the decoder is ignored.*)
(* Yet nrf_mac becomes zeros only by a frame that has DEVICE_ID among its own*)
(* bytes and lost one or contains 0x0A; or, if that byte is its length, came *)
(* behind the remains of another.                                            *)
ZerosHaveCause == mac = "zeros" => Misled

(* uart_controller.c:118: "All RX packets are sent to be decoded": outside   *)
(* the five seconds of a command, unless a byte was lost.                    *)
AllPacketsDecoded == lost = 0 => missed = 0
-----------------------------------------------------------------------------
(* The inductive invariants behind these properties.                         *)

SendingInv ==
  /\ frame = NoFrame => pos = 1
  /\ frame # NoFrame => sent < MaxFrames
  /\ requests <= commands
  /\ pc = "write" => requests < commands

(* What the buffer holds besides the frame's bytes, lost end bytes left.      *)
FillInv == Len(rx) < pos + (FrameLen - 1) * lost

(* The buffer holds the bytes of the frame so far and no other.               *)
Intact ==
  /\ Len(rx) = pos - 1
  /\ \A i \in 1 .. pos - 1 : rx[i] = [frame |-> frame, pos |-> i]

(* The bytes of a frame that is not damaged stand together at the end of the *)
(* buffer.  So what it has at the command's index is its command, and then   *)
(* the frame is all the buffer holds, or its length behind one other byte.   *)
Together ==
  /\ Len(rx) >= pos - 1
  /\ \A i \in 1 .. pos - 1 : rx[Len(rx) - (pos - 1) + i] = [frame |-> frame, pos |-> i]

MacInv ==
  /\ ~Damaged(frame, cut) => Together
  /\ Cmd(rx) = "id" => Misled \/ (Intact /\ frame.cmd = "id")
  /\ mac = "zeros" => Misled

(* The reports that are missed, or that the buffer and cmd_sent are going to *)
(* cost.                                                                     *)
Pending == IF Intact \/ HasNewline(frame) THEN 0 ELSE 1
Held    == IF cmdSent THEN 1 ELSE 0

DamageInv == missed + Pending + Held <= 2 * lost + commands + newlines
=============================================================================
