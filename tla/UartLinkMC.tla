----------------------------- MODULE UartLinkMC -----------------------------
(***************************************************************************)
(* UartLink for TLC.  The contents of frames are chosen for what can come to*)
(* the command's index: the value of DEVICE_ID as the length, and first in  *)
(* the payload, where the loss of a byte moves it there; 0x0A before what   *)
(* looks like the beginning of an answer; 0x0A before a start byte, which   *)
(* without the end byte is left in front of the next frame's length.        *)
(***************************************************************************)
EXTENDS UartLink

Body(n, d) == [len |-> n, payload |-> d]

SomeContents ==
  {Body("id", <<"id", "other", "other", "other">>),
   Body("other", <<"nl", "stx", "other", "id">>),
   Body("other", <<"other", "other", "nl", "stx">>)}
=============================================================================
