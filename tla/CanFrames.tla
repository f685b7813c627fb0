------------------------------ MODULE CanFrames ------------------------------
(***************************************************************************)
(* Packages on the CAN bus, byte by byte. A sender (can_send_data of the   *)
(* CGIs, send_query_showdata, and the controller, which does the same)     *)
(* cuts a package into frames of eight bytes and a last one of what is     *)
(* left. Every socket on the bus hears every frame of the others, so that  *)
(* the daemon, which is what "receiver" is here, hears the controller and  *)
(* dev_sendto_st.cgi as well. It appends frames until it has as many bytes *)
(* as bytes 7 and 8 of the package say.                                    *)
(*                                                                         *)
(* The bus holds one frame at a time: what a receiver does depends on the  *)
(* order of the frames only. The CRC finds out every wrong package. The    *)
(* model ends where the code would write behind can_rcv_buf.               *)
(***************************************************************************)
EXTENDS Integers, Sequences

CONSTANTS
  Sender,      \* who sends
  Forgotten,   \* whose packages the receiver clears away when it has them;
               \* those of the others, of unknown type, it leaves
  Sizes,       \* how many bytes packages have, with the CRC
  Misread,     \* what bytes 7 and 8 may say when they are not the length
  MaxPackages, \* bound: how many packages are sent
  LENGTH       \* bound: how many bytes can_rcv_buf has

\* Bytes 7 and 8 hold the size without the CRC.
ASSUME FramesAssumption ==
  /\ Forgotten \subseteq Sender
  /\ Sizes \subseteq {n \in Nat : n > 8}
  /\ Misread \subseteq Nat
  /\ MaxPackages \in Nat /\ LENGTH \in Nat

VARIABLES
  size, left, sended,  \* each sender: of its package, all bytes, those to be
                       \* sent, those sent
  number,              \* each sender: which package it is
  packages,            \* how many packages there have been
  wire,                \* the frame on the bus, a sequence of bytes
  rbuf,                \* the bytes in can_rcv_buf; count is their number
  rlen,                \* datalen
  judging,             \* the receiver has appended a frame and not looked at it
  ralarm,              \* alarm(1) is running
  hears,               \* history: the package of which every frame so far has
                       \* been appended and nothing else since; 0 if there is
                       \* none
  stale,               \* history: how many bytes lay in rbuf before it
  ended                \* history: of the package in hears, too, the last one

sendVars == <<size, left, sended, number, packages>>
receiveVars == <<rbuf, rlen, judging, ralarm>>
heardVars == <<hears, stale, ended>>
framesVars == <<sendVars, wire, receiveVars, heardVars>>

FrameByte ==
  [pkg : Nat \ {0}, size : {n \in Nat : n > 8}, off : Nat, from : Sender]
Mixed == -1    \* hears: something else has come between
-------------------------------------------------------------------------------
FramesInit ==
  /\ size = [s \in Sender |-> 0] /\ left = [s \in Sender |-> 0]
  /\ sended = [s \in Sender |-> 0] /\ number = [s \in Sender |-> 0]
  /\ packages = 0
  /\ wire = <<>>
  /\ rbuf = <<>> /\ rlen = 0 /\ judging = FALSE /\ ralarm = FALSE
  /\ hears = 0 /\ stale = 0 /\ ended = FALSE

\* A package is begun when the frames of the last one are on the bus.
Begin(s) ==
  /\ left[s] = 0 /\ wire = <<>>
  /\ packages < MaxPackages /\ packages' = packages + 1
  /\ \E n \in Sizes : /\ size' = [size EXCEPT ![s] = n]
                      /\ left' = [left EXCEPT ![s] = n]
  /\ sended' = [sended EXCEPT ![s] = 0]
  /\ number' = [number EXCEPT ![s] = packages + 1]
  /\ UNCHANGED <<wire, receiveVars, heardVars>>

\* One round of the loop: can_dlc bytes from sended_count on.
PutFrame(s, dlc) ==
  /\ left[s] > 0 /\ wire = <<>>
  /\ wire' = [i \in 1..dlc |-> [pkg |-> number[s], size |-> size[s],
                                off |-> sended[s] + i - 1, from |-> s]]
  /\ sended' = [sended EXCEPT ![s] = @ + dlc]
  /\ left' = [left EXCEPT ![s] = @ - dlc]
  /\ UNCHANGED <<size, number, packages, receiveVars, heardVars>>

\* Mutant: the last frame is as long as the others.
WriteFrame_Full(s) == PutFrame(s, 8)

WriteFrame(s) ==
  \/ left[s] >= 8 /\ PutFrame(s, 8)
  \/ left[s] < 8 /\ PutFrame(s, left[s])

\* A frame gets lost on the bus.
Lose ==
  /\ wire # <<>> /\ wire' = <<>>
  /\ hears' = IF hears = wire[1].pkg THEN Mixed ELSE hears
  /\ UNCHANGED <<sendVars, receiveVars, stale, ended>>

\* buf[8]*256 + buf[7]
LengthIn(b) ==
  IF b[8].pkg = b[9].pkg /\ b[8].off = 7 /\ b[9].off = 8
  THEN {b[8].size - 2} ELSE Misread

\* From how many bytes on datalen is read. Mutant: two frames later.
LengthKnown_Late(n) == n > 24
LengthKnown(n) == n > 8

\* The receiver reads a frame and appends it. The alarm has just been renewed,
\* so that the handler does not come between the bytes, count and datalen.
Receive ==
  /\ wire # <<>> /\ ~judging
  /\ Len(rbuf) + 8 <= LENGTH
  /\ rbuf' = rbuf \o wire /\ wire' = <<>>
  /\ rlen' \in IF LengthKnown(Len(rbuf')) THEN LengthIn(rbuf') ELSE {rlen}
  /\ judging' = TRUE /\ ralarm' = TRUE
  /\ LET f == wire[1] IN
       /\ hears' = IF f.off = 0 \/ hears = f.pkg THEN f.pkg ELSE Mixed
       /\ stale' = IF f.off = 0 THEN Len(rbuf) ELSE stale
       /\ ended' = (f.off + Len(wire) = f.size)
  /\ UNCHANGED sendVars

FrameComplete == Len(rbuf) - 2 = rlen

CrcRight ==
  \A i \in 1..(rlen + 2) :
    rbuf[i] = [pkg |-> rbuf[1].pkg, size |-> rlen + 2, off |-> i - 1,
               from |-> rbuf[1].from]

Cleared ==
  rbuf' = <<>> /\ rlen' = 0 /\ hears' = 0 /\ stale' = 0 /\ ended' = FALSE

\* Not complete: the next frame. Complete: the alarm is stopped; a package
\* of a known type is cleared away, any other stays, as does a wrong one.
Judge ==
  /\ judging /\ judging' = FALSE
  /\ \/ /\ ~FrameComplete
        /\ UNCHANGED <<rbuf, rlen, ralarm, heardVars>>
     \/ /\ FrameComplete /\ ralarm' = FALSE
        /\ IF CrcRight /\ rbuf[1].from \in Forgotten THEN Cleared
           ELSE UNCHANGED <<rbuf, rlen, heardVars>>
  /\ UNCHANGED <<sendVars, wire>>

\* can_rcv_timeout, between any two steps.
Timeout ==
  /\ ralarm /\ ralarm' = FALSE
  /\ Cleared
  /\ UNCHANGED <<sendVars, wire, judging>>

FramesNext ==
  \/ \E s \in Sender : Begin(s) \/ WriteFrame(s)
  \/ Lose \/ Receive \/ Judge \/ Timeout

FramesSpec == FramesInit /\ [][FramesNext]_framesVars
-------------------------------------------------------------------------------
FramesTypeOK ==
  /\ size \in [Sender -> Nat] /\ left \in [Sender -> Nat]
  /\ sended \in [Sender -> Nat] /\ number \in [Sender -> Nat]
  /\ packages \in Nat
  /\ wire \in Seq(FrameByte) /\ rbuf \in Seq(FrameByte) /\ rlen \in Nat
  /\ judging \in BOOLEAN /\ ralarm \in BOOLEAN
  /\ hears \in Nat \cup {Mixed} /\ stale \in Nat /\ ended \in BOOLEAN

(***************************************************************************)
(* A package heard from its first frame on, with nothing lost and no frame *)
(* of another in between. When the buffer was empty before, it is taken    *)
(* for complete when its last frame has been appended and not before,      *)
(* whatever its size; and its bytes are all there, in order. When it was   *)
(* not (a package of unknown type, as from dev_sendto_st.cgi, a wrong one, *)
(* or a part of one still lies there), it is appended to what does not     *)
(* belong to it and is never taken for a right package: nothing of it is   *)
(* stored, and the alarm clears it away.                                   *)
(***************************************************************************)
WholeWhenEnded ==
  hears > 0 =>
    IF stale = 0
    THEN /\ FrameComplete <=> ended
         /\ Len(rbuf) <= rbuf[1].size
         /\ ended => Len(rbuf) = rbuf[1].size /\ CrcRight
    ELSE ~(FrameComplete /\ CrcRight)

-------------------------------------------------------------------------------
(* The inductive invariant.                                                *)
SenderInv ==
  \A s \in Sender :
    /\ left[s] + sended[s] = size[s]
    /\ number[s] <= packages
    /\ number[s] = 0 => size[s] = 0
    /\ number[s] > 0 => size[s] > 8
    /\ \A t \in Sender : number[t] = number[s] /\ number[s] > 0 => t = s

WireInv ==
  wire # <<>> =>
    LET f == wire[1] IN
      /\ f.pkg = number[f.from] /\ f.size = size[f.from]
      /\ f.off + Len(wire) = sended[f.from]
      /\ f.off = 0 => Len(wire) = 8
      /\ \A i \in 1..Len(wire) :
           wire[i] = [pkg |-> f.pkg, size |-> f.size, off |-> f.off + i - 1,
                      from |-> f.from]

OnWire == IF wire = <<>> \/ wire[1].pkg # hears THEN 0 ELSE Len(wire)

\* What lies in the buffer is of a package that has been begun before the one
\* whose first frame comes.
FirstInv ==
  rbuf # <<>> =>
    LET p == rbuf[1].pkg IN
      /\ p <= packages
      /\ \A s \in Sender : number[s] = p => sended[s] > 0
      /\ wire # <<>> /\ wire[1].off = 0 => wire[1].pkg # p

StaleInv ==
  hears > 0 /\ stale > 0 =>
    stale < Len(rbuf) /\ rbuf[stale + 1].pkg = hears /\ rbuf[1].pkg # hears

HeardInv ==
  /\ Len(rbuf) <= 8 => rlen = 0
  /\ rbuf = <<>> => hears <= 0
  /\ hears <= packages
  /\ hears > 0 /\ stale = 0 =>
       LET f == rbuf[1] IN
         /\ Len(rbuf) >= 8 /\ Len(rbuf) <= f.size /\ f.size > 8
         /\ \A i \in 1..Len(rbuf) :
              rbuf[i] = [pkg |-> hears, size |-> f.size, off |-> i - 1,
                         from |-> f.from]
         /\ ended <=> Len(rbuf) = f.size
         /\ Len(rbuf) > 8 => rlen = f.size - 2
         /\ \A s \in Sender : number[s] = hears =>
              /\ s = f.from /\ f.size = size[s]
              /\ Len(rbuf) + OnWire = sended[s]

FramesInv ==
  FramesTypeOK /\ SenderInv /\ WireInv /\ FirstInv /\ StaleInv /\ HeardInv
===============================================================================
