---------------------------- MODULE CanFramesProofs ----------------------------
(***************************************************************************)
(* Packages on the CAN bus, for any number of senders, packages of any     *)
(* size and anything the other bytes may say: a package that is heard      *)
(* whole in an empty buffer is complete when it has ended, and its bytes   *)
(* are in order; behind other bytes it is never a right one.               *)
(*                                                                         *)
(* FramesInv is inductive. The step that matters is Receive: the frame on  *)
(* the bus continues what rbuf holds because both have come from the same  *)
(* sender's count of bytes sent; numbers are not given twice.              *)
(***************************************************************************)
EXTENDS CanFrames, Crc, SequenceTheorems, TLAPS

LEMMA EmptyType == <<>> \in Seq(FrameByte) /\ Len(<<>>) = 0
OBVIOUS

LEMMA InitHolds == FramesInit => FramesInv
<1> SUFFICES ASSUME FramesInit PROVE FramesInv
  OBVIOUS
<1>1. FramesTypeOK
  BY EmptyType DEF FramesInit, FramesTypeOK
<1>2. SenderInv
  <2>1. \A s \in Sender : left[s] = 0 /\ sended[s] = 0 /\ size[s] = 0 /\ number[s] = 0
    BY DEF FramesInit
  <2>2. packages = 0
    BY DEF FramesInit
  <2>3. 0 + 0 = 0 /\ 0 <= 0 /\ ~(0 > 0)
    OBVIOUS
  <2> QED BY <2>1, <2>2, <2>3, Zenon DEF SenderInv
<1>3. WireInv /\ FirstInv /\ StaleInv /\ HeardInv
  BY DEF FramesInit, WireInv, FirstInv, StaleInv, HeardInv
<1> QED BY <1>1, <1>2, <1>3 DEF FramesInv

\* A new package has a number that nobody has had, so that nothing heard is
\* mistaken for a part of it.
LEMMA BeginKeeps ==
  ASSUME NEW s \in Sender, FramesInv, Begin(s) PROVE FramesInv'
<1> USE FramesAssumption
<1>1. PICK n \in Sizes : size' = [size EXCEPT ![s] = n]
                         /\ left' = [left EXCEPT ![s] = n]
  BY DEF Begin
<1>2. n \in Nat /\ n > 8 /\ packages + 1 \in Nat /\ packages \in Nat
  BY DEF FramesInv, FramesTypeOK
<1>3. FramesTypeOK'
  BY <1>1, <1>2 DEF Begin, FramesInv, FramesTypeOK, receiveVars, heardVars
<1>4. SenderInv'
  BY <1>1, <1>2 DEF Begin, FramesInv, FramesTypeOK, SenderInv
<1>5. WireInv'
  BY DEF Begin, FramesInv, WireInv, receiveVars
<1>6. HeardInv'
  <2>1. hears # packages + 1
    BY <1>2 DEF FramesInv, FramesTypeOK, HeardInv, Mixed
  <2>2. \A t \in Sender : t # s => number'[t] = number[t] /\ sended'[t] = sended[t]
                                   /\ size'[t] = size[t]
    BY <1>1 DEF Begin, FramesInv, FramesTypeOK
  <2>3. number'[s] = packages + 1 /\ packages' = packages + 1
    BY DEF Begin, FramesInv, FramesTypeOK
  <2>4. UNCHANGED <<rbuf, rlen, hears, ended, wire>> /\ OnWire' = OnWire
    BY DEF Begin, receiveVars, heardVars, OnWire
  <2>5. stale' = stale
    BY DEF Begin, heardVars
  <2> QED BY <1>2, <2>1, <2>2, <2>3, <2>4, <2>5
          DEF FramesInv, FramesTypeOK, HeardInv, Mixed
<1>7. FirstInv'
  <2>1. /\ wire = <<>> /\ wire' = <<>> /\ rbuf' = rbuf /\ packages' = packages + 1
        /\ number' = [number EXCEPT ![s] = packages + 1]
        /\ sended' = [sended EXCEPT ![s] = 0]
    BY DEF Begin, receiveVars
  <2> SUFFICES ASSUME rbuf # <<>>
               PROVE  /\ rbuf[1].pkg <= packages + 1
                      /\ \A t \in Sender : number'[t] = rbuf[1].pkg => sended'[t] > 0
    BY <2>1 DEF FirstInv
  <2>2. rbuf[1] \in FrameByte
    BY DEF FramesInv, FramesTypeOK
  <2>3. rbuf[1].pkg \in Nat /\ rbuf[1].pkg <= packages
        /\ \A t \in Sender : number[t] = rbuf[1].pkg => sended[t] > 0
    BY <2>2 DEF FrameByte, FramesInv, FirstInv
  <2> QED BY <1>2, <2>1, <2>3 DEF FramesInv, FramesTypeOK
<1>8. StaleInv'
  BY DEF Begin, receiveVars, heardVars, FramesInv, StaleInv
<1> QED BY <1>3, <1>4, <1>5, <1>6, <1>7, <1>8 DEF FramesInv

\* What is put on the bus follows what the sender has sent before.
LEMMA PutFrameKeeps ==
  ASSUME NEW s \in Sender, NEW dlc \in 1..8, FramesInv, PutFrame(s, dlc),
         dlc <= left[s], dlc < 8 => dlc = left[s]
  PROVE  FramesInv'
<1> DEFINE byte(i) == [pkg |-> number[s], size |-> size[s],
                       off |-> sended[s] + i - 1, from |-> s]
<1>1. /\ left[s] \in Nat /\ sended[s] \in Nat /\ size[s] \in Nat /\ number[s] \in Nat
      /\ left[s] + sended[s] = size[s] /\ left[s] > 0
  BY DEF FramesInv, FramesTypeOK, SenderInv, PutFrame
<1>2. number[s] > 0 /\ size[s] > 8
  BY <1>1 DEF FramesInv, SenderInv
<1>3. wire' = [i \in 1..dlc |-> byte(i)]
  BY DEF PutFrame
<1>4. \A i \in 1..dlc : byte(i) \in FrameByte
  BY <1>1, <1>2 DEF FrameByte
<1> HIDE DEF byte
<1>5. wire' \in Seq(FrameByte) /\ Len(wire') = dlc /\ wire' # <<>> /\ wire'[1] = byte(1)
      /\ \A i \in 1..dlc : wire'[i] = byte(i)
  BY <1>3, <1>4
<1>6. /\ sended'[s] = sended[s] + dlc /\ left'[s] = left[s] - dlc
      /\ sended' \in [Sender -> Nat] /\ left' \in [Sender -> Nat]
      /\ \A t \in Sender : t # s => sended'[t] = sended[t] /\ left'[t] = left[t]
  <2>1. dlc \in Nat /\ sended[s] + dlc \in Nat /\ left[s] - dlc \in Nat
    BY <1>1
  <2>2. /\ sended' = [sended EXCEPT ![s] = sended[s] + dlc]
        /\ left' = [left EXCEPT ![s] = left[s] - dlc]
        /\ sended \in [Sender -> Nat] /\ left \in [Sender -> Nat]
    BY DEF PutFrame, FramesInv, FramesTypeOK
  <2> QED BY <2>1, <2>2
<1>7. UNCHANGED <<size, number, packages, rbuf, rlen, judging, ralarm, hears, stale,
                  ended>>
      /\ wire = <<>>
  BY DEF PutFrame, receiveVars, heardVars
<1>8. FramesTypeOK'
  BY <1>5, <1>6, <1>7 DEF FramesInv, FramesTypeOK
<1>9. SenderInv'
  <2>1. \A t \in Sender : left'[t] + sended'[t] = size'[t]
    <3> TAKE t \in Sender
    <3>1. left[t] + sended[t] = size[t] /\ size'[t] = size[t]
      BY <1>7 DEF FramesInv, SenderInv
    <3>2. (sended[s] + dlc) + (left[s] - dlc) = left[s] + sended[s]
      BY <1>1
    <3> QED BY <1>6, <3>1, <3>2
  <2> QED BY <2>1, <1>7 DEF FramesInv, SenderInv
<1>10. WireInv'
  <2>1. /\ wire'[1].pkg = number[s] /\ wire'[1].size = size[s]
        /\ wire'[1].off = sended[s] /\ wire'[1].from = s
    BY <1>1, <1>5 DEF byte
  <2>2. sended[s] = 0 => dlc = 8
    BY <1>1, <1>2
  <2>3. \A i \in 1..Len(wire') :
          wire'[i] = [pkg |-> number[s], size |-> size[s],
                      off |-> sended[s] + i - 1, from |-> s]
    BY <1>5 DEF byte
  <2> QED BY <1>5, <1>6, <1>7, <2>1, <2>2, <2>3 DEF WireInv
<1>11. HeardInv'
  <2>1. OnWire = 0 /\ OnWire' = IF number[s] # hears THEN 0 ELSE dlc
    BY <1>5, <1>7 DEF OnWire, byte
  <2>2. ASSUME hears > 0, stale = 0, NEW t \in Sender, number[t] = hears
        PROVE  Len(rbuf) + OnWire' = sended'[t]
    <3>1. Len(rbuf) = sended[t] /\ sended[t] \in Nat
      BY <2>1, <2>2 DEF FramesInv, HeardInv, FramesTypeOK
    <3>2. number[s] = hears <=> t = s
      BY <2>2, <1>1 DEF FramesInv, SenderInv
    <3> QED BY <3>1, <3>2, <2>1, <1>6
  <2> QED BY <2>2, <1>7 DEF FramesInv, HeardInv
<1>12. FirstInv'
  <2> SUFFICES ASSUME rbuf # <<>>
               PROVE  /\ rbuf[1].pkg <= packages
                      /\ \A t \in Sender : number[t] = rbuf[1].pkg => sended'[t] > 0
                      /\ wire'[1].off = 0 => wire'[1].pkg # rbuf[1].pkg
    BY <1>7 DEF FirstInv
  <2>1. /\ rbuf[1].pkg <= packages
        /\ \A t \in Sender : number[t] = rbuf[1].pkg => sended[t] > 0
    BY DEF FramesInv, FirstInv
  <2>2. wire'[1].off = sended[s] /\ wire'[1].pkg = number[s]
    BY <1>1, <1>5 DEF byte
  <2>3. \A t \in Sender : sended[t] \in Nat
    BY DEF FramesInv, FramesTypeOK
  <2> QED BY <1>1, <1>6, <2>1, <2>2, <2>3
<1>13. StaleInv'
  BY <1>7 DEF FramesInv, StaleInv
<1> QED BY <1>8, <1>9, <1>10, <1>11, <1>12, <1>13 DEF FramesInv

LEMMA WriteFrameKeeps ==
  ASSUME NEW s \in Sender, FramesInv, WriteFrame(s) PROVE FramesInv'
<1>1. left[s] \in Nat
  BY DEF FramesInv, FramesTypeOK
<1>2. CASE left[s] >= 8 /\ PutFrame(s, 8)
  BY <1>1, <1>2, PutFrameKeeps
<1>3. CASE left[s] < 8 /\ PutFrame(s, left[s])
  <2>1. left[s] \in 1..8
    BY <1>1, <1>3 DEF PutFrame
  <2> QED BY <1>1, <1>3, <2>1, PutFrameKeeps
<1> QED BY <1>2, <1>3 DEF WriteFrame

LEMMA LoseKeeps == ASSUME FramesInv, Lose PROVE FramesInv'
<1>1. UNCHANGED <<size, left, sended, number, packages, rbuf, rlen, judging,
                  ralarm, stale, ended>> /\ wire' = <<>>
  BY DEF Lose, sendVars, receiveVars
<1>2. hears' \in {hears, Mixed}
  BY DEF Lose
<1>3. FramesTypeOK'
  BY <1>1, <1>2 DEF FramesInv, FramesTypeOK
<1>4. SenderInv' /\ WireInv' /\ FirstInv'
  BY <1>1 DEF FramesInv, SenderInv, WireInv, FirstInv
<1>5. StaleInv'
  BY <1>1, <1>2 DEF FramesInv, StaleInv, Mixed
<1>6. HeardInv'
  <2>1. CASE hears' = Mixed
    BY <1>1, <2>1 DEF FramesInv, FramesTypeOK, HeardInv, Mixed
  <2>2. CASE hears' = hears /\ hears' # Mixed
    <3>1. OnWire = 0 /\ OnWire' = 0
      BY <1>1, <2>2 DEF Lose, OnWire
    <3> QED BY <1>1, <2>2, <3>1 DEF FramesInv, HeardInv
  <2> QED BY <2>1, <2>2, <1>2
<1> QED BY <1>3, <1>4, <1>5, <1>6 DEF FramesInv

LEMMA ClearedKeeps ==
  ASSUME FramesInv, Cleared, UNCHANGED <<sendVars, wire>>,
         judging' \in BOOLEAN, ralarm' \in BOOLEAN
  PROVE  FramesInv'
<1>1. UNCHANGED <<size, left, sended, number, packages, wire>>
  BY DEF sendVars
<1>2. FramesTypeOK'
  BY <1>1, EmptyType DEF FramesInv, FramesTypeOK, Cleared
<1>3. SenderInv' /\ WireInv' /\ FirstInv' /\ StaleInv'
  BY <1>1 DEF FramesInv, SenderInv, WireInv, FirstInv, StaleInv, Cleared
<1>4. HeardInv'
  BY <1>1, EmptyType DEF FramesInv, FramesTypeOK, HeardInv, Cleared
<1> QED BY <1>2, <1>3, <1>4 DEF FramesInv

LEMMA JudgeKeeps == ASSUME FramesInv, Judge PROVE FramesInv'
<1>1. UNCHANGED <<sendVars, wire>> /\ judging' \in BOOLEAN /\ ralarm' \in BOOLEAN
  BY DEF Judge, FramesInv, FramesTypeOK
<1>2. CASE Cleared
  BY <1>1, <1>2, ClearedKeeps
<1>3. CASE UNCHANGED <<rbuf, rlen, heardVars>>
  <2>1. UNCHANGED <<size, left, sended, number, packages, wire>>
    BY <1>1 DEF sendVars
  <2>2. FramesTypeOK'
    BY <1>1, <1>3, <2>1 DEF FramesInv, FramesTypeOK, heardVars
  <2>3. SenderInv' /\ WireInv' /\ FirstInv' /\ StaleInv'
    BY <1>3, <2>1 DEF FramesInv, SenderInv, WireInv, FirstInv, StaleInv, heardVars
  <2>4. HeardInv'
    BY <1>3, <2>1 DEF FramesInv, HeardInv, OnWire, heardVars
  <2> QED BY <2>2, <2>3, <2>4 DEF FramesInv
<1> QED BY <1>2, <1>3 DEF Judge

LEMMA TimeoutKeeps == ASSUME FramesInv, Timeout PROVE FramesInv'
BY ClearedKeeps DEF Timeout, FramesInv, FramesTypeOK

LEMMA Appended ==
  ASSUME NEW S, NEW a \in Seq(S), NEW b \in Seq(S)
  PROVE  /\ a \o b \in Seq(S) /\ Len(a \o b) = Len(a) + Len(b)
         /\ \A i \in 1..Len(a) : (a \o b)[i] = a[i]
         /\ \A i \in 1..Len(b) : (a \o b)[Len(a) + i] = b[i]
         /\ Len(a) \in Nat /\ Len(b) \in Nat
         /\ b # <<>> => Len(b) > 0 /\ b[1] \in S
         /\ a # <<>> => Len(a) > 0
OBVIOUS

\* Nine bytes of a package say how long it is.
LEMMA LengthKeptType ==
  ASSUME NEW b \in Seq(FrameByte), Len(b) > 8 PROVE LengthIn(b) \subseteq Nat
<1>1. b[8] \in FrameByte
  OBVIOUS
<1>2. b[8].size - 2 \in Nat
  BY <1>1 DEF FrameByte
<1> QED BY <1>2, FramesAssumption DEF LengthIn

\* A frame that continues what has been heard begins where that ends.
LEMMA ReceiveKeeps == ASSUME FramesInv, Receive PROVE FramesInv'
<1> DEFINE f == wire[1]
<1>1. /\ UNCHANGED <<size, left, sended, number, packages>>
      /\ wire # <<>> /\ wire' = <<>> /\ rbuf' = rbuf \o wire
      /\ judging' = TRUE /\ ralarm' = TRUE
      /\ ended' = (f.off + Len(wire) = f.size)
  BY DEF Receive, sendVars
<1>2. wire \in Seq(FrameByte) /\ rbuf \in Seq(FrameByte) /\ rlen \in Nat
      /\ number \in [Sender -> Nat] /\ size \in [Sender -> Nat]
      /\ sended \in [Sender -> Nat] /\ left \in [Sender -> Nat] /\ packages \in Nat
  BY DEF FramesInv, FramesTypeOK
<1>3. /\ rbuf' \in Seq(FrameByte) /\ Len(rbuf') = Len(rbuf) + Len(wire)
      /\ \A i \in 1..Len(rbuf) : rbuf'[i] = rbuf[i]
      /\ \A i \in 1..Len(wire) : rbuf'[Len(rbuf) + i] = wire[i]
      /\ Len(rbuf) \in Nat /\ Len(wire) \in Nat /\ Len(wire) > 0 /\ f \in FrameByte
      /\ rbuf # <<>> => Len(rbuf) > 0
  BY <1>1, <1>2, Appended
<1>4. /\ f.pkg \in Nat /\ f.pkg > 0 /\ f.size \in Nat /\ f.size > 8
      /\ f.off \in Nat /\ f.from \in Sender
  BY <1>3 DEF FrameByte
<1>5. /\ f.pkg = number[f.from] /\ f.size = size[f.from]
      /\ f.off + Len(wire) = sended[f.from]
      /\ f.off = 0 => Len(wire) = 8
      /\ \A i \in 1..Len(wire) :
           wire[i] = [pkg |-> f.pkg, size |-> f.size, off |-> f.off + i - 1,
                      from |-> f.from]
  BY <1>1 DEF FramesInv, WireInv
<1>6. rlen' \in IF Len(rbuf') > 8 THEN LengthIn(rbuf') ELSE {rlen}
  BY DEF Receive, LengthKnown
<1>7. rlen' \in Nat /\ (Len(rbuf') <= 8 => rlen' = 0)
  <2>1. CASE Len(rbuf') > 8
    BY <1>3, <1>6, <2>1, LengthKeptType
  <2>2. CASE ~(Len(rbuf') > 8)
    <3>1. Len(rbuf) <= 8
      BY <1>3, <2>2
    <3> QED BY <1>2, <1>3, <1>6, <2>2, <3>1 DEF FramesInv, HeardInv
  <2> QED BY <2>1, <2>2
<1>8. /\ hears' = IF f.off = 0 \/ hears = f.pkg THEN f.pkg ELSE Mixed
      /\ stale' = IF f.off = 0 THEN Len(rbuf) ELSE stale
  BY DEF Receive
<1> HIDE DEF f
<1>9. FramesTypeOK'
  <2>1. stale' \in Nat /\ hears' \in Nat \cup {Mixed}
    BY <1>3, <1>4, <1>8 DEF FramesInv, FramesTypeOK
  <2> QED BY <1>1, <1>2, <1>3, <1>4, <1>7, <2>1 DEF FramesTypeOK
<1>10. SenderInv' /\ WireInv'
  BY <1>1 DEF FramesInv, SenderInv, WireInv
<1>11. HeardInv'
  <2>1. rbuf' # <<>> /\ OnWire' = 0
    BY <1>1, <1>3 DEF OnWire
  <2>2. f.pkg <= packages
    BY <1>4, <1>5 DEF FramesInv, SenderInv
  <2>3. CASE hears' = Mixed
    BY <1>1, <1>2, <1>7, <2>1, <2>3 DEF HeardInv, Mixed
  <2>4. CASE hears' = f.pkg /\ stale' # 0
    BY <1>1, <1>2, <1>4, <1>7, <2>1, <2>2, <2>4 DEF HeardInv
  <2>5. CASE hears' = f.pkg /\ stale' = 0
    <3> DEFINE goes == rbuf # <<>> /\ hears = f.pkg /\ stale = 0
    <3>0. (rbuf = <<>> /\ f.off = 0) \/ goes
      <4>1. CASE f.off = 0
        <5>1. Len(rbuf) = 0
          BY <1>8, <2>5, <4>1
        <5>2. rbuf = <<>>
          BY <1>3, <5>1
        <5> QED BY <4>1, <5>2
      <4>2. CASE f.off # 0
        <5>1. hears = f.pkg /\ stale = 0
          BY <1>4, <1>8, <2>5, <4>2 DEF Mixed
        <5>2. rbuf # <<>>
          BY <1>4, <5>1 DEF FramesInv, HeardInv
        <5> QED BY <5>1, <5>2
      <4> QED BY <4>1, <4>2
    <3>1. f.off = Len(rbuf)
      <4>1. CASE rbuf = <<>> /\ f.off = 0
        BY <4>1
      <4>2. CASE goes
        <5>1. OnWire = Len(wire)
          BY <1>1, <4>2 DEF OnWire, f
        <5>2. Len(rbuf) + OnWire = sended[f.from]
          BY <1>4, <1>5, <4>2 DEF FramesInv, HeardInv
        <5> QED BY <1>3, <1>4, <1>5, <5>1, <5>2
      <4> QED BY <3>0, <4>1, <4>2
    <3>2. rbuf # <<>> => /\ rbuf[1].from = f.from /\ rbuf[1].size = f.size
                         /\ Len(rbuf) >= 8
                         /\ \A i \in 1..Len(rbuf) :
                              rbuf[i] = [pkg |-> f.pkg, size |-> f.size,
                                         off |-> i - 1, from |-> f.from]
      <4> SUFFICES ASSUME rbuf # <<>>
                   PROVE  /\ rbuf[1].from = f.from /\ rbuf[1].size = f.size
                          /\ Len(rbuf) >= 8
                          /\ \A i \in 1..Len(rbuf) :
                               rbuf[i] = [pkg |-> f.pkg, size |-> f.size,
                                          off |-> i - 1, from |-> f.from]
        OBVIOUS
      <4>1. hears = f.pkg /\ hears > 0 /\ stale = 0
        BY <1>4, <3>0
      <4>2. rbuf[1].from = f.from /\ rbuf[1].size = f.size
        BY <1>4, <1>5, <4>1 DEF FramesInv, HeardInv
      <4> QED BY <4>1, <4>2 DEF FramesInv, HeardInv
    <3>3. \A i \in 1..Len(rbuf') :
            rbuf'[i] = [pkg |-> f.pkg, size |-> f.size, off |-> i - 1,
                        from |-> f.from]
      <4> TAKE i \in 1..Len(rbuf')
      <4>1. CASE i <= Len(rbuf)
        <5>1. i \in 1..Len(rbuf) /\ rbuf # <<>>
          BY <1>3, <4>1
        <5> QED BY <1>3, <3>2, <5>1
      <4>2. CASE i > Len(rbuf)
        <5>1. i - Len(rbuf) \in 1..Len(wire) /\ Len(rbuf) + (i - Len(rbuf)) = i
              /\ f.off + (i - Len(rbuf)) - 1 = i - 1
          BY <1>3, <3>1, <4>2
        <5> QED BY <1>3, <1>5, <5>1
      <4> QED BY <1>3, <4>1, <4>2
    <3>4. Len(rbuf') = sended[f.from] /\ Len(rbuf') <= f.size /\ Len(rbuf') >= 8
      <4>1. Len(rbuf') = sended[f.from]
        BY <1>3, <1>4, <1>5, <3>1
      <4>2. sended[f.from] <= f.size
        <5>1. left[f.from] \in Nat /\ sended[f.from] \in Nat
              /\ left[f.from] + sended[f.from] = size[f.from]
          BY <1>2, <1>4 DEF FramesInv, SenderInv
        <5> QED BY <1>4, <1>5, <5>1
      <4>3. Len(rbuf') >= 8
        <5>1. CASE rbuf = <<>>
          <6>1. Len(rbuf) = 0
            BY <5>1, EmptyType, Zenon
          <6>2. f.off = 0
            BY <3>1, <6>1, Zenon
          <6>3. Len(wire) = 8
            BY <1>5, <6>2, Zenon
          <6> QED BY <1>3, <6>1, <6>3
        <5>2. CASE rbuf # <<>>
          BY <1>3, <3>2, <5>2
        <5> QED BY <5>1, <5>2
      <4> QED BY <4>1, <4>2, <4>3
    <3>5. ended' <=> Len(rbuf') = f.size
      BY <1>1, <1>3, <3>1 DEF f
    <3>6. Len(rbuf') > 8 => rlen' = f.size - 2
      <4> SUFFICES ASSUME Len(rbuf') > 8 PROVE rlen' = f.size - 2
        OBVIOUS
      <4>1. 8 \in 1..Len(rbuf') /\ 9 \in 1..Len(rbuf')
        BY <1>3
      <4>2. /\ rbuf'[8] = [pkg |-> f.pkg, size |-> f.size, off |-> 7, from |-> f.from]
            /\ rbuf'[9] = [pkg |-> f.pkg, size |-> f.size, off |-> 8, from |-> f.from]
        BY <3>3, <4>1
      <4>3. LengthIn(rbuf') = {f.size - 2}
        BY <4>2 DEF LengthIn
      <4> QED BY <1>6, <4>3
    <3>7. \A s \in Sender : number[s] = f.pkg => s = f.from
      BY <1>4, <1>5 DEF FramesInv, SenderInv
    <3>8. rbuf'[1] = [pkg |-> f.pkg, size |-> f.size, off |-> 0, from |-> f.from]
      <4>1. 1 \in 1..Len(rbuf')
        BY <1>3
      <4> QED BY <3>3, <4>1
    <3>9. rbuf'[1].size = f.size /\ rbuf'[1].from = f.from
      BY <3>8
    <3>10. \A s \in Sender : number'[s] = hears' =>
             s = rbuf'[1].from /\ rbuf'[1].size = size'[s]
             /\ Len(rbuf') + OnWire' = sended'[s]
      BY <1>1, <1>3, <1>5, <2>1, <2>5, <3>4, <3>7, <3>9
    <3> QED BY <1>1, <1>4, <1>7, <2>1, <2>2, <2>5, <3>3, <3>4, <3>5, <3>6,
               <3>9, <3>10 DEF HeardInv
  <2> QED BY <1>8, <2>3, <2>4, <2>5
<1>12. FirstInv'
  <2>1. packages' = packages /\ number' = number /\ sended' = sended /\ wire' = <<>>
    BY <1>1
  <2>2. CASE rbuf = <<>>
    <3>1. Len(rbuf) = 0 /\ rbuf'[1] = wire[1]
      <4>1. 1 \in 1..Len(wire) /\ Len(rbuf) = 0 /\ Len(rbuf) + 1 = 1
        BY <1>3, <2>2
      <4> QED BY <1>3, <4>1
    <3>2. rbuf'[1].pkg = f.pkg
      BY <3>1 DEF f
    <3>3. f.pkg <= packages
      BY <1>4, <1>5 DEF FramesInv, SenderInv
    <3>4. \A s \in Sender : number[s] = f.pkg => s = f.from
      BY <1>4, <1>5 DEF FramesInv, SenderInv
    <3>5. sended[f.from] > 0
      BY <1>3, <1>4, <1>5
    <3> QED BY <2>1, <3>2, <3>3, <3>4, <3>5 DEF FirstInv
  <2>3. CASE rbuf # <<>>
    <3>1. rbuf'[1] = rbuf[1]
      <4>1. 1 \in 1..Len(rbuf)
        BY <1>3, <2>3
      <4> QED BY <1>3, <4>1
    <3> QED BY <2>1, <2>3, <3>1 DEF FramesInv, FirstInv
  <2> QED BY <2>2, <2>3
<1>13. StaleInv'
  <2> SUFFICES ASSUME hears' > 0, stale' > 0
               PROVE  /\ stale' < Len(rbuf')
                      /\ rbuf'[stale' + 1].pkg = hears' /\ rbuf'[1].pkg # hears'
    BY DEF StaleInv
  <2>1. hears' = f.pkg
    BY <1>8 DEF Mixed
  <2>2. CASE f.off = 0
    <3>1. stale' = Len(rbuf) /\ rbuf # <<>>
      BY <1>3, <1>8, <2>2
    <3>2. rbuf'[Len(rbuf) + 1] = wire[1] /\ rbuf'[1] = rbuf[1]
      <4>1. 1 \in 1..Len(wire) /\ 1 \in 1..Len(rbuf)
        BY <1>3, <3>1
      <4> QED BY <1>3, <4>1
    <3>3. f.pkg # rbuf[1].pkg
      BY <1>1, <2>2, <3>1 DEF FramesInv, FirstInv, f
    <3>4. rbuf'[stale' + 1].pkg = f.pkg
      BY <3>1, <3>2 DEF f
    <3>5. stale' < Len(rbuf')
      BY <1>3, <3>1
    <3> QED BY <2>1, <3>2, <3>3, <3>4, <3>5
  <2>3. CASE f.off # 0
    <3>1. hears = f.pkg /\ stale' = stale
      BY <1>4, <1>8, <2>1, <2>3 DEF Mixed
    <3>2. stale < Len(rbuf) /\ rbuf[stale + 1].pkg = f.pkg /\ rbuf[1].pkg # f.pkg
      BY <1>4, <3>1 DEF FramesInv, StaleInv
    <3>3. stale \in Nat
      BY DEF FramesInv, FramesTypeOK
    <3>4. 1 \in 1..Len(rbuf) /\ stale + 1 \in 1..Len(rbuf)
      BY <1>3, <3>2, <3>3
    <3>5. rbuf'[1] = rbuf[1] /\ rbuf'[stale + 1] = rbuf[stale + 1]
      BY <1>3, <3>4
    <3>6. stale < Len(rbuf')
      BY <1>3, <3>2, <3>3
    <3> QED BY <2>1, <3>1, <3>2, <3>5, <3>6
  <2> QED BY <2>2, <2>3
<1> QED BY <1>9, <1>10, <1>11, <1>12, <1>13 DEF FramesInv

LEMMA StepKeeps == FramesInv /\ [FramesNext]_framesVars => FramesInv'
<1> SUFFICES ASSUME FramesInv, [FramesNext]_framesVars PROVE FramesInv'
  OBVIOUS
<1>1. CASE UNCHANGED framesVars
  BY <1>1 DEF framesVars, sendVars, receiveVars, heardVars, FramesInv, FramesTypeOK,
              SenderInv, WireInv, FirstInv, StaleInv, HeardInv, OnWire
<1>2. CASE FramesNext
  BY <1>2, BeginKeeps, WriteFrameKeeps, LoseKeeps, ReceiveKeeps, JudgeKeeps,
     TimeoutKeeps DEF FramesNext
<1> QED BY <1>1, <1>2

(***************************************************************************)
(* What is on the bus comes from the one sender whose count of bytes sent  *)
(* it ends at, and what the receiver has heard of a package ends where the *)
(* frame on the bus begins.                                                *)
(***************************************************************************)
THEOREM FramesFollow == FramesSpec => []FramesInv
<1>1. FramesInit => FramesInv
  BY InitHolds
<1>2. FramesInv /\ [FramesNext]_framesVars => FramesInv'
  BY StepKeeps
<1> QED BY <1>1, <1>2, PTL DEF FramesSpec

LEMMA WholeFromInv == FramesInv => (hears > 0 /\ stale = 0 =>
                        /\ FrameComplete <=> ended
                        /\ Len(rbuf) <= rbuf[1].size
                        /\ ended => Len(rbuf) = rbuf[1].size /\ CrcRight)
<1> SUFFICES ASSUME FramesInv, hears > 0, stale = 0
             PROVE  /\ FrameComplete <=> ended
                    /\ Len(rbuf) <= rbuf[1].size
                    /\ ended => Len(rbuf) = rbuf[1].size /\ CrcRight
  OBVIOUS
<1> DEFINE f == rbuf[1]
<1>1. /\ Len(rbuf) >= 8 /\ Len(rbuf) <= f.size /\ f.size > 8
      /\ \A i \in 1..Len(rbuf) :
           rbuf[i] = [pkg |-> hears, size |-> f.size, off |-> i - 1,
                      from |-> f.from]
      /\ ended <=> Len(rbuf) = f.size
      /\ Len(rbuf) > 8 => rlen = f.size - 2
      /\ Len(rbuf) <= 8 => rlen = 0
  BY DEF FramesInv, HeardInv
<1>2. Len(rbuf) \in Nat /\ rlen \in Nat /\ f \in FrameByte
  BY <1>1 DEF FramesInv, FramesTypeOK
<1>3. f.size \in Nat
  BY <1>2 DEF FrameByte
<1>4. FrameComplete <=> ended
  BY <1>1, <1>2, <1>3 DEF FrameComplete
<1>5. ASSUME ended PROVE CrcRight
  <2>1. rlen + 2 = Len(rbuf) /\ f.size = rlen + 2
    BY <1>1, <1>2, <1>3, <1>5
  <2>2. f = [pkg |-> hears, size |-> f.size, off |-> 0, from |-> f.from]
    BY <1>1, <1>2
  <2>3. f.pkg = hears /\ Len(rbuf) = rlen + 2
    BY <2>1, <2>2
  <2> QED BY <1>1, <2>1, <2>3 DEF CrcRight
<1> QED BY <1>1, <1>4, <1>5

\* Behind bytes of another package it does not begin where CrcRight wants it to.
LEMMA StaleFromInv ==
  FramesInv => (hears > 0 /\ stale # 0 => ~(FrameComplete /\ CrcRight))
<1> SUFFICES ASSUME FramesInv, hears > 0, stale # 0, FrameComplete, CrcRight
             PROVE  FALSE
  OBVIOUS
<1>1. stale \in Nat /\ Len(rbuf) \in Nat /\ rlen \in Nat
  BY DEF FramesInv, FramesTypeOK
<1>2. stale < Len(rbuf) /\ rbuf[stale + 1].pkg = hears /\ rbuf[1].pkg # hears
  BY <1>1 DEF FramesInv, StaleInv
<1>3. stale + 1 \in 1..(rlen + 2)
  BY <1>1, <1>2 DEF FrameComplete
<1>4. \E n, o, a : rbuf[stale + 1] = [pkg |-> rbuf[1].pkg, size |-> n, off |-> o, from |-> a]
  BY <1>3 DEF CrcRight
<1>5. rbuf[stale + 1].pkg = rbuf[1].pkg
  BY <1>4
<1> QED BY <1>2, <1>5

(***************************************************************************)
(* Whatever the sizes of packages and their order on the bus, the receiver *)
(* neither ends a package early nor misses its end, if it hears all of it, *)
(* nothing in between, and its buffer was empty; one that begins behind    *)
(* what was left there is never taken for a right package.                 *)
(***************************************************************************)
THEOREM WholePackages == FramesSpec => []WholeWhenEnded
<1>1. FramesInv => WholeWhenEnded
  BY WholeFromInv, StaleFromInv DEF WholeWhenEnded
<1> QED BY FramesFollow, <1>1, PTL
-------------------------------------------------------------------------------
(* The exclusive or of numbers, width by width: it is commutative, its     *)
(* operands can be swapped, and it goes bit by bit.                        *)
Crumb == 0..3
Nibble == {n \in Nat : n < 16}
Byte == {n \in Nat : n < 256}
Word == {n \in Nat : n < 65536}

LEMMA Range2 == \A a, b \in Crumb : Xor2(a, b) \in Crumb
BY DEF Xor2, XorBit, Crumb

LEMMA Plain2 ==
  \A a, b \in Crumb : Xor2(a, 0) = a /\ Xor2(a, a) = 0 /\ Xor2(a, b) = Xor2(b, a)
BY DEF Xor2, XorBit, Crumb

LEMMA Swap2 == \A a, b, c \in Crumb : Xor2(Xor2(a, b), c) = Xor2(Xor2(a, c), b)
BY DEF Xor2, XorBit, Crumb

LEMMA Top2 ==
  \A c, d \in {0, 1}, a, b \in Crumb : a < 2 /\ b < 2 =>
    Xor2(2 * c + a, 2 * d + b) = 2 * XorBit(c, d) + Xor2(a, b)
BY DEF Xor2, XorBit, Crumb

LEMMA Half2 ==
  \A a, b \in Crumb :
    Xor2(a, b) = 2 * Xor2(a \div 2, b \div 2) + XorBit(a % 2, b % 2)
BY DEF Xor2, XorBit, Crumb

\* Four bits from two crumbs.
LEMMA Pair4 ==
  \A ah, al, bh, bl \in Crumb :
    /\ 4 * ah + al \in Nibble
    /\ Xor4(4 * ah + al, 4 * bh + bl) = 4 * Xor2(ah, bh) + Xor2(al, bl)
<1> TAKE ah, al, bh, bl \in Crumb
<1>1. \A h, l \in Crumb : /\ 4 * h + l \in Nibble
                       /\ (4 * h + l) \div 4 = h /\ (4 * h + l) % 4 = l
  BY DEF Crumb, Nibble
<1> QED BY <1>1 DEF Xor4

LEMMA Parts4 ==
  \A a \in Nibble :
    /\ a \div 4 \in Crumb /\ a % 4 \in Crumb
    /\ \E h, l \in Crumb : a = 4 * h + l
<1> TAKE a \in Nibble
<1>1. a \div 4 \in Crumb /\ a % 4 \in Crumb /\ a = 4 * (a \div 4) + (a % 4)
  BY DEF Crumb, Nibble
<1> QED BY <1>1

LEMMA Range4 == \A a, b \in Nibble : Xor4(a, b) \in Nibble
BY Parts4, Range2, Pair4 DEF Xor4

LEMMA Swap4 == \A a, b, c \in Nibble : Xor4(Xor4(a, b), c) = Xor4(Xor4(a, c), b)
<1> TAKE a, b, c \in Nibble
<1>1. PICK ah, al \in Crumb : a = 4 * ah + al
  BY Parts4
<1>2. PICK bh, bl \in Crumb : b = 4 * bh + bl
  BY Parts4
<1>3. PICK ch, cl \in Crumb : c = 4 * ch + cl
  BY Parts4
<1>4. Xor4(Xor4(a, b), c) = 4 * Xor2(Xor2(ah, bh), ch) + Xor2(Xor2(al, bl), cl)
  BY <1>1, <1>2, <1>3, Pair4, Range2
<1>5. Xor4(Xor4(a, c), b) = 4 * Xor2(Xor2(ah, ch), bh) + Xor2(Xor2(al, cl), bl)
  BY <1>1, <1>2, <1>3, Pair4, Range2
<1> QED BY <1>4, <1>5, Swap2

LEMMA Plain4 ==
  \A a, b \in Nibble :
    Xor4(a, 0) = a /\ Xor4(a, a) = 0 /\ Xor4(a, b) = Xor4(b, a)
<1> TAKE a, b \in Nibble
<1>1. a = 4 * (a \div 4) + (a % 4) /\ 0 \div 4 = 0 /\ 0 % 4 = 0
  BY DEF Nibble
<1> QED BY <1>1, Parts4, Plain2 DEF Xor4

LEMMA Top4 ==
  \A c, d \in {0, 1}, a, b \in Nibble : a < 8 /\ b < 8 =>
    Xor4(8 * c + a, 8 * d + b) = 8 * XorBit(c, d) + Xor4(a, b)
<1> SUFFICES ASSUME NEW c \in {0, 1}, NEW d \in {0, 1}, NEW a \in Nibble, NEW b \in Nibble,
                    a < 8, b < 8
             PROVE  Xor4(8 * c + a, 8 * d + b) = 8 * XorBit(c, d) + Xor4(a, b)
  OBVIOUS
<1>1. PICK ah, al \in Crumb : a = 4 * ah + al
  BY Parts4
<1>2. PICK bh, bl \in Crumb : b = 4 * bh + bl
  BY Parts4
<1>3. /\ ah < 2 /\ 2 * c + ah \in Crumb /\ 8 * c + a = 4 * (2 * c + ah) + al
      /\ bh < 2 /\ 2 * d + bh \in Crumb /\ 8 * d + b = 4 * (2 * d + bh) + bl
  BY <1>1, <1>2 DEF Crumb
<1>4. Xor4(8 * c + a, 8 * d + b) = 4 * Xor2(2 * c + ah, 2 * d + bh) + Xor2(al, bl)
  BY <1>3, Pair4
<1>5. Xor2(2 * c + ah, 2 * d + bh) = 2 * XorBit(c, d) + Xor2(ah, bh)
  BY <1>3, Top2
<1>6. Xor4(a, b) = 4 * Xor2(ah, bh) + Xor2(al, bl)
  BY <1>1, <1>2, Pair4
<1>7. XorBit(c, d) \in Int /\ Xor2(ah, bh) \in Int /\ Xor2(al, bl) \in Int
  BY Range2 DEF XorBit, Crumb
<1> QED BY <1>4, <1>5, <1>6, <1>7

LEMMA Half4 ==
  \A a, b \in Nibble :
    Xor4(a, b) = 2 * Xor4(a \div 2, b \div 2) + XorBit(a % 2, b % 2)
<1> TAKE a, b \in Nibble
<1>1. PICK ah, al \in Crumb : a = 4 * ah + al
  BY Parts4
<1>2. PICK bh, bl \in Crumb : b = 4 * bh + bl
  BY Parts4
<1>3. \A x, y \in Crumb :
        /\ (4 * x + y) % 2 = y % 2 /\ x \div 2 \in Crumb /\ x % 2 \in {0, 1}
        /\ y \div 2 \in Crumb /\ y \div 2 < 2 /\ 2 * (x % 2) + (y \div 2) \in Crumb
        /\ (4 * x + y) \div 2 = 4 * (x \div 2) + (2 * (x % 2) + (y \div 2))
  BY DEF Crumb
<1>9. /\ a % 2 = al % 2 /\ a \div 2 = 4 * (ah \div 2) + (2 * (ah % 2) + (al \div 2))
      /\ b % 2 = bl % 2 /\ b \div 2 = 4 * (bh \div 2) + (2 * (bh % 2) + (bl \div 2))
  BY <1>1, <1>2, <1>3
<1>4. Xor4(a \div 2, b \div 2) =
        4 * Xor2(ah \div 2, bh \div 2)
          + Xor2(2 * (ah % 2) + (al \div 2), 2 * (bh % 2) + (bl \div 2))
  BY <1>3, <1>9, Pair4
<1>5. Xor2(2 * (ah % 2) + (al \div 2), 2 * (bh % 2) + (bl \div 2)) =
        2 * XorBit(ah % 2, bh % 2) + Xor2(al \div 2, bl \div 2)
  BY <1>3, Top2
<1>6. Xor4(a, b) = 4 * Xor2(ah, bh) + Xor2(al, bl)
  BY <1>1, <1>2, Pair4
<1>7. /\ Xor2(ah, bh) = 2 * Xor2(ah \div 2, bh \div 2) + XorBit(ah % 2, bh % 2)
      /\ Xor2(al, bl) = 2 * Xor2(al \div 2, bl \div 2) + XorBit(al % 2, bl % 2)
  BY Half2
<1>8. /\ Xor2(ah \div 2, bh \div 2) \in Int /\ Xor2(al \div 2, bl \div 2) \in Int
      /\ XorBit(ah % 2, bh % 2) \in Int /\ XorBit(al % 2, bl % 2) \in Int
  BY <1>3, Range2 DEF XorBit, Crumb
<1> QED BY <1>4, <1>5, <1>6, <1>7, <1>8, <1>9

\* Eight bits from two nibbles.
LEMMA Pair8 ==
  \A ah, al, bh, bl \in Nibble :
    /\ 16 * ah + al \in Byte
    /\ Xor8(16 * ah + al, 16 * bh + bl) = 16 * Xor4(ah, bh) + Xor4(al, bl)
<1> TAKE ah, al, bh, bl \in Nibble
<1>1. \A h, l \in Nibble : /\ 16 * h + l \in Byte
                       /\ (16 * h + l) \div 16 = h /\ (16 * h + l) % 16 = l
  BY DEF Nibble, Byte
<1> QED BY <1>1 DEF Xor8

LEMMA Parts8 ==
  \A a \in Byte :
    /\ a \div 16 \in Nibble /\ a % 16 \in Nibble
    /\ \E h, l \in Nibble : a = 16 * h + l
<1> TAKE a \in Byte
<1>1. a \div 16 \in Nibble /\ a % 16 \in Nibble /\ a = 16 * (a \div 16) + (a % 16)
  BY DEF Nibble, Byte
<1> QED BY <1>1

LEMMA Range8 == \A a, b \in Byte : Xor8(a, b) \in Byte
BY Parts8, Range4, Pair8 DEF Xor8

LEMMA Swap8 == \A a, b, c \in Byte : Xor8(Xor8(a, b), c) = Xor8(Xor8(a, c), b)
<1> TAKE a, b, c \in Byte
<1>1. PICK ah, al \in Nibble : a = 16 * ah + al
  BY Parts8
<1>2. PICK bh, bl \in Nibble : b = 16 * bh + bl
  BY Parts8
<1>3. PICK ch, cl \in Nibble : c = 16 * ch + cl
  BY Parts8
<1>4. Xor8(Xor8(a, b), c) = 16 * Xor4(Xor4(ah, bh), ch) + Xor4(Xor4(al, bl), cl)
  BY <1>1, <1>2, <1>3, Pair8, Range4
<1>5. Xor8(Xor8(a, c), b) = 16 * Xor4(Xor4(ah, ch), bh) + Xor4(Xor4(al, cl), bl)
  BY <1>1, <1>2, <1>3, Pair8, Range4
<1> QED BY <1>4, <1>5, Swap4

LEMMA Plain8 ==
  \A a, b \in Byte :
    Xor8(a, 0) = a /\ Xor8(a, a) = 0 /\ Xor8(a, b) = Xor8(b, a)
<1> TAKE a, b \in Byte
<1>1. a = 16 * (a \div 16) + (a % 16) /\ 0 \div 16 = 0 /\ 0 % 16 = 0
  BY DEF Byte
<1> QED BY <1>1, Parts8, Plain4 DEF Xor8

LEMMA Top8 ==
  \A c, d \in {0, 1}, a, b \in Byte : a < 128 /\ b < 128 =>
    Xor8(128 * c + a, 128 * d + b) = 128 * XorBit(c, d) + Xor8(a, b)
<1> SUFFICES ASSUME NEW c \in {0, 1}, NEW d \in {0, 1}, NEW a \in Byte, NEW b \in Byte,
                    a < 128, b < 128
             PROVE  Xor8(128 * c + a, 128 * d + b) = 128 * XorBit(c, d) + Xor8(a, b)
  OBVIOUS
<1>1. PICK ah, al \in Nibble : a = 16 * ah + al
  BY Parts8
<1>2. PICK bh, bl \in Nibble : b = 16 * bh + bl
  BY Parts8
<1>3. /\ ah < 8 /\ 8 * c + ah \in Nibble /\ 128 * c + a = 16 * (8 * c + ah) + al
      /\ bh < 8 /\ 8 * d + bh \in Nibble /\ 128 * d + b = 16 * (8 * d + bh) + bl
  BY <1>1, <1>2 DEF Nibble
<1>4. Xor8(128 * c + a, 128 * d + b) = 16 * Xor4(8 * c + ah, 8 * d + bh) + Xor4(al, bl)
  BY <1>3, Pair8
<1>5. Xor4(8 * c + ah, 8 * d + bh) = 8 * XorBit(c, d) + Xor4(ah, bh)
  BY <1>3, Top4
<1>6. Xor8(a, b) = 16 * Xor4(ah, bh) + Xor4(al, bl)
  BY <1>1, <1>2, Pair8
<1>7. XorBit(c, d) \in Int /\ Xor4(ah, bh) \in Int /\ Xor4(al, bl) \in Int
  BY Range4 DEF XorBit, Nibble
<1> QED BY <1>4, <1>5, <1>6, <1>7

LEMMA Half8 ==
  \A a, b \in Byte :
    Xor8(a, b) = 2 * Xor8(a \div 2, b \div 2) + XorBit(a % 2, b % 2)
<1> TAKE a, b \in Byte
<1>1. PICK ah, al \in Nibble : a = 16 * ah + al
  BY Parts8
<1>2. PICK bh, bl \in Nibble : b = 16 * bh + bl
  BY Parts8
<1>3. \A x, y \in Nibble :
        /\ (16 * x + y) % 2 = y % 2 /\ x \div 2 \in Nibble /\ x % 2 \in {0, 1}
        /\ y \div 2 \in Nibble /\ y \div 2 < 8 /\ 8 * (x % 2) + (y \div 2) \in Nibble
        /\ (16 * x + y) \div 2 = 16 * (x \div 2) + (8 * (x % 2) + (y \div 2))
  BY DEF Nibble
<1>9. /\ a % 2 = al % 2 /\ a \div 2 = 16 * (ah \div 2) + (8 * (ah % 2) + (al \div 2))
      /\ b % 2 = bl % 2 /\ b \div 2 = 16 * (bh \div 2) + (8 * (bh % 2) + (bl \div 2))
  BY <1>1, <1>2, <1>3
<1>4. Xor8(a \div 2, b \div 2) =
        16 * Xor4(ah \div 2, bh \div 2)
          + Xor4(8 * (ah % 2) + (al \div 2), 8 * (bh % 2) + (bl \div 2))
  BY <1>3, <1>9, Pair8
<1>5. Xor4(8 * (ah % 2) + (al \div 2), 8 * (bh % 2) + (bl \div 2)) =
        8 * XorBit(ah % 2, bh % 2) + Xor4(al \div 2, bl \div 2)
  BY <1>3, Top4
<1>6. Xor8(a, b) = 16 * Xor4(ah, bh) + Xor4(al, bl)
  BY <1>1, <1>2, Pair8
<1>7. /\ Xor4(ah, bh) = 2 * Xor4(ah \div 2, bh \div 2) + XorBit(ah % 2, bh % 2)
      /\ Xor4(al, bl) = 2 * Xor4(al \div 2, bl \div 2) + XorBit(al % 2, bl % 2)
  BY Half4
<1>8. /\ Xor4(ah \div 2, bh \div 2) \in Int /\ Xor4(al \div 2, bl \div 2) \in Int
      /\ XorBit(ah % 2, bh % 2) \in Int /\ XorBit(al % 2, bl % 2) \in Int
  BY <1>3, Range4 DEF XorBit, Nibble
<1> QED BY <1>4, <1>5, <1>6, <1>7, <1>8, <1>9

\* Sixteen bits from two bytes.
LEMMA Pair16 ==
  \A ah, al, bh, bl \in Byte :
    /\ 256 * ah + al \in Word
    /\ Xor16(256 * ah + al, 256 * bh + bl) = 256 * Xor8(ah, bh) + Xor8(al, bl)
<1> TAKE ah, al, bh, bl \in Byte
<1>1. \A h, l \in Byte : /\ 256 * h + l \in Word
                       /\ (256 * h + l) \div 256 = h /\ (256 * h + l) % 256 = l
  BY DEF Byte, Word
<1> QED BY <1>1 DEF Xor16

LEMMA Parts16 ==
  \A a \in Word :
    /\ a \div 256 \in Byte /\ a % 256 \in Byte
    /\ \E h, l \in Byte : a = 256 * h + l
<1> TAKE a \in Word
<1>1. a \div 256 \in Byte /\ a % 256 \in Byte /\ a = 256 * (a \div 256) + (a % 256)
  BY DEF Byte, Word
<1> QED BY <1>1

LEMMA Range16 == \A a, b \in Word : Xor16(a, b) \in Word
BY Parts16, Range8, Pair16 DEF Xor16

LEMMA Swap16 == \A a, b, c \in Word : Xor16(Xor16(a, b), c) = Xor16(Xor16(a, c), b)
<1> TAKE a, b, c \in Word
<1>1. PICK ah, al \in Byte : a = 256 * ah + al
  BY Parts16
<1>2. PICK bh, bl \in Byte : b = 256 * bh + bl
  BY Parts16
<1>3. PICK ch, cl \in Byte : c = 256 * ch + cl
  BY Parts16
<1>4. Xor16(Xor16(a, b), c) = 256 * Xor8(Xor8(ah, bh), ch) + Xor8(Xor8(al, bl), cl)
  BY <1>1, <1>2, <1>3, Pair16, Range8
<1>5. Xor16(Xor16(a, c), b) = 256 * Xor8(Xor8(ah, ch), bh) + Xor8(Xor8(al, cl), bl)
  BY <1>1, <1>2, <1>3, Pair16, Range8
<1> QED BY <1>4, <1>5, Swap8

LEMMA Plain16 ==
  \A a, b \in Word :
    Xor16(a, 0) = a /\ Xor16(a, a) = 0 /\ Xor16(a, b) = Xor16(b, a)
<1> TAKE a, b \in Word
<1>1. a = 256 * (a \div 256) + (a % 256) /\ 0 \div 256 = 0 /\ 0 % 256 = 0
  BY DEF Word
<1> QED BY <1>1, Parts16, Plain8 DEF Xor16

LEMMA Top16 ==
  \A c, d \in {0, 1}, a, b \in Word : a < 32768 /\ b < 32768 =>
    Xor16(32768 * c + a, 32768 * d + b) = 32768 * XorBit(c, d) + Xor16(a, b)
<1> SUFFICES ASSUME NEW c \in {0, 1}, NEW d \in {0, 1}, NEW a \in Word, NEW b \in Word,
                    a < 32768, b < 32768
             PROVE  Xor16(32768 * c + a, 32768 * d + b) = 32768 * XorBit(c, d) + Xor16(a, b)
  OBVIOUS
<1>1. PICK ah, al \in Byte : a = 256 * ah + al
  BY Parts16
<1>2. PICK bh, bl \in Byte : b = 256 * bh + bl
  BY Parts16
<1>3. /\ ah < 128 /\ 128 * c + ah \in Byte /\ 32768 * c + a = 256 * (128 * c + ah) + al
      /\ bh < 128 /\ 128 * d + bh \in Byte /\ 32768 * d + b = 256 * (128 * d + bh) + bl
  BY <1>1, <1>2 DEF Byte
<1>4. Xor16(32768 * c + a, 32768 * d + b) = 256 * Xor8(128 * c + ah, 128 * d + bh) + Xor8(al, bl)
  BY <1>3, Pair16
<1>5. Xor8(128 * c + ah, 128 * d + bh) = 128 * XorBit(c, d) + Xor8(ah, bh)
  BY <1>3, Top8
<1>6. Xor16(a, b) = 256 * Xor8(ah, bh) + Xor8(al, bl)
  BY <1>1, <1>2, Pair16
<1>7. XorBit(c, d) \in Int /\ Xor8(ah, bh) \in Int /\ Xor8(al, bl) \in Int
  BY Range8 DEF XorBit, Byte
<1> QED BY <1>4, <1>5, <1>6, <1>7

LEMMA Half16 ==
  \A a, b \in Word :
    Xor16(a, b) = 2 * Xor16(a \div 2, b \div 2) + XorBit(a % 2, b % 2)
<1> TAKE a, b \in Word
<1>1. PICK ah, al \in Byte : a = 256 * ah + al
  BY Parts16
<1>2. PICK bh, bl \in Byte : b = 256 * bh + bl
  BY Parts16
<1>3. \A x, y \in Byte :
        /\ (256 * x + y) % 2 = y % 2 /\ x \div 2 \in Byte /\ x % 2 \in {0, 1}
        /\ y \div 2 \in Byte /\ y \div 2 < 128 /\ 128 * (x % 2) + (y \div 2) \in Byte
        /\ (256 * x + y) \div 2 = 256 * (x \div 2) + (128 * (x % 2) + (y \div 2))
  BY DEF Byte
<1>9. /\ a % 2 = al % 2 /\ a \div 2 = 256 * (ah \div 2) + (128 * (ah % 2) + (al \div 2))
      /\ b % 2 = bl % 2 /\ b \div 2 = 256 * (bh \div 2) + (128 * (bh % 2) + (bl \div 2))
  BY <1>1, <1>2, <1>3
<1>4. Xor16(a \div 2, b \div 2) =
        256 * Xor8(ah \div 2, bh \div 2)
          + Xor8(128 * (ah % 2) + (al \div 2), 128 * (bh % 2) + (bl \div 2))
  BY <1>3, <1>9, Pair16
<1>5. Xor8(128 * (ah % 2) + (al \div 2), 128 * (bh % 2) + (bl \div 2)) =
        128 * XorBit(ah % 2, bh % 2) + Xor8(al \div 2, bl \div 2)
  BY <1>3, Top8
<1>6. Xor16(a, b) = 256 * Xor8(ah, bh) + Xor8(al, bl)
  BY <1>1, <1>2, Pair16
<1>7. /\ Xor8(ah, bh) = 2 * Xor8(ah \div 2, bh \div 2) + XorBit(ah % 2, bh % 2)
      /\ Xor8(al, bl) = 2 * Xor8(al \div 2, bl \div 2) + XorBit(al % 2, bl % 2)
  BY Half8
<1>8. /\ Xor8(ah \div 2, bh \div 2) \in Int /\ Xor8(al \div 2, bl \div 2) \in Int
      /\ XorBit(ah % 2, bh % 2) \in Int /\ XorBit(al % 2, bl % 2) \in Int
  BY <1>3, Range8 DEF XorBit, Byte
<1> QED BY <1>4, <1>5, <1>6, <1>7, <1>8, <1>9
-------------------------------------------------------------------------------
(* The division is linear, and what has been shifted by a byte comes back. *)
LEMMA Cancel16 ==
  \A a, b, c \in Word : Xor16(Xor16(a, c), Xor16(b, c)) = Xor16(a, b)
<1> TAKE a, b, c \in Word
<1> DEFINE ac == Xor16(a, c)
<1>1. ac \in Word /\ Xor16(b, c) \in Word /\ Xor16(a, b) \in Word
  BY Range16
<1>2. Xor16(ac, Xor16(b, c)) = Xor16(Xor16(b, c), ac)
  BY <1>1, Plain16
<1>3. Xor16(Xor16(b, c), ac) = Xor16(Xor16(b, ac), c)
  BY <1>1, Swap16
<1>4. Xor16(b, ac) = Xor16(Xor16(a, b), c)
  BY <1>1, Plain16, Swap16
<1>5. Xor16(Xor16(Xor16(a, b), c), c) = Xor16(Xor16(c, c), Xor16(a, b))
  BY <1>1, Plain16, Swap16, Range16
<1>6. Xor16(c, c) = 0 /\ 0 \in Word
  BY Plain16 DEF Word
<1> QED BY <1>1, <1>2, <1>3, <1>4, <1>5, <1>6, Plain16

LEMMA ShiftRange == \A r \in Word : Shift(r) \in Word /\ r \div 2 \in Word
BY Range16 DEF Shift, Word

LEMMA ShiftXor ==
  \A a, b \in Word : Shift(Xor16(a, b)) = Xor16(Shift(a), Shift(b))
<1> TAKE a, b \in Word
<1> DEFINE z == Xor16(a, b)
           p == a \div 2
           q == b \div 2
           A001 == 40961
<1>1. /\ p \in Word /\ q \in Word /\ A001 \in Word /\ z \in Word
      /\ Xor16(p, q) \in Word /\ a % 2 \in {0, 1} /\ b % 2 \in {0, 1}
  <2>1. /\ p \in Word /\ q \in Word /\ A001 \in Word
        /\ a % 2 \in {0, 1} /\ b % 2 \in {0, 1}
    BY DEF Word
  <2> QED BY <2>1, Range16
<1>2. z = 2 * Xor16(p, q) + XorBit(a % 2, b % 2)
  BY Half16
<1> HIDE DEF z, p, q, A001
<1>3. z \div 2 = Xor16(p, q) /\ z % 2 = XorBit(a % 2, b % 2)
  BY <1>1, <1>2 DEF XorBit, Word
<1>4. /\ Shift(a) = IF a % 2 = 1 THEN Xor16(p, A001) ELSE p
      /\ Shift(b) = IF b % 2 = 1 THEN Xor16(q, A001) ELSE q
      /\ Shift(z) = IF z % 2 = 1 THEN Xor16(z \div 2, A001) ELSE z \div 2
  BY DEF Shift, p, q, A001
<1>5. CASE a % 2 = 0 /\ b % 2 = 0
  BY <1>3, <1>4, <1>5 DEF XorBit, z
<1>6. CASE a % 2 = 1 /\ b % 2 = 0
  <2>1. Shift(z) = Xor16(Xor16(p, q), A001) /\ Shift(a) = Xor16(p, A001) /\ Shift(b) = q
    BY <1>3, <1>4, <1>6 DEF XorBit
  <2> QED BY <1>1, <2>1, Swap16 DEF z
<1>7. CASE a % 2 = 0 /\ b % 2 = 1
  <2>1. Shift(z) = Xor16(Xor16(p, q), A001) /\ Shift(a) = p /\ Shift(b) = Xor16(q, A001)
    BY <1>3, <1>4, <1>7 DEF XorBit
  <2>2. Xor16(Xor16(q, p), A001) = Xor16(Xor16(q, A001), p) /\ Xor16(q, A001) \in Word
    BY <1>1, Swap16, Range16
  <2> QED BY <1>1, <2>1, <2>2, Plain16 DEF z
<1>8. CASE a % 2 = 1 /\ b % 2 = 1
  <2>1. /\ Shift(z) = Xor16(p, q)
        /\ Shift(a) = Xor16(p, A001) /\ Shift(b) = Xor16(q, A001)
    BY <1>3, <1>4, <1>8 DEF XorBit
  <2> QED BY <1>1, <2>1, Cancel16 DEF z
<1> QED BY <1>1, <1>5, <1>6, <1>7, <1>8

LEMMA DivideXor ==
  \A a, b \in Word : /\ Divide(a) \in Word
                     /\ Divide(Xor16(a, b)) = Xor16(Divide(a), Divide(b))
<1>1. \A a, b \in Word : /\ Divide2(a) \in Word
                         /\ Divide2(Xor16(a, b)) = Xor16(Divide2(a), Divide2(b))
  BY ShiftRange, ShiftXor, Range16 DEF Divide2
<1>2. \A a, b \in Word : /\ Divide4(a) \in Word
                         /\ Divide4(Xor16(a, b)) = Xor16(Divide4(a), Divide4(b))
  BY <1>1, Range16 DEF Divide4
<1> QED BY <1>2, Range16 DEF Divide

LEMMA DivideShifted == \A b \in Byte : 256 * b \in Word /\ Divide(256 * b) = b
<1>1. \A x \in Nat : Shift(2 * x) = x
  BY DEF Shift
<1>2. \A x \in Nat : Divide2(4 * x) = x
  <2> TAKE x \in Nat
  <2>1. 4 * x = 2 * (2 * x) /\ 2 * x \in Nat
    OBVIOUS
  <2> QED BY <1>1, <2>1 DEF Divide2
<1>3. \A x \in Nat : Divide4(16 * x) = x
  <2> TAKE x \in Nat
  <2>1. 16 * x = 4 * (4 * x) /\ 4 * x \in Nat
    OBVIOUS
  <2> QED BY <1>2, <2>1 DEF Divide4
<1> TAKE b \in Byte
<1>4. 256 * b \in Word /\ 256 * b = 16 * (16 * b) /\ 16 * b \in Nat /\ b \in Nat
  BY DEF Byte, Word
<1> QED BY <1>3, <1>4 DEF Divide
-------------------------------------------------------------------------------
(* The entries of the tables, line by line.                                *)
LEMMA TableEntry ==
  \A t \in Byte : /\ crch[t] = crch_lines[t \div 16 + 1][(t % 16) + 1]
                  /\ crcl[t] = crcl_lines[t \div 16 + 1][(t % 16) + 1]
<1> TAKE t \in Byte
<1>1. t \in 0..255
  BY DEF Byte
<1> QED BY <1>1, Zenon DEF crch, crcl

LEMMA Lookup ==
  \A h, l \in Nibble : /\ 16 * h + l \in Byte
                       /\ crch[16 * h + l] = crch_lines[h + 1][l + 1]
                       /\ crcl[16 * h + l] = crcl_lines[h + 1][l + 1]
<1> TAKE h, l \in Nibble
<1>2. 16 * h + l \in Byte /\ (16 * h + l) \div 16 = h /\ (16 * h + l) % 16 = l
  BY DEF Nibble, Byte
<1> QED BY <1>2, TableEntry

LEMMA Entries == \A t \in Byte : crch[t] \in Byte /\ crcl[t] \in Byte
<1>1. \A h, l \in 1..16 : crch_lines[h][l] \in Nat /\ crch_lines[h][l] < 256
  BY DEF crch_lines
<1>2. \A h, l \in 1..16 : crcl_lines[h][l] \in Nat /\ crcl_lines[h][l] < 256
  BY DEF crcl_lines, LineA, LineB
<1> TAKE t \in Byte
<1>3. PICK h, l \in Nibble : t = 16 * h + l
  BY Parts8
<1>4. h + 1 \in 1..16 /\ l + 1 \in 1..16
  BY DEF Nibble
<1>5. crch[t] = crch_lines[h + 1][l + 1] /\ crcl[t] = crcl_lines[h + 1][l + 1]
  BY <1>3, Lookup
<1> QED BY <1>1, <1>2, <1>4, <1>5 DEF Byte

\* An entry follows from those of the first line and the first column, and in
\* these from those of the bits.
FromFirst(lines) == \A h, l \in 1..16 : lines[h][l] = Xor8(lines[h][1], lines[1][l])
FromBits(first) ==
  \A k \in {1, 2, 4, 8} : \A i \in 1..8 : i <= k =>
    first[i + k] = Xor8(first[i], first[k + 1])
Column(lines) == [h \in 1..16 |-> lines[h][1]]

LEMMA LinesXor ==
  /\ FromFirst(crch_lines) /\ FromFirst(crcl_lines)
  /\ FromBits(crch_lines[1]) /\ FromBits(Column(crch_lines))
  /\ FromBits(crcl_lines[1]) /\ FromBits(Column(crcl_lines))
<1>1. FromFirst(crch_lines)
  BY DEF FromFirst, crch_lines, Xor8, Xor4, Xor2, XorBit
<1>2. FromFirst(crcl_lines)
  BY DEF FromFirst, crcl_lines, LineA, LineB, Xor8, Xor4, Xor2, XorBit
<1>3. FromBits(crch_lines[1])
  BY DEF FromBits, crch_lines, Xor8, Xor4, Xor2, XorBit
<1>4. FromBits(Column(crch_lines))
  BY DEF FromBits, Column, crch_lines, Xor8, Xor4, Xor2, XorBit
<1>5. FromBits(crcl_lines[1])
  BY DEF FromBits, crcl_lines, LineA, LineB, Xor8, Xor4, Xor2, XorBit
<1>6. FromBits(Column(crcl_lines))
  BY DEF FromBits, Column, crcl_lines, LineA, LineB, Xor8, Xor4, Xor2, XorBit
<1> QED BY <1>1, <1>2, <1>3, <1>4, <1>5, <1>6

Right(t) == Divide(t) = crcl[t] + 256 * crch[t]

\* Two entries that are right make a third one right.
LEMMA RightXor ==
  ASSUME NEW a \in Byte, NEW b \in Byte, Right(a), Right(b), Xor8(a, b) = a + b,
         crch[a + b] = Xor8(crch[a], crch[b]), crcl[a + b] = Xor8(crcl[a], crcl[b])
  PROVE  Right(a + b)
<1>1. a \in Word /\ b \in Word /\ Xor16(a, b) = a + b
  <2>1. /\ 0 \in Byte /\ 256 * 0 + a = a /\ 256 * 0 + b = b /\ Xor8(0, 0) = 0
        /\ a \in Nat /\ b \in Nat /\ a \in Word /\ b \in Word
    BY Plain8 DEF Byte, Word
  <2> QED BY <2>1, Pair16
<1>2. Divide(a + b) = Xor16(Divide(a), Divide(b))
  BY <1>1, DivideXor
<1>3. Divide(a) = 256 * crch[a] + crcl[a] /\ Divide(b) = 256 * crch[b] + crcl[b]
  BY Entries DEF Right, Byte
<1>4. Divide(a + b) = 256 * crch[a + b] + crcl[a + b]
  BY <1>2, <1>3, Entries, Pair16
<1>5. a + b \in Byte
  BY Range8
<1> QED BY <1>4, <1>5, Entries DEF Right, Byte

\* Those of the bits are right, from 128 down to 1.
LEMMA RightBits == Right(0) /\ \A k \in {1, 2, 4, 8} : Right(k) /\ Right(16 * k)
<1>1. \A x \in Nat : Shift(2 * x) = x
  BY DEF Shift
<1>2. /\ Shift(0) = 0 /\ Shift(1) = 40961 /\ Shift(40961) = 61441
      /\ Shift(61441) = 55297 /\ Shift(55297) = 52225 /\ Shift(52225) = 50689
      /\ Shift(50689) = 49921 /\ Shift(49921) = 49537 /\ Shift(49537) = 49345
  BY DEF Shift, Xor16, Xor8, Xor4, Xor2, XorBit
<1>3. /\ Shift(2) = 1 /\ Shift(4) = 2 /\ Shift(8) = 4 /\ Shift(16) = 8
      /\ Shift(32) = 16 /\ Shift(64) = 32 /\ Shift(128) = 64
  <2>1. \A x \in {1, 2, 4, 8, 16, 32, 64} : Shift(2 * x) = x
    BY <1>1
  <2> QED BY <2>1
<1>4. /\ Divide(0) = 0 /\ Divide(128) = 40961 /\ Divide(64) = 61441
      /\ Divide(32) = 55297 /\ Divide(16) = 52225 /\ Divide(8) = 50689
      /\ Divide(4) = 49921 /\ Divide(2) = 49537 /\ Divide(1) = 49345
  BY <1>2, <1>3 DEF Divide, Divide4, Divide2
<1>5. /\ crch_lines[1][1] = 0 /\ crcl_lines[1][1] = 0
      /\ \A k \in {1, 2, 4, 8} :
           /\ Divide(k) = crcl_lines[1][k + 1] + 256 * crch_lines[1][k + 1]
           /\ Divide(16 * k) = crcl_lines[k + 1][1] + 256 * crch_lines[k + 1][1]
  BY <1>4 DEF crch_lines, crcl_lines, LineA, LineB
<1>6. \A k \in {0, 1, 2, 4, 8} : k \in Nibble /\ 16 * 0 + k = k /\ 16 * k + 0 = 16 * k
  BY DEF Nibble
<1>7. \A k \in {0, 1, 2, 4, 8} :
        /\ crch[k] = crch_lines[1][k + 1] /\ crcl[k] = crcl_lines[1][k + 1]
        /\ crch[16 * k] = crch_lines[k + 1][1] /\ crcl[16 * k] = crcl_lines[k + 1][1]
  <2> TAKE k \in {0, 1, 2, 4, 8}
  <2>1. 0 \in Nibble /\ k \in Nibble /\ 0 + 1 = 1
    BY <1>6
  <2> QED BY <1>6, <2>1, Lookup
<1> QED BY <1>4, <1>5, <1>7 DEF Right

\* Hence the first line and the first column are,
LEMMA RightFirst == \A i \in Nibble : Right(i) /\ Right(16 * i)
<1> DEFINE Upto(n) == \A i \in Nibble : i < n => Right(i) /\ Right(16 * i)
<1>1. ASSUME NEW k \in {1, 2, 4, 8}, Upto(k) PROVE Upto(2 * k)
  <2> SUFFICES ASSUME NEW j \in Nibble, j < 2 * k, ~(j < k)
               PROVE  Right(j) /\ Right(16 * j)
    BY <1>1
  <2> DEFINE i == j - k
  <2>1. i \in Nibble /\ k \in Nibble /\ i < k /\ j = i + k /\ 16 * j = 16 * i + 16 * k
    BY DEF Nibble
  <2> HIDE DEF i
  <2>2. /\ i \in Byte /\ k \in Byte /\ 16 * i \in Byte /\ 16 * k \in Byte
    BY <2>1 DEF Nibble, Byte
  <2>3. Xor4(i, k) = i + k /\ Xor4(0, 0) = 0
    BY <2>1 DEF Nibble, Xor4, Xor2, XorBit
  <2>4. Xor8(i, k) = i + k /\ Xor8(16 * i, 16 * k) = 16 * i + 16 * k
    <3>1. /\ 16 * 0 + i = i /\ 16 * 0 + k = k /\ 16 * i + 0 = 16 * i
          /\ 16 * k + 0 = 16 * k /\ 0 \in Nibble /\ i \in Int /\ k \in Int
      BY <2>1 DEF Nibble
    <3> QED BY <2>1, <2>3, <3>1, Pair8
  <2>5. Right(i) /\ Right(16 * i) /\ Right(k) /\ Right(16 * k)
    BY <1>1, <2>1, RightBits
  <2>6. /\ crch[i + k] = Xor8(crch[i], crch[k]) /\ crcl[i + k] = Xor8(crcl[i], crcl[k])
        /\ crch[16 * i + 16 * k] = Xor8(crch[16 * i], crch[16 * k])
        /\ crcl[16 * i + 16 * k] = Xor8(crcl[16 * i], crcl[16 * k])
    <3>1. \A n \in Nibble :
            /\ crch[n] = crch_lines[1][n + 1] /\ crcl[n] = crcl_lines[1][n + 1]
            /\ crch[16 * n] = Column(crch_lines)[n + 1]
            /\ crcl[16 * n] = Column(crcl_lines)[n + 1]
      <4> TAKE n \in Nibble
      <4>1. /\ 0 \in Nibble /\ 16 * 0 + n = n /\ 16 * n + 0 = 16 * n /\ 0 + 1 = 1
            /\ n + 1 \in 1..16
        BY DEF Nibble
      <4> QED BY <4>1, Lookup DEF Column
    <3>2. /\ i + 1 \in 1..8 /\ i + 1 <= k /\ j + 1 = (i + 1) + k
      BY <2>1 DEF Nibble
    <3>3. ASSUME NEW f, FromBits(f) PROVE f[j + 1] = Xor8(f[i + 1], f[k + 1])
      BY <3>2, <3>3 DEF FromBits
    <3> QED BY <2>1, <3>1, <3>3, LinesXor
  <2> QED BY <2>1, <2>2, <2>4, <2>5, <2>6, RightXor
<1>2. Upto(1)
  <2>1. \A i \in Nibble : i < 1 => i = 0 /\ 16 * i = 0
    BY DEF Nibble
  <2> QED BY <2>1, RightBits
<1>3. Upto(2) /\ (Upto(2) => Upto(4)) /\ (Upto(4) => Upto(8)) /\ (Upto(8) => Upto(16))
  <2>1. 2 * 1 = 2 /\ 2 * 2 = 4 /\ 2 * 4 = 8 /\ 2 * 8 = 16
    OBVIOUS
  <2> HIDE DEF Upto
  <2> QED BY <1>1, <1>2, <2>1
<1> QED BY <1>3 DEF Nibble

\* and with them all.
LEMMA TableRight == \A t \in Byte : Right(t)
<1> TAKE t \in Byte
<1>1. PICK h, l \in Nibble : t = 16 * h + l
  BY Parts8
<1>2. /\ 0 \in Nibble /\ 16 * 0 + l = l /\ 16 * h + 0 = 16 * h /\ 0 + 1 = 1
      /\ h + 1 \in 1..16 /\ l + 1 \in 1..16
  BY DEF Nibble
<1>3. 16 * h \in Byte /\ l \in Byte
  BY <1>2, Lookup
<1>4. Xor8(16 * h, l) = 16 * h + l
  <2>1. Xor4(h, 0) = h /\ Xor4(0, l) = l
    BY <1>2, Plain4
  <2> QED BY <1>2, <2>1, Pair8
<1>5. /\ crch[t] = Xor8(crch[16 * h], crch[l]) /\ crcl[t] = Xor8(crcl[16 * h], crcl[l])
  <2>1. /\ crch[t] = crch_lines[h + 1][l + 1] /\ crcl[t] = crcl_lines[h + 1][l + 1]
        /\ crch[16 * h] = crch_lines[h + 1][1] /\ crcl[16 * h] = crcl_lines[h + 1][1]
        /\ crch[l] = crch_lines[1][l + 1] /\ crcl[l] = crcl_lines[1][l + 1]
    BY <1>1, <1>2, Lookup
  <2> QED BY <1>2, <2>1, LinesXor DEF FromFirst
<1> QED BY <1>1, <1>3, <1>4, <1>5, RightFirst, RightXor
-------------------------------------------------------------------------------
CrcInv ==
  /\ message \in Message /\ fed \in 0..Len(message)
  /\ T1 \in Byte /\ T2 \in Byte
  /\ TablesAreRight

\* A round of the loop of func_crc is the division of a byte.
LEMMA RoundDivides ==
  ASSUME NEW a \in Byte, NEW c \in Byte, NEW b \in Byte, NEW t, t = Xor8(a, b)
  PROVE  /\ t \in Byte
         /\ Divide(Xor16(a + 256 * c, b)) = Xor8(c, crcl[t]) + 256 * crch[t]
<1>1. t \in Byte /\ 0 \in Byte
  BY Range8 DEF Byte
<1>2. Xor16(a + 256 * c, b) = Xor16(t, 256 * c)
  <2>1. /\ a + 256 * c = 256 * c + a /\ b = 256 * 0 + b /\ t = 256 * 0 + t
        /\ 256 * c = 256 * c + 0
    BY <1>1 DEF Byte
  <2>2. Xor8(c, 0) = c /\ Xor8(0, c) = c /\ Xor8(t, 0) = t
    BY <1>1, Plain8
  <2>3. Xor16(256 * c + a, 256 * 0 + b) = 256 * c + t
    BY <1>1, <2>2, Pair16
  <2>4. Xor16(256 * 0 + t, 256 * c + 0) = 256 * c + t
    BY <1>1, <2>2, Pair16
  <2> QED BY <2>1, <2>3, <2>4
<1>3. t \in Word /\ 256 * c \in Word
  BY <1>1 DEF Byte, Word
<1>4. Divide(Xor16(t, 256 * c)) = Xor16(Divide(t), c)
  BY <1>3, DivideXor, DivideShifted
<1>5. Divide(t) = 256 * crch[t] + crcl[t] /\ c = 256 * 0 + c
  BY <1>1, TableRight, Entries DEF Right, Byte
<1>6. Xor16(Divide(t), c) = 256 * Xor8(crch[t], 0) + Xor8(crcl[t], c)
  <2>1. Xor16(256 * crch[t] + crcl[t], 256 * 0 + c) =
          256 * Xor8(crch[t], 0) + Xor8(crcl[t], c)
    BY <1>1, Entries, Pair16
  <2> QED BY <1>5, <2>1
<1>7. Xor8(crch[t], 0) = crch[t] /\ Xor8(crcl[t], c) = Xor8(c, crcl[t])
  BY <1>1, Entries, Plain8
<1>8. crch[t] \in Nat /\ Xor8(c, crcl[t]) \in Nat
  BY <1>1, Entries, Range8 DEF Byte
<1> QED BY <1>1, <1>2, <1>4, <1>6, <1>7, <1>8

LEMMA CrcInvHolds == CrcSpec => []CrcInv
<1>1. CrcInit => CrcInv
  <2> SUFFICES ASSUME CrcInit PROVE CrcInv
    OBVIOUS
  <2>1. message \in Seq(0..255)
    BY CrcAssumption DEF CrcInit
  <2>2. fed \in 0..Len(message)
    BY <2>1 DEF CrcInit
  <2> QED BY <2>2 DEF CrcInit, CrcInv, TablesAreRight, Byte
<1>2. CrcInv /\ [CrcNext]_crcVars => CrcInv'
  <2> SUFFICES ASSUME CrcInv, CrcNext PROVE CrcInv'
    <3>1. CrcInv /\ UNCHANGED crcVars => CrcInv'
      BY DEF CrcInv, crcVars, TablesAreRight
    <3> QED BY <3>1
  <2> DEFINE b == message[fed + 1]
             t == Xor8(T1, b)
  <2>1. /\ fed' = fed + 1 /\ message' = message /\ fed < Len(message)
        /\ T1' = Xor8(T2, crcl[t]) /\ T2' = crch[t]
        /\ register' = Divide(Xor16(register, b))
    BY DEF CrcNext, Feed, TakeByte
  <2>2. message \in Seq(0..255)
    BY CrcAssumption DEF CrcInv
  <2>3. fed' \in 0..Len(message)
    BY <2>1, <2>2 DEF CrcInv
  <2>4. b \in Byte
    <3>1. \A x \in 0..255 : x \in Byte
      BY DEF Byte
    <3>2. fed + 1 \in 1..Len(message)
      BY <2>1, <2>2 DEF CrcInv
    <3>3. b \in 0..255
      BY <2>2, <3>2, ElementOfSeq
    <3> QED BY <3>1, <3>3
  <2> HIDE DEF b
  <2>5. t \in Byte /\ register' = Xor8(T2, crcl[t]) + 256 * crch[t]
    BY <2>1, <2>4, RoundDivides DEF CrcInv, TablesAreRight
  <2>6. T1' \in Byte /\ T2' \in Byte
    BY <2>1, <2>5, Entries, Range8 DEF CrcInv
  <2> HIDE DEF t
  <2> QED BY <2>1, <2>3, <2>5, <2>6 DEF CrcInv, TablesAreRight
<1> QED BY <1>1, <1>2, PTL DEF CrcSpec

(***************************************************************************)
(* Of every message func_crc computes the CRC: all 512 entries of its      *)
(* tables are right.                                                       *)
(***************************************************************************)
THEOREM TablesCorrect == CrcSpec => []TablesAreRight
<1>1. CrcInv => TablesAreRight
  BY DEF CrcInv
<1> QED BY <1>1, CrcInvHolds, PTL
-------------------------------------------------------------------------------
(* The packages whose CRC is typed in: what func_crc does with their bytes.*)
(* T are the places in the tables it comes by, L and H what stands there,  *)
(* the first two for the 255 it begins with: after k bytes T1 is the       *)
(* exclusive or of H[k + 1] and L[k + 2], and T2 is H[k + 2].              *)
rightT == <<87, 84, 1, 148, 195, 238, 209, 142, 220, 104, 152, 39, 154, 154,
    235, 0, 0>>
rightL == <<65, 1, 193, 1, 64, 128, 192, 128, 1, 1, 1, 64, 128, 128, 64, 0,
    0>>
rightH == <<254, 255, 192, 175, 81, 76, 92, 100, 153, 238, 170, 26, 107,
    107, 79, 0, 0>>
wrongT == <<87, 84, 1, 148, 195, 238, 209, 142, 220, 104, 152, 41, 27, 158,
    138, 0, 0>>
wrongL == <<65, 1, 193, 1, 64, 128, 192, 128, 1, 1, 1, 193, 64, 129, 129, 0,
    0>>
wrongH == <<254, 255, 192, 175, 81, 76, 92, 100, 153, 238, 170, 222, 11,
    168, 167, 0, 0>>
queryT == <<87, 84, 1, 148, 195, 238, 209, 142, 220, 91, 216, 123, 104, 34,
    110, 152, 236, 169, 78, 250, 177, 133, 178, 43, 60, 15, 64, 23, 163, 90,
    236, 44, 155, 132, 178, 195, 20, 115, 109, 0, 200, 39, 241, 243, 237,
    181, 189, 69, 131, 134, 21, 85, 56, 6, 107, 3, 238, 195, 79, 84, 176,
    184, 243, 122, 0, 0>>
queryL == <<65, 1, 193, 1, 64, 128, 192, 128, 1, 65, 0, 64, 1, 128, 129, 1,
    1, 192, 128, 128, 192, 193, 128, 64, 0, 64, 1, 64, 64, 128, 1, 1, 65, 0,
    128, 64, 0, 65, 193, 0, 1, 64, 193, 64, 192, 193, 192, 193, 65, 129,
    193, 192, 1, 128, 65, 64, 128, 64, 65, 1, 1, 0, 64, 129, 0, 0>>
queryH == <<254, 255, 192, 175, 81, 76, 92, 100, 153, 251, 90, 35, 238, 25,
    236, 170, 141, 126, 52, 67, 116, 163, 117, 31, 17, 4, 240, 14, 121, 59,
    141, 221, 171, 99, 117, 81, 15, 229, 237, 0, 150, 26, 132, 69, 77, 183,
    113, 243, 161, 162, 207, 63, 210, 2, 239, 1, 76, 81, 244, 255, 180, 114,
    69, 227, 0, 0>>
queryBytes == <<254, 170, 2, 1, 0, 2, 0, 62, 0, 128, 114, 0, 0, 0, 1, 2, 3,
    4, 5, 6, 7, 8, 9, 16, 17, 18, 19, 20, 21, 22, 23, 24, 25, 32, 33, 34,
    35, 36, 37, 38, 39, 40, 41, 48, 49, 50, 51, 52, 53, 54, 55, 56, 57, 64,
    65, 66, 67, 68, 69, 70, 71, 72, 196, 227>>
rightBytes == <<254, 170, 2, 1, 0, 2, 0, 13, 0, 200, 112, 0, 0, 43, 79>>
wrongBytes == <<254, 170, 2, 1, 0, 2, 0, 13, 0, 198, 112, 0, 0, 41, 167>>

Entry(t, l, h) ==
  /\ t \in Nat /\ t < 256
  /\ l = crcl_lines[t \div 16 + 1][(t % 16) + 1]
  /\ h = crch_lines[t \div 16 + 1][(t % 16) + 1]

Accepted(m, T, L, H) ==
  /\ \A k \in 1..Len(m) : T[k + 2] = Xor8(Xor8(H[k], L[k + 1]), m[k])
  /\ \A k \in 1..(Len(m) + 2) : Entry(T[k], L[k], H[k])
  /\ Xor8(H[1], L[2]) = 255 /\ H[2] = 255
  /\ Xor8(H[Len(m) - 2 + 1], L[Len(m) - 2 + 2]) = m[Len(m) - 1]
  /\ H[Len(m) - 2 + 2] = m[Len(m)]
  /\ Xor8(H[Len(m) + 1], L[Len(m) + 2]) = 0 /\ H[Len(m) + 2] = 0

LEMMA RightAccepted ==
  Accepted(event_right_response_data, rightT, rightL, rightH)
<1>1. Len(event_right_response_data) = 15 /\ \A k \in 1..15 : event_right_response_data[k] = rightBytes[k]
  BY DEF event_right_response_data, rightBytes
<1>2. \A k \in 1..15 : Xor8(Xor8(rightH[k], rightL[k + 1]), rightBytes[k]) = rightT[k + 2]
  BY DEF rightBytes, rightT, rightL, rightH, Xor8, Xor4, Xor2, XorBit
<1>3. \A k \in 1..17 : Entry(rightT[k], rightL[k], rightH[k])
  <2>1. \A k \in 1..17 : rightT[k] \in Nat /\ rightT[k] < 256
    BY DEF rightT
  <2>2. \A k \in 1..17 :
          /\ rightL[k] = crcl_lines[rightT[k] \div 16 + 1][(rightT[k] % 16) + 1]
          /\ rightH[k] = crch_lines[rightT[k] \div 16 + 1][(rightT[k] % 16) + 1]
    BY DEF rightT, rightL, rightH, crch_lines, crcl_lines, LineA, LineB
  <2> QED BY <2>1, <2>2 DEF Entry
<1>4. /\ Xor8(rightH[1], rightL[2]) = 255 /\ rightH[2] = 255
      /\ Xor8(rightH[14], rightL[15]) = rightBytes[14] /\ rightH[15] = rightBytes[15]
      /\ Xor8(rightH[16], rightL[17]) = 0 /\ rightH[17] = 0
  BY DEF rightBytes, rightT, rightL, rightH, Xor8, Xor4, Xor2, XorBit
<1>5. /\ 15 - 2 + 1 = 14 /\ 15 - 2 + 2 = 15 /\ 15 - 1 = 14
      /\ 15 + 1 = 16 /\ 15 + 2 = 17 /\ 1..15 \subseteq 1..17
  OBVIOUS
<1> QED BY <1>1, <1>2, <1>3, <1>4, <1>5 DEF Accepted

LEMMA WrongAccepted ==
  Accepted(event_wrong_response_data, wrongT, wrongL, wrongH)
<1>1. Len(event_wrong_response_data) = 15 /\ \A k \in 1..15 : event_wrong_response_data[k] = wrongBytes[k]
  BY DEF event_wrong_response_data, wrongBytes
<1>2. \A k \in 1..15 : Xor8(Xor8(wrongH[k], wrongL[k + 1]), wrongBytes[k]) = wrongT[k + 2]
  BY DEF wrongBytes, wrongT, wrongL, wrongH, Xor8, Xor4, Xor2, XorBit
<1>3. \A k \in 1..17 : Entry(wrongT[k], wrongL[k], wrongH[k])
  <2>1. \A k \in 1..17 : wrongT[k] \in Nat /\ wrongT[k] < 256
    BY DEF wrongT
  <2>2. \A k \in 1..17 :
          /\ wrongL[k] = crcl_lines[wrongT[k] \div 16 + 1][(wrongT[k] % 16) + 1]
          /\ wrongH[k] = crch_lines[wrongT[k] \div 16 + 1][(wrongT[k] % 16) + 1]
    BY DEF wrongT, wrongL, wrongH, crch_lines, crcl_lines, LineA, LineB
  <2> QED BY <2>1, <2>2 DEF Entry
<1>4. /\ Xor8(wrongH[1], wrongL[2]) = 255 /\ wrongH[2] = 255
      /\ Xor8(wrongH[14], wrongL[15]) = wrongBytes[14] /\ wrongH[15] = wrongBytes[15]
      /\ Xor8(wrongH[16], wrongL[17]) = 0 /\ wrongH[17] = 0
  BY DEF wrongBytes, wrongT, wrongL, wrongH, Xor8, Xor4, Xor2, XorBit
<1>5. /\ 15 - 2 + 1 = 14 /\ 15 - 2 + 2 = 15 /\ 15 - 1 = 14
      /\ 15 + 1 = 16 /\ 15 + 2 = 17 /\ 1..15 \subseteq 1..17
  OBVIOUS
<1> QED BY <1>1, <1>2, <1>3, <1>4, <1>5 DEF Accepted

LEMMA QueryAccepted ==
  Accepted(query_showdata, queryT, queryL, queryH)
<1>1. Len(query_showdata) = 64 /\ \A k \in 1..64 : query_showdata[k] = queryBytes[k]
  BY DEF query_showdata, queryBytes
<1>2. \A k \in 1..64 : Xor8(Xor8(queryH[k], queryL[k + 1]), queryBytes[k]) = queryT[k + 2]
  BY DEF queryBytes, queryT, queryL, queryH, Xor8, Xor4, Xor2, XorBit
<1>3. \A k \in 1..66 : Entry(queryT[k], queryL[k], queryH[k])
  <2>1. \A k \in 1..66 : queryT[k] \in Nat /\ queryT[k] < 256
    BY DEF queryT
  <2>2. \A k \in 1..66 :
          /\ queryL[k] = crcl_lines[queryT[k] \div 16 + 1][(queryT[k] % 16) + 1]
          /\ queryH[k] = crch_lines[queryT[k] \div 16 + 1][(queryT[k] % 16) + 1]
    BY DEF queryT, queryL, queryH, crch_lines, crcl_lines, LineA, LineB
  <2> QED BY <2>1, <2>2 DEF Entry
<1>4. /\ Xor8(queryH[1], queryL[2]) = 255 /\ queryH[2] = 255
      /\ Xor8(queryH[63], queryL[64]) = queryBytes[63] /\ queryH[64] = queryBytes[64]
      /\ Xor8(queryH[65], queryL[66]) = 0 /\ queryH[66] = 0
  BY DEF queryBytes, queryT, queryL, queryH, Xor8, Xor4, Xor2, XorBit
<1>5. /\ 64 - 2 + 1 = 63 /\ 64 - 2 + 2 = 64 /\ 64 - 1 = 63
      /\ 64 + 1 = 65 /\ 64 + 2 = 66 /\ 1..64 \subseteq 1..66
  OBVIOUS
<1> QED BY <1>1, <1>2, <1>3, <1>4, <1>5 DEF Accepted

\* Where func_crc is in the list.
Traced(m, L, H) ==
  message = m => T1 = Xor8(H[fed + 1], L[fed + 2]) /\ T2 = H[fed + 2]

LEMMA TraceBegins ==
  ASSUME NEW m, NEW T, NEW L, NEW H, Accepted(m, T, L, H), CrcInit
  PROVE  Traced(m, L, H)
<1>1. 0 + 1 = 1 /\ 0 + 2 = 2
  OBVIOUS
<1> QED BY <1>1 DEF CrcInit, Accepted, Traced

LEMMA TraceGoesOn ==
  ASSUME NEW m, NEW T, NEW L, NEW H, Accepted(m, T, L, H),
         CrcInv, Traced(m, L, H), CrcNext
  PROVE  Traced(m, L, H)'
<1> SUFFICES ASSUME message = m
             PROVE  T1' = Xor8(H[fed' + 1], L[fed' + 2]) /\ T2' = H[fed' + 2]
  BY DEF Traced, CrcNext, Feed
<1> DEFINE t == Xor8(T1, m[fed + 1])
<1>1. /\ fed' = fed + 1 /\ fed < Len(m)
      /\ T1' = Xor8(T2, crcl[t]) /\ T2' = crch[t]
  BY DEF CrcNext, Feed, TakeByte
<1>2. fed + 1 \in 1..Len(m) /\ fed + 3 \in 1..(Len(m) + 2) /\ fed \in Nat
  <2>1. m \in Seq(0..255)
    BY CrcAssumption DEF CrcInv
  <2> QED BY <1>1, <2>1 DEF CrcInv
<1>3. fed + 1 + 1 = fed + 2 /\ fed + 1 + 2 = fed + 3
  BY <1>2
<1>4. t = T[fed + 3]
  BY <1>2, <1>3 DEF Accepted, Traced
<1>5. Entry(t, L[fed + 3], H[fed + 3])
  BY <1>2, <1>4 DEF Accepted
<1>6. L[fed + 3] = crcl[t] /\ H[fed + 3] = crch[t]
  BY <1>5, TableEntry DEF Entry, Byte
<1> QED BY <1>1, <1>3, <1>6 DEF Traced

LEMMA TraceArrives ==
  ASSUME NEW m, NEW T, NEW L, NEW H, Accepted(m, T, L, H),
         Traced(m, L, H), message = m
  PROVE  /\ fed = Len(m) - 2 => T1 = m[Len(m) - 1] /\ T2 = m[Len(m)]
         /\ fed = Len(m) => T1 = 0 /\ T2 = 0
BY DEF Accepted, Traced

(***************************************************************************)
(* The answers to the controller and the query for show data, sent with the*)
(* CRC that is typed in, are accepted by whoever computes it.              *)
(***************************************************************************)
THEOREM TypedInAccepted == CrcSpec => []TypedInIsAccepted
<1> DEFINE Traces == /\ Traced(event_right_response_data, rightL, rightH)
                     /\ Traced(event_wrong_response_data, wrongL, wrongH)
                     /\ Traced(query_showdata, queryL, queryH)
<1>1. CrcInit => Traces
  BY TraceBegins, RightAccepted, WrongAccepted, QueryAccepted
<1>2. CrcInv /\ Traces /\ [CrcNext]_crcVars => Traces'
  <2>1. CrcInv /\ Traces /\ CrcNext => Traces'
    BY TraceGoesOn, RightAccepted, WrongAccepted, QueryAccepted
  <2>2. Traces /\ UNCHANGED crcVars => Traces'
    BY DEF Traced, crcVars
  <2> QED BY <2>1, <2>2
<1>3. Traces => TypedInIsAccepted
  BY TraceArrives, RightAccepted, WrongAccepted, QueryAccepted
     DEF TypedInIsAccepted, TypedIn
<1> QED BY <1>1, <1>2, <1>3, CrcInvHolds, PTL DEF CrcSpec
===============================================================================
