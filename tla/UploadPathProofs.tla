---------------------------- MODULE UploadPathProofs ----------------------------
(***************************************************************************)
(* Theorems about the whole way of an event. UploadPath does to the buffer *)
(* nothing but what EventBuffer does, and to the connection nothing but    *)
(* what ServerLink does, so that it has what is proved of each; and the two*)
(* agree on which event is which. From that follows what neither of them   *)
(* can say: what the controller was told of is at the server or will be,   *)
(* and the server gets each number once.                                   *)
(***************************************************************************)
EXTENDS UploadPath, EventBufferProofs, ServerLinkProofs

(***************************************************************************)
(* The daemon with its connection implements the daemon as EventBuffer     *)
(* describes it, where delivering a package to the server is one step.     *)
(***************************************************************************)
THEOREM ImplementsBuffer == UploadSpec => Spec
<1>1. UploadInit => Init
  BY DEF UploadInit
<1>2. [UploadNext]_uploadVars => [Next]_vars
  BY DEF UploadNext, uploadVars, Receive, DataThread, Await, Copy, Deliver, Connection,
         Next, DataStep
<1> QED BY <1>1, <1>2, PTL DEF UploadSpec, Spec

(***************************************************************************)
(* And it implements the connection as ServerLink describes it, to which   *)
(* events come from nowhere.                                               *)
(***************************************************************************)
THEOREM ImplementsLink == UploadSpec => LinkSpec
<1>1. UploadInit => LinkInit
  BY DEF UploadInit
<1>2. [UploadNext]_uploadVars => [LinkNext]_linkVars
  BY DEF UploadNext, uploadVars, Receive, DataThread, Await, Copy, Deliver, Connection,
         LinkNext
<1> QED BY <1>1, <1>2, PTL DEF UploadSpec, LinkSpec
-------------------------------------------------------------------------------
(* The data thread's event is the package copied last.                     *)
SameEvent == event = Len(uploads)

LEMMA SameEventInit == UploadInit => SameEvent
BY DEF UploadInit, Init, LinkInit, SameEvent

LEMMA SameEventStep ==
  ASSUME TypeOK, SameEvent, [UploadNext]_uploadVars PROVE SameEvent'
<1>1. CASE Receive
  <2>1. uploads' = uploads
    BY <1>1 DEF Receive, CanRead, CanStep, Timeout, PingStep, DataWakeSpuriously,
                CanCopy, CanIncomplete, CanReject, CanAccept, CanShow, CanNumber,
                CanSignal, Announce, CanRespond, LockEventno, Acquire, WriteEventno,
                WriteBack, Store, StoreFails, WaitSem, TakeSem, Clear, PingTop,
                PingSleep, PingRaise, PingNumber, PingTakeBuf, PingPlace, history, state
  <2> QED BY <1>1, <2>1 DEF Receive, linkVars, SameEvent
<1>2. CASE Await
  BY <1>2 DEF Await, DataWait, DataDeliver, state, history, linkVars, SameEvent
<1>3. CASE Copy
  <2>1. PICK len \in Lengths(buf[1]) : uploads' = Append(uploads, SubSeq(buf, 1, len))
    BY <1>3 DEF Copy, DataCopy, TakeCopy
  <2>2. SubSeq(buf, 1, len) \in Seq(Cells)
    <3>1. BufOK
      BY DEF TypeOK
    <3>2. len \in 0..Cap
      BY <3>1, LengthsType DEF BufOK
    <3> QED BY <3>1, <3>2, CopyType
  <2>3. Len(uploads') = Len(uploads) + 1
    BY <2>1, <2>2 DEF TypeOK, HistoryOK
  <2> QED BY <1>3, <2>3 DEF Copy, DataEvent, SameEvent
<1>4. CASE Deliver
  BY <1>4 DEF Deliver, DeliverStep, DataStart, DataCheck, DataLock, Take, DataWrite,
              SigPipe, Wait, TakePost, DataAnswered, DataAppend, AppendFails, SetFile, SetFlag,
              FileFlagged, vars, state, history, SameEvent
<1>5. CASE Connection
  BY <1>5 DEF Connection, PingServerStep, ConnectOk, ConnectFails, PingOk, PingFails,
              Offline, SocketInit, StartReader, AskFlag, ReadNoFile, LockToSend,
              SendLine, SigPipe, Wait, TakePost, LineAnswered, AllSent, RemoveFile,
              SetFile, ClearFlag, ReaderStep, ReaderRead, ReaderEof, ReaderLock, Take,
              ReaderWrite, GhostLock, ServerAnswers, ServerAsks, ServerCloses,
              HostChanges, vars, state, history, SameEvent
<1>6. CASE UNCHANGED uploadVars
  BY <1>6 DEF uploadVars, vars, state, history, linkVars, SameEvent
<1> QED BY <1>1, <1>2, <1>3, <1>4, <1>5, <1>6 DEF UploadNext, DataThread

LEMMA SameEventCorrect == UploadSpec => []SameEvent
<1>1. TypeOK /\ SameEvent /\ [UploadNext]_uploadVars => SameEvent'
  BY SameEventStep
<1> QED BY <1>1, SameEventInit, ImplementsBuffer, TypeCorrect, PTL DEF UploadSpec
-------------------------------------------------------------------------------
(***************************************************************************)
(* What the controller was told has arrived is at the server or on its way *)
(* there, for any packages and any number of them: with the host of the    *)
(* server there to stay and a file that can be written (Steady), and no    *)
(* camera events (Single).                                                 *)
(***************************************************************************)
THEOREM AnsweredIsAtServerCorrect ==
  Single /\ Steady /\ UploadSpec => []AnsweredIsAtServer
<1>1. ASSUME HistoryOK, SameEvent, AnsweredIsKept, NothingLost
      PROVE  AnsweredIsAtServer
  <2> SUFFICES ASSUME NEW p \in answered
               PROVE  \E k \in DOMAIN uploads :
                        uploads[k][1].pkg = p /\ (Arrived(k) \/ Held(k))
    BY DEF AnsweredIsAtServer
  <2>1. PICK u \in ToSet(uploads) : u[1].pkg = p
    BY <1>1 DEF AnsweredIsKept
  <2>2. PICK k \in DOMAIN uploads : u = uploads[k]
    BY <2>1 DEF ToSet
  <2>3. k \in 1..event
    BY <1>1, <2>2 DEF HistoryOK, SameEvent
  <2> QED BY <1>1, <2>1, <2>2, <2>3 DEF NothingLost
<1>2. TypeOK => HistoryOK
  BY DEF TypeOK
<1> SUFFICES ASSUME Single, Steady PROVE UploadSpec => []AnsweredIsAtServer
  OBVIOUS
<1>3. Spec => []AnsweredIsKept
  BY AnsweredIsKeptCorrect
<1>4. LinkSpec => []NothingLost
  BY NothingIsLost
<1> QED BY <1>1, <1>2, <1>3, <1>4, SameEventCorrect, ImplementsBuffer, ImplementsLink,
           TypeCorrect, PTL

(***************************************************************************)
(* The server gets no event number twice, over any number of outages,      *)
(* closed connections and refusals: of two packages the later one has the  *)
(* higher numbers, and none comes twice.                                   *)
(***************************************************************************)
THEOREM NumbersReachOnceCorrect == Single /\ UploadSpec => []NumbersReachOnce
<1>1. ASSUME TypeOK, LinkTypeOK, SameEvent, UploadsWholeInOrder, SentOnce
      PROVE  NumbersReachOnce
  <2> SUFFICES ASSUME NEW i \in DOMAIN served, NEW j \in DOMAIN served,
                      i # j, served[i] > 0, served[j] > 0
               PROVE  NumbersOf(served[i]) \cap NumbersOf(served[j]) = {}
    BY DEF NumbersReachOnce
  <2>1. served[i] # served[j]
    BY <1>1 DEF SentOnce, Distinct
  <2>2. \A k \in DOMAIN served : served[k] > 0 => served[k] \in DOMAIN uploads
    <3>1. \A k \in DOMAIN served : served[k] \in 0..event
      BY <1>1 DEF SentOnce, Sent, ToSet
    <3>2. DOMAIN uploads = 1..event /\ event \in Nat
      BY <1>1 DEF SameEvent, TypeOK, HistoryOK
    <3> QED BY <3>1, <3>2
  <2>3. ASSUME NEW k \in DOMAIN uploads, NEW l \in DOMAIN uploads, k < l
        PROVE  NumbersOf(k) \cap NumbersOf(l) = {}
    <3>1. \A a \in 2..Len(uploads[k]), b \in 2..Len(uploads[l]) :
            uploads[k][a].no < uploads[l][b].no
      BY <1>1, <2>3 DEF UploadsWholeInOrder
    <3>2. \A m \in DOMAIN uploads : \A a \in 2..Len(uploads[m]) : uploads[m][a].no \in Nat
      <4> TAKE m \in DOMAIN uploads
      <4> TAKE a \in 2..Len(uploads[m])
      <4>1. uploads[m] \in Seq(Cells)
        BY <1>1 DEF TypeOK, HistoryOK
      <4>2. uploads[m][a] \in Cells
        BY <4>1
      <4> QED BY <4>2 DEF Cells
    <3> QED BY <3>1, <3>2 DEF NumbersOf
  <2>4. served[i] < served[j] \/ served[j] < served[i]
    BY <2>1, <2>2, <1>1 DEF TypeOK, HistoryOK
  <2> QED BY <2>2, <2>3, <2>4
<1>2. LinkTypeInv => LinkTypeOK
  BY DEF LinkTypeInv
<1>3. LinkSpec => [](LinkTypeOK /\ SentOnce)
  BY <1>2, TypeInvInit, TypeInvStep, SentOnceInit, SentOnceStep, PTL DEF LinkSpec
<1> SUFFICES ASSUME Single PROVE UploadSpec => []NumbersReachOnce
  OBVIOUS
<1>4. Spec => []UploadsWholeInOrder
  BY UploadsWholeInOrderCorrect
<1> QED BY <1>1, <1>3, <1>4, SameEventCorrect, ImplementsBuffer, ImplementsLink,
           TypeCorrect, PTL
===============================================================================
