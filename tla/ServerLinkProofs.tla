---------------------------- MODULE ServerLinkProofs ----------------------------
(***************************************************************************)
(* The safety properties of ServerLink, for any number of events, outages, *)
(* closed connections and queries: the types; that no event is served      *)
(* twice; and, while the server keeps its end open, that one exchange at a *)
(* time is under way and that an answer belongs to the event it is printed *)
(* of. With a host that stays and a file that can be written (Steady) no   *)
(* event falls between the file and its flag.                              *)
(***************************************************************************)
EXTENDS ServerLink, FiniteSetTheorems, SequenceTheorems, TLAPS

DataPending == at["data"] \in {"check", "lock", "write", "append"}

\* The lines of the file are events of before; the ping thread's line is one
\* of them while it waits for the answer. Data of this process are not dead
\* unless all its threads are.
Lines ==
  /\ Len(fileLines) <= event + (IF DataPending THEN 0 ELSE 1)
  /\ line <= Len(fileLines) + 1 \/ at["ping"] # "line"
  /\ at["ping"] \in {"wait", "judge"} => line <= Len(fileLines)

\* A reader is cancelled once in an outage at most.
Running == at["ping"] \notin {"first", "sleep", "dead"}
             \/ at["reader"] \notin {"none", "dead"}
Ghosts == ghosts <= outages /\ (~up /\ Running => ghosts < outages)

AllDead ==
  /\ \A t \in Threads : at[t] = "dead" => at = [u \in Threads |-> "dead"]
  /\ at["data"] # "none" /\ at["ping"] # "none"

LinkTypeInv == LinkTypeOK /\ Lines /\ Ghosts /\ AllDead

LEMMA TypeInvInit == LinkInit => LinkTypeInv
<1> SUFFICES ASSUME LinkInit PROVE LinkTypeInv
  OBVIOUS
<1>1. fileLines \in Seq(EventNos) /\ Len(fileLines) <= 1
  <2>1. 0 \in EventNos
    BY LinkAssumption DEF EventNos
  <2>2. /\ <<0>> \in Seq(EventNos) /\ Len(<<0>>) = 1
        /\ <<>> \in Seq(EventNos) /\ Len(<<>>) = 0
    BY <2>1
  <2>3. fileLines = <<0>> \/ fileLines = <<>>
    BY DEF LinkInit
  <2>4. CASE fileLines = <<0>>
    BY <2>2, <2>4
  <2>5. CASE fileLines = <<>>
    BY <2>2, <2>5
  <2> QED BY <2>3, <2>4, <2>5
<1>2. served \in Seq(EventNos) /\ toServer \in Seq(EventNos)
      /\ toDaemon \in Seq(Answers \cup {"query"})
  BY DEF LinkInit
<1>3. at["data"] = "start" /\ at["ping"] = "first" /\ at["reader"] = "none"
  BY DEF LinkInit
<1>4. LinkTypeOK
  <2>1. {serverStatusOk, reconnectServer, haveEvent, serverResponse} \subseteq BOOLEAN
    BY DEF LinkInit
  <2>2. /\ semSerRes \in 0..MaxPosts /\ line \in 1..(MaxEvents + 2)
        /\ event \in EventNos /\ outages \in 0..MaxOutages
        /\ closes \in 0..MaxCloses /\ queries \in 0..MaxQueries
        /\ ghosts \in 0..MaxOutages
    BY LinkAssumption DEF LinkInit, EventNos
  <2> QED BY <1>1, <1>2, <2>1, <2>2 DEF LinkInit, LinkTypeOK, Threads
<1>5. Lines
  BY <1>1, <1>3 DEF LinkInit, Lines, DataPending
<1>6. Ghosts
  BY <1>3 DEF LinkInit, Ghosts, Running
<1>7. AllDead
  BY <1>3 DEF AllDead, Threads
<1> QED BY <1>4, <1>5, <1>6, <1>7 DEF LinkTypeInv

\* The steps, one by one.
PingSteps ==
  \/ ConnectOk("first", "sleep") \/ ConnectOk("connect", "connected")
  \/ ConnectFails("first") \/ ConnectFails("connect")
  \/ PingOk \/ SocketInit \/ StartReader \/ AskFlag \/ ReadNoFile
SendSteps ==
  \/ LockToSend \/ SendLine \/ Wait("ping", "wait", "judge")
  \/ LineAnswered \/ AllSent \/ RemoveFile \/ ClearFlag
DataSteps ==
  \/ DataStart \/ DataEvent \/ DataCheck \/ DataLock \/ DataWrite
  \/ Wait("data", "wait", "judge") \/ DataAnswered \/ DataAppend \/ AppendFails
  \/ SetFlag
Dies == (MoreLines /\ SigPipe("ping", "line")) \/ SigPipe("data", "write")
          \/ SigPipe("reader", "write")
ReaderSteps == ReaderRead \/ ReaderEof \/ ReaderLock \/ ReaderWrite
OtherSteps == GhostLock \/ ServerAnswers \/ ServerAsks \/ ServerCloses \/ HostChanges

LEMMA AllSteps ==
  ASSUME [LinkNext]_linkVars
  PROVE  \/ PingSteps \/ PingFails \/ SendSteps \/ DataSteps \/ Dies
         \/ ReaderSteps \/ OtherSteps \/ UNCHANGED linkVars
  BY DEF LinkNext, PingServerStep, DeliverStep, ReaderStep, PingSteps, SendSteps, DataSteps,
         Dies, ReaderSteps, OtherSteps

\* What write(sd, ...) of events does to the wire.
LEMMA Writes ==
  ASSUME LinkTypeOK, NEW e \in EventNos, Write(<<e>>)
  PROVE  /\ toServer' \in Seq(EventNos)
         /\ toServer' = toServer \/ (conn = "open" /\ toServer' = Append(toServer, e))
         /\ conn' \in {"open", "closed", "reset"} /\ (conn # "eof" => conn' = conn)
<1>1. CASE conn = "open"
  <2>1. toServer' = toServer \o <<e>> /\ conn' = conn
    BY <1>1 DEF Write
  <2>2. toServer \o <<e>> = Append(toServer, e)
    BY DEF LinkTypeOK
  <2> QED BY <1>1, <2>1, <2>2 DEF LinkTypeOK
<1>2. CASE conn # "open"
  BY <1>2 DEF Write, LinkTypeOK
<1> QED BY <1>1, <1>2
-------------------------------------------------------------------------------
Places == {"first", "start", "none", "dead", "sleep", "online", "connect",
           "connected", "ask", "nofile", "lock", "line", "wait", "judge",
           "remove", "unflag", "idle", "check", "write", "append", "flag", "read"}

LEMMA Going ==
  ASSUME at \in [Threads -> Places], NEW t \in Threads, NEW from, NEW to \in Places,
         Moves(t, from, to)
  PROVE  /\ at' \in [Threads -> Places]
         /\ at[t] = from /\ at'[t] = to
         /\ \A u \in Threads \ {t} : at'[u] = at[u]
  BY DEF Moves

LEMMA TypePing == ASSUME LinkTypeInv, PingSteps PROVE LinkTypeOK'
<1> USE DEF LinkTypeInv, flags, answer, wire, file, outside, Moves, Threads
<1>1. ASSUME NEW from, NEW to \in {"sleep", "connected"}, ConnectOk(from, to)
      PROVE  LinkTypeOK'
  BY <1>1 DEF LinkTypeOK, ConnectOk
<1>2. ASSUME NEW from, ConnectFails(from) PROVE LinkTypeOK'
  BY <1>2 DEF LinkTypeOK, ConnectFails
<1>3. CASE PingOk
  BY <1>3 DEF LinkTypeOK, PingOk
<1>4. CASE SocketInit
  BY <1>4 DEF LinkTypeOK, SocketInit
<1>5. CASE StartReader
  BY <1>5 DEF LinkTypeOK, StartReader
<1>6. CASE AskFlag
  BY <1>6 DEF LinkTypeOK, AskFlag
<1>7. CASE ReadNoFile
  BY <1>7 DEF LinkTypeOK, ReadNoFile, Die
<1> QED BY <1>1, <1>2, <1>3, <1>4, <1>5, <1>6, <1>7 DEF PingSteps

LEMMA TypeSend == ASSUME LinkTypeInv, SendSteps PROVE LinkTypeOK'
<1> USE DEF LinkTypeInv, flags, answer, wire, file, outside, Moves, Threads
<1>1. CASE LockToSend
  BY <1>1, LinkAssumption DEF LinkTypeOK, LockToSend, Take
<1>2. CASE SendLine
  <2>1. line \in DOMAIN fileLines
    BY <1>2 DEF SendLine, MoreLines, LinkTypeOK
  <2>2. fileLines[line] \in EventNos
    BY <2>1 DEF LinkTypeOK
  <2>3. Write(<<fileLines[line]>>)
    BY <1>2 DEF SendLine
  <2>4. toServer' \in Seq(EventNos) /\ conn' \in {"open", "closed", "reset"}
    BY <2>2, <2>3, Writes
  <2> QED BY <1>2, <2>4 DEF LinkTypeOK, SendLine
<1>3. CASE Wait("ping", "wait", "judge")
  <2>1. semSerRes' \in 0..MaxPosts
    BY <1>3, LinkAssumption DEF LinkTypeOK, Wait, TakePost
  <2> QED BY <1>3, <2>1 DEF LinkTypeOK, Wait, TakePost
<1>4. CASE LineAnswered
  <2>1. line \in DOMAIN fileLines /\ fileLines[line] \in EventNos
    BY <1>4 DEF LineAnswered, LinkTypeOK, Lines
  <2>2. acked' \subseteq EventNos
    BY <1>4, <2>1 DEF LineAnswered, Judge, LinkTypeOK
  <2>3. line + 1 \in 1..(MaxEvents + 2)
    BY <1>4, LinkAssumption DEF LineAnswered, LinkTypeOK, Lines, EventNos
  <2> QED BY <1>4, <2>2, <2>3 DEF LinkTypeOK, LineAnswered
<1>5. CASE AllSent
  BY <1>5 DEF LinkTypeOK, AllSent
<1>6. CASE RemoveFile
  <2>1. fileThere' = FALSE /\ fileLines' = <<>> /\ <<>> \in Seq(EventNos)
    BY <1>6 DEF RemoveFile, SetFile
  <2> QED BY <1>6, <2>1 DEF LinkTypeOK, RemoveFile, SetFile
<1>7. CASE ClearFlag
  BY <1>7 DEF LinkTypeOK, ClearFlag
<1> QED BY <1>1, <1>2, <1>3, <1>4, <1>5, <1>6, <1>7 DEF SendSteps

LEMMA TypeData == ASSUME LinkTypeInv, DataSteps PROVE LinkTypeOK'
<1> USE DEF LinkTypeInv, flags, answer, wire, file, outside, Moves, Threads
<1>0. event \in EventNos
  BY DEF LinkTypeOK
<1>1. CASE DataStart
  BY <1>1 DEF LinkTypeOK, DataStart
<1>2. CASE DataEvent
  <2>1. event' \in EventNos
    BY <1>2, LinkAssumption DEF DataEvent, LinkTypeOK, EventNos
  <2> QED BY <1>2, <2>1 DEF LinkTypeOK, DataEvent
<1>3. CASE DataCheck
  BY <1>3 DEF LinkTypeOK, DataCheck
<1>4. CASE DataLock
  BY <1>4 DEF LinkTypeOK, DataLock, Take
<1>5. CASE DataWrite
  <2>1. toServer' \in Seq(EventNos) /\ conn' \in {"open", "closed", "reset"}
    BY <1>0, <1>5, Writes DEF DataWrite
  <2> QED BY <1>5, <2>1 DEF LinkTypeOK, DataWrite
<1>6. CASE Wait("data", "wait", "judge")
  <2>1. semSerRes' \in 0..MaxPosts
    BY <1>6, LinkAssumption DEF LinkTypeOK, Wait, TakePost
  <2> QED BY <1>6, <2>1 DEF LinkTypeOK, Wait, TakePost
<1>7. CASE DataAnswered
  BY <1>7 DEF LinkTypeOK, DataAnswered, Judge
<1>8. CASE DataAppend
  <2>1. Append(fileLines, event) \in Seq(EventNos)
    BY <1>0 DEF LinkTypeOK
  <2> QED BY <1>8, <2>1 DEF LinkTypeOK, DataAppend, SetFile
<1>9. CASE SetFlag
  BY <1>9 DEF LinkTypeOK, SetFlag, FileFlagged
<1>10. CASE AppendFails
  BY <1>10 DEF LinkTypeOK, AppendFails, SetFile
<1> QED BY <1>1, <1>2, <1>3, <1>4, <1>5, <1>6, <1>7, <1>8, <1>9, <1>10 DEF DataSteps

LEMMA TypeReader == ASSUME LinkTypeInv, ReaderSteps PROVE LinkTypeOK'
<1> USE DEF LinkTypeInv, flags, answer, wire, file, outside, Moves, Threads
<1>1. ASSUME NEW m, Handle(m) PROVE
        /\ semSerRes' \in 0..MaxPosts /\ serverResponse' \in BOOLEAN
        /\ at' \in [Threads -> Places]
  <2>1. CASE /\ serverResponse' = (m = "ok") /\ semSerRes < MaxPosts
             /\ semSerRes' = semSerRes + 1 /\ at' = at
    <3>1. semSerRes' \in 0..MaxPosts
      BY <2>1, LinkAssumption DEF LinkTypeOK
    <3>2. serverResponse' \in BOOLEAN
      BY <2>1
    <3> QED BY <2>1, <3>1, <3>2 DEF LinkTypeOK, Places
  <2>2. CASE /\ at' = [at EXCEPT !["reader"] = "lock"]
             /\ UNCHANGED <<semSerRes, serverResponse>>
    <3>1. at' \in [Threads -> Places]
      BY <2>2 DEF LinkTypeOK, Places
    <3> QED BY <2>2, <3>1 DEF LinkTypeOK
  <2> QED BY <1>1, <2>1, <2>2 DEF Handle
<1>2. CASE ReaderRead
  <2>1. toDaemon' \in Seq(Answers \cup {"query"})
    <3>1. PICK n \in 1..Len(toDaemon) :
            toDaemon' = SubSeq(toDaemon, n + 1, Len(toDaemon))
      BY <1>2 DEF ReaderRead
    <3>2. n \in Nat /\ \A i \in (n + 1)..Len(toDaemon) : i \in 1..Len(toDaemon)
      OBVIOUS
    <3> QED BY <3>1, <3>2, SubSeqProperties DEF LinkTypeOK
  <2>2. Head(toDaemon) \in Answers \cup {"query"}
    BY <1>2 DEF ReaderRead, LinkTypeOK
  <2>3. /\ semSerRes' \in 0..MaxPosts /\ serverResponse' \in BOOLEAN
        /\ at' \in [Threads -> Places]
    BY <1>1, <1>2 DEF ReaderRead
  <2> QED BY <1>2, <2>1, <2>2, <2>3 DEF LinkTypeOK, ReaderRead, Places
<1>3. CASE ReaderEof
  <2>1. /\ semSerRes' \in 0..MaxPosts /\ serverResponse' \in BOOLEAN
        /\ at' \in [Threads -> Places]
    BY <1>1, <1>3 DEF ReaderEof
  <2> QED BY <1>3, <2>1 DEF LinkTypeOK, ReaderEof, Places
<1>4. CASE ReaderLock
  BY <1>4 DEF LinkTypeOK, ReaderLock, Take
<1>5. CASE ReaderWrite
  <2>1. toServer' = toServer /\ conn' \in {"open", "closed", "reset"}
    BY <1>5 DEF ReaderWrite, Write, LinkTypeOK
  <2> QED BY <1>5, <2>1 DEF LinkTypeOK, ReaderWrite
<1> QED BY <1>2, <1>3, <1>4, <1>5 DEF ReaderSteps

LEMMA TypeOther == ASSUME LinkTypeInv, PingFails \/ Dies \/ OtherSteps PROVE LinkTypeOK'
<1> USE DEF LinkTypeInv, flags, answer, wire, file, outside, Moves, Threads
<1>1. CASE PingFails
  <2>1. served' \in Seq(EventNos)
    <3>1. served \o toServer \in Seq(EventNos) /\ served \in Seq(EventNos)
      BY DEF LinkTypeOK
    <3> QED BY <1>1, <3>1 DEF PingFails, Offline
  <2>4. toServer' = <<>> /\ <<>> \in Seq(EventNos)
        /\ toDaemon' = <<>> /\ <<>> \in Seq(Answers \cup {"query"})
        /\ semSerRes' = semSerRes
    BY <1>1 DEF PingFails, Offline, LinkTypeOK
  <2>2. ghosts' \in 0..MaxOutages
    BY <1>1, LinkAssumption DEF PingFails, Offline, LinkTypeOK, Ghosts, Running
  <2>3. at' \in [Threads -> Places]
    BY <1>1 DEF PingFails, Offline, LinkTypeOK, Places
  <2>5. {serverStatusOk', reconnectServer', haveEvent', serverResponse'} \subseteq BOOLEAN
    BY <1>1 DEF PingFails, Offline, LinkTypeOK
  <2> QED BY <1>1, <2>1, <2>2, <2>3, <2>4, <2>5 DEF LinkTypeOK, PingFails, Offline, Places
<1>2. ASSUME NEW t, NEW from, SigPipe(t, from) PROVE LinkTypeOK'
  BY <1>2 DEF LinkTypeOK, SigPipe, Die
<1>3. CASE GhostLock
  BY <1>3, LinkAssumption DEF LinkTypeOK, GhostLock
<1>4. CASE ServerAnswers
  <2>1. /\ Head(toServer) \in EventNos /\ Tail(toServer) \in Seq(EventNos)
        /\ Append(toDaemon, "ok") \in Seq(Answers \cup {"query"})
        /\ Append(toDaemon, "error") \in Seq(Answers \cup {"query"})
        /\ Append(served, Head(toServer)) \in Seq(EventNos)
    BY <1>4 DEF LinkTypeOK, ServerAnswers, Answers
  <2> QED BY <1>4, <2>1 DEF LinkTypeOK, ServerAnswers
<1>5. CASE ServerAsks
  <2>1. Append(toDaemon, "query") \in Seq(Answers \cup {"query"})
    BY DEF LinkTypeOK
  <2> QED BY <1>5, <2>1, LinkAssumption DEF LinkTypeOK, ServerAsks
<1>6. CASE ServerCloses
  BY <1>6, LinkAssumption DEF LinkTypeOK, ServerCloses
<1>7. CASE HostChanges
  BY <1>7, LinkAssumption DEF LinkTypeOK, HostChanges
<1> QED BY <1>1, <1>2, <1>3, <1>4, <1>5, <1>6, <1>7 DEF Dies, OtherSteps
-------------------------------------------------------------------------------
\* A step of one thread: nobody dies of it, and the others stay where they are.
LEMMA DeadStep ==
  ASSUME LinkTypeInv, [LinkNext]_linkVars PROVE AllDead'
<1> USE DEF LinkTypeInv, AllDead, Moves, Threads
<1>1. CASE PingSteps
  BY <1>1 DEF LinkTypeOK, PingSteps, ConnectOk, ConnectFails, PingOk, SocketInit,
              StartReader, AskFlag, ReadNoFile, Die
<1>2. CASE SendSteps
  BY <1>2 DEF LinkTypeOK, SendSteps, LockToSend, Take, SendLine, Wait, TakePost,
              LineAnswered, AllSent, RemoveFile, SetFile, ClearFlag
<1>3. CASE DataSteps
  BY <1>3 DEF LinkTypeOK, DataSteps, DataStart, DataEvent, DataCheck, DataLock, Take,
              DataWrite, Wait, TakePost, DataAnswered, DataAppend, AppendFails, SetFile,
              SetFlag, FileFlagged
<1>4. CASE Dies
  BY <1>4 DEF Dies, SigPipe, Die
<1>5. CASE PingFails
  BY <1>5 DEF LinkTypeOK, PingFails, Offline
<1>6. CASE ReaderSteps
  BY <1>6 DEF LinkTypeOK, ReaderSteps, ReaderRead, ReaderEof, Handle, ReaderLock, Take,
              ReaderWrite
<1>7. CASE OtherSteps
  BY <1>7 DEF OtherSteps, GhostLock, ServerAnswers, ServerAsks, ServerCloses, HostChanges
<1>8. CASE UNCHANGED linkVars
  BY <1>8 DEF linkVars
<1> QED BY <1>1, <1>2, <1>3, <1>4, <1>5, <1>6, <1>7, <1>8, AllSteps

LEMMA GhostsStep ==
  ASSUME LinkTypeInv, [LinkNext]_linkVars PROVE Ghosts'
<1> USE DEF LinkTypeInv, Ghosts, Running, Moves, Threads, outside
<1>1. CASE PingSteps
  BY <1>1 DEF LinkTypeOK, PingSteps, ConnectOk, ConnectFails, PingOk, SocketInit,
              StartReader, AskFlag, ReadNoFile, Die
<1>2. CASE SendSteps
  BY <1>2 DEF LinkTypeOK, SendSteps, LockToSend, Take, SendLine, Wait, TakePost,
              LineAnswered, AllSent, RemoveFile, SetFile, ClearFlag
<1>3. CASE DataSteps
  BY <1>3 DEF LinkTypeOK, DataSteps, DataStart, DataEvent, DataCheck, DataLock, Take,
              DataWrite, Wait, TakePost, DataAnswered, DataAppend, AppendFails, SetFile,
              SetFlag, FileFlagged
<1>4. CASE Dies
  BY <1>4 DEF LinkTypeOK, Dies, SigPipe, Die
<1>5. CASE PingFails
  BY <1>5 DEF LinkTypeOK, PingFails, Offline
<1>6. CASE ReaderSteps
  BY <1>6 DEF LinkTypeOK, ReaderSteps, ReaderRead, ReaderEof, Handle, ReaderLock, Take,
              ReaderWrite
<1>7. CASE OtherSteps
  BY <1>7 DEF LinkTypeOK, OtherSteps, GhostLock, ServerAnswers, ServerAsks,
              ServerCloses, HostChanges
<1>8. CASE UNCHANGED linkVars
  BY <1>8 DEF linkVars
<1> QED BY <1>1, <1>2, <1>3, <1>4, <1>5, <1>6, <1>7, <1>8, AllSteps

LEMMA LinesStep ==
  ASSUME LinkTypeInv, [LinkNext]_linkVars PROVE Lines'
<1> USE DEF LinkTypeInv, Lines, DataPending, Moves, Threads, file
<1>0. Len(fileLines) \in Nat /\ event \in Nat /\ line \in Nat
  BY LinkAssumption DEF LinkTypeOK, EventNos
<1>1. CASE PingSteps
  <2>1. UNCHANGED <<fileLines, event>>
    BY <1>1 DEF PingSteps, ConnectOk, ConnectFails, PingOk, SocketInit, StartReader,
                AskFlag, ReadNoFile
  <2>2. DataPending' => DataPending
    BY <1>1 DEF LinkTypeOK, PingSteps, ConnectOk, ConnectFails, PingOk, SocketInit,
                StartReader, AskFlag, ReadNoFile, Die
  <2>3. at'["ping"] \notin {"line", "wait", "judge"}
    <3>1. CASE ConnectFails("first") \/ ConnectFails("connect")
      BY <3>1 DEF ConnectFails
    <3>2. CASE ReadNoFile
      BY <3>2 DEF ReadNoFile, Die
    <3> QED BY <1>1, <3>1, <3>2 DEF LinkTypeOK, PingSteps, ConnectOk, PingOk, SocketInit,
                                    StartReader, AskFlag
  <2> QED BY <1>0, <2>1, <2>2, <2>3
<1>2. CASE LockToSend \/ SendLine \/ Wait("ping", "wait", "judge") \/ LineAnswered
           \/ AllSent \/ ClearFlag
  BY <1>0, <1>2 DEF LinkTypeOK, LockToSend, Take, SendLine, MoreLines, Wait, TakePost,
                    LineAnswered, AllSent, ClearFlag
<1>3. CASE RemoveFile
  <2>1. Len(fileLines') = 0
    BY <1>3 DEF RemoveFile, SetFile
  <2> QED BY <1>0, <1>3, <2>1 DEF LinkTypeOK, RemoveFile, SetFile
<1>4. CASE DataAppend
  <2>1. fileLines' = Append(fileLines, event) /\ Len(fileLines') = Len(fileLines) + 1
    BY <1>4 DEF DataAppend, SetFile, LinkTypeOK
  <2> QED BY <1>0, <1>4, <2>1 DEF LinkTypeOK, DataAppend, SetFile
<1>5. CASE DataSteps /\ ~DataAppend
  BY <1>0, <1>5 DEF LinkTypeOK, DataSteps, DataStart, DataEvent, DataCheck, DataLock,
              Take, DataWrite, Wait, TakePost, DataAnswered, AppendFails, SetFile,
              SetFlag, FileFlagged
<1>6. CASE Dies
  BY <1>0, <1>6 DEF LinkTypeOK, AllDead, Dies, SigPipe, Die
<1>7. CASE PingFails
  BY <1>7 DEF LinkTypeOK, PingFails, Offline
<1>8. CASE ReaderSteps
  BY <1>8 DEF LinkTypeOK, ReaderSteps, ReaderRead, ReaderEof, Handle, ReaderLock, Take,
              ReaderWrite
<1>9. CASE OtherSteps
  BY <1>9 DEF OtherSteps, GhostLock, ServerAnswers, ServerAsks, ServerCloses,
              HostChanges
<1>10. CASE UNCHANGED linkVars
  BY <1>10 DEF linkVars
<1> QED BY <1>1, <1>2, <1>3, <1>4, <1>5, <1>6, <1>7, <1>8, <1>9, <1>10, AllSteps
        DEF SendSteps

LEMMA TypeInvStep == LinkTypeInv /\ [LinkNext]_linkVars => LinkTypeInv'
<1> SUFFICES ASSUME LinkTypeInv, [LinkNext]_linkVars PROVE LinkTypeInv'
  OBVIOUS
<1>1. ASSUME UNCHANGED linkVars PROVE LinkTypeOK'
  BY <1>1 DEF linkVars, flags, answer, wire, file, outside, LinkTypeInv, LinkTypeOK
<1>2. LinkTypeOK'
  BY <1>1, TypePing, TypeSend, TypeData, TypeReader, TypeOther, AllSteps DEF LinkTypeInv
<1> QED BY <1>2, DeadStep, GhostsStep, LinesStep DEF LinkTypeInv

(***************************************************************************)
(* The state is well typed for any number of events, outages, closed       *)
(* connections and queries: the line the ping thread sends is in the file, *)
(* and at most one reader for each outage waits, cancelled, for the mutex. *)
(***************************************************************************)
THEOREM LinkTypeCorrect == LinkSpec => []LinkTypeOK
<1>1. LinkTypeInv => LinkTypeOK
  BY DEF LinkTypeInv
<1> QED BY <1>1, TypeInvInit, TypeInvStep, PTL DEF LinkSpec
-------------------------------------------------------------------------------
(* mutex_socket is held from the write to the answer.                      *)
Holding ==
  /\ at["ping"] \in {"line", "wait", "judge"} => mutexSocket = "ping"
  /\ at["data"] \in {"write", "wait", "judge"} => mutexSocket = "data"
  /\ at["reader"] = "write" => mutexSocket = "reader"

LEMMA HoldingInit == LinkInit => Holding
  BY DEF LinkInit, Holding

LEMMA HoldingStep ==
  ASSUME LinkTypeInv, Holding, [LinkNext]_linkVars PROVE Holding'
<1> USE DEF LinkTypeInv, Holding, Moves, Threads
<1>1. CASE PingSteps
  BY <1>1 DEF LinkTypeOK, PingSteps, ConnectOk, ConnectFails, PingOk, SocketInit,
              StartReader, AskFlag, ReadNoFile, Die
<1>2. CASE SendSteps
  BY <1>2 DEF LinkTypeOK, SendSteps, LockToSend, Take, SendLine, Wait, TakePost,
              LineAnswered, AllSent, RemoveFile, SetFile, ClearFlag
<1>3. CASE DataSteps
  BY <1>3 DEF LinkTypeOK, DataSteps, DataStart, DataEvent, DataCheck, DataLock, Take,
              DataWrite, Wait, TakePost, DataAnswered, DataAppend, AppendFails, SetFile,
              SetFlag, FileFlagged
<1>4. CASE Dies
  BY <1>4 DEF Dies, SigPipe, Die
<1>5. CASE PingFails
  BY <1>5 DEF LinkTypeOK, PingFails, Offline
<1>6. CASE ReaderSteps
  BY <1>6 DEF LinkTypeOK, ReaderSteps, ReaderRead, ReaderEof, Handle, ReaderLock, Take,
              ReaderWrite
<1>7. CASE OtherSteps
  BY <1>7 DEF OtherSteps, GhostLock, ServerAnswers, ServerAsks, ServerCloses, HostChanges
<1>8. CASE UNCHANGED linkVars
  BY <1>8 DEF linkVars
<1> QED BY <1>1, <1>2, <1>3, <1>4, <1>5, <1>6, <1>7, <1>8, AllSteps

-------------------------------------------------------------------------------
(* One exchange. While it is under way its thread waits for the answer.    *)
Awaited == at["ping"] = "wait" \/ at["data"] = "wait" \/ at["ping"] = "dead"

OneUnderWay ==
  /\ conn \notin {"eof", "reset"}
  /\ Len(toServer) <= 1 /\ semSerRes <= 1
  /\ \A i, j \in AnswersAt : i = j
  /\ toServer # <<>> => AnswersAt = {} /\ semSerRes = 0
  /\ AnswersAt # {} => semSerRes = 0
  /\ toServer # <<>> \/ AnswersAt # {} \/ semSerRes # 0 => Awaited

Exchange == closes = 0 => OneUnderWay

LEMMA ZeroOrOne ==
  /\ \A n : n = 0 \/ n = 1 => n <= 1
  /\ \A n \in Nat : n <= 1 => n \in {0, 1}
  /\ \A n \in Nat \ {0} : n <= 1 => n = 1
  OBVIOUS

LEMMA ExchangeInit == LinkInit => Exchange
  BY DEF LinkInit, Exchange, OneUnderWay, AnswersAt

\* Nothing under way: whoever is not waiting, but has the mutex, knows that.
LEMMA NothingUnderWay ==
  ASSUME LinkTypeInv, Holding, OneUnderWay,
         \/ at["ping"] \in {"line", "judge"} \/ at["data"] \in {"write", "judge"}
  PROVE  toServer = <<>> /\ AnswersAt = {} /\ semSerRes = 0
<1>1. ~Awaited
  BY DEF Holding, Awaited, LinkTypeInv, AllDead, Threads
<1> QED BY <1>1 DEF OneUnderWay

LEMMA ExchangeStill ==
  ASSUME Exchange, UNCHANGED <<toServer, toDaemon, semSerRes, conn, closes>>,
         Awaited => Awaited'
  PROVE  Exchange'
<1>1. AnswersAt' = AnswersAt
  BY DEF AnswersAt
<1> QED BY <1>1 DEF Exchange, OneUnderWay

LEMMA WroteOne ==
  ASSUME LinkTypeInv, OneUnderWay, toServer = <<>>, AnswersAt = {}, semSerRes = 0,
         NEW e \in EventNos, Write(<<e>>), UNCHANGED <<toDaemon, semSerRes>>, Awaited'
  PROVE  OneUnderWay'
<1>1. AnswersAt' = {}
  BY DEF AnswersAt
<1>2. Len(toServer') <= 1
  <2>1. toServer \in Seq(EventNos) /\ Len(toServer) = 0
    BY DEF LinkTypeInv, LinkTypeOK
  <2>2. toServer' = toServer \/ toServer' = Append(toServer, e)
    BY Writes DEF LinkTypeInv
  <2>3. Len(Append(toServer, e)) = 1
    BY <2>1, AppendProperties
  <2>4. Len(toServer') = 0 \/ Len(toServer') = 1
    BY <2>1, <2>2, <2>3, Zenon
  <2> QED BY <2>4, ZeroOrOne, Zenon
<1>3. conn' \notin {"eof", "reset"}
  BY Writes DEF LinkTypeInv, OneUnderWay, LinkTypeOK
<1> QED BY <1>1, <1>2, <1>3 DEF OneUnderWay

\* The places of the answers after one more message, and after n were read.
LEMMA AnswersAfter ==
  ASSUME toDaemon \in Seq(Answers \cup {"query"})
  PROVE  /\ \A m : toDaemon' = Append(toDaemon, m) =>
              AnswersAt' = AnswersAt \cup (IF m \in Answers THEN {Len(toDaemon) + 1} ELSE {})
         /\ \A n \in 1..Len(toDaemon) :
              toDaemon' = SubSeq(toDaemon, n + 1, Len(toDaemon)) =>
                AnswersAt' = {i \in 1..(Len(toDaemon) - n) : i + n \in AnswersAt}
<1>1. ASSUME NEW m, toDaemon' = Append(toDaemon, m)
      PROVE  AnswersAt' = AnswersAt \cup (IF m \in Answers THEN {Len(toDaemon) + 1} ELSE {})
  <2>1. /\ DOMAIN toDaemon = 1..Len(toDaemon) /\ Len(toDaemon) \in Nat
        /\ DOMAIN toDaemon' = 1..(Len(toDaemon) + 1)
        /\ toDaemon'[Len(toDaemon) + 1] = m
        /\ \A i \in 1..Len(toDaemon) : toDaemon'[i] = toDaemon[i]
    BY <1>1
  <2> DEFINE A == AnswersAt \cup (IF m \in Answers THEN {Len(toDaemon) + 1} ELSE {})
  <2>2. \A i : i \in A => i \in AnswersAt'
    BY <2>1 DEF AnswersAt
  <2>3. \A i : i \in AnswersAt' => i \in A
    BY <2>1 DEF AnswersAt
  <2> QED BY <2>2, <2>3
<1>2. ASSUME NEW n \in 1..Len(toDaemon),
             toDaemon' = SubSeq(toDaemon, n + 1, Len(toDaemon))
      PROVE  AnswersAt' = {i \in 1..(Len(toDaemon) - n) : i + n \in AnswersAt}
  <2>1. /\ DOMAIN toDaemon = 1..Len(toDaemon) /\ Len(toDaemon) \in Nat /\ n \in Nat
        /\ DOMAIN toDaemon' = 1..(Len(toDaemon) - n)
        /\ \A i \in 1..(Len(toDaemon) - n) : toDaemon'[i] = toDaemon[i + n]
    BY <1>2
  <2> QED BY <2>1 DEF AnswersAt
<1> QED BY <1>1, <1>2

LEMMA ExchangePing == ASSUME LinkTypeInv, Exchange, PingSteps PROVE Exchange'
<1> USE DEF LinkTypeInv, Moves, Threads, wire, answer, outside
<1>1. CASE PingSteps /\ ~SocketInit /\ conn' = conn
  <2>1. UNCHANGED <<toServer, toDaemon, semSerRes, conn, closes>>
    BY <1>1 DEF PingSteps, ConnectOk, ConnectFails, PingOk, StartReader, AskFlag,
                ReadNoFile
  <2>2. Awaited => Awaited'
    BY <1>1 DEF Awaited, LinkTypeOK, PingSteps, ConnectOk, ConnectFails, PingOk,
                StartReader, AskFlag, ReadNoFile, Die
  <2> QED BY <2>1, <2>2, ExchangeStill
<1>2. CASE PingSteps /\ (SocketInit \/ conn' # conn)
  <2>1. /\ UNCHANGED <<toServer, toDaemon, semSerRes, closes>>
        /\ conn' \in {"open", "fresh"}
    BY <1>2 DEF PingSteps, ConnectOk, ConnectFails, PingOk, SocketInit,
                StartReader, AskFlag, ReadNoFile
  <2>2. Awaited => Awaited'
    BY <1>2 DEF Awaited, LinkTypeOK, PingSteps, ConnectOk, ConnectFails, PingOk,
                SocketInit, StartReader, AskFlag, ReadNoFile, Die
  <2>3. AnswersAt' = AnswersAt
    BY <2>1 DEF AnswersAt
  <2> QED BY <2>1, <2>2, <2>3 DEF Exchange, OneUnderWay
<1> QED BY <1>1, <1>2

LEMMA ExchangeSend ==
  ASSUME LinkTypeInv, Holding, Exchange, SendSteps \/ DataSteps PROVE Exchange'
<1> USE DEF LinkTypeInv, Moves, Threads, wire, answer, outside
<1>0. closes' = closes
  BY DEF SendSteps, DataSteps, LockToSend, SendLine, Wait, TakePost, LineAnswered,
         AllSent, RemoveFile, SetFile, ClearFlag, DataStart, DataEvent, DataCheck,
         DataLock, DataWrite, DataAnswered, DataAppend, AppendFails, SetFlag, FileFlagged
<1>1. CASE SendLine
  <2>1. line \in DOMAIN fileLines /\ fileLines[line] \in EventNos
    BY <1>1 DEF SendLine, MoreLines, LinkTypeOK
  <2>2. /\ Write(<<fileLines[line]>>) /\ UNCHANGED <<toDaemon, semSerRes>> /\ Awaited'
        /\ at["ping"] = "line"
    BY <1>1 DEF SendLine, Awaited, LinkTypeOK
  <2> QED BY <1>0, <2>1, <2>2, NothingUnderWay, WroteOne DEF Exchange
<1>2. CASE DataWrite
  <2>1. /\ Write(<<event>>) /\ UNCHANGED <<toDaemon, semSerRes>> /\ Awaited'
        /\ at["data"] = "write" /\ event \in EventNos
    BY <1>2 DEF DataWrite, Awaited, LinkTypeOK
  <2> QED BY <1>0, <2>1, NothingUnderWay, WroteOne DEF Exchange
<1>3. CASE Wait("ping", "wait", "judge") \/ Wait("data", "wait", "judge")
  <2>1. UNCHANGED <<toServer, toDaemon, conn>> /\ semSerRes > 0 /\ semSerRes' = semSerRes - 1
    BY <1>3 DEF Wait, TakePost
  <2>2. AnswersAt' = AnswersAt
    BY <2>1 DEF AnswersAt
  <2>3. semSerRes \in Nat
    BY LinkAssumption DEF LinkTypeOK
  <2>4. ASSUME OneUnderWay PROVE OneUnderWay'
    <3>1. semSerRes = 1 /\ semSerRes' = 0 /\ toServer = <<>> /\ AnswersAt = {}
      BY <2>1, <2>3, <2>4 DEF OneUnderWay
    <3> QED BY <2>1, <2>2, <2>4, <3>1 DEF OneUnderWay
  <2> QED BY <1>0, <2>4 DEF Exchange
<1>4. CASE SendSteps /\ ~SendLine /\ ~Wait("ping", "wait", "judge")
  <2>1. UNCHANGED <<toServer, toDaemon, semSerRes, conn>>
    BY <1>4 DEF SendSteps, LockToSend, LineAnswered, AllSent, RemoveFile, SetFile,
                ClearFlag
  <2>2. Awaited => Awaited'
    BY <1>4 DEF Awaited, LinkTypeOK, SendSteps, LockToSend, Take, LineAnswered, AllSent,
                RemoveFile, SetFile, ClearFlag
  <2> QED BY <1>0, <2>1, <2>2, ExchangeStill
<1>5. CASE DataSteps /\ ~DataWrite /\ ~Wait("data", "wait", "judge")
  <2>1. UNCHANGED <<toServer, toDaemon, semSerRes, conn>>
    BY <1>5 DEF DataSteps, DataStart, DataEvent, DataCheck, DataLock, DataAnswered,
                DataAppend, AppendFails, SetFile, SetFlag, FileFlagged
  <2>2. Awaited => Awaited'
    BY <1>5 DEF Awaited, LinkTypeOK, DataSteps, DataStart, DataEvent, DataCheck,
                DataLock, Take, DataAnswered, DataAppend, AppendFails, SetFile, SetFlag, FileFlagged
  <2> QED BY <1>0, <2>1, <2>2, ExchangeStill
<1> QED BY <1>1, <1>2, <1>3, <1>4, <1>5

LEMMA ExchangeReader ==
  ASSUME LinkTypeInv, Exchange, ReaderSteps PROVE Exchange'
<1> USE DEF LinkTypeInv, Moves, Threads, wire, answer, outside
<1>0. closes' = closes
  BY DEF ReaderSteps, ReaderRead, ReaderEof, ReaderLock, ReaderWrite
<1>1. CASE ReaderRead
  <2> SUFFICES ASSUME OneUnderWay PROVE OneUnderWay'
    BY <1>0 DEF Exchange
  <2>1. PICK n \in 1..Len(toDaemon) :
          toDaemon' = SubSeq(toDaemon, n + 1, Len(toDaemon))
    BY <1>1 DEF ReaderRead
  <2>2. AnswersAt' = {i \in 1..(Len(toDaemon) - n) : i + n \in AnswersAt}
    BY <2>1, AnswersAfter DEF LinkTypeOK
  <2>3. \A i, j \in AnswersAt' : i = j
    BY <2>2 DEF OneUnderWay
  <2>4. /\ UNCHANGED <<toServer, conn>> /\ Handle(Head(toDaemon))
        /\ Len(toDaemon) \in Nat /\ Len(toDaemon) >= 1 /\ n \in Nat /\ n >= 1
        /\ Head(toDaemon) = toDaemon[1] /\ semSerRes \in Nat
    BY <1>1, LinkAssumption DEF ReaderRead, LinkTypeOK
  <2>5. Awaited => Awaited'
    BY <1>1 DEF Awaited, ReaderRead, Handle, LinkTypeOK
  <2>6. CASE toDaemon[1] \in Answers
    <3>1. 1 \in AnswersAt
      BY <2>4, <2>6 DEF AnswersAt, LinkTypeOK
    <3>2. \A i \in AnswersAt : i = 1
      BY <3>1 DEF OneUnderWay
    <3>3. AnswersAt' = {}
      BY <2>2, <2>4, <3>2
    <3>4. semSerRes = 0 /\ toServer = <<>> /\ Awaited
      BY <3>1 DEF OneUnderWay
    <3>5. semSerRes' = 1
      BY <2>4, <2>6, <3>4 DEF Handle, Answers
    <3> QED BY <2>4, <2>5, <3>3, <3>4, <3>5 DEF OneUnderWay
  <2>7. CASE toDaemon[1] \notin Answers
    <3>1. semSerRes' = semSerRes
      BY <2>4, <2>7 DEF Handle
    <3>2. AnswersAt' # {} => AnswersAt # {}
      BY <2>2
    <3> QED BY <2>3, <2>4, <2>5, <3>1, <3>2 DEF OneUnderWay
  <2> QED BY <2>6, <2>7
<1>2. CASE ReaderEof
  <2>1. closes # 0
    BY <1>2 DEF ReaderEof, Exchange, OneUnderWay
  <2> QED BY <1>0, <2>1 DEF Exchange
<1>3. CASE ReaderLock
  <2>1. Awaited => Awaited'
    BY <1>3 DEF Awaited, ReaderLock, Take, LinkTypeOK
  <2> QED BY <1>0, <1>3, <2>1, ExchangeStill DEF ReaderLock
<1>4. CASE ReaderWrite
  <2>1. Awaited => Awaited'
    BY <1>4 DEF Awaited, ReaderWrite, LinkTypeOK
  <2>2. toServer' = toServer /\ UNCHANGED <<toDaemon, semSerRes>>
    BY <1>4 DEF ReaderWrite, Write, LinkTypeOK
  <2>3. OneUnderWay => conn' = conn
    BY <1>4 DEF ReaderWrite, Write, OneUnderWay
  <2>4. AnswersAt' = AnswersAt
    BY <2>2 DEF AnswersAt
  <2> QED BY <1>0, <2>1, <2>2, <2>3, <2>4 DEF Exchange, OneUnderWay
<1> QED BY <1>1, <1>2, <1>3, <1>4 DEF ReaderSteps

LEMMA ExchangeOther ==
  ASSUME LinkTypeInv, Exchange, PingFails \/ Dies \/ OtherSteps PROVE Exchange'
<1> USE DEF LinkTypeInv, Moves, Threads, wire, answer, outside
<1>1. CASE PingFails
  <2>1. /\ closes' = closes /\ toServer' = <<>> /\ toDaemon' = <<>>
        /\ semSerRes' = semSerRes /\ conn' \in {conn, "closed"}
    BY <1>1 DEF PingFails, Offline, LinkTypeOK
  <2>2. AnswersAt' = {} /\ Len(toServer') = 0
    BY <2>1 DEF AnswersAt
  <2>3. Awaited => Awaited'
    BY <1>1 DEF Awaited, PingFails, Offline, LinkTypeOK
  <2> QED BY <2>1, <2>2, <2>3 DEF Exchange, OneUnderWay
<1>2. CASE Dies
  <2>1. /\ UNCHANGED <<toServer, toDaemon, semSerRes, conn, closes>> /\ Awaited'
    BY <1>2 DEF Dies, SigPipe, Die, Awaited
  <2> QED BY <2>1, ExchangeStill
<1>3. CASE GhostLock \/ HostChanges
  <2>1. /\ UNCHANGED <<toServer, toDaemon, semSerRes, conn, closes, at>>
    BY <1>3 DEF GhostLock, HostChanges
  <2> QED BY <2>1, ExchangeStill DEF Awaited
<1>4. CASE ServerAnswers
  <2> SUFFICES ASSUME OneUnderWay PROVE OneUnderWay'
    BY <1>4 DEF Exchange, ServerAnswers
  <2>1. /\ toServer # <<>> /\ toServer' = Tail(toServer) /\ UNCHANGED <<at, semSerRes, conn>>
    BY <1>4 DEF ServerAnswers
  <2>2. Len(toServer) = 1 /\ toServer' = <<>> /\ Len(toServer') = 0
    <3>1. toServer \in Seq(EventNos) /\ Len(toServer) <= 1
      BY DEF LinkTypeOK, OneUnderWay
    <3>2. Len(toServer) \in Nat \ {0}
      BY <2>1, <3>1, EmptySeq, Zenon
    <3>3. Len(toServer) = 1
      BY <3>1, <3>2, ZeroOrOne, Zenon
    <3>4. Tail(toServer) \in Seq(EventNos) /\ Len(Tail(toServer)) = 0
      BY <2>1, <3>1, <3>3
    <3> QED BY <2>1, <3>3, <3>4
  <2>3. AnswersAt = {} /\ semSerRes = 0 /\ Awaited
    BY <2>1 DEF OneUnderWay
  <2>4. PICK m \in Answers : toDaemon' = Append(toDaemon, m)
    BY <1>4 DEF ServerAnswers, Answers
  <2>5. AnswersAt' = {Len(toDaemon) + 1}
    BY <2>3, <2>4, AnswersAfter DEF LinkTypeOK
  <2> QED BY <2>1, <2>2, <2>3, <2>5 DEF OneUnderWay, Awaited
<1>5. CASE ServerAsks
  <2>1. UNCHANGED <<toServer, semSerRes, conn, closes, at>>
        /\ toDaemon' = Append(toDaemon, "query")
    BY <1>5 DEF ServerAsks
  <2>2. AnswersAt' = AnswersAt
    <3>1. "query" \notin Answers
      BY DEF Answers
    <3>2. AnswersAt' = AnswersAt \cup {}
      BY <2>1, <3>1, AnswersAfter DEF LinkTypeOK
    <3> QED BY <3>2
  <2> QED BY <2>1, <2>2 DEF Exchange, OneUnderWay, Awaited
<1>6. CASE ServerCloses
  <2>1. closes' # 0
    BY <1>6, LinkAssumption DEF ServerCloses, LinkTypeOK
  <2> QED BY <2>1 DEF Exchange
<1> QED BY <1>1, <1>2, <1>3, <1>4, <1>5, <1>6 DEF OtherSteps

LEMMA ExchangeStep ==
  ASSUME LinkTypeInv, Holding, Exchange, [LinkNext]_linkVars PROVE Exchange'
<1>1. CASE UNCHANGED linkVars
  BY <1>1, ExchangeStill DEF linkVars, wire, answer, outside, Awaited
<1> QED BY <1>1, ExchangePing, ExchangeSend, ExchangeReader, ExchangeOther, AllSteps

(***************************************************************************)
(* While the server does not close the connection, there is never more     *)
(* than one event, answer or untaken post under way, for any number of     *)
(* events, outages and queries: whoever is woken has its own answer.       *)
(***************************************************************************)
THEOREM OneExchangeCorrect == LinkSpec => []OneExchange
<1>1. LinkTypeInv /\ Exchange => OneExchange
  <2> SUFFICES ASSUME LinkTypeInv, OneUnderWay
               PROVE  Len(toServer) + Cardinality(AnswersAt) + semSerRes <= 1
    BY DEF Exchange, OneExchange
  <2>1. AnswersAt = {} \/ \E i : AnswersAt = {i}
    BY DEF OneUnderWay
  <2>2. /\ Cardinality(AnswersAt) \in {0, 1}
        /\ Cardinality(AnswersAt) = 0 \/ AnswersAt # {}
    BY <2>1, FS_EmptySet, FS_Singleton
  <2>3. Len(toServer) \in {0, 1} /\ (Len(toServer) = 0 \/ toServer # <<>>)
        /\ semSerRes \in {0, 1}
    <3>1. toServer \in Seq(EventNos) /\ Len(toServer) \in Nat /\ semSerRes \in Nat
      BY LinkAssumption DEF LinkTypeInv, LinkTypeOK
    <3>2. Len(toServer) <= 1 /\ semSerRes <= 1
      BY DEF OneUnderWay
    <3>3. Len(toServer) \in Nat \ {0} \/ toServer = <<>>
      BY <3>1, EmptySeq, Zenon
    <3> QED BY <3>1, <3>2, <3>3, ZeroOrOne, EmptySeq, Zenon
  <2> QED BY <2>2, <2>3 DEF OneUnderWay
<1> QED BY <1>1, TypeInvInit, TypeInvStep, HoldingInit, HoldingStep, ExchangeInit,
           ExchangeStep, PTL DEF LinkSpec
-------------------------------------------------------------------------------
(* The answer is to the event of the thread that waits for it.             *)
Own(t) == IF t = "ping" THEN fileLines[line] ELSE event
Good == \E i \in DOMAIN toDaemon : toDaemon[i] = "ok"

Belongs(t) ==
  /\ at[t] = "wait" =>
       /\ \A i \in DOMAIN toServer : toServer[i] = Own(t)
       /\ Good \/ (semSerRes # 0 /\ serverResponse) => Own(t) \in ToSet(served)
  /\ at[t] = "judge" /\ serverResponse => Own(t) \in ToSet(served)

Belonging ==
  closes = 0 => /\ acked \subseteq ToSet(served)
                /\ Belongs("ping") /\ Belongs("data")

LEMMA ToSetAppends ==
  ASSUME NEW S, NEW s \in Seq(S), NEW e \in S
  PROVE  /\ ToSet(Append(s, e)) = ToSet(s) \cup {e}
         /\ DOMAIN Append(s, e) = 1..(Len(s) + 1) /\ DOMAIN s = 1..Len(s)
         /\ Len(s) \in Nat /\ Append(s, e)[Len(s) + 1] = e
         /\ \A i \in 1..Len(s) : Append(s, e)[i] = s[i]
<1> DEFINE z == Append(s, e)
<1>1. /\ DOMAIN z = 1..(Len(s) + 1) /\ DOMAIN s = 1..Len(s) /\ Len(s) \in Nat
      /\ z[Len(s) + 1] = e /\ \A i \in 1..Len(s) : z[i] = s[i]
  OBVIOUS
<1> HIDE DEF z
<1>2. \A x : x \in ToSet(s) \cup {e} => x \in ToSet(z)
  BY <1>1 DEF ToSet
<1>3. \A x : x \in ToSet(z) => x \in ToSet(s) \cup {e}
  BY <1>1 DEF ToSet
<1>4. ToSet(z) = ToSet(s) \cup {e}
  BY <1>2, <1>3
<1> QED BY <1>1, <1>4 DEF z

LEMMA ToSetConcats ==
  ASSUME NEW S, NEW s \in Seq(S), NEW u \in Seq(S)
  PROVE  ToSet(s \o u) = ToSet(s) \cup ToSet(u)
<1> DEFINE z == s \o u
<1>1. /\ DOMAIN z = 1..(Len(s) + Len(u)) /\ DOMAIN s = 1..Len(s) /\ DOMAIN u = 1..Len(u)
      /\ Len(s) \in Nat /\ Len(u) \in Nat
      /\ \A i \in 1..Len(s) : z[i] = s[i]
      /\ \A i \in 1..Len(u) : z[Len(s) + i] = u[i]
      /\ \A i \in 1..Len(u) : Len(s) + i \in 1..(Len(s) + Len(u))
      /\ \A i \in 1..(Len(s) + Len(u)) : i \in 1..Len(s) \/ i - Len(s) \in 1..Len(u)
      /\ \A i \in 1..(Len(s) + Len(u)) : i = Len(s) + (i - Len(s))
  OBVIOUS
<1> HIDE DEF z
<1>2. \A x : x \in ToSet(s) \cup ToSet(u) => x \in ToSet(z)
  <2>1. ASSUME NEW i \in DOMAIN s PROVE s[i] \in ToSet(z)
    <3>1. i \in DOMAIN z /\ z[i] = s[i]
      BY <1>1
    <3> QED BY <3>1 DEF ToSet
  <2>2. ASSUME NEW i \in DOMAIN u PROVE u[i] \in ToSet(z)
    <3>1. Len(s) + i \in DOMAIN z /\ z[Len(s) + i] = u[i]
      BY <1>1
    <3> QED BY <3>1 DEF ToSet
  <2> QED BY <2>1, <2>2 DEF ToSet
<1>3. \A x : x \in ToSet(z) => x \in ToSet(s) \cup ToSet(u)
  <2> SUFFICES ASSUME NEW i \in DOMAIN z PROVE z[i] \in ToSet(s) \cup ToSet(u)
    BY DEF ToSet
  <2>1. CASE i \in 1..Len(s)
    BY <1>1, <2>1 DEF ToSet
  <2>2. CASE i - Len(s) \in 1..Len(u)
    <3>1. z[i] = u[i - Len(s)]
      BY <1>1, <2>2
    <3> QED BY <1>1, <2>2, <3>1 DEF ToSet
  <2> QED BY <1>1, <2>1, <2>2
<1> QED BY <1>2, <1>3 DEF z

LEMMA BelongingInit == LinkInit => Belonging
  BY DEF LinkInit, Belonging, Belongs

\* Steps that leave the exchange where it is.
LEMMA BelongsStill ==
  ASSUME NEW t, Belongs(t),
         at'[t] = at[t] \/ at'[t] \notin {"wait", "judge"},
         at[t] \in {"wait", "judge"} => Own(t)' = Own(t),
         ToSet(served) \subseteq ToSet(served'),
         UNCHANGED <<toServer, toDaemon, semSerRes, serverResponse>>
  PROVE  Belongs(t)'
<1>1. Good' = Good
  BY DEF Good
<1>2. CASE at'[t] \notin {"wait", "judge"}
  BY <1>2 DEF Belongs
<1>3. CASE at'[t] = at[t] /\ at[t] \in {"wait", "judge"}
  <2>1. Own(t)' = Own(t) /\ (Own(t) \in ToSet(served) => Own(t) \in ToSet(served'))
    BY <1>3
  <2> QED BY <1>1, <1>3, <2>1 DEF Belongs
<1> QED BY <1>2, <1>3

\* The event of a thread in the exchange stays what it is.
LEMMA OwnStill ==
  ASSUME LinkTypeInv, [LinkNext]_linkVars, ~LineAnswered
  PROVE  /\ at["ping"] \in {"wait", "judge"} => Own("ping")' = Own("ping")
         /\ at["data"] \in {"wait", "judge"} => Own("data")' = Own("data")
<1> USE DEF LinkTypeInv, Moves, Threads, file
<1>1. ASSUME at["ping"] \in {"wait", "judge"} PROVE fileLines'[line'] = fileLines[line]
  <2>1. line \in 1..Len(fileLines) /\ event \in EventNos /\ fileLines \in Seq(EventNos)
    BY <1>1 DEF Lines, LinkTypeOK
  <2>2. CASE DataAppend
    <3>1. fileLines' = Append(fileLines, event) /\ line' = line
      BY <2>2 DEF DataAppend, AppendFails, SetFile
    <3>2. Append(fileLines, event)[line] = fileLines[line]
      BY <2>1, AppendProperties
    <3> QED BY <3>1, <3>2
  <2>3. CASE PingSteps \/ PingFails
    BY <1>1, <2>3 DEF PingSteps, ConnectOk, ConnectFails, PingOk, SocketInit,
       StartReader, AskFlag, ReadNoFile, PingFails, Offline
  <2>4. CASE SendSteps
    BY <1>1, <2>4 DEF SendSteps, LockToSend, Take, SendLine, Wait, TakePost,
       AllSent, RemoveFile, SetFile, ClearFlag
  <2>5. CASE DataSteps /\ ~DataAppend
    BY <2>5 DEF DataSteps, DataStart, DataEvent, DataCheck, DataLock, DataWrite,
       Wait, TakePost, DataAnswered, AppendFails, SetFile, SetFlag, FileFlagged
  <2>6. CASE Dies \/ ReaderSteps \/ OtherSteps \/ UNCHANGED linkVars
    BY <2>6 DEF Dies, SigPipe, ReaderSteps, ReaderRead, ReaderEof, ReaderLock,
       ReaderWrite, OtherSteps, GhostLock, ServerAnswers, ServerAsks, ServerCloses,
       HostChanges, linkVars
  <2> QED BY <2>2, <2>3, <2>4, <2>5, <2>6, AllSteps
<1>2. ASSUME at["data"] \in {"wait", "judge"} PROVE event' = event
  <2>1. CASE DataSteps
    BY <1>2, <2>1 DEF DataSteps, DataStart, DataEvent, DataCheck, DataLock, DataWrite,
       Wait, TakePost, DataAnswered, DataAppend, AppendFails, SetFile, SetFlag, FileFlagged
  <2>2. CASE PingSteps \/ PingFails
    BY <2>2 DEF PingSteps, ConnectOk, ConnectFails, PingOk, SocketInit,
       StartReader, AskFlag, ReadNoFile, PingFails, Offline
  <2>3. CASE SendSteps
    BY <2>3 DEF SendSteps, LockToSend, SendLine, Wait, TakePost, LineAnswered,
       AllSent, RemoveFile, SetFile, ClearFlag
  <2>4. CASE Dies \/ ReaderSteps \/ OtherSteps \/ UNCHANGED linkVars
    BY <2>4 DEF Dies, SigPipe, ReaderSteps, ReaderRead, ReaderEof, ReaderLock,
       ReaderWrite, OtherSteps, GhostLock, ServerAnswers, ServerAsks, ServerCloses,
       HostChanges, linkVars
  <2> QED BY <2>1, <2>2, <2>3, <2>4, AllSteps
<1> QED BY <1>1, <1>2 DEF Own

LEMMA BelongingPing ==
  ASSUME LinkTypeInv, Belonging, [LinkNext]_linkVars, PingSteps \/ Dies
  PROVE  Belonging'
<1> USE DEF LinkTypeInv, Moves, Threads, answer, wire, outside
<1>1. UNCHANGED <<closes, acked, served, toServer, toDaemon, semSerRes, serverResponse>>
  BY DEF PingSteps, ConnectOk, ConnectFails, PingOk, SocketInit, StartReader,
     AskFlag, ReadNoFile, Dies, SigPipe
<1>2. ASSUME NEW t \in {"ping", "data"}
      PROVE  at'[t] = at[t] \/ at'[t] \notin {"wait", "judge"}
  BY <1>2 DEF LinkTypeOK, PingSteps, ConnectOk, ConnectFails, PingOk, SocketInit,
     StartReader, AskFlag, ReadNoFile, Dies, SigPipe, Die
<1>3. ~LineAnswered
  BY <1>2 DEF PingSteps, Dies, ConnectOk, ConnectFails, PingOk, SocketInit,
     StartReader, AskFlag, ReadNoFile, SigPipe, Die, LineAnswered, LinkTypeOK
<1>4. ToSet(served) \subseteq ToSet(served')
  BY <1>1
<1> QED BY <1>1, <1>2, <1>3, <1>4, OwnStill, BelongsStill DEF Belonging

LEMMA BelongingSend ==
  ASSUME LinkTypeInv, Holding, Exchange, Belonging, [LinkNext]_linkVars, SendSteps \/ DataSteps
  PROVE  Belonging'
<1> USE DEF LinkTypeInv, Moves, Threads, answer, wire, outside
<1>0. UNCHANGED <<closes, served, toDaemon>>
  BY DEF SendSteps, DataSteps, LockToSend, SendLine, Wait, TakePost, LineAnswered,
     AllSent, RemoveFile, SetFile, ClearFlag, DataStart, DataEvent, DataCheck,
     DataLock, DataWrite, DataAnswered, DataAppend, AppendFails, SetFlag, FileFlagged
<1> SUFFICES ASSUME closes = 0
             PROVE  /\ acked' \subseteq ToSet(served')
                    /\ Belongs("ping")' /\ Belongs("data")'
  BY <1>0 DEF Belonging
<1>a. /\ ToSet(served) \subseteq ToSet(served')
      /\ acked \subseteq ToSet(served) /\ Belongs("ping") /\ Belongs("data")
      /\ OneUnderWay
  BY <1>0 DEF Belonging, Exchange
<1>1. CASE SendLine
  <2>1. line \in DOMAIN fileLines /\ fileLines[line] \in EventNos
    BY <1>1 DEF SendLine, MoreLines, LinkTypeOK
  <2>2. /\ Write(<<fileLines[line]>>) /\ at["ping"] = "line" /\ at'["ping"] = "wait"
        /\ at'["data"] = at["data"] /\ Own("ping")' = fileLines[line]
        /\ UNCHANGED <<acked, semSerRes, serverResponse>>
    BY <1>1 DEF SendLine, LinkTypeOK, Own, file
  <2>3. toServer = <<>> /\ AnswersAt = {} /\ semSerRes = 0
    BY <2>2, <1>a, NothingUnderWay
  <2>4. ~Good' /\ ~Good
    BY <1>0, <2>3 DEF Good, AnswersAt, Answers
  <2>5. toServer' = toServer \/ toServer' = Append(toServer, fileLines[line])
    BY <2>1, <2>2, Writes
  <2>6. \A i \in DOMAIN toServer' : toServer'[i] = fileLines[line]
    <3>1. DOMAIN toServer = {} /\ toServer \in Seq(EventNos) /\ Len(toServer) = 0
      BY <2>3 DEF LinkTypeOK
    <3>2. DOMAIN Append(toServer, fileLines[line]) = 1..1
          /\ Append(toServer, fileLines[line])[1] = fileLines[line]
      BY <2>1, <3>1, ToSetAppends
    <3>3. CASE toServer' = toServer
      BY <3>1, <3>3
    <3>4. CASE toServer' = Append(toServer, fileLines[line])
      BY <3>2, <3>4
    <3> QED BY <2>5, <3>3, <3>4
  <2>7. at["data"] \notin {"wait", "judge"}
    BY <2>2 DEF Holding
  <2> QED BY <1>a, <2>2, <2>3, <2>4, <2>6, <2>7, <1>0 DEF Belongs
<1>2. CASE DataWrite
  <2>2. /\ Write(<<event>>) /\ at["data"] = "write" /\ at'["data"] = "wait"
        /\ at'["ping"] = at["ping"] /\ Own("data")' = event /\ event \in EventNos
        /\ UNCHANGED <<acked, semSerRes, serverResponse>>
    BY <1>2 DEF DataWrite, LinkTypeOK, Own
  <2>3. toServer = <<>> /\ AnswersAt = {} /\ semSerRes = 0
    BY <2>2, <1>a, NothingUnderWay
  <2>4. ~Good' /\ ~Good
    BY <1>0, <2>3 DEF Good, AnswersAt, Answers
  <2>5. toServer' = toServer \/ toServer' = Append(toServer, event)
    BY <2>2, Writes
  <2>6. \A i \in DOMAIN toServer' : toServer'[i] = event
    <3>1. DOMAIN toServer = {} /\ toServer \in Seq(EventNos) /\ Len(toServer) = 0
      BY <2>3 DEF LinkTypeOK
    <3>2. DOMAIN Append(toServer, event) = 1..1
          /\ Append(toServer, event)[1] = event
      BY <2>2, <3>1, ToSetAppends
    <3> QED BY <2>5, <3>1, <3>2
  <2>7. at["ping"] \notin {"wait", "judge"}
    BY <2>2 DEF Holding
  <2> QED BY <1>a, <2>2, <2>3, <2>4, <2>6, <2>7, <1>0 DEF Belongs
<1>3. ASSUME NEW t \in {"ping", "data"}, Wait(t, "wait", "judge")
      PROVE  /\ acked' \subseteq ToSet(served')
             /\ Belongs("ping")' /\ Belongs("data")'
  <2>1. /\ at[t] = "wait" /\ at'[t] = "judge" /\ semSerRes > 0
        /\ \A u \in Threads \ {t} : at'[u] = at[u]
        /\ UNCHANGED <<acked, toServer, serverResponse, fileLines, line, event>>
    BY <1>3 DEF Wait, TakePost, LinkTypeOK, file
  <2>2. UNCHANGED <<Own("ping"), Own("data")>>
    BY <2>1 DEF Own
  <2>3. serverResponse => Own(t) \in ToSet(served)
    BY <1>a, <1>3, <2>1 DEF Belongs
  <2>4. Belongs(t)'
    BY <1>0, <1>3, <2>1, <2>2, <2>3 DEF Belongs
  <2>5. ASSUME NEW u \in {"ping", "data"} \ {t} PROVE Belongs(u)'
    <3>1. at'[u] \notin {"wait", "judge"}
      BY <1>3, <2>1, <2>5 DEF Holding
    <3> QED BY <3>1 DEF Belongs
  <2> QED BY <1>3, <1>a, <1>0, <2>1, <2>4, <2>5
<1>4. CASE LineAnswered
  <2>1. /\ at["ping"] = "judge" /\ at'["ping"] = "line" /\ at'["data"] = at["data"]
        /\ acked' = IF serverResponse THEN acked \cup {Own("ping")} ELSE acked
        /\ UNCHANGED <<toServer, semSerRes, serverResponse, event>>
    BY <1>4 DEF LineAnswered, Judge, LinkTypeOK, Own
  <2>2. acked' \subseteq ToSet(served')
    BY <1>0, <1>a, <2>1 DEF Belongs
  <2>3. at["data"] \notin {"wait", "judge"}
    BY <2>1 DEF Holding
  <2> QED BY <1>a, <2>1, <2>2, <2>3 DEF Belongs
<1>5. CASE DataAnswered
  <2>1. /\ at["data"] = "judge" /\ at'["data"] = "idle" /\ at'["ping"] = at["ping"]
        /\ acked' = IF serverResponse THEN acked \cup {Own("data")} ELSE acked
    BY <1>5 DEF DataAnswered, Judge, LinkTypeOK, Own
  <2>2. acked' \subseteq ToSet(served')
    BY <1>0, <1>a, <2>1 DEF Belongs
  <2>3. at["ping"] \notin {"wait", "judge"}
    BY <2>1 DEF Holding
  <2> QED BY <1>a, <2>1, <2>2, <2>3 DEF Belongs
<1>6. CASE SendSteps /\ ~SendLine /\ ~LineAnswered /\ ~Wait("ping", "wait", "judge")
  <2>1. UNCHANGED <<acked, toServer, semSerRes, serverResponse>>
    BY <1>6 DEF SendSteps, LockToSend, AllSent, RemoveFile, SetFile, ClearFlag
  <2>2. ASSUME NEW t \in {"ping", "data"}
        PROVE  at'[t] = at[t] \/ at'[t] \notin {"wait", "judge"}
    BY <1>6 DEF LinkTypeOK, SendSteps, LockToSend, Take, AllSent, RemoveFile, SetFile,
                ClearFlag
  <2> QED BY <1>6, <1>a, <2>1, <2>2, <1>0, OwnStill, BelongsStill
<1>7. CASE DataSteps /\ ~DataWrite /\ ~DataAnswered /\ ~Wait("data", "wait", "judge")
  <2>1. UNCHANGED <<acked, toServer, semSerRes, serverResponse>>
    BY <1>7 DEF DataSteps, DataStart, DataEvent, DataCheck, DataLock, DataAppend, AppendFails,
                SetFile, SetFlag, FileFlagged
  <2>2. ASSUME NEW t \in {"ping", "data"}
        PROVE  at'[t] = at[t] \/ at'[t] \notin {"wait", "judge"}
    BY <1>7 DEF LinkTypeOK, DataSteps, DataStart, DataEvent, DataCheck, DataLock, Take,
                DataAppend, AppendFails, SetFile, SetFlag, FileFlagged
  <2>3. ~LineAnswered
    BY <1>7 DEF DataSteps, DataStart, DataEvent, DataCheck, DataLock, Take,
                DataAppend, AppendFails, SetFile, SetFlag, FileFlagged, LineAnswered, LinkTypeOK
  <2> QED BY <1>7, <1>a, <2>1, <2>2, <2>3, <1>0, OwnStill, BelongsStill
<1> QED BY <1>1, <1>2, <1>3, <1>4, <1>5, <1>6, <1>7

LEMMA BelongingReader ==
  ASSUME LinkTypeInv, Holding, Exchange, Belonging, [LinkNext]_linkVars, ReaderSteps
  PROVE  Belonging'
<1> USE DEF LinkTypeInv, Moves, Threads, answer, wire, outside
<1>0. /\ UNCHANGED <<closes, served, acked>> /\ ~LineAnswered
      /\ at'["ping"] = at["ping"] /\ at'["data"] = at["data"]
  BY DEF ReaderSteps, ReaderRead, ReaderEof, Handle, ReaderLock, Take, ReaderWrite,
         LinkTypeOK, LineAnswered
<1> SUFFICES ASSUME closes = 0 PROVE Belongs("ping")' /\ Belongs("data")'
  BY <1>0 DEF Belonging
<1>a. /\ ToSet(served) \subseteq ToSet(served')
      /\ Belongs("ping") /\ Belongs("data") /\ OneUnderWay
  BY <1>0 DEF Belonging, Exchange
<1>b. /\ at["ping"] \in {"wait", "judge"} => Own("ping")' = Own("ping")
      /\ at["data"] \in {"wait", "judge"} => Own("data")' = Own("data")
  BY <1>0, OwnStill
<1>1. CASE ReaderRead
  <2>1. PICK n \in 1..Len(toDaemon) :
          toDaemon' = SubSeq(toDaemon, n + 1, Len(toDaemon))
    BY <1>1 DEF ReaderRead
  <2>2. /\ toServer' = toServer /\ Handle(Head(toDaemon))
        /\ Len(toDaemon) \in Nat /\ Len(toDaemon) >= 1 /\ n \in Nat /\ n >= 1
        /\ Head(toDaemon) = toDaemon[1] /\ 1 \in DOMAIN toDaemon
    BY <1>1 DEF ReaderRead, LinkTypeOK
  <2>3. Good' => Good
    <3>1. /\ DOMAIN toDaemon' = 1..(Len(toDaemon) - n) /\ DOMAIN toDaemon = 1..Len(toDaemon)
          /\ \A i \in 1..(Len(toDaemon) - n) : toDaemon'[i] = toDaemon[i + n]
          /\ \A i \in 1..(Len(toDaemon) - n) : i + n \in 1..Len(toDaemon)
      BY <2>1, <2>2 DEF LinkTypeOK
    <3> QED BY <3>1 DEF Good
  <2>4. CASE toDaemon[1] \in Answers
    <3>1. /\ 1 \in AnswersAt
          /\ serverResponse' = (toDaemon[1] = "ok")
      BY <2>2, <2>4 DEF AnswersAt, Handle, Answers
    <3>2. serverResponse' => Good
      BY <2>2, <3>1 DEF Good
    <3>3. ASSUME NEW t \in {"ping", "data"}, Belongs(t), at'[t] = at[t],
                 at[t] \in {"wait", "judge"} => Own(t)' = Own(t)
          PROVE  Belongs(t)'
      <4>1. at[t] # "judge"
        BY <3>1, <3>3, NothingUnderWay, <1>a
      <4>2. CASE at[t] = "wait"
        BY <1>0, <2>2, <2>3, <3>2, <3>3, <4>2 DEF Belongs
      <4>3. CASE at[t] # "wait"
        BY <3>3, <4>1, <4>3 DEF Belongs
      <4> QED BY <4>2, <4>3
    <3> QED BY <1>0, <1>a, <1>b, <3>3
  <2>5. CASE toDaemon[1] \notin Answers
    <3>1. UNCHANGED <<semSerRes, serverResponse>>
      BY <2>2, <2>5 DEF Handle
    <3>3. ASSUME NEW t \in {"ping", "data"}, Belongs(t), at'[t] = at[t],
                 at[t] \in {"wait", "judge"} => Own(t)' = Own(t)
          PROVE  Belongs(t)'
      BY <1>0, <2>2, <2>3, <3>1, <3>3 DEF Belongs
    <3> QED BY <1>0, <1>a, <1>b, <3>3
  <2> QED BY <2>4, <2>5
<1>2. CASE ReaderEof
  BY <1>a, <1>2 DEF ReaderEof, OneUnderWay
<1>3. CASE ReaderLock \/ ReaderWrite
  <2>1. UNCHANGED <<toServer, toDaemon, semSerRes, serverResponse>>
    BY <1>3 DEF ReaderLock, ReaderWrite, Write, LinkTypeOK
  <2> QED BY <1>0, <1>a, <1>b, <2>1, BelongsStill
<1> QED BY <1>1, <1>2, <1>3 DEF ReaderSteps

LEMMA BelongingOther ==
  ASSUME LinkTypeInv, Holding, Exchange, Belonging, [LinkNext]_linkVars, PingFails \/ OtherSteps
  PROVE  Belonging'
<1> USE DEF LinkTypeInv, Moves, Threads, answer, wire, outside
<1>0. /\ UNCHANGED <<acked, semSerRes, serverResponse>> /\ ~LineAnswered
      /\ at'["ping"] = at["ping"] /\ at'["data"] = at["data"]
  BY DEF PingFails, Offline, OtherSteps, GhostLock, ServerAnswers, ServerAsks,
         ServerCloses, HostChanges, LinkTypeOK, LineAnswered
<1>b. /\ at["ping"] \in {"wait", "judge"} => Own("ping")' = Own("ping")
      /\ at["data"] \in {"wait", "judge"} => Own("data")' = Own("data")
  BY <1>0, OwnStill
<1>1. CASE ServerCloses
  <2>1. closes' # 0
    BY <1>1, LinkAssumption DEF ServerCloses, LinkTypeOK
  <2> QED BY <2>1 DEF Belonging
<1>2. CASE ~ServerCloses
  <2>1. closes' = closes
    BY <1>2 DEF PingFails, Offline, OtherSteps, GhostLock, ServerAnswers, ServerAsks,
                HostChanges
  <2> SUFFICES ASSUME closes = 0
               PROVE  /\ acked' \subseteq ToSet(served')
                      /\ Belongs("ping")' /\ Belongs("data")'
    BY <2>1 DEF Belonging
  <2>a. acked \subseteq ToSet(served) /\ Belongs("ping") /\ Belongs("data") /\ OneUnderWay
    BY DEF Belonging, Exchange
  <2>2. CASE PingFails
    <3>1. ToSet(served) \subseteq ToSet(served')
      <4>1. ToSet(served \o toServer) = ToSet(served) \cup ToSet(toServer)
        BY ToSetConcats DEF LinkTypeOK
      <4>2. served' = served \/ served' = served \o toServer
        BY <2>2 DEF PingFails, Offline
      <4> QED BY <4>1, <4>2
    <3>2. toServer' = <<>> /\ ~Good'
      BY <2>2 DEF PingFails, Offline, Good
    <3>3. ASSUME NEW t \in {"ping", "data"}, Belongs(t), at'[t] = at[t],
                 at[t] \in {"wait", "judge"} => Own(t)' = Own(t)
          PROVE  Belongs(t)'
      BY <1>0, <3>1, <3>2, <3>3 DEF Belongs
    <3> QED BY <1>0, <1>b, <2>a, <3>1, <3>3
  <2>3. CASE ServerAnswers
    <3>1. /\ toServer # <<>> /\ toServer' = Tail(toServer) /\ toServer \in Seq(EventNos)
          /\ Len(toServer) \in Nat \ {0} /\ Head(toServer) = toServer[1]
          /\ Head(toServer) \in EventNos
          /\ 1 \in DOMAIN toServer
          /\ \A i \in DOMAIN toServer' : i + 1 \in DOMAIN toServer /\ toServer'[i] = toServer[i + 1]
      BY <2>3 DEF ServerAnswers, LinkTypeOK
    <3>2. PICK m \in Answers :
            /\ toDaemon' = Append(toDaemon, m)
            /\ IF m = "ok" THEN served' = Append(served, Head(toServer)) ELSE served' = served
      BY <2>3 DEF ServerAnswers, Answers
    <3>3. IF m = "ok" THEN ToSet(served') = ToSet(served) \cup {toServer[1]}
                      ELSE served' = served
      <4>1. served \in Seq(EventNos)
        BY DEF LinkTypeOK
      <4>2. ToSet(Append(served, Head(toServer))) = ToSet(served) \cup {toServer[1]}
        BY <3>1, <4>1, ToSetAppends
      <4> QED BY <3>2, <4>2
    <3>4. Good' => Good \/ m = "ok"
      <4>1. /\ DOMAIN toDaemon' = 1..(Len(toDaemon) + 1) /\ DOMAIN toDaemon = 1..Len(toDaemon)
            /\ toDaemon'[Len(toDaemon) + 1] = m
            /\ \A i \in 1..Len(toDaemon) : toDaemon'[i] = toDaemon[i]
        BY <3>2 DEF LinkTypeOK
      <4> QED BY <4>1 DEF Good
    <3>5. semSerRes = 0 /\ AnswersAt = {}
      BY <3>1, <2>a DEF OneUnderWay
    <3>6. ASSUME NEW t \in {"ping", "data"}, Belongs(t), at'[t] = at[t],
                 at[t] \in {"wait", "judge"} => Own(t)' = Own(t)
          PROVE  Belongs(t)'
      <4>1. CASE at[t] = "wait"
        BY <1>0, <3>1, <3>3, <3>4, <3>5, <3>6, <4>1 DEF Belongs
      <4>2. CASE at[t] = "judge"
        BY <1>0, <3>3, <3>6, <4>2 DEF Belongs
      <4>3. CASE at[t] \notin {"wait", "judge"}
        BY <3>6, <4>3 DEF Belongs
      <4> QED BY <4>1, <4>2, <4>3
    <3>7. ToSet(served) \subseteq ToSet(served')
      BY <3>3
    <3> QED BY <1>0, <1>b, <2>a, <3>6, <3>7
  <2>4. CASE ServerAsks
    <3>1. UNCHANGED <<toServer, served>> /\ toDaemon' = Append(toDaemon, "query")
      BY <2>4 DEF ServerAsks
    <3>2. Good' => Good
      <4>1. /\ DOMAIN toDaemon' = 1..(Len(toDaemon) + 1) /\ DOMAIN toDaemon = 1..Len(toDaemon)
            /\ toDaemon'[Len(toDaemon) + 1] = "query"
            /\ \A i \in 1..Len(toDaemon) : toDaemon'[i] = toDaemon[i]
        BY <3>1 DEF LinkTypeOK
      <4> QED BY <4>1 DEF Good
    <3>3. ASSUME NEW t \in {"ping", "data"}, Belongs(t), at'[t] = at[t],
                 at[t] \in {"wait", "judge"} => Own(t)' = Own(t)
          PROVE  Belongs(t)'
      BY <1>0, <3>1, <3>2, <3>3 DEF Belongs
    <3> QED BY <1>0, <1>b, <2>a, <3>1, <3>3
  <2>5. CASE GhostLock \/ HostChanges
    <3>1. UNCHANGED <<toServer, toDaemon, served>>
      BY <2>5 DEF GhostLock, HostChanges
    <3> QED BY <1>0, <1>b, <2>a, <3>1, BelongsStill
  <2> QED BY <1>2, <2>2, <2>3, <2>4, <2>5 DEF OtherSteps
<1> QED BY <1>1, <1>2

LEMMA BelongingStep ==
  ASSUME LinkTypeInv, Holding, Exchange, Belonging, [LinkNext]_linkVars PROVE Belonging'
<1>1. CASE UNCHANGED linkVars
  BY <1>1 DEF linkVars, wire, answer, outside, file, Belonging, Belongs, Own, Good
<1> QED BY <1>1, BelongingPing, BelongingSend, BelongingReader, BelongingOther, AllSteps

(***************************************************************************)
(* While the server does not close the connection, "server response ok" is *)
(* printed only of an event that it has had, for any number of events,     *)
(* outages and queries.                                                    *)
(***************************************************************************)
THEOREM AnswersBelong == LinkSpec => []AnswerBelongs
<1>1. Belonging => AnswerBelongs
  BY DEF Belonging, AnswerBelongs
<1> QED BY <1>1, TypeInvInit, TypeInvStep, HoldingInit, HoldingStep, ExchangeInit,
           ExchangeStep, BelongingInit, BelongingStep, PTL DEF LinkSpec
-------------------------------------------------------------------------------
(* No event is served twice: what is still to be sent, from the file or    *)
(* from the data thread's hands, has not been sent before.                 *)
Distinct(s) == \A i, j \in DOMAIN s : s[i] = s[j] => i = j

Sent == ToSet(toServer) \cup ToSet(served) \cup refused

\* The lines of the file that may yet be sent.
LineTo(j) ==
  CASE at["ping"] = "line" -> j >= line
    [] at["ping"] \in {"wait", "judge"} -> j > line
    [] at["ping"] \in {"remove", "dead"} -> FALSE
    [] OTHER -> TRUE

SentOnce ==
  /\ Distinct(toServer) /\ Distinct(served) /\ Distinct(fileLines)
  /\ ToSet(toServer) \cap (ToSet(served) \cup refused) = {}
  /\ ToSet(served) \cap refused = {}
  /\ Sent \cup ToSet(fileLines) \subseteq 0..event
  /\ \A j \in DOMAIN fileLines : LineTo(j) => fileLines[j] \notin Sent
  /\ DataPending => event \notin Sent \cup ToSet(fileLines)

LEMMA SentOnceInit == LinkInit => SentOnce
<1> SUFFICES ASSUME LinkInit PROVE SentOnce
  OBVIOUS
<1>1. Sent = {} /\ ~DataPending
  BY DEF LinkInit, Sent, ToSet, DataPending
<1>2. ToSet(fileLines) \subseteq {0} /\ Distinct(fileLines)
  <2>1. CASE fileLines = <<0>>
    BY <2>1 DEF ToSet, Distinct
  <2>2. CASE fileLines = <<>>
    BY <2>2 DEF ToSet, Distinct
  <2> QED BY <2>1, <2>2 DEF LinkInit
<1> QED BY <1>1, <1>2 DEF LinkInit, SentOnce, Distinct, ToSet

\* Steps that send nothing and leave the file as it is.
LEMMA OnceStill ==
  ASSUME SentOnce, UNCHANGED <<toServer, served, refused, fileLines, event>>,
         \A j \in DOMAIN fileLines : LineTo(j)' => LineTo(j),
         DataPending' => DataPending
  PROVE  SentOnce'
<1>1. Sent' = Sent
  BY DEF Sent
<1> QED BY <1>1 DEF SentOnce, Distinct

LEMMA DistinctAppend ==
  ASSUME NEW S, NEW s \in Seq(S), NEW e \in S, Distinct(s), e \notin ToSet(s)
  PROVE  Distinct(Append(s, e))
<1> DEFINE z == Append(s, e)
<1>1. /\ DOMAIN z = 1..(Len(s) + 1) /\ DOMAIN s = 1..Len(s) /\ Len(s) \in Nat
      /\ z[Len(s) + 1] = e /\ \A i \in 1..Len(s) : z[i] = s[i]
  BY ToSetAppends
<1> HIDE DEF z
<1>2. Distinct(z)
  BY <1>1 DEF Distinct, ToSet
<1> QED BY <1>2 DEF z

\* A write of an event that has not been sent.
LEMMA OnceWrite ==
  ASSUME LinkTypeInv, SentOnce, NEW e \in EventNos, e \notin Sent, e \in 0..event,
         Write(<<e>>), UNCHANGED <<served, refused, fileLines, event>>,
         \A j \in DOMAIN fileLines : LineTo(j)' => LineTo(j) /\ fileLines[j] # e,
         DataPending' => DataPending /\ event # e
  PROVE  SentOnce'
<1>1. CASE toServer' = toServer
  BY <1>1, OnceStill
<1>2. CASE toServer' = Append(toServer, e)
  <2>1. toServer \in Seq(EventNos)
    BY DEF LinkTypeInv, LinkTypeOK
  <2>2. Distinct(toServer')
    BY <1>2, <2>1, DistinctAppend DEF SentOnce, Sent
  <2>3. ToSet(toServer') = ToSet(toServer) \cup {e}
    BY <1>2, <2>1, ToSetAppends
  <2>4. Sent' = Sent \cup {e}
    BY <2>3 DEF Sent
  <2> QED BY <2>2, <2>3, <2>4 DEF SentOnce, Distinct, Sent
<1> QED BY <1>1, <1>2, Writes DEF LinkTypeInv

LEMMA OncePing ==
  ASSUME LinkTypeInv, SentOnce, PingSteps \/ Dies \/ GhostLock \/ ServerAsks \/ HostChanges
  PROVE  SentOnce'
<1> USE DEF LinkTypeInv, Moves, Threads, wire, file, outside
<1>1. UNCHANGED <<toServer, served, refused, fileLines, event, line>>
  BY DEF PingSteps, ConnectOk, ConnectFails, PingOk, SocketInit, StartReader,
     AskFlag, ReadNoFile, Dies, SigPipe, GhostLock, ServerAsks, HostChanges
<1>2. DataPending' => DataPending
  BY DEF DataPending, LinkTypeOK, PingSteps, ConnectOk, ConnectFails, PingOk, SocketInit,
     StartReader, AskFlag, ReadNoFile, Die, Dies, SigPipe, GhostLock, ServerAsks,
     HostChanges
<1>3. at'["ping"] = at["ping"] \/ at'["ping"] = "dead"
        \/ at["ping"] \notin {"line", "wait", "judge", "remove", "dead"}
  BY DEF LinkTypeOK, PingSteps, ConnectOk, ConnectFails, PingOk, SocketInit,
     StartReader, AskFlag, ReadNoFile, Die, Dies, SigPipe, GhostLock, ServerAsks,
     HostChanges
<1>4. \A j : LineTo(j)' => LineTo(j)
  BY <1>1, <1>3 DEF LineTo
<1> QED BY <1>1, <1>2, <1>4, OnceStill

LEMMA OnceSend ==
  ASSUME LinkTypeInv, SentOnce, SendSteps PROVE SentOnce'
<1> USE DEF LinkTypeInv, Moves, Threads, wire, file, outside
<1>0. UNCHANGED <<served, refused, event>> /\ at'["data"] = at["data"]
  BY DEF SendSteps, LockToSend, Take, SendLine, Wait, TakePost, LineAnswered, AllSent,
         RemoveFile, SetFile, ClearFlag, LinkTypeOK
<1>1. CASE SendLine
  <2>1. /\ line \in DOMAIN fileLines /\ fileLines[line] \in EventNos
        /\ Write(<<fileLines[line]>>) /\ UNCHANGED <<fileLines, line>>
        /\ at["ping"] = "line" /\ at'["ping"] = "wait"
        /\ DOMAIN fileLines \subseteq Nat
    BY <1>1 DEF SendLine, MoreLines, LinkTypeOK
  <2>2. LineTo(line) /\ \A j \in DOMAIN fileLines : LineTo(j)' => LineTo(j) /\ j # line
    BY <2>1 DEF LineTo
  <2>3. fileLines[line] \notin Sent /\ fileLines[line] \in ToSet(fileLines)
    BY <2>1, <2>2 DEF SentOnce, ToSet
  <2>4. fileLines[line] \in 0..event
    BY <2>3 DEF SentOnce
  <2>5. \A j \in DOMAIN fileLines : LineTo(j)' => fileLines[j] # fileLines[line]
    BY <2>1, <2>2 DEF SentOnce, Distinct
  <2>6. DataPending' => DataPending /\ event # fileLines[line]
    BY <1>0, <2>3 DEF SentOnce, DataPending
  <2> QED BY <1>0, <2>1, <2>2, <2>3, <2>4, <2>5, <2>6, OnceWrite
<1>2. CASE RemoveFile
  <2>1. fileLines' = <<>> /\ toServer' = toServer
    BY <1>2 DEF RemoveFile, SetFile
  <2>2. DOMAIN fileLines' = {} /\ ToSet(fileLines') = {} /\ Sent' = Sent
    BY <1>0, <2>1 DEF ToSet, Sent
  <2> QED BY <1>0, <2>1, <2>2 DEF SentOnce, Distinct, DataPending
<1>3. CASE SendSteps /\ ~SendLine /\ ~RemoveFile
  <2>1. UNCHANGED <<toServer, fileLines>>
    BY <1>3 DEF SendSteps, LockToSend, Wait, TakePost, LineAnswered, AllSent, ClearFlag
  <2>2. \A j \in DOMAIN fileLines : LineTo(j)' => LineTo(j)
    BY <1>3 DEF SendSteps, LockToSend, Take, Wait, TakePost, LineAnswered, AllSent,
                MoreLines, ClearFlag, LineTo, LinkTypeOK
  <2> QED BY <1>0, <2>1, <2>2, OnceStill DEF DataPending
<1> QED BY <1>1, <1>2, <1>3

LEMMA OnceData ==
  ASSUME LinkTypeInv, SentOnce, DataSteps PROVE SentOnce'
<1> USE DEF LinkTypeInv, Moves, Threads, wire, file, outside
<1>0. /\ UNCHANGED <<served, refused, line>> /\ at'["ping"] = at["ping"]
      /\ event \in Nat /\ event \in EventNos
  BY LinkAssumption
     DEF DataSteps, DataStart, DataEvent, DataCheck, DataLock, Take, DataWrite, Wait,
         TakePost, DataAnswered, DataAppend, AppendFails, SetFile, SetFlag, FileFlagged, LinkTypeOK,
         EventNos
<1>a. \A j : LineTo(j)' = LineTo(j)
  BY <1>0 DEF LineTo
<1>1. CASE DataEvent
  <2>1. UNCHANGED <<toServer, fileLines>> /\ event' = event + 1
    BY <1>1 DEF DataEvent
  <2>2. Sent' = Sent /\ ToSet(fileLines') = ToSet(fileLines)
    BY <1>0, <2>1 DEF Sent
  <2>3. 0..event \subseteq 0..event' /\ event' \notin 0..event
    BY <1>0, <2>1
  <2> QED BY <1>0, <1>a, <2>1, <2>2, <2>3 DEF SentOnce, Distinct
<1>2. CASE DataWrite
  <2>1. /\ Write(<<event>>) /\ UNCHANGED <<fileLines, event>>
        /\ at["data"] = "write" /\ at'["data"] = "wait"
    BY <1>2 DEF DataWrite, LinkTypeOK
  <2>2. DataPending /\ ~DataPending'
    BY <2>1 DEF DataPending
  <2>3. event \notin Sent /\ \A j \in DOMAIN fileLines : fileLines[j] # event
    BY <2>2 DEF SentOnce, ToSet
  <2>4. event \in 0..event
    BY <1>0
  <2> QED BY <1>0, <1>a, <2>1, <2>2, <2>3, <2>4, OnceWrite
<1>3. CASE DataAppend
  <2>1. /\ fileLines' = Append(fileLines, event) /\ UNCHANGED <<toServer, event>>
        /\ at["data"] = "append" /\ at'["data"] = "flag" /\ fileLines \in Seq(EventNos)
    BY <1>3 DEF DataAppend, SetFile, LinkTypeOK
  <2>2. DataPending /\ ~DataPending' /\ Sent' = Sent
    BY <1>0, <2>1 DEF DataPending, Sent
  <2>3. event \notin Sent /\ event \notin ToSet(fileLines) /\ event \in 0..event
    BY <1>0, <2>2 DEF SentOnce
  <2>4. Distinct(fileLines')
    BY <1>0, <2>1, <2>3, DistinctAppend DEF SentOnce
  <2>5. /\ ToSet(fileLines') = ToSet(fileLines) \cup {event}
        /\ DOMAIN fileLines' = 1..(Len(fileLines) + 1) /\ DOMAIN fileLines = 1..Len(fileLines)
        /\ Len(fileLines) \in Nat /\ fileLines'[Len(fileLines) + 1] = event
        /\ \A i \in 1..Len(fileLines) : fileLines'[i] = fileLines[i]
    BY <1>0, <2>1, ToSetAppends
  <2>6. \A j \in DOMAIN fileLines' : LineTo(j)' => fileLines'[j] \notin Sent'
    BY <1>a, <2>2, <2>3, <2>5 DEF SentOnce
  <2> QED BY <1>0, <2>1, <2>2, <2>3, <2>4, <2>5, <2>6 DEF SentOnce, Distinct
<1>4. CASE DataSteps /\ ~DataEvent /\ ~DataWrite /\ ~DataAppend
  <2>1. UNCHANGED <<toServer, fileLines, event>>
    BY <1>4 DEF DataSteps, DataStart, DataCheck, DataLock, Wait, TakePost,
                DataAnswered, AppendFails, SetFile, SetFlag, FileFlagged
  <2>2. DataPending' => DataPending
    BY <1>4 DEF DataPending, DataSteps, DataStart, DataCheck, DataLock, Take, Wait,
                TakePost, DataAnswered, AppendFails, SetFile, SetFlag, FileFlagged, LinkTypeOK
  <2> QED BY <1>0, <1>a, <2>1, <2>2, OnceStill
<1> QED BY <1>1, <1>2, <1>3, <1>4

LEMMA OnceReader ==
  ASSUME LinkTypeInv, SentOnce, ReaderSteps PROVE SentOnce'
<1> USE DEF LinkTypeInv, Moves, Threads, wire, file, outside
<1>1. /\ UNCHANGED <<toServer, served, refused, fileLines, event, line>>
      /\ at'["ping"] = at["ping"] /\ at'["data"] = at["data"]
  BY DEF ReaderSteps, ReaderRead, ReaderEof, Handle, ReaderLock, Take, ReaderWrite,
         Write, LinkTypeOK
<1> QED BY <1>1, OnceStill DEF LineTo, DataPending

LEMMA OnceServer ==
  ASSUME LinkTypeInv, SentOnce, PingFails \/ ServerAnswers \/ ServerCloses PROVE SentOnce'
<1> USE DEF LinkTypeInv, Moves, Threads, wire, file, outside
<1>0. /\ UNCHANGED <<fileLines, event, line>>
      /\ at'["ping"] = at["ping"] /\ at'["data"] = at["data"]
  BY DEF PingFails, Offline, ServerAnswers, ServerCloses, LinkTypeOK
<1>1. /\ \A j : LineTo(j)' = LineTo(j)
      /\ DataPending' = DataPending
  BY <1>0 DEF LineTo, DataPending
<1>2. ASSUME Sent' \subseteq Sent, Distinct(toServer'), Distinct(served'),
             ToSet(toServer') \cap (ToSet(served') \cup refused') = {},
             ToSet(served') \cap refused' = {}
      PROVE  SentOnce'
  BY <1>0, <1>1, <1>2 DEF SentOnce, Distinct
<1>3. toServer \in Seq(EventNos) /\ served \in Seq(EventNos)
  BY DEF LinkTypeOK
<1>4. CASE PingFails
  <2>1. /\ toServer' = <<>> /\ refused' = refused
        /\ served' = served \/ served' = served \o toServer
    BY <1>4 DEF PingFails, Offline
  <2>2. Distinct(toServer') /\ ToSet(toServer') = {}
    BY <2>1 DEF Distinct, ToSet
  <2>3. CASE served' = served
    BY <1>2, <2>1, <2>2, <2>3 DEF SentOnce, Sent
  <2>4. CASE served' = served \o toServer
    <3>1. ToSet(served') = ToSet(served) \cup ToSet(toServer)
      BY <1>3, <2>4, ToSetConcats
    <3>2. Distinct(served')
      <4>1. /\ DOMAIN served' = 1..(Len(served) + Len(toServer))
            /\ DOMAIN served = 1..Len(served) /\ DOMAIN toServer = 1..Len(toServer)
            /\ Len(served) \in Nat /\ Len(toServer) \in Nat
            /\ \A i \in 1..Len(served) : served'[i] = served[i]
            /\ \A i \in DOMAIN served' : i \notin 1..Len(served) =>
                 i - Len(served) \in DOMAIN toServer /\ served'[i] = toServer[i - Len(served)]
        BY <1>3, <2>4
      <4>2. /\ \A i \in DOMAIN served : served[i] \in ToSet(served)
            /\ \A i \in DOMAIN toServer : toServer[i] \in ToSet(toServer)
            /\ ToSet(toServer) \cap ToSet(served) = {}
        BY DEF ToSet, SentOnce
      <4>3. SUFFICES ASSUME NEW i \in DOMAIN served', NEW j \in DOMAIN served',
                            served'[i] = served'[j]
                     PROVE  i = j
        BY DEF Distinct
      <4>4. CASE i \in 1..Len(served) /\ j \in 1..Len(served)
        BY <4>1, <4>3, <4>4 DEF SentOnce, Distinct
      <4>5. CASE i \notin 1..Len(served) /\ j \notin 1..Len(served)
        <5>1. i - Len(served) = j - Len(served)
          BY <4>1, <4>3, <4>5 DEF SentOnce, Distinct
        <5> QED BY <4>1, <5>1
      <4>6. CASE i \in 1..Len(served) /\ j \notin 1..Len(served)
        BY <4>1, <4>2, <4>3, <4>6
      <4>7. CASE i \notin 1..Len(served) /\ j \in 1..Len(served)
        BY <4>1, <4>2, <4>3, <4>7
      <4> QED BY <4>4, <4>5, <4>6, <4>7
    <3> QED BY <1>2, <2>1, <2>2, <3>1, <3>2 DEF SentOnce, Sent
  <2> QED BY <2>1, <2>3, <2>4
<1>5. CASE ServerCloses
  <2>1. toServer' = <<>> /\ UNCHANGED <<served, refused>>
    BY <1>5 DEF ServerCloses
  <2>2. Distinct(toServer') /\ ToSet(toServer') = {}
    BY <2>1 DEF Distinct, ToSet
  <2> QED BY <1>2, <2>1, <2>2 DEF SentOnce, Sent
<1>6. CASE ServerAnswers
  <2> DEFINE h == toServer[1]
  <2>1. /\ toServer # <<>> /\ toServer' = Tail(toServer)
        /\ \/ served' = Append(served, h) /\ refused' = refused
           \/ served' = served /\ refused' = refused \cup {h}
    BY <1>6 DEF ServerAnswers, LinkTypeOK
  <2>2. /\ Len(toServer) \in Nat \ {0} /\ DOMAIN toServer = 1..Len(toServer)
        /\ DOMAIN toServer' = 1..(Len(toServer) - 1) /\ h \in EventNos
        /\ \A i \in 1..(Len(toServer) - 1) : toServer'[i] = toServer[i + 1]
    BY <1>3, <2>1
  <2>3. /\ Distinct(toServer') /\ h \notin ToSet(toServer') /\ h \in ToSet(toServer)
        /\ ToSet(toServer') \subseteq ToSet(toServer)
    <3>1. \A i, j \in 1..Len(toServer) : toServer[i] = toServer[j] => i = j
      BY <2>2 DEF SentOnce, Distinct
    <3>2. /\ \A i \in 1..(Len(toServer) - 1) : i + 1 \in 1..Len(toServer) /\ i + 1 # 1
          /\ 1 \in 1..Len(toServer)
      BY <2>2
    <3>3. \A i \in 1..(Len(toServer) - 1) : toServer'[i] # h
      BY <2>2, <3>1, <3>2
    <3>4. \A i, j \in 1..(Len(toServer) - 1) : toServer'[i] = toServer'[j] => i = j
      BY <2>2, <3>1, <3>2
    <3> QED BY <2>2, <3>2, <3>3, <3>4 DEF Distinct, ToSet
  <2>4. h \notin ToSet(served) /\ h \notin refused
    BY <2>3 DEF SentOnce
  <2>5. Distinct(Append(served, h)) /\ ToSet(Append(served, h)) = ToSet(served) \cup {h}
    BY <1>3, <2>2, <2>4, DistinctAppend, ToSetAppends DEF SentOnce
  <2> HIDE DEF h
  <2> QED BY <1>2, <2>1, <2>3, <2>4, <2>5 DEF SentOnce, Sent
<1> QED BY <1>4, <1>5, <1>6

LEMMA SentOnceStep == ASSUME LinkTypeInv, SentOnce, [LinkNext]_linkVars PROVE SentOnce'
<1>1. CASE UNCHANGED linkVars
  BY <1>1, OnceStill DEF linkVars, wire, file, outside, LineTo, DataPending
<1> QED BY <1>1, OncePing, OnceSend, OnceData, OnceReader, OnceServer, AllSteps
        DEF OtherSteps

(***************************************************************************)
(* No event reaches the server twice, nor once right and once wrong, while *)
(* the daemon runs, for any number of events, outages, closed connections  *)
(* and queries.                                                            *)
(***************************************************************************)
THEOREM EventsServedOnce == LinkSpec => []ServedOnce
<1>1. SentOnce => ServedOnce
  BY DEF SentOnce, Distinct, ServedOnce
<1> QED BY <1>1, TypeInvInit, TypeInvStep, SentOnceInit, SentOnceStep, PTL DEF LinkSpec
-------------------------------------------------------------------------------
(* A host that stays once it is there, a file that can be written, and a   *)
(* data thread that has appended its event before sleep(5) is over. From   *)
(* then on the connection holds.                                           *)
Steady == MaxOutages = 0 /\ MaxCloses = 0 /\ SleepOutlasts /\ ~AppendMayFail

Before == at["ping"] = "first"

Connected ==
  /\ ~up \/ Before => Before /\ ~serverStatusOk
  /\ Before => at["reader"] = "none" /\ toServer = <<>>
               /\ at["data"] \in {"start", "idle", "check", "append", "flag"}
  /\ ~Before => conn = "open" /\ serverStatusOk /\ ~reconnectServer

\* The threads live; the file is there when its flag says so; while the ping
\* thread is at the file the data thread is not.
InTurn ==
  /\ at["ping"] \notin {"dead", "nofile", "connect", "connected"}
  /\ at["data"] # "dead" /\ at["reader"] # "dead"
  /\ at["ping"] \notin {"first", "sleep"} => at["data"] \notin {"append", "flag"}
  /\ at["data"] = "flag" => fileThere
  /\ haveEvent => fileThere \/ at["ping"] = "unflag"

\* What the ping thread has sent of the file.
LineSent(j) ==
  CASE at["ping"] = "line" -> j < line
    [] at["ping"] \in {"wait", "judge"} -> j <= line
    [] at["ping"] = "remove" -> TRUE
    [] OTHER -> FALSE

Delivered(e) == Arrived(e) \/ e \in ToSet(toServer)

Nowhere ==
  /\ \A j \in DOMAIN fileLines : LineSent(j) => Delivered(fileLines[j])
  /\ \A e \in 1..event : Delivered(e) \/ e \in ToSet(fileLines) \/ (e = event /\ DataPending)

SteadyInv == Connected /\ InTurn /\ Nowhere

LEMMA SteadyInit == LinkInit => SteadyInv
<1> SUFFICES ASSUME LinkInit PROVE SteadyInv
  OBVIOUS
<1>1. Connected /\ InTurn
  BY DEF LinkInit, Connected, Before, InTurn
<1>2. Nowhere
  BY DEF LinkInit, Nowhere, LineSent
<1> QED BY <1>1, <1>2 DEF SteadyInv

\* In a steady network nobody is killed by a signal, cancelled or cut off.
LEMMA SteadySteps ==
  ASSUME Steady, LinkTypeInv, SteadyInv, [LinkNext]_linkVars
  PROVE  \/ ConnectOk("first", "sleep") \/ ConnectFails("first")
         \/ PingOk \/ StartReader \/ AskFlag
         \/ SendSteps \/ DataSteps \/ ReaderSteps
         \/ GhostLock \/ ServerAnswers \/ ServerAsks \/ HostChanges \/ UNCHANGED linkVars
<1> USE DEF SteadyInv, Connected, InTurn, Before
<1>1. ~Dies
  BY DEF Dies, SigPipe
<1>2. ~PingFails /\ ~SocketInit /\ ~ReadNoFile /\ ~ConnectOk("connect", "connected")
      /\ ~ConnectFails("connect")
  BY DEF PingFails, Offline, SocketInit, Moves, ReadNoFile, ConnectOk, ConnectFails
<1>3. ~ServerCloses
  BY DEF ServerCloses, Steady, LinkTypeInv, LinkTypeOK
<1> QED BY <1>1, <1>2, <1>3, AllSteps DEF PingSteps, OtherSteps

LEMMA ConnectedStep ==
  ASSUME Steady, LinkTypeInv, SteadyInv, [LinkNext]_linkVars PROVE Connected' /\ InTurn'
<1> USE DEF SteadyInv, Connected, InTurn, Before, LinkTypeInv, Moves, Threads, wire,
            outside, flags, file
<1>1. CASE ConnectOk("first", "sleep") \/ ConnectFails("first") \/ PingOk
           \/ StartReader \/ AskFlag
  <2>1. CASE ConnectOk("first", "sleep")
    BY <2>1 DEF ConnectOk, LinkTypeOK
  <2>2. CASE ConnectFails("first")
    BY <2>2 DEF ConnectFails, LinkTypeOK
  <2>3. CASE PingOk
    <3>1. at["data"] \notin {"append", "flag"}
      BY <2>3 DEF PingOk, Steady
    <3> QED BY <2>3, <3>1 DEF PingOk, LinkTypeOK
  <2>4. CASE StartReader
    BY <2>4 DEF StartReader, LinkTypeOK
  <2>5. CASE AskFlag
    BY <2>5 DEF AskFlag, LinkTypeOK
  <2> QED BY <1>1, <2>1, <2>2, <2>3, <2>4, <2>5
<1>2. CASE SendSteps
  <2>1. ~Before /\ ~Before' /\ UNCHANGED <<up, serverStatusOk, reconnectServer>>
    BY <1>2 DEF SendSteps, LockToSend, Take, SendLine, Wait, TakePost, LineAnswered,
                AllSent, RemoveFile, SetFile, ClearFlag, LinkTypeOK
  <2>2. conn' = conn
    BY <1>2, <2>1 DEF SendSteps, LockToSend, SendLine, Wait, TakePost, LineAnswered,
                AllSent, RemoveFile, SetFile, ClearFlag, Write
  <2>3. InTurn'
    BY <1>2 DEF SendSteps, LockToSend, Take, SendLine, Wait, TakePost, LineAnswered,
                AllSent, RemoveFile, SetFile, ClearFlag, LinkTypeOK
  <2> QED BY <2>1, <2>2, <2>3
<1>3. CASE DataSteps
  <2>1. UNCHANGED <<up, serverStatusOk, reconnectServer>>
        /\ at'["ping"] = at["ping"] /\ at'["reader"] = at["reader"]
    BY <1>3 DEF DataSteps, DataStart, DataEvent, DataCheck, DataLock, Take, DataWrite,
                Wait, TakePost, DataAnswered, DataAppend, AppendFails, SetFile, SetFlag,
                FileFlagged, LinkTypeOK
  <2>2. ~Before => conn' = conn
    BY <1>3 DEF DataSteps, DataStart, DataEvent, DataCheck, DataLock, DataWrite, Write,
                Wait, TakePost, DataAnswered, DataAppend, AppendFails, SetFile, SetFlag, FileFlagged
  <2>3. Before => toServer' = toServer /\
                  at'["data"] \in {"start", "idle", "check", "append", "flag"}
    <3>1. CASE DataCheck
      BY <3>1 DEF DataCheck, LinkTypeOK
    <3>2. CASE DataStart \/ DataEvent \/ DataAppend \/ AppendFails \/ SetFlag
      BY <3>2 DEF DataStart, DataEvent, DataAppend, AppendFails, SetFile, SetFlag, FileFlagged, LinkTypeOK
    <3>3. CASE DataLock \/ DataWrite \/ Wait("data", "wait", "judge") \/ DataAnswered
      BY <3>3 DEF DataLock, Take, DataWrite, Wait, TakePost, DataAnswered
    <3> QED BY <1>3, <3>1, <3>2, <3>3 DEF DataSteps
  <2>4. InTurn'
    <3>1. CASE DataStart
      BY <3>1 DEF DataStart, LinkTypeOK
    <3>2. CASE DataEvent \/ DataCheck
      BY <3>2 DEF DataEvent, DataCheck, LinkTypeOK
    <3>3. CASE DataLock \/ DataWrite \/ Wait("data", "wait", "judge") \/ DataAnswered
      BY <3>3 DEF DataLock, Take, DataWrite, Wait, TakePost, DataAnswered, LinkTypeOK
    <3>4. CASE DataAppend
      BY <3>4 DEF DataAppend, SetFile, LinkTypeOK
    <3>5. CASE SetFlag
      BY <3>5 DEF SetFlag, FileFlagged, LinkTypeOK
    <3>6. CASE AppendFails
      BY <3>6 DEF AppendFails, Steady
    <3> QED BY <1>3, <3>1, <3>2, <3>3, <3>4, <3>5, <3>6 DEF DataSteps
  <2>5. CASE Before
    BY <2>1, <2>3, <2>4, <2>5
  <2>6. CASE ~Before
    BY <2>1, <2>2, <2>4, <2>6
  <2> QED BY <2>5, <2>6
<1>4. CASE ReaderSteps
  <2>1. ~Before
    BY <1>4 DEF ReaderSteps, ReaderRead, ReaderEof, ReaderLock, Take, ReaderWrite
  <2>2. UNCHANGED <<up, serverStatusOk, reconnectServer, conn, haveEvent, fileThere>>
    BY <1>4, <2>1 DEF ReaderSteps, ReaderRead, ReaderEof, ReaderLock, ReaderWrite, Write
  <2>3. /\ at'["ping"] = at["ping"] /\ at'["data"] = at["data"] /\ at'["reader"] # "dead"
    BY <1>4 DEF ReaderSteps, ReaderRead, ReaderEof, Handle, ReaderLock, Take,
                ReaderWrite, LinkTypeOK
  <2> QED BY <2>1, <2>2, <2>3
<1>5. CASE GhostLock \/ ServerAnswers \/ ServerAsks
  BY <1>5 DEF GhostLock, ServerAnswers, ServerAsks
<1>6. CASE HostChanges
  BY <1>6 DEF HostChanges, Steady, LinkTypeOK
<1>7. CASE UNCHANGED linkVars
  BY <1>7 DEF linkVars
<1> QED BY <1>1, <1>2, <1>3, <1>4, <1>5, <1>6, <1>7, SteadySteps

\* Steps after which as much as before has been delivered.
LEMMA NowhereStill ==
  ASSUME Nowhere, UNCHANGED <<fileLines, event>>, \A e : Delivered(e) => Delivered(e)',
         \A j \in DOMAIN fileLines : LineSent(j)' => LineSent(j) \/ Delivered(fileLines[j])',
         DataPending /\ ~DataPending' => Delivered(event)'
  PROVE  Nowhere'
  BY DEF Nowhere

LEMMA DeliveredStill ==
  ASSUME UNCHANGED <<toServer, served, refused>>
  PROVE  \A e : Delivered(e) => Delivered(e)'
  BY DEF Delivered, Arrived

LEMMA DeliveredWrite ==
  ASSUME LinkTypeInv, NEW e \in EventNos, conn = "open", Write(<<e>>),
         UNCHANGED <<served, refused>>
  PROVE  Delivered(e)' /\ \A x : Delivered(x) => Delivered(x)'
<1>1. toServer \in Seq(EventNos)
  BY DEF LinkTypeInv, LinkTypeOK
<1>2. toServer' = Append(toServer, e)
  BY <1>1 DEF Write
<1>3. ToSet(toServer') = ToSet(toServer) \cup {e}
  BY <1>1, <1>2, ToSetAppends
<1> QED BY <1>3 DEF Delivered, Arrived

LEMMA NowhereSend ==
  ASSUME Steady, LinkTypeInv, SteadyInv, SendSteps PROVE Nowhere'
<1> USE DEF LinkTypeInv, Moves, Threads, wire, file, outside, SteadyInv
<1>0. UNCHANGED <<served, refused, event>> /\ at'["data"] = at["data"]
  BY DEF SendSteps, LockToSend, Take, SendLine, Wait, TakePost, LineAnswered, AllSent,
         RemoveFile, SetFile, ClearFlag, LinkTypeOK
<1>a. DataPending' = DataPending
  BY <1>0 DEF DataPending
<1>1. CASE SendLine
  <2>1. /\ line \in DOMAIN fileLines /\ fileLines[line] \in EventNos
        /\ Write(<<fileLines[line]>>) /\ UNCHANGED <<fileLines, line>>
        /\ at["ping"] = "line" /\ at'["ping"] = "wait"
        /\ DOMAIN fileLines \subseteq Nat
    BY <1>1 DEF SendLine, MoreLines, LinkTypeOK
  <2>2. conn = "open"
    BY <2>1 DEF Connected, Before
  <2>3. Delivered(fileLines[line])' /\ \A x : Delivered(x) => Delivered(x)'
    BY <1>0, <2>1, <2>2, DeliveredWrite
  <2>4. Delivered(fileLines[line]) => Delivered(fileLines[line])'
    BY <2>1, <2>3
  <2>5. \A j \in DOMAIN fileLines : LineSent(j)' => LineSent(j) \/ j = line
    BY <2>1 DEF LineSent
  <2>6. \A j \in DOMAIN fileLines : LineSent(j)' => LineSent(j) \/ Delivered(fileLines[j])'
    BY <2>1, <2>3, <2>5
  <2> QED BY <1>0, <1>a, <2>1, <2>3, <2>6, NowhereStill
<1>2. CASE RemoveFile
  <2>1. fileLines' = <<>> /\ toServer' = toServer /\ at["ping"] = "remove"
        /\ at'["ping"] = "unflag"
    BY <1>2 DEF RemoveFile, SetFile, LinkTypeOK
  <2>2. \A e : Delivered(e) => Delivered(e)'
    BY <1>0, <2>1, DeliveredStill
  <2>3. \A e \in ToSet(fileLines) : Delivered(e)
    BY <2>1 DEF Nowhere, LineSent, ToSet
  <2>4. DOMAIN fileLines' = {}
    BY <2>1
  <2> QED BY <1>0, <1>a, <2>2, <2>3, <2>4 DEF Nowhere
<1>3. CASE SendSteps /\ ~SendLine /\ ~RemoveFile
  <2>1. UNCHANGED <<toServer, fileLines>>
    BY <1>3 DEF SendSteps, LockToSend, Wait, TakePost, LineAnswered, AllSent, ClearFlag
  <2>2. \A j \in DOMAIN fileLines : LineSent(j)' => LineSent(j)
    BY <1>3 DEF SendSteps, LockToSend, Take, Wait, TakePost, LineAnswered, AllSent,
                MoreLines, ClearFlag, LineSent, LinkTypeOK
  <2> QED BY <1>0, <1>a, <2>1, <2>2, NowhereStill, DeliveredStill
<1> QED BY <1>1, <1>2, <1>3

LEMMA NowhereData ==
  ASSUME Steady, LinkTypeInv, SteadyInv, DataSteps PROVE Nowhere'
<1> USE DEF LinkTypeInv, Moves, Threads, wire, file, outside, SteadyInv
<1>0. /\ UNCHANGED <<served, refused, line>> /\ at'["ping"] = at["ping"]
      /\ event \in Nat /\ event \in EventNos
  BY LinkAssumption
     DEF DataSteps, DataStart, DataEvent, DataCheck, DataLock, Take, DataWrite, Wait,
         TakePost, DataAnswered, DataAppend, AppendFails, SetFile, SetFlag, FileFlagged, LinkTypeOK,
         EventNos
<1>a. \A j : LineSent(j)' = LineSent(j)
  BY <1>0 DEF LineSent
<1>1. CASE DataEvent
  <2>1. UNCHANGED <<toServer, fileLines>> /\ event' = event + 1
        /\ at["data"] = "idle" /\ at'["data"] = "check"
    BY <1>1 DEF DataEvent, LinkTypeOK
  <2>2. DataPending' /\ ~DataPending
    BY <2>1 DEF DataPending
  <2>3. \A e \in 1..event' : e \in 1..event \/ e = event'
    BY <1>0, <2>1
  <2> QED BY <1>0, <1>a, <2>1, <2>2, <2>3, DeliveredStill DEF Nowhere
<1>2. CASE DataWrite
  <2>1. /\ Write(<<event>>) /\ UNCHANGED <<fileLines, event>> /\ at["data"] = "write"
    BY <1>2 DEF DataWrite, LinkTypeOK
  <2>2. conn = "open"
    BY <2>1 DEF Connected, Before
  <2>3. Delivered(event)' /\ \A x : Delivered(x) => Delivered(x)'
    BY <1>0, <2>1, <2>2, DeliveredWrite
  <2> QED BY <1>0, <1>a, <2>1, <2>3, NowhereStill
<1>3. CASE DataAppend
  <2>1. /\ fileLines' = Append(fileLines, event) /\ UNCHANGED <<toServer, event>>
        /\ at["data"] = "append" /\ fileLines \in Seq(EventNos)
    BY <1>3 DEF DataAppend, SetFile, LinkTypeOK
  <2>2. \A j : ~LineSent(j)
    BY <2>1 DEF LineSent, InTurn
  <2>3. ToSet(fileLines') = ToSet(fileLines) \cup {event}
    BY <1>0, <2>1, ToSetAppends
  <2> QED BY <1>0, <1>a, <2>1, <2>2, <2>3, DeliveredStill DEF Nowhere
<1>4. CASE DataSteps /\ ~DataEvent /\ ~DataWrite /\ ~DataAppend
  <2>0. ~AppendFails
    BY DEF AppendFails, Steady
  <2>1. UNCHANGED <<toServer, fileLines, event>>
    BY <1>4, <2>0 DEF DataSteps, DataStart, DataCheck, DataLock, Wait, TakePost,
                DataAnswered, SetFlag, FileFlagged
  <2>2. DataPending => DataPending'
    BY <1>4, <2>0 DEF DataPending, DataSteps, DataStart, DataCheck, DataLock, Take, Wait,
                TakePost, DataAnswered, SetFlag, FileFlagged, LinkTypeOK
  <2> QED BY <1>0, <1>a, <2>1, <2>2, NowhereStill, DeliveredStill
<1> QED BY <1>1, <1>2, <1>3, <1>4

LEMMA NowhereStep ==
  ASSUME Steady, LinkTypeInv, SteadyInv, [LinkNext]_linkVars PROVE Nowhere'
<1> USE DEF LinkTypeInv, Moves, Threads, wire, file, outside, SteadyInv
<1>1. CASE ConnectOk("first", "sleep") \/ ConnectFails("first") \/ PingOk
           \/ StartReader \/ AskFlag
  <2>1. /\ UNCHANGED <<toServer, served, refused, fileLines, event>>
        /\ at'["data"] = at["data"]
    BY <1>1 DEF ConnectOk, ConnectFails, PingOk, StartReader, AskFlag, LinkTypeOK
  <2>2. \A j : ~LineSent(j)'
    BY <1>1 DEF ConnectOk, ConnectFails, PingOk, StartReader, AskFlag, LinkTypeOK, LineSent
  <2> QED BY <2>1, <2>2, NowhereStill, DeliveredStill DEF DataPending
<1>2. CASE ReaderSteps
  <2>1. /\ UNCHANGED <<toServer, served, refused, fileLines, event, line>>
        /\ at'["data"] = at["data"] /\ at'["ping"] = at["ping"]
    BY <1>2 DEF ReaderSteps, ReaderRead, ReaderEof, Handle, ReaderLock, Take,
                ReaderWrite, Write, LinkTypeOK
  <2> QED BY <2>1, NowhereStill, DeliveredStill DEF DataPending, LineSent
<1>3. CASE GhostLock \/ ServerAsks \/ HostChanges \/ UNCHANGED linkVars
  <2>1. UNCHANGED <<toServer, served, refused, fileLines, event, line, at>>
    BY <1>3 DEF GhostLock, ServerAsks, HostChanges, linkVars
  <2> QED BY <2>1, NowhereStill, DeliveredStill DEF DataPending, LineSent
<1>4. CASE ServerAnswers
  <2>1. /\ UNCHANGED <<fileLines, event, line, at>>
        /\ toServer # <<>> /\ toServer' = Tail(toServer)
        /\ \/ served' = Append(served, Head(toServer)) /\ refused' = refused
           \/ served' = served /\ refused' = refused \cup {Head(toServer)}
    BY <1>4 DEF ServerAnswers
  <2>2. /\ Head(toServer) \in EventNos
        /\ \A x \in ToSet(toServer) : x = Head(toServer) \/ x \in ToSet(Tail(toServer))
    <3>1. /\ Len(toServer) \in Nat \ {0} /\ DOMAIN toServer = 1..Len(toServer)
          /\ DOMAIN Tail(toServer) = 1..(Len(toServer) - 1)
          /\ Head(toServer) = toServer[1] /\ toServer[1] \in EventNos
          /\ \A i \in 1..(Len(toServer) - 1) : Tail(toServer)[i] = toServer[i + 1]
      BY <2>1 DEF LinkTypeOK
    <3>2. \A i \in 1..Len(toServer) : i = 1 \/ i - 1 \in 1..(Len(toServer) - 1)
      BY <3>1
    <3>3. \A i \in 1..Len(toServer) :
            i # 1 => Tail(toServer)[i - 1] = toServer[i]
      BY <3>1, <3>2
    <3> QED BY <3>1, <3>2, <3>3 DEF ToSet
  <2>3. ToSet(Append(served, Head(toServer))) = ToSet(served) \cup {Head(toServer)}
    BY <2>2, ToSetAppends DEF LinkTypeOK
  <2>4. \A e : Delivered(e) => Delivered(e)'
    BY <2>1, <2>2, <2>3 DEF Delivered, Arrived
  <2> QED BY <2>1, <2>4, NowhereStill DEF DataPending, LineSent
<1> QED BY <1>1, <1>2, <1>3, <1>4, NowhereSend, NowhereData, SteadySteps

(***************************************************************************)
(* With a host that stays once it is there, a server that keeps the        *)
(* connection and a file that can be written, every event copied from the  *)
(* buffer is at the server, on its way, in the file or in the data         *)
(* thread's hands: rm never takes an event that has not been sent. For any *)
(* number of events and queries.                                           *)
(***************************************************************************)
THEOREM NothingIsLost == Steady /\ LinkSpec => []NothingLost
<1> SUFFICES ASSUME Steady PROVE LinkSpec => []NothingLost
  OBVIOUS
<1>1. LinkTypeInv /\ SteadyInv /\ [LinkNext]_linkVars => SteadyInv'
  BY ConnectedStep, NowhereStep DEF SteadyInv
<1>2. SteadyInv => NothingLost
  BY DEF SteadyInv, Nowhere, Delivered, DataPending, NothingLost, Held
<1> QED BY <1>1, <1>2, TypeInvInit, TypeInvStep, SteadyInit, PTL DEF LinkSpec
===============================================================================
