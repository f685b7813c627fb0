------------------------------ MODULE ServerLink ------------------------------
(***************************************************************************)
(* The one TCP connection to the server and the three threads that use it: *)
(*                                                                         *)
(*   "ping"    pthread_ping_server: connects, pings the server in rounds,  *)
(*             connects again after an outage, starts and cancels the      *)
(*             reader, sends the events in the file nosendto_server_event; *)
(*   "data"    pthread_datato_server: sends each event it has copied and   *)
(*             waits for the answer, or appends it to that file;           *)
(*   "reader"  pthread_socket_read: posts sem_ser_res for an answer, sends *)
(*             show data when the server asks for it.                      *)
(*                                                                         *)
(* mutex_socket is held from an event's write to its answer. An event is a *)
(* number: 0 was in the file when the daemon started, the others come from *)
(* can_rcv_buf (EventBuffer) in the order 1, 2, ... The bytes on the wire  *)
(* and the splitting of the file into lines are left out.                  *)
(***************************************************************************)
EXTENDS Integers, Sequences, FiniteSets, SequencesExt

CONSTANTS
  MaxEvents,     \* bound: how many events come
  MaxOutages,    \* bound: how often the server's host goes away
  MaxCloses,     \* bound: how often the server closes the connection
  MaxQueries,    \* bound: how often the server asks for show data
  MaxPosts,      \* bound on sem_ser_res when the reader posts for nothing
  MayRefuse,     \* the server may answer C6 (received with errors)
  AppendMayFail, \* the file of unsent events may not open, or not be written
  SleepOutlasts  \* timing: sleep(5) is longer than the data thread needs to
                 \* append an event to the file

ASSUME LinkAssumption ==
  /\ MaxEvents \in Nat /\ MaxOutages \in Nat /\ MaxCloses \in Nat
  /\ MaxQueries \in Nat /\ MaxPosts \in Nat
  /\ MayRefuse \in BOOLEAN /\ AppendMayFail \in BOOLEAN
  /\ SleepOutlasts \in BOOLEAN

EventNos == 0..MaxEvents
Threads == {"ping", "data", "reader"}
Answers == {"ok", "error"}

VARIABLES
  serverStatusOk, reconnectServer, haveEvent, \* the three flags
  semSerRes, serverResponse,  \* the answer, from the reader to who waits
  mutexSocket,     \* who holds it, "none", or "lost" with a cancelled thread
  conn,            \* what sd is: "closed", "fresh" (not connected), "open",
                   \* "eof" (closed by the server), "reset"
  toServer, toDaemon, \* events, and answers and queries, on their way
  rcvData,         \* what the reader has in socket_rcv_data
  at,              \* where each thread is
  event,           \* the event in the data thread's own buffer
  line,            \* the line of the file the ping thread has come to
  ghosts,          \* cancelled readers that still wait for mutex_socket
  fileThere, fileLines, \* nosendto_server_event: whether it exists, its lines
  up,              \* the host of the server answers
  outages, closes, queries,
  served, refused, \* the server: the events it has had right, and wrong
  acked            \* events after which "server response ok" was printed

flags == <<serverStatusOk, reconnectServer, haveEvent>>
answer == <<semSerRes, serverResponse>>
wire == <<conn, toServer, toDaemon>>
file == <<fileThere, fileLines>>
outside == <<up, outages, closes, queries, served, refused>>
linkVars == <<flags, answer, mutexSocket, wire, rcvData, at, event, line, ghosts,
          file, outside, acked>>

LinkInit ==
  /\ serverStatusOk = FALSE /\ reconnectServer = TRUE /\ haveEvent = FALSE
  /\ semSerRes = 0 /\ serverResponse = FALSE /\ mutexSocket = "none"
  /\ conn = "fresh" /\ toServer = <<>> /\ toDaemon = <<>>
  /\ rcvData = "nothing"
  /\ at = [ping |-> "first", data |-> "start", reader |-> "none"]
  /\ event = 0 /\ line = 1 /\ ghosts = 0
  /\ fileThere \in BOOLEAN /\ fileLines = IF fileThere THEN <<0>> ELSE <<>>
  /\ up \in BOOLEAN /\ outages = 0 /\ closes = 0 /\ queries = 0
  /\ served = <<>> /\ refused = {} /\ acked = {}

Moves(t, from, to) == at[t] = from /\ at' = [at EXCEPT ![t] = to]

Take(t, from, to) ==
  Moves(t, from, to) /\ mutexSocket = "none" /\ mutexSocket' = t

\* A signal (SIGPIPE, SIGSEGV) ends the process with all its threads.
Die == at' = [t \in Threads |-> "dead"]

\* write(sd, ...) of events es, where it returns at all. Without a connection
\* it fails, which no caller looks at; what is written after the server has
\* closed is lost and brings a reset.
Write(es) ==
  /\ conn \in {"open", "eof", "closed"}
  /\ toServer' = IF conn = "open" THEN toServer \o es ELSE toServer
  /\ conn' = IF conn = "eof" THEN "reset" ELSE conn

\* write(sd, ...) on a socket without a connection or after a reset.
SigPipe(t, from) ==
  /\ at[t] = from /\ conn \in {"fresh", "reset"}
  /\ Die
  /\ UNCHANGED <<flags, answer, mutexSocket, wire, rcvData, event, line, ghosts,
                 file, outside, acked>>

TakePost(t, from, to) ==
  /\ Moves(t, from, to)
  /\ semSerRes' = semSerRes - 1
  /\ UNCHANGED <<flags, serverResponse, mutexSocket, wire, rcvData, event, line,
                 ghosts, file, outside, acked>>

\* Mutant: sem_ser_res is taken without a look at it.
Wait_Unguarded(t, from, to) == TakePost(t, from, to)

\* sem_wait(&sem_ser_res)
Wait(t, from, to) == semSerRes > 0 /\ TakePost(t, from, to)

\* What is printed of the answer to e.
Judge(e) == acked' = IF serverResponse THEN acked \cup {e} ELSE acked
-----------------------------------------------------------------------------
(* pthread_ping_server.                                                    *)

\* connect_server, first or in ping_server (where), and where it goes on.
ConnectOk(from, to) ==
  /\ Moves("ping", from, to)
  /\ up
  /\ conn' = "open"
  /\ serverStatusOk' = TRUE /\ reconnectServer' = FALSE
  /\ UNCHANGED <<haveEvent, answer, mutexSocket, toServer, toDaemon, rcvData,
                 event, line, ghosts, file, outside, acked>>

ConnectFails(from) ==
  /\ at["ping"] = from
  /\ ~up
  /\ serverStatusOk' = FALSE
  /\ UNCHANGED <<reconnectServer, haveEvent, answer, mutexSocket, wire, rcvData,
                 at, event, line, ghosts, file, outside, acked>>

\* After sleep(5): both pings are answered.
PingOk ==
  /\ Moves("ping", "sleep", "online")
  /\ up
  /\ SleepOutlasts => at["data"] \notin {"append", "flag"}
  /\ serverStatusOk' = TRUE
  /\ UNCHANGED <<reconnectServer, haveEvent, answer, mutexSocket, wire, rcvData,
                 event, line, ghosts, file, outside, acked>>

SocketInit ==
  /\ Moves("ping", "online", "connect")
  /\ reconnectServer
  /\ serverStatusOk' = FALSE
  /\ conn' = "fresh"
  /\ UNCHANGED <<reconnectServer, haveEvent, answer, mutexSocket, toServer,
                 toDaemon, rcvData, event, line, ghosts, file, outside, acked>>

\* The reader is started, if there is none.
StartReader ==
  /\ \/ at["ping"] = "online" /\ ~reconnectServer
     \/ at["ping"] = "connected"
  /\ at' = [at EXCEPT !["ping"] = "ask",
                      !["reader"] = IF @ = "none" THEN "read" ELSE @]
  /\ UNCHANGED <<flags, answer, mutexSocket, wire, rcvData, event, line, ghosts,
                 file, outside, acked>>

\* A ping is not answered: the connection is closed and the reader cancelled.
\* It dies where it waits in read; with mutex_socket at its write; and, when
\* it waits for the mutex, once it has it.
\* What is under way when the connection is closed may still arrive.
Offline(posts) ==
  /\ at["ping"] = "sleep"
  /\ ~up
  /\ serverStatusOk' = FALSE /\ reconnectServer' = TRUE
  /\ at' = [at EXCEPT !["ping"] = "sleep", !["reader"] = "none"]
  /\ mutexSocket' = IF at["reader"] = "write" THEN "lost" ELSE mutexSocket
  /\ ghosts' = IF at["reader"] = "lock" THEN ghosts + 1 ELSE ghosts
  /\ conn' = IF reconnectServer THEN conn ELSE "closed"
  /\ toServer' = <<>> /\ toDaemon' = <<>>
  /\ served' \in {served, served \o toServer}
  /\ semSerRes' = semSerRes + posts
  /\ UNCHANGED <<haveEvent, serverResponse, rcvData, event, line, file, up,
                 outages, closes, queries, refused, acked>>

\* Mutant: who waits for an answer is released.
PingFails_Posts == Offline(IF semSerRes = 0 THEN 1 ELSE 0)

PingFails == Offline(0)

GhostLock ==
  /\ ghosts > 0 /\ mutexSocket = "none"
  /\ ghosts' = ghosts - 1
  /\ mutexSocket' = "lost"
  /\ UNCHANGED <<flags, answer, wire, rcvData, at, event, line, file, outside,
                 acked>>

\* have_event_noto_server is tested and the file opened.
AskFlag ==
  /\ at["ping"] = "ask"
  /\ at' = [at EXCEPT !["ping"] = IF ~haveEvent THEN "sleep"
                                  ELSE IF fileThere THEN "lock" ELSE "nofile"]
  /\ UNCHANGED <<flags, answer, mutexSocket, wire, rcvData, event, line, ghosts,
                 file, outside, acked>>

\* send_remain_eventto_server without a file: it locks and reads from NULL.
ReadNoFile ==
  /\ at["ping"] = "nofile" /\ mutexSocket = "none"
  /\ Die
  /\ UNCHANGED <<flags, answer, mutexSocket, wire, rcvData, event, line, ghosts,
                 file, outside, acked>>

LockToSend ==
  /\ Take("ping", "lock", "line")
  /\ line' = 1
  /\ UNCHANGED <<flags, answer, wire, rcvData, event, ghosts, file, outside,
                 acked>>

MoreLines == line <= Len(fileLines)

SendLine ==
  /\ Moves("ping", "line", "wait")
  /\ MoreLines
  /\ Write(<<fileLines[line]>>)
  /\ UNCHANGED <<flags, answer, mutexSocket, toDaemon, rcvData, event, line,
                 ghosts, file, outside, acked>>

LineAnswered ==
  /\ Moves("ping", "judge", "line")
  /\ Judge(fileLines[line])
  /\ line' = line + 1
  /\ UNCHANGED <<flags, answer, mutexSocket, wire, rcvData, event, ghosts, file,
                 outside>>

AllSent ==
  /\ Moves("ping", "line", "remove")
  /\ ~MoreLines
  /\ mutexSocket' = "none"
  /\ UNCHANGED <<flags, answer, wire, rcvData, event, line, ghosts, file,
                 outside, acked>>

\* rm nosendto_server_event, with all that is in it by now.
SetFile(there, lines) ==
  /\ fileThere' = there /\ fileLines' = lines
  /\ UNCHANGED <<flags, answer, mutexSocket, wire, rcvData, event, line, ghosts,
                 outside, acked>>

\* Mutant: the file is left in its place.
RemoveFile_Kept == Moves("ping", "remove", "unflag") /\ SetFile(fileThere, fileLines)

RemoveFile == Moves("ping", "remove", "unflag") /\ SetFile(FALSE, <<>>)

ClearFlag ==
  /\ Moves("ping", "unflag", "sleep")
  /\ haveEvent' = FALSE
  /\ UNCHANGED <<serverStatusOk, reconnectServer, answer, mutexSocket, wire,
                 rcvData, event, line, ghosts, file, outside, acked>>

PingServerStep ==
  \/ ConnectOk("first", "sleep") \/ ConnectFails("first")
  \/ PingOk \/ PingFails \/ SocketInit
  \/ ConnectOk("connect", "connected") \/ ConnectFails("connect")
  \/ StartReader \/ AskFlag \/ ReadNoFile \/ LockToSend \/ SendLine
  \/ (MoreLines /\ SigPipe("ping", "line")) \/ Wait("ping", "wait", "judge")
  \/ LineAnswered \/ AllSent \/ RemoveFile \/ ClearFlag
-----------------------------------------------------------------------------
(* pthread_datato_server.                                                  *)
DataStart ==
  /\ Moves("data", "start", "idle")
  /\ haveEvent' = fileThere
  /\ UNCHANGED <<serverStatusOk, reconnectServer, answer, mutexSocket, wire,
                 rcvData, event, line, ghosts, file, outside, acked>>

DataEvent ==
  /\ Moves("data", "idle", "check")
  /\ event < MaxEvents
  /\ event' = event + 1
  /\ UNCHANGED <<flags, answer, mutexSocket, wire, rcvData, line, ghosts, file,
                 outside, acked>>

DataCheck ==
  /\ Moves("data", "check", IF serverStatusOk THEN "lock" ELSE "append")
  /\ UNCHANGED <<flags, answer, mutexSocket, wire, rcvData, event, line, ghosts,
                 file, outside, acked>>

\* Mutant: mutex_socket is not waited for.
DataLock_NoWait ==
  /\ Moves("data", "lock", "write")
  /\ mutexSocket' = "data"
  /\ UNCHANGED <<flags, answer, wire, rcvData, event, line, ghosts, file,
                 outside, acked>>

DataLock ==
  /\ Take("data", "lock", "write")
  /\ UNCHANGED <<flags, answer, wire, rcvData, event, line, ghosts, file,
                 outside, acked>>

DataWrite ==
  /\ Moves("data", "write", "wait")
  /\ Write(<<event>>)
  /\ UNCHANGED <<flags, answer, mutexSocket, toDaemon, rcvData, event, line,
                 ghosts, file, outside, acked>>

DataAnswered ==
  /\ Moves("data", "judge", "idle")
  /\ Judge(event)
  /\ mutexSocket' = "none"
  /\ UNCHANGED <<flags, answer, wire, rcvData, event, line, ghosts, file,
                 outside>>

\* Mutant: the file is opened with O_TRUNC.
DataAppend_Truncates == Moves("data", "append", "flag") /\ SetFile(TRUE, <<event>>)

DataAppend == Moves("data", "append", "flag") /\ SetFile(TRUE, Append(fileLines, event))

\* It does not open, or opens and nothing is written: the thread goes on as if.
AppendFails ==
  /\ AppendMayFail
  /\ Moves("data", "append", "flag")
  /\ SetFile(fileThere, fileLines) \/ SetFile(TRUE, fileLines)

FileFlagged(flag) ==
  /\ Moves("data", "flag", "idle")
  /\ haveEvent' = flag
  /\ UNCHANGED <<serverStatusOk, reconnectServer, answer, mutexSocket, wire,
                 rcvData, event, line, ghosts, file, outside, acked>>

\* Mutant: the flag is left as it is.
SetFlag_Not == FileFlagged(haveEvent)

SetFlag == FileFlagged(TRUE)

DeliverStep ==
  DataStart \/ DataCheck \/ DataLock \/ DataWrite \/ SigPipe("data", "write")
  \/ Wait("data", "wait", "judge") \/ DataAnswered \/ DataAppend \/ AppendFails
  \/ SetFlag
-----------------------------------------------------------------------------
(* pthread_socket_read.                                                    *)

\* What is done with what lies in socket_rcv_data.
Handle(m) ==
  \/ /\ m \in Answers
     /\ serverResponse' = (m = "ok")
     /\ semSerRes < MaxPosts /\ semSerRes' = semSerRes + 1
     /\ UNCHANGED at
  \/ /\ m = "query"
     /\ at' = [at EXCEPT !["reader"] = "lock"]
     /\ UNCHANGED answer

\* read returns all that has arrived by then, of which the first is looked at.
ReaderRead ==
  /\ at["reader"] = "read" /\ toDaemon # <<>>
  /\ \E n \in 1..Len(toDaemon) :
       toDaemon' = SubSeq(toDaemon, n + 1, Len(toDaemon))
  /\ rcvData' = Head(toDaemon)
  /\ Handle(Head(toDaemon))
  /\ UNCHANGED <<flags, mutexSocket, conn, toServer, event, line, ghosts, file,
                 outside, acked>>

\* read returns 0: what was received last is taken for new.
ReaderEof ==
  /\ at["reader"] = "read" /\ toDaemon = <<>>
  /\ conn \in {"eof", "reset"}
  /\ Handle(rcvData)
  /\ UNCHANGED <<flags, mutexSocket, wire, rcvData, event, line, ghosts, file,
                 outside, acked>>

ReaderLock ==
  /\ Take("reader", "lock", "write")
  /\ UNCHANGED <<flags, answer, wire, rcvData, event, line, ghosts, file,
                 outside, acked>>

ReaderWrite ==
  /\ Moves("reader", "write", "read")
  /\ Write(<<>>)
  /\ mutexSocket' = "none"
  /\ UNCHANGED <<flags, answer, toDaemon, rcvData, event, line, ghosts, file,
                 outside, acked>>

ReaderStep == ReaderRead \/ ReaderEof \/ ReaderLock \/ ReaderWrite
              \/ SigPipe("reader", "write")
-----------------------------------------------------------------------------
(* The server and its host.                                                *)
ServerAnswers ==
  /\ up /\ conn = "open" /\ toServer # <<>>
  /\ toServer' = Tail(toServer)
  /\ \/ /\ served' = Append(served, Head(toServer))
        /\ toDaemon' = Append(toDaemon, "ok")
        /\ UNCHANGED refused
     \/ /\ MayRefuse
        /\ refused' = refused \cup {Head(toServer)}
        /\ toDaemon' = Append(toDaemon, "error")
        /\ UNCHANGED served
  /\ UNCHANGED <<flags, answer, mutexSocket, conn, rcvData, at, event, line,
                 ghosts, file, up, outages, closes, queries, acked>>

ServerAsks ==
  /\ up /\ conn = "open" /\ queries < MaxQueries
  /\ queries' = queries + 1
  /\ toDaemon' = Append(toDaemon, "query")
  /\ UNCHANGED <<flags, answer, mutexSocket, conn, toServer, rcvData, at, event,
                 line, ghosts, file, up, outages, closes, served, refused, acked>>

\* The server program ends; its host still answers pings.
ServerCloses ==
  /\ up /\ conn = "open" /\ closes < MaxCloses
  /\ closes' = closes + 1
  /\ conn' \in {"eof", "reset"} /\ toServer' = <<>>
  /\ UNCHANGED <<flags, answer, mutexSocket, toDaemon, rcvData, at, event, line,
                 ghosts, file, up, outages, queries, served, refused, acked>>

HostChanges ==
  /\ up' = ~up
  /\ outages' = IF up THEN outages + 1 ELSE outages
  /\ outages' <= MaxOutages
  /\ UNCHANGED <<flags, answer, mutexSocket, wire, rcvData, at, event, line,
                 ghosts, file, closes, queries, served, refused, acked>>

LinkNext == PingServerStep \/ DataEvent \/ DeliverStep \/ ReaderStep \/ GhostLock
        \/ ServerAnswers \/ ServerAsks \/ ServerCloses \/ HostChanges

LinkSpec == LinkInit /\ [][LinkNext]_linkVars

(* The threads run, and a server that gets an event answers it. Events,    *)
(* queries and the end of an outage are owed to nobody.                    *)
LinkFairSpec ==
  /\ LinkSpec
  /\ WF_linkVars(PingServerStep) /\ WF_linkVars(DeliverStep)
  /\ WF_linkVars(ReaderStep)
  /\ WF_linkVars(GhostLock) /\ WF_linkVars(ServerAnswers)
-----------------------------------------------------------------------------
LinkTypeOK ==
  /\ {serverStatusOk, reconnectServer, haveEvent, serverResponse} \subseteq BOOLEAN
  /\ semSerRes \in 0..MaxPosts
  /\ mutexSocket \in Threads \cup {"none", "lost"}
  /\ conn \in {"closed", "fresh", "open", "eof", "reset"}
  /\ toServer \in Seq(EventNos) /\ toDaemon \in Seq(Answers \cup {"query"})
  /\ rcvData \in Answers \cup {"query", "nothing"}
  /\ at \in [Threads -> {"first", "start", "none", "dead", "sleep", "online",
                         "connect", "connected", "ask", "nofile", "lock",
                         "line", "wait", "judge", "remove", "unflag", "idle",
                         "check", "write", "append", "flag", "read"}]
  /\ event \in EventNos /\ line \in 1..(MaxEvents + 2)
  /\ ghosts \in 0..MaxOutages
  /\ fileThere \in BOOLEAN /\ fileLines \in Seq(EventNos)
  /\ up \in BOOLEAN /\ outages \in 0..MaxOutages /\ closes \in 0..MaxCloses
  /\ queries \in 0..MaxQueries
  /\ served \in Seq(EventNos) /\ refused \subseteq EventNos
  /\ acked \subseteq EventNos

(* No event reaches the server twice while the daemon runs, though each can*)
(* be in the file, on the wire and in the data thread's buffer: what was   *)
(* sent from the file is removed with it and never sent again.             *)
ServedOnce ==
  /\ \A i, j \in DOMAIN served : served[i] = served[j] => i = j
  /\ ToSet(served) \cap refused = {}

\* Where answers are in what comes from the server.
AnswersAt == {i \in DOMAIN toDaemon : toDaemon[i] \in Answers}

(* mutex_socket keeps exchanges apart: of events under way, answers under  *)
(* way and posts nobody has taken there is at most one together, so that a *)
(* thread can only wake up on the answer to its own event.                 *)
OneExchange ==
  closes = 0 => Len(toServer) + Cardinality(AnswersAt) + semSerRes <= 1

(* "server response ok" is printed only of events that the server has had, *)
(* however outages, answers lost with the connection and the cancelled     *)
(* reader fall in between, while the server keeps its end open.            *)
AnswerBelongs == closes = 0 => acked \subseteq ToSet(served)

Arrived(e) == e \in ToSet(served) \cup refused
Held(e) == \/ e \in ToSet(toServer) \cup ToSet(fileLines)
           \/ e = event /\ at["data"] \in {"check", "lock", "write", "append"}

(* With a host that stays there once it is there, every event copied from  *)
(* can_rcv_buf is at the server, on the way, in the file or in the data    *)
(* thread's hands: none falls between the file, its flag and the rm.       *)
NothingLost == \A e \in 1..event : Arrived(e) \/ Held(e)

(* And all of them, those from before it was connected and those that an   *)
(* earlier life of the daemon left in the file, arrive in the end.         *)
EveryEventArrives ==
  <>[]up =>
    \A e \in EventNos :
      (e \in ToSet(fileLines) \/ (e = event /\ at["data"] = "check")) ~> Arrived(e)

(* "When the ping succeeds, the server being on line, the ping thread sends*)
(* the data in this text to the server" (1.txt line 8), unless a signal has*)
(* ended the daemon.                                                       *)
SentWhenBack ==
  <>[]up => (fileLines # <<>> ~> (fileLines = <<>> \/ at["ping"] = "dead"))
=============================================================================
