----------------------------- MODULE EventBuffer -----------------------------
(***************************************************************************)
(* The shared event buffer can_rcv_buf of the public_resource daemon and   *)
(* the three threads that meet in it:                                      *)
(*                                                                         *)
(*   "can"   pthread_can_rcv: assembles the packages the controller sends  *)
(*           in CAN frames, numbers the events of a complete package,      *)
(*           signals "data", stores the events, waits for sem, clears;     *)
(*   "ping"  pthread_ping_device: raises camera events, numbers them and   *)
(*           puts them in the same buffer, guarded by ping_data_sem;       *)
(*   "data"  pthread_datato_server: waits on cond_datato_server, copies    *)
(*           the buffer, posts sem, delivers its copy.                     *)
(*                                                                         *)
(* The buffer is modelled in cells, one per CAN frame: a package is a      *)
(* header cell, which carries the length and the number of events, and one *)
(* cell per event, which carries the event's number once it is filled in.  *)
(* A bzero or one pass over the events is one step, and so is the memcpy   *)
(* of a frame with its counting: the alarm has just been renewed then.     *)
(***************************************************************************)
EXTENDS Integers, Sequences, SequencesExt

CONSTANTS
  CanPackages,    \* the packages the controller may send, each at most once
  PingPackages,   \* the camera events the ping thread may raise, likewise
  NoPkg,          \* what a zeroed cell holds
  Kind,           \* CanPackages -> {"event", "show", "other"}: bytes 9 and 10
  Events,         \* package -> how many events it carries (byte 37)
  Cap,            \* bound: how many cells of the buffer the model has
  FirstEventNo,   \* what eventno.txt holds when the daemon is installed
  MaxRestarts,    \* bound: how often the daemon is stopped and started
  FilesMayFail,   \* eventno.txt may be missing, for as long as nobody puts it
                  \* there; devstatus_<id> may not open, now and then: the
                  \* store returns early
  MaxSpurious     \* bound: how often pthread_cond_wait returns unsignalled

Packages == CanPackages \cup PingPackages
Producers == {"can", "ping"}

ASSUME ConstantsAssumption ==
  /\ NoPkg \notin Packages
  /\ CanPackages \cap PingPackages = {}
  /\ Kind \in [CanPackages -> {"event", "show", "other"}]
  /\ Events \in [Packages -> Nat \ {0}]
  /\ \A p \in PingPackages : Events[p] = 1
  /\ Cap \in Nat \ {0} /\ \A p \in Packages : Events[p] < Cap
  /\ FirstEventNo \in Nat /\ MaxRestarts \in Nat
  /\ FilesMayFail \in BOOLEAN /\ MaxSpurious \in Nat

VARIABLES
  buf, count, datalen,  \* can_rcv_buf, count and datalen, in cells
  alarm,                \* an alarm(1) is running
  pingDataSem, sem,     \* the semaphores ping_data_sem and sem
  mutexEventno,         \* who holds mutex_eventno, or "none"
  eventno,              \* the number in eventno.txt, -1 when it does not open
  pc,                   \* where each thread is
  frame,                \* the frame pthread_can_rcv has read
  pkg,                  \* the package each producer is working on
  from, to,             \* each producer's local eventno: read, and counted up
  mcu, unsent,          \* the controller: what it is sending, what is left
  unraised,             \* the camera events that have not happened yet
  restarts, spurious,   \* how often those two happened
  issued, uploads, stored, answered \* history, see TypeOK

bufVars == <<buf, count, datalen>>
locks == <<pingDataSem, sem, mutexEventno, eventno>>
locals == <<frame, pkg, from, to>>
mcuVars == <<mcu, unsent, unraised>>
counters == <<restarts, spurious>>
world == <<mcuVars, counters>>
history == <<issued, uploads, stored, answered>>
state == <<bufVars, alarm, locks, locals, world, history>>
vars == <<state, pc>>

Cells == [pkg : Packages \cup {NoPkg}, slot : Nat, no : Nat]
Cell(p, slot, no) == [pkg |-> p, slot |-> slot, no |-> no]
Zero == Cell(NoPkg, 0, 0)
Empty == [i \in 1..Cap |-> Zero]

\* buf[8]*256+buf[7]. The bytes a misplaced event cell has there are anything.
Lengths(c) == CASE c.pkg = NoPkg -> {0}
                [] c.pkg # NoPkg /\ c.slot = 0 -> {1 + Events[c.pkg]}
                [] OTHER -> 0..Cap

\* buf[37]: how many events the buffer says it carries.
EventCount(b) == IF b[1].pkg = NoPkg THEN 0 ELSE Events[b[1].pkg]

\* Mutant: the loop over the events stops one short.
EventCells_OneShort(b) == SubSeq(b, 2, EventCount(b))

\* The cells of the events in the buffer, as the loops over buf[37] see them.
EventCells(b) == SubSeq(b, 2, 1 + EventCount(b))

\* The CRC over len cells is right: they are one package, whole and in order.
CrcOk(b, len) ==
  /\ b[1].pkg # NoPkg
  /\ len = 1 + Events[b[1].pkg]
  /\ \A i \in 1..len : b[i].pkg = b[1].pkg /\ b[i].slot = i - 1

CanLabels == {"read", "copy", "check", "show", "lock", "number", "write",
              "signal", "store", "waitsem", "clear", "respond"}
PingLabels == {"top", "scan", "lock", "number", "write", "waitbuf", "place",
               "store", "waitsem", "clear"}
DataLabels == {"enter", "waiting", "woken", "deliver"}

\* Where the threads are when main has created them.
Start == [t \in Producers \cup {"data"} |->
            IF t = "can" THEN "read" ELSE IF t = "ping" THEN "top" ELSE "enter"]

Init ==
  /\ buf = Empty /\ count = 0 /\ datalen = 0 /\ alarm = FALSE
  /\ pingDataSem = 1 /\ sem = 0
  /\ mutexEventno = "none"
  /\ eventno = FirstEventNo \/ (FilesMayFail /\ eventno = -1)
  /\ pc = Start
  /\ frame = Zero
  /\ pkg = [t \in Producers |-> NoPkg]
  /\ from = [t \in Producers |-> 0] /\ to = [t \in Producers |-> 0]
  /\ mcu = [pkg |-> NoPkg, slot |-> 0] /\ unsent = CanPackages
  /\ unraised = PingPackages
  /\ restarts = 0 /\ spurious = 0
  /\ issued = <<>> /\ uploads = <<>> /\ stored = <<>> /\ answered = {}

Goto(t, from_pc, to_pc) == pc[t] = from_pc /\ pc' = [pc EXCEPT ![t] = to_pc]

ClearBuf == buf' = Empty /\ count' = 0 /\ datalen' = 0

\* pthread_cond_signal: lost unless the thread waits. w is pc to be changed.
Woken(w) == IF w.data = "waiting" THEN [w EXCEPT !.data = "woken"] ELSE w
-----------------------------------------------------------------------------
(* The controller: it sends the next frame of its package, or gives the   *)
(* rest of it up and starts another one.                                  *)
SendFrame(f) ==
  \/ /\ mcu.pkg # NoPkg
     /\ f = Cell(mcu.pkg, mcu.slot, 0)
     /\ mcu' = IF mcu.slot = Events[mcu.pkg] THEN [pkg |-> NoPkg, slot |-> 0]
               ELSE [mcu EXCEPT !.slot = @ + 1]
     /\ UNCHANGED unsent
  \/ \E p \in unsent :
       /\ f = Cell(p, 0, 0)
       /\ mcu' = [pkg |-> p, slot |-> 1]
       /\ unsent' = unsent \ {p}

(* pthread_can_rcv: one frame.                                            *)
CanRead ==
  /\ Goto("can", "read", "copy")
  /\ count < Cap
  /\ SendFrame(frame')
  /\ pingDataSem' = 0
  /\ alarm' = TRUE
  /\ UNCHANGED <<history, bufVars, counters, sem, mutexEventno, eventno, pkg,
                 from, to, unraised>>

\* It is appended, with its bytes counted and the length read. The alarm has
\* just been renewed, so that the handler does not come between these.
CanCopy ==
  /\ Goto("can", "copy", "check")
  /\ buf' = [buf EXCEPT ![count + 1] = frame]
  /\ count' = count + 1
  /\ datalen' \in IF count' > 1 THEN Lengths(buf'[1]) ELSE {datalen}
  /\ UNCHANGED <<world, locks, locals, history, alarm>>

PackageComplete == count > 0 /\ count = datalen

CanIncomplete ==
  /\ Goto("can", "check", "read")
  /\ ~PackageComplete
  /\ UNCHANGED state

\* The CRC is wrong or the type is neither 0x70 nor 0x72 0x81: the buffer and
\* its counts stay as they are.
CanReject ==
  /\ Goto("can", "check", "read")
  /\ PackageComplete
  /\ CrcOk(buf, datalen) =>
       buf[1].pkg \in CanPackages /\ Kind[buf[1].pkg] = "other"
  /\ alarm' = FALSE
  /\ pingDataSem' = 1
  /\ UNCHANGED <<world, locals, history, bufVars, sem, mutexEventno, eventno>>

\* A good package: on to the show data branch or to the event branch. A camera
\* event put there by the ping thread is of type 0x70 too.
CanAccept ==
  /\ pc["can"] = "check"
  /\ PackageComplete
  /\ CrcOk(buf, datalen)
  /\ LET p == buf[1].pkg
         k == IF p \in CanPackages THEN Kind[p] ELSE "event"
     IN /\ k # "other"
        /\ pkg' = [pkg EXCEPT !["can"] = p]
        /\ pc' = [pc EXCEPT !["can"] = IF k = "event" THEN "lock" ELSE "show"]
  /\ alarm' = FALSE
  /\ UNCHANGED <<world, locks, history, bufVars, frame, from, to>>

CanShow ==
  /\ Goto("can", "show", "read")
  /\ ClearBuf
  /\ pingDataSem' = 1
  /\ UNCHANGED <<world, locals, history, alarm, sem, mutexEventno, eventno>>

CanNumber ==
  /\ Goto("can", "number", "write")
  /\ from' = [from EXCEPT !["can"] = eventno]
  /\ to' = [to EXCEPT !["can"] = eventno + EventCount(buf)]
  /\ buf' = [i \in 1..Cap |->
               IF i \in 2..(1 + EventCount(buf))
               THEN [buf[i] EXCEPT !.no = eventno + i - 1] ELSE buf[i]]
  /\ UNCHANGED <<world, locks, history, count, datalen, alarm, frame, pkg>>

Announce(answers) ==
  /\ pc["can"] = "signal"
  /\ pc' = Woken([pc EXCEPT !["can"] = "store"])
  /\ answered' = answers
  /\ UNCHANGED <<bufVars, alarm, locks, locals, world, issued, uploads, stored>>

\* Mutant: the right response goes out before the events are stored.
CanSignal_Answers == Announce(answered \cup {pkg["can"]})

CanSignal == Announce(answered)

CanRespond ==
  /\ Goto("can", "respond", "read")
  /\ answered' = answered \cup {pkg["can"]}
  /\ pingDataSem' = 1
  /\ UNCHANGED <<world, locals, bufVars, alarm, sem, mutexEventno, eventno,
                 issued, uploads, stored>>

\* can_rcv_timeout, the SIGALRM handler: in any thread, at any moment.
Timeout ==
  /\ alarm
  /\ alarm' = FALSE
  /\ ClearBuf
  /\ UNCHANGED <<world, locks, locals, history, pc>>
-----------------------------------------------------------------------------
(* What both producers do: number under mutex_eventno, and                *)
(* store_event_intodatabase.                                              *)
Acquire(t) ==
  /\ Goto(t, "lock", "number")
  /\ mutexEventno' = t
  /\ UNCHANGED <<bufVars, alarm, pingDataSem, sem, eventno, locals, world,
                 history>>

\* Mutant: mutex_eventno is not waited for.
LockEventno_NoWait(t) == Acquire(t)

LockEventno(t) == mutexEventno = "none" /\ Acquire(t)

\* What writes the number back and what happens to the mutex.
WriteBack(t, number, holder) ==
  /\ Goto(t, "write", IF t = "can" THEN "signal" ELSE "waitbuf")
  /\ eventno' = number
  /\ mutexEventno' = holder
  /\ issued' = Append(issued, [pkg |-> pkg[t], from |-> from[t], to |-> to[t]])
  /\ UNCHANGED <<world, locals, bufVars, alarm, pingDataSem, sem, uploads,
                 stored, answered>>

\* Mutants: the file is not written; the mutex is not released.
WriteEventno_NotSaved(t) == WriteBack(t, eventno, "none")
WriteEventno_KeepsLock(t) == WriteBack(t, to[t], t)

\* Nothing is written to a file that does not open.
WriteEventno(t) == WriteBack(t, IF eventno = -1 THEN -1 ELSE to[t], "none")

\* What follows the call of store_event_intodatabase.
Return(t) == IF t = "can" THEN "respond" ELSE "scan"

Store(t) ==
  /\ Goto(t, "store", "waitsem")
  /\ stored' = stored \o EventCells(buf)
  /\ UNCHANGED <<world, locks, locals, bufVars, alarm, issued, uploads,
                 answered>>

\* A status or fault file does not open: return before sem_wait and bzero.
StoreFails(t) ==
  /\ FilesMayFail
  /\ Goto(t, "store", Return(t))
  /\ \E n \in 0..(EventCount(buf) - 1) :
       stored' = stored \o SubSeq(buf, 2, 1 + n)
  /\ UNCHANGED <<world, locks, locals, bufVars, alarm, issued, uploads,
                 answered>>

TakeSem(t, left) ==
  /\ Goto(t, "waitsem", "clear")
  /\ sem' = left
  /\ UNCHANGED <<bufVars, alarm, pingDataSem, mutexEventno, eventno, locals,
                 world, history>>

\* Mutants: sem_trywait instead of sem_wait; sem taken without a look at it.
WaitSem_Try(t) == TakeSem(t, IF sem > 0 THEN sem - 1 ELSE 0)
WaitSem_Unguarded(t) == TakeSem(t, sem - 1)

WaitSem(t) == sem > 0 /\ TakeSem(t, sem - 1)

Clear(t) ==
  /\ Goto(t, "clear", Return(t))
  /\ ClearBuf
  /\ UNCHANGED <<world, locks, locals, history, alarm>>
-----------------------------------------------------------------------------
(* pthread_ping_device.                                                   *)
PingTop ==
  /\ Goto("ping", "top", "scan")
  /\ pingDataSem' = 1
  /\ UNCHANGED <<world, locals, history, bufVars, alarm, sem, mutexEventno,
                 eventno>>

\* All devices are done: sleep, and start over.
PingSleep ==
  /\ Goto("ping", "scan", "top")
  /\ UNCHANGED state

\* A camera's answer to two pings differs from its status file.
PingRaise ==
  /\ Goto("ping", "scan", "lock")
  /\ \E p \in unraised : /\ pkg' = [pkg EXCEPT !["ping"] = p]
                         /\ unraised' = unraised \ {p}
  /\ UNCHANGED <<locks, history, bufVars, counters, alarm, frame, from, to,
                 mcu, unsent>>

PingNumber ==
  /\ Goto("ping", "number", "write")
  /\ from' = [from EXCEPT !["ping"] = eventno]
  /\ to' = [to EXCEPT !["ping"] = eventno + 1]
  /\ UNCHANGED <<world, locks, history, bufVars, alarm, frame, pkg>>

\* sem_wait(&ping_data_sem). The sem_init calls of others on a semaphore with
\* a waiter are undefined: the waiter may see the new value, or never wake (no
\* fairness is stated for this action).
PingTakeBuf ==
  /\ Goto("ping", "waitbuf", "place")
  /\ pingDataSem > 0
  /\ pingDataSem' = pingDataSem - 1
  /\ UNCHANGED <<world, locals, history, bufVars, alarm, sem, mutexEventno,
                 eventno>>

PingPlace ==
  /\ pc["ping"] = "place"
  /\ buf' = [buf EXCEPT ![1] = Cell(pkg["ping"], 0, 0),
                        ![2] = Cell(pkg["ping"], 1, to["ping"])]
  /\ pc' = Woken([pc EXCEPT !["ping"] = "store"])
  /\ UNCHANGED <<world, locks, locals, history, count, datalen, alarm>>
-----------------------------------------------------------------------------
(* pthread_datato_server.                                                 *)
DataWait ==
  /\ Goto("data", "enter", "waiting")
  /\ UNCHANGED state

DataWakeSpuriously ==
  /\ spurious < MaxSpurious
  /\ spurious' = spurious + 1
  /\ Goto("data", "waiting", "woken")
  /\ UNCHANGED <<locks, locals, history, bufVars, mcuVars, alarm, restarts>>

TakeCopy(posts) ==
  /\ Goto("data", "woken", "deliver")
  /\ \E len \in Lengths(buf[1]) :
       uploads' = Append(uploads, SubSeq(buf, 1, len))
  /\ sem' = sem + posts
  /\ UNCHANGED <<bufVars, alarm, pingDataSem, mutexEventno, eventno, locals,
                 world, issued, stored, answered>>

\* Mutant: sem is not posted.
DataCopy_NoPost == TakeCopy(0)

DataCopy == TakeCopy(1)

\* Mutant: after an error response the buffer is copied again.
DataDeliver_Again ==
  /\ \/ Goto("data", "deliver", "enter")
     \/ Goto("data", "deliver", "woken")
  /\ UNCHANGED state

\* The copy is written to the server, whose answer is awaited, or to the file
\* of unsent events.
DataDeliver ==
  /\ Goto("data", "deliver", "enter")
  /\ UNCHANGED state
-----------------------------------------------------------------------------
(* The daemon is stopped (ReleaseResource, exit) and started again by     *)
(* main: only eventno.txt and the database survive.                       *)
Restart ==
  /\ restarts < MaxRestarts
  /\ restarts' = restarts + 1
  /\ ClearBuf /\ alarm' = FALSE
  /\ pingDataSem' = 1 /\ sem' = 0 /\ mutexEventno' = "none"
  /\ pc' = Start
  /\ frame' = Zero
  /\ pkg' = [t \in Producers |-> NoPkg]
  /\ from' = [t \in Producers |-> 0] /\ to' = [t \in Producers |-> 0]
  /\ UNCHANGED <<history, mcuVars, eventno, spurious>>

\* What pthread_can_rcv does without the controller.
CanStep ==
  \/ CanCopy \/ CanIncomplete \/ CanReject \/ CanAccept \/ CanShow \/ CanNumber
  \/ CanSignal \/ CanRespond
  \/ LockEventno("can") \/ WriteEventno("can") \/ Store("can")
  \/ StoreFails("can") \/ WaitSem("can") \/ Clear("can")

PingStep ==
  \/ PingTop \/ PingSleep \/ PingRaise \/ PingNumber \/ PingTakeBuf \/ PingPlace
  \/ LockEventno("ping") \/ WriteEventno("ping") \/ Store("ping")
  \/ StoreFails("ping") \/ WaitSem("ping") \/ Clear("ping")

\* The part of it that nobody but the holder of mutex_eventno can delay.
PingNumbers == LockEventno("ping") \/ PingNumber \/ WriteEventno("ping")

DataStep == DataWait \/ DataCopy \/ DataDeliver

Next == CanRead \/ CanStep \/ Timeout \/ PingStep \/ DataStep
        \/ DataWakeSpuriously \/ Restart

Spec == Init /\ [][Next]_vars

(* The threads run, and one that waits for a mutex which is free again and *)
(* again gets it; the controller, the alarm, the wakeup of a waiter on a   *)
(* re-initialised semaphore and the end of the process are owed to nobody. *)
FairSpec == /\ Spec
            /\ WF_vars(CanStep) /\ WF_vars(PingNumbers)
            /\ SF_vars(LockEventno("can")) /\ SF_vars(LockEventno("ping"))
            /\ WF_vars(DataWait \/ DataCopy)

(* Moreover the server answers whatever it is sent.                        *)
FairServerSpec == FairSpec /\ WF_vars(DataDeliver)
-----------------------------------------------------------------------------
(* The history: issued has the numbers written to eventno.txt, with from+1 *)
(* up to to going to one package; uploads the copies pthread_datato_server *)
(* took; stored the rows of event_table; answered the packages whose       *)
(* receipt was confirmed to the controller (right_response_event).         *)
BufOK ==
  /\ buf \in [1..Cap -> Cells] /\ count \in 0..Cap /\ datalen \in 0..Cap
  /\ alarm \in BOOLEAN
Number == Nat \cup IF FilesMayFail THEN {-1} ELSE {}
LocksOK ==
  /\ pingDataSem \in Nat /\ sem \in Nat /\ eventno \in Number
  /\ mutexEventno \in Producers \cup {"none"}
PcOK ==
  /\ pc \in [Producers \cup {"data"} -> CanLabels \cup PingLabels \cup DataLabels]
  /\ pc["can"] \in CanLabels /\ pc["ping"] \in PingLabels
  /\ pc["data"] \in DataLabels
LocalsOK ==
  /\ frame \in Cells
  /\ pkg \in [Producers -> Packages \cup {NoPkg}]
  /\ from \in [Producers -> Number] /\ to \in [Producers -> Number]
  /\ to["ping"] \in Nat
WorldOK ==
  /\ mcu \in [pkg : CanPackages \cup {NoPkg}, slot : Nat]
  /\ unsent \subseteq CanPackages /\ unraised \subseteq PingPackages
  /\ restarts \in 0..MaxRestarts /\ spurious \in 0..MaxSpurious
HistoryOK ==
  /\ issued \in Seq([pkg : Packages \cup {NoPkg}, from : Number, to : Number])
  /\ uploads \in Seq(Seq(Cells)) /\ stored \in Seq(Cells)
  /\ answered \subseteq Packages \cup {NoPkg}

TypeOK == BufOK /\ LocksOK /\ PcOK /\ LocalsOK /\ WorldOK /\ HistoryOK

(* No event number is given out twice, whichever thread numbers, and over  *)
(* restarts: the numbers of a package lie above those of every package     *)
(* numbered before it (mutex_eventno, read_eventno, write_eventno). When   *)
(* eventno.txt is missing the daemon goes on all the same, and gives every *)
(* package the numbers from 0.                                             *)
NumbersUnique ==
  \A i, j \in DOMAIN issued :
    /\ issued[i].from <= issued[i].to
    /\ i < j => IF eventno = -1 THEN issued[j].from = -1
                ELSE issued[i].to <= issued[j].from

(* A number that the server or the database has seen is in eventno.txt     *)
(* already, so that a restart never gives it out again: write_eventno      *)
(* comes before the signal and before the store.                           *)
NumbersDurable ==
  /\ \A c \in ToSet(stored) : c.no <= eventno
  /\ \A u \in ToSet(uploads) : \A c \in ToSet(u) : c.no <= eventno

(* What is sent to the server is a whole package whose events carry the    *)
(* numbers they were given, and events reach it in the order of their      *)
(* numbers: no copy of a buffer half filled, unnumbered or reused.         *)
UploadsWholeInOrder ==
  /\ \A u \in ToSet(uploads) :
       /\ u # <<>> /\ CrcOk(u, Len(u))
       /\ \A i \in 2..Len(u) : u[i].no > FirstEventNo
       /\ \A i, j \in 2..Len(u) : i < j => u[i].no < u[j].no
  /\ \A i, j \in DOMAIN uploads : i < j =>
       \A a \in 2..Len(uploads[i]), b \in 2..Len(uploads[j]) :
         uploads[i][a].no < uploads[j][b].no

\* The cells of the events the server was sent.
UploadedEvents == UNION {{u[i] : i \in 2..Len(u)} : u \in ToSet(uploads)}

(* The events the server was sent and the rows of event_table are the same *)
(* whenever pthread_can_rcv is back at its read: the two readers of the    *)
(* buffer have both had every package. They are in the same order, too:    *)
(* the rows, like the events sent, stand in that of their numbers.         *)
RecordsAgree ==
  /\ restarts = 0 /\ pc["can"] = "read" => UploadedEvents = ToSet(stored)
  /\ \A i, j \in DOMAIN stored : i < j => stored[i].no < stored[j].no

(* The controller is told that a package arrived only when its events are  *)
(* in the database and in the hands of the server thread (line 781).       *)
AnsweredIsKept ==
  \A p \in answered :
    /\ \E c \in ToSet(stored) : c.pkg = p
    /\ \E u \in ToSet(uploads) : u[1].pkg = p

NumberedCells(b) == {b[i] : i \in {k \in 1..Cap : b[k].no > 0}}

CopiedCells == UNION {ToSet(u) : u \in ToSet(uploads)}

(* Numbered events leave the buffer, by bzero, the timeout or being written*)
(* over, only after the server thread has copied them, unless the daemon   *)
(* itself is stopped.                                                      *)
ClearedAfterTaken ==
  [][restarts' = restarts =>
       NumberedCells(buf) \ NumberedCells(buf') \subseteq CopiedCells]_vars

(* Towards the server and the database the buffer is a HandOff: every      *)
(* package announced reaches each of them once, in the same order, and is  *)
(* released only then, unless the process itself ends.                     *)
Handed == pc["can"] \in {"signal", "store", "waitsem", "clear"}
Promise == INSTANCE HandOff WITH
  Package <- CanPackages,
  None <- NoPkg,
  slot <- IF Handed THEN pkg["can"] ELSE NoPkg,
  sent <- [p \in CanPackages |-> {i \in DOMAIN uploads : uploads[i][1].pkg = p}],
  saved <- [p \in CanPackages |->
              {i \in DOMAIN stored : stored[i].pkg = p /\ stored[i].slot = 1}],
  losses <- restarts
Implements == Promise!Spec

(* A woken server thread gets the package's producer out of its wait: once *)
(* the signal was heard, pthread_can_rcv comes back to read the next frame.*)
HeardIsFinished == pc["data"] = "woken" ~> pc["can"] = "read"

(* Two threads number events, and neither waits for the mutex for ever: a  *)
(* good event package always gets its numbers and is signalled, and so     *)
(* does a camera event, which then waits for the buffer. Either thread may *)
(* be started anew instead.                                                *)
NumberingCompletes ==
  /\ pc["can"] = "lock" ~> pc["can"] \in {"store", "read"}
  /\ pc["ping"] = "lock" ~> pc["ping"] \in {"waitbuf", "top"}

(* "The data is complete: tell the datato_server thread a package of live  *)
(* data has arrived, which it sends to the server" (line 777): the thread  *)
(* hears of every package after the first one it has sent.                 *)
SignalIsHeard == pc["can"] = "signal" /\ uploads # <<>> ~> pc["data"] = "woken"
=============================================================================
