----------------------------- MODULE DeviceStatus -----------------------------
(***************************************************************************)
(* What the daemon remembers of every device: the file devstatus_<id>,     *)
(* which holds the status (1 good, 2 off line, 3 no power, 4 abnormal) and *)
(* the number of faults, and the file fault/fault_<id>, to which the time  *)
(* of every fault and of every recovery is appended in turn.               *)
(*                                                                         *)
(*   "can"   pthread_can_rcv receives the controller's events and runs     *)
(*           store_event_intodatabase on each;                             *)
(*   "ping"  pthread_ping_device reads a camera's status file, pings, and  *)
(*           runs store_event_intodatabase on an event of its own.         *)
(*                                                                         *)
(* Both producers hand their event over in can_rcv_buf (here slot), which  *)
(* the store reads more than once. A package is one event, received whole: *)
(* EventBuffer models the frames. Of the fault log only its length counts. *)
(***************************************************************************)
EXTENDS Integers, Sequences, FiniteSets

CONSTANTS
  Device,        \* the devices dev_set.cgi has created
  Class,         \* byte 54: which case of the outer switch
  Conditions,    \* <<device, type>>: what can be well or not with a device
  NoEvent,       \* what slot is when can_rcv_buf is zeroed
  Repeats,       \* the controller may report what it has reported before
  FilesMayFail,  \* an fopen may return NULL
  MaxChanges,    \* bound: how many changes and reports there are
  MaxCrashes     \* bound: how often the daemon is killed

Events == [dev : Device, type : {c[2] : c \in Conditions} \cup {"A0"}, value : 1..2]

ASSUME ConstantsAssumption ==
  /\ Device # {} /\ NoEvent \notin Events
  /\ Class \in [Device -> {"camera", "terminal", "light", "sensor", "cabinet"}]
  /\ Conditions \subseteq
       Device \X {"70", "71", "72", "A0", "on", "33", "35", "door"}
  /\ Repeats \in BOOLEAN /\ FilesMayFail \in BOOLEAN
  /\ MaxChanges \in Nat /\ MaxCrashes \in Nat

Producers == {"can", "ping"}
Cameras == {d \in Device : Class[d] = "camera"}

\* The network of a camera is watched by pings, all else by the controller.
Pinged == {c \in Conditions : c[1] \in Cameras /\ c[2] = "A0"}
Reported == Conditions \ Pinged

VARIABLES
  ok,           \* the world: which conditions are well
  inbox,        \* packages on the CAN bus that have not been read
  slot,         \* the event in can_rcv_buf
  count,        \* what count says: the next frame is not copied to the start
  alarm,        \* the alarm is set, as part of a package is taken to be missing
  pingDataSem,  \* the semaphore ping_data_sem
  file,         \* devstatus_<id>; status 0 stands for an empty file
  logged,       \* how many lines fault_<id> has
  pc,           \* where each thread is
  todo,         \* the cameras "ping" has not come to in this round
  dev,          \* the device each thread works on
  old, out,     \* each producer: contents it has read, and not yet written
  seen,         \* the status "ping" has read
  changes, crashes

world == <<ok, inbox, changes>>
buffer == <<slot, count, alarm>>
files == <<file, logged>>
stores == <<old, out>>
local == <<todo, dev, stores, seen>>
vars == <<world, buffer, pingDataSem, files, pc, local, crashes>>

Contents(s, n) == [status |-> s, count |-> n]
Emptied == Contents(0, 0)
AnyContents == [status : 0..4, count : 0..MaxChanges]

Start == [t \in Producers |-> "idle"]
NoDev == CHOOSE d \in Device : TRUE

Init ==
  /\ ok = [c \in Conditions |-> TRUE] /\ inbox = <<>> /\ changes = 0
  /\ slot = NoEvent /\ count = FALSE /\ alarm = FALSE /\ pingDataSem = 1
  /\ file = [d \in Device |-> Contents(1, 0)]
  /\ logged = [d \in Device |-> 0]
  /\ pc = Start
  /\ todo = {} /\ dev = [t \in Producers |-> NoDev]
  /\ old = [t \in Producers |-> Emptied] /\ out = [t \in Producers |-> Emptied]
  /\ seen = 0
  /\ crashes = 0

Goto(t, from, to) == pc[t] = from /\ pc' = [pc EXCEPT ![t] = to]

\* Reading an empty file: getline fails and its buffer holds anything.
Reading(f) == IF f = Emptied THEN AnyContents ELSE {f}
-----------------------------------------------------------------------------
(* The switch over object, type and value: what is written to the status   *)
(* file and after which old status a line is appended to the fault log.    *)
Event(c, value) == [dev |-> c[1], type |-> c[2], value |-> value]

Nothing == [writes |-> FALSE, status |-> 0, counts |-> 0, logsAfter |-> {}]
Sets(status, after) ==
  [writes |-> TRUE, status |-> status, counts |-> 0, logsAfter |-> after]
Counts(status, after) == [Sets(status, after) EXCEPT !.counts = 1]

\* Mutant: every fault is logged, whatever the status was.
FailsAndRecovers_LogsAll(e, bad) ==
  IF e.value = 1 THEN Sets(1, {bad}) ELSE Counts(bad, 0..4)

\* Mutant: a recovery leaves the status as it is written for a fault.
FailsAndRecovers_NoRecovery(e, bad) ==
  IF e.value = 1 THEN Sets(bad, {}) ELSE Counts(bad, {1})

\* Mutant: the fault is not counted.
FailsAndRecovers_NoCount(e, bad) ==
  IF e.value = 1 THEN Sets(1, {bad}) ELSE Sets(bad, {1})

\* A fault leaves the good status, its end comes back to it.
FailsAndRecovers(e, bad) ==
  IF e.value = 1 THEN Sets(1, {bad}) ELSE Counts(bad, {1})

Effect(e) ==
  LET case == <<Class[e.dev], e.type>>
  IN CASE case \in {<<"camera", "A0">>, <<"sensor", "on">>} ->
            FailsAndRecovers(e, 2)
       [] case \in {<<"terminal", "72">>, <<"light", "70">>} ->
            FailsAndRecovers(e, 3)
       [] case = <<"camera", "70">> ->
            IF e.value = 1 THEN Sets(2, {}) ELSE Counts(3, {1})
       [] case = <<"light", "71">> ->
            IF e.value = 1 THEN Sets(1, {}) ELSE Sets(4, {})
       [] case = <<"cabinet", "35">> ->
            IF e.value = 1 THEN Sets(1, 0..4) ELSE Counts(1, 0..4)
       [] case = <<"cabinet", "33">> -> Counts(1, 0..4)
       [] OTHER -> Nothing
-----------------------------------------------------------------------------
(* The controller and the network: a condition changes, and unless pings   *)
(* watch it the controller says so, and perhaps says it again.             *)
Report(c) == inbox' = IF c \in Reported
                      THEN Append(inbox, Event(c, IF ok'[c] THEN 1 ELSE 2))
                      ELSE inbox

Change(c) ==
  /\ changes < MaxChanges
  /\ changes' = changes + 1
  /\ \/ ok' = [ok EXCEPT ![c] = ~@]
     \/ Repeats /\ c \in Reported /\ ok' = ok
  /\ Report(c)
  /\ UNCHANGED <<buffer, pingDataSem, files, pc, local, crashes>>

\* pthread_can_rcv has a whole good package.
CanReceive ==
  /\ Goto("can", "idle", "open")
  /\ inbox # <<>> /\ ~count
  /\ slot' = Head(inbox) /\ inbox' = Tail(inbox)
  /\ count' = TRUE /\ alarm' = FALSE
  /\ pingDataSem' = 0
  /\ UNCHANGED <<ok, changes, files, local, crashes>>

\* A package behind the bytes that a store which gave up has left in the
\* buffer never gets the length they say: nobody looks at it.
CanAppend ==
  /\ pc["can"] = "idle"
  /\ inbox # <<>> /\ count
  /\ inbox' = Tail(inbox)
  /\ alarm' = TRUE
  /\ pingDataSem' = 0
  /\ UNCHANGED <<ok, changes, slot, count, files, pc, local, crashes>>

\* can_rcv_timeout. It leaves ping_data_sem as it is.
Timeout ==
  /\ alarm
  /\ slot' = NoEvent /\ count' = FALSE /\ alarm' = FALSE
  /\ UNCHANGED <<world, pingDataSem, files, pc, local, crashes>>
-----------------------------------------------------------------------------
(* store_event_intodatabase, run by thread t. old and out are its locals,  *)
(* reset when they are used up.                                            *)

\* It returns to its caller; pthread_can_rcv then frees the buffer for others.
Return(t) ==
  /\ pc' = [pc EXCEPT ![t] = "idle"]
  /\ pingDataSem' = IF t = "can" THEN 1 ELSE pingDataSem

\* The id of the event, and what the status file of that device says.
Open(t) ==
  /\ slot # NoEvent
  /\ Goto(t, "open", "rewrite")
  /\ dev' = [dev EXCEPT ![t] = slot.dev]
  /\ \E f \in Reading(file[slot.dev]) : old' = [old EXCEPT ![t] = f]
  /\ UNCHANGED <<world, buffer, pingDataSem, files, todo, out, seen, crashes>>

\* The buffer was cleared meanwhile: it says that it carries no event.
OpenNothing(t) ==
  /\ slot = NoEvent
  /\ Goto(t, "open", "clear")
  /\ UNCHANGED <<world, buffer, pingDataSem, files, local, crashes>>

OpenFails(t) ==
  /\ FilesMayFail
  /\ pc[t] = "open" /\ Return(t)
  /\ UNCHANGED <<world, buffer, files, local, crashes>>

\* What the event, as the buffer has it now, does to the device read above:
\* the status file is truncated, the log written, the new status buffered.
Apply(t, effect, logs) ==
  /\ Goto(t, "rewrite", "close")
  /\ file' = [file EXCEPT ![dev[t]] = Emptied]
  /\ logged' = [logged EXCEPT ![dev[t]] = IF logs THEN @ + 1 ELSE @]
  /\ out' = [out EXCEPT ![t] =
               IF effect.writes
               THEN Contents(effect.status, old[t].count + effect.counts)
               ELSE Emptied]
  /\ old' = [old EXCEPT ![t] = Emptied]
  /\ UNCHANGED <<world, buffer, pingDataSem, todo, dev, seen, crashes>>

EffectNow == IF slot = NoEvent THEN Nothing ELSE Effect(slot)
Logs(t) == old[t].status \in EffectNow.logsAfter

\* Mutant: an event that changes nothing leaves after the file was opened.
Rewrite_SkipsSame(t) ==
  Apply(t, IF EffectNow.status = old[t].status THEN Nothing ELSE EffectNow, Logs(t))

Rewrite(t) == Apply(t, EffectNow, Logs(t))

\* The fault log does not open: the stream is never closed, nothing written.
RewriteFails(t) ==
  /\ FilesMayFail
  /\ Logs(t)
  /\ pc[t] = "rewrite" /\ Return(t)
  /\ file' = [file EXCEPT ![dev[t]] = Emptied]
  /\ old' = [old EXCEPT ![t] = Emptied]
  /\ UNCHANGED <<world, buffer, logged, todo, dev, out, seen, crashes>>

\* fclose writes what is buffered. (The row of event_table follows.)
Close(t) ==
  /\ Goto(t, "close", "clear")
  /\ file' = IF out[t] = Emptied THEN file ELSE [file EXCEPT ![dev[t]] = out[t]]
  /\ out' = [out EXCEPT ![t] = Emptied]
  /\ UNCHANGED <<world, buffer, pingDataSem, logged, todo, dev, old, seen, crashes>>

\* The server thread has its copy; the buffer is zeroed.
Clear(t) ==
  /\ pc[t] = "clear" /\ Return(t)
  /\ slot' = NoEvent /\ count' = FALSE
  /\ UNCHANGED <<world, alarm, files, local, crashes>>

StoreStep(t) == Open(t) \/ OpenNothing(t) \/ OpenFails(t) \/ Rewrite(t)
                \/ RewriteFails(t) \/ Close(t) \/ Clear(t)
-----------------------------------------------------------------------------
(* pthread_ping_device.                                                    *)
\* A new round over the cameras begins.
PingTop ==
  /\ pc["ping"] = "idle" /\ todo = {}
  /\ todo' = Cameras
  /\ pingDataSem' = 1
  /\ UNCHANGED <<world, buffer, files, pc, dev, stores, seen, crashes>>

\* Only a camera that was good or off line is pinged.
PingSkip(d) ==
  /\ pc["ping"] = "idle" /\ d \in todo
  /\ file[d].status \notin {1, 2}
  /\ todo' = todo \ {d}
  /\ UNCHANGED <<world, buffer, pingDataSem, files, pc, dev, stores, seen, crashes>>

PingRead(d) ==
  /\ Goto("ping", "idle", "pinging") /\ d \in todo
  /\ file[d].status \in {1, 2}
  /\ todo' = todo \ {d}
  /\ dev' = [dev EXCEPT !["ping"] = d]
  /\ seen' = file[d].status
  /\ UNCHANGED <<world, buffer, pingDataSem, files, stores, crashes>>

Answers(d) == \A c \in Conditions : c[1] = d /\ c[2] \in {"70", "A0"} => ok[c]

\* The answer agrees with the status that was read: no event.
PingSame ==
  /\ Goto("ping", "pinging", "idle")
  /\ (seen = 1) = Answers(dev["ping"])
  /\ UNCHANGED <<world, buffer, pingDataSem, files, local, crashes>>

\* Mutant: only the loss of a camera is an event.
PingDiffers_OnlyLoss ==
  /\ Goto("ping", "pinging", "wait")
  /\ seen = 1 /\ ~Answers(dev["ping"])
  /\ UNCHANGED <<world, buffer, pingDataSem, files, local, crashes>>

PingDiffers ==
  /\ Goto("ping", "pinging", "wait")
  /\ (seen = 1) # Answers(dev["ping"])
  /\ UNCHANGED <<world, buffer, pingDataSem, files, local, crashes>>

TakeBuf(left) ==
  /\ Goto("ping", "wait", "place")
  /\ pingDataSem' = left
  /\ UNCHANGED <<world, buffer, files, local, crashes>>

\* Mutant: ping_data_sem is taken without a look at it.
PingTakeBuf_Unguarded == TakeBuf(pingDataSem - 1)

PingTakeBuf == pingDataSem > 0 /\ TakeBuf(pingDataSem - 1)

PingPlace ==
  /\ Goto("ping", "place", "open")
  /\ slot' = Event(<<dev["ping"], "A0">>, IF seen = 1 THEN 2 ELSE 1)
  /\ UNCHANGED <<world, count, alarm, pingDataSem, files, local, crashes>>

PingStep == PingTop \/ (\E d \in Cameras : PingSkip(d) \/ PingRead(d)) \/ PingSame
            \/ PingDiffers \/ PingTakeBuf \/ PingPlace
-----------------------------------------------------------------------------
\* The daemon is killed and started again: what was buffered is lost.
Crash ==
  /\ crashes < MaxCrashes
  /\ crashes' = crashes + 1
  /\ slot' = NoEvent /\ count' = FALSE /\ alarm' = FALSE /\ pingDataSem' = 1
  /\ pc' = Start /\ todo' = {}
  /\ old' = [t \in Producers |-> Emptied] /\ out' = [t \in Producers |-> Emptied]
  /\ UNCHANGED <<world, files, dev, seen>>

Next == \/ \E c \in Conditions : Change(c)
        \/ CanReceive \/ CanAppend \/ Timeout
        \/ \E t \in Producers : StoreStep(t)
        \/ PingStep \/ Crash

Spec == Init /\ [][Next]_vars

(* The threads run, the alarm goes off, the stores end, and no file fails  *)
(* to open for ever.                                                       *)
FairSpec == Spec /\ WF_vars(CanReceive \/ CanAppend) /\ WF_vars(Timeout)
                 /\ WF_vars(PingStep)
                 /\ \A t \in Producers : /\ WF_vars(StoreStep(t))
                                         /\ SF_vars(Open(t)) /\ SF_vars(Rewrite(t))
-----------------------------------------------------------------------------
TypeOK ==
  /\ ok \in [Conditions -> BOOLEAN] /\ inbox \in Seq(Events)
  /\ slot \in Events \cup {NoEvent} /\ pingDataSem \in 0..1
  /\ count \in BOOLEAN /\ alarm \in BOOLEAN
  /\ file \in [Device -> [status : 0..4, count : Nat]]
  /\ logged \in [Device -> Nat]
  /\ pc \in [Producers -> {"idle", "open", "rewrite", "close", "clear",
                         "pinging", "wait", "place"}]
  /\ todo \subseteq Cameras /\ dev \in [Producers -> Device]
  /\ old \in [Producers -> [status : 0..4, count : Nat]]
  /\ out \in [Producers -> [status : 0..4, count : Nat]]
  /\ seen \in 0..4
  /\ changes \in 0..MaxChanges /\ crashes \in 0..MaxCrashes

\* The devices that can fail in only one way, which the controller sees and
\* the fault log gets. (A light's "status check", 71, is not logged.)
Simple == {d \in Device :
             \E c \in Conditions :
               /\ {k \in Conditions : k[1] = d} = {c}
               /\ <<Class[d], c[2]>> \in
                    {<<"terminal", "72">>, <<"light", "70">>, <<"sensor", "on">>}}

(* The fault log pairs up: a device that is good has an even number of     *)
(* lines, a fault and its end each, and any other one has an odd number,   *)
(* the last being when it failed. pthread_query_showdata computes the      *)
(* latest fault and the total fault time from that (lines 187 to 211).     *)
LogPairsUp ==
  crashes = 0 =>
    \A d \in Simple :
      file[d].status # 0 => (file[d].status = 1 <=> logged[d] % 2 = 0)

(* Every fault in the log has been counted in the status file, whichever   *)
(* of a device's faults come together. (Not for the cabinet, whose log gets*)
(* a line for every report that the water is gone.)                        *)
LoggedAreCounted ==
  crashes = 0 =>
    \A d \in Device : file[d].status # 0 /\ Class[d] # "cabinet" =>
                        logged[d] <= 2 * file[d].count

(* When pthread_can_rcv has stored all that the controller sent, a device  *)
(* is good in its status file if and only if the last report said so,      *)
(* however often reports were repeated.                                    *)
StatusIsLastReport ==
  inbox = <<>> /\ pc["can"] = "idle" /\ crashes = 0 =>
    \A c \in Reported : c[1] \in Simple => (file[c[1]].status = 1 <=> ok[c])

(* A status file is empty only while it is rewritten, or after the daemon  *)
(* was killed at that very moment: one file for each time it was killed.   *)
EmptyOnlyByCrash ==
  Cardinality({d \in Device : file[d] = Emptied
                 /\ \A t \in Producers : ~(pc[t] = "close" /\ dev[t] = d)})
    <= crashes

(* Whenever the ping thread waits for can_rcv_buf it gets it. It is not so *)
(* when no package is received whole any more after one that has been lost *)
(* behind stale bytes, as ping_data_sem is then left 0.                    *)
PingGetsBuffer == []<>(pc["ping"] # "wait")

(* As long as the ping thread gets the buffer and the status file of a     *)
(* camera says that it is good or off line, it comes to say the right one  *)
(* of both: a camera that answers from some time on becomes good for good, *)
(* one that no longer answers is off line in the end, however the pings,   *)
(* which take seconds, the changes of network and power, the controller's  *)
(* reports, failing files and the packages lost behind them interleave.     *)
CamerasSettle ==
  PingGetsBuffer =>
    \A d \in Cameras :
      <>[](file[d].status \in {1, 2}) =>
        /\ <>[]Answers(d) => <>[](file[d].status = 1)
        /\ <>[]~Answers(d) => <>[](file[d].status = 2)
=============================================================================
