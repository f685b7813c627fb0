------------------------------- MODULE ShowData -------------------------------
(***************************************************************************)
(* The show data in shared memory: a header with the number of devices and *)
(* the length, then a record for every device. realdata.cgi prints them,   *)
(* and the server is sent as many bytes as the length says.                *)
(*                                                                         *)
(*   "show"  pthread_query_showdata asks the controller for the weather    *)
(*           and puts together the records from the files of the devices;  *)
(*   "can"   pthread_can_rcv copies the controller's answer over the first *)
(*           73 bytes, and stores events in the files;                     *)
(*   "ping"  pthread_ping_device counts the files of the devices anew at   *)
(*           the top of every round;                                       *)
(*   "set"   dev_set.cgi sets up a device.                                 *)
(*                                                                         *)
(* The fault log is in a clock of its own, Ahead of time(). A device has   *)
(* one kind of fault and one event is stored at a time: DeviceStatus has   *)
(* the rest. What dev_set.cgi puts in a file is there at once, with the    *)
(* file. Fields nobody can get wrong are left out.                         *)
(***************************************************************************)
EXTENDS Integers, Sequences, FiniteSets, FiniteSetsExt

CONSTANTS
  N,            \* bound: the ids are 1..N (20 in dev_set.html)
  Preset,       \* the devices there are at first
  AnswerNum,    \* byte 13 of the controller's answer
  Ahead,        \* what is added to time() in an event (8 * 60 * 60)
  ByteBase,     \* the length has a low and a high byte (256)
  WordBase,     \* times in a record are kept modulo this (2^32)
  MaxTime,      \* bound: the last event comes before it
  MaxSets       \* bound: how often dev_set.cgi is run

ASSUME ShowAssumption ==
  /\ N \in Nat \ {0} /\ Preset \subseteq 1..N
  /\ AnswerNum \in Nat /\ Ahead \in Nat
  /\ ByteBase \in Nat \ {0} /\ WordBase \in Nat \ {0}
  /\ MaxTime \in Nat /\ MaxSets \in Nat

Id == 1..N
AnswerLen == 71     \* an answer is received whole when it has 71 + 2 bytes
LengthFor(n) == n * 36 + 73

\* The first line of devstatus_<id>, if there is one.
Good == 1
Bad == 2
Empty == 3
Missing == 4

VARIABLES
  devFile,      \* the ids that have a file dev_<id>
  statusFile,   \* devstatus_<id>: status and number of faults
  logFile,      \* fault_<id>: times of faults and recoveries, in turn
  time,
  storePc,      \* where the thread is that stores an event
  storeDev,     \* its device, 0 when there is none
  old,          \* what it has read from the status file
  eventTime,
  devNum,       \* dev_num
  uncounted,    \* the files "ping" has not come to, {} when it is not counting
  map,          \* the header: [num, low, high]
  rec,          \* the records
  asking,       \* the controller has been asked and has not answered
  spc,          \* where "show" is
  datalen,      \* the length it has computed
  dev,          \* the device it is at
  now,          \* the time it has taken for this device
  was,          \* the status it has read
  alive,        \* the daemon has not ended
  setPc,        \* where dev_set.cgi is, and for which device
  sets,
  moved,        \* history: the files of dev have changed since now was taken
  steady,       \* history: all devices are counted, and not anew since the
                \* pass began
  unpaired      \* history: devices with an event while dev_set.cgi was at them

filesVars == <<devFile, statusFile, logFile>>
storeVars == <<storePc, storeDev, old, eventTime>>
setVars == <<setPc, sets>>
countVars == <<devNum, uncounted>>
memVars == <<map, rec>>
readVars == <<dev, now, was, moved>>
passVars == <<asking, spc, datalen, readVars, steady, alive>>
showVars == <<filesVars, time, storeVars, countVars, memVars, passVars, setVars,
              unpaired>>

NewStatus == [status |-> Good, count |-> 0]
EmptyFile == [status |-> Empty, count |-> 0]
NoFile == [status |-> Missing, count |-> 0]
NoRecord == [status |-> 0, count |-> 0, latest |-> 0, total |-> 0]
-------------------------------------------------------------------------------
ShowInit ==
  /\ devFile = Preset
  /\ statusFile = [i \in Id |-> IF i \in Preset THEN NewStatus ELSE NoFile]
  /\ logFile = [i \in Id |-> <<>>]
  /\ time = 1
  /\ storePc = "idle" /\ storeDev = 0 /\ old = NewStatus /\ eventTime = 0
  /\ devNum = 0 /\ uncounted = {}
  /\ map = [num |-> 0, low |-> 0, high |-> 0] /\ rec = [i \in Id |-> NoRecord]
  /\ asking = FALSE /\ spc = "top" /\ datalen = 0
  /\ dev = 0 /\ now = 0 /\ was = 0 /\ alive = TRUE
  /\ setPc = <<"idle", 0>> /\ sets = 0
  /\ moved = FALSE /\ steady = FALSE /\ unpaired = {}

\* A file of device i changes, perhaps under the thread that reads it.
Touched(i) ==
  /\ moved' = (moved \/ dev = i)
  /\ UNCHANGED <<asking, spc, datalen, dev, now, was, steady, alive>>

\* An event of device i, which has its time, is stored: the old status is read
\* and the file truncated. Without the file the event is left.
OpenStatus(i) ==
  /\ alive /\ storePc = "idle" /\ time < MaxTime /\ statusFile[i].status # Missing
  /\ time' = time + 1 /\ eventTime' = time
  /\ storePc' = "log" /\ storeDev' = i /\ old' = statusFile[i]
  /\ statusFile' = [statusFile EXCEPT ![i] = EmptyFile]
  /\ Touched(i)
  /\ unpaired' = IF setPc[2] = i THEN unpaired \cup {i} ELSE unpaired
  /\ UNCHANGED <<devFile, logFile, countVars, memVars, setVars>>

LogEvent ==
  /\ alive /\ storePc = "log"
  /\ logFile' = [logFile EXCEPT ![storeDev] = Append(@, eventTime + Ahead)]
  /\ storePc' = "close"
  /\ Touched(storeDev)
  /\ UNCHANGED <<devFile, statusFile, time, storeDev, old, eventTime, countVars,
                 memVars, setVars, unpaired>>

\* What was written to the status file gets there when it is closed.
CloseStatus ==
  /\ alive /\ storePc = "close"
  /\ statusFile' = [statusFile EXCEPT ![storeDev] =
       IF old.status = Good THEN [status |-> Bad, count |-> old.count + 1]
       ELSE [status |-> Good, count |-> old.count]]
  /\ storePc' = "idle" /\ storeDev' = 0 /\ old' = NewStatus /\ eventTime' = 0
  /\ Touched(storeDev)
  /\ UNCHANGED <<devFile, logFile, time, countVars, memVars, setVars, unpaired>>

\* "can": the answer of the controller is copied over the header.
CopyAnswer ==
  /\ alive /\ asking /\ asking' = FALSE
  /\ map' = [num |-> AnswerNum, low |-> AnswerLen % ByteBase,
             high |-> AnswerLen \div ByteBase]
  /\ UNCHANGED <<filesVars, time, storeVars, countVars, rec, spc, datalen,
                 readVars, steady, alive, setVars, unpaired>>

\* "can": or it is lost, and the alarm clears what there was of it.
LoseAnswer ==
  /\ alive /\ asking /\ asking' = FALSE
  /\ UNCHANGED <<filesVars, time, storeVars, countVars, memVars, spc, datalen,
                 readVars, steady, alive, setVars, unpaired>>
-------------------------------------------------------------------------------
\* dev_set.cgi writes dev_<id>, then devstatus_<id>, and removes the fault log.
SetDevice(i) ==
  /\ setPc[1] = "idle" /\ sets < MaxSets
  /\ sets' = sets + 1
  /\ devFile' = devFile \cup {i}
  /\ setPc' = <<"status", i>>
  /\ Touched(i)
  /\ unpaired' = IF storeDev = i THEN unpaired \cup {i} ELSE unpaired \ {i}
  /\ UNCHANGED <<statusFile, logFile, time, storeVars, countVars, memVars>>

SetStatus ==
  /\ setPc[1] = "status"
  /\ statusFile' = [statusFile EXCEPT ![setPc[2]] = NewStatus]
  /\ setPc' = <<"log", setPc[2]>>
  /\ Touched(setPc[2])
  /\ UNCHANGED <<devFile, logFile, time, storeVars, countVars, memVars, sets,
                 unpaired>>

\* Mutant: the log stays.
RemoveLog_Not ==
  /\ setPc[1] = "log"
  /\ setPc' = <<"idle", 0>>
  /\ Touched(setPc[2])
  /\ UNCHANGED <<filesVars, time, storeVars, countVars, memVars, sets, unpaired>>

RemoveLog ==
  /\ setPc[1] = "log"
  /\ logFile' = [logFile EXCEPT ![setPc[2]] = <<>>]
  /\ setPc' = <<"idle", 0>>
  /\ Touched(setPc[2])
  /\ UNCHANGED <<devFile, statusFile, time, storeVars, countVars, memVars, sets,
                 unpaired>>

CountUnchanged ==
  UNCHANGED <<filesVars, time, storeVars, memVars, asking, spc, datalen,
              readVars, alive, setVars, unpaired>>

\* Mutant: counting goes on from the number there is.
CountFrom0_On ==
  /\ alive /\ uncounted = {}
  /\ devNum' = devNum /\ uncounted' = devFile
  /\ steady' = FALSE
  /\ CountUnchanged

\* "ping": dev_num goes to 0 and up again, one file at a time, in every round.
CountFrom0 ==
  /\ alive /\ uncounted = {}
  /\ devNum' = 0 /\ uncounted' = devFile
  /\ steady' = FALSE
  /\ CountUnchanged

CountOne ==
  /\ alive /\ uncounted # {}
  /\ devNum' = devNum + 1
  /\ \E i \in uncounted : uncounted' = uncounted \ {i}
  /\ steady' = steady
  /\ CountUnchanged
-------------------------------------------------------------------------------
ShowUnchanged ==
  UNCHANGED <<filesVars, time, storeVars, countVars, setVars, unpaired>>

\* "show": with no device only the number is written; else the controller is
\* asked, and the header written.
ShowNone ==
  /\ alive /\ spc = "top" /\ devNum = 0
  /\ map' = [map EXCEPT !.num = 0]
  /\ UNCHANGED <<rec, passVars>> /\ ShowUnchanged

ShowAsk ==
  /\ alive /\ spc = "top" /\ devNum # 0
  /\ asking' = TRUE /\ spc' = "number"
  /\ steady' = (uncounted = {} /\ devNum = Cardinality(devFile))
  /\ UNCHANGED <<memVars, datalen, readVars, alive>> /\ ShowUnchanged

ShowNumber ==
  /\ alive /\ spc = "number"
  /\ map' = [map EXCEPT !.num = devNum]
  /\ spc' = "length"
  /\ UNCHANGED <<rec, asking, datalen, readVars, steady, alive>> /\ ShowUnchanged

\* dev_num is read again for the length.
ShowLength ==
  /\ alive /\ spc = "length"
  /\ datalen' = LengthFor(devNum)
  /\ spc' = "low"
  /\ UNCHANGED <<memVars, asking, readVars, steady, alive>> /\ ShowUnchanged

ShowLow ==
  /\ alive /\ spc = "low"
  /\ map' = [map EXCEPT !.low = datalen % ByteBase]
  /\ spc' = "high"
  /\ UNCHANGED <<rec, asking, datalen, readVars, steady, alive>> /\ ShowUnchanged

ShowHigh ==
  /\ alive /\ spc = "high"
  /\ map' = [map EXCEPT !.high = datalen \div ByteBase]
  /\ spc' = "device" /\ dev' = 1 /\ datalen' = 0
  /\ UNCHANGED <<rec, asking, now, was, moved, steady, alive>> /\ ShowUnchanged

\* Mutant: the last device is left out.
ShowDone_Early ==
  /\ alive /\ spc = "device" /\ (dev >= devNum \/ dev \notin devFile)
  /\ spc' = "top" /\ dev' = 0 /\ steady' = FALSE
  /\ UNCHANGED <<memVars, asking, datalen, now, was, moved, alive>> /\ ShowUnchanged

\* The pass ends behind the last device, or at an id without a file.
ShowDone ==
  /\ alive /\ spc = "device" /\ (dev > devNum \/ dev \notin devFile)
  /\ spc' = "top" /\ dev' = 0 /\ steady' = FALSE
  /\ UNCHANGED <<memVars, asking, datalen, now, was, moved, alive>> /\ ShowUnchanged

ShowDevice ==
  /\ alive /\ spc = "device" /\ dev <= devNum /\ dev \in devFile
  /\ now' = time /\ moved' = (storeDev = dev)
  /\ spc' = "status"
  /\ UNCHANGED <<memVars, asking, datalen, dev, was, steady, alive>> /\ ShowUnchanged

ShowStatus ==
  /\ alive /\ spc = "status"
  /\ LET f == statusFile[dev] IN
       /\ f.status \in {Good, Bad}
       /\ was' = f.status
       /\ rec' = [rec EXCEPT ![dev] =
                    [@ EXCEPT !.status = f.status, !.count = f.count]]
  /\ spc' = "log"
  /\ UNCHANGED <<map, asking, datalen, dev, now, moved, steady, alive>>
  /\ ShowUnchanged

\* From an empty file nothing is read: what lies in the line, the time of the
\* installation, is taken for the status, which is none, and for the number.
ShowEmpty ==
  /\ alive /\ spc = "status" /\ statusFile[dev].status = Empty
  /\ was' = Empty
  /\ \E c \in {0, MaxTime} : rec' = [rec EXCEPT ![dev].count = c]
  /\ spc' = "log"
  /\ UNCHANGED <<map, asking, datalen, dev, now, moved, steady, alive>>
  /\ ShowUnchanged

\* A line of that length overruns the array of the status, which may end the
\* daemon; getline on the stream of a missing file does.
ShowEnds ==
  /\ alive /\ spc = "status" /\ statusFile[dev].status \in {Empty, Missing}
  /\ alive' = FALSE
  /\ UNCHANGED <<memVars, asking, spc, datalen, readVars, steady>> /\ ShowUnchanged

\* The seconds from each fault to its recovery, added up pair by pair.
ClosedFor(l) ==
  LET added[y \in 0..(Len(l) \div 2)] ==
        IF y = 0 THEN 0 ELSE added[y - 1] + (l[2 * y] - l[2 * y - 1])
  IN  added[Len(l) \div 2]

\* The latest fault, moved Ahead once more. The times of an unpaired log are
\* taken from outside the array, where anything may be.
LatestFault(l) ==
  LET at == IF was = Good THEN Len(l) - 1 ELSE Len(l)
  IN  {(x + Ahead) % WordBase : x \in IF at \in DOMAIN l THEN {l[at]} ELSE {0, MaxTime}}

\* Mutant: a fault that lasts does not count.
TotalTime_Closed(l) == ClosedFor(l) % WordBase

\* A fault that lasts counts from the time in the log to the time of day.
TotalTime(l) ==
  LET open == IF was = Good THEN 0 ELSE now - l[Len(l)]
  IN  (ClosedFor(l) + open) % WordBase

ShowLog ==
  /\ alive /\ spc = "log"
  /\ LET l == logFile[dev] IN
       IF l = <<>> THEN rec' = [rec EXCEPT ![dev].latest = 0, ![dev].total = 0]
       ELSE \E s \in LatestFault(l) :
              rec' = [rec EXCEPT ![dev].latest = s, ![dev].total = TotalTime(l)]
  /\ spc' = "device" /\ dev' = dev + 1
  /\ moved' = FALSE /\ now' = 0 /\ was' = 0
  /\ UNCHANGED <<map, asking, datalen, steady, alive>> /\ ShowUnchanged

CanStep == (\E i \in Id : OpenStatus(i)) \/ LogEvent \/ CloseStatus
           \/ CopyAnswer \/ LoseAnswer
CountStep == CountFrom0 \/ CountOne
ShowStep == ShowNone \/ ShowAsk \/ ShowNumber \/ ShowLength \/ ShowLow \/ ShowHigh
            \/ ShowDone \/ ShowDevice \/ ShowStatus \/ ShowEmpty \/ ShowEnds \/ ShowLog
SetStep == (\E i \in Id : SetDevice(i)) \/ SetStatus \/ RemoveLog

ShowNext == CanStep \/ CountStep \/ ShowStep \/ SetStep

\* Nothing blocks the thread that stores an event between its files.
ShowFairness == WF_showVars(LogEvent) /\ WF_showVars(CloseStatus)

ShowSpec == ShowInit /\ [][ShowNext]_showVars /\ ShowFairness
-------------------------------------------------------------------------------
\* What is in memory has been read from files there were.
ShowTypeOK ==
  /\ devFile \subseteq Id /\ devNum \in 0..N /\ uncounted \subseteq devFile
  /\ \A i \in Id : statusFile[i].status # Missing => i \in devFile
  /\ storeDev \in Id \cup {0} /\ (storePc # "idle" <=> storeDev # 0)
  /\ map.num \in 0..N \cup {AnswerNum}
  /\ map.low \in 0..(ByteBase - 1)
  /\ \A i \in Id : /\ rec[i].status \in {0, Good, Bad}
                   /\ rec[i].count \in 0..MaxTime
                   /\ rec[i].latest \in 0..(WordBase - 1)
                   /\ rec[i].total \in 0..(WordBase - 1)
  /\ dev \in 0..(N + 1) /\ was \in {0, Good, Bad, Empty}
  /\ spc \in {"top", "number", "length", "low", "high", "device", "status", "log"}
  /\ spc \in {"status", "log"} => dev \in devFile

\* The log of a good device has as many recoveries as faults, that of a bad
\* one a fault more.
Paired(i) == (Len(logFile[i]) % 2 = 1) <=> (statusFile[i].status = Bad)

\* How long a device with this log has been bad at time t, in the log's clock.
BadAt(l, x) == Cardinality({k \in DOMAIN l : l[k] <= x}) % 2 = 1
BadFor(l, t) == Cardinality({x \in 0..(t - 1) : BadAt(l, x)})
FaultTimes(l) == {l[k] : k \in {k \in DOMAIN l : k % 2 = 1}}
LastFault(l) == IF l = <<>> THEN 0 ELSE (Max(FaultTimes(l)) + Ahead) % WordBase

(***************************************************************************)
(* However events, the setting up of devices and the answers of the        *)
(* controller come between, a record is put together of one state of the   *)
(* files: when those of a device have stayed the same while it was at them *)
(* and agree with each other, its record then holds their status and       *)
(* count, the latest fault, and the time for which the device has been     *)
(* bad. The code adds Ahead to the latest fault, which the log has already *)
(* (line 188), and a fault that lasts is Ahead short (line 211, "present   *)
(* time - time of the last fault", where only the latter is in the clock   *)
(* of the log): modulo the word, so that one of less than that comes out   *)
(* as one of 136 years.                                                    *)
(***************************************************************************)
RecordsAreRight ==
  [][(spc = "log" /\ spc' = "device" /\ ~moved /\ Paired(dev)) =>
       LET l     == logFile[dev]
           f     == statusFile[dev]
           short == IF f.status = Bad THEN Ahead ELSE 0
       IN  rec'[dev] = [status |-> f.status,
                        count  |-> f.count,
                        latest |-> LastFault(l),
                        total  |-> (BadFor(l, now + Ahead) - short) % WordBase]]_showVars

(***************************************************************************)
(* The fault log and the status of a device agree, unless an event of that *)
(* device was stored while dev_set.cgi was at it, which truncates one file *)
(* and removes the other: then they disagree until it is set up again.     *)
(***************************************************************************)
PairedUnlessReset ==
  \A i \in devFile \ unpaired : (setPc[2] # i /\ storeDev # i) => Paired(i)

(***************************************************************************)
(* dev_num goes to 0 in every round of the ping thread, for ever, and a    *)
(* pass of the other thread may find it too small at any time. It is       *)
(* enough that again and again a pass meets no count: a round ends with a  *)
(* sleep of 10 s, and a pass begins every 5 s. Then, when the files are    *)
(* left alone and their ids have no gap, all records come to be what the   *)
(* files say, and stay so, whatever the other passes find.                 *)
(***************************************************************************)
FilesStay == <>[][UNCHANGED filesVars]_showVars
NoGap == <>[](devFile = 1..Cardinality(devFile))
PassesMeetNoCount == []<><<ShowDone /\ steady>>_showVars
RecordsTrue ==
  \A i \in devFile : /\ rec[i].status = statusFile[i].status
                     /\ rec[i].count = statusFile[i].count
                     /\ Paired(i) => rec[i].latest = LastFault(logFile[i])
CatchesUp == FilesStay /\ NoGap /\ PassesMeetNoCount => <>[]RecordsTrue

(***************************************************************************)
(* "The weather part of the show data is put in the shared memory; its     *)
(* device part is filled in by query_showdata": while the records are      *)
(* being written, the length in the header is the one that goes with them, *)
(* as long as the devices are not counted anew.                            *)
(***************************************************************************)
HeaderStays ==
  spc \in {"device", "status", "log"} /\ steady =>
    map.low + map.high * ByteBase = LengthFor(map.num)
===============================================================================
