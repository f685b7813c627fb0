---------------------------- MODULE ShowDataProofs ----------------------------
(***************************************************************************)
(* The show data for any number of ids, events, settings and countings.    *)
(*                                                                         *)
(* ShowInv: what is true of a device at each place of dev_set.cgi and of   *)
(* the thread that stores an event, from which its two files agree.        *)
(* ReadInv adds what the thread that puts a record together knows of the   *)
(* files it has read, from which the record is right; that the loop over   *)
(* the log adds up the seconds for which the device has been bad is proved *)
(* by induction over the pairs of the log.                                 *)
(***************************************************************************)
EXTENDS ShowData, SequenceTheorems, FiniteSetTheorems, WellFoundedInduction,
        TLAPS

StatusFiles == [status : {Good, Bad, Empty, Missing}, count : Nat]
ReadStatus == [status : {Good, Bad}, count : Nat]

FilesOK ==
  /\ devFile \subseteq Id
  /\ statusFile \in [Id -> StatusFiles]
  /\ logFile \in [Id -> Seq(Nat)]
  /\ time \in Nat /\ eventTime \in Nat
  /\ setPc \in {"idle", "status", "log"} \X Nat
  /\ setPc[1] # "idle" => setPc[2] \in Id /\ setPc[2] \in devFile
  /\ setPc[1] = "idle" => setPc[2] = 0
  /\ storePc \in {"idle", "log", "close"} /\ old \in ReadStatus
  /\ storePc = "idle" => storeDev = 0
  /\ storePc # "idle" => storeDev \in Id /\ storeDev \in devFile
  /\ \A i \in Id : /\ statusFile[i].status # Missing => i \in devFile
                   /\ statusFile[i].status = Empty => storeDev = i

Odd(i) == Len(logFile[i]) % 2 = 1

\* A device nobody is at has paired files. One whose status has been written
\* and whose log not removed yet is good; while an event is stored the log
\* goes with the status that was read, until the event is in it.
PairedDev(i) ==
  /\ setPc[2] # i /\ storeDev # i => Paired(i)
  /\ setPc = <<"log", i>> => statusFile[i].status = Good
  /\ storeDev = i => setPc[2] # i
  /\ storeDev = i /\ storePc = "log" => (Odd(i) <=> old.status = Bad)
  /\ storeDev = i /\ storePc = "close" => (Odd(i) <=> ~(old.status = Bad))

PairedInv == \A i \in Id \ unpaired : PairedDev(i)

ShowInv == FilesOK /\ PairedInv

USE DEF Good, Bad, Empty, Missing

LEMMA Parity ==
  ASSUME NEW n \in Nat PROVE (n + 1) % 2 = 1 <=> ~(n % 2 = 1)
  OBVIOUS

LEMMA InitPaired == ShowInit => ShowInv
<1> USE ShowAssumption DEF Id
<1> SUFFICES ASSUME ShowInit PROVE ShowInv
  OBVIOUS
<1>1. FilesOK
  <2>1. /\ devFile \subseteq Id /\ devFile = Preset /\ time \in Nat /\ eventTime \in Nat
        /\ setPc = <<"idle", 0>> /\ storePc = "idle" /\ storeDev = 0
    BY DEF ShowInit
  <2>2. statusFile \in [Id -> StatusFiles] /\ old \in ReadStatus
    BY DEF ShowInit, NewStatus, NoFile, StatusFiles, ReadStatus
  <2>3. logFile \in [Id -> Seq(Nat)]
    BY DEF ShowInit
  <2>4. ASSUME NEW i \in Id
        PROVE  /\ statusFile[i].status # Missing => i \in devFile
               /\ statusFile[i].status # Empty
    BY DEF ShowInit, NewStatus, NoFile
  <2> QED BY <2>1, <2>2, <2>3, <2>4 DEF FilesOK
<1>2. PairedInv
  <2> SUFFICES ASSUME NEW i \in Id PROVE PairedDev(i)
    BY DEF PairedInv
  <2>1. /\ logFile[i] = <<>> /\ statusFile[i].status \in {Good, Missing}
        /\ setPc = <<"idle", 0>> /\ storeDev = 0 /\ i # 0
    BY DEF ShowInit, NewStatus, NoFile
  <2>2. Len(logFile[i]) % 2 = 0
    BY <2>1
  <2> QED BY <2>1, <2>2 DEF Paired, PairedDev
<1> QED BY <1>1, <1>2 DEF ShowInv

\* Steps of others leave the files, dev_set.cgi and the store alone.
LEMMA OthersPaired ==
  ASSUME ShowInv, UNCHANGED <<filesVars, time, storeVars, setPc, unpaired>>
  PROVE  ShowInv'
<1> USE DEF filesVars, storeVars
<1>1. FilesOK'
  BY DEF ShowInv, FilesOK
<1>2. PairedInv'
  BY DEF ShowInv, PairedInv, PairedDev, Paired, Odd
<1> QED BY <1>1, <1>2 DEF ShowInv

\* Steps that change nothing of device i.
LEMMA SameDev ==
  ASSUME NEW i, PairedDev(i),
         statusFile'[i] = statusFile[i], logFile'[i] = logFile[i],
         setPc'[2] = i <=> setPc[2] = i, setPc' = <<"log", i>> => setPc = setPc',
         storeDev' = i <=> storeDev = i,
         storeDev = i => storePc' = storePc /\ old' = old
  PROVE  PairedDev(i)'
  BY DEF PairedDev, Paired, Odd

LEMMA OpenPaired ==
  ASSUME ShowInv, NEW e \in Id, OpenStatus(e) PROVE ShowInv'
<1>0. FilesOK /\ PairedInv
  BY DEF ShowInv
<1>1. /\ storePc = "idle" /\ storePc' = "log" /\ storeDev' = e /\ old' = statusFile[e]
      /\ statusFile' = [statusFile EXCEPT ![e] = EmptyFile]
      /\ statusFile[e].status # Missing /\ time' = time + 1 /\ eventTime' = time
      /\ UNCHANGED <<devFile, logFile, setPc>>
      /\ unpaired' = IF setPc[2] = e THEN unpaired \cup {e} ELSE unpaired
  BY DEF OpenStatus, setVars
<1>2. storeDev = 0 /\ e # 0 /\ statusFile[e] \in StatusFiles /\ e \in devFile
      /\ \A i \in Id : i # 0
  BY <1>0, <1>1, ShowAssumption DEF FilesOK, Id
<1>3. statusFile[e].status # Empty
  BY <1>0, <1>2 DEF FilesOK
<1>4. old' \in ReadStatus
  BY <1>1, <1>2, <1>3 DEF StatusFiles, ReadStatus
<1>5. /\ statusFile' \in [Id -> StatusFiles] /\ statusFile'[e] = EmptyFile
      /\ \A i \in Id : i # e => statusFile'[i] = statusFile[i]
  BY <1>0, <1>1 DEF FilesOK, EmptyFile, StatusFiles
<1>6. FilesOK'
  <2>1. ASSUME NEW i \in Id
        PROVE  /\ statusFile'[i].status # Missing => i \in devFile'
               /\ statusFile'[i].status = Empty => storeDev' = i
    <3>1. CASE i = e
      BY <1>1, <1>2, <3>1
    <3>2. CASE i # e
      <4>1. statusFile'[i] = statusFile[i]
        BY <1>5, <3>2
      <4> QED BY <1>0, <1>1, <1>2, <4>1 DEF FilesOK
    <3> QED BY <3>1, <3>2
  <2>2. time' \in Nat /\ eventTime' \in Nat /\ time \in Nat
    BY <1>0, <1>1 DEF FilesOK
  <2> QED BY <1>0, <1>1, <1>2, <1>4, <1>5, <2>1, <2>2 DEF FilesOK
<1>7. ASSUME NEW i \in Id, i \notin unpaired' PROVE PairedDev(i)'
  <2>1. PairedDev(i)
    BY <1>0, <1>1, <1>7 DEF PairedInv
  <2>2. CASE i = e
    <3>1. setPc[2] # e
      BY <1>1, <1>7, <2>2
    <3>2. Paired(e)
      BY <1>2, <2>1, <2>2, <3>1 DEF PairedDev
    <3>3. setPc' # <<"log", e>>
      BY <1>1, <3>1
    <3> QED BY <1>1, <2>2, <3>1, <3>2, <3>3 DEF PairedDev, Paired, Odd
  <2>3. CASE i # e
    <3>1. statusFile'[i] = statusFile[i] /\ storeDev # i /\ storeDev' # i
      BY <1>1, <1>2, <1>5, <2>3
    <3> QED BY <1>1, <2>1, <3>1, SameDev
  <2> QED BY <2>2, <2>3
<1> QED BY <1>6, <1>7 DEF ShowInv, PairedInv

\* The event changes the parity of the log, and then the status.
LEMMA LogPaired ==
  ASSUME ShowInv, LogEvent PROVE ShowInv'
<1>0. FilesOK /\ PairedInv
  BY DEF ShowInv
<1> DEFINE e == storeDev
           t == eventTime + Ahead
<1>1. /\ storePc = "log" /\ storePc' = "close"
      /\ logFile' = [logFile EXCEPT ![e] = Append(@, t)]
      /\ UNCHANGED <<devFile, statusFile, time, storeDev, old, eventTime, setPc, unpaired>>
  BY DEF LogEvent, setVars
<1>2. e \in Id /\ t \in Nat /\ logFile[e] \in Seq(Nat)
  BY <1>0, <1>1, ShowAssumption DEF FilesOK
<1> HIDE DEF t
<1>3. Append(logFile[e], t) \in Seq(Nat)
  BY <1>2
<1>4. FilesOK'
  <2>1. logFile' \in [Id -> Seq(Nat)]
    BY <1>0, <1>1, <1>3 DEF FilesOK
  <2>2. ASSUME NEW i \in Id
        PROVE  /\ statusFile'[i].status # Missing => i \in devFile'
               /\ statusFile'[i].status = Empty => storeDev' = i
    BY <1>0, <1>1 DEF FilesOK
  <2> QED BY <1>0, <1>1, <1>2, <2>1, <2>2 DEF FilesOK
<1>5. ASSUME NEW i \in Id, i \notin unpaired' PROVE PairedDev(i)'
  <2>1. PairedDev(i)
    BY <1>0, <1>1, <1>5 DEF PairedInv
  <2>2. CASE i = e
    <3>1. logFile'[e] = Append(logFile[e], t)
      BY <1>0, <1>1, <1>2 DEF FilesOK
    <3>2. Len(logFile'[e]) = Len(logFile[e]) + 1 /\ Len(logFile[e]) \in Nat
      BY <1>2, <3>1
    <3>3. (Len(logFile'[e]) % 2 = 1) <=> ~(Len(logFile[e]) % 2 = 1)
      BY <3>2, Parity
    <3>4. Odd(e) <=> old.status = Bad
      BY <1>1, <2>1, <2>2 DEF PairedDev
    <3>5. Odd(e)' <=> ~(old'.status = Bad)
      BY <1>1, <3>3, <3>4 DEF Odd
    <3>6. setPc'[2] # i /\ setPc' # <<"log", i>> /\ storeDev' = i /\ storePc' = "close"
      BY <1>1, <2>1, <2>2 DEF PairedDev
    <3> QED BY <2>2, <3>5, <3>6 DEF PairedDev, Odd
  <2>3. CASE i # e
    <3>1. logFile'[i] = logFile[i] /\ storeDev # i /\ storeDev' # i
      BY <1>0, <1>1, <2>3 DEF FilesOK
    <3> QED BY <1>1, <2>1, <3>1, SameDev
  <2> QED BY <2>2, <2>3
<1> QED BY <1>4, <1>5 DEF ShowInv, PairedInv

LEMMA ClosePaired ==
  ASSUME ShowInv, CloseStatus PROVE ShowInv'
<1>0. FilesOK /\ PairedInv
  BY DEF ShowInv
<1> DEFINE e == storeDev
           new == IF old.status = Good THEN [status |-> Bad, count |-> old.count + 1]
                  ELSE [status |-> Good, count |-> old.count]
<1>1. /\ storePc = "close" /\ storePc' = "idle" /\ storeDev' = 0
      /\ old' = NewStatus /\ eventTime' = 0
      /\ statusFile' = [statusFile EXCEPT ![e] = new]
      /\ UNCHANGED <<devFile, logFile, time, setPc, unpaired>>
  BY DEF CloseStatus, setVars
<1>2. e \in Id /\ e \in devFile /\ e # 0 /\ old \in ReadStatus /\ 0 \notin Id
  BY <1>0, <1>1, ShowAssumption DEF FilesOK, Id
<1>3. /\ new \in StatusFiles /\ new.status \in {Good, Bad}
      /\ (new.status = Bad) <=> ~(old.status = Bad)
  BY <1>2 DEF StatusFiles, ReadStatus
<1> HIDE DEF new
<1>4. /\ statusFile' \in [Id -> StatusFiles] /\ statusFile'[e] = new
      /\ \A i \in Id : i # e => statusFile'[i] = statusFile[i]
  BY <1>0, <1>1, <1>2, <1>3 DEF FilesOK
<1>5. FilesOK'
  <2>1. ASSUME NEW i \in Id
        PROVE  /\ statusFile'[i].status # Missing => i \in devFile'
               /\ statusFile'[i].status = Empty => storeDev' = i
    <3>1. CASE i = e
      BY <1>1, <1>2, <1>3, <1>4, <3>1
    <3>2. CASE i # e
      <4>1. statusFile'[i] = statusFile[i]
        BY <1>4, <3>2
      <4> QED BY <1>0, <1>1, <3>2, <4>1 DEF FilesOK
    <3> QED BY <3>1, <3>2
  <2>2. old' \in ReadStatus /\ eventTime' \in Nat
    BY <1>1 DEF NewStatus, ReadStatus
  <2> QED BY <1>0, <1>1, <1>4, <2>1, <2>2 DEF FilesOK
<1>6. ASSUME NEW i \in Id, i \notin unpaired' PROVE PairedDev(i)'
  <2>1. PairedDev(i) /\ i # 0
    BY <1>0, <1>1, <1>2, <1>6 DEF PairedInv
  <2>2. CASE i = e
    <3>1. Odd(i) <=> ~(old.status = Bad)
      BY <1>1, <2>1, <2>2 DEF PairedDev
    <3>2. Paired(i)'
      <4>1. (statusFile'[i].status = Bad) <=> ~(old.status = Bad)
        BY <1>3, <1>4, <2>2
      <4>2. logFile' = logFile
        BY <1>1
      <4> QED BY <3>1, <4>1, <4>2 DEF Paired, Odd
    <3>3. setPc'[2] # i /\ setPc' # <<"log", i>> /\ storeDev' # i
      BY <1>1, <2>1, <2>2 DEF PairedDev
    <3> QED BY <2>2, <3>2, <3>3 DEF PairedDev, Paired
  <2>3. CASE i # e
    <3>1. statusFile'[i] = statusFile[i] /\ storeDev # i /\ storeDev' # i
      BY <1>1, <1>4, <2>1, <2>3
    <3> QED BY <1>1, <2>1, <3>1, SameDev
  <2> QED BY <2>2, <2>3
<1> QED BY <1>5, <1>6 DEF ShowInv, PairedInv

\* dev_set.cgi begins: nothing is said of its device until it ends.
LEMMA SetDevicePaired ==
  ASSUME ShowInv, NEW d \in Id, SetDevice(d) PROVE ShowInv'
<1>0. FilesOK /\ PairedInv
  BY DEF ShowInv
<1>1. /\ setPc' = <<"status", d>> /\ setPc[1] = "idle"
      /\ devFile' = devFile \cup {d}
      /\ unpaired' = IF storeDev = d THEN unpaired \cup {d} ELSE unpaired \ {d}
      /\ UNCHANGED <<statusFile, logFile, time, storePc, storeDev, old, eventTime>>
  BY DEF SetDevice, storeVars
<1>2. d \in Nat /\ d # 0 /\ setPc[2] = 0 /\ \A i \in Id : i # 0
  BY <1>0, <1>1, ShowAssumption DEF Id, FilesOK
<1>3. FilesOK'
  <2>1. ASSUME NEW i \in Id
        PROVE  /\ statusFile'[i].status # Missing => i \in devFile'
               /\ statusFile'[i].status = Empty => storeDev' = i
    BY <1>0, <1>1 DEF FilesOK
  <2> QED BY <1>0, <1>1, <1>2, <2>1 DEF FilesOK
<1>4. ASSUME NEW i \in Id, i \notin unpaired' PROVE PairedDev(i)'
  <2>1. CASE i = d
    <3>1. storeDev' # i /\ setPc'[2] = i /\ setPc' # <<"log", i>>
      BY <1>1, <1>4, <2>1
    <3> QED BY <3>1 DEF PairedDev
  <2>2. CASE i # d
    <3>1. i \notin unpaired
      BY <1>1, <1>4, <2>2
    <3>2. PairedDev(i)
      BY <1>0, <3>1 DEF PairedInv
    <3>3. setPc'[2] # i /\ setPc[2] # i /\ setPc' # <<"log", i>>
      BY <1>1, <1>2, <2>2
    <3> QED BY <1>1, <3>2, <3>3, SameDev
  <2> QED BY <2>1, <2>2
<1> QED BY <1>3, <1>4 DEF ShowInv, PairedInv

LEMMA SetStatusPaired ==
  ASSUME ShowInv, SetStatus PROVE ShowInv'
<1>0. FilesOK /\ PairedInv
  BY DEF ShowInv
<1> DEFINE d == setPc[2]
<1>1. /\ setPc[1] = "status" /\ setPc' = <<"log", d>>
      /\ statusFile' = [statusFile EXCEPT ![d] = NewStatus]
      /\ UNCHANGED <<devFile, logFile, time, storePc, storeDev, old, eventTime, unpaired>>
  BY DEF SetStatus, storeVars
<1>2. d \in Id /\ d \in Nat /\ d \in devFile
  BY <1>0, <1>1 DEF FilesOK
<1>3. NewStatus \in StatusFiles /\ NewStatus.status = Good
  BY DEF NewStatus, StatusFiles
<1> HIDE DEF d
<1>4. /\ statusFile' \in [Id -> StatusFiles] /\ statusFile'[d] = NewStatus
      /\ \A i \in Id : i # d => statusFile'[i] = statusFile[i]
  BY <1>0, <1>1, <1>2, <1>3 DEF FilesOK
<1>5. FilesOK'
  <2>1. ASSUME NEW i \in Id
        PROVE  /\ statusFile'[i].status # Missing => i \in devFile'
               /\ statusFile'[i].status = Empty => storeDev' = i
    <3>1. CASE i = d
      BY <1>1, <1>2, <1>3, <1>4, <3>1
    <3>2. CASE i # d
      <4>1. statusFile'[i] = statusFile[i]
        BY <1>4, <3>2
      <4> QED BY <1>0, <1>1, <4>1 DEF FilesOK
    <3> QED BY <3>1, <3>2
  <2> QED BY <1>0, <1>1, <1>2, <1>4, <2>1 DEF FilesOK
<1>6. ASSUME NEW i \in Id, i \notin unpaired' PROVE PairedDev(i)'
  <2>1. PairedDev(i)
    BY <1>0, <1>1, <1>6 DEF PairedInv
  <2>2. CASE i = d
    <3>1. storeDev # i
      BY <2>1, <2>2 DEF PairedDev, d
    <3>2. storeDev' # i /\ setPc'[2] = i /\ statusFile'[i].status = Good
      BY <1>1, <1>3, <1>4, <2>2, <3>1
    <3> QED BY <3>2 DEF PairedDev
  <2>3. CASE i # d
    <3>1. statusFile'[i] = statusFile[i] /\ setPc'[2] # i /\ setPc[2] # i
          /\ setPc' # <<"log", i>>
      BY <1>1, <1>4, <2>3 DEF d
    <3> QED BY <1>1, <2>1, <3>1, SameDev
  <2> QED BY <2>2, <2>3
<1> QED BY <1>5, <1>6 DEF ShowInv, PairedInv

\* The log is empty and the status good unless an event came in between.
LEMMA RemoveLogPaired ==
  ASSUME ShowInv, RemoveLog PROVE ShowInv'
<1>0. FilesOK /\ PairedInv
  BY DEF ShowInv
<1> DEFINE d == setPc[2]
<1>1. /\ setPc[1] = "log" /\ setPc' = <<"idle", 0>>
      /\ logFile' = [logFile EXCEPT ![d] = <<>>]
      /\ UNCHANGED <<devFile, statusFile, time, storePc, storeDev, old, eventTime, unpaired>>
  BY DEF RemoveLog, storeVars
<1>2. d \in Id /\ setPc = <<"log", d>> /\ \A i \in Id : i # 0
  BY <1>0, <1>1, ShowAssumption DEF FilesOK, Id
<1> HIDE DEF d
<1>3. FilesOK'
  <2>1. ASSUME NEW i \in Id
        PROVE  /\ statusFile'[i].status # Missing => i \in devFile'
               /\ statusFile'[i].status = Empty => storeDev' = i
    BY <1>0, <1>1 DEF FilesOK
  <2>2. <<>> \in Seq(Nat)
    OBVIOUS
  <2>3. logFile' \in [Id -> Seq(Nat)]
    BY <1>0, <1>1, <2>2 DEF FilesOK
  <2> QED BY <1>0, <1>1, <2>1, <2>3 DEF FilesOK
<1>4. ASSUME NEW i \in Id, i \notin unpaired' PROVE PairedDev(i)'
  <2>1. PairedDev(i)
    BY <1>0, <1>1, <1>4 DEF PairedInv
  <2>2. CASE i = d
    <3>1. statusFile'[i].status = Good /\ storeDev' # i
      BY <1>1, <1>2, <2>1, <2>2 DEF PairedDev
    <3>2. logFile'[i] = <<>>
      BY <1>0, <1>1, <1>2, <2>2 DEF FilesOK
    <3>3. ~(Len(logFile'[i]) % 2 = 1)
      BY <3>2
    <3>4. ~(statusFile'[i].status = Bad)
      BY <3>1
    <3>5. Paired(i)'
      BY <3>3, <3>4 DEF Paired
    <3>6. setPc' # <<"log", i>>
      BY <1>1
    <3> QED BY <3>1, <3>5, <3>6 DEF PairedDev, Paired
  <2>3. CASE i # d
    <3>1. logFile'[i] = logFile[i] /\ setPc'[2] # i /\ setPc[2] # i
          /\ setPc' # <<"log", i>>
      BY <1>0, <1>1, <1>2, <2>3 DEF FilesOK, d
    <3> QED BY <1>1, <2>1, <3>1, SameDev
  <2> QED BY <2>2, <2>3
<1> QED BY <1>3, <1>4 DEF ShowInv, PairedInv

LEMMA ShowStepLeaves ==
  ShowStep => ShowUnchanged
  BY DEF ShowStep, ShowNone, ShowAsk, ShowNumber, ShowLength, ShowLow, ShowHigh,
         ShowDone, ShowDevice, ShowStatus, ShowEmpty, ShowEnds, ShowLog

LEMMA NextPaired == ShowInv /\ [ShowNext]_showVars => ShowInv'
<1> SUFFICES ASSUME ShowInv, [ShowNext]_showVars PROVE ShowInv'
  OBVIOUS
<1>1. ASSUME NEW e \in Id, OpenStatus(e) PROVE ShowInv'
  BY <1>1, OpenPaired
<1>2. CASE LogEvent \/ CloseStatus
  BY <1>2, LogPaired, ClosePaired
<1>3. CASE CopyAnswer \/ LoseAnswer
  BY <1>3, OthersPaired DEF CopyAnswer, LoseAnswer, setVars
<1>4. CASE SetStep
  BY <1>4, SetDevicePaired, SetStatusPaired, RemoveLogPaired DEF SetStep
<1>5. CASE CountStep
  BY <1>5, OthersPaired DEF CountStep, CountFrom0, CountOne, CountUnchanged, setVars
<1>6. CASE ShowStep
  BY <1>6, ShowStepLeaves, OthersPaired DEF ShowUnchanged, setVars
<1>7. CASE UNCHANGED showVars
  BY <1>7, OthersPaired DEF showVars, setVars
<1> QED BY <1>1, <1>2, <1>3, <1>4, <1>5, <1>6, <1>7 DEF ShowNext, CanStep

(***************************************************************************)
(* The status file and the fault log of a device agree, unless an event of *)
(* that device was stored while dev_set.cgi rewrote them.                  *)
(***************************************************************************)
THEOREM PairedCorrect == ShowSpec => []PairedUnlessReset
<1>1. ShowInv => PairedUnlessReset
  BY DEF ShowInv, FilesOK, PairedInv, PairedDev, PairedUnlessReset
<1> QED BY <1>1, InitPaired, NextPaired, PTL DEF ShowSpec
-------------------------------------------------------------------------------
(***************************************************************************)
(* The total of a log. Its times are in order and before t. At a second    *)
(* behind k of them the device is bad when k is odd, so each pair adds the *)
(* seconds from its fault to its recovery to the seconds the device has    *)
(* been bad: they are what the loop adds up.                               *)
(***************************************************************************)
Log(l, t) ==
  /\ l \in Seq(Nat) /\ t \in Nat
  /\ \A k \in 1..Len(l) : l[k] >= 1 /\ l[k] < t
  /\ \A j, k \in 1..Len(l) : j < k => l[j] < l[k]

BadSeconds(l, t) == {x \in 0..(t - 1) : BadAt(l, x)}

\* The end of pair y.
EndOf(l, y) == IF y = 0 THEN 0 ELSE l[2 * y]

LEMMA LeastOf ==
  ASSUME NEW T \in SUBSET Nat, T # {} PROVE \E x \in T : \A y \in T : x <= y
<1> DEFINE R == OpToRel(<, Nat)
<1>1. IsWellFoundedOn(R, Nat)
  BY NatLessThanWellFounded
<1>2. \A x, y \in Nat : y < x => <<y, x>> \in R
  BY DEF OpToRel
<1> HIDE DEF R
<1>3. \E x \in T : \A y \in T : ~ (<<y, x>> \in R)
  BY <1>1, WFMin
<1>4. PICK x \in T : \A y \in T : ~ (<<y, x>> \in R)
  BY <1>3
<1>5. \A y \in T : ~(y < x)
  BY <1>2, <1>4
<1>6. \A y \in T : x \in Nat /\ y \in Nat
  OBVIOUS
<1>7. \A y \in T : x <= y
  BY <1>5, <1>6
<1> QED BY <1>7

LEMMA BadBetween ==
  ASSUME NEW l, NEW t, Log(l, t), NEW k \in 0..Len(l), NEW x \in Nat,
         k > 0 => l[k] <= x, k < Len(l) => x < l[k + 1]
  PROVE  BadAt(l, x) <=> k % 2 = 1
<1>1. Len(l) \in Nat /\ DOMAIN l = 1..Len(l) /\ \A j \in 1..Len(l) : l[j] \in Nat
  BY DEF Log
<1>2. ASSUME NEW j \in 1..Len(l) PROVE l[j] <= x <=> j <= k
  <2>1. CASE j < k
    <3>1. l[j] < l[k] /\ l[k] <= x
      BY <1>1, <2>1 DEF Log
    <3>2. l[j] \in Nat /\ l[k] \in Nat
      BY <1>1, <2>1
    <3> QED BY <2>1, <3>1, <3>2
  <2>2. CASE j = k
    BY <2>2
  <2>3. CASE j = k + 1
    BY <1>1, <2>3
  <2>4. CASE j > k + 1
    <3>1. k + 1 \in 1..Len(l) /\ k < Len(l)
      BY <1>1, <2>4
    <3>2. l[k + 1] < l[j] /\ x < l[k + 1]
      BY <2>4, <3>1 DEF Log
    <3>3. l[j] \in Nat /\ l[k + 1] \in Nat
      BY <1>1, <3>1
    <3> QED BY <2>4, <3>2, <3>3
  <2> QED BY <1>1, <2>1, <2>2, <2>3, <2>4
<1>3. {j \in DOMAIN l : l[j] <= x} = 1..k
  BY <1>1, <1>2
<1>4. Cardinality(1..k) = k
  <2>1. k >= 1 => Cardinality(1..k) = k - 1 + 1
    BY <1>1, FS_Interval
  <2>2. k = 0 => 1..k = {}
    OBVIOUS
  <2> QED BY <1>1, <2>1, <2>2, FS_EmptySet
<1> QED BY <1>3, <1>4 DEF BadAt

LEMMA SecondsFinite ==
  ASSUME NEW l, NEW t \in Nat
  PROVE  IsFiniteSet(BadSeconds(l, t)) /\ BadFor(l, t) \in Nat /\ BadFor(l, t) <= t
<1>1. IsFiniteSet(0..(t - 1)) /\ Cardinality(0..(t - 1)) = t
  <2>1. IsFiniteSet(0..(t - 1))
    BY FS_Interval
  <2>2. CASE t = 0
    <3>1. 0..(t - 1) = {}
      BY <2>2
    <3> QED BY <2>1, <2>2, <3>1, FS_EmptySet
  <2>3. CASE t # 0
    BY <2>1, <2>3, FS_Interval
  <2> QED BY <2>2, <2>3
<1>2. BadSeconds(l, t) \subseteq 0..(t - 1)
  BY DEF BadSeconds
<1>3. IsFiniteSet(BadSeconds(l, t))
  BY <1>1, <1>2, FS_Subset
<1>4. Cardinality(BadSeconds(l, t)) \in Nat
  BY <1>3, FS_CardinalityType
<1>5. Cardinality(BadSeconds(l, t)) <= t
  BY <1>1, <1>2, FS_Subset
<1> QED BY <1>3, <1>4, <1>5 DEF BadFor, BadSeconds

\* From a to b the device has been bad all the time.
LEMMA SecondsAdd ==
  ASSUME NEW l, NEW s \in Nat, NEW a \in Nat, NEW b \in Nat, s <= a, a <= b,
         \A x \in s..(a - 1) : ~BadAt(l, x),
         \A x \in a..(b - 1) : BadAt(l, x)
  PROVE  BadFor(l, b) = BadFor(l, s) + (b - a)
<1> DEFINE A == BadSeconds(l, s)
           B == a..(b - 1)
<1>1. BadSeconds(l, b) = A \cup B
  BY DEF BadSeconds
<1>2. A \cap B = {}
  BY DEF BadSeconds
<1>3. IsFiniteSet(A) /\ Cardinality(A) \in Nat
  BY SecondsFinite DEF BadFor, BadSeconds
<1>4. IsFiniteSet(B) /\ Cardinality(B) = b - a
  <2>1. IsFiniteSet(B)
    BY FS_Interval
  <2>2. CASE a < b
    BY <2>2, FS_Interval
  <2>3. CASE a = b
    <3>1. B = {} /\ b - a = 0
      BY <2>3
    <3> QED BY <3>1, <2>1, FS_EmptySet
  <2> QED BY <2>1, <2>2, <2>3
<1> HIDE DEF A, B
<1>5. Cardinality(A \cup B) = Cardinality(A) + Cardinality(B) - Cardinality({})
  BY <1>2, <1>3, <1>4, FS_Union
<1>6. Cardinality({}) = 0
  BY FS_EmptySet
<1>7. BadFor(l, b) = Cardinality(A \cup B) /\ BadFor(l, s) = Cardinality(A)
  BY <1>1 DEF A, BadFor, BadSeconds
<1> QED BY <1>3, <1>4, <1>5, <1>6, <1>7

LEMMA PairAdds ==
  ASSUME NEW l, NEW t, Log(l, t), NEW y \in 1..(Len(l) \div 2)
  PROVE  /\ EndOf(l, y) \in Nat /\ EndOf(l, y - 1) \in Nat
         /\ BadFor(l, EndOf(l, y))
              = BadFor(l, EndOf(l, y - 1)) + (l[2 * y] - l[2 * y - 1])
<1> DEFINE p == 2 * y
           s == EndOf(l, y - 1)
<1>1. /\ Len(l) \in Nat /\ \A j \in 1..Len(l) : l[j] \in Nat
      /\ y \in Nat /\ p \in 2..Len(l) /\ p - 1 \in 1..Len(l) /\ p \in 1..Len(l)
      /\ p % 2 = 0 /\ (p - 1) % 2 = 1 /\ (p - 2) % 2 = 0 /\ p - 2 \in 0..Len(l)
  BY DEF Log
<1>2. l[p] \in Nat /\ l[p - 1] \in Nat /\ l[p - 1] < l[p]
  BY <1>1 DEF Log
<1>3. EndOf(l, y) = l[p]
  BY <1>1 DEF EndOf
<1>4. s = IF y = 1 THEN 0 ELSE l[p - 2]
  BY <1>1 DEF EndOf
<1>5. s \in Nat /\ s <= l[p - 1] /\ (p - 2 > 0 => s = l[p - 2])
  <2>1. CASE y = 1
    BY <1>2, <1>4, <2>1
  <2>2. CASE y # 1
    <3>1. p - 2 \in 1..Len(l) /\ s = l[p - 2]
      BY <1>1, <1>4, <2>2
    <3>2. l[p - 2] < l[p - 1] /\ l[p - 2] \in Nat
      BY <1>1, <3>1 DEF Log
    <3> QED BY <1>2, <3>1, <3>2
  <2> QED BY <2>1, <2>2
<1> HIDE DEF p, s
<1>6. ASSUME NEW x \in s..(l[p - 1] - 1) PROVE ~BadAt(l, x)
  <2>1. x \in Nat /\ x < l[p - 1] /\ s <= x
    BY <1>2, <1>5, <1>6
  <2>2. p - 2 > 0 => l[p - 2] <= x
    BY <1>5, <2>1
  <2>3. p - 2 < Len(l) => x < l[(p - 2) + 1]
    <3>1. (p - 2) + 1 = p - 1
      BY <1>1
    <3> QED BY <2>1, <3>1
  <2>4. BadAt(l, x) <=> (p - 2) % 2 = 1
    BY <1>1, <2>1, <2>2, <2>3, BadBetween
  <2> QED BY <1>1, <2>4
<1>7. ASSUME NEW x \in l[p - 1]..(l[p] - 1) PROVE BadAt(l, x)
  <2>1. x \in Nat /\ x < l[p] /\ l[p - 1] <= x
    BY <1>2, <1>7
  <2>2. p - 1 \in 0..Len(l) /\ (p - 1) + 1 = p
    BY <1>1
  <2>3. BadAt(l, x) <=> (p - 1) % 2 = 1
    BY <2>1, <2>2, BadBetween
  <2> QED BY <1>1, <2>3
<1>8. BadFor(l, l[p]) = BadFor(l, s) + (l[p] - l[p - 1])
  <2>1. l[p - 1] <= l[p]
    BY <1>2
  <2> QED BY <1>2, <1>5, <1>6, <1>7, <2>1, SecondsAdd
<1> QED BY <1>2, <1>3, <1>5, <1>8 DEF p, s

\* What the loop has added up after y pairs: the function whose value at the
\* end is ClosedFor. The seconds of BadFor make such a function, and there is
\* no other.
LEMMA ClosedIsBad ==
  ASSUME NEW l, NEW t, Log(l, t)
  PROVE  /\ EndOf(l, Len(l) \div 2) \in Nat
         /\ ClosedFor(l) = BadFor(l, EndOf(l, Len(l) \div 2))
<1> DEFINE n == Len(l) \div 2
           Y == 0..n
           d(y) == l[2 * y] - l[2 * y - 1]
           bad == [y \in Y |-> BadFor(l, EndOf(l, y))]
           IsSum(f) == f = [y \in Y |-> IF y = 0 THEN 0 ELSE f[y - 1] + d(y)]
           added == CHOOSE f : IsSum(f)
<1>1. n \in Nat
  BY DEF Log
<1>2. BadFor(l, EndOf(l, 0)) = 0
  <2>1. BadSeconds(l, 0) = {}
    BY DEF BadSeconds
  <2> QED BY <2>1, FS_EmptySet DEF EndOf, BadFor, BadSeconds
<1>3. ASSUME NEW y \in 1..n
      PROVE  /\ EndOf(l, y) \in Nat
             /\ BadFor(l, EndOf(l, y)) = BadFor(l, EndOf(l, y - 1)) + d(y)
  BY PairAdds
<1>4. ClosedFor(l) = added[n]
  BY DEF ClosedFor
<1> HIDE DEF n, d
<1>5. IsSum(bad)
  <2>1. ASSUME NEW y \in Y
        PROVE  bad[y] = IF y = 0 THEN 0 ELSE bad[y - 1] + d(y)
    <3>1. CASE y = 0
      BY <1>2, <3>1
    <3>2. CASE y # 0
      <4>1. y \in 1..n /\ y - 1 \in Y
        BY <1>1, <3>2
      <4> QED BY <1>3, <3>2, <4>1
    <3> QED BY <3>1, <3>2
  <2> QED BY <2>1
<1>6. IsSum(added)
  BY <1>5
<1> HIDE DEF added, IsSum
<1>7. ASSUME NEW y \in Y
      PROVE  added[y] = IF y = 0 THEN 0 ELSE added[y - 1] + d(y)
  BY <1>6 DEF IsSum
<1>8. \A y \in Y : added[y] = bad[y]
  <2> DEFINE T == {y \in Y : added[y] # bad[y]}
  <2> SUFFICES ASSUME T # {} PROVE FALSE
    OBVIOUS
  <2>1. T \in SUBSET Nat
    BY <1>1
  <2>2. PICK y \in T : \A z \in T : y <= z
    <3> HIDE DEF T
    <3> QED BY <2>1, LeastOf
  <2>3. y \in Y /\ y \in Nat /\ added[y] # bad[y]
    BY <1>1
  <2>4. y # 0
    BY <1>2, <1>7, <2>3
  <2>5. y - 1 \in Y /\ y - 1 \notin T /\ y \in 1..n
    BY <1>1, <2>1, <2>2, <2>3, <2>4
  <2>6. added[y - 1] = bad[y - 1]
    BY <2>5
  <2>7. added[y] = bad[y - 1] + d(y)
    BY <1>7, <2>3, <2>4, <2>6
  <2>8. bad[y] = bad[y - 1] + d(y)
    BY <1>3, <2>3, <2>5
  <2> QED BY <2>3, <2>7, <2>8
<1>9. n \in Y /\ added[n] = bad[n]
  BY <1>1, <1>8
<1>10. EndOf(l, n) \in Nat
  BY <1>1, <1>3 DEF EndOf
<1> QED BY <1>4, <1>9, <1>10 DEF n

\* After the last pair a device is good, and after a fault without a recovery
\* it is bad until t.
LEMMA TotalIsBad ==
  ASSUME NEW l, NEW t, Log(l, t), l # <<>>
  PROVE  /\ ClosedFor(l) \in Int /\ l[Len(l)] \in Nat
         /\ BadFor(l, t) = ClosedFor(l) + (IF Len(l) % 2 = 1 THEN t - l[Len(l)] ELSE 0)
<1> DEFINE n == Len(l)
           h == n \div 2
           e == EndOf(l, h)
<1>1. /\ n \in Nat /\ n >= 1 /\ t \in Nat /\ \A j \in 1..n : l[j] \in Nat
      /\ l[n] \in Nat /\ l[n] < t
  BY DEF Log
<1>2. e \in Nat /\ ClosedFor(l) = BadFor(l, e) /\ BadFor(l, e) \in Nat
  BY ClosedIsBad, SecondsFinite
<1>3. ASSUME NEW x \in Nat, l[n] <= x PROVE BadAt(l, x) <=> n % 2 = 1
  BY <1>1, <1>3, BadBetween
<1>4. CASE n % 2 = 1
  <2>1. (n - 1) % 2 = 0 /\ h \in Nat /\ 2 * h = n - 1
    BY <1>1, <1>4
  <2>2. e = IF n = 1 THEN 0 ELSE l[n - 1]
    <3> HIDE DEF h, n
    <3>1. h = 0 <=> n = 1
      BY <1>1, <2>1
    <3>2. h # 0 => EndOf(l, h) = l[n - 1]
      BY <2>1 DEF EndOf
    <3>3. h = 0 => EndOf(l, h) = 0
      BY DEF EndOf
    <3> QED BY <3>1, <3>2, <3>3
  <2>3. e <= l[n]
    <3>1. CASE n = 1
      BY <1>1, <2>2, <3>1
    <3>2. CASE n # 1
      <4>1. n - 1 \in 1..n /\ l[n - 1] \in Nat
        BY <1>1, <3>2
      <4>2. l[n - 1] < l[n]
        BY <1>1, <4>1 DEF Log
      <4> QED BY <1>1, <2>2, <3>2, <4>1, <4>2
    <3> QED BY <3>1, <3>2
  <2>4. ASSUME NEW x \in e..(l[n] - 1) PROVE ~BadAt(l, x)
    <3>1. x \in Nat /\ x < l[n] /\ e <= x /\ n - 1 \in 0..Len(l) /\ (n - 1) + 1 = n
      BY <1>1, <1>2, <2>4
    <3>2. n - 1 > 0 => l[n - 1] <= x
      BY <2>2, <3>1
    <3>3. BadAt(l, x) <=> (n - 1) % 2 = 1
      BY <3>1, <3>2, BadBetween
    <3> QED BY <2>1, <3>3
  <2>5. \A x \in l[n]..(t - 1) : BadAt(l, x)
    BY <1>1, <1>3, <1>4
  <2>6. BadFor(l, t) = BadFor(l, e) + (t - l[n])
    <3> HIDE DEF e, h, n
    <3>1. l[n] <= t
      BY <1>1
    <3> QED BY <1>1, <1>2, <2>3, <2>4, <2>5, <3>1, SecondsAdd
  <2> QED BY <1>1, <1>2, <1>4, <2>6
<1>5. CASE n % 2 # 1
  <2>1. 2 * h = n /\ h # 0
    BY <1>1, <1>5
  <2>2. e = l[n]
    BY <1>1, <2>1 DEF EndOf
  <2>3. \A x \in l[n]..(t - 1) : ~BadAt(l, x)
    BY <1>1, <1>3, <1>5
  <2>4. BadFor(l, t) = BadFor(l, e) + (t - t)
    <3>1. \A x \in t..(t - 1) : BadAt(l, x)
      BY <1>1
    <3>2. e <= t /\ t <= t
      BY <1>1, <2>2
    <3>3. \A x \in e..(t - 1) : ~BadAt(l, x)
      BY <2>2, <2>3
    <3> HIDE DEF e, h, n
    <3> QED BY <1>1, <1>2, <3>1, <3>2, <3>3, SecondsAdd
  <2> QED BY <1>1, <1>2, <1>5, <2>4
<1> QED BY <1>4, <1>5
-------------------------------------------------------------------------------
(***************************************************************************)
(* Types, and what the thread that puts a record together knows. The       *)
(* counting never counts a file twice, so no more than N are counted; an   *)
(* event has its time before it is stored and one is stored at a time, so  *)
(* logs are in order and no fault is counted without one.                  *)
(***************************************************************************)
Typed ==
  /\ time >= 1 /\ (time = 1 \/ time <= MaxTime)
  /\ devNum \in Nat /\ uncounted \subseteq devFile
  /\ Cardinality(uncounted) + devNum <= N
  /\ datalen \in Nat
  /\ map \in [num : 0..N \cup {AnswerNum}, low : 0..(ByteBase - 1), high : Nat]

InTime ==
  /\ \A i \in Id : Log(logFile[i], time + Ahead) /\ statusFile[i].count < time
  /\ storePc # "idle" => /\ eventTime >= 1 /\ eventTime < time
                         /\ old.count < eventTime
  /\ storePc = "log" => Log(logFile[storeDev], eventTime + Ahead)

Words == 0..(WordBase - 1)
Records == [status : {0, Good, Bad}, count : 0..MaxTime, latest : Words, total : Words]

Places ==
  /\ rec \in [Id -> Records]
  /\ dev \in 0..(N + 1) /\ moved \in BOOLEAN /\ now \in Nat
  /\ spc \in {"top", "number", "length", "low", "high", "device", "status", "log"}
  /\ was \in {0, Good, Bad, Empty}
  /\ spc \in {"status", "log"} => dev \in devFile

\* While the files of the device stay as they are, its log ends before now and
\* its record has the status and the count of its status file.
Still ==
  ~moved =>
    /\ spc \in {"status", "log"} => /\ storeDev # dev
                                    /\ Log(logFile[dev], now + Ahead)
    /\ spc = "log" => /\ was = statusFile[dev].status
                      /\ was \in {Good, Bad}
                      /\ rec[dev].status = was
                      /\ rec[dev].count = statusFile[dev].count

ReadInv == ShowInv /\ Typed /\ InTime /\ Places /\ Still

LEMMA LogEmpty == ASSUME NEW t \in Nat PROVE Log(<<>>, t)
  BY DEF Log

LEMMA LogLater ==
  ASSUME NEW l, NEW t, NEW u \in Nat, Log(l, t), t <= u PROVE Log(l, u)
<1>1. \A k \in 1..Len(l) : l[k] \in Nat
  BY DEF Log
<1> QED BY <1>1 DEF Log

LEMMA LogAppend ==
  ASSUME NEW l, NEW t \in Nat, Log(l, t), t >= 1 PROVE Log(Append(l, t), t + 1)
<1> DEFINE m == Append(l, t)
<1>1. /\ m \in Seq(Nat) /\ Len(l) \in Nat /\ Len(m) = Len(l) + 1
      /\ \A k \in 1..Len(l) : m[k] = l[k] /\ l[k] \in Nat /\ 1 <= l[k] /\ l[k] < t
      /\ m[Len(l) + 1] = t
  BY DEF Log
<1> HIDE DEF m
<1>2. ASSUME NEW k \in 1..Len(m) PROVE m[k] >= 1 /\ m[k] < t + 1
  <2>1. CASE k = Len(l) + 1
    BY <1>1, <2>1
  <2>2. CASE k \in 1..Len(l)
    BY <1>1, <2>2
  <2> QED BY <1>1, <2>1, <2>2
<1>3. ASSUME NEW j \in 1..Len(m), NEW k \in 1..Len(m), j < k PROVE m[j] < m[k]
  <2>1. j \in 1..Len(l)
    BY <1>1, <1>3
  <2>2. CASE k = Len(l) + 1
    BY <1>1, <2>1, <2>2
  <2>3. CASE k \in 1..Len(l)
    <3>1. l[j] < l[k]
      BY <1>3, <2>1, <2>3 DEF Log
    <3> QED BY <1>1, <2>1, <2>3, <3>1
  <2> QED BY <1>1, <2>2, <2>3
<1>4. t + 1 \in Nat
  OBVIOUS
<1> QED BY <1>1, <1>2, <1>3, <1>4 DEF Log, m

LEMMA CountFits ==
  ASSUME NEW D, D \subseteq Id PROVE IsFiniteSet(D) /\ Cardinality(D) \in 0..N
<1>1. N \in Nat /\ N >= 1
  BY ShowAssumption
<1>2. IsFiniteSet(1..N) /\ Cardinality(1..N) = N - 1 + 1
  BY <1>1, FS_Interval
<1>3. D \subseteq 1..N
  BY DEF Id
<1>4. IsFiniteSet(D) /\ Cardinality(D) <= Cardinality(1..N)
  BY <1>2, <1>3, FS_Subset
<1>5. Cardinality(D) \in Nat
  BY <1>4, FS_CardinalityType
<1> QED BY <1>1, <1>2, <1>4, <1>5

LEMMA InitRead == ShowInit => ReadInv
<1> SUFFICES ASSUME ShowInit PROVE ReadInv
  OBVIOUS
<1>1. ShowInv
  BY InitPaired
<1>2. Typed
  <2>1. Cardinality(uncounted) + devNum = 0
    BY FS_EmptySet DEF ShowInit
  <2>2. /\ time = 1 /\ devNum = 0 /\ uncounted = {} /\ datalen = 0
        /\ map = [num |-> 0, low |-> 0, high |-> 0]
    BY DEF ShowInit
  <2>3. 0 <= N /\ 0 \in 0..N /\ 0 \in 0..(ByteBase - 1)
    BY ShowAssumption
  <2> QED BY <2>1, <2>2, <2>3 DEF Typed
<1>3. InTime
  <2>1. time = 1 /\ storePc = "idle"
    BY DEF ShowInit
  <2>2. ASSUME NEW i \in Id
        PROVE  Log(logFile[i], time + Ahead) /\ statusFile[i].count < time
    <3>1. logFile[i] = <<>> /\ statusFile[i].count = 0 /\ 1 + Ahead \in Nat
      BY ShowAssumption DEF ShowInit, NewStatus, NoFile
    <3> QED BY <2>1, <3>1, LogEmpty
  <2> QED BY <2>1, <2>2 DEF InTime
<1>4. Places
  <2>1. NoRecord \in Records
    BY ShowAssumption DEF NoRecord, Records, Words
  <2>2. rec \in [Id -> Records]
    BY <2>1 DEF ShowInit
  <2>3. dev = 0 /\ now = 0 /\ moved = FALSE /\ spc = "top" /\ was = 0
    BY DEF ShowInit
  <2>4. dev \in 0..(N + 1) /\ now \in Nat
    BY <2>3, ShowAssumption
  <2>5. moved \in BOOLEAN
    BY <2>3
  <2> QED BY <2>2, <2>3, <2>4, <2>5 DEF Places
<1>5. Still
  BY DEF ShowInit, Still
<1> QED BY <1>1, <1>2, <1>3, <1>4, <1>5 DEF ReadInv

LEMMA NextTyped == ReadInv /\ [ShowNext]_showVars => Typed'
<1> SUFFICES ASSUME ReadInv, [ShowNext]_showVars PROVE Typed'
  OBVIOUS
<1>0. /\ Typed /\ FilesOK /\ N \in Nat /\ MaxTime \in Nat /\ time \in Nat
      /\ ByteBase \in Nat \ {0} /\ datalen \in Nat
  BY ShowAssumption DEF ReadInv, ShowInv, FilesOK, Typed
<1>n. devNum \in 0..N
  <2>1. uncounted \subseteq Id
    BY <1>0 DEF Typed, FilesOK
  <2>2. Cardinality(uncounted) \in 0..N
    BY <2>1, CountFits
  <2> QED BY <1>0, <2>2 DEF Typed
<1>b. \A z \in Nat : z % ByteBase \in 0..(ByteBase - 1) /\ z \div ByteBase \in Nat
  BY <1>0
<1>1. ASSUME NEW e \in Id, OpenStatus(e) PROVE Typed'
  <2>1. /\ time' = time + 1 /\ time < MaxTime
        /\ UNCHANGED <<devFile, devNum, uncounted, datalen, map>>
    BY <1>1 DEF OpenStatus, Touched, countVars, memVars
  <2> QED BY <1>0, <2>1 DEF Typed
<1>2. CASE LogEvent \/ CloseStatus \/ LoseAnswer
  <2>1. UNCHANGED <<devFile, time, devNum, uncounted, datalen, map>>
    BY <1>2 DEF LogEvent, CloseStatus, LoseAnswer, Touched, filesVars, countVars, memVars
  <2> QED BY <1>0, <2>1 DEF Typed
<1>3. CASE CopyAnswer
  <2>1. /\ UNCHANGED <<devFile, time, devNum, uncounted, datalen>>
        /\ map' = [num |-> AnswerNum, low |-> AnswerLen % ByteBase,
                   high |-> AnswerLen \div ByteBase]
    BY <1>3 DEF CopyAnswer, filesVars, countVars
  <2>2. AnswerLen \in Nat
    BY DEF AnswerLen
  <2>3. map' \in [num : 0..N \cup {AnswerNum}, low : 0..(ByteBase - 1), high : Nat]
    BY <1>b, <2>1, <2>2
  <2> QED BY <1>0, <2>1, <2>3 DEF Typed
<1>4. ASSUME NEW d \in Id, SetDevice(d) PROVE Typed'
  <2>1. /\ devFile' = devFile \cup {d}
        /\ UNCHANGED <<time, devNum, uncounted, datalen, map>>
    BY <1>4 DEF SetDevice, Touched, countVars, memVars
  <2> QED BY <1>0, <2>1 DEF Typed
<1>5. CASE SetStatus \/ RemoveLog
  <2>1. UNCHANGED <<devFile, time, devNum, uncounted, datalen, map>>
    BY <1>5 DEF SetStatus, RemoveLog, Touched, countVars, memVars
  <2> QED BY <1>0, <2>1 DEF Typed
<1>6. CASE CountFrom0
  <2>1. /\ devNum' = 0 /\ uncounted' = devFile
        /\ UNCHANGED <<devFile, time, datalen, map>>
    BY <1>6 DEF CountFrom0, CountUnchanged, filesVars, memVars
  <2>2. Cardinality(devFile) \in 0..N
    BY <1>0, CountFits DEF FilesOK
  <2>3. Cardinality(uncounted') + devNum' <= N
    BY <1>0, <2>1, <2>2
  <2> QED BY <1>0, <2>1, <2>3 DEF Typed
<1>7. CASE CountOne
  <2>1. PICK i \in uncounted : uncounted' = uncounted \ {i}
    BY <1>7 DEF CountOne
  <2>2. devNum' = devNum + 1 /\ UNCHANGED <<devFile, time, datalen, map>>
    BY <1>7 DEF CountOne, CountUnchanged, filesVars, memVars
  <2>3. uncounted \subseteq Id /\ uncounted' \subseteq Id
    BY <1>0, <2>1 DEF Typed, FilesOK
  <2>4. IsFiniteSet(uncounted) /\ Cardinality(uncounted) \in Nat
    BY <2>3, CountFits
  <2>5. Cardinality(uncounted') = Cardinality(uncounted) - 1
    BY <2>1, <2>4, FS_RemoveElement
  <2>6. Cardinality(uncounted') + devNum' <= N
    BY <1>0, <2>2, <2>4, <2>5 DEF Typed
  <2> QED BY <1>0, <2>1, <2>2, <2>6 DEF Typed
<1>8. CASE ShowStep
  <2>0. UNCHANGED <<devFile, time, devNum, uncounted>>
    BY <1>8, ShowStepLeaves DEF ShowUnchanged, filesVars, countVars
  <2>1. CASE UNCHANGED <<datalen, map>>
    BY <1>0, <2>0, <2>1 DEF Typed
  <2>2. CASE ShowNone \/ ShowNumber
    <3>1. datalen' = datalen /\ \E n \in 0..N : map' = [map EXCEPT !.num = n]
      BY <1>0, <1>n, <2>2 DEF ShowNone, ShowNumber, passVars
    <3> QED BY <1>0, <2>0, <3>1 DEF Typed
  <2>3. CASE ShowLength
    <3>1. map' = map /\ datalen' \in Nat
      BY <1>n, <1>0, <2>3 DEF ShowLength, memVars, LengthFor
    <3> QED BY <1>0, <2>0, <3>1 DEF Typed
  <2>4. CASE ShowLow
    <3>1. datalen' = datalen /\ map' = [map EXCEPT !.low = datalen % ByteBase]
      BY <2>4 DEF ShowLow
    <3> QED BY <1>0, <1>b, <2>0, <3>1 DEF Typed
  <2>5. CASE ShowHigh
    <3>1. datalen' = 0 /\ map' = [map EXCEPT !.high = datalen \div ByteBase]
      BY <2>5 DEF ShowHigh
    <3> QED BY <1>0, <1>b, <2>0, <3>1 DEF Typed
  <2>6. CASE ShowAsk \/ ShowDone \/ ShowDevice \/ ShowStatus \/ ShowEmpty \/ ShowEnds
             \/ ShowLog
    BY <2>1, <2>6 DEF ShowAsk, ShowDone, ShowDevice, ShowStatus, ShowEmpty, ShowEnds,
       ShowLog, memVars
  <2> QED BY <1>8, <2>2, <2>3, <2>4, <2>5, <2>6 DEF ShowStep
<1>9. CASE UNCHANGED showVars
  <2>1. UNCHANGED <<devFile, time, devNum, uncounted, datalen, map>>
    BY <1>9 DEF showVars, filesVars, countVars, memVars, passVars
  <2> QED BY <1>0, <2>1 DEF Typed
<1> QED BY <1>1, <1>2, <1>3, <1>4, <1>5, <1>6, <1>7, <1>8, <1>9
        DEF ShowNext, CanStep, SetStep, CountStep

LEMMA NextInTime == ReadInv /\ [ShowNext]_showVars => InTime'
<1> SUFFICES ASSUME ReadInv, [ShowNext]_showVars PROVE InTime'
  OBVIOUS
<1>0. /\ InTime /\ FilesOK /\ time \in Nat /\ time >= 1 /\ Ahead \in Nat
      /\ eventTime \in Nat
      /\ \A i \in Id : statusFile[i] \in StatusFiles /\ logFile[i] \in Seq(Nat)
  BY ShowAssumption DEF ReadInv, Typed, ShowInv, FilesOK
<1>o. CASE UNCHANGED <<statusFile, logFile, time, storePc, storeDev, old, eventTime>>
  BY <1>0, <1>o DEF InTime
<1>1. ASSUME NEW e \in Id, OpenStatus(e) PROVE InTime'
  <2>1. /\ time' = time + 1 /\ eventTime' = time /\ logFile' = logFile
        /\ storePc' = "log" /\ storeDev' = e /\ old' = statusFile[e]
        /\ statusFile' = [statusFile EXCEPT ![e] = EmptyFile]
    BY <1>1 DEF OpenStatus
  <2>2. ASSUME NEW i \in Id
        PROVE  Log(logFile'[i], time' + Ahead) /\ statusFile'[i].count < time'
    <3>1. /\ Log(logFile[i], time + Ahead) /\ statusFile[i].count < time
          /\ statusFile[i].count \in Nat
      BY <1>0 DEF InTime, StatusFiles
    <3>2. statusFile'[i].count \in {0, statusFile[i].count}
      BY <1>0, <2>1 DEF FilesOK, EmptyFile
    <3>3. time + Ahead <= time' + Ahead /\ time' + Ahead \in Nat
      BY <1>0, <2>1
    <3>4. Log(logFile[i], time' + Ahead)
      BY <3>1, <3>3, LogLater
    <3> QED BY <1>0, <2>1, <3>1, <3>2, <3>4
  <2>3. old'.count < time /\ Log(logFile[e], time + Ahead)
    BY <1>0, <2>1 DEF InTime
  <2> QED BY <1>0, <2>1, <2>2, <2>3 DEF InTime
<1>2. CASE LogEvent
  <2> DEFINE t == eventTime + Ahead
             e == storeDev
  <2>1. /\ storePc = "log" /\ storePc' = "close"
        /\ logFile' = [logFile EXCEPT ![e] = Append(@, t)]
        /\ UNCHANGED <<statusFile, time, storeDev, old, eventTime>>
    BY <1>2 DEF LogEvent
  <2>2. /\ e \in Id /\ Log(logFile[e], t) /\ eventTime >= 1 /\ eventTime < time
        /\ old.count < eventTime
    BY <1>0, <2>1 DEF InTime, FilesOK
  <2>3. t \in Nat /\ t >= 1 /\ t + 1 <= time + Ahead /\ time + Ahead \in Nat
    BY <1>0, <2>2
  <2> HIDE DEF t
  <2>4. Log(Append(logFile[e], t), t + 1)
    BY <2>2, <2>3, LogAppend
  <2>5. Log(Append(logFile[e], t), time + Ahead)
    BY <2>3, <2>4, LogLater
  <2>6. ASSUME NEW i \in Id
        PROVE  Log(logFile'[i], time' + Ahead) /\ statusFile'[i].count < time'
    <3>1. Log(logFile[i], time + Ahead) /\ statusFile[i].count < time
      BY <1>0 DEF InTime
    <3>2. logFile'[i] = logFile[i] \/ logFile'[i] = Append(logFile[e], t)
      BY <1>0, <2>1, <2>2 DEF FilesOK
    <3> QED BY <2>1, <2>5, <3>1, <3>2
  <2> QED BY <2>1, <2>2, <2>6 DEF InTime
<1>3. CASE CloseStatus
  <2> DEFINE e == storeDev
             new == IF old.status = Good THEN [status |-> Bad, count |-> old.count + 1]
                    ELSE [status |-> Good, count |-> old.count]
  <2>1. /\ storePc = "close" /\ storePc' = "idle"
        /\ statusFile' = [statusFile EXCEPT ![e] = new]
        /\ UNCHANGED <<logFile, time>>
    BY <1>3 DEF CloseStatus
  <2>2. old.count < eventTime /\ eventTime < time /\ old.count \in Nat
    BY <1>0, <2>1 DEF InTime, FilesOK, ReadStatus
  <2>3. new.count < time
    BY <1>0, <2>2
  <2> HIDE DEF new
  <2>4. ASSUME NEW i \in Id
        PROVE  Log(logFile'[i], time' + Ahead) /\ statusFile'[i].count < time'
    <3>1. Log(logFile[i], time + Ahead) /\ statusFile[i].count < time
      BY <1>0 DEF InTime
    <3>2. statusFile'[i] = statusFile[i] \/ statusFile'[i] = new
      BY <1>0, <2>1 DEF FilesOK
    <3> QED BY <2>1, <2>3, <3>1, <3>2
  <2> QED BY <2>1, <2>4 DEF InTime
<1>4. CASE CopyAnswer \/ LoseAnswer \/ (\E d \in Id : SetDevice(d)) \/ CountStep
  BY <1>o, <1>4 DEF CopyAnswer, LoseAnswer, SetDevice, CountStep, CountFrom0, CountOne,
     CountUnchanged, filesVars, storeVars
<1>5. CASE ShowStep
  BY <1>o, <1>5, ShowStepLeaves DEF ShowUnchanged, filesVars, storeVars
<1>6. CASE SetStatus
  <2>1. /\ statusFile' = [statusFile EXCEPT ![setPc[2]] = NewStatus]
        /\ UNCHANGED <<logFile, time, storePc, storeDev, old, eventTime>>
    BY <1>6 DEF SetStatus, storeVars
  <2>2. \A i \in Id : statusFile'[i] = statusFile[i] \/ statusFile'[i] = NewStatus
    BY <1>0, <2>1 DEF FilesOK
  <2>3. NewStatus.count = 0
    BY DEF NewStatus
  <2>4. \A i \in Id : statusFile'[i].count < time'
    BY <1>0, <2>1, <2>2, <2>3 DEF InTime
  <2> QED BY <1>0, <2>1, <2>4 DEF InTime
<1>7. CASE RemoveLog
  <2>1. /\ logFile' = [logFile EXCEPT ![setPc[2]] = <<>>]
        /\ UNCHANGED <<statusFile, time, storePc, storeDev, old, eventTime>>
    BY <1>7 DEF RemoveLog, storeVars
  <2>2. \A i \in Id : logFile'[i] = logFile[i] \/ logFile'[i] = <<>>
    BY <1>0, <2>1 DEF FilesOK
  <2>3. Log(<<>>, time + Ahead) /\ Log(<<>>, eventTime + Ahead)
    BY <1>0, LogEmpty
  <2>4. storePc = "log" => Log(logFile'[storeDev], eventTime + Ahead)
    BY <1>0, <2>2, <2>3 DEF InTime, FilesOK
  <2>5. \A i \in Id : Log(logFile'[i], time + Ahead)
    BY <1>0, <2>2, <2>3 DEF InTime
  <2> QED BY <1>0, <2>1, <2>4, <2>5 DEF InTime
<1>8. CASE UNCHANGED showVars
  BY <1>o, <1>8 DEF showVars, filesVars, storeVars
<1> QED BY <1>1, <1>2, <1>3, <1>4, <1>5, <1>6, <1>7, <1>8 DEF ShowNext, CanStep, SetStep

LEMMA NextPlaces == ReadInv /\ [ShowNext]_showVars => Places'
<1> SUFFICES ASSUME ReadInv, [ShowNext]_showVars PROVE Places'
  OBVIOUS
<1>0. /\ Places /\ Typed /\ FilesOK /\ N \in Nat /\ time \in Nat
      /\ MaxTime \in Nat /\ WordBase \in Nat \ {0} /\ Ahead \in Nat
  BY ShowAssumption DEF ReadInv, ShowInv, FilesOK
<1>o. ASSUME UNCHANGED <<rec, dev, now, spc, was>>, devFile \subseteq devFile',
             moved' \in BOOLEAN
      PROVE  Places'
  BY <1>0, <1>o DEF Places
<1>1. CASE CanStep \/ SetStep
  <2>1. moved' \in BOOLEAN
    <3>1. moved' = moved \/ moved' = TRUE \/ moved' \in BOOLEAN
      BY <1>1 DEF CanStep, SetStep, OpenStatus, LogEvent, CloseStatus, CopyAnswer, LoseAnswer,
         SetDevice, SetStatus, RemoveLog, Touched, readVars
    <3> QED BY <1>0, <3>1 DEF Places
  <2>2. UNCHANGED <<rec, dev, now, spc, was>> /\ devFile \subseteq devFile'
    BY <1>1 DEF CanStep, SetStep, OpenStatus, LogEvent, CloseStatus, CopyAnswer, LoseAnswer,
       SetDevice, SetStatus, RemoveLog, Touched, readVars, memVars, filesVars
  <2> QED BY <1>o, <2>1, <2>2
<1>2. CASE CountStep
  <2>1. UNCHANGED <<rec, dev, now, spc, was, moved, devFile>>
    BY <1>2 DEF CountStep, CountFrom0, CountOne, CountUnchanged, readVars, memVars, filesVars
  <2> QED BY <1>0, <1>o, <2>1 DEF Places
<1>3. CASE ShowNone \/ ShowEnds
  <2>1. UNCHANGED <<rec, dev, now, spc, was, moved, devFile>>
    BY <1>3 DEF ShowNone, ShowEnds, ShowUnchanged, filesVars, memVars, passVars, readVars
  <2> QED BY <1>0, <1>o, <2>1 DEF Places
<1>4. CASE ShowAsk \/ ShowNumber \/ ShowLength \/ ShowLow
  <2>1. /\ spc' \in {"number", "length", "low", "high"}
        /\ UNCHANGED <<devFile, rec, dev, now, was, moved>>
    BY <1>4 DEF ShowAsk, ShowNumber, ShowLength, ShowLow, ShowUnchanged, filesVars, memVars,
       readVars
  <2> QED BY <1>0, <2>1 DEF Places
<1>5. CASE ShowHigh \/ ShowDone
  <2>1. /\ spc' \in {"device", "top"} /\ dev' \in {0, 1}
        /\ UNCHANGED <<devFile, rec, now, was, moved>>
    BY <1>5 DEF ShowHigh, ShowDone, ShowUnchanged, filesVars, memVars
  <2>2. dev' \in 0..(N + 1)
    BY <1>0, <2>1
  <2> QED BY <1>0, <2>1, <2>2 DEF Places
<1>6. CASE ShowDevice
  <2>1. /\ spc' = "status" /\ now' = time /\ moved' \in BOOLEAN
        /\ UNCHANGED <<devFile, rec, dev, was>> /\ dev \in devFile
    BY <1>6 DEF ShowDevice, ShowUnchanged, filesVars, memVars
  <2> QED BY <1>0, <2>1 DEF Places
<1>7. CASE ShowStatus
  <2> DEFINE f == statusFile[dev]
  <2>1. /\ spc = "status" /\ was' = f.status /\ spc' = "log" /\ f.status \in {Good, Bad}
        /\ rec' = [rec EXCEPT ![dev] = [@ EXCEPT !.status = f.status, !.count = f.count]]
        /\ UNCHANGED <<devFile, dev, now, moved>>
    BY <1>7 DEF ShowStatus, ShowUnchanged, filesVars
  <2>2. dev \in devFile /\ dev \in Id
    BY <1>0, <2>1 DEF Places, FilesOK
  <2>3. f \in StatusFiles /\ f.count < time
    BY <1>0, <2>2 DEF FilesOK, ReadInv, InTime
  <2>4. f.count \in 0..MaxTime
    BY <1>0, <2>3 DEF Typed, StatusFiles
  <2>5. rec[dev] \in Records
    BY <1>0, <2>2 DEF Places
  <2> HIDE DEF f
  <2>6. [rec[dev] EXCEPT !.status = f.status, !.count = f.count] \in Records
    BY <2>1, <2>4, <2>5 DEF Records
  <2>7. rec' \in [Id -> Records]
    BY <1>0, <2>1, <2>6 DEF Places
  <2> QED BY <1>0, <2>1, <2>2, <2>7 DEF Places
<1>8. CASE ShowEmpty
  <2>1. /\ spc = "status" /\ was' = Empty /\ spc' = "log"
        /\ UNCHANGED <<devFile, dev, now, moved>>
    BY <1>8 DEF ShowEmpty, ShowUnchanged, filesVars
  <2>2. PICK c \in {0, MaxTime} : rec' = [rec EXCEPT ![dev].count = c]
    BY <1>8 DEF ShowEmpty
  <2>3. dev \in devFile /\ dev \in Id /\ rec[dev] \in Records /\ c \in 0..MaxTime
    BY <1>0, <2>1, <2>2 DEF Places, FilesOK
  <2>4. rec' \in [Id -> Records]
    BY <1>0, <2>2, <2>3 DEF Places, Records
  <2> QED BY <1>0, <2>1, <2>3, <2>4 DEF Places
<1>9. CASE ShowLog
  <2> DEFINE l == logFile[dev]
  <2>1. /\ spc = "log" /\ spc' = "device" /\ dev' = dev + 1
        /\ moved' = FALSE /\ now' = 0 /\ was' = 0 /\ devFile' = devFile
    BY <1>9 DEF ShowLog, ShowUnchanged, filesVars
  <2>2. dev \in devFile /\ dev \in Id /\ dev' \in 0..(N + 1) /\ now \in Nat
    BY <1>0, <2>1 DEF Places, FilesOK, Id
  <2>3. Log(l, time + Ahead) /\ rec[dev] \in Records
    BY <1>0, <2>2 DEF Places, ReadInv, InTime
  <2>4. \A z \in Int : z % WordBase \in Words
    BY <1>0 DEF Words
  <2>5. \E s \in Words, x \in Words :
           rec' = [rec EXCEPT ![dev].latest = s, ![dev].total = x]
    <3>1. CASE l = <<>>
      <4>1. rec' = [rec EXCEPT ![dev].latest = 0, ![dev].total = 0]
        BY <1>9, <3>1 DEF ShowLog
      <4>2. 0 \in Words
        BY <1>0 DEF Words
      <4> QED BY <4>1, <4>2
    <3>2. CASE l # <<>>
      <4>1. PICK s \in LatestFault(l) :
              rec' = [rec EXCEPT ![dev].latest = s, ![dev].total = TotalTime(l)]
        BY <1>9, <3>2 DEF ShowLog
      <4>2. \A k \in DOMAIN l : l[k] \in Nat
        <5> HIDE DEF l
        <5> QED BY <2>3 DEF Log
      <4>3. s \in Words
        <5> HIDE DEF l
        <5>1. PICK x \in Nat : s = (x + Ahead) % WordBase
          BY <1>0, <4>1, <4>2 DEF LatestFault
        <5>2. x + Ahead \in Int
          BY <1>0
        <5> QED BY <2>4, <5>1, <5>2
      <4>4. ClosedFor(l) \in Int /\ l[Len(l)] \in Nat
        <5> HIDE DEF l
        <5> QED BY <2>3, <3>2, TotalIsBad
      <4>5. TotalTime(l) \in Words
        <5> HIDE DEF l
        <5>1. ClosedFor(l) + (IF was = Good THEN 0 ELSE now - l[Len(l)]) \in Int
          BY <2>2, <4>4
        <5> QED BY <2>4, <5>1 DEF TotalTime
      <4> QED BY <4>1, <4>3, <4>5
    <3> QED BY <3>1, <3>2
  <2>6. PICK s \in Words, x \in Words :
           rec' = [rec EXCEPT ![dev].latest = s, ![dev].total = x]
    BY <2>5
  <2>7. rec' \in [Id -> Records]
    BY <1>0, <2>2, <2>3, <2>6 DEF Places, Records
  <2> QED BY <1>0, <2>1, <2>2, <2>7 DEF Places
<1>10. CASE UNCHANGED showVars
  <2>1. UNCHANGED <<rec, dev, now, spc, was, moved, devFile>>
    BY <1>10 DEF showVars, filesVars, memVars, passVars, readVars
  <2> QED BY <1>0, <1>o, <2>1 DEF Places
<1> QED BY <1>1, <1>2, <1>3, <1>4, <1>5, <1>6, <1>7, <1>8, <1>9, <1>10
        DEF ShowNext, ShowStep

LEMMA NextStill == ReadInv /\ [ShowNext]_showVars => Still'
<1> SUFFICES ASSUME ReadInv, [ShowNext]_showVars PROVE Still'
  OBVIOUS
<1>0. Places /\ Still /\ FilesOK
  BY DEF ReadInv, ShowInv
<1>d. (spc \in {"status", "log"} => dev \in Id) /\ 0 \notin Id
  BY <1>0, ShowAssumption DEF Places, FilesOK, Id
\* Steps of others that leave the files of the device alone, or say so.
<1>o. ASSUME UNCHANGED <<rec, dev, now, spc, was>>,
             ~moved' => /\ ~moved
                        /\ dev \in Id => /\ statusFile'[dev] = statusFile[dev]
                                         /\ logFile'[dev] = logFile[dev]
                                         /\ storeDev' = dev => storeDev = dev
      PROVE  Still'
  BY <1>0, <1>d, <1>o DEF Still
<1>1. ASSUME NEW e \in Id, OpenStatus(e) PROVE Still'
  <2>1. /\ UNCHANGED <<rec, dev, now, spc, was, logFile>>
        /\ moved' = (moved \/ dev = e) /\ storeDev' = e
        /\ statusFile' = [statusFile EXCEPT ![e] = EmptyFile]
    BY <1>1 DEF OpenStatus, Touched, memVars
  <2>2. \A i \in Id : i # e => statusFile'[i] = statusFile[i]
    BY <1>0, <2>1 DEF FilesOK
  <2> QED BY <1>o, <2>1, <2>2
<1>2. CASE LogEvent
  <2>1. /\ UNCHANGED <<rec, dev, now, spc, was, statusFile, storeDev>>
        /\ moved' = (moved \/ dev = storeDev)
        /\ logFile' = [logFile EXCEPT ![storeDev] = Append(@, eventTime + Ahead)]
    BY <1>2 DEF LogEvent, Touched, memVars
  <2>2. \A i \in Id : i # storeDev => logFile'[i] = logFile[i]
    BY <1>0, <2>1 DEF FilesOK
  <2> QED BY <1>o, <2>1, <2>2
<1>3. CASE CloseStatus
  <2> DEFINE new == IF old.status = Good THEN [status |-> Bad, count |-> old.count + 1]
                    ELSE [status |-> Good, count |-> old.count]
  <2>1. /\ UNCHANGED <<rec, dev, now, spc, was, logFile>>
        /\ moved' = (moved \/ dev = storeDev) /\ storeDev' = 0
        /\ statusFile' = [statusFile EXCEPT ![storeDev] = new]
    BY <1>3 DEF CloseStatus, Touched, memVars
  <2> HIDE DEF new
  <2>2. \A i \in Id : i # storeDev => statusFile'[i] = statusFile[i]
    BY <1>0, <2>1 DEF FilesOK
  <2> QED BY <1>d, <1>o, <2>1, <2>2
<1>4. CASE CopyAnswer \/ LoseAnswer \/ CountStep \/ ShowNone \/ ShowEnds
  <2>1. UNCHANGED <<statusFile, logFile, storeDev, rec, dev, now, spc, was, moved>>
    BY <1>4 DEF CopyAnswer, LoseAnswer, CountStep, CountFrom0, CountOne, CountUnchanged,
       ShowNone, ShowEnds, ShowUnchanged, filesVars, storeVars, memVars, passVars, readVars
  <2> QED BY <1>o, <2>1
<1>5. ASSUME NEW d \in Id, SetDevice(d) PROVE Still'
  <2>1. /\ UNCHANGED <<statusFile, logFile, storeDev, rec, dev, now, spc, was>>
        /\ moved' = (moved \/ dev = d)
    BY <1>5 DEF SetDevice, Touched, storeVars, memVars
  <2> QED BY <1>o, <2>1
<1>6. CASE SetStatus
  <2>1. /\ UNCHANGED <<logFile, storeDev, rec, dev, now, spc, was>>
        /\ moved' = (moved \/ dev = setPc[2])
        /\ statusFile' = [statusFile EXCEPT ![setPc[2]] = NewStatus]
    BY <1>6 DEF SetStatus, Touched, storeVars, memVars
  <2>2. \A i \in Id : i # setPc[2] => statusFile'[i] = statusFile[i]
    BY <1>0, <2>1 DEF FilesOK
  <2> QED BY <1>o, <2>1, <2>2
<1>7. CASE RemoveLog
  <2>1. /\ UNCHANGED <<statusFile, storeDev, rec, dev, now, spc, was>>
        /\ moved' = (moved \/ dev = setPc[2])
        /\ logFile' = [logFile EXCEPT ![setPc[2]] = <<>>]
    BY <1>7 DEF RemoveLog, Touched, storeVars, memVars
  <2>2. \A i \in Id : i # setPc[2] => logFile'[i] = logFile[i]
    BY <1>0, <2>1 DEF FilesOK
  <2> QED BY <1>o, <2>1, <2>2
<1>8. CASE ShowAsk \/ ShowNumber \/ ShowLength \/ ShowLow \/ ShowHigh \/ ShowDone \/ ShowLog
  <2>1. spc' \notin {"status", "log"}
    BY <1>8 DEF ShowAsk, ShowNumber, ShowLength, ShowLow, ShowHigh, ShowDone, ShowLog
  <2> QED BY <2>1 DEF Still
<1>9. CASE ShowDevice
  <2>1. /\ spc' = "status" /\ now' = time /\ dev' = dev /\ logFile' = logFile
        /\ storeDev' = storeDev /\ moved' = (storeDev = dev) /\ dev \in devFile
    BY <1>9 DEF ShowDevice, ShowUnchanged, filesVars, storeVars
  <2>2. Log(logFile[dev], time + Ahead)
    BY <1>0, <2>1 DEF FilesOK, ReadInv, InTime
  <2> QED BY <2>1, <2>2 DEF Still
<1>10. CASE ShowStatus
  <2> DEFINE f == statusFile[dev]
  <2>1. /\ spc = "status" /\ was' = f.status /\ spc' = "log" /\ f.status \in {Good, Bad}
        /\ rec' = [rec EXCEPT ![dev] = [@ EXCEPT !.status = f.status, !.count = f.count]]
        /\ UNCHANGED <<statusFile, logFile, storeDev, dev, now, moved>>
    BY <1>10 DEF ShowStatus, ShowUnchanged, filesVars, storeVars
  <2>2. dev \in Id /\ rec \in [Id -> Records]
    BY <1>0, <1>d, <2>1 DEF Places
  <2>3. rec'[dev].status = f.status /\ rec'[dev].count = f.count
    <3> HIDE DEF f
    <3> QED BY <2>1, <2>2 DEF Records
  <2>4. ~moved => Log(logFile[dev], now + Ahead) /\ storeDev # dev
    BY <1>0, <2>1 DEF Still
  <2> QED BY <2>1, <2>3, <2>4 DEF Still
\* An empty file is one of an event that is being stored.
<1>11. CASE ShowEmpty
  <2>1. /\ spc = "status" /\ statusFile[dev].status = Empty /\ moved' = moved
    BY <1>11 DEF ShowEmpty
  <2>2. storeDev = dev
    BY <1>0, <1>d, <2>1 DEF FilesOK
  <2>3. moved
    BY <1>0, <2>1, <2>2 DEF Still
  <2> QED BY <2>1, <2>3 DEF Still
<1>12. CASE UNCHANGED showVars
  BY <1>o, <1>12 DEF showVars, filesVars, storeVars, memVars, passVars, readVars
<1> QED BY <1>1, <1>2, <1>3, <1>4, <1>5, <1>6, <1>7, <1>8, <1>9, <1>10, <1>11, <1>12
        DEF ShowNext, CanStep, SetStep, ShowStep

LEMMA NextRead == ReadInv /\ [ShowNext]_showVars => ReadInv'
  BY NextPaired, NextTyped, NextInTime, NextPlaces, NextStill DEF ReadInv

(***************************************************************************)
(* What is in memory and in the places of the threads is well typed; no    *)
(* more devices are counted than there are ids, and none is asked for its  *)
(* files that has none.                                                    *)
(***************************************************************************)
THEOREM ShowTypeCorrect == ShowSpec => []ShowTypeOK
<1>1. ReadInv => ShowTypeOK
  <2> SUFFICES ASSUME ReadInv PROVE ShowTypeOK
    OBVIOUS
  <2>1. Typed /\ Places /\ FilesOK
    BY DEF ReadInv, ShowInv
  <2>2. devNum \in 0..N
    <3>1. Cardinality(uncounted) \in 0..N
      BY <2>1, CountFits DEF Typed, FilesOK
    <3> QED BY <2>1, <3>1, ShowAssumption DEF Typed
  <2>3. \A i \in Id : rec[i] \in Records
    BY <2>1 DEF Places
  <2>4. storeDev \in Id \cup {0} /\ (storePc # "idle" <=> storeDev # 0)
    BY <2>1, ShowAssumption DEF FilesOK, Id
  <2> QED BY <2>1, <2>2, <2>3, <2>4 DEF ShowTypeOK, Typed, Places, FilesOK, Records, Words
<1> QED BY <1>1, InitRead, NextRead, PTL DEF ShowSpec

\* The last fault of a log that goes with the status that has been read.
LEMMA LatestIsMax ==
  ASSUME NEW l, NEW t, Log(l, t), l # <<>>, was \in {Good, Bad},
         Len(l) % 2 = 1 <=> was = Bad
  PROVE  LatestFault(l) = {LastFault(l)}
<1> DEFINE at == IF was = Good THEN Len(l) - 1 ELSE Len(l)
<1>1. /\ DOMAIN l = 1..Len(l) /\ Len(l) \in Nat /\ Len(l) >= 1
      /\ \A k \in 1..Len(l) : l[k] \in Nat
  BY DEF Log
<1>2. at \in 1..Len(l) /\ at % 2 = 1 /\ \A k \in 1..Len(l) : k % 2 = 1 => k <= at
  <2> DEFINE n == Len(l)
  <2>1. n \in Nat /\ n >= 1
    BY <1>1
  <2> HIDE DEF n
  <2>2. CASE was = Good
    <3>1. ~(n % 2 = 1) /\ at = n - 1
      BY <2>2 DEF n
    <3>2. n % 2 = 0
      BY <2>1, <3>1
    <3>3. n - 1 \in 1..n /\ (n - 1) % 2 = 1 /\ \A k \in 1..n : k % 2 = 1 => k <= n - 1
      BY <2>1, <3>2
    <3> QED BY <3>1, <3>3 DEF n
  <2>3. CASE was = Bad
    <3>1. n % 2 = 1 /\ at = n
      BY <2>3 DEF n
    <3>2. n \in 1..n /\ \A k \in 1..n : k % 2 = 1 => k <= n
      BY <2>1
    <3> QED BY <3>1, <3>2 DEF n
  <2> QED BY <2>2, <2>3
<1> HIDE DEF at
<1>3. l[at] \in FaultTimes(l)
  BY <1>1, <1>2 DEF FaultTimes
<1>4. ASSUME NEW y \in FaultTimes(l) PROVE y \in Nat /\ y <= l[at]
  <2>1. PICK k \in 1..Len(l) : k % 2 = 1 /\ y = l[k]
    BY <1>1 DEF FaultTimes
  <2>2. k <= at /\ l[k] \in Nat /\ l[at] \in Nat
    BY <1>1, <1>2, <2>1
  <2>3. k < at => l[k] < l[at]
    BY <1>2 DEF Log
  <2> QED BY <1>1, <1>2, <2>1, <2>2, <2>3
<1>5. Max(FaultTimes(l)) = l[at]
  <2> DEFINE S == FaultTimes(l)
             P(x) == x \in S /\ \A y \in S : x >= y
  <2>1. l[at] \in Nat /\ P(l[at])
    BY <1>3, <1>4
  <2>2. \A x \in S : (\A y \in S : x >= y) => x = l[at]
    BY <1>3, <1>4
  <2> HIDE DEF S
  <2>3. Max(S) \in S /\ \A y \in S : Max(S) >= y
    BY <2>1 DEF Max
  <2>4. Max(S) = l[at]
    BY <2>2, <2>3
  <2> QED BY <2>4 DEF S
<1>6. LatestFault(l) = {(l[at] + Ahead) % WordBase}
  BY <1>1, <1>2 DEF LatestFault, at
<1> QED BY <1>5, <1>6 DEF LastFault

(***************************************************************************)
(* The record of a device whose files have stayed as they were and agree   *)
(* holds their status and count, the start of its latest fault moved Ahead *)
(* of the log, and the seconds for which it has been bad, less Ahead when  *)
(* it still is, modulo the word: whatever came in between, and for logs of *)
(* any length.                                                             *)
(***************************************************************************)
THEOREM RecordsAreRightCorrect == ShowSpec => RecordsAreRight
<1> DEFINE Right ==
      (spc = "log" /\ spc' = "device" /\ ~moved /\ Paired(dev)) =>
         LET l     == logFile[dev]
             f     == statusFile[dev]
             short == IF f.status = Bad THEN Ahead ELSE 0
         IN  rec'[dev] = [status |-> f.status,
                          count  |-> f.count,
                          latest |-> LastFault(l),
                          total  |-> (BadFor(l, now + Ahead) - short) % WordBase]
<1>1. ReadInv /\ [ShowNext]_showVars => Right
  <2> DEFINE l == logFile[dev]
             f == statusFile[dev]
             short == IF f.status = Bad THEN Ahead ELSE 0
             t == now + Ahead
  <2> SUFFICES ASSUME ReadInv, [ShowNext]_showVars,
                      spc = "log", spc' = "device", ~moved, Paired(dev)
               PROVE  rec'[dev] = [status |-> f.status, count |-> f.count,
                         latest |-> LastFault(l),
                         total  |-> (BadFor(l, t) - short) % WordBase]
    OBVIOUS
  <2>1. ShowLog
    <3>1. ~(spc' = spc)
      OBVIOUS
    <3>2. ~(CanStep \/ SetStep \/ CountStep \/ UNCHANGED showVars)
      BY <3>1 DEF showVars, passVars, CanStep, SetStep, CountStep, OpenStatus, LogEvent,
         CloseStatus, CopyAnswer, LoseAnswer, SetDevice, SetStatus, RemoveLog, CountFrom0,
         CountOne, CountUnchanged, Touched
    <3>3. ShowStep
      BY <3>2 DEF ShowNext
    <3> QED BY <3>3 DEF ShowStep, ShowNone, ShowAsk, ShowNumber, ShowLength, ShowLow,
               ShowHigh, ShowDone, ShowDevice, ShowStatus, ShowEmpty, ShowEnds
  <2>2. /\ Places /\ Still /\ FilesOK /\ Typed
        /\ Ahead \in Nat /\ WordBase \in Nat \ {0}
    BY ShowAssumption DEF ReadInv, ShowInv
  <2>3. /\ dev \in Id /\ rec[dev] \in Records /\ rec \in [Id -> Records]
        /\ now \in Nat /\ t \in Nat
    BY <2>2 DEF Places, FilesOK
  <2>4. /\ Log(l, t) /\ was = f.status /\ was \in {Good, Bad}
        /\ rec[dev].status = f.status /\ rec[dev].count = f.count
    BY <2>2 DEF Still
  <2>5. Len(l) % 2 = 1 <=> was = Bad
    BY <2>4 DEF Paired
  <2>s. short = IF was = Bad THEN Ahead ELSE 0
    BY <2>4
  <2> HIDE DEF l, f, short
  <2>6. BadFor(l, t) \in Nat
    BY <2>3, SecondsFinite
  <2>7. CASE l = <<>>
    <3>1. rec' = [rec EXCEPT ![dev].latest = 0, ![dev].total = 0]
      BY <2>1, <2>7 DEF ShowLog, l
    <3>2. BadFor(l, t) = 0
      <4> HIDE DEF t
      <4>1. ASSUME NEW x \in Nat PROVE ~BadAt(l, x)
        <5>1. 0 \in 0..Len(l) /\ ~(0 > 0) /\ ~(0 < Len(l))
          BY <2>7
        <5>2. BadAt(l, x) <=> 0 % 2 = 1
          BY <2>4, <5>1, BadBetween
        <5> QED BY <5>2
      <4>2. BadSeconds(l, t) = {}
        BY <2>3, <4>1 DEF BadSeconds
      <4> QED BY <4>2, FS_EmptySet DEF BadFor, BadSeconds
    <3>3. rec'[dev] = [rec[dev] EXCEPT !.latest = 0, !.total = 0]
      BY <2>3, <3>1
    <3>4. short = 0
      BY <2>5, <2>7, <2>s
    <3>5. (BadFor(l, t) - short) % WordBase = 0
      BY <2>2, <3>2, <3>4
    <3>6. LastFault(l) = 0
      BY <2>7 DEF LastFault
    <3> QED BY <2>3, <2>4, <3>3, <3>5, <3>6 DEF Records
  <2>8. CASE l # <<>>
    <3>1. PICK s \in LatestFault(l) :
            rec' = [rec EXCEPT ![dev].latest = s, ![dev].total = TotalTime(l)]
      BY <2>1, <2>8 DEF ShowLog, l
    <3>2. s = LastFault(l)
      BY <2>4, <2>5, <2>8, <3>1, LatestIsMax
    <3>3. /\ ClosedFor(l) \in Int /\ l[Len(l)] \in Nat
          /\ BadFor(l, t) = ClosedFor(l) + (IF Len(l) % 2 = 1 THEN t - l[Len(l)] ELSE 0)
      BY <2>4, <2>8, TotalIsBad
    <3>4. BadFor(l, t) - short
            = ClosedFor(l) + (IF was = Good THEN 0 ELSE now - l[Len(l)])
      <4>1. CASE was = Good
        BY <2>2, <2>3, <2>5, <2>s, <3>3, <4>1
      <4>2. CASE was = Bad
        BY <2>2, <2>3, <2>5, <2>s, <3>3, <4>2
      <4> QED BY <2>4, <4>1, <4>2
    <3>5. TotalTime(l) = (BadFor(l, t) - short) % WordBase
      BY <3>4 DEF TotalTime
    <3>6. rec'[dev] = [rec[dev] EXCEPT !.latest = s, !.total = TotalTime(l)]
      BY <2>3, <3>1
    <3> QED BY <2>3, <2>4, <3>2, <3>5, <3>6 DEF Records
  <2> QED BY <2>7, <2>8
<1> QED BY <1>1, InitRead, NextRead, PTL DEF ShowSpec, RecordsAreRight
===============================================================================
