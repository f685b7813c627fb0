-------------------------- MODULE DeviceStatusProofs --------------------------
(***************************************************************************)
(* TypeOK of DeviceStatus for any devices, conditions and producers; and,  *)
(* for the events of the controller alone (ControllerOnly), what the       *)
(* status files and the fault logs say, for any number of devices, reports *)
(* and kills of the daemon.                                                *)
(***************************************************************************)
EXTENDS DeviceStatus, FiniteSetTheorems, SequenceTheorems, TLAPS

ContentsSet == [status : 0..4, count : Nat]
Effects == [writes : BOOLEAN, status : 0..4, counts : 0..1, logsAfter : SUBSET (0..4)]

LEMMA ConditionParts ==
  ASSUME NEW c \in Conditions
  PROVE  c[1] \in Device /\ c[2] \in {k[2] : k \in Conditions} /\ c = <<c[1], c[2]>>
  BY ConstantsAssumption

LEMMA EventType ==
  ASSUME NEW d \in Device, NEW y \in {c[2] : c \in Conditions} \cup {"A0"}, NEW v \in 1..2
  PROVE  Event(<<d, y>>, v) \in Events
  BY DEF Event, Events

LEMMA EffectParts ==
  /\ Nothing \in Effects /\ ~Nothing.writes /\ Nothing.logsAfter = {}
  /\ \A s \in 0..4, a \in SUBSET (0..4) :
       /\ Sets(s, a) \in Effects
       /\ Sets(s, a).writes /\ Sets(s, a).status = s /\ Sets(s, a).logsAfter = a
       /\ Sets(s, a).counts = 0
       /\ Counts(s, a) \in Effects
       /\ Counts(s, a).writes /\ Counts(s, a).status = s /\ Counts(s, a).logsAfter = a
       /\ Counts(s, a).counts = 1
<1>1. Nothing \in Effects /\ ~Nothing.writes /\ Nothing.logsAfter = {}
  BY DEF Effects, Nothing
<1>2. ASSUME NEW s \in 0..4, NEW a \in SUBSET (0..4)
      PROVE  /\ Sets(s, a) \in Effects
             /\ Sets(s, a).writes /\ Sets(s, a).status = s
             /\ Sets(s, a).logsAfter = a /\ Sets(s, a).counts = 0
  BY DEF Effects, Sets
<1>3. ASSUME NEW s \in 0..4, NEW a \in SUBSET (0..4)
      PROVE  /\ Counts(s, a) \in Effects
             /\ Counts(s, a).writes /\ Counts(s, a).status = s
             /\ Counts(s, a).logsAfter = a /\ Counts(s, a).counts = 1
  <2> DEFINE r == Sets(s, a)
  <2>1. r \in Effects /\ r.writes /\ r.status = s /\ r.logsAfter = a
    BY <1>2
  <2>2. Counts(s, a) = [r EXCEPT !.counts = 1]
    BY DEF Counts
  <2> HIDE DEF r
  <2> QED BY <2>1, <2>2 DEF Effects
<1> QED BY <1>1, <1>2, <1>3

LEMMA FailsAndRecoversType ==
  ASSUME NEW e, NEW bad \in {2, 3}
  PROVE  /\ FailsAndRecovers(e, bad) \in Effects
         /\ FailsAndRecovers(e, bad).writes
  BY EffectParts DEF FailsAndRecovers

LEMMA EffectType == ASSUME NEW e \in Events PROVE Effect(e) \in Effects
<1> DEFINE case == <<Class[e.dev], e.type>>
<1>1. CASE case \in {<<"camera", "A0">>, <<"sensor", "on">>}
  BY <1>1, FailsAndRecoversType DEF Effect
<1>2. CASE case \in {<<"terminal", "72">>, <<"light", "70">>}
  BY <1>2, FailsAndRecoversType DEF Effect
<1>3. CASE case = <<"camera", "70">>
  BY <1>3, EffectParts DEF Effect
<1>4. CASE case = <<"light", "71">>
  BY <1>4, EffectParts DEF Effect
<1>5. CASE case = <<"cabinet", "35">>
  BY <1>5, EffectParts DEF Effect
<1>6. CASE case = <<"cabinet", "33">>
  BY <1>6, EffectParts DEF Effect
<1>7. CASE /\ case \notin {<<"camera", "A0">>, <<"sensor", "on">>}
           /\ case \notin {<<"terminal", "72">>, <<"light", "70">>}
           /\ case \notin {<<"camera", "70">>, <<"light", "71">>,
                           <<"cabinet", "35">>, <<"cabinet", "33">>}
  BY <1>7, EffectParts DEF Effect
<1> QED BY <1>1, <1>2, <1>3, <1>4, <1>5, <1>6, <1>7

LEMMA EffectNowType == TypeOK => EffectNow \in Effects
  BY EffectType, EffectParts DEF TypeOK, EffectNow

LEMMA ReadingType ==
  ASSUME NEW f \in ContentsSet PROVE Reading(f) \subseteq ContentsSet
  BY ConstantsAssumption DEF Reading, AnyContents, ContentsSet

LEMMA EmptiedType == Emptied \in ContentsSet /\ Emptied.status = 0
  BY DEF Emptied, Contents, ContentsSet
-------------------------------------------------------------------------------
LEMMA TypeInit == Init => TypeOK
<1> SUFFICES ASSUME Init PROVE TypeOK
  OBVIOUS
<1>1. NoDev \in Device
  BY ConstantsAssumption DEF NoDev
<1>2. Contents(1, 0) \in ContentsSet
  BY DEF Contents, ContentsSet
<1>3. count \in BOOLEAN /\ alarm \in BOOLEAN
  BY DEF Init
<1> QED BY <1>1, <1>2, <1>3, EmptiedType, ConstantsAssumption
        DEF Init, TypeOK, Start, Producers, ContentsSet

LEMMA ChangeType == ASSUME TypeOK, NEW c \in Conditions, Change(c) PROVE TypeOK'
<1>1. ok' \in [Conditions -> BOOLEAN]
  BY DEF Change, TypeOK
<1>3. changes' \in 0..MaxChanges
  BY ConstantsAssumption DEF Change, TypeOK
<1>2. inbox' \in Seq(Events)
  <2>1. CASE c \in Reported
    <3> DEFINE e == Event(c, IF ok'[c] THEN 1 ELSE 2)
    <3>1. e \in Events
      BY ConditionParts, EventType
    <3>2. inbox' = Append(inbox, e)
      BY <2>1 DEF Change, Report
    <3> HIDE DEF e
    <3> QED BY <3>1, <3>2 DEF TypeOK
  <2>2. CASE c \notin Reported
    BY <2>2 DEF Change, Report, TypeOK
  <2> QED BY <2>1, <2>2
<1> QED BY <1>1, <1>2, <1>3 DEF Change, TypeOK, buffer, files, local, stores

LEMMA AppendType == ASSUME TypeOK, CanAppend \/ Timeout PROVE TypeOK'
<1>1. CASE CanAppend
  <2>1. Tail(inbox) \in Seq(Events)
    BY <1>1 DEF CanAppend, TypeOK
  <2> QED BY <1>1, <2>1 DEF CanAppend, TypeOK, buffer, files, local, stores
<1>2. CASE Timeout
  BY <1>2 DEF Timeout, TypeOK, world, buffer, files, local, stores
<1> QED BY <1>1, <1>2

LEMMA ReceiveType == ASSUME TypeOK, CanReceive PROVE TypeOK'
<1>1. Head(inbox) \in Events /\ Tail(inbox) \in Seq(Events)
  BY DEF CanReceive, TypeOK
<1>2. count' \in BOOLEAN /\ alarm' \in BOOLEAN
  BY DEF CanReceive
<1> QED BY <1>1, <1>2 DEF CanReceive, Goto, Producers, TypeOK, files, local, stores

LEMMA StoreType == ASSUME TypeOK, NEW t \in Producers, StoreStep(t) PROVE TypeOK'
<1> USE DEF world, buffer, files, local, stores
<1>0. file[dev[t]] \in ContentsSet /\ old[t] \in ContentsSet /\ out[t] \in ContentsSet
  BY DEF TypeOK, ContentsSet
<1>1. CASE Open(t)
  <2>1. slot.dev \in Device /\ file[slot.dev] \in ContentsSet
    BY <1>1 DEF Open, TypeOK, Events, ContentsSet
  <2>2. PICK f \in Reading(file[slot.dev]) : old' = [old EXCEPT ![t] = f]
    BY <1>1 DEF Open
  <2>3. f \in ContentsSet
    BY <2>1, <2>2, ReadingType
  <2>4. old' \in [Producers -> [status : 0..4, count : Nat]]
    BY <2>2, <2>3 DEF TypeOK, ContentsSet
  <2> QED BY <1>1, <2>1, <2>4 DEF Open, Goto, TypeOK
<1>2. CASE OpenNothing(t)
  BY <1>2 DEF OpenNothing, Goto, TypeOK
<1>3. CASE OpenFails(t)
  BY <1>3 DEF OpenFails, Return, TypeOK
<1>4. CASE Rewrite(t)
  <2> DEFINE f == IF EffectNow.writes
                  THEN Contents(EffectNow.status, old[t].count + EffectNow.counts)
                  ELSE Emptied
  <2>1. f \in ContentsSet
    BY <1>0, EffectNowType, EmptiedType DEF Effects, ContentsSet, Contents
  <2>2. /\ file' = [file EXCEPT ![dev[t]] = Emptied]
        /\ logged' = [logged EXCEPT ![dev[t]] = IF Logs(t) THEN @ + 1 ELSE @]
        /\ out' = [out EXCEPT ![t] = f] /\ old' = [old EXCEPT ![t] = Emptied]
    BY <1>4 DEF Rewrite, Apply
  <2> HIDE DEF f
  <2>3. /\ file' \in [Device -> ContentsSet] /\ logged' \in [Device -> Nat]
        /\ out' \in [Producers -> ContentsSet] /\ old' \in [Producers -> ContentsSet]
    BY <2>1, <2>2, EmptiedType DEF TypeOK, ContentsSet
  <2> QED BY <1>4, <2>3 DEF Rewrite, Apply, Goto, TypeOK, ContentsSet
<1>5. CASE RewriteFails(t)
  BY <1>5, EmptiedType DEF RewriteFails, Return, TypeOK, ContentsSet
<1>6. CASE Close(t)
  BY <1>0, <1>6, EmptiedType DEF Close, Goto, TypeOK, ContentsSet
<1>7. CASE Clear(t)
  <2>1. count' \in BOOLEAN /\ alarm' \in BOOLEAN
    BY <1>7 DEF Clear, TypeOK
  <2> QED BY <1>7, <2>1 DEF Clear, Return, TypeOK
<1> QED BY <1>1, <1>2, <1>3, <1>4, <1>5, <1>6, <1>7 DEF StoreStep

LEMMA PingType == ASSUME TypeOK, PingStep PROVE TypeOK'
<1> USE DEF world, buffer, files, local, stores, Producers
<1>1. CASE PingTop
  BY <1>1 DEF PingTop, TypeOK
<1>2. ASSUME NEW d \in Cameras, PingSkip(d) PROVE TypeOK'
  BY <1>2 DEF PingSkip, TypeOK
<1>3. ASSUME NEW d \in Cameras, PingRead(d) PROVE TypeOK'
  <2>1. d \in Device /\ file[d].status \in 0..4
    BY DEF Cameras, TypeOK
  <2> QED BY <1>3, <2>1 DEF PingRead, Goto, TypeOK
<1>4. CASE PingSame
  BY <1>4 DEF PingSame, Goto, TypeOK
<1>5. CASE PingDiffers
  BY <1>5 DEF PingDiffers, Goto, TypeOK
<1>6. CASE PingTakeBuf
  BY <1>6 DEF PingTakeBuf, TakeBuf, Goto, TypeOK
<1>7. CASE PingPlace
  <2>1. slot' \in Events
    BY <1>7, EventType DEF PingPlace, TypeOK
  <2> QED BY <1>7, <2>1 DEF PingPlace, Goto, TypeOK
<1> QED BY <1>1, <1>2, <1>3, <1>4, <1>5, <1>6, <1>7 DEF PingStep

LEMMA TypeStep == TypeOK /\ [Next]_vars => TypeOK'
<1> SUFFICES ASSUME TypeOK, [Next]_vars PROVE TypeOK'
  OBVIOUS
<1>1. CASE Crash
  <2>1. /\ pc' \in [Producers -> {"idle"}]
        /\ old' \in [Producers -> ContentsSet] /\ out' \in [Producers -> ContentsSet]
    BY <1>1, EmptiedType DEF Crash, Start
  <2>2. count' \in BOOLEAN /\ alarm' \in BOOLEAN
    BY <1>1 DEF Crash
  <2> QED BY <1>1, <2>1, <2>2, ConstantsAssumption
          DEF Crash, TypeOK, world, buffer, files, ContentsSet
<1>2. CASE UNCHANGED vars
  BY <1>2 DEF vars, TypeOK, world, buffer, files, local, stores
<1> QED BY <1>1, <1>2, ChangeType, ReceiveType, AppendType, StoreType, PingType DEF Next

(***************************************************************************)
(* The state is well typed whichever of the two producers stores, whatever *)
(* is in the buffer by then, and wherever the daemon is killed.            *)
(***************************************************************************)
THEOREM StatusTypeCorrect == Spec => []TypeOK
<1> QED BY TypeInit, TypeStep, PTL DEF Spec
-------------------------------------------------------------------------------
(* From here on no camera is configured, so that the ping thread never     *)
(* stores, and files open. (With both producers the buffer may be          *)
(* overwritten between the reads of one store: the run on cameras.)        *)
ControllerOnly == Cameras = {} /\ ~FilesMayFail

\* The conditions whose events have a case in the switch.
Cases == {<<"sensor", "on">>, <<"terminal", "72">>, <<"light", "70">>,
          <<"light", "71">>, <<"cabinet", "35">>, <<"cabinet", "33">>}
HandledDevice(d) == \A c \in Conditions : c[1] = d => <<Class[d], c[2]>> \in Cases
Handled == {d \in Device : HandledDevice(d)}

Sound(e) == e \in Events /\ <<e.dev, e.type>> \in Conditions

\* One store at a time, which works on the device of the event in the buffer.
OneStore ==
  /\ pc["ping"] = "idle" /\ todo = {}
  /\ pc["can"] \in {"idle", "open", "rewrite", "close", "clear"}
  /\ pc["can"] # "idle" => Sound(slot)
  /\ count => pc["can"] # "idle"
  /\ ~alarm
  /\ pc["can"] \in {"rewrite", "close"} => dev["can"] = slot.dev
  /\ pc["can"] = "close" => file[dev["can"]] = Emptied
  /\ \A i \in DOMAIN inbox : Sound(inbox[i])

\* What the status file of d says, or will when the store is done.
Current(d) ==
  IF pc["can"] = "close" /\ dev["can"] = d THEN out["can"] ELSE file[d]

\* The steps that are left. A store is Open, Rewrite, Close and Clear.
Idles == CanReceive \/ PingTop \/ Open("can") \/ Clear("can")

LEMMA ControllerNext ==
  ASSUME TypeOK, OneStore, ControllerOnly, [Next]_vars
  PROVE  \/ \E c \in Conditions : Change(c)
         \/ Idles \/ Rewrite("can") \/ Close("can")
         \/ Crash \/ UNCHANGED vars
<1>1. ~OpenFails("can") /\ ~RewriteFails("can")
  BY DEF OpenFails, RewriteFails, ControllerOnly
<1>2. ~OpenNothing("can")
  BY ConstantsAssumption DEF OpenNothing, Goto, OneStore, Sound
<1>3. ~StoreStep("ping")
  BY DEF OneStore, StoreStep, Open, OpenNothing, OpenFails, Rewrite, Apply,
         RewriteFails, Close, Clear, Goto
<1>5. ~CanAppend /\ ~Timeout
  BY DEF CanAppend, Timeout, OneStore
<1>4. PingStep => PingTop
  BY DEF OneStore, ControllerOnly, PingStep, PingSame, PingDiffers, PingTakeBuf,
         TakeBuf, PingPlace, Goto
<1> QED BY <1>1, <1>2, <1>3, <1>4, <1>5 DEF Next, StoreStep, Producers, Idles

LEMMA OneStoreInit == ASSUME ControllerOnly, Init PROVE OneStore
  BY DEF Init, OneStore, Start, Producers

LEMMA SoundReport ==
  ASSUME NEW c \in Conditions, NEW v \in 1..2 PROVE Sound(Event(c, v))
<1>1. c = <<c[1], c[2]>> /\ c[1] \in Device /\ c[2] \in {k[2] : k \in Conditions}
  BY ConditionParts
<1>2. Event(c, v).dev = c[1] /\ Event(c, v).type = c[2]
  BY DEF Event
<1>3. Event(<<c[1], c[2]>>, v) \in Events
  BY <1>1, EventType
<1> QED BY <1>1, <1>2, <1>3 DEF Sound

\* Without cameras every condition is reported; what is appended to inbox.
LEMMA Reports ==
  ASSUME TypeOK, ControllerOnly, NEW c \in Conditions, Change(c)
  PROVE  \E v \in 1..2 :
           /\ inbox' = Append(inbox, Event(c, v)) /\ (v = 1 <=> ok'[c])
           /\ \A k \in Conditions : k # c => ok'[k] = ok[k]
<1>1. c \in Reported
  BY ConditionParts DEF Reported, Pinged, ControllerOnly
<1>2. inbox' = Append(inbox, Event(c, IF ok'[c] THEN 1 ELSE 2))
  BY <1>1 DEF Change, Report
<1>3. \A k \in Conditions : k # c => ok'[k] = ok[k]
  BY DEF Change, TypeOK
<1> QED BY <1>2, <1>3

LEMMA OneStoreStep ==
  ASSUME TypeOK, OneStore, ControllerOnly, [Next]_vars PROVE OneStore'
<1>1. ASSUME NEW c \in Conditions, Change(c) PROVE OneStore'
  <2>1. PICK v \in 1..2 : inbox' = Append(inbox, Event(c, v))
    BY <1>1, Reports
  <2> DEFINE e == Event(c, v)
  <2>2. Sound(e) /\ e \in Events
    BY SoundReport DEF Sound
  <2>3. inbox' = Append(inbox, e)
    BY <2>1
  <2> HIDE DEF e
  <2>4. \A i \in DOMAIN inbox' : Sound(inbox'[i])
    BY <2>2, <2>3 DEF OneStore, TypeOK
  <2> QED BY <1>1, <2>4 DEF Change, OneStore, Sound, buffer, local, files
<1>2. CASE CanReceive
  <2>1. /\ Sound(Head(inbox)) /\ slot' = Head(inbox)
        /\ \A i \in DOMAIN Tail(inbox) : Sound(Tail(inbox)[i])
    BY <1>2 DEF CanReceive, OneStore, TypeOK
  <2> QED BY <1>2, <2>1
          DEF CanReceive, OneStore, Goto, Sound, TypeOK, buffer, files, local, stores, Producers
<1>3. CASE PingTop
  BY <1>3 DEF PingTop, OneStore, ControllerOnly, Sound, world, buffer, files, stores
<1>4. CASE Open("can")
  BY <1>4 DEF Open, OneStore, Goto, Sound, TypeOK, Producers, world, buffer, files
<1>5. CASE Rewrite("can")
  BY <1>5 DEF Rewrite, Apply, OneStore, Goto, Sound, TypeOK, Producers, world, buffer, files
<1>6. CASE Close("can")
  BY <1>6 DEF Close, OneStore, Goto, Sound, TypeOK, Producers, world, buffer, files
<1>7. CASE Clear("can")
  BY <1>7 DEF Clear, Return, OneStore, Sound, TypeOK, Producers, world, buffer, files, local, stores
<1>8. CASE Crash
  BY <1>8 DEF Crash, OneStore, Start, Sound, Producers, world, buffer, files
<1>9. CASE UNCHANGED vars
  BY <1>9 DEF vars, OneStore, Sound, world, buffer, files, local, stores
<1> QED BY <1>1, <1>2, <1>3, <1>4, <1>5, <1>6, <1>7, <1>8, <1>9, ControllerNext DEF Idles
-------------------------------------------------------------------------------
(* What the switch does for the events that have a case.                   *)

\* Of such an event the status is one of the four, and a line that ends a
\* fault is logged only after the status that the fault has left.
LEMMA EffectOfHandled ==
  ASSUME NEW e, Sound(e), e.dev \in Handled
  PROVE  /\ Effect(e).writes /\ Effect(e).status \in 1..4
         /\ Effect(e).counts \in 0..1
         /\ Class[e.dev] # "cabinet" =>
              \/ Effect(e).counts = 1
              \/ /\ Effect(e).logsAfter \subseteq {2, 3}
                 /\ Effect(e).status \in {1, 4}
<1>1. <<Class[e.dev], e.type>> \in Cases
  BY DEF Handled, HandledDevice, Sound
<1>2. ASSUME NEW bad \in {2, 3}
      PROVE  /\ FailsAndRecovers(e, bad).writes
             /\ FailsAndRecovers(e, bad).status \in {1, bad}
             /\ FailsAndRecovers(e, bad).counts \in 0..1
             /\ \/ FailsAndRecovers(e, bad).counts = 1
                \/ /\ FailsAndRecovers(e, bad).logsAfter \subseteq {2, 3}
                   /\ FailsAndRecovers(e, bad).status = 1
  BY EffectParts DEF FailsAndRecovers
<1>3. /\ <<Class[e.dev], e.type>> = <<"sensor", "on">> => Effect(e) = FailsAndRecovers(e, 2)
      /\ <<Class[e.dev], e.type>> \in {<<"terminal", "72">>, <<"light", "70">>}
           => Effect(e) = FailsAndRecovers(e, 3)
      /\ <<Class[e.dev], e.type>> = <<"light", "71">>
           => Effect(e) = IF e.value = 1 THEN Sets(1, {}) ELSE Sets(4, {})
      /\ <<Class[e.dev], e.type>> = <<"cabinet", "35">>
           => Effect(e) = IF e.value = 1 THEN Sets(1, 0..4) ELSE Counts(1, 0..4)
      /\ <<Class[e.dev], e.type>> = <<"cabinet", "33">> => Effect(e) = Counts(1, 0..4)
  BY DEF Effect
<1>4. CASE <<Class[e.dev], e.type>> = <<"sensor", "on">>
  BY <1>2, <1>3, <1>4
<1>5. CASE <<Class[e.dev], e.type>> \in {<<"terminal", "72">>, <<"light", "70">>}
  BY <1>2, <1>3, <1>5
<1>6. CASE <<Class[e.dev], e.type>> = <<"light", "71">>
  BY <1>3, <1>6, EffectParts
<1>7. CASE <<Class[e.dev], e.type>> = <<"cabinet", "35">>
  BY <1>3, <1>7, EffectParts
<1>8. CASE <<Class[e.dev], e.type>> = <<"cabinet", "33">>
  BY <1>3, <1>8, EffectParts
<1> QED BY <1>1, <1>4, <1>5, <1>6, <1>7, <1>8 DEF Cases

\* The status of a fault of a simple device.
Bad(d) == IF Class[d] = "sensor" THEN 2 ELSE 3

LEMMA SimpleParts ==
  ASSUME NEW d \in Simple
  PROVE  /\ d \in Handled /\ Bad(d) \in {2, 3}
         /\ \A e : Sound(e) /\ e.dev = d => Effect(e) = FailsAndRecovers(e, Bad(d))
         /\ \A b, c \in Conditions : b[1] = d /\ c[1] = d => b = c
<1>1. PICK c \in Conditions :
        /\ {k \in Conditions : k[1] = d} = {c}
        /\ <<Class[d], c[2]>> \in {<<"terminal", "72">>, <<"light", "70">>, <<"sensor", "on">>}
  BY DEF Simple
<1>2. \A k \in Conditions : k[1] = d => k = c
  BY <1>1
<1>3. d \in Handled
  BY <1>1, <1>2 DEF Handled, HandledDevice, Cases, Simple
<1>4. ASSUME NEW e, Sound(e), e.dev = d
      PROVE  Effect(e) = FailsAndRecovers(e, Bad(d))
  <2>1. e.type = c[2]
    BY <1>2, <1>4, ConditionParts DEF Sound
  <2> QED BY <1>1, <1>4, <2>1 DEF Effect, Bad
<1> QED BY <1>2, <1>3, <1>4 DEF Bad

(* As long as the daemon has not been killed, the file of a handled device *)
(* is never without a status, and Open reads what it says.                 *)
Remembered ==
  crashes = 0 =>
    \A d \in Handled :
      /\ Current(d).status # 0
      /\ pc["can"] = "rewrite" /\ dev["can"] = d => old["can"] = file[d]

\* The one step that changes what the files of a handled device say.
Writes(d, e) ==
  /\ Current(d)'.status = Effect(e).status
  /\ Current(d)'.count = Current(d).count + Effect(e).counts
  /\ logged'[d] = logged[d] + IF Current(d).status \in Effect(e).logsAfter THEN 1 ELSE 0

Keeps(d) == Current(d)' = Current(d) /\ logged'[d] = logged[d]

LEMMA RemembersIdle ==
  ASSUME TypeOK, OneStore,
         (\E c \in Conditions : Change(c)) \/ Idles \/ Close("can") \/ UNCHANGED vars,
         NEW d \in Handled, Current(d).status # 0
  PROVE  Keeps(d)
<1> USE DEF Keeps, Current
<1>0. d \in Device
  BY DEF Handled
<1>1. CASE \E c \in Conditions : Change(c)
  BY <1>1 DEF Change, buffer, files, local, stores
<1>2. CASE CanReceive
  BY <1>2 DEF CanReceive, Goto, buffer, files, local, stores, TypeOK, Producers
<1>3. CASE PingTop
  BY <1>3 DEF PingTop, buffer, files, stores
<1>4. CASE Open("can")
  BY <1>4 DEF Open, Goto, buffer, files, TypeOK, Producers
<1>5. CASE Clear("can")
  BY <1>5 DEF Clear, Return, buffer, files, local, stores, TypeOK, Producers
<1>6. CASE Close("can")
  <2>1. /\ pc["can"] = "close" /\ pc'["can"] = "clear" /\ dev' = dev
        /\ logged' = logged
        /\ file' = IF out["can"] = Emptied THEN file
                   ELSE [file EXCEPT ![dev["can"]] = out["can"]]
    BY <1>6 DEF Close, Goto, TypeOK, Producers
  <2>2. CASE dev["can"] = d
    <3>1. out["can"] # Emptied
      BY <2>1, <2>2, EmptiedType
    <3> QED BY <1>0, <2>1, <2>2, <3>1 DEF TypeOK
  <2>3. CASE dev["can"] # d
    BY <1>0, <2>1, <2>3 DEF TypeOK
  <2> QED BY <2>2, <2>3
<1>7. CASE UNCHANGED vars
  BY <1>7 DEF vars, buffer, files, local, stores
<1> QED BY <1>1, <1>2, <1>3, <1>4, <1>5, <1>6, <1>7 DEF Idles

LEMMA RemembersRewrite ==
  ASSUME TypeOK, OneStore, Remembered, crashes = 0, Rewrite("can"), NEW d \in Handled
  PROVE  /\ Sound(slot) /\ pc["can"] = "rewrite" /\ dev["can"] = slot.dev
         /\ pc'["can"] = "close" /\ dev' = dev /\ slot' = slot
         /\ d = slot.dev => Writes(d, slot)
         /\ d # slot.dev => Keeps(d)
<1>1. /\ Sound(slot) /\ pc["can"] = "rewrite" /\ dev["can"] = slot.dev
      /\ EffectNow = Effect(slot) /\ slot.dev \in Device
  BY ConstantsAssumption
     DEF Rewrite, Apply, Goto, OneStore, Sound, EffectNow, Events
<1>2. /\ pc'["can"] = "close" /\ dev' = dev /\ slot' = slot
      /\ file' = [file EXCEPT ![slot.dev] = Emptied]
      /\ logged' = [logged EXCEPT ![slot.dev] = IF Logs("can") THEN @ + 1 ELSE @]
      /\ out'["can"] = IF Effect(slot).writes
                       THEN Contents(Effect(slot).status, old["can"].count + Effect(slot).counts)
                       ELSE Emptied
  BY <1>1 DEF Rewrite, Apply, Goto, buffer, TypeOK, Producers
<1>3. d \in Device
  BY DEF Handled
<1>4. ASSUME d = slot.dev PROVE Writes(d, slot)
  <2>1. old["can"] = file[d] /\ Current(d) = file[d]
    BY <1>1, <1>4 DEF Remembered, Current
  <2>2. Effect(slot).writes
    BY <1>1, <1>4, EffectOfHandled
  <2>3. Current(d)' = out'["can"]
    BY <1>1, <1>2, <1>4 DEF Current
  <2>4. out'["can"] = Contents(Effect(slot).status, Current(d).count + Effect(slot).counts)
    BY <1>2, <2>1, <2>2
  <2>5. logged'[d] = logged[d] + IF Current(d).status \in Effect(slot).logsAfter THEN 1 ELSE 0
    BY <1>1, <1>2, <1>4, <2>1 DEF Logs, TypeOK
  <2> QED BY <2>3, <2>4, <2>5 DEF Writes, Contents
<1>5. ASSUME d # slot.dev PROVE Keeps(d)
  BY <1>1, <1>2, <1>3, <1>5 DEF Keeps, Current, TypeOK
<1> QED BY <1>1, <1>2, <1>4, <1>5

LEMMA RememberedInit == ASSUME ControllerOnly, Init PROVE Remembered
  BY DEF Init, Remembered, Current, Contents, Start, Producers, Handled

LEMMA RememberedStep ==
  ASSUME TypeOK, OneStore, OneStore', ControllerOnly, Remembered, [Next]_vars
  PROVE  Remembered'
<1> SUFFICES ASSUME crashes' = 0, NEW d \in Handled
             PROVE  /\ Current(d)'.status # 0
                    /\ pc'["can"] = "rewrite" /\ dev'["can"] = d => old'["can"] = file'[d]
  BY DEF Remembered
<1>0. d \in Device
  BY DEF Handled
<1>1. ~Crash /\ crashes = 0
  <2>1. ~Crash
    BY ConstantsAssumption DEF Crash, TypeOK
  <2>2. CASE \E c \in Conditions : Change(c)
    BY <2>1, <2>2 DEF Change
  <2>3. CASE Idles
    BY <2>1, <2>3 DEF Idles, CanReceive, PingTop, Open, Clear
  <2>4. CASE Rewrite("can") \/ Close("can") \/ UNCHANGED vars
    BY <2>1, <2>4 DEF Rewrite, Apply, Close, vars
  <2> QED BY <2>1, <2>2, <2>3, <2>4, ControllerNext
<1>2. Current(d).status # 0
  BY <1>1 DEF Remembered
<1>3. CASE Rewrite("can")
  <2>1. d = slot.dev => Writes(d, slot)
    BY <1>1, <1>3, RemembersRewrite
  <2>2. d # slot.dev => Keeps(d)
    BY <1>1, <1>3, RemembersRewrite
  <2>3. pc'["can"] = "close" /\ Sound(slot)
    BY <1>1, <1>3, RemembersRewrite
  <2>4. d = slot.dev => Effect(slot).status # 0
    BY <2>3, EffectOfHandled
  <2> QED BY <1>2, <2>1, <2>2, <2>3, <2>4 DEF Writes, Keeps
<1>4. CASE ~Rewrite("can")
  <2>1. (\E c \in Conditions : Change(c)) \/ Idles \/ Close("can") \/ UNCHANGED vars
    BY <1>1, <1>4, ControllerNext
  <2>2. Current(d)'.status # 0
    BY <1>2, <2>1, RemembersIdle DEF Keeps
  <2>3. ASSUME pc'["can"] = "rewrite", dev'["can"] = d PROVE old'["can"] = file'[d]
    <3>1. CASE Open("can")
      <4>1. /\ file' = file /\ slot.dev = d /\ pc["can"] = "open"
            /\ \E f \in Reading(file[slot.dev]) : old'["can"] = f
        BY <2>3, <3>1 DEF Open, Goto, buffer, files, TypeOK, Producers
      <4>2. file[d] # Emptied
        BY <1>2, <4>1, EmptiedType DEF Current
      <4> QED BY <4>1, <4>2 DEF Reading
    <3>2. CASE UNCHANGED <<pc, dev, old, file>>
      BY <1>1, <2>3, <3>2 DEF Remembered
    <3>3. CASE \E c \in Conditions : Change(c)
      BY <3>2, <3>3 DEF Change, buffer, local, stores, files
    <3>4. CASE PingTop \/ UNCHANGED vars
      BY <3>2, <3>4 DEF PingTop, vars, buffer, local, stores, files
    <3>5. CASE CanReceive \/ Close("can") \/ Clear("can")
      BY <2>3, <3>5 DEF CanReceive, Close, Clear, Return, Goto, TypeOK, Producers
    <3> QED BY <2>1, <3>1, <3>3, <3>4, <3>5 DEF Idles
  <2> QED BY <2>2, <2>3
<1> QED BY <1>3, <1>4
-------------------------------------------------------------------------------
(* The fault log of a simple device.                                       *)
Paired ==
  crashes = 0 =>
    \A d \in Simple :
      /\ Current(d).status \in {1, Bad(d)}
      /\ Current(d).status = 1 <=> logged[d] % 2 = 0

Counted ==
  crashes = 0 =>
    \A d \in Handled : Class[d] # "cabinet" =>
      /\ logged[d] <= 2 * Current(d).count
      /\ Current(d).status \in {2, 3} => logged[d] < 2 * Current(d).count

\* A step without a kill either leaves the files of d or writes an event of d.
LEMMA FileSteps ==
  ASSUME TypeOK, OneStore, ControllerOnly, Remembered, [Next]_vars, crashes' = 0,
         NEW d \in Handled
  PROVE  /\ crashes = 0
         /\ \/ ~Rewrite("can") /\ Keeps(d)
            \/ Rewrite("can") /\ d # slot.dev /\ Keeps(d)
            \/ Rewrite("can") /\ d = slot.dev /\ Sound(slot) /\ Writes(d, slot)
<1>1. ~Crash
  BY ConstantsAssumption DEF Crash, TypeOK
<1>2. crashes = 0
  <2>1. CASE \E c \in Conditions : Change(c)
    BY <2>1 DEF Change
  <2>2. CASE Idles
    BY <2>2 DEF Idles, CanReceive, PingTop, Open, Clear
  <2>3. CASE Rewrite("can") \/ Close("can") \/ UNCHANGED vars
    BY <2>3 DEF Rewrite, Apply, Close, vars
  <2> QED BY <1>1, <2>1, <2>2, <2>3, ControllerNext
<1>3. CASE Rewrite("can")
  BY <1>2, <1>3, RemembersRewrite
<1>4. CASE ~Rewrite("can")
  <2>1. (\E c \in Conditions : Change(c)) \/ Idles \/ Close("can") \/ UNCHANGED vars
    BY <1>1, <1>4, ControllerNext
  <2>2. Current(d).status # 0
    BY <1>2 DEF Remembered
  <2> QED BY <1>2, <1>4, <2>1, <2>2, RemembersIdle
<1> QED BY <1>2, <1>3, <1>4

LEMMA CurrentType ==
  ASSUME TypeOK, NEW d \in Device
  PROVE  /\ Current(d).status \in 0..4 /\ Current(d).count \in Nat
         /\ logged[d] \in Nat
  BY DEF TypeOK, Current, Producers

LEMMA PairedInit == ASSUME ControllerOnly, Init PROVE Paired /\ Counted
<1>1. \A d \in Device : Current(d) = Contents(1, 0) /\ logged[d] = 0
  BY DEF Init, Current, Start, Producers
<1> QED BY <1>1 DEF Paired, Counted, Contents, Simple, Handled

LEMMA PairedStep ==
  ASSUME TypeOK, OneStore, ControllerOnly, Remembered, Paired, [Next]_vars
  PROVE  Paired'
<1> SUFFICES ASSUME crashes' = 0, NEW d \in Simple
             PROVE  /\ Current(d)'.status \in {1, Bad(d)}
                    /\ Current(d)'.status = 1 <=> logged'[d] % 2 = 0
  BY DEF Paired
<1>1. d \in Handled /\ d \in Device /\ Bad(d) \in {2, 3}
  BY SimpleParts DEF Handled
<1>2. /\ crashes = 0
      /\ Keeps(d) \/ (d = slot.dev /\ Sound(slot) /\ Writes(d, slot))
  BY <1>1, FileSteps
<1>3. /\ Current(d).status \in {1, Bad(d)}
      /\ Current(d).status = 1 <=> logged[d] % 2 = 0
  BY <1>2 DEF Paired
<1>4. CASE Keeps(d)
  BY <1>3, <1>4 DEF Keeps
<1>5. CASE d = slot.dev /\ Sound(slot) /\ Writes(d, slot)
  <2>1. Effect(slot) = FailsAndRecovers(slot, Bad(d))
    BY <1>5, SimpleParts
  <2>2. logged[d] \in Nat
    BY <1>1, CurrentType
  <2>3. CASE slot.value = 1
    <3>1. Effect(slot).status = 1 /\ Effect(slot).logsAfter = {Bad(d)}
      BY <1>1, <2>1, <2>3, EffectParts DEF FailsAndRecovers
    <3> QED BY <1>1, <1>3, <1>5, <2>2, <3>1 DEF Writes
  <2>4. CASE slot.value # 1
    <3>1. Effect(slot).status = Bad(d) /\ Effect(slot).logsAfter = {1}
      BY <1>1, <2>1, <2>4, EffectParts DEF FailsAndRecovers
    <3> QED BY <1>1, <1>3, <1>5, <2>2, <3>1 DEF Writes
  <2> QED BY <2>3, <2>4
<1> QED BY <1>2, <1>4, <1>5

LEMMA CountedStep ==
  ASSUME TypeOK, OneStore, ControllerOnly, Remembered, Counted, [Next]_vars
  PROVE  Counted'
<1> SUFFICES ASSUME crashes' = 0, NEW d \in Handled, Class[d] # "cabinet"
             PROVE  /\ logged'[d] <= 2 * Current(d)'.count
                    /\ Current(d)'.status \in {2, 3} => logged'[d] < 2 * Current(d)'.count
  BY DEF Counted
<1>1. d \in Device
  BY DEF Handled
<1>2. /\ crashes = 0
      /\ Keeps(d) \/ (d = slot.dev /\ Sound(slot) /\ Writes(d, slot))
  BY <1>1, FileSteps
<1>3. /\ logged[d] <= 2 * Current(d).count
      /\ Current(d).status \in {2, 3} => logged[d] < 2 * Current(d).count
  BY <1>2 DEF Counted
<1>4. CASE Keeps(d)
  BY <1>3, <1>4 DEF Keeps
<1>5. CASE d = slot.dev /\ Sound(slot) /\ Writes(d, slot)
  <2>1. /\ Effect(slot).counts \in 0..1
        /\ \/ Effect(slot).counts = 1
           \/ /\ Effect(slot).logsAfter \subseteq {2, 3}
              /\ Effect(slot).status \in {1, 4}
    BY <1>5, EffectOfHandled
  <2>2. logged[d] \in Nat /\ Current(d).count \in Nat
    BY <1>1, CurrentType
  <2>3. CASE Effect(slot).counts = 1
    BY <1>3, <1>5, <2>2, <2>3 DEF Writes
  <2>4. CASE Effect(slot).counts = 0
    BY <1>3, <1>5, <2>1, <2>2, <2>4 DEF Writes
  <2> QED BY <2>1, <2>3, <2>4
<1> QED BY <1>2, <1>4, <1>5

\* What is so while a store runs, and what the files say when they are whole.
StoreInv == TypeOK /\ OneStore /\ Remembered /\ Paired /\ Counted

LEMMA StoreInvInit == ControllerOnly /\ Init => StoreInv
  BY TypeInit, OneStoreInit, RememberedInit, PairedInit DEF StoreInv

LEMMA StoreInvStep == ControllerOnly /\ StoreInv /\ [Next]_vars => StoreInv'
<1> SUFFICES ASSUME ControllerOnly, StoreInv, [Next]_vars PROVE StoreInv'
  OBVIOUS
<1>1. TypeOK' /\ OneStore'
  BY TypeStep, OneStoreStep DEF StoreInv
<1> QED BY <1>1, RememberedStep, PairedStep, CountedStep DEF StoreInv

LEMMA StoreInvHolds == ControllerOnly /\ Spec => []StoreInv
<1> SUFFICES ASSUME ControllerOnly PROVE Spec => []StoreInv
  OBVIOUS
<1> QED BY StoreInvInit, StoreInvStep, PTL DEF Spec

LEMMA WholeFile ==
  ASSUME OneStore, NEW d, file[d].status # 0 PROVE Current(d) = file[d]
  BY EmptiedType DEF OneStore, Current

(***************************************************************************)
(* The fault log of a simple device pairs up: good exactly when the number *)
(* of lines is even, for any number of devices, reports and repetitions,   *)
(* as long as the controller's events are the only ones and files open.    *)
(***************************************************************************)
THEOREM LogsPairUp == ControllerOnly /\ Spec => []LogPairsUp
<1>1. StoreInv => LogPairsUp
  <2> SUFFICES ASSUME StoreInv, crashes = 0, NEW d \in Simple, file[d].status # 0
               PROVE  file[d].status = 1 <=> logged[d] % 2 = 0
    BY DEF LogPairsUp
  <2> QED BY WholeFile DEF StoreInv, Paired
<1> QED BY <1>1, StoreInvHolds, PTL

(***************************************************************************)
(* Every fault in the log has been counted, whichever faults of a device   *)
(* come together, if the switch has a case for what is reported: a type it *)
(* does not know leaves the status file empty and the count is lost.       *)
(***************************************************************************)
THEOREM FaultsAreCounted ==
  ControllerOnly /\ Handled = Device /\ Spec => []LoggedAreCounted
<1> SUFFICES ASSUME ControllerOnly, Handled = Device
             PROVE  Spec => []LoggedAreCounted
  OBVIOUS
<1>1. StoreInv => LoggedAreCounted
  <2> SUFFICES ASSUME StoreInv, crashes = 0, NEW d \in Device,
                      file[d].status # 0, Class[d] # "cabinet"
               PROVE  logged[d] <= 2 * file[d].count
    BY DEF LoggedAreCounted
  <2> QED BY WholeFile DEF StoreInv, Counted
<1> QED BY <1>1, StoreInvHolds, PTL
-------------------------------------------------------------------------------
(* The last report about a simple device: it is on the bus, or in the      *)
(* buffer and not yet applied, or what the status file says.               *)
OnBus(d) == {i \in DOMAIN inbox : inbox[i].dev = d}
InHand(d) == pc["can"] \in {"open", "rewrite"} /\ slot.dev = d

Fresh(c) ==
  /\ \A i \in OnBus(c[1]) :
       (\A j \in OnBus(c[1]) : j <= i) => (inbox[i].value = 1 <=> ok[c])
  /\ OnBus(c[1]) = {} /\ InHand(c[1]) => (slot.value = 1 <=> ok[c])
  /\ OnBus(c[1]) = {} /\ ~InHand(c[1]) => (Current(c[1]).status = 1 <=> ok[c])

AllFresh == crashes = 0 => \A c \in Conditions : c[1] \in Simple => Fresh(c)

LEMMA FreshInit == Init => AllFresh
<1> SUFFICES ASSUME Init, NEW c \in Conditions, c[1] \in Simple PROVE Fresh(c)
  BY DEF AllFresh
<1>1. c[1] \in Device /\ OnBus(c[1]) = {} /\ ok[c]
  BY DEF Init, Simple, OnBus
<1>2. ~InHand(c[1]) /\ Current(c[1]) = Contents(1, 0)
  BY <1>1 DEF Init, InHand, Current, Start, Producers
<1> QED BY <1>1, <1>2 DEF Fresh, Contents

LEMMA FreshChange ==
  ASSUME TypeOK, ControllerOnly, NEW b \in Conditions, Change(b),
         NEW c \in Conditions, c[1] \in Simple, Fresh(c), Keeps(c[1])
  PROVE  Fresh(c)'
<1>1. PICK v \in 1..2 :
        /\ inbox' = Append(inbox, Event(b, v)) /\ (v = 1 <=> ok'[b])
        /\ \A k \in Conditions : k # b => ok'[k] = ok[k]
  BY Reports
<1>2. /\ DOMAIN inbox = 1..Len(inbox) /\ Len(inbox) \in Nat
      /\ DOMAIN inbox' = 1..(Len(inbox) + 1)
      /\ inbox'[Len(inbox) + 1] = Event(b, v)
      /\ \A i \in 1..Len(inbox) : inbox'[i] = inbox[i]
  <2> DEFINE e == Event(b, v)
  <2>1. inbox \in Seq(Events) /\ e \in Events
    BY SoundReport DEF TypeOK, Sound
  <2>2. inbox' = Append(inbox, e)
    BY <1>1
  <2> HIDE DEF e
  <2>3. /\ DOMAIN inbox = 1..Len(inbox) /\ Len(inbox) \in Nat
        /\ DOMAIN inbox' = 1..(Len(inbox) + 1)
        /\ inbox'[Len(inbox) + 1] = e
        /\ \A i \in 1..Len(inbox) : inbox'[i] = inbox[i]
    BY <2>1, <2>2
  <2> QED BY <2>3 DEF e
<1>3. Event(b, v).dev = b[1] /\ Event(b, v).value = v
  BY DEF Event
<1>4. UNCHANGED <<pc, slot>> /\ InHand(c[1])' = InHand(c[1])
  BY DEF Change, InHand, buffer
<1>5. CASE b[1] = c[1]
  <2>1. b = c
    BY <1>5, SimpleParts
  <2>2. Len(inbox) + 1 \in OnBus(c[1])'
    BY <1>2, <1>3, <2>1 DEF OnBus
  <2>3. \A i \in OnBus(c[1])' : i # Len(inbox) + 1 => i < Len(inbox) + 1
    BY <1>2 DEF OnBus
  <2>4. ASSUME NEW i \in OnBus(c[1])', \A j \in OnBus(c[1])' : j <= i
        PROVE  inbox'[i].value = 1 <=> ok'[c]
    <3>1. i = Len(inbox) + 1
      BY <1>2, <2>2, <2>3, <2>4 DEF OnBus
    <3> QED BY <1>1, <1>2, <1>3, <2>1, <3>1
  <2> QED BY <2>2, <2>4 DEF Fresh
<1>6. CASE b[1] # c[1]
  <2>1. OnBus(c[1])' = OnBus(c[1])
    BY <1>2, <1>3, <1>6 DEF OnBus
  <2>2. ok'[c] = ok[c]
    BY <1>1, <1>6
  <2>3. \A i \in OnBus(c[1]) : inbox'[i] = inbox[i]
    BY <1>2 DEF OnBus
  <2> QED BY <1>4, <2>1, <2>2, <2>3 DEF Fresh, Keeps
<1> QED BY <1>5, <1>6

LEMMA FreshReceive ==
  ASSUME TypeOK, OneStore, CanReceive,
         NEW c \in Conditions, c[1] \in Simple, Fresh(c), Keeps(c[1])
  PROVE  Fresh(c)'
<1>1. /\ DOMAIN inbox = 1..Len(inbox) /\ Len(inbox) \in Nat \ {0}
      /\ DOMAIN inbox' = 1..(Len(inbox) - 1)
      /\ \A i \in 1..(Len(inbox) - 1) : inbox'[i] = inbox[i + 1]
      /\ slot' = inbox[1] /\ ok' = ok
      /\ pc["can"] = "idle" /\ pc'["can"] = "open"
  BY DEF CanReceive, Goto, TypeOK, Producers
<1>2. ~InHand(c[1]) /\ (InHand(c[1])' <=> inbox[1].dev = c[1])
  BY <1>1 DEF InHand
<1>3. /\ \A i \in OnBus(c[1])' : i + 1 \in OnBus(c[1])
      /\ \A j \in OnBus(c[1]) : j = 1 \/ j - 1 \in OnBus(c[1])'
      /\ \A j \in OnBus(c[1]) : j \in Nat
      /\ \A j \in OnBus(c[1])' : j \in Nat /\ j >= 1 /\ inbox'[j] = inbox[j + 1]
      /\ 1 \in OnBus(c[1]) <=> inbox[1].dev = c[1]
  BY <1>1 DEF OnBus
<1>4. ASSUME NEW i \in OnBus(c[1])', \A j \in OnBus(c[1])' : j <= i
      PROVE  inbox'[i].value = 1 <=> ok'[c]
  <2>1. i + 1 \in OnBus(c[1])
    BY <1>3
  <2>2. ASSUME NEW j \in OnBus(c[1]) PROVE j <= i + 1
    <3>1. j \in Nat /\ i \in Nat /\ i >= 1
      BY <1>3
    <3>2. CASE j = 1
      BY <3>1, <3>2
    <3>3. CASE j # 1
      <4>1. j - 1 <= i
        BY <1>3, <1>4, <3>3
      <4> QED BY <3>1, <4>1
    <3> QED BY <3>2, <3>3
  <2>3. inbox[i + 1].value = 1 <=> ok[c]
    BY <2>1, <2>2 DEF Fresh
  <2> QED BY <1>1, <1>3, <2>3
<1>5. ASSUME OnBus(c[1])' = {}, InHand(c[1])' PROVE slot'.value = 1 <=> ok'[c]
  <2>1. 1 \in OnBus(c[1]) /\ \A j \in OnBus(c[1]) : j = 1
    BY <1>2, <1>3, <1>5
  <2>2. inbox[1].value = 1 <=> ok[c]
    BY <2>1 DEF Fresh
  <2> QED BY <1>1, <2>2
<1>6. ASSUME OnBus(c[1])' = {}, ~InHand(c[1])'
      PROVE  Current(c[1])'.status = 1 <=> ok'[c]
  <2>1. OnBus(c[1]) = {}
    BY <1>2, <1>3, <1>6
  <2> QED BY <1>1, <1>2, <2>1 DEF Fresh, Keeps
<1> QED BY <1>4, <1>5, <1>6 DEF Fresh

\* Where a report is while the bus stays as it is.
LEMMA FreshElse ==
  ASSUME NEW c \in Conditions, Fresh(c), UNCHANGED <<inbox, ok>>,
         \/ /\ InHand(c[1])' <=> InHand(c[1])
            /\ InHand(c[1]) => slot' = slot
            /\ Keeps(c[1])
         \/ /\ InHand(c[1]) /\ ~InHand(c[1])'
            /\ Current(c[1])'.status = 1 <=> slot.value = 1
  PROVE  Fresh(c)'
<1>1. OnBus(c[1])' = OnBus(c[1])
  BY DEF OnBus
<1> QED BY <1>1 DEF Fresh, Keeps

LEMMA FreshRewrite ==
  ASSUME TypeOK, OneStore, ControllerOnly, Remembered, crashes = 0, Rewrite("can"),
         NEW c \in Conditions, c[1] \in Simple, Fresh(c)
  PROVE  Fresh(c)'
<1>1. /\ c[1] \in Handled
      /\ Bad(c[1]) \in {2, 3}
  BY SimpleParts
<1>2. UNCHANGED <<inbox, ok>>
  BY DEF Rewrite, Apply, world
<1>3. /\ Sound(slot) /\ pc["can"] = "rewrite" /\ pc'["can"] = "close"
      /\ c[1] = slot.dev => Writes(c[1], slot)
      /\ c[1] # slot.dev => Keeps(c[1])
  BY <1>1, RemembersRewrite
<1>4. ~InHand(c[1])' /\ (InHand(c[1]) <=> slot.dev = c[1])
  BY <1>3 DEF InHand
<1>5. ASSUME slot.dev = c[1] PROVE Current(c[1])'.status = 1 <=> slot.value = 1
  <2>1. Effect(slot) = FailsAndRecovers(slot, Bad(c[1]))
    BY <1>3, <1>5, SimpleParts
  <2>2. Effect(slot).status = IF slot.value = 1 THEN 1 ELSE Bad(c[1])
    BY <1>1, <2>1, EffectParts DEF FailsAndRecovers
  <2> QED BY <1>1, <1>3, <1>5, <2>2 DEF Writes
<1>6. CASE slot.dev = c[1]
  BY <1>2, <1>4, <1>5, <1>6, FreshElse
<1>7. CASE slot.dev # c[1]
  BY <1>2, <1>3, <1>4, <1>7, FreshElse
<1> QED BY <1>6, <1>7

LEMMA FreshStep ==
  ASSUME TypeOK, OneStore, ControllerOnly, Remembered, AllFresh, [Next]_vars
  PROVE  AllFresh'
<1> SUFFICES ASSUME crashes' = 0, NEW c \in Conditions, c[1] \in Simple PROVE Fresh(c)'
  BY DEF AllFresh
<1>1. /\ c[1] \in Handled /\ crashes = 0
      /\ ~Rewrite("can") => Keeps(c[1])
  BY SimpleParts, FileSteps
<1>2. Fresh(c)
  BY <1>1 DEF AllFresh
<1>3. CASE Rewrite("can")
  BY <1>1, <1>2, <1>3, FreshRewrite
<1>4. ASSUME ~Rewrite("can"), NEW b \in Conditions, Change(b) PROVE Fresh(c)'
  BY <1>1, <1>2, <1>4, FreshChange
<1>5. CASE ~Rewrite("can") /\ CanReceive
  BY <1>1, <1>2, <1>5, FreshReceive
<1>6. ASSUME ~Rewrite("can"), UNCHANGED <<inbox, ok, slot>>, InHand(c[1])' <=> InHand(c[1])
      PROVE  Fresh(c)'
  BY <1>1, <1>2, <1>6, FreshElse
<1>7. CASE ~Rewrite("can") /\ PingTop
  BY <1>6, <1>7 DEF PingTop, world, buffer, InHand
<1>8. CASE ~Rewrite("can") /\ Open("can")
  <2>1. InHand(c[1])' <=> InHand(c[1])
    BY <1>8 DEF Open, Goto, InHand, buffer, TypeOK, Producers
  <2> QED BY <1>6, <1>8, <2>1 DEF Open, world, buffer
<1>9. CASE ~Rewrite("can") /\ Close("can")
  <2>1. InHand(c[1])' <=> InHand(c[1])
    BY <1>9 DEF Close, Goto, InHand, buffer, TypeOK, Producers
  <2> QED BY <1>6, <1>9, <2>1 DEF Close, world, buffer
<1>10. CASE ~Rewrite("can") /\ Clear("can")
  <2>1. ~InHand(c[1])' /\ ~InHand(c[1])
    BY <1>10 DEF Clear, Return, InHand, TypeOK, Producers
  <2>2. UNCHANGED <<inbox, ok>>
    BY <1>10 DEF Clear, world
  <2> QED BY <1>1, <1>2, <1>10, <2>1, <2>2, FreshElse
<1>11. CASE ~Rewrite("can") /\ UNCHANGED vars
  BY <1>6, <1>11 DEF vars, world, buffer, InHand
<1>12. ~Crash
  BY ConstantsAssumption DEF Crash, TypeOK
<1> QED BY <1>3, <1>4, <1>5, <1>7, <1>8, <1>9, <1>10, <1>11, <1>12, ControllerNext
        DEF Idles

(***************************************************************************)
(* When everything the controller sent has been stored, a simple device is *)
(* good in its status file if and only if the last report said so, for any *)
(* number of devices and reports, however they are repeated.               *)
(***************************************************************************)
THEOREM LastReportIsStored == ControllerOnly /\ Spec => []StatusIsLastReport
<1> SUFFICES ASSUME ControllerOnly PROVE Spec => []StatusIsLastReport
  OBVIOUS
<1>1. StoreInv /\ AllFresh => StatusIsLastReport
  <2> SUFFICES ASSUME AllFresh, inbox = <<>>, pc["can"] = "idle", crashes = 0,
                      NEW c \in Reported, c[1] \in Simple
               PROVE  file[c[1]].status = 1 <=> ok[c]
    BY DEF StatusIsLastReport
  <2>1. OnBus(c[1]) = {} /\ ~InHand(c[1]) /\ Current(c[1]) = file[c[1]]
    BY DEF OnBus, InHand, Current
  <2> QED BY <2>1 DEF AllFresh, Fresh, Reported
<1>2. StoreInv /\ AllFresh /\ [Next]_vars => AllFresh'
  BY FreshStep DEF StoreInv
<1> QED BY <1>1, <1>2, FreshInit, StoreInvHolds, PTL DEF Spec
-------------------------------------------------------------------------------
(* Empty files: each kill leaves at most the one that was being rewritten. *)
Left == {d \in Device : file[d] = Emptied
           /\ \A t \in Producers : ~(pc[t] = "close" /\ dev[t] = d)}

FewLeft ==
  /\ pc["can"] = "close" => out["can"] # Emptied
  /\ IsFiniteSet(Left) /\ Cardinality(Left) <= crashes

LEMMA FewLeftInit == ASSUME Init PROVE FewLeft
<1>1. Left = {} /\ pc["can"] = "idle" /\ crashes = 0
  BY DEF Init, Left, Contents, Emptied, Start, Producers
<1> QED BY <1>1, FS_EmptySet DEF FewLeft

LEMMA FewLeftFewer ==
  ASSUME TypeOK, FewLeft, Left' \subseteq Left, crashes' = crashes
  PROVE  IsFiniteSet(Left') /\ Cardinality(Left') <= crashes'
<1>1. Cardinality(Left) \in Nat /\ Cardinality(Left') \in Nat /\ IsFiniteSet(Left')
      /\ Cardinality(Left') <= Cardinality(Left)
  BY FS_Subset, FS_CardinalityType DEF FewLeft
<1> QED BY <1>1 DEF FewLeft, TypeOK

LEMMA FewLeftStep ==
  ASSUME TypeOK, OneStore, OneStore', ControllerOnly, Handled = Device, FewLeft,
         [Next]_vars
  PROVE  FewLeft'
<1>0. /\ Left = {d \in Device : file[d] = Emptied
                   /\ ~(pc["can"] = "close" /\ dev["can"] = d)}
      /\ Left' = {d \in Device : file'[d] = Emptied
                   /\ ~(pc'["can"] = "close" /\ dev'["can"] = d)}
  BY DEF OneStore, Left, Producers
<1>1. ASSUME UNCHANGED <<file, crashes>>, pc["can"] # "close", pc'["can"] # "close"
      PROVE  FewLeft'
  <2>1. Left' \subseteq Left
    BY <1>1, <1>0
  <2> QED BY <1>1, <2>1, FewLeftFewer DEF FewLeft
<1>2. ASSUME UNCHANGED <<file, crashes, pc, dev, out>> PROVE FewLeft'
  <2>1. Left' \subseteq Left
    BY <1>2, <1>0
  <2> QED BY <1>2, <2>1, FewLeftFewer DEF FewLeft
<1>3. ASSUME NEW c \in Conditions, Change(c) PROVE FewLeft'
  BY <1>2, <1>3 DEF Change, buffer, files, local, stores
<1>4. CASE CanReceive \/ Open("can") \/ Clear("can")
  BY <1>1, <1>4
     DEF CanReceive, Open, Clear, Goto, Return, buffer, files, TypeOK, Producers
<1>5. CASE PingTop \/ UNCHANGED vars
  BY <1>2, <1>5 DEF PingTop, vars, buffer, files, local, stores
<1>6. CASE Rewrite("can")
  <2>1. /\ dev["can"] = slot.dev /\ Sound(slot) /\ slot.dev \in Device
        /\ EffectNow = Effect(slot)
    BY <1>6, ConstantsAssumption
       DEF Rewrite, Apply, Goto, OneStore, Sound, EffectNow, Events
  <2>2. Effect(slot).writes /\ Effect(slot).status \in 1..4
    BY <2>1, EffectOfHandled
  <2>3. out'["can"].status = Effect(slot).status
    BY <1>6, <2>1, <2>2 DEF Rewrite, Apply, Contents, TypeOK, Producers
  <2>4. out'["can"] # Emptied
    BY <2>2, <2>3, EmptiedType
  <2>5. /\ pc'["can"] = "close" /\ dev' = dev /\ crashes' = crashes
        /\ pc["can"] = "rewrite" /\ file' = [file EXCEPT ![dev["can"]] = Emptied]
    BY <1>6 DEF Rewrite, Apply, Goto, TypeOK, Producers
  <2>6. Left' \subseteq Left
    BY <2>1, <2>5, <1>0 DEF TypeOK
  <2> QED BY <2>4, <2>5, <2>6, FewLeftFewer DEF FewLeft
<1>7. CASE Close("can")
  <2>1. /\ pc["can"] = "close" /\ pc'["can"] = "clear" /\ crashes' = crashes
        /\ out["can"] # Emptied /\ file' = [file EXCEPT ![dev["can"]] = out["can"]]
    BY <1>7 DEF Close, Goto, FewLeft, TypeOK, Producers
  <2>2. Left' \subseteq Left
    BY <2>1, <1>0 DEF TypeOK
  <2> QED BY <2>1, <2>2, FewLeftFewer DEF FewLeft
<1>8. CASE Crash
  <2> DEFINE x == dev["can"]
  <2>1. file' = file /\ pc'["can"] = "idle" /\ crashes' = crashes + 1
    BY <1>8 DEF Crash, buffer, files, Start, Producers
  <2>2. Left' \subseteq Left \cup {x}
    BY <2>1, <1>0
  <2> HIDE DEF x
  <2>3. IsFiniteSet(Left)
    BY DEF FewLeft
  <2>4. Cardinality(Left) \in Nat
    BY <2>3, FS_CardinalityType
  <2>5. /\ IsFiniteSet(Left \cup {x})
        /\ Cardinality(Left \cup {x}) =
             IF x \in Left THEN Cardinality(Left) ELSE Cardinality(Left) + 1
    BY <2>3, FS_AddElement
  <2>6. /\ Cardinality(Left \cup {x}) <= Cardinality(Left) + 1
        /\ Cardinality(Left \cup {x}) \in Nat
    BY <2>4, <2>5
  <2>7. IsFiniteSet(Left') /\ Cardinality(Left') <= Cardinality(Left \cup {x})
    BY <2>2, <2>5, FS_Subset
  <2>8. Cardinality(Left') \in Nat
    BY <2>7, FS_CardinalityType
  <2>9. Cardinality(Left) <= crashes /\ crashes \in Nat
    BY DEF FewLeft, TypeOK
  <2>10. Cardinality(Left') <= crashes'
    BY <2>1, <2>4, <2>6, <2>7, <2>8, <2>9
  <2> QED BY <2>1, <2>7, <2>10 DEF FewLeft
<1> QED BY <1>3, <1>4, <1>5, <1>6, <1>7, <1>8, ControllerNext DEF Idles

(***************************************************************************)
(* If every condition that is reported has a case in the switch, a status  *)
(* file is empty only while it is rewritten or since a kill at that        *)
(* moment, one file for each kill, however often the daemon is killed.     *)
(***************************************************************************)
THEOREM EmptiedByCrashes ==
  ControllerOnly /\ Handled = Device /\ Spec => []EmptyOnlyByCrash
<1> SUFFICES ASSUME ControllerOnly, Handled = Device
             PROVE  Spec => []EmptyOnlyByCrash
  OBVIOUS
<1>1. FewLeft => EmptyOnlyByCrash
  BY DEF FewLeft, Left, EmptyOnlyByCrash
<1>2. StoreInv /\ StoreInv' /\ FewLeft /\ [Next]_vars => FewLeft'
  BY FewLeftStep DEF StoreInv
<1>3. Init => FewLeft
  BY FewLeftInit
<1> QED BY <1>1, <1>2, <1>3, StoreInvHolds, PTL DEF Spec
===============================================================================
