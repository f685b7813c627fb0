-------------------------- MODULE EventBufferProofs --------------------------
(***************************************************************************)
(* Theorems about EventBuffer, for every set of packages, every length of  *)
(* the buffer and every number of restarts. First, whatever happens: the   *)
(* state is well typed, and no event number is given out twice although    *)
(* two threads number events and the daemon may be restarted between any   *)
(* two steps. Then, as long as no camera raises an event, files open and   *)
(* no thread wakes up unsignalled (Single): what the outside has seen is in*)
(* eventno.txt, what the controller was told of has been stored and copied,*)
(* nothing is cleared before it is copied, server and database have the    *)
(* same events in the order of their numbers, and the threads together     *)
(* implement HandOff.                                                      *)
(***************************************************************************)
EXTENDS EventBuffer, SequenceTheorems, TLAPS

(* The type invariant is inductive once it says that the place of the frame *)
(* just read is inside the buffer.                                         *)
TypeInv == TypeOK /\ (pc["can"] = "copy" => count < Cap)

LEMMA EmptyType == Zero \in Cells /\ Empty \in [1..Cap -> Cells]
  <1>1. Zero \in Cells
    BY DEF Zero, Cell, Cells
  <1> QED
    BY <1>1 DEF Empty

LEMMA StartType == pc = Start => PcOK
  BY DEF Start, Producers, PcOK, CanLabels, PingLabels, DataLabels

LEMMA EventCountType ==
  ASSUME BufOK
  PROVE  EventCount(buf) \in Nat /\ EventCount(buf) < Cap
  BY ConstantsAssumption DEF BufOK, EventCount, Cells

LEMMA LengthsType ==
  ASSUME NEW b \in [1..Cap -> Cells], NEW len \in Lengths(b[1])
  PROVE  len \in 0..Cap
  <1>1. b[1] \in Cells
    BY ConstantsAssumption
  <1> QED
    BY <1>1, ConstantsAssumption DEF Lengths, Cells

LEMMA CopyType ==
  ASSUME BufOK, NEW m \in 1..2, NEW n \in 0..Cap
  PROVE  SubSeq(buf, m, n) \in Seq(Cells)
  <1>1. \A i \in m..n : buf[i] \in Cells
    BY ConstantsAssumption DEF BufOK
  <1> QED
    BY <1>1, SubSeqProperties, ConstantsAssumption

LEMMA ClearType == ClearBuf /\ alarm' \in BOOLEAN => BufOK'
  BY EmptyType, ConstantsAssumption DEF ClearBuf, BufOK

(* What moving one thread from a label to another leaves well typed.       *)
LEMMA GotoCan ==
  ASSUME PcOK, NEW a, NEW b \in CanLabels, Goto("can", a, b)
  PROVE  PcOK' /\ pc["can"] = a /\ pc'["can"] = b
  BY DEF Goto, PcOK, Producers, CanLabels, PingLabels, DataLabels

LEMMA GotoPing ==
  ASSUME PcOK, NEW a, NEW b \in PingLabels, Goto("ping", a, b)
  PROVE  PcOK' /\ pc'["can"] = pc["can"]
  BY DEF Goto, PcOK, Producers, CanLabels, PingLabels, DataLabels

LEMMA GotoData ==
  ASSUME PcOK, NEW a, NEW b \in DataLabels, Goto("data", a, b)
  PROVE  PcOK' /\ pc'["can"] = pc["can"]
  BY DEF Goto, PcOK, Producers, CanLabels, PingLabels, DataLabels

LEMMA WokenType ==
  ASSUME PcOK, NEW t \in Producers, pc' = Woken([pc EXCEPT ![t] = "store"])
  PROVE  PcOK' /\ (pc'["can"] = "copy" => pc["can"] = "copy")
  <1> DEFINE w == [pc EXCEPT ![t] = "store"]
  <1>1. /\ w \in [Producers \cup {"data"} -> CanLabels \cup PingLabels \cup DataLabels]
        /\ w["can"] \in CanLabels /\ w["ping"] \in PingLabels
        /\ w["data"] \in DataLabels /\ (w["can"] = "copy" => pc["can"] = "copy")
    BY DEF PcOK, Producers, CanLabels, PingLabels, DataLabels
  <1>2. pc' = w \/ pc' = [w EXCEPT !["data"] = "woken"]
    BY DEF Woken
  <1> QED
    BY <1>1, <1>2 DEF PcOK, Producers, DataLabels

(* A step that leaves everything but the threads' places alone.            *)
LEMMA MoveType ==
  ASSUME TypeInv, UNCHANGED state, PcOK', pc'["can"] = "copy" => pc["can"] = "copy"
  PROVE  TypeInv'
  BY DEF TypeInv, TypeOK, state, bufVars, locks, locals, world, mcuVars,
         counters, history, BufOK, LocksOK, LocalsOK, WorldOK, HistoryOK

LEMMA TypeInit == Init => TypeInv
  <1> SUFFICES ASSUME Init PROVE TypeInv
    OBVIOUS
  <1>1. BufOK
    <2>1. buf = Empty /\ alarm = FALSE /\ count = 0 /\ datalen = 0
      BY DEF Init
    <2>2. count \in 0..Cap /\ datalen \in 0..Cap
      BY <2>1, ConstantsAssumption
    <2> QED
      BY <2>1, <2>2, EmptyType, Zenon DEF BufOK
  <1>2. LocksOK
    BY ConstantsAssumption DEF Init, LocksOK, Number
  <1>3. PcOK /\ pc["can"] # "copy"
    BY StartType DEF Init, Start, Producers
  <1>4. LocalsOK
    BY EmptyType DEF Init, LocalsOK, Number, Producers
  <1>5. WorldOK
    BY ConstantsAssumption DEF Init, WorldOK
  <1>6. HistoryOK
    BY DEF Init, HistoryOK
  <1> QED
    BY <1>1, <1>2, <1>3, <1>4, <1>5, <1>6 DEF TypeInv, TypeOK

(* The actions both producers have.                                        *)
LEMMA TypeStepShared ==
  ASSUME TypeInv, NEW t \in Producers,
         \/ LockEventno(t) \/ WriteEventno(t) \/ Store(t) \/ StoreFails(t)
         \/ WaitSem(t) \/ Clear(t)
  PROVE  TypeInv'
  <1>0. /\ BufOK /\ LocksOK /\ PcOK /\ LocalsOK /\ WorldOK /\ HistoryOK
        /\ (pc["can"] = "copy" => count < Cap)
    BY DEF TypeInv, TypeOK
  <1> USE DEF bufVars, locks, locals, world, mcuVars, counters, history
  <1>1. CASE LockEventno(t)
    <2>1. PcOK' /\ (pc'["can"] = "copy" => pc["can"] = "copy")
      BY <1>0, <1>1, GotoCan, GotoPing
      DEF LockEventno, Acquire, CanLabels, PingLabels, Producers
    <2> QED
      BY <1>0, <1>1, <2>1 DEF LockEventno, Acquire, TypeInv, TypeOK, BufOK,
         LocksOK, LocalsOK, WorldOK, HistoryOK
  <1>2. CASE WriteEventno(t)
    <2>1. PcOK' /\ (pc'["can"] = "copy" => pc["can"] = "copy")
      BY <1>0, <1>2, GotoCan, GotoPing
      DEF WriteEventno, WriteBack, CanLabels, PingLabels, Producers
    <2>2. to[t] \in Number /\ from[t] \in Number /\ pkg[t] \in Packages \cup {NoPkg}
      BY <1>0 DEF LocalsOK
    <2>3. HistoryOK'
      BY <1>0, <1>2, <2>2 DEF WriteEventno, WriteBack, HistoryOK
    <2>4. eventno' \in Number
      BY <1>0, <1>2, <2>2 DEF WriteEventno, WriteBack, LocksOK
    <2> QED
      BY <1>0, <1>2, <2>1, <2>3, <2>4 DEF WriteEventno, WriteBack, TypeInv,
         TypeOK, BufOK, LocksOK, LocalsOK, WorldOK
  <1>3. CASE Store(t)
    <2>1. PcOK' /\ (pc'["can"] = "copy" => pc["can"] = "copy")
      BY <1>0, <1>3, GotoCan, GotoPing
      DEF Store, CanLabels, PingLabels, Producers
    <2>2. EventCells(buf) \in Seq(Cells)
      BY <1>0, EventCountType, CopyType, ConstantsAssumption DEF EventCells
    <2>3. HistoryOK'
      BY <1>0, <1>3, <2>2 DEF Store, HistoryOK
    <2> QED
      BY <1>0, <1>3, <2>1, <2>3 DEF Store, TypeInv, TypeOK, BufOK, LocksOK,
         LocalsOK, WorldOK
  <1>4. CASE StoreFails(t)
    <2>1. PcOK' /\ (pc'["can"] = "copy" => pc["can"] = "copy")
      BY <1>0, <1>4, GotoCan, GotoPing
      DEF StoreFails, Return, CanLabels, PingLabels, Producers
    <2>2. PICK n \in 0..(EventCount(buf) - 1) :
            stored' = stored \o SubSeq(buf, 2, 1 + n)
      BY <1>4 DEF StoreFails
    <2>3. SubSeq(buf, 2, 1 + n) \in Seq(Cells)
      BY <1>0, EventCountType, CopyType, ConstantsAssumption
    <2>4. HistoryOK'
      BY <1>0, <1>4, <2>2, <2>3 DEF StoreFails, HistoryOK
    <2> QED
      BY <1>0, <1>4, <2>1, <2>4 DEF StoreFails, TypeInv, TypeOK, BufOK, LocksOK,
         LocalsOK, WorldOK
  <1>5. CASE WaitSem(t)
    <2>1. PcOK' /\ (pc'["can"] = "copy" => pc["can"] = "copy")
      BY <1>0, <1>5, GotoCan, GotoPing
      DEF WaitSem, TakeSem, CanLabels, PingLabels, Producers
    <2> QED
      BY <1>0, <1>5, <2>1 DEF WaitSem, TakeSem, TypeInv, TypeOK, BufOK,
         LocksOK, LocalsOK, WorldOK, HistoryOK
  <1>6. CASE Clear(t)
    <2>1. PcOK' /\ (pc'["can"] = "copy" => pc["can"] = "copy")
      BY <1>0, <1>6, GotoCan, GotoPing
      DEF Clear, Return, CanLabels, PingLabels, Producers
    <2>2. BufOK' /\ count' = 0
      BY <1>0, <1>6, ClearType DEF Clear, BufOK, ClearBuf
    <2> QED
      BY <1>0, <1>6, <2>1, <2>2, ConstantsAssumption
      DEF Clear, TypeInv, TypeOK, LocksOK, LocalsOK, WorldOK, HistoryOK
  <1> QED
    BY <1>1, <1>2, <1>3, <1>4, <1>5, <1>6

(* The other actions of pthread_can_rcv.                                   *)
LEMMA TypeStepCan == TypeInv /\ (CanRead \/ CanStep) => TypeInv'
  <1> SUFFICES ASSUME TypeInv, CanRead \/ CanStep PROVE TypeInv'
    OBVIOUS
  <1>0. /\ BufOK /\ LocksOK /\ PcOK /\ LocalsOK /\ WorldOK /\ HistoryOK
        /\ (pc["can"] = "copy" => count < Cap)
    BY DEF TypeInv, TypeOK
  <1> USE DEF bufVars, locks, locals, world, mcuVars, counters, history
  <1>1. CASE CanRead
    <2>1. PcOK' /\ count' < Cap
      BY <1>0, <1>1, GotoCan DEF CanRead, CanLabels
    <2>2. frame' \in Cells /\ mcu' \in [pkg : CanPackages \cup {NoPkg}, slot : Nat]
          /\ unsent' \subseteq CanPackages
      <3>0. mcu \in [pkg : CanPackages \cup {NoPkg}, slot : Nat]
            /\ unsent \subseteq CanPackages
        BY <1>0 DEF WorldOK
      <3>1. CASE /\ mcu.pkg # NoPkg
                 /\ frame' = Cell(mcu.pkg, mcu.slot, 0)
                 /\ mcu' = IF mcu.slot = Events[mcu.pkg]
                            THEN [pkg |-> NoPkg, slot |-> 0]
                            ELSE [mcu EXCEPT !.slot = @ + 1]
                 /\ UNCHANGED unsent
        <4>1. frame' \in Cells
          BY <3>0, <3>1 DEF Cell, Cells, Packages
        <4>2. mcu' \in [pkg : CanPackages \cup {NoPkg}, slot : Nat]
          BY <3>0, <3>1
        <4> QED
          BY <3>0, <3>1, <4>1, <4>2
      <3>2. CASE \E p \in unsent : /\ frame' = Cell(p, 0, 0)
                                   /\ mcu' = [pkg |-> p, slot |-> 1]
                                   /\ unsent' = unsent \ {p}
        <4> PICK p \in unsent : /\ frame' = Cell(p, 0, 0)
                               /\ mcu' = [pkg |-> p, slot |-> 1]
                               /\ unsent' = unsent \ {p}
          BY <3>2
        <4> QED
          BY <3>0 DEF Cell, Cells, Packages
      <3> QED
        BY <1>1, <3>1, <3>2 DEF CanRead, SendFrame
    <2> QED
      BY <1>0, <1>1, <2>1, <2>2
      DEF CanRead, TypeInv, TypeOK, BufOK, LocksOK, LocalsOK, WorldOK, HistoryOK
  <1>2. CASE CanCopy
    <2>1. PcOK' /\ pc'["can"] = "check" /\ count < Cap
      BY <1>0, <1>2, GotoCan DEF CanCopy, CanLabels
    <2>2. buf' \in [1..Cap -> Cells] /\ count' \in 0..Cap
      BY <1>0, <1>2, <2>1, ConstantsAssumption DEF CanCopy, BufOK, LocalsOK
    <2>3. datalen' \in 0..Cap
      BY <1>0, <1>2, <2>2, LengthsType DEF CanCopy, BufOK
    <2> QED
      BY <1>0, <1>2, <2>1, <2>2, <2>3
      DEF CanCopy, TypeInv, TypeOK, BufOK, LocksOK, LocalsOK, WorldOK, HistoryOK
  <1>3. CASE CanIncomplete
    BY <1>0, <1>3, GotoCan, MoveType DEF CanIncomplete, CanLabels
  <1>4. CASE CanReject
    <2>1. PcOK' /\ pc'["can"] = "read"
      BY <1>0, <1>4, GotoCan DEF CanReject, CanLabels
    <2> QED
      BY <1>0, <1>4, <2>1
      DEF CanReject, TypeInv, TypeOK, BufOK, LocksOK, LocalsOK, WorldOK, HistoryOK
  <1>5. CASE CanAccept
    <2>1. PcOK' /\ pc'["can"] # "copy"
      BY <1>0, <1>5 DEF CanAccept, PcOK, Producers, CanLabels, PingLabels, DataLabels
    <2>2. buf[1].pkg \in Packages \cup {NoPkg}
      BY <1>0, ConstantsAssumption DEF BufOK, Cells
    <2>3. pkg' \in [Producers -> Packages \cup {NoPkg}]
      BY <1>0, <1>5, <2>2 DEF CanAccept, LocalsOK
    <2> QED
      BY <1>0, <1>5, <2>1, <2>3
      DEF CanAccept, TypeInv, TypeOK, BufOK, LocksOK, LocalsOK, WorldOK, HistoryOK
  <1>6. CASE CanShow
    <2>1. PcOK' /\ pc'["can"] = "read"
      BY <1>0, <1>6, GotoCan DEF CanShow, CanLabels
    <2>2. BufOK'
      BY <1>0, <1>6, ClearType DEF CanShow, BufOK
    <2> QED
      BY <1>0, <1>6, <2>1, <2>2
      DEF CanShow, TypeInv, TypeOK, LocksOK, LocalsOK, WorldOK, HistoryOK
  <1>7. CASE CanNumber
    <2>1. PcOK' /\ pc'["can"] = "write"
      BY <1>0, <1>7, GotoCan DEF CanNumber, CanLabels
    <2>2. \A i \in 2..Cap : [buf[i] EXCEPT !.no = eventno + i - 1] \in Cells
      BY <1>0 DEF BufOK, LocksOK, Cells, Number
    <2>3. BufOK'
      BY <1>0, <1>7, <2>2 DEF CanNumber, BufOK
    <2>4. eventno \in Number /\ eventno + EventCount(buf) \in Number
      BY <1>0, EventCountType DEF LocksOK, Number
    <2>5. LocalsOK'
      BY <1>0, <1>7, <2>4 DEF CanNumber, LocalsOK, Producers
    <2> QED
      BY <1>0, <1>7, <2>1, <2>3, <2>5
      DEF CanNumber, TypeInv, TypeOK, LocksOK, WorldOK, HistoryOK
  <1>8. CASE CanSignal
    BY <1>0, <1>8, WokenType, MoveType DEF CanSignal, Announce, Producers, state
  <1>9. CASE CanRespond
    <2>1. PcOK' /\ pc'["can"] = "read"
      BY <1>0, <1>9, GotoCan DEF CanRespond, CanLabels
    <2>2. HistoryOK'
      BY <1>0, <1>9 DEF CanRespond, HistoryOK, LocalsOK, Producers
    <2> QED
      BY <1>0, <1>9, <2>1, <2>2
      DEF CanRespond, TypeInv, TypeOK, BufOK, LocksOK, LocalsOK, WorldOK
  <1>10. CASE \/ LockEventno("can") \/ WriteEventno("can") \/ Store("can")
              \/ StoreFails("can") \/ WaitSem("can") \/ Clear("can")
    BY <1>10, TypeStepShared DEF Producers
  <1> QED
    BY <1>1, <1>2, <1>3, <1>4, <1>5, <1>6, <1>7, <1>8, <1>9, <1>10 DEF CanStep

LEMMA TypeStepPing == TypeInv /\ PingStep => TypeInv'
  <1> SUFFICES ASSUME TypeInv, PingStep PROVE TypeInv'
    OBVIOUS
  <1>0. /\ BufOK /\ LocksOK /\ PcOK /\ LocalsOK /\ WorldOK /\ HistoryOK
        /\ (pc["can"] = "copy" => count < Cap)
    BY DEF TypeInv, TypeOK
  <1> USE DEF bufVars, locks, locals, world, mcuVars, counters, history
  <1>1. CASE PingTop
    <2>1. PcOK' /\ pc'["can"] = pc["can"]
      BY <1>0, <1>1, GotoPing DEF PingTop, PingLabels
    <2> QED
      BY <1>0, <1>1, <2>1 DEF PingTop, TypeInv, TypeOK, BufOK, LocksOK,
         LocalsOK, WorldOK, HistoryOK
  <1>2. CASE PingSleep
    BY <1>0, <1>2, GotoPing, MoveType DEF PingSleep, PingLabels
  <1>3. CASE PingRaise
    <2>1. PcOK' /\ pc'["can"] = pc["can"]
      BY <1>0, <1>3, GotoPing DEF PingRaise, PingLabels
    <2>2. PICK p \in unraised : /\ pkg' = [pkg EXCEPT !["ping"] = p]
                               /\ unraised' = unraised \ {p}
      BY <1>3 DEF PingRaise
    <2>3. p \in Packages
      BY <1>0 DEF WorldOK, Packages
    <2>4. LocalsOK'
      BY <1>0, <1>3, <2>2, <2>3 DEF PingRaise, LocalsOK
    <2> QED
      BY <1>0, <1>3, <2>1, <2>2, <2>4 DEF PingRaise, TypeInv, TypeOK, BufOK,
         LocksOK, WorldOK, HistoryOK
  <1>4. CASE PingNumber
    <2>1. PcOK' /\ pc'["can"] = pc["can"]
      BY <1>0, <1>4, GotoPing DEF PingNumber, PingLabels
    <2>2. eventno \in Number /\ eventno + 1 \in Nat /\ Nat \subseteq Number
      BY <1>0 DEF LocksOK, Number
    <2>3. LocalsOK'
      BY <1>0, <1>4, <2>2 DEF PingNumber, LocalsOK, Producers
    <2> QED
      BY <1>0, <1>4, <2>1, <2>3 DEF PingNumber, TypeInv, TypeOK, BufOK,
         LocksOK, WorldOK, HistoryOK
  <1>5. CASE PingTakeBuf
    <2>1. PcOK' /\ pc'["can"] = pc["can"]
      BY <1>0, <1>5, GotoPing DEF PingTakeBuf, PingLabels
    <2> QED
      BY <1>0, <1>5, <2>1 DEF PingTakeBuf, TypeInv, TypeOK, BufOK, LocksOK,
         LocalsOK, WorldOK, HistoryOK
  <1>6. CASE PingPlace
    <2>1. PcOK' /\ (pc'["can"] = "copy" => pc["can"] = "copy")
      BY <1>0, <1>6, WokenType DEF PingPlace, Producers
    <2>2. /\ Cell(pkg["ping"], 0, 0) \in Cells
          /\ Cell(pkg["ping"], 1, to["ping"]) \in Cells
      BY <1>0 DEF LocalsOK, Producers, Cell, Cells
    <2>3. BufOK'
      BY <1>0, <1>6, <2>2 DEF PingPlace, BufOK
    <2> QED
      BY <1>0, <1>6, <2>1, <2>3 DEF PingPlace, TypeInv, TypeOK, LocksOK,
         LocalsOK, WorldOK, HistoryOK
  <1>7. CASE \/ LockEventno("ping") \/ WriteEventno("ping") \/ Store("ping")
             \/ StoreFails("ping") \/ WaitSem("ping") \/ Clear("ping")
    BY <1>7, TypeStepShared DEF Producers
  <1> QED
    BY <1>1, <1>2, <1>3, <1>4, <1>5, <1>6, <1>7 DEF PingStep

(* The server thread, the alarm and the restart.                           *)
LEMMA TypeStepRest ==
  TypeInv /\ (DataStep \/ DataWakeSpuriously \/ Timeout \/ Restart) => TypeInv'
  <1> SUFFICES ASSUME TypeInv, DataStep \/ DataWakeSpuriously \/ Timeout \/ Restart
               PROVE  TypeInv'
    OBVIOUS
  <1>0. /\ BufOK /\ LocksOK /\ PcOK /\ LocalsOK /\ WorldOK /\ HistoryOK
        /\ (pc["can"] = "copy" => count < Cap)
    BY DEF TypeInv, TypeOK
  <1> USE DEF bufVars, locks, locals, world, mcuVars, counters, history
  <1>1. CASE DataWait
    BY <1>0, <1>1, GotoData, MoveType DEF DataWait, DataLabels
  <1>2. CASE DataDeliver
    BY <1>0, <1>2, GotoData, MoveType DEF DataDeliver, DataLabels
  <1>3. CASE DataCopy
    <2>1. PcOK' /\ pc'["can"] = pc["can"]
      BY <1>0, <1>3, GotoData DEF DataCopy, TakeCopy, DataLabels
    <2>2. PICK len \in Lengths(buf[1]) :
            uploads' = Append(uploads, SubSeq(buf, 1, len))
      BY <1>3 DEF DataCopy, TakeCopy
    <2>3. len \in 0..Cap
      BY <1>0, LengthsType DEF BufOK
    <2>4. SubSeq(buf, 1, len) \in Seq(Cells)
      BY <1>0, <2>3, CopyType
    <2>5. uploads' \in Seq(Seq(Cells))
      BY <1>0, <2>2, <2>4 DEF HistoryOK
    <2>6. HistoryOK'
      BY <1>0, <1>3, <2>5 DEF DataCopy, TakeCopy, HistoryOK
    <2> QED
      BY <1>0, <1>3, <2>1, <2>6 DEF DataCopy, TakeCopy, TypeInv, TypeOK, BufOK,
         LocksOK, LocalsOK, WorldOK
  <1>4. CASE DataWakeSpuriously
    <2>1. PcOK' /\ pc'["can"] = pc["can"]
      BY <1>0, <1>4, GotoData DEF DataWakeSpuriously, DataLabels
    <2>2. WorldOK'
      BY <1>0, <1>4, ConstantsAssumption DEF DataWakeSpuriously, WorldOK
    <2> QED
      BY <1>0, <1>4, <2>1, <2>2 DEF DataWakeSpuriously, TypeInv, TypeOK, BufOK,
         LocksOK, LocalsOK, HistoryOK
  <1>5. CASE Timeout
    <2>1. ClearBuf /\ alarm' \in BOOLEAN
      BY <1>5 DEF Timeout
    <2>2. BufOK' /\ count' = 0 /\ count' < Cap
      BY <2>1, ClearType, ConstantsAssumption DEF ClearBuf
    <2> QED
      BY <1>0, <1>5, <2>2 DEF Timeout, TypeInv, TypeOK, PcOK, LocksOK,
         LocalsOK, WorldOK, HistoryOK
  <1>6. CASE Restart
    <2>0. ClearBuf /\ alarm' \in BOOLEAN
      BY <1>6 DEF Restart
    <2>1. BufOK' /\ count' = 0 /\ count' < Cap
      BY <2>0, ClearType, ConstantsAssumption DEF ClearBuf
    <2>2. PcOK'
      BY <1>6 DEF Restart, PcOK, Start, Producers, CanLabels, PingLabels, DataLabels
    <2>3. LocalsOK'
      BY <1>6, EmptyType DEF Restart, LocalsOK, Number, Producers
    <2>4. WorldOK'
      BY <1>0, <1>6, ConstantsAssumption DEF Restart, WorldOK
    <2> QED
      BY <1>0, <1>6, <2>1, <2>2, <2>3, <2>4
      DEF Restart, TypeInv, TypeOK, LocksOK, HistoryOK
  <1> QED
    BY <1>1, <1>2, <1>3, <1>4, <1>5, <1>6 DEF DataStep

LEMMA TypeStep == TypeInv /\ [Next]_vars => TypeInv'
  <1> SUFFICES ASSUME TypeInv, [Next]_vars PROVE TypeInv'
    OBVIOUS
  <1>1. CASE UNCHANGED vars
    BY <1>1, MoveType DEF vars, TypeInv, TypeOK, PcOK
  <1> QED
    BY <1>1, TypeStepCan, TypeStepPing, TypeStepRest DEF Next

(* Every variable keeps its type in every behaviour of the daemon.         *)
THEOREM TypeCorrect == Spec => []TypeOK
  <1>1. TypeInv => TypeOK
    BY DEF TypeInv
  <1> QED
    BY TypeInit, TypeStep, <1>1, PTL DEF Spec

-----------------------------------------------------------------------------
(* NumbersUnique is not inductive: it needs that eventno.txt is never below *)
(* a number given out, that whoever reads or writes it holds mutex_eventno, *)
(* and that what the holder has read is still what the file says.          *)
IssuedBelow ==
  eventno # -1 => \A i \in DOMAIN issued : issued[i].to <= eventno
NumbersUnderMutex ==
  \A t \in Producers : pc[t] \in {"number", "write"} => mutexEventno = t
ReadIsCurrent ==
  \A t \in Producers :
    pc[t] = "write" => /\ from[t] = eventno /\ from[t] <= to[t]
                       /\ from[t] # -1 => to[t] # -1
NumInv == NumbersUnique /\ IssuedBelow /\ NumbersUnderMutex /\ ReadIsCurrent

LEMMA NumInit == Init => NumInv
  BY DEF Init, Start, NumInv, NumbersUnique, IssuedBelow, NumbersUnderMutex,
         ReadIsCurrent, Producers

(* A step that numbers nothing and brings no producer to where it numbers. *)
Aside ==
  /\ issued' = issued /\ eventno' = eventno
  /\ \A t \in Producers : pc'[t] \in {"number", "write"} =>
       /\ pc'[t] = pc[t] /\ mutexEventno' = mutexEventno
       /\ from'[t] = from[t] /\ to'[t] = to[t]

LEMMA AsideStep == NumInv /\ Aside => NumInv'
  BY DEF Aside, NumInv, NumbersUnique, IssuedBelow, NumbersUnderMutex, ReadIsCurrent

LEMMA CanAside ==
  PcOK /\ (CanRead \/ CanCopy \/ CanIncomplete \/ CanReject \/ CanAccept
           \/ CanShow \/ CanSignal \/ CanRespond) => Aside
  <1> SUFFICES ASSUME PcOK,
                      CanRead \/ CanCopy \/ CanIncomplete \/ CanReject
                      \/ CanAccept \/ CanShow \/ CanSignal \/ CanRespond
               PROVE  Aside
    OBVIOUS
  <1> USE DEF PcOK, Producers, Goto, Aside, state, bufVars, locks, locals, history
  <1>1. CASE CanRead
    BY <1>1 DEF CanRead
  <1>2. CASE CanCopy
    BY <1>2 DEF CanCopy
  <1>3. CASE CanIncomplete
    BY <1>3 DEF CanIncomplete
  <1>4. CASE CanReject
    BY <1>4 DEF CanReject
  <1>5. CASE CanAccept
    BY <1>5 DEF CanAccept
  <1>6. CASE CanShow
    BY <1>6 DEF CanShow
  <1>7. CASE CanSignal
    BY <1>7 DEF CanSignal, Announce, Woken
  <1>8. CASE CanRespond
    BY <1>8 DEF CanRespond
  <1> QED
    BY <1>1, <1>2, <1>3, <1>4, <1>5, <1>6, <1>7, <1>8

LEMMA StoreAside ==
  ASSUME PcOK, NEW t \in Producers,
         Store(t) \/ StoreFails(t) \/ WaitSem(t) \/ Clear(t)
  PROVE  Aside
  <1> USE DEF PcOK, Producers, Goto, Aside, locks, locals
  <1>1. CASE Store(t)
    BY <1>1 DEF Store
  <1>2. CASE StoreFails(t)
    BY <1>2 DEF StoreFails, Return
  <1>3. CASE WaitSem(t)
    BY <1>3 DEF WaitSem, TakeSem, history
  <1>4. CASE Clear(t)
    BY <1>4 DEF Clear, Return, history
  <1> QED
    BY <1>1, <1>2, <1>3, <1>4

LEMMA PingAside ==
  PcOK /\ (PingTop \/ PingSleep \/ PingRaise \/ PingTakeBuf \/ PingPlace) => Aside
  <1> SUFFICES ASSUME PcOK, PingTop \/ PingSleep \/ PingRaise \/ PingTakeBuf
                            \/ PingPlace
               PROVE  Aside
    OBVIOUS
  <1> USE DEF PcOK, Producers, Goto, Aside, state, locks, locals, history
  <1>1. CASE PingTop
    BY <1>1 DEF PingTop
  <1>2. CASE PingSleep
    BY <1>2 DEF PingSleep
  <1>3. CASE PingRaise
    BY <1>3 DEF PingRaise
  <1>4. CASE PingTakeBuf
    BY <1>4 DEF PingTakeBuf
  <1>5. CASE PingPlace
    BY <1>5 DEF PingPlace, Woken
  <1> QED
    BY <1>1, <1>2, <1>3, <1>4, <1>5

LEMMA RestAside ==
  PcOK /\ (DataStep \/ DataWakeSpuriously \/ Timeout \/ Restart) => Aside
  <1> SUFFICES ASSUME PcOK, DataStep \/ DataWakeSpuriously \/ Timeout \/ Restart
               PROVE  Aside
    OBVIOUS
  <1> USE DEF PcOK, Producers, Goto, Aside, state, locks, locals, history
  <1>1. CASE DataStep
    BY <1>1 DEF DataStep, DataWait, DataCopy, TakeCopy, DataDeliver
  <1>2. CASE DataWakeSpuriously
    BY <1>2 DEF DataWakeSpuriously
  <1>3. CASE Timeout
    BY <1>3 DEF Timeout
  <1>4. CASE Restart
    BY <1>4 DEF Restart, Start
  <1> QED
    BY <1>1, <1>2, <1>3, <1>4

(* Taking the mutex: the other producer has not read the number.           *)
LEMMA LockStep ==
  ASSUME PcOK, NumInv, NEW t \in Producers, LockEventno(t)
  PROVE  NumInv'
  BY DEF LockEventno, Acquire, Goto, PcOK, Producers, locals, history, NumInv,
         NumbersUnique, IssuedBelow, NumbersUnderMutex, ReadIsCurrent

(* Reading the number and counting on from it.                             *)
LEMMA NumberStep ==
  ASSUME TypeInv, NumInv, CanNumber \/ PingNumber
  PROVE  NumInv'
  <1>0. /\ BufOK /\ PcOK /\ LocalsOK /\ eventno \in Number /\ eventno >= -1
    BY DEF TypeInv, TypeOK, LocksOK, Number
  <1>1. EventCount(buf) \in Nat
    BY <1>0, EventCountType
  <1>2. /\ \/ mutexEventno' = "can" \/ mutexEventno' = "ping"
        /\ issued' = issued /\ eventno' = eventno
        /\ mutexEventno' = mutexEventno
    <2>1. CASE CanNumber
      BY <2>1 DEF CanNumber, Goto, Producers, NumInv, NumbersUnderMutex, locks, history
    <2>2. CASE PingNumber
      BY <2>2 DEF PingNumber, Goto, Producers, NumInv, NumbersUnderMutex, locks, history
    <2> QED
      BY <2>1, <2>2
  <1>3. NumbersUnique' /\ IssuedBelow'
    BY <1>2 DEF NumInv, NumbersUnique, IssuedBelow
  <1>4. CASE CanNumber
    <2>1. /\ pc'["can"] = "write" /\ pc'["ping"] = pc["ping"] /\ pc["can"] = "number"
          /\ from'["can"] = eventno /\ to'["can"] = eventno + EventCount(buf)
          /\ from'["ping"] = from["ping"] /\ to'["ping"] = to["ping"]
      BY <1>0, <1>4 DEF CanNumber, Goto, PcOK, LocalsOK, Producers
    <2> QED
      BY <1>0, <1>1, <1>2, <1>3, <2>1
      DEF NumInv, NumbersUnderMutex, ReadIsCurrent, Producers, Number
  <1>5. CASE PingNumber
    <2>1. /\ pc'["ping"] = "write" /\ pc'["can"] = pc["can"] /\ pc["ping"] = "number"
          /\ from'["ping"] = eventno /\ to'["ping"] = eventno + 1
          /\ from'["can"] = from["can"] /\ to'["can"] = to["can"]
      BY <1>0, <1>5 DEF PingNumber, Goto, PcOK, LocalsOK, Producers
    <2> QED
      BY <1>0, <1>2, <1>3, <2>1
      DEF NumInv, NumbersUnderMutex, ReadIsCurrent, Producers, Number
  <1> QED
    BY <1>4, <1>5

LEMMA Appended ==
  ASSUME NEW S, NEW q \in Seq(S), NEW e \in S
  PROVE  /\ DOMAIN q = 1..Len(q) /\ Len(q) \in Nat
         /\ DOMAIN Append(q, e) = 1..(Len(q) + 1)
         /\ \A i \in DOMAIN q : Append(q, e)[i] = q[i] /\ q[i] \in S
         /\ Append(q, e)[Len(q) + 1] = e
  BY AppendProperties

(* Writing the number back: what is issued lies above all that went before.*)
LEMMA WriteStep ==
  ASSUME TypeInv, NumInv, NEW t \in Producers, WriteEventno(t)
  PROVE  NumInv'
  <1> DEFINE new == [pkg |-> pkg[t], from |-> from[t], to |-> to[t]]
             Entry == [pkg : Packages \cup {NoPkg}, from : Number, to : Number]
  <1>0. /\ PcOK /\ eventno \in Number /\ new \in Entry /\ issued \in Seq(Entry)
        /\ from[t] \in Int /\ to[t] \in Int /\ eventno \in Int
    BY DEF TypeInv, TypeOK, LocksOK, LocalsOK, HistoryOK, Number
  <1>1. /\ issued' = Append(issued, new)
        /\ eventno' = IF eventno = -1 THEN -1 ELSE to[t]
        /\ from' = from /\ to' = to /\ mutexEventno' = "none"
        /\ pc[t] = "write" /\ pc'[t] \notin {"number", "write"}
        /\ \A s \in Producers \ {t} : pc'[s] = pc[s]
    BY <1>0 DEF WriteEventno, WriteBack, Goto, PcOK, Producers, locals
  <1>2. /\ from[t] = eventno /\ from[t] <= to[t] /\ mutexEventno = t
        /\ eventno' = -1 <=> eventno = -1
    BY <1>1 DEF NumInv, NumbersUnderMutex, ReadIsCurrent
  <1>3. NumbersUnderMutex' /\ ReadIsCurrent'
    BY <1>1, <1>2 DEF NumInv, NumbersUnderMutex, ReadIsCurrent
  <1>4. /\ DOMAIN issued = 1..Len(issued) /\ Len(issued) \in Nat
        /\ DOMAIN issued' = 1..(Len(issued) + 1)
        /\ \A i \in DOMAIN issued : issued'[i] = issued[i] /\ issued[i] \in Entry
        /\ issued'[Len(issued) + 1] = new
    <2> HIDE DEF new, Entry
    <2> QED
      BY <1>0, <1>1, Appended
  <1>5. IssuedBelow'
    <2> SUFFICES ASSUME eventno' # -1, NEW i \in DOMAIN issued'
                 PROVE  issued'[i].to <= eventno'
      BY DEF IssuedBelow
    <2>1. CASE i \in DOMAIN issued
      <3>1. issued[i].to \in Int /\ issued[i].to <= eventno
        BY <1>2, <1>4, <2>1 DEF NumInv, IssuedBelow, Number
      <3> QED
        BY <1>0, <1>1, <1>2, <1>4, <2>1, <3>1
    <2>2. CASE i = Len(issued) + 1
      BY <1>0, <1>1, <1>4, <2>2
    <2> QED
      BY <1>4, <2>1, <2>2
  <1>6. NumbersUnique'
    <2> SUFFICES ASSUME NEW i \in DOMAIN issued', NEW j \in DOMAIN issued'
                 PROVE  /\ issued'[i].from <= issued'[i].to
                        /\ i < j => IF eventno' = -1 THEN issued'[j].from = -1
                                    ELSE issued'[i].to <= issued'[j].from
      BY DEF NumbersUnique
    <2>1. CASE i \in DOMAIN issued /\ j \in DOMAIN issued
      BY <1>2, <1>4, <2>1 DEF NumInv, NumbersUnique
    <2>2. CASE i \in DOMAIN issued /\ j = Len(issued) + 1
      BY <1>2, <1>4, <2>2 DEF NumInv, NumbersUnique, IssuedBelow
    <2>3. CASE i = Len(issued) + 1
      BY <1>2, <1>4, <2>3
    <2> QED
      BY <1>4, <2>1, <2>2, <2>3
  <1> QED
    BY <1>3, <1>5, <1>6 DEF NumInv

LEMMA NumStep == TypeInv /\ NumInv /\ [Next]_vars => NumInv'
  <1> SUFFICES ASSUME TypeInv, NumInv, [Next]_vars PROVE NumInv'
    OBVIOUS
  <1>0. PcOK
    BY DEF TypeInv, TypeOK
  <1>1. CASE UNCHANGED vars
    BY <1>1, AsideStep DEF vars, state, locks, locals, history, Aside
  <1>2. CASE CanStep \/ CanRead
    BY <1>0, <1>2, AsideStep, CanAside, StoreAside, LockStep, NumberStep, WriteStep
    DEF CanStep, Producers
  <1>3. CASE PingStep
    BY <1>0, <1>3, AsideStep, PingAside, StoreAside, LockStep, NumberStep, WriteStep
    DEF PingStep, Producers
  <1>4. CASE DataStep \/ DataWakeSpuriously \/ Timeout \/ Restart
    BY <1>0, <1>4, AsideStep, RestAside
  <1> QED
    BY <1>1, <1>2, <1>3, <1>4 DEF Next

(* No event number is given out twice, by two threads or over restarts: the *)
(* numbers of a package lie above those of every package numbered before.  *)
THEOREM NumbersUniqueCorrect == Spec => []NumbersUnique
  <1>1. Init => TypeInv /\ NumInv
    BY TypeInit, NumInit
  <1>2. TypeInv /\ NumInv /\ [Next]_vars => (TypeInv /\ NumInv)'
    BY TypeStep, NumStep
  <1>3. NumInv => NumbersUnique
    BY DEF NumInv
  <1> QED
    BY <1>1, <1>2, <1>3, PTL DEF Spec
-----------------------------------------------------------------------------
(* One producer.                                                           *)
Single == PingPackages = {} /\ MaxSpurious = 0 /\ ~FilesMayFail

(* eventno.txt is there.                                                   *)
LEMMA SingleNumbers ==
  ASSUME Single, TypeInv
  PROVE  /\ Number = Nat /\ eventno \in Nat
         /\ from \in [Producers -> Nat] /\ to \in [Producers -> Nat]
         /\ from["can"] \in Nat /\ to["can"] \in Nat
<1>1. Number = Nat
  BY DEF Single, Number
<1> QED BY <1>1 DEF TypeInv, TypeOK, LocksOK, LocalsOK, Producers

(* What can still happen.                                                  *)
Reception == CanRead \/ CanCopy \/ CanIncomplete \/ CanReject \/ CanAccept \/ CanShow
Numbering == LockEventno("can") \/ CanNumber \/ WriteEventno("can")
Passing == CanSignal \/ Store("can") \/ WaitSem("can") \/ Clear("can") \/ CanRespond
Others == PingTop \/ PingSleep \/ DataWait \/ DataDeliver \/ UNCHANGED vars

(* The alarm runs only while a package comes in; the signal, the copy and  *)
(* the post happen while pthread_can_rcv stores and waits.                 *)
Flow ==
  /\ pc["ping"] \in {"top", "scan"}
  /\ alarm => pc["can"] \in {"read", "copy", "check"}
  /\ sem \in {0, 1}
  /\ pc["data"] = "woken" => sem = 0 /\ pc["can"] \in {"store", "waitsem"}
  /\ sem = 1 => pc["can"] \in {"store", "waitsem"}

LEMMA SingleNext ==
  ASSUME Single, TypeInv, Flow, [Next]_vars
  PROVE  Reception \/ Numbering \/ Passing \/ Timeout \/ DataCopy \/ Restart \/ Others
<1>1. unraised = {} /\ spurious = 0 /\ PcOK
  BY DEF Single, TypeInv, TypeOK, WorldOK
<1>2. ~DataWakeSpuriously
  BY <1>1 DEF DataWakeSpuriously, Single
<1>3. PingStep => PingTop \/ PingSleep
  <2>1. ~PingRaise
    BY <1>1 DEF PingRaise
  <2>2. /\ ~PingNumber /\ ~PingTakeBuf /\ ~PingPlace /\ ~LockEventno("ping")
        /\ ~WriteEventno("ping") /\ ~Store("ping") /\ ~StoreFails("ping")
        /\ ~WaitSem("ping") /\ ~Clear("ping")
    BY DEF Flow, PingNumber, PingTakeBuf, PingPlace, LockEventno, Acquire,
         WriteEventno, WriteBack, Store, StoreFails, WaitSem, TakeSem, Clear, Goto
  <2> QED BY <2>1, <2>2 DEF PingStep
<1>4. CanStep => Reception \/ Numbering \/ Passing
  BY DEF CanStep, StoreFails, Single, Reception, Numbering, Passing
<1>5. CASE Next
  BY <1>2, <1>3, <1>4, <1>5 DEF Next, DataStep, Reception, Others
<1> QED BY <1>5 DEF Others

LEMMA Moved ==
  ASSUME PcOK, NEW t \in Producers \cup {"data"}, NEW a, NEW b, Goto(t, a, b)
  PROVE  /\ pc[t] = a /\ pc'[t] = b
         /\ \A o \in (Producers \cup {"data"}) \ {t} : pc'[o] = pc[o]
  BY DEF Goto, PcOK

LEMMA CanMoved ==
  ASSUME PcOK, NEW a, NEW b, Goto("can", a, b)
  PROVE  pc["can"] = a /\ pc'["can"] = b /\ pc'["ping"] = pc["ping"] /\ pc'["data"] = pc["data"]
  BY Moved DEF Producers

LEMMA DataMoved ==
  ASSUME PcOK, NEW a, NEW b, Goto("data", a, b)
  PROVE  pc["data"] = a /\ pc'["data"] = b /\ pc'["ping"] = pc["ping"] /\ pc'["can"] = pc["can"]
  BY Moved DEF Producers

LEMMA PingMoved ==
  ASSUME PcOK, NEW a, NEW b, Goto("ping", a, b)
  PROVE  pc'["ping"] = b /\ pc'["data"] = pc["data"] /\ pc'["can"] = pc["can"]
  BY Moved DEF Producers

LEMMA Started ==
  ASSUME pc = Start
  PROVE  pc["can"] = "read" /\ pc["ping"] = "top" /\ pc["data"] = "enter"
  BY DEF Start, Producers

LEMMA Restarted ==
  ASSUME Restart
  PROVE  pc'["can"] = "read" /\ pc'["ping"] = "top" /\ pc'["data"] = "enter"
  BY DEF Start, Producers, Restart

(* Where the signal leaves the threads.                                    *)
LEMMA Signalled ==
  ASSUME PcOK, CanSignal
  PROVE  /\ pc["can"] = "signal" /\ pc'["can"] = "store"
         /\ pc'["ping"] = pc["ping"]
  BY DEF CanSignal, Announce, Woken, PcOK, Producers

LEMMA OthersStill ==
  ASSUME PcOK, Others
  PROVE  /\ UNCHANGED <<buf, count, datalen, alarm, sem, eventno, frame, pkg, from, to, history>>
         /\ pc'["can"] = pc["can"]
         /\ pc'["data"] = pc["data"] \/ pc'["data"] \in {"waiting", "enter"}
         /\ pc'["ping"] = pc["ping"] \/ pc'["ping"] \in {"top", "scan"}
<1> USE DEF state, vars, bufVars, locks, locals, history
<1>1. CASE PingTop
  BY <1>1, PingMoved DEF PingTop
<1>2. CASE PingSleep
  BY <1>2, PingMoved DEF PingSleep
<1>3. CASE DataWait
  BY <1>3, DataMoved DEF DataWait
<1>4. CASE DataDeliver
  BY <1>4, DataMoved DEF DataDeliver
<1>5. CASE UNCHANGED vars
  BY <1>5
<1> QED BY <1>1, <1>2, <1>3, <1>4, <1>5 DEF Others

LEMMA FlowStep ==
  ASSUME Single, TypeInv, Flow, [Next]_vars PROVE Flow'
<1>0. PcOK /\ Flow
  BY DEF TypeInv, TypeOK
<1>1. CASE Reception
  <2>1. sem' = sem /\ pc'["ping"] = pc["ping"] /\ pc'["data"] = pc["data"]
    BY <1>0, <1>1, CanMoved
    DEF Reception, CanRead, CanCopy, CanIncomplete, CanReject, CanShow, CanAccept,
        locks, state, PcOK, Producers
  <2>2. /\ pc["can"] \in {"read", "copy", "check", "show"}
        /\ pc'["can"] \in {"read", "copy", "check", "show", "lock"}
        /\ pc'["can"] \in {"show", "lock"} \/ pc["can"] = "show" => alarm' = FALSE \/ alarm' = alarm
        /\ pc["can"] = "check" /\ pc'["can"] \in {"show", "lock"} => alarm' = FALSE
        /\ pc'["can"] \in {"show", "lock"} => pc["can"] = "check"
    BY <1>0, <1>1, CanMoved
    DEF Reception, CanRead, CanCopy, CanIncomplete, CanReject, CanShow, CanAccept,
        locks, state, PcOK, Producers
  <2> QED BY <1>0, <2>1, <2>2 DEF Flow
<1>2. CASE Numbering
  <2>1. /\ sem' = sem /\ pc'["ping"] = pc["ping"] /\ pc'["data"] = pc["data"]
        /\ alarm' = alarm
        /\ pc["can"] \in {"lock", "number", "write"}
        /\ pc'["can"] \in {"number", "write", "signal"}
    BY <1>0, <1>2, CanMoved
    DEF Numbering, LockEventno, Acquire, CanNumber, WriteEventno, WriteBack, locks
  <2> QED BY <1>0, <2>1 DEF Flow
<1>3. CASE CanSignal
  <2>1. sem' = sem /\ alarm' = alarm
    BY <1>3 DEF CanSignal, Announce, locks
  <2> QED BY <1>0, <1>3, <2>1, Signalled DEF Flow
<1>4. CASE Store("can")
  BY <1>0, <1>4, CanMoved DEF Store, Flow, locks
<1>5. CASE WaitSem("can")
  BY <1>0, <1>5, CanMoved DEF WaitSem, TakeSem, Flow
<1>6. CASE Clear("can")
  BY <1>0, <1>6, CanMoved DEF Clear, Return, Flow, locks
<1>7. CASE CanRespond
  BY <1>0, <1>7, CanMoved DEF CanRespond, Flow
<1>8. CASE Timeout
  BY <1>0, <1>8 DEF Timeout, Flow, locks
<1>9. CASE DataCopy
  BY <1>0, <1>9, DataMoved DEF DataCopy, TakeCopy, Flow
<1>10. CASE Restart
  <2>1. alarm' = FALSE /\ sem' = 0
    BY <1>10 DEF Restart
  <2> QED BY <1>10, <2>1, Restarted DEF Flow
<1>11. CASE Others
  BY <1>0, <1>11, OthersStill DEF Flow
<1> QED BY <1>1, <1>2, <1>3, <1>4, <1>5, <1>6, <1>7, <1>8, <1>9, <1>10, <1>11,
           SingleNext DEF Passing
-------------------------------------------------------------------------------
(* Sequences of cells and of copies.                                       *)
LEMMA ToSetAppend ==
  ASSUME NEW S, NEW q \in Seq(S), NEW e \in S
  PROVE  ToSet(Append(q, e)) = ToSet(q) \cup {e}
<1>1. \A x \in ToSet(Append(q, e)) : x \in ToSet(q) \cup {e}
  BY Appended DEF ToSet
<1>2. \A x \in ToSet(q) \cup {e} : x \in ToSet(Append(q, e))
  BY Appended DEF ToSet
<1> QED BY <1>1, <1>2

LEMMA Joined ==
  ASSUME NEW S, NEW q \in Seq(S), NEW r \in Seq(S)
  PROVE  /\ q \o r \in Seq(S) /\ Len(q \o r) = Len(q) + Len(r)
         /\ Len(q) \in Nat /\ Len(r) \in Nat
         /\ \A i \in 1..Len(q) : (q \o r)[i] = q[i]
         /\ \A i \in 1..Len(r) : (q \o r)[Len(q) + i] = r[i]
<1>1. Len(q) \in Nat /\ Len(r) \in Nat
  OBVIOUS
<1>2. q \o r \in Seq(S) /\ Len(q \o r) = Len(q) + Len(r)
  BY ConcatProperties
<1>3. \A i \in 1..Len(q) + Len(r) :
        (q \o r)[i] = IF i <= Len(q) THEN q[i] ELSE r[i - Len(q)]
  BY ConcatProperties
<1>4. ASSUME NEW i \in 1..Len(q) PROVE (q \o r)[i] = q[i]
  <2>1. i \in 1..Len(q) + Len(r) /\ i <= Len(q)
    BY <1>1
  <2> QED BY <1>3, <2>1, Zenon
<1>5. ASSUME NEW i \in 1..Len(r) PROVE (q \o r)[Len(q) + i] = r[i]
  <2> DEFINE k == Len(q) + i
  <2>1. k \in 1..Len(q) + Len(r) /\ ~(k <= Len(q)) /\ k - Len(q) = i
    BY <1>1
  <2> HIDE DEF k
  <2>2. (q \o r)[k] = r[i]
    BY <1>3, <2>1, Zenon
  <2> QED BY <2>2 DEF k
<1> QED BY <1>1, <1>2, <1>4, <1>5

LEMMA ToSetConcat ==
  ASSUME NEW S, NEW q \in Seq(S), NEW r \in Seq(S)
  PROVE  ToSet(q \o r) = ToSet(q) \cup ToSet(r)
<1>1. /\ q \o r \in Seq(S) /\ Len(q \o r) = Len(q) + Len(r)
      /\ Len(q) \in Nat /\ Len(r) \in Nat
      /\ \A i \in 1..Len(q) : (q \o r)[i] = q[i]
      /\ \A i \in 1..Len(r) : (q \o r)[Len(q) + i] = r[i]
  BY Joined
<1>2. \A x \in ToSet(q \o r) : x \in ToSet(q) \cup ToSet(r)
  <2> SUFFICES ASSUME NEW i \in 1..(Len(q) + Len(r))
               PROVE  (q \o r)[i] \in ToSet(q) \cup ToSet(r)
    BY <1>1 DEF ToSet
  <2>1. CASE i <= Len(q)
    BY <1>1, <2>1 DEF ToSet
  <2>2. CASE i > Len(q)
    <3>1. i - Len(q) \in 1..Len(r) /\ Len(q) + (i - Len(q)) = i
      BY <1>1, <2>2
    <3> QED BY <1>1, <3>1 DEF ToSet
  <2> QED BY <1>1, <2>1, <2>2
<1>3. DOMAIN (q \o r) = 1..(Len(q) + Len(r)) /\ DOMAIN q = 1..Len(q) /\ DOMAIN r = 1..Len(r)
  BY <1>1
<1>4. ASSUME NEW i \in DOMAIN q PROVE q[i] \in ToSet(q \o r)
  <2>1. i \in DOMAIN (q \o r) /\ (q \o r)[i] = q[i]
    BY <1>1, <1>3
  <2> QED BY <2>1 DEF ToSet
<1>5. ASSUME NEW i \in DOMAIN r PROVE r[i] \in ToSet(q \o r)
  <2>1. Len(q) + i \in DOMAIN (q \o r) /\ (q \o r)[Len(q) + i] = r[i]
    BY <1>1, <1>3
  <2> QED BY <2>1, Zenon DEF ToSet
<1>6. \A x \in ToSet(q) \cup ToSet(r) : x \in ToSet(q \o r)
  BY <1>4, <1>5, Zenon DEF ToSet
<1> QED BY <1>2, <1>6

LEMMA CopyCells ==
  ASSUME BufOK, NEW m \in 1..2, NEW n \in 0..Cap
  PROVE  /\ SubSeq(buf, m, n) \in Seq(Cells)
         /\ Len(SubSeq(buf, m, n)) = IF m <= n THEN n - m + 1 ELSE 0
         /\ \A i \in 1..Len(SubSeq(buf, m, n)) :
              /\ i + m - 1 \in 1..Cap
              /\ SubSeq(buf, m, n)[i] = buf[i + m - 1]
<1>1. buf \in [1..Cap -> Cells] /\ Cap \in Nat
  BY ConstantsAssumption DEF BufOK
<1>2. buf \in Seq(Cells) /\ Len(buf) = Cap
  BY <1>1
<1>3. \A i \in m..n : buf[i] \in Cells
  BY <1>1
<1> QED BY <1>1, <1>2, <1>3, SubSeqProperties

LEMMA CopySet ==
  ASSUME BufOK, NEW m \in 1..2, NEW n \in 0..Cap
  PROVE  \A c \in ToSet(SubSeq(buf, m, n)) : \E i \in 1..Cap : c = buf[i]
<1>1. SubSeq(buf, m, n) \in Seq(Cells)
  BY CopyCells
<1>2. DOMAIN SubSeq(buf, m, n) = 1..Len(SubSeq(buf, m, n))
  BY <1>1
<1> QED BY <1>2, CopyCells DEF ToSet

LEMMA HistorySets ==
  ASSUME HistoryOK
  PROVE  /\ \A c \in ToSet(stored) : c \in Cells
         /\ \A u \in ToSet(uploads) : u \in Seq(Cells) /\ \A c \in ToSet(u) : c \in Cells
<1>1. \A S, q : q \in Seq(S) => \A x \in ToSet(q) : x \in S
  BY DEF ToSet
<1> QED BY <1>1 DEF HistoryOK
-------------------------------------------------------------------------------
(* Numbers: a cell has one above eventno.txt only between the numbering    *)
(* and the write, when nobody copies or stores.                            *)
NumbersInBuffer ==
  \A i \in 1..Cap : \/ buf[i].no <= eventno
                    \/ pc["can"] = "write" /\ buf[i].no <= to["can"]
Durable == frame.no = 0 /\ NumbersInBuffer /\ NumbersDurable

LEMMA EmptyNumbers ==
  ASSUME NEW n \in Nat PROVE Zero.no = 0 /\ \A i \in 1..Cap : Empty[i].no <= n
  BY DEF Zero, Cell, Empty

LEMMA DurableStill ==
  ASSUME TypeInv, Durable, UNCHANGED <<buf, eventno, frame, stored, uploads>>,
         pc["can"] # "write" \/ (pc'["can"] = "write" /\ to' = to)
  PROVE  Durable'
  BY DEF Durable, NumbersInBuffer, NumbersDurable

LEMMA DurableCleared ==
  ASSUME Single, TypeInv, Durable, buf' = Empty, frame' = frame \/ frame' = Zero,
         UNCHANGED <<eventno, stored, uploads>>
  PROVE  Durable'
<1>1. eventno \in Nat
  BY SingleNumbers
<1>2. frame'.no = 0 /\ \A i \in 1..Cap : buf'[i].no <= eventno
  BY <1>1, EmptyNumbers DEF Durable
<1> QED BY <1>2 DEF Durable, NumbersInBuffer, NumbersDurable

LEMMA DurableReception ==
  ASSUME Single, TypeInv, Durable, Reception PROVE Durable'
<1>0. /\ PcOK /\ BufOK /\ eventno \in Nat /\ frame \in Cells
      /\ pc["can"] = "copy" => count < Cap
  BY SingleNumbers DEF TypeInv, TypeOK, LocalsOK
<1> USE DEF bufVars, locks, locals, history, state
<1>1. CASE CanRead
  <2>1. frame'.no = 0
    BY <1>1 DEF CanRead, SendFrame, Cell
  <2>2. UNCHANGED <<buf, eventno, stored, uploads>> /\ pc["can"] = "read"
    BY <1>0, <1>1, CanMoved DEF CanRead
  <2> QED BY <2>1, <2>2 DEF Durable, NumbersInBuffer, NumbersDurable
<1>2. CASE CanCopy
  <2>1. /\ buf' = [buf EXCEPT ![count + 1] = frame]
        /\ UNCHANGED <<eventno, frame, stored, uploads>>
        /\ pc["can"] = "copy"
    BY <1>0, <1>2, CanMoved DEF CanCopy
  <2>2. \A i \in 1..Cap : buf'[i] = buf[i] \/ buf'[i] = frame
    BY <1>0, <2>1 DEF BufOK
  <2>3. \A i \in 1..Cap : buf'[i].no <= eventno
    BY <1>0, <2>1, <2>2 DEF Durable, NumbersInBuffer
  <2> QED BY <2>1, <2>3 DEF Durable, NumbersInBuffer, NumbersDurable
<1>3. CASE CanIncomplete
  BY <1>0, <1>3, CanMoved, DurableStill DEF CanIncomplete
<1>4. CASE CanReject
  BY <1>0, <1>4, CanMoved, DurableStill DEF CanReject
<1>5. CASE CanAccept
  BY <1>0, <1>5, DurableStill DEF CanAccept
<1>6. CASE CanShow
  BY <1>6, DurableCleared DEF CanShow, ClearBuf
<1> QED BY <1>1, <1>2, <1>3, <1>4, <1>5, <1>6 DEF Reception

LEMMA DurableNumbering ==
  ASSUME Single, TypeInv, NumInv, Durable, Numbering PROVE Durable'
<1>0. /\ PcOK /\ BufOK /\ LocalsOK /\ HistoryOK /\ eventno \in Nat
      /\ to["can"] \in Nat
  BY SingleNumbers DEF TypeInv, TypeOK
<1>1. CASE LockEventno("can")
  BY <1>0, <1>1, CanMoved, DurableStill
  DEF LockEventno, Acquire, bufVars, locals, history
<1>2. CASE CanNumber
  <2> DEFINE e == EventCount(buf)
  <2>1. /\ pc["can"] = "number" /\ pc'["can"] = "write"
        /\ to'["can"] = eventno + e
        /\ buf' = [i \in 1..Cap |-> IF i \in 2..(1 + e)
                                    THEN [buf[i] EXCEPT !.no = eventno + i - 1]
                                    ELSE buf[i]]
        /\ UNCHANGED <<eventno, frame, stored, uploads>>
    BY <1>0, <1>2, CanMoved DEF CanNumber, LocalsOK, Producers, locks, history
  <2>2. e \in Nat
    BY <1>0, EventCountType
  <2> HIDE DEF e
  <2>3. ASSUME NEW i \in 1..Cap
        PROVE  buf'[i].no <= eventno \/ buf'[i].no <= eventno + e
    <3>1. buf[i] \in Cells /\ buf[i].no <= eventno
      BY <1>0, <2>1 DEF BufOK, Durable, NumbersInBuffer
    <3>2. CASE i \in 2..(1 + e)
      <4>1. buf'[i] = [buf[i] EXCEPT !.no = eventno + i - 1]
        BY <2>1, <3>2
      <4>2. buf'[i].no = eventno + i - 1
        BY <3>1, <4>1 DEF Cells
      <4> QED BY <1>0, <2>2, <3>2, <4>2
    <3>3. CASE i \notin 2..(1 + e)
      <4>1. buf'[i] = buf[i]
        BY <2>1, <3>3
      <4> QED BY <3>1, <4>1
    <3> QED BY <3>2, <3>3
  <2> QED BY <2>1, <2>3 DEF Durable, NumbersInBuffer, NumbersDurable
<1>3. CASE WriteEventno("can")
  <2>1. /\ pc["can"] = "write" /\ eventno' = to["can"]
        /\ UNCHANGED <<buf, frame, stored, uploads>>
    BY <1>0, <1>3, CanMoved DEF WriteEventno, WriteBack, bufVars, locals
  <2>2. eventno <= eventno'
    BY <2>1 DEF NumInv, ReadIsCurrent, Producers
  <2>3. \A c \in Cells : c.no \in Nat
    BY DEF Cells
  <2>4. \A i \in 1..Cap : buf[i] \in Cells
    BY <1>0 DEF BufOK
  <2>5. \A i \in 1..Cap : buf'[i].no <= eventno'
    BY <1>0, <2>1, <2>2, <2>3, <2>4 DEF Durable, NumbersInBuffer
  <2>6. \A c \in Cells : c.no <= eventno => c.no <= eventno'
    BY <1>0, <2>1, <2>2, <2>3
  <2>7. NumbersDurable'
    BY <1>0, <2>1, <2>6, HistorySets DEF Durable, NumbersDurable
  <2> QED BY <2>1, <2>5, <2>7 DEF Durable, NumbersInBuffer
<1> QED BY <1>1, <1>2, <1>3 DEF Numbering

LEMMA DurablePassing ==
  ASSUME Single, TypeInv, Durable, Passing PROVE Durable'
<1>0. PcOK /\ BufOK /\ HistoryOK
  BY DEF TypeInv, TypeOK
<1> USE DEF bufVars, locks, locals, history
<1>1. CASE CanSignal
  BY <1>0, <1>1, Signalled, DurableStill DEF CanSignal, Announce
<1>2. CASE Store("can")
  <2> DEFINE new == EventCells(buf)
  <2>1. /\ stored' = stored \o new /\ pc["can"] = "store"
        /\ UNCHANGED <<buf, eventno, frame, uploads>>
    BY <1>0, <1>2, CanMoved DEF Store
  <2>2. 1 + EventCount(buf) \in 0..Cap
    BY <1>0, EventCountType, ConstantsAssumption
  <2>3. new \in Seq(Cells) /\ \A c \in ToSet(new) : \E i \in 1..Cap : c = buf[i]
    BY <1>0, <2>2, CopyCells, CopySet DEF EventCells
  <2> HIDE DEF new
  <2>4. ToSet(stored') = ToSet(stored) \cup ToSet(new)
    BY <1>0, <2>1, <2>3, ToSetConcat DEF HistoryOK
  <2>5. \A c \in ToSet(new) : c.no <= eventno
    BY <2>1, <2>3 DEF Durable, NumbersInBuffer
  <2> QED BY <2>1, <2>4, <2>5 DEF Durable, NumbersInBuffer, NumbersDurable
<1>3. CASE WaitSem("can")
  BY <1>0, <1>3, CanMoved, DurableStill DEF WaitSem, TakeSem
<1>4. CASE Clear("can")
  BY <1>4, DurableCleared DEF Clear, ClearBuf
<1>5. CASE CanRespond
  BY <1>0, <1>5, CanMoved, DurableStill DEF CanRespond
<1> QED BY <1>1, <1>2, <1>3, <1>4, <1>5 DEF Passing

LEMMA DurableCopy ==
  ASSUME TypeInv, Flow, Durable, DataCopy PROVE Durable'
<1>0. PcOK /\ BufOK /\ HistoryOK
  BY DEF TypeInv, TypeOK
<1>1. /\ pc["can"] # "write" /\ pc'["can"] = pc["can"]
      /\ UNCHANGED <<buf, eventno, frame, stored>>
  BY <1>0, DataMoved DEF DataCopy, TakeCopy, Flow, bufVars, locals
<1>2. PICK len \in Lengths(buf[1]) : uploads' = Append(uploads, SubSeq(buf, 1, len))
  BY DEF DataCopy, TakeCopy
<1>3. len \in 0..Cap
  BY <1>0, LengthsType DEF BufOK
<1> DEFINE new == SubSeq(buf, 1, len)
<1>4. new \in Seq(Cells) /\ \A c \in ToSet(new) : \E i \in 1..Cap : c = buf[i]
  BY <1>0, <1>3, CopyCells, CopySet
<1> HIDE DEF new
<1>5. ToSet(uploads') = ToSet(uploads) \cup {new}
  <2>1. uploads \in Seq(Seq(Cells)) /\ uploads' = Append(uploads, new)
    BY <1>0, <1>2 DEF HistoryOK, new
  <2>2. new \in Seq(Cells)
    BY <1>4
  <2> DEFINE S == Seq(Cells)
  <2>3. uploads \in Seq(S) /\ new \in S
    BY <2>1, <2>2
  <2> HIDE DEF S
  <2>4. ToSet(Append(uploads, new)) = ToSet(uploads) \cup {new}
    BY <2>3, ToSetAppend
  <2> QED BY <2>1, <2>4
<1>6. \A c \in ToSet(new) : c.no <= eventno
  BY <1>1, <1>4 DEF Durable, NumbersInBuffer
<1> QED BY <1>1, <1>5, <1>6 DEF Durable, NumbersInBuffer, NumbersDurable

LEMMA DurableStep ==
  ASSUME Single, TypeInv, NumInv, Flow, Durable, [Next]_vars PROVE Durable'
<1>0. PcOK
  BY DEF TypeInv, TypeOK
<1>1. CASE Timeout
  BY <1>1, DurableCleared DEF Timeout, ClearBuf, locks, locals, history
<1>2. CASE Restart
  BY <1>2, DurableCleared DEF Restart, ClearBuf, history
<1>3. CASE Others
  BY <1>0, <1>3, OthersStill, DurableStill DEF history
<1> QED BY <1>1, <1>2, <1>3, SingleNext, DurableReception, DurableNumbering,
           DurablePassing, DurableCopy

LEMMA InitSingle == Single /\ Init => Flow /\ Durable
<1> SUFFICES ASSUME Single, Init PROVE Flow /\ Durable
  OBVIOUS
<1>1. Flow
  BY Started DEF Init, Flow
<1>2. frame.no = 0 /\ \A i \in 1..Cap : buf[i].no <= eventno
  BY EmptyNumbers, ConstantsAssumption DEF Init, Single
<1>3. NumbersDurable
  BY DEF Init, NumbersDurable, ToSet
<1> QED BY <1>1, <1>2, <1>3 DEF Durable, NumbersInBuffer

(***************************************************************************)
(* With pthread_can_rcv as the only producer, a number the server or the   *)
(* database has seen is in eventno.txt, and so is never given out again.   *)
(***************************************************************************)
THEOREM NumbersDurableCorrect == Single /\ Spec => []NumbersDurable
<1> SUFFICES ASSUME Single PROVE Spec => []NumbersDurable
  OBVIOUS
<1> DEFINE Inv == TypeInv /\ NumInv /\ Flow /\ Durable
<1>1. Init => Inv
  BY TypeInit, NumInit, InitSingle
<1>2. Inv /\ [Next]_vars => Inv'
  BY TypeStep, NumStep, FlowStep, DurableStep
<1>3. Inv => NumbersDurable
  BY DEF Durable
<1> QED BY <1>1, <1>2, <1>3, PTL DEF Spec
-------------------------------------------------------------------------------
(* The package pthread_can_rcv has accepted stays in the buffer, whole,    *)
(* until it is cleared, which is after the store and the copy.             *)
InHand == {"lock", "number", "write", "signal", "store", "waitsem", "clear"}
HeldWhole(p) ==
  p \in CanPackages /\ \A i \in 1..(1 + Events[p]) : buf[i].pkg = p /\ buf[i].slot = i - 1
IsStored(p) == \E c \in ToSet(stored) : c.pkg = p
IsCopied(p) == \E u \in ToSet(uploads) : u[1].pkg = p

Kept ==
  /\ pc["can"] \in InHand => HeldWhole(pkg["can"])
  /\ pc["can"] \in {"waitsem", "clear", "respond"} => IsStored(pkg["can"])
  /\ sem = 1 \/ pc["can"] \in {"clear", "respond"} => IsCopied(pkg["can"])
  /\ AnsweredIsKept

LEMMA PackageSize ==
  ASSUME NEW p \in CanPackages
  PROVE  Events[p] \in Nat \ {0} /\ 1 + Events[p] \in 2..Cap
  BY ConstantsAssumption DEF Packages

LEMMA KeptReception ==
  ASSUME Single, TypeInv, Flow, Kept, Reception PROVE Kept'
<1>0. PcOK /\ BufOK /\ LocalsOK
  BY DEF TypeInv, TypeOK
<1>1. /\ UNCHANGED <<sem, stored, uploads, answered>>
      /\ pc["can"] \in {"read", "copy", "check", "show"}
      /\ pc'["can"] \in {"read", "copy", "check", "show"} \/ CanAccept
  BY <1>0, CanMoved
  DEF Reception, CanRead, CanCopy, CanIncomplete, CanReject, CanShow, CanAccept,
      locks, state, history
<1>2. sem # 1
  BY <1>1 DEF Flow
<1>3. AnsweredIsKept'
  BY <1>1 DEF Kept, AnsweredIsKept
<1>4. CASE ~CanAccept
  BY <1>1, <1>2, <1>3, <1>4 DEF Kept, InHand
<1>5. CASE CanAccept
  <2> DEFINE p == buf[1].pkg
  <2>1. /\ CrcOk(buf, datalen) /\ buf' = buf /\ pkg' = [pkg EXCEPT !["can"] = p]
        /\ pc'["can"] \in {"lock", "show"}
    BY <1>0, <1>5 DEF CanAccept, PcOK, Producers, bufVars
  <2>2. pkg'["can"] = p
    BY <1>0, <2>1 DEF LocalsOK, Producers
  <2>3. p \in CanPackages
    <3>1. buf[1] \in Cells
      BY <1>0, ConstantsAssumption DEF BufOK
    <3> QED BY <2>1, <3>1 DEF CrcOk, Cells, Packages, Single
  <2>4. \A i \in 1..(1 + Events[p]) : buf'[i].pkg = p /\ buf'[i].slot = i - 1
    BY <2>1, <2>3 DEF CrcOk
  <2> HIDE DEF p
  <2>5. HeldWhole(pkg["can"])'
    BY <2>2, <2>3, <2>4 DEF HeldWhole
  <2>6. sem' # 1 /\ ~(pc'["can"] \in {"waitsem", "clear", "respond"})
    BY <1>1, <1>2, <2>1
  <2> QED BY <1>3, <2>5, <2>6 DEF Kept
<1> QED BY <1>4, <1>5

LEMMA KeptNumbering ==
  ASSUME TypeInv, Flow, Kept, Numbering PROVE Kept'
<1>0. PcOK /\ BufOK
  BY DEF TypeInv, TypeOK
<1>1. /\ UNCHANGED <<sem, stored, uploads, answered, pkg>>
      /\ pc["can"] \in {"lock", "number", "write"}
      /\ pc'["can"] \in {"number", "write", "signal"}
  BY <1>0, CanMoved
  DEF Numbering, LockEventno, Acquire, CanNumber, WriteEventno, WriteBack, locks,
      locals, history
<1>2. \A i \in 1..Cap : buf'[i].pkg = buf[i].pkg /\ buf'[i].slot = buf[i].slot
  <2>1. CASE CanNumber
    <3> SUFFICES ASSUME NEW i \in 1..Cap
                 PROVE  buf'[i].pkg = buf[i].pkg /\ buf'[i].slot = buf[i].slot
      OBVIOUS
    <3>1. buf[i] \in Cells
      BY <1>0 DEF BufOK
    <3>2. buf'[i] = buf[i] \/ buf'[i] = [buf[i] EXCEPT !.no = eventno + i - 1]
      BY <2>1 DEF CanNumber
    <3> QED BY <3>1, <3>2 DEF Cells
  <2>2. CASE ~CanNumber
    BY <2>2 DEF Numbering, LockEventno, Acquire, WriteEventno, WriteBack, bufVars
  <2> QED BY <2>1, <2>2
<1>3. HeldWhole(pkg["can"])
  BY <1>1 DEF Kept, InHand
<1>4. HeldWhole(pkg["can"])'
  <2> DEFINE p == pkg["can"]
  <2>1. p \in CanPackages /\ \A i \in 1..(1 + Events[p]) : buf[i].pkg = p /\ buf[i].slot = i - 1
    BY <1>3 DEF HeldWhole
  <2>2. \A i \in 1..(1 + Events[p]) : i \in 1..Cap
    <3>1. 1 + Events[p] \in 2..Cap /\ Cap \in Nat
      BY <2>1, PackageSize, ConstantsAssumption
    <3> HIDE DEF p
    <3> QED BY <3>1
  <2>3. \A i \in 1..(1 + Events[p]) : buf'[i].pkg = p /\ buf'[i].slot = i - 1
    BY <1>2, <2>1, <2>2
  <2>4. pkg'["can"] = p
    BY <1>1
  <2> QED BY <2>1, <2>3, <2>4 DEF HeldWhole
<1>5. sem # 1
  BY <1>1 DEF Flow
<1> QED BY <1>1, <1>4, <1>5 DEF Kept, AnsweredIsKept

LEMMA KeptPassing ==
  ASSUME TypeInv, Flow, Kept, Passing PROVE Kept'
<1>0. PcOK /\ BufOK /\ HistoryOK
  BY DEF TypeInv, TypeOK
<1> USE DEF bufVars, locks, locals
<1>1. CASE CanSignal
  <2>1. UNCHANGED <<buf, sem, pkg, stored, uploads, answered>>
    BY <1>1 DEF CanSignal, Announce
  <2> QED BY <1>0, <1>1, <2>1, Signalled DEF Kept, InHand, HeldWhole, AnsweredIsKept, Flow
<1>2. CASE Store("can")
  <2> DEFINE new == EventCells(buf)
             p == pkg["can"]
  <2>1. /\ stored' = stored \o new /\ pc["can"] = "store" /\ pc'["can"] = "waitsem"
        /\ UNCHANGED <<buf, sem, pkg, uploads, answered>>
    BY <1>0, <1>2, CanMoved DEF Store
  <2>2. HeldWhole(p) /\ HeldWhole(p)' /\ p \in CanPackages
    BY <2>1 DEF Kept, InHand, HeldWhole
  <2>3. 1 + Events[p] \in 2..Cap /\ buf[1].pkg = p /\ buf[2].pkg = p /\ p # NoPkg
    BY <2>2, PackageSize, ConstantsAssumption DEF HeldWhole, Packages
  <2>4. new = SubSeq(buf, 2, 1 + Events[p])
    BY <2>3 DEF EventCells, EventCount
  <2> HIDE DEF new
  <2>5. new \in Seq(Cells) /\ Len(new) >= 1 /\ Len(new) \in Nat /\ new[1] = buf[2]
    BY <1>0, <2>3, <2>4, CopyCells
  <2>6. ToSet(stored') = ToSet(stored) \cup ToSet(new)
    BY <1>0, <2>1, <2>5, ToSetConcat DEF HistoryOK
  <2>7. buf[2] \in ToSet(new)
    <3>1. 1 \in DOMAIN new
      BY <2>5
    <3> QED BY <2>5, <3>1 DEF ToSet
  <2>8. IsStored(p)'
    BY <2>1, <2>3, <2>6, <2>7 DEF IsStored
  <2>9. AnsweredIsKept'
    BY <2>1, <2>6 DEF Kept, AnsweredIsKept
  <2>10. sem = 1 => IsCopied(p)'
    BY <2>1 DEF Kept, IsCopied
  <2> QED BY <2>1, <2>2, <2>8, <2>9, <2>10 DEF Kept
<1>3. CASE WaitSem("can")
  <2>1. /\ pc["can"] = "waitsem" /\ pc'["can"] = "clear" /\ sem > 0 /\ sem' = sem - 1
        /\ UNCHANGED <<buf, pkg, stored, uploads, answered>>
    BY <1>0, <1>3, CanMoved DEF WaitSem, TakeSem, history
  <2>2. sem = 1
    BY <2>1 DEF Flow
  <2> QED BY <2>1, <2>2 DEF Kept, InHand, HeldWhole, IsStored, IsCopied, AnsweredIsKept
<1>4. CASE Clear("can")
  <2>1. /\ pc["can"] = "clear" /\ pc'["can"] = "respond"
        /\ UNCHANGED <<sem, pkg, stored, uploads, answered>>
    BY <1>0, <1>4, CanMoved DEF Clear, Return, history
  <2> QED BY <2>1 DEF Kept, InHand, IsStored, IsCopied, AnsweredIsKept
<1>5. CASE CanRespond
  <2>1. /\ pc["can"] = "respond" /\ pc'["can"] = "read"
        /\ answered' = answered \cup {pkg["can"]}
        /\ UNCHANGED <<sem, pkg, stored, uploads>>
    BY <1>0, <1>5, CanMoved DEF CanRespond
  <2>2. IsStored(pkg["can"]) /\ IsCopied(pkg["can"]) /\ AnsweredIsKept
    BY <2>1 DEF Kept
  <2>3. AnsweredIsKept'
    BY <2>1, <2>2 DEF AnsweredIsKept, IsStored, IsCopied
  <2>4. sem # 1
    BY <2>1 DEF Flow
  <2> QED BY <2>1, <2>3, <2>4 DEF Kept, InHand
<1> QED BY <1>1, <1>2, <1>3, <1>4, <1>5 DEF Passing

\* What the server thread copies is the package, and all of it.
LEMMA TheCopy ==
  ASSUME TypeInv, Flow, Kept, DataCopy
  PROVE  LET p == pkg["can"]
             new == SubSeq(buf, 1, 1 + Events[p])
         IN  /\ HeldWhole(p) /\ new \in Seq(Cells) /\ Len(new) = 1 + Events[p]
             /\ \A i \in 1..(1 + Events[p]) : new[i] = buf[i]
             /\ uploads' = Append(uploads, new)
             /\ ToSet(uploads') = ToSet(uploads) \cup {new}
             /\ new # <<>> /\ CrcOk(new, Len(new))
<1> DEFINE p == pkg["can"]
           new == SubSeq(buf, 1, 1 + Events[p])
<1>0. PcOK /\ BufOK /\ HistoryOK
  BY DEF TypeInv, TypeOK
<1>1. pc["data"] = "woken"
  BY <1>0, DataMoved DEF DataCopy, TakeCopy
<1>2. HeldWhole(p) /\ p \in CanPackages
  BY <1>1 DEF Flow, Kept, InHand, HeldWhole
<1>3. 1 + Events[p] \in 2..Cap /\ buf[1].pkg = p /\ buf[1].slot = 0 /\ p # NoPkg
  BY <1>2, PackageSize, ConstantsAssumption DEF HeldWhole, Packages
<1>4. Lengths(buf[1]) = {1 + Events[p]}
  BY <1>3 DEF Lengths
<1>5. uploads' = Append(uploads, new) /\ uploads \in Seq(Seq(Cells))
  BY <1>0, <1>4 DEF DataCopy, TakeCopy, HistoryOK
<1>6. /\ new \in Seq(Cells) /\ Len(new) = 1 + Events[p]
      /\ \A i \in 1..(1 + Events[p]) : new[i] = buf[i]
  BY <1>0, <1>3, CopyCells
<1> HIDE DEF new
<1>7. ToSet(uploads') = ToSet(uploads) \cup {new}
  <2> DEFINE S == Seq(Cells)
  <2>1. uploads \in Seq(S) /\ new \in S
    BY <1>5, <1>6
  <2> HIDE DEF S
  <2>2. ToSet(Append(uploads, new)) = ToSet(uploads) \cup {new}
    BY <2>1, ToSetAppend
  <2> QED BY <1>5, <2>2
<1>8. 1 \in 1..(1 + Events[p])
  BY <1>3
<1>9. new[1].pkg = p /\ new # <<>>
  BY <1>3, <1>6, <1>8
<1>10. CrcOk(new, Len(new))
  BY <1>2, <1>3, <1>6, <1>9 DEF CrcOk, HeldWhole
<1> QED BY <1>2, <1>5, <1>6, <1>7, <1>9, <1>10 DEF new

LEMMA KeptCopy ==
  ASSUME TypeInv, Flow, Kept, DataCopy PROVE Kept'
<1> DEFINE p == pkg["can"]
           new == SubSeq(buf, 1, 1 + Events[p])
<1>0. PcOK
  BY DEF TypeInv, TypeOK
<1>1. /\ pc["can"] \in {"store", "waitsem"} /\ pc'["can"] = pc["can"]
      /\ UNCHANGED <<buf, pkg, stored, answered>>
  BY <1>0, DataMoved DEF DataCopy, TakeCopy, Flow, bufVars, locals
<1>2. HeldWhole(p) /\ 1 + Events[p] \in 2..Cap
  BY TheCopy, PackageSize DEF HeldWhole
<1>3. 1 \in 1..(1 + Events[p]) /\ ToSet(uploads') = ToSet(uploads) \cup {new}
      /\ new[1] = buf[1] /\ buf[1].pkg = p
  BY <1>2, TheCopy DEF HeldWhole
<1> HIDE DEF new
<1>4. IsCopied(p)'
  BY <1>1, <1>3 DEF IsCopied
<1>5. AnsweredIsKept'
  BY <1>1, <1>3 DEF Kept, AnsweredIsKept
<1>6. HeldWhole(p)'
  BY <1>1, <1>2 DEF HeldWhole
<1> QED BY <1>1, <1>4, <1>5, <1>6 DEF Kept, IsStored

LEMMA KeptStep ==
  ASSUME Single, TypeInv, Flow, Kept, [Next]_vars PROVE Kept'
<1>0. PcOK
  BY DEF TypeInv, TypeOK
<1>1. CASE Timeout
  <2>1. /\ pc["can"] \in {"read", "copy", "check"}
        /\ UNCHANGED <<sem, stored, uploads, answered, pc>>
    BY <1>1 DEF Timeout, Flow, locks, history
  <2> QED BY <2>1 DEF Kept, Flow, InHand, AnsweredIsKept
<1>2. CASE Restart
  <2>1. sem' = 0 /\ UNCHANGED <<stored, uploads, answered>>
    BY <1>2 DEF Restart, history
  <2> QED BY <1>2, <2>1, Restarted DEF Kept, InHand, AnsweredIsKept
<1>3. CASE Others
  <2>1. UNCHANGED <<buf, sem, pkg, stored, uploads, answered>> /\ pc'["can"] = pc["can"]
    BY <1>0, <1>3, OthersStill DEF history
  <2> QED BY <2>1 DEF Kept, HeldWhole, IsStored, IsCopied, AnsweredIsKept
<1> QED BY <1>1, <1>2, <1>3, SingleNext, KeptReception, KeptNumbering,
           KeptPassing, KeptCopy

LEMMA InitKept == Init => Kept
  BY Started DEF Init, Kept, InHand, AnsweredIsKept

(***************************************************************************)
(* With pthread_can_rcv as the only producer, the controller is told that  *)
(* a package has arrived only when an event of it is in the database and   *)
(* the server thread has its copy.                                         *)
(***************************************************************************)
THEOREM AnsweredIsKeptCorrect == Single /\ Spec => []AnsweredIsKept
<1> SUFFICES ASSUME Single PROVE Spec => []AnsweredIsKept
  OBVIOUS
<1> DEFINE Inv == TypeInv /\ Flow /\ Kept
<1>1. Init => Inv
  BY TypeInit, InitSingle, InitKept
<1>2. Inv /\ [Next]_vars => Inv'
  BY TypeStep, FlowStep, KeptStep
<1>3. Inv => AnsweredIsKept
  BY DEF Kept
<1> QED BY <1>1, <1>2, <1>3, PTL DEF Spec
-------------------------------------------------------------------------------
(* Between the numbering and the copy the events in the buffer carry the   *)
(* numbers after from, and the server has been sent none of them.          *)
Carrying == {"write", "signal", "store", "waitsem"}
Unsent == pc["can"] \in {"write", "signal"} \/ pc["data"] = "woken"
CarriesNumbers ==
  /\ FirstEventNo <= from["can"]
  /\ \A i \in 2..(1 + Events[pkg["can"]]) : buf[i].no = from["can"] + i - 1
SentBefore == \A u \in ToSet(uploads) : \A i \in 2..Len(u) : u[i].no <= from["can"]

Ordered ==
  /\ FirstEventNo <= eventno
  /\ pc["can"] \in Carrying => CarriesNumbers
  /\ Unsent => SentBefore
  /\ UploadsWholeInOrder

LEMMA OrderedIdle ==
  ASSUME Ordered, UNCHANGED <<eventno, uploads>>, pc'["can"] \notin Carrying,
         pc'["data"] # "woken"
  PROVE  Ordered'
  BY DEF Ordered, Unsent, Carrying, UploadsWholeInOrder

LEMMA OrderedStill ==
  ASSUME Ordered, UNCHANGED <<buf, from, pkg, uploads>>, FirstEventNo <= eventno',
         pc'["can"] \in Carrying => pc["can"] \in Carrying, Unsent' => Unsent
  PROVE  Ordered'
<1>1. CarriesNumbers => CarriesNumbers'
  BY DEF CarriesNumbers
<1>2. SentBefore => SentBefore'
  BY DEF SentBefore
<1>3. UploadsWholeInOrder'
  BY DEF Ordered, UploadsWholeInOrder
<1> QED BY <1>1, <1>2, <1>3 DEF Ordered

LEMMA OrderedNumbering ==
  ASSUME Single, TypeInv, NumInv, Flow, Kept, Durable, Ordered, Numbering PROVE Ordered'
<1>0. PcOK /\ BufOK /\ LocalsOK /\ HistoryOK /\ eventno \in Nat /\ FirstEventNo \in Nat
  BY SingleNumbers, ConstantsAssumption DEF TypeInv, TypeOK
<1>1. CASE LockEventno("can")
  BY <1>0, <1>1, CanMoved, OrderedIdle
  DEF LockEventno, Acquire, Flow, Carrying, history
<1>2. CASE CanNumber
  <2> DEFINE p == pkg["can"]
  <2>1. /\ pc["can"] = "number" /\ pc'["can"] = "write"
        /\ from'["can"] = eventno /\ pkg'["can"] = p
        /\ buf' = [i \in 1..Cap |->
                     IF i \in 2..(1 + EventCount(buf))
                     THEN [buf[i] EXCEPT !.no = eventno + i - 1] ELSE buf[i]]
        /\ UNCHANGED <<eventno, uploads>>
    BY <1>0, <1>2, CanMoved DEF CanNumber, LocalsOK, Producers, locks, history
  <2>2. HeldWhole(p) /\ p \in CanPackages
    BY <2>1 DEF Kept, InHand, HeldWhole
  <2>3. 1 + Events[p] \in 2..Cap /\ Events[p] \in Nat /\ Cap \in Nat
    BY <2>2, PackageSize, ConstantsAssumption
  <2>4. EventCount(buf) = Events[p]
    BY <2>2, <2>3, ConstantsAssumption DEF HeldWhole, EventCount, Packages
  <2> HIDE DEF p
  <2>5. ASSUME NEW i \in 2..(1 + Events[p]) PROVE buf'[i].no = eventno + i - 1
    <3>1. i \in 1..Cap
      BY <2>3
    <3>2. buf'[i] = [buf[i] EXCEPT !.no = eventno + i - 1]
      BY <2>1, <2>4, <3>1
    <3>3. buf[i] \in Cells
      BY <1>0, <3>1 DEF BufOK
    <3> QED BY <3>2, <3>3 DEF Cells
  <2>6. CarriesNumbers'
    BY <2>1, <2>5 DEF CarriesNumbers, Ordered
  <2>7. ASSUME NEW u \in ToSet(uploads), NEW i \in 2..Len(u) PROVE u[i].no <= eventno
    <3>1. u \in Seq(Cells)
      BY <1>0, HistorySets
    <3>2. i \in DOMAIN u
      BY <3>1
    <3>3. u[i] \in ToSet(u)
      BY <3>2 DEF ToSet
    <3> QED BY <3>3 DEF Durable, NumbersDurable
  <2>8. SentBefore'
    BY <2>1, <2>7 DEF SentBefore
  <2>9. UploadsWholeInOrder'
    BY <2>1 DEF Ordered, UploadsWholeInOrder
  <2> QED BY <2>1, <2>6, <2>8, <2>9 DEF Ordered
<1>3. CASE WriteEventno("can")
  <2>1. /\ pc["can"] = "write" /\ pc'["can"] = "signal" /\ pc'["data"] = pc["data"]
        /\ eventno' = to["can"] /\ UNCHANGED <<buf, from, pkg, uploads>>
    BY <1>0, <1>3, CanMoved DEF WriteEventno, WriteBack, bufVars, locals
  <2>2. eventno <= eventno' /\ eventno' \in Nat
    BY <1>0, <2>1, SingleNumbers DEF NumInv, ReadIsCurrent, Producers
  <2>3. FirstEventNo <= eventno'
    BY <1>0, <2>2 DEF Ordered
  <2> QED BY <2>1, <2>3, OrderedStill DEF Unsent, Carrying
<1> QED BY <1>1, <1>2, <1>3 DEF Numbering

LEMMA OrderedPassing ==
  ASSUME TypeInv, Flow, Ordered, Passing PROVE Ordered'
<1>0. PcOK /\ FirstEventNo <= eventno
  BY DEF TypeInv, TypeOK, Ordered
<1> USE DEF bufVars, locks, locals, history
<1>1. CASE CanSignal
  <2>1. UNCHANGED <<buf, from, pkg, eventno, uploads>>
    BY <1>1 DEF CanSignal, Announce
  <2> QED BY <1>0, <1>1, <2>1, Signalled, OrderedStill DEF Unsent, Carrying
<1>2. CASE Store("can")
  <2>1. /\ pc["can"] = "store" /\ pc'["can"] = "waitsem" /\ pc'["data"] = pc["data"]
        /\ UNCHANGED <<buf, from, pkg, eventno, uploads>>
    BY <1>0, <1>2, CanMoved DEF Store
  <2> QED BY <1>0, <2>1, OrderedStill DEF Unsent, Carrying
<1>3. CASE WaitSem("can")
  <2>1. /\ pc["can"] = "waitsem" /\ pc'["can"] = "clear" /\ pc'["data"] = pc["data"]
        /\ UNCHANGED <<buf, from, pkg, eventno, uploads>>
    BY <1>0, <1>3, CanMoved DEF WaitSem, TakeSem
  <2> QED BY <1>0, <2>1, OrderedStill DEF Unsent, Carrying
<1>4. CASE Clear("can")
  <2>1. /\ pc["can"] = "clear" /\ pc'["can"] = "respond" /\ pc'["data"] = pc["data"]
        /\ UNCHANGED <<eventno, uploads>>
    BY <1>0, <1>4, CanMoved DEF Clear, Return
  <2> QED BY <2>1, OrderedIdle DEF Flow, Carrying
<1>5. CASE CanRespond
  <2>1. /\ pc["can"] = "respond" /\ pc'["can"] = "read" /\ pc'["data"] = pc["data"]
        /\ UNCHANGED <<eventno, uploads>>
    BY <1>0, <1>5, CanMoved DEF CanRespond
  <2> QED BY <2>1, OrderedIdle DEF Flow, Carrying
<1> QED BY <1>1, <1>2, <1>3, <1>4, <1>5 DEF Passing

LEMMA OrderedCopy ==
  ASSUME Single, TypeInv, Flow, Kept, Ordered, DataCopy PROVE Ordered'
<1> DEFINE p == pkg["can"]
           new == SubSeq(buf, 1, 1 + Events[p])
           S == Seq(Cells)
<1>0. PcOK /\ BufOK /\ from["can"] \in Nat /\ uploads \in Seq(S) /\ FirstEventNo \in Nat
  BY SingleNumbers, ConstantsAssumption DEF TypeInv, TypeOK, HistoryOK
<1>1. /\ pc["data"] = "woken" /\ pc'["data"] = "deliver"
      /\ pc["can"] \in {"store", "waitsem"} /\ pc'["can"] = pc["can"]
      /\ UNCHANGED <<buf, pkg, from, eventno>>
  BY <1>0, DataMoved DEF DataCopy, TakeCopy, Flow, bufVars, locals
<1>2. CarriesNumbers /\ SentBefore /\ UploadsWholeInOrder
  BY <1>1 DEF Ordered, Carrying, Unsent
<1>3. /\ new \in S /\ Len(new) = 1 + Events[p]
      /\ \A i \in 1..(1 + Events[p]) : new[i] = buf[i]
      /\ uploads' = Append(uploads, new)
      /\ ToSet(uploads') = ToSet(uploads) \cup {new}
      /\ new # <<>> /\ CrcOk(new, Len(new))
  BY TheCopy
<1>4. Events[p] \in Nat
  BY TheCopy, PackageSize DEF HeldWhole
<1>5. ASSUME NEW i \in 2..Len(new) PROVE new[i].no = from["can"] + i - 1
  <2>1. i \in 1..(1 + Events[p]) /\ i \in 2..(1 + Events[p])
    BY <1>3, <1>4
  <2> QED BY <1>2, <1>3, <2>1 DEF CarriesNumbers
<1> HIDE DEF p, new, S
<1>6. /\ DOMAIN uploads = 1..Len(uploads) /\ Len(uploads) \in Nat
      /\ DOMAIN uploads' = 1..(Len(uploads) + 1)
      /\ \A i \in DOMAIN uploads : uploads'[i] = uploads[i]
      /\ uploads'[Len(uploads) + 1] = new
  BY <1>0, <1>3, Appended
<1>7. /\ \A i \in 2..Len(new) : new[i].no > FirstEventNo
      /\ \A i, j \in 2..Len(new) : i < j => new[i].no < new[j].no
  BY <1>0, <1>2, <1>3, <1>4, <1>5 DEF CarriesNumbers
<1>8. ASSUME NEW u \in ToSet(uploads')
      PROVE  /\ u # <<>> /\ CrcOk(u, Len(u))
             /\ \A i \in 2..Len(u) : u[i].no > FirstEventNo
             /\ \A i, j \in 2..Len(u) : i < j => u[i].no < u[j].no
  <2>1. CASE u \in ToSet(uploads)
    BY <1>2, <2>1 DEF UploadsWholeInOrder
  <2>2. CASE u = new
    BY <1>3, <1>7, <2>2
  <2> QED BY <1>3, <2>1, <2>2
<1>9. ASSUME NEW i \in DOMAIN uploads', NEW j \in DOMAIN uploads', i < j,
             NEW a \in 2..Len(uploads'[i]), NEW b \in 2..Len(uploads'[j])
      PROVE  uploads'[i][a].no < uploads'[j][b].no
  <2>1. i \in DOMAIN uploads /\ uploads'[i] = uploads[i]
    BY <1>6, <1>9
  <2>2. CASE j \in DOMAIN uploads
    <3>1. uploads'[j] = uploads[j]
      BY <1>6, <2>2
    <3> QED BY <1>2, <1>9, <2>1, <2>2, <3>1 DEF UploadsWholeInOrder
  <2>3. CASE j \notin DOMAIN uploads
    <3>1. j = Len(uploads) + 1 /\ uploads'[j] = new
      BY <1>6, <2>3
    <3>2. b \in 2..Len(new)
      BY <3>1
    <3>3. new[b].no = from["can"] + b - 1 /\ b \in Int /\ b >= 2
      BY <1>3, <1>4, <1>5, <3>2
    <3>4. uploads[i] \in ToSet(uploads) /\ a \in 2..Len(uploads[i])
      BY <2>1 DEF ToSet
    <3>5. uploads[i][a].no <= from["can"]
      BY <1>2, <3>4 DEF SentBefore
    <3>6. uploads[i][a].no \in Nat
      <4>1. uploads[i] \in Seq(Cells)
        BY <1>0, <2>1, <1>6, Appended, <1>3 DEF S
      <4>2. a \in DOMAIN uploads[i]
        BY <3>4, <4>1
      <4>3. uploads[i][a] \in Cells
        BY <4>1, <4>2
      <4> QED BY <4>3 DEF Cells
    <3>7. uploads[i][a].no < new[b].no
      BY <1>0, <3>3, <3>5, <3>6
    <3> QED BY <2>1, <3>1, <3>7
  <2> QED BY <2>2, <2>3
<1>10. UploadsWholeInOrder'
  BY <1>8, <1>9 DEF UploadsWholeInOrder
<1>11. CarriesNumbers'
  BY <1>1, <1>2 DEF CarriesNumbers
<1> QED BY <1>1, <1>10, <1>11 DEF Ordered, Unsent

LEMMA OrderedStep ==
  ASSUME Single, TypeInv, NumInv, Flow, Kept, Durable, Ordered, [Next]_vars
  PROVE  Ordered'
<1>0. PcOK /\ FirstEventNo <= eventno
  BY DEF TypeInv, TypeOK, Ordered
<1>1. CASE Reception
  <2>1. /\ UNCHANGED <<eventno, uploads>> /\ pc'["data"] = pc["data"]
        /\ pc["can"] \in {"read", "copy", "check", "show"}
        /\ pc'["can"] \in {"read", "copy", "check", "show", "lock"}
    BY <1>0, <1>1, CanMoved
    DEF Reception, CanRead, CanCopy, CanIncomplete, CanReject, CanShow, CanAccept,
        locks, state, history, PcOK, Producers
  <2> QED BY <2>1, OrderedIdle DEF Flow, Carrying
<1>2. CASE Timeout
  <2>1. UNCHANGED <<eventno, uploads, pc>> /\ pc["can"] \in {"read", "copy", "check"}
    BY <1>2 DEF Timeout, Flow, locks, history
  <2> QED BY <2>1, OrderedIdle DEF Flow, Carrying
<1>3. CASE Restart
  <2>1. UNCHANGED <<eventno, uploads>>
    BY <1>3 DEF Restart, history
  <2> QED BY <1>3, <2>1, Restarted, OrderedIdle DEF Carrying
<1>4. CASE Others
  <2>1. UNCHANGED <<buf, from, pkg, eventno, uploads>>
    BY <1>0, <1>4, OthersStill DEF history
  <2> QED BY <1>0, <1>4, <2>1, OthersStill, OrderedStill DEF Unsent
<1> QED BY <1>1, <1>2, <1>3, <1>4, SingleNext, OrderedNumbering, OrderedPassing,
           OrderedCopy

LEMMA InitOrdered == Single /\ Init => Ordered
<1> SUFFICES ASSUME Single, Init PROVE Ordered
  OBVIOUS
<1>1. FirstEventNo <= eventno /\ ToSet(uploads) = {} /\ DOMAIN uploads = {}
  BY ConstantsAssumption DEF Init, Single, ToSet
<1>2. pc["can"] = "read" /\ pc["data"] = "enter"
  BY Started DEF Init
<1> QED BY <1>1, <1>2 DEF Ordered, Carrying, Unsent, UploadsWholeInOrder

(***************************************************************************)
(* With pthread_can_rcv as the only producer, every copy the server thread *)
(* takes of buf is one whole package that carries its numbers, and the     *)
(* events reach the server in the order of their numbers.                  *)
(***************************************************************************)
THEOREM UploadsWholeInOrderCorrect == Single /\ Spec => []UploadsWholeInOrder
<1> SUFFICES ASSUME Single PROVE Spec => []UploadsWholeInOrder
  OBVIOUS
<1> DEFINE Inv == TypeInv /\ NumInv /\ Flow /\ Durable /\ Kept /\ Ordered
<1>1. Init => Inv
  BY TypeInit, NumInit, InitSingle, InitKept, InitOrdered
<1>2. Inv /\ [Next]_vars => Inv'
  BY TypeStep, NumStep, FlowStep, DurableStep, KeptStep, OrderedStep
<1>3. Inv => UploadsWholeInOrder
  BY DEF Ordered
<1> QED BY <1>1, <1>2, <1>3, PTL DEF Spec
-------------------------------------------------------------------------------
(* Numbers stand in the buffer only from the numbering to the clearing,    *)
(* and on the events of the package; once the copy has been made, all of   *)
(* them are in it.                                                         *)
Numbered == {"write", "signal", "store", "waitsem", "clear"}
Taken == sem = 1 \/ pc["can"] = "clear"
Marked ==
  \A i \in 1..Cap : buf[i].no # 0 =>
    /\ pc["can"] \in Numbered /\ i \in 2..(1 + Events[pkg["can"]])
    /\ Taken => buf[i] \in CopiedCells

LEMMA MarkedStill ==
  ASSUME Marked, UNCHANGED <<buf, uploads>>,
         pc["can"] \in Numbered => pc'["can"] \in Numbered /\ UNCHANGED pkg,
         Taken' => Taken
  PROVE  Marked'
  BY DEF Marked, CopiedCells

LEMMA MarkedCleared == buf' = Empty => Marked'
  BY DEF Marked, Empty, Zero, Cell

LEMMA MarkedReception ==
  ASSUME TypeInv, Flow, Durable, Marked, Reception PROVE Marked'
<1>0. PcOK /\ BufOK /\ (pc["can"] = "copy" => count < Cap) /\ ~Taken
  <2>1. PcOK /\ BufOK /\ (pc["can"] = "copy" => count < Cap)
    BY DEF TypeInv, TypeOK
  <2> QED BY <2>1, CanMoved DEF Flow, Taken, Reception, CanRead, CanCopy, CanIncomplete,
             CanReject, CanAccept, CanShow
<1>1. /\ pc["can"] \notin Numbered /\ pc'["can"] \notin Numbered
      /\ UNCHANGED <<sem, uploads>> /\ ~Taken'
  BY <1>0, CanMoved
  DEF Reception, CanRead, CanCopy, CanIncomplete, CanReject, CanShow, CanAccept,
      locks, state, PcOK, Producers, history, Numbered, Taken
<1>2. \A i \in 1..Cap : buf[i].no = 0
  BY <1>1 DEF Marked
<1>3. CASE CanCopy
  <2>1. buf' = [buf EXCEPT ![count + 1] = frame] /\ frame.no = 0
    BY <1>3 DEF CanCopy, Durable
  <2>2. \A i \in 1..Cap : buf'[i] = buf[i] \/ buf'[i] = frame
    BY <1>0, <2>1 DEF BufOK
  <2> QED BY <1>2, <2>1, <2>2 DEF Marked
<1>4. CASE CanShow
  BY <1>4, MarkedCleared DEF CanShow, ClearBuf
<1>5. CASE ~CanCopy /\ ~CanShow
  <2>1. buf' = buf
    BY <1>5 DEF Reception, CanRead, CanIncomplete, CanReject, CanAccept, state, bufVars
  <2> QED BY <1>2, <2>1 DEF Marked
<1> QED BY <1>3, <1>4, <1>5

LEMMA MarkedNumbering ==
  ASSUME TypeInv, Flow, Kept, Marked, Numbering PROVE Marked'
<1>0. PcOK /\ BufOK
  BY DEF TypeInv, TypeOK
<1>1. /\ UNCHANGED <<sem, uploads, pkg>>
      /\ pc["can"] \in {"lock", "number", "write"}
      /\ pc'["can"] \in {"number", "write", "signal"} /\ ~Taken'
      /\ CanNumber => pc["can"] = "number" /\ pc'["can"] = "write"
      /\ pc["can"] = "write" => pc'["can"] = "signal"
  BY <1>0, CanMoved
  DEF Numbering, LockEventno, Acquire, CanNumber, WriteEventno, WriteBack, locks,
      locals, history, Flow, Taken
<1>2. CASE CanNumber
  <2>1. HeldWhole(pkg["can"])
    BY <1>1, <1>2 DEF Kept, InHand
  <2>2. EventCount(buf) = Events[pkg["can"]]
    <3>1. pkg["can"] \in CanPackages /\ 1 \in 1..(1 + Events[pkg["can"]])
      BY <2>1, PackageSize DEF HeldWhole
    <3>2. buf[1].pkg = pkg["can"] /\ pkg["can"] # NoPkg
      BY <2>1, <3>1, ConstantsAssumption DEF HeldWhole, Packages
    <3> QED BY <3>2 DEF EventCount
  <2>3. ASSUME NEW i \in 1..Cap, i \notin 2..(1 + Events[pkg["can"]])
        PROVE  buf'[i].no = 0
    <3>1. buf'[i] = buf[i]
      BY <1>2, <2>2, <2>3 DEF CanNumber
    <3> QED BY <1>1, <1>2, <3>1 DEF Marked, Numbered
  <2> QED BY <1>1, <1>2, <2>3 DEF Marked, Numbered
<1>3. CASE ~CanNumber
  <2>1. buf' = buf
    BY <1>3 DEF Numbering, LockEventno, Acquire, WriteEventno, WriteBack, bufVars
  <2> QED BY <1>1, <2>1, MarkedStill DEF Numbered
<1> QED BY <1>2, <1>3

LEMMA MarkedPassing ==
  ASSUME TypeInv, Flow, Marked, Passing PROVE Marked'
<1>0. PcOK
  BY DEF TypeInv, TypeOK
<1> USE DEF bufVars, locks, locals, history
<1>1. CASE CanSignal
  <2>1. UNCHANGED <<buf, sem, pkg, uploads>>
    BY <1>1 DEF CanSignal, Announce
  <2> QED BY <1>0, <1>1, <2>1, Signalled, MarkedStill DEF Numbered, Taken
<1>2. CASE Store("can")
  <2>1. /\ pc["can"] = "store" /\ pc'["can"] = "waitsem"
        /\ UNCHANGED <<buf, sem, pkg, uploads>>
    BY <1>0, <1>2, CanMoved DEF Store
  <2> QED BY <2>1, MarkedStill DEF Numbered, Taken
<1>3. CASE WaitSem("can")
  <2>1. /\ pc["can"] = "waitsem" /\ pc'["can"] = "clear" /\ sem = 1
        /\ UNCHANGED <<buf, pkg, uploads>>
    BY <1>0, <1>3, CanMoved DEF WaitSem, TakeSem, Flow
  <2> QED BY <2>1, MarkedStill DEF Numbered, Taken
<1>4. CASE Clear("can")
  BY <1>4, MarkedCleared DEF Clear, ClearBuf
<1>5. CASE CanRespond
  <2>1. /\ pc["can"] = "respond" /\ pc'["can"] = "read"
        /\ UNCHANGED <<buf, sem, pkg, uploads>>
    BY <1>0, <1>5, CanMoved DEF CanRespond
  <2> QED BY <2>1, MarkedStill DEF Numbered, Taken
<1> QED BY <1>1, <1>2, <1>3, <1>4, <1>5 DEF Passing

LEMMA MarkedCopy ==
  ASSUME TypeInv, Flow, Kept, Marked, DataCopy PROVE Marked'
<1> DEFINE p == pkg["can"]
           new == SubSeq(buf, 1, 1 + Events[p])
<1>0. PcOK
  BY DEF TypeInv, TypeOK
<1>1. pc'["can"] = pc["can"] /\ UNCHANGED <<buf, pkg>>
  BY <1>0, DataMoved DEF DataCopy, TakeCopy, bufVars, locals
<1>2. /\ new \in Seq(Cells) /\ Len(new) = 1 + Events[p]
      /\ \A i \in 1..(1 + Events[p]) : new[i] = buf[i]
      /\ ToSet(uploads') = ToSet(uploads) \cup {new}
      /\ Events[p] \in Nat
  BY TheCopy, PackageSize DEF HeldWhole
<1> HIDE DEF new
<1>3. ASSUME NEW i \in 2..(1 + Events[p]) PROVE buf[i] \in CopiedCells'
  <2>1. i \in DOMAIN new /\ new[i] = buf[i]
    BY <1>2
  <2>2. buf[i] \in ToSet(new)
    BY <2>1 DEF ToSet
  <2> QED BY <1>2, <2>2 DEF CopiedCells
<1> QED BY <1>1, <1>3 DEF Marked

LEMMA MarkedStep ==
  ASSUME Single, TypeInv, Flow, Durable, Kept, Marked, [Next]_vars PROVE Marked'
<1>0. PcOK
  BY DEF TypeInv, TypeOK
<1>1. CASE Timeout
  BY <1>1, MarkedCleared DEF Timeout, ClearBuf
<1>2. CASE Restart
  BY <1>2, MarkedCleared DEF Restart, ClearBuf
<1>3. CASE Others
  BY <1>0, <1>3, OthersStill, MarkedStill DEF history, Taken
<1> QED BY <1>1, <1>2, <1>3, SingleNext, MarkedReception, MarkedNumbering,
           MarkedPassing, MarkedCopy

LEMMA InitMarked == Init => Marked
  BY DEF Init, Marked, Empty, Zero, Cell

\* A step that takes a numbered event out of the buffer is the clearing, or
\* the end of the process.
LEMMA TakenBeforeCleared ==
  ASSUME Single, TypeInv, Flow, Marked, [Next]_vars, restarts' = restarts
  PROVE  NumberedCells(buf) \ NumberedCells(buf') \subseteq CopiedCells
<1>0. PcOK /\ restarts \in Nat
  BY ConstantsAssumption DEF TypeInv, TypeOK, WorldOK
<1>1. ASSUME NEW c \in NumberedCells(buf)
      PROVE  pc["can"] \in Numbered /\ (Taken => c \in CopiedCells)
  BY <1>1 DEF NumberedCells, Marked
<1>2. \/ buf' = buf
      \/ pc["can"] \in {"read", "copy", "check", "show", "number"}
      \/ pc["can"] = "clear"
  <2>1. CASE Reception
    BY <1>0, <2>1, CanMoved
    DEF Reception, CanRead, CanCopy, CanIncomplete, CanReject, CanShow, CanAccept
  <2>2. CASE Numbering
    BY <1>0, <2>2, CanMoved
    DEF Numbering, LockEventno, Acquire, CanNumber, WriteEventno, WriteBack, bufVars
  <2>3. CASE Passing
    BY <1>0, <2>3, CanMoved
    DEF Passing, CanSignal, Announce, Store, WaitSem, TakeSem, Clear, CanRespond, bufVars
  <2>4. CASE Timeout
    BY <2>4 DEF Timeout, Flow
  <2>5. CASE DataCopy
    BY <2>5 DEF DataCopy, TakeCopy, bufVars
  <2>6. ~Restart
    BY <1>0 DEF Restart
  <2>7. CASE Others
    BY <1>0, <2>7, OthersStill
  <2> QED BY <2>1, <2>2, <2>3, <2>4, <2>5, <2>6, <2>7, SingleNext
<1> QED BY <1>1, <1>2 DEF Taken, Numbered

(***************************************************************************)
(* With pthread_can_rcv as the only producer, neither the timeout nor a    *)
(* later frame nor the bzero takes a numbered event out of the buffer that *)
(* the server thread has not copied.                                       *)
(***************************************************************************)
THEOREM ClearedAfterTakenCorrect == Single /\ Spec => ClearedAfterTaken
<1> SUFFICES ASSUME Single PROVE Spec => ClearedAfterTaken
  OBVIOUS
<1> DEFINE Inv == TypeInv /\ NumInv /\ Flow /\ Durable /\ Kept /\ Marked
<1>1. Init => Inv
  BY TypeInit, NumInit, InitSingle, InitKept, InitMarked
<1>2. Inv /\ [Next]_vars => Inv'
  BY TypeStep, NumStep, FlowStep, DurableStep, KeptStep, MarkedStep
<1>3. Inv /\ [Next]_vars =>
        [restarts' = restarts =>
           NumberedCells(buf) \ NumberedCells(buf') \subseteq CopiedCells]_vars
  BY TakenBeforeCleared
<1> QED BY <1>1, <1>2, <1>3, PTL DEF Spec, ClearedAfterTaken
-------------------------------------------------------------------------------
(* The events of the package at hand, and who has them: pthread_can_rcv    *)
(* stores them and the server thread copies them, in either order.         *)
TheEvents == {buf[i] : i \in 2..(1 + Events[pkg["can"]])}
InStep ==
  /\ pc["can"] = "store" /\ sem = 1 => UploadedEvents = ToSet(stored) \cup TheEvents
  /\ pc["can"] = "waitsem" /\ sem = 0 => ToSet(stored) = UploadedEvents \cup TheEvents
  /\ ~(pc["can"] = "store" /\ sem = 1) /\ ~(pc["can"] = "waitsem" /\ sem = 0) =>
       UploadedEvents = ToSet(stored)
StoredBefore ==
  pc["can"] \in {"write", "signal", "store"} =>
    \A c \in ToSet(stored) : c.no <= from["can"]
StoredInOrder ==
  \A i, j \in DOMAIN stored : i < j => stored[i].no < stored[j].no
Agreed == (restarts = 0 => InStep) /\ StoredBefore /\ StoredInOrder

\* What the store adds to the table, which is not empty.
LEMMA TheStore ==
  ASSUME TypeInv, Kept, Store("can")
  PROVE  LET p == pkg["can"]
             new == SubSeq(buf, 2, 1 + Events[p])
         IN  /\ pc["can"] = "store" /\ pc'["can"] = "waitsem" /\ pc'["data"] = pc["data"]
             /\ UNCHANGED <<buf, sem, pkg, from, uploads, restarts, mcu, unsent>>
             /\ HeldWhole(p) /\ Events[p] \in Nat \ {0}
             /\ new \in Seq(Cells) /\ Len(new) = Events[p]
             /\ \A i \in 1..Events[p] : i + 1 \in 1..Cap /\ new[i] = buf[i + 1]
             /\ stored' = stored \o new
             /\ ToSet(new) = TheEvents
             /\ ToSet(stored') = ToSet(stored) \cup TheEvents
<1> DEFINE p == pkg["can"]
           new == SubSeq(buf, 2, 1 + Events[p])
<1>0. PcOK /\ BufOK /\ HistoryOK
  BY DEF TypeInv, TypeOK
<1>1. /\ stored' = stored \o EventCells(buf)
      /\ pc["can"] = "store" /\ pc'["can"] = "waitsem" /\ pc'["data"] = pc["data"]
      /\ UNCHANGED <<buf, sem, pkg, from, uploads, restarts, mcu, unsent>>
  BY <1>0, CanMoved
  DEF Store, bufVars, locks, locals, world, mcuVars, counters
<1>2. HeldWhole(p) /\ p \in CanPackages
  BY <1>1 DEF Kept, InHand, HeldWhole
<1>3. 1 + Events[p] \in 2..Cap /\ Events[p] \in Nat \ {0} /\ buf[1].pkg = p /\ p # NoPkg
  BY <1>2, PackageSize, ConstantsAssumption DEF HeldWhole, Packages
<1>4. EventCells(buf) = new
  BY <1>3 DEF EventCells, EventCount
<1>5. /\ new \in Seq(Cells) /\ Len(new) = Events[p]
      /\ \A i \in 1..Events[p] : i + 1 \in 1..Cap /\ new[i] = buf[i + 1]
  BY <1>0, <1>3, CopyCells
<1>6. TheEvents = {buf[i] : i \in 2..(1 + Events[p])}
  BY DEF TheEvents
<1> HIDE DEF new, p
<1>7. ToSet(new) = TheEvents
  <2>1. ASSUME NEW c \in ToSet(new) PROVE c \in TheEvents
    <3>1. PICK i \in 1..Events[p] : c = new[i]
      BY <1>5 DEF ToSet
    <3>2. i + 1 \in 2..(1 + Events[p]) /\ c = buf[i + 1]
      BY <1>3, <1>5, <3>1
    <3> QED BY <1>6, <3>2
  <2>2. ASSUME NEW c \in TheEvents PROVE c \in ToSet(new)
    <3>1. PICK i \in 2..(1 + Events[p]) : c = buf[i]
      BY <1>6
    <3>2. i - 1 \in 1..Events[p] /\ (i - 1) + 1 = i
      BY <1>3, <3>1
    <3>3. i - 1 \in DOMAIN new /\ c = new[i - 1]
      BY <1>5, <3>1, <3>2
    <3> QED BY <3>3 DEF ToSet
  <2> QED BY <2>1, <2>2
<1>8. ToSet(stored') = ToSet(stored) \cup TheEvents
  BY <1>0, <1>1, <1>4, <1>5, <1>7, ToSetConcat DEF HistoryOK
<1> QED BY <1>1, <1>2, <1>3, <1>4, <1>5, <1>7, <1>8 DEF new, p

\* The copy adds the same events to what the server was sent.
LEMMA EventsCopied ==
  ASSUME TypeInv, Flow, Kept, DataCopy
  PROVE  UploadedEvents' = UploadedEvents \cup TheEvents
<1> DEFINE p == pkg["can"]
           new == SubSeq(buf, 1, 1 + Events[p])
           Tails(U) == UNION {{u[i] : i \in 2..Len(u)} : u \in U}
<1>1. /\ Len(new) = 1 + Events[p] /\ \A i \in 1..(1 + Events[p]) : new[i] = buf[i]
      /\ ToSet(uploads') = ToSet(uploads) \cup {new}
      /\ Events[p] \in Nat
  BY TheCopy, PackageSize DEF HeldWhole
<1> HIDE DEF new
<1>2. {new[i] : i \in 2..Len(new)} = TheEvents
  <2>1. \A i \in 2..Len(new) : new[i] = buf[i]
    BY <1>1
  <2> QED BY <1>1, <2>1 DEF TheEvents
<1>3. Tails(ToSet(uploads')) = Tails(ToSet(uploads)) \cup {new[i] : i \in 2..Len(new)}
  <2> DEFINE T == {new[i] : i \in 2..Len(new)}
  <2>1. ASSUME NEW c \in Tails(ToSet(uploads')) PROVE c \in Tails(ToSet(uploads)) \cup T
    <3>1. PICK u \in ToSet(uploads') : c \in {u[i] : i \in 2..Len(u)}
      BY <2>1
    <3>2. CASE u \in ToSet(uploads)
      BY <3>1, <3>2
    <3>3. CASE u = new
      BY <3>1, <3>3
    <3> QED BY <1>1, <3>2, <3>3
  <2>2. ASSUME NEW c \in T PROVE c \in Tails(ToSet(uploads'))
    BY <1>1, <2>2
  <2>3. ASSUME NEW c \in Tails(ToSet(uploads)) PROVE c \in Tails(ToSet(uploads'))
    <3>1. PICK u \in ToSet(uploads) : c \in {u[i] : i \in 2..Len(u)}
      BY <2>3
    <3> QED BY <1>1, <3>1
  <2> HIDE DEF Tails
  <2> QED BY <2>1, <2>2, <2>3
<1> QED BY <1>2, <1>3 DEF UploadedEvents

LEMMA AgreedStill ==
  ASSUME Agreed, UNCHANGED <<stored, uploads, sem, restarts>>,
         ~(pc["can"] \in {"store", "waitsem"}), ~(pc'["can"] \in {"waitsem"}),
         sem # 1 \/ pc'["can"] # "store",
         pc'["can"] \in {"write", "signal", "store"} =>
           pc["can"] \in {"write", "signal"} /\ UNCHANGED from
  PROVE  Agreed'
  BY DEF Agreed, InStep, StoredBefore, StoredInOrder, UploadedEvents

LEMMA AgreedReception ==
  ASSUME TypeInv, Agreed, Reception PROVE Agreed'
<1>0. PcOK
  BY DEF TypeInv, TypeOK
<1>1. /\ UNCHANGED <<stored, uploads, sem, restarts>>
      /\ pc["can"] \in {"read", "copy", "check", "show"}
      /\ pc'["can"] \in {"read", "copy", "check", "show", "lock"}
  BY <1>0, CanMoved
  DEF Reception, CanRead, CanCopy, CanIncomplete, CanReject, CanShow, CanAccept,
      locks, state, history, world, counters, PcOK, Producers
<1> QED BY <1>1, AgreedStill

LEMMA AgreedNumbering ==
  ASSUME TypeInv, Durable, Agreed, Numbering PROVE Agreed'
<1>0. PcOK /\ LocalsOK
  BY DEF TypeInv, TypeOK
<1>1. /\ UNCHANGED <<stored, uploads, sem, restarts>>
      /\ pc["can"] \in {"lock", "number", "write"}
      /\ pc'["can"] \in {"number", "write", "signal"}
  BY <1>0, CanMoved
  DEF Numbering, LockEventno, Acquire, CanNumber, WriteEventno, WriteBack, locks,
      history, world, counters
<1>2. CASE CanNumber
  <2>1. from'["can"] = eventno
    BY <1>0, <1>2 DEF CanNumber, LocalsOK, Producers
  <2>2. StoredBefore'
    BY <1>1, <2>1 DEF StoredBefore, Durable, NumbersDurable
  <2>3. InStep => InStep'
    BY <1>1 DEF InStep, UploadedEvents
  <2> QED BY <1>1, <2>2, <2>3 DEF Agreed, StoredInOrder
<1>3. CASE ~CanNumber
  <2>1. /\ pc'["can"] \in {"write", "signal", "store"} => pc["can"] \in {"write", "signal"}
        /\ UNCHANGED from
    BY <1>0, <1>3, CanMoved
    DEF Numbering, LockEventno, Acquire, WriteEventno, WriteBack, locals
  <2> QED BY <1>1, <2>1, AgreedStill
<1> QED BY <1>2, <1>3

LEMMA AgreedStore ==
  ASSUME Single, TypeInv, Flow, Kept, Ordered, Agreed, Store("can") PROVE Agreed'
<1> DEFINE p == pkg["can"]
           new == SubSeq(buf, 2, 1 + Events[p])
<1>0. HistoryOK /\ from["can"] \in Nat /\ sem \in {0, 1}
  BY SingleNumbers DEF TypeInv, TypeOK, Flow
<1>1. /\ pc["can"] = "store" /\ pc'["can"] = "waitsem"
      /\ UNCHANGED <<buf, sem, pkg, from, uploads, restarts>>
      /\ Events[p] \in Nat \ {0}
      /\ new \in Seq(Cells) /\ Len(new) = Events[p]
      /\ \A i \in 1..Events[p] : new[i] = buf[i + 1]
      /\ stored' = stored \o new
      /\ ToSet(stored') = ToSet(stored) \cup TheEvents
  BY TheStore
<1>2. restarts' = 0 => InStep'
  <2>1. TheEvents' = TheEvents /\ UploadedEvents' = UploadedEvents
    BY <1>1 DEF TheEvents, UploadedEvents
  <2> QED BY <1>0, <1>1, <2>1 DEF Agreed, InStep
<1>3. ASSUME NEW i \in 1..Events[p] PROVE new[i].no = from["can"] + i
  <2>1. i + 1 \in 2..(1 + Events[p])
    BY <1>1
  <2>2. \A k \in 2..(1 + Events[p]) : buf[k].no = from["can"] + k - 1
    BY <1>1 DEF Ordered, Carrying, CarriesNumbers
  <2>3. buf[i + 1].no = from["can"] + (i + 1) - 1
    BY <2>1, <2>2
  <2>4. new[i] = buf[i + 1]
    BY <1>1
  <2> HIDE DEF new, p
  <2> QED BY <1>0, <2>3, <2>4
<1> HIDE DEF new, p
<1>4. stored \in Seq(Cells)
  BY <1>0 DEF HistoryOK
<1>5. /\ DOMAIN stored' = 1..(Len(stored) + Len(new)) /\ Len(stored) \in Nat
      /\ \A i \in 1..Len(stored) : stored'[i] = stored[i]
      /\ \A i \in 1..Len(new) : stored'[Len(stored) + i] = new[i]
  <2>0. new \in Seq(Cells)
    BY <1>1
  <2>1. /\ stored \o new \in Seq(Cells) /\ Len(stored \o new) = Len(stored) + Len(new)
        /\ Len(stored) \in Nat
        /\ \A i \in 1..Len(stored) : (stored \o new)[i] = stored[i]
        /\ \A i \in 1..Len(new) : (stored \o new)[Len(stored) + i] = new[i]
    BY <1>4, <2>0, Joined
  <2> QED BY <1>1, <2>1
<1>6. \A c \in ToSet(stored) : c.no <= from["can"] /\ c.no \in Nat
  <2>1. \A c \in ToSet(stored) : c.no <= from["can"]
    BY <1>1 DEF Agreed, StoredBefore
  <2>2. \A c \in ToSet(stored) : c \in Cells
    BY <1>0, HistorySets
  <2> QED BY <2>1, <2>2 DEF Cells
<1>7. ASSUME NEW i \in DOMAIN stored', NEW j \in DOMAIN stored', i < j
      PROVE  stored'[i].no < stored'[j].no
  <2>0. i \in Nat /\ j \in Nat /\ i >= 1 /\ j <= Len(stored) + Len(new) /\ Len(new) \in Nat
    BY <1>1, <1>5
  <2>1. CASE j <= Len(stored)
    <3>1. i \in DOMAIN stored /\ j \in DOMAIN stored
      BY <1>4, <1>5, <1>7, <2>0, <2>1
    <3>2. stored'[i] = stored[i] /\ stored'[j] = stored[j]
      BY <1>5, <1>7, <2>0, <2>1
    <3> QED BY <1>7, <3>1, <3>2 DEF Agreed, StoredInOrder
  <2>2. CASE j > Len(stored)
    <3> DEFINE b == j - Len(stored)
    <3>1. b \in 1..Len(new) /\ j = Len(stored) + b
      BY <1>5, <2>0, <2>2
    <3>2. stored'[j] = new[b] /\ new[b].no = from["can"] + b
      BY <1>1, <1>3, <1>5, <3>1
    <3> HIDE DEF b
    <3>3. CASE i <= Len(stored)
      <4>1. i \in DOMAIN stored /\ stored'[i] = stored[i]
        BY <1>4, <1>5, <2>0, <3>3
      <4>2. stored[i] \in ToSet(stored)
        BY <4>1 DEF ToSet
      <4> QED BY <1>0, <1>6, <3>1, <3>2, <4>1, <4>2
    <3>4. CASE i > Len(stored)
      <4> DEFINE a == i - Len(stored)
      <4>1. a \in 1..Len(new) /\ i = Len(stored) + a /\ a < b
        BY <1>5, <1>7, <2>0, <3>1, <3>4
      <4>2. stored'[i] = new[a] /\ new[a].no = from["can"] + a
        BY <1>1, <1>3, <1>5, <4>1
      <4> HIDE DEF a
      <4> QED BY <1>0, <3>1, <3>2, <4>1, <4>2
    <3> QED BY <1>5, <2>0, <3>3, <3>4
  <2> QED BY <1>5, <2>0, <2>1, <2>2
<1>8. StoredBefore' /\ StoredInOrder'
  BY <1>1, <1>7 DEF StoredBefore, StoredInOrder
<1> QED BY <1>2, <1>8 DEF Agreed

LEMMA AgreedPassing ==
  ASSUME Single, TypeInv, Flow, Kept, Ordered, Agreed, Passing PROVE Agreed'
<1>0. PcOK
  BY DEF TypeInv, TypeOK
<1> USE DEF bufVars, locks, locals, world, counters
<1>1. CASE CanSignal
  <2>1. UNCHANGED <<sem, from, restarts, stored, uploads>>
    BY <1>1 DEF CanSignal, Announce
  <2>2. pc["can"] = "signal" /\ pc'["can"] = "store" /\ sem # 1
    BY <1>0, <1>1, Signalled DEF Flow
  <2> QED BY <2>1, <2>2, AgreedStill
<1>2. CASE WaitSem("can")
  <2>1. /\ pc["can"] = "waitsem" /\ pc'["can"] = "clear" /\ sem = 1
        /\ UNCHANGED <<stored, uploads, restarts>>
    BY <1>0, <1>2, CanMoved DEF WaitSem, TakeSem, Flow, history
  <2> QED BY <2>1 DEF Agreed, InStep, StoredBefore, StoredInOrder, UploadedEvents
<1>3. CASE Clear("can")
  <2>1. /\ pc["can"] = "clear" /\ pc'["can"] = "respond"
        /\ UNCHANGED <<stored, uploads, restarts, sem>>
    BY <1>0, <1>3, CanMoved DEF Clear, Return, history
  <2> QED BY <2>1, AgreedStill
<1>4. CASE CanRespond
  <2>1. /\ pc["can"] = "respond" /\ pc'["can"] = "read"
        /\ UNCHANGED <<stored, uploads, restarts, sem>>
    BY <1>0, <1>4, CanMoved DEF CanRespond
  <2> QED BY <2>1, AgreedStill
<1> QED BY <1>1, <1>2, <1>3, <1>4, AgreedStore DEF Passing

LEMMA AgreedCopy ==
  ASSUME TypeInv, Flow, Kept, Agreed, DataCopy PROVE Agreed'
<1>0. PcOK
  BY DEF TypeInv, TypeOK
<1>1. /\ pc["can"] \in {"store", "waitsem"} /\ pc'["can"] = pc["can"]
      /\ sem = 0 /\ sem' = 1
      /\ UNCHANGED <<buf, pkg, from, stored, restarts>>
  BY <1>0, DataMoved
  DEF DataCopy, TakeCopy, Flow, bufVars, locals, world, counters
<1>2. TheEvents' = TheEvents
  BY <1>1 DEF TheEvents
<1>3. InStep => InStep'
  BY <1>1, <1>2, EventsCopied DEF InStep
<1> QED BY <1>1, <1>3 DEF Agreed, StoredBefore, StoredInOrder

LEMMA AgreedStep ==
  ASSUME Single, TypeInv, Flow, Durable, Kept, Ordered, Agreed, [Next]_vars
  PROVE  Agreed'
<1>0. PcOK /\ restarts \in Nat
  BY ConstantsAssumption DEF TypeInv, TypeOK, WorldOK
<1>1. CASE Timeout
  <2>1. /\ pc["can"] \in {"read", "copy", "check"} /\ pc' = pc
        /\ UNCHANGED <<stored, uploads, sem, restarts>>
    BY <1>1 DEF Timeout, Flow, locks, history, world, counters
  <2> QED BY <2>1, AgreedStill
<1>2. CASE Restart
  <2>1. restarts' # 0 /\ UNCHANGED <<stored, uploads>>
    BY <1>0, <1>2 DEF Restart, history
  <2> QED BY <1>2, <2>1, Restarted DEF Agreed, StoredBefore, StoredInOrder
<1>3. CASE Others
  <2>1. /\ UNCHANGED <<buf, sem, pkg, from, stored, uploads>> /\ pc'["can"] = pc["can"]
    BY <1>0, <1>3, OthersStill DEF history
  <2>2. restarts' = restarts
    BY <1>3 DEF Others, PingTop, PingSleep, DataWait, DataDeliver, vars, state, world,
         counters
  <2> QED BY <2>1, <2>2 DEF Agreed, InStep, StoredBefore, StoredInOrder, TheEvents,
             UploadedEvents
<1> QED BY <1>1, <1>2, <1>3, SingleNext, AgreedReception, AgreedNumbering,
           AgreedPassing, AgreedCopy

LEMMA InitAgreed == Init => Agreed
<1> SUFFICES ASSUME Init PROVE Agreed
  OBVIOUS
<1>1. stored = <<>> /\ uploads = <<>> /\ ToSet(stored) = {} /\ ToSet(uploads) = {}
  BY DEF Init, ToSet
<1>2. UploadedEvents = {}
  BY <1>1 DEF UploadedEvents
<1>3. pc["can"] = "read" /\ DOMAIN stored = {}
  BY <1>1, Started DEF Init
<1> QED BY <1>1, <1>2, <1>3 DEF Agreed, InStep, StoredBefore, StoredInOrder

(***************************************************************************)
(* With pthread_can_rcv as the only producer, the database and the server  *)
(* get the same events in the same order, whichever of the two threads is  *)
(* the first to read the buffer.                                           *)
(***************************************************************************)
THEOREM RecordsAgreeCorrect == Single /\ Spec => []RecordsAgree
<1> SUFFICES ASSUME Single PROVE Spec => []RecordsAgree
  OBVIOUS
<1> DEFINE Inv == TypeInv /\ NumInv /\ Flow /\ Durable /\ Kept /\ Ordered /\ Agreed
<1>1. Init => Inv
  BY TypeInit, NumInit, InitSingle, InitKept, InitOrdered, InitAgreed
<1>2. Inv /\ [Next]_vars => Inv'
  BY TypeStep, NumStep, FlowStep, DurableStep, KeptStep, OrderedStep, AgreedStep
<1>3. Inv => RecordsAgree
  BY DEF Agreed, InStep, StoredInOrder, RecordsAgree
<1> QED BY <1>1, <1>2, <1>3, PTL DEF Spec
-------------------------------------------------------------------------------
(* A package comes once: as long as frames of it may come, stand in the    *)
(* buffer, or are being numbered, neither the server nor the database has  *)
(* had it.                                                                 *)
Begun(c) == /\ c.pkg \notin unsent
            /\ c.pkg = mcu.pkg => c.slot < mcu.slot
Coming ==
  /\ mcu.pkg # NoPkg => mcu.pkg \notin unsent /\ mcu.slot \in 1..Events[mcu.pkg]
  /\ \A i \in 1..Cap : buf[i].pkg # NoPkg => Begun(buf[i])
  /\ pc["can"] = "copy" => frame.pkg # NoPkg /\ Begun(frame)

Past(p) ==
  /\ p \notin unsent /\ p # mcu.pkg
  /\ pc["can"] \notin InHand => \A i \in 1..Cap : buf[i].pkg # p
  /\ pc["can"] = "copy" => frame.pkg # p
HadIsPast == \A p \in CanPackages : IsStored(p) \/ IsCopied(p) => Past(p)

IsSaved(p) == \E i \in DOMAIN stored : stored[i].pkg = p /\ stored[i].slot = 1
BeforeCopy ==
  \/ pc["can"] \in {"lock", "number", "write", "signal"}
  \/ pc["can"] \in {"store", "waitsem"} /\ sem = 0
AtHand ==
  /\ pc["can"] \in {"lock", "number", "write", "signal", "store"} => ~IsStored(pkg["can"])
  /\ BeforeCopy => ~IsCopied(pkg["can"])
  /\ pc["can"] \in {"waitsem", "clear"} => IsSaved(pkg["can"])

Once == Coming /\ HadIsPast /\ AtHand

\* When all of a package is in the buffer the controller is done with it.
LEMMA WholeIsPast ==
  ASSUME TypeInv, Coming, NEW p, HeldWhole(p)
  PROVE  p \notin unsent /\ p # mcu.pkg
<1>1. /\ p \in CanPackages /\ Events[p] \in Nat \ {0} /\ Cap \in Nat
      /\ 1 + Events[p] \in 2..Cap /\ p # NoPkg
  BY PackageSize, ConstantsAssumption DEF HeldWhole, Packages
<1>2. 1 + Events[p] \in 1..Cap /\ 1 + Events[p] \in 1..(1 + Events[p])
  BY <1>1
<1> DEFINE c == buf[1 + Events[p]]
<1>3. c.pkg = p /\ c.slot = (1 + Events[p]) - 1
  BY <1>2 DEF HeldWhole
<1>4. Begun(c)
  BY <1>1, <1>2, <1>3 DEF Coming
<1> HIDE DEF c
<1>5. ~(Events[p] < mcu.slot) \/ p # mcu.pkg
  BY <1>1 DEF Coming
<1> QED BY <1>1, <1>3, <1>4, <1>5 DEF Begun

LEMMA ComingStill ==
  ASSUME Coming, HadIsPast, UNCHANGED <<stored, uploads, mcu, unsent>>,
         \/ buf' = Empty
         \/ /\ \A i \in 1..Cap : buf'[i].pkg = buf[i].pkg /\ buf'[i].slot = buf[i].slot
            /\ pc["can"] \in InHand => pc'["can"] \in InHand,
         pc'["can"] = "copy" => pc["can"] = "copy" /\ frame' = frame
  PROVE  Coming' /\ HadIsPast'
<1>1. ASSUME NEW i \in 1..Cap, buf'[i].pkg # NoPkg
      PROVE  buf'[i].pkg = buf[i].pkg /\ buf'[i].slot = buf[i].slot
  <2>1. CASE buf' = Empty
    BY <1>1, <2>1 DEF Empty, Zero, Cell
  <2>2. CASE buf' # Empty
    BY <2>2
  <2> QED BY <2>1, <2>2
<1>2. Coming'
  <2>1. ASSUME NEW i \in 1..Cap, buf'[i].pkg # NoPkg PROVE Begun(buf[i])'
    <3>1. buf'[i].pkg = buf[i].pkg /\ buf'[i].slot = buf[i].slot
      BY <1>1, <2>1
    <3>2. Begun(buf[i])
      BY <2>1, <3>1 DEF Coming
    <3> QED BY <3>1, <3>2 DEF Begun
  <2>2. pc'["can"] = "copy" => frame'.pkg # NoPkg /\ Begun(frame)'
    BY DEF Coming, Begun
  <2>3. mcu'.pkg # NoPkg => mcu'.pkg \notin unsent' /\ mcu'.slot \in 1..Events[mcu'.pkg]
    BY DEF Coming
  <2> QED BY <2>1, <2>2, <2>3 DEF Coming
<1>3. ASSUME NEW p \in CanPackages, IsStored(p)' \/ IsCopied(p)' PROVE Past(p)'
  <2>1. Past(p)
    BY <1>3 DEF HadIsPast, IsStored, IsCopied
  <2>2. p # NoPkg
    BY ConstantsAssumption DEF Packages
  <2>3. pc'["can"] \notin InHand => \A i \in 1..Cap : buf'[i].pkg # p
    <3>1. CASE buf' = Empty
      BY <2>2, <3>1 DEF Empty, Zero, Cell
    <3>2. CASE buf' # Empty
      BY <2>1, <3>2 DEF Past
    <3> QED BY <3>1, <3>2
  <2> QED BY <2>1, <2>3 DEF Past
<1> QED BY <1>2, <1>3 DEF HadIsPast

LEMMA AtHandStill ==
  ASSUME AtHand, UNCHANGED <<stored, uploads>>,
         pc'["can"] \in InHand =>
           /\ UNCHANGED <<pkg, sem>>
           /\ \/ pc'["can"] = pc["can"]
              \/ /\ pc["can"] \in {"lock", "number", "write", "signal"}
                 /\ pc'["can"] \in {"lock", "number", "write", "signal", "store"}
  PROVE  AtHand'
  BY DEF AtHand, BeforeCopy, IsStored, IsCopied, IsSaved, InHand

LEMMA OnceRead ==
  ASSUME TypeInv, Once, CanRead PROVE Once'
<1>0. PcOK /\ BufOK /\ WorldOK
  BY DEF TypeInv, TypeOK
<1>1. /\ pc["can"] = "read" /\ pc'["can"] = "copy"
      /\ UNCHANGED <<buf, stored, uploads>>
      /\ SendFrame(frame')
  BY <1>0, CanMoved DEF CanRead, bufVars, history
<1>2. AtHand'
  BY <1>1, AtHandStill DEF Once, InHand
<1>3. NoPkg \notin CanPackages
  BY ConstantsAssumption DEF Packages
<1>4. CASE /\ mcu.pkg # NoPkg
           /\ frame' = Cell(mcu.pkg, mcu.slot, 0)
           /\ mcu' = IF mcu.slot = Events[mcu.pkg] THEN [pkg |-> NoPkg, slot |-> 0]
                     ELSE [mcu EXCEPT !.slot = @ + 1]
           /\ unsent' = unsent
  <2>1. /\ mcu.pkg \in CanPackages /\ mcu.slot \in Nat /\ Events[mcu.pkg] \in Nat
        /\ mcu.slot \in 1..Events[mcu.pkg] /\ mcu.pkg \notin unsent
    BY <1>0, <1>4, PackageSize DEF WorldOK, Once, Coming
  <2>2. frame'.pkg = mcu.pkg /\ frame'.slot = mcu.slot
    BY <1>4 DEF Cell
  <2>3. \/ mcu'.pkg = NoPkg
        \/ /\ mcu'.pkg = mcu.pkg /\ mcu'.slot = mcu.slot + 1
           /\ mcu'.slot \in 1..Events[mcu.pkg]
    <3>1. CASE mcu.slot = Events[mcu.pkg]
      BY <1>4, <3>1
    <3>2. CASE mcu.slot # Events[mcu.pkg]
      <4>1. mcu'.pkg = mcu.pkg /\ mcu'.slot = mcu.slot + 1
        BY <1>0, <1>4, <3>2 DEF WorldOK
      <4> QED BY <2>1, <3>2, <4>1
    <3> QED BY <3>1, <3>2
  <2>4. \A i \in 1..Cap : buf[i].slot \in Nat
    BY <1>0 DEF BufOK, Cells
  <2>5. Coming'
    BY <1>1, <1>4, <2>1, <2>2, <2>3, <2>4 DEF Once, Coming, Begun
  <2>6. HadIsPast'
    BY <1>1, <1>3, <1>4, <2>2, <2>3
    DEF Once, HadIsPast, Past, IsStored, IsCopied, InHand
  <2> QED BY <1>2, <2>5, <2>6 DEF Once
<1>5. ASSUME NEW q \in unsent, frame' = Cell(q, 0, 0), mcu' = [pkg |-> q, slot |-> 1],
             unsent' = unsent \ {q}
      PROVE  Once'
  <2>1. q \in CanPackages /\ 1 \in 1..Events[q]
    BY <1>0, <1>5, PackageSize DEF WorldOK
  <2>2. frame'.pkg = q /\ frame'.slot = 0 /\ mcu'.pkg = q /\ mcu'.slot = 1
    BY <1>5 DEF Cell
  <2>3. Coming'
    BY <1>1, <1>3, <1>5, <2>1, <2>2 DEF Once, Coming, Begun
  <2>4. HadIsPast'
    BY <1>1, <1>5, <2>2 DEF Once, HadIsPast, Past, IsStored, IsCopied, InHand
  <2> QED BY <1>2, <2>3, <2>4 DEF Once
<1> QED BY <1>1, <1>4, <1>5 DEF SendFrame

LEMMA OnceReception ==
  ASSUME Single, TypeInv, Flow, Once, Reception PROVE Once'
<1>0. PcOK /\ BufOK /\ LocalsOK /\ (pc["can"] = "copy" => count < Cap)
  BY DEF TypeInv, TypeOK
<1> USE DEF state, world, mcuVars, locals, bufVars, history
<1>1. CASE CanCopy
  <2>1. /\ pc["can"] = "copy" /\ pc'["can"] = "check"
        /\ buf' = [buf EXCEPT ![count + 1] = frame]
        /\ UNCHANGED <<stored, uploads, mcu, unsent>>
    BY <1>0, <1>1, CanMoved DEF CanCopy
  <2>2. \A i \in 1..Cap : buf'[i] = buf[i] \/ buf'[i] = frame
    BY <1>0, <2>1 DEF BufOK
  <2>3. Coming'
    BY <2>1, <2>2 DEF Once, Coming, Begun
  <2>4. HadIsPast'
    BY <2>1, <2>2 DEF Once, HadIsPast, Past, IsStored, IsCopied, InHand
  <2> QED BY <2>1, <2>3, <2>4, AtHandStill DEF Once, InHand
<1>2. CASE CanIncomplete \/ CanReject \/ CanShow
  <2>1. /\ pc["can"] \in {"check", "show"} /\ pc'["can"] = "read"
        /\ buf' = Empty \/ buf' = buf
        /\ UNCHANGED <<stored, uploads, mcu, unsent>>
    BY <1>0, <1>2, CanMoved DEF CanIncomplete, CanReject, CanShow, ClearBuf
  <2> QED BY <2>1, ComingStill, AtHandStill DEF Once, InHand
<1>3. CASE CanAccept
  <2> DEFINE p == buf[1].pkg
  <2>1. /\ CrcOk(buf, datalen) /\ pkg' = [pkg EXCEPT !["can"] = p]
        /\ pc["can"] = "check" /\ pc'["can"] \in {"lock", "show"}
        /\ UNCHANGED <<buf, stored, uploads, mcu, unsent>>
    BY <1>0, <1>3 DEF CanAccept, PcOK, Producers
  <2>2. pkg'["can"] = p
    BY <1>0, <2>1 DEF LocalsOK, Producers
  <2>3. p \in CanPackages
    <3>1. buf[1] \in Cells
      BY <1>0, ConstantsAssumption DEF BufOK
    <3> QED BY <2>1, <3>1 DEF CrcOk, Cells, Packages, Single
  <2>4. 1 \in 1..Cap
    BY ConstantsAssumption
  <2>5. ~Past(p)
    BY <2>1, <2>4 DEF Past, InHand
  <2> HIDE DEF p
  <2>6. ~IsStored(p) /\ ~IsCopied(p)
    BY <2>3, <2>5 DEF Once, HadIsPast
  <2>7. AtHand'
    BY <2>1, <2>2, <2>6 DEF AtHand, IsStored, IsCopied
  <2>8. Coming' /\ HadIsPast'
    BY <2>1, ComingStill DEF Once, InHand
  <2> QED BY <2>7, <2>8 DEF Once
<1> QED BY <1>1, <1>2, <1>3, OnceRead DEF Reception

LEMMA OnceNumbering ==
  ASSUME TypeInv, Once, Numbering PROVE Once'
<1>0. PcOK /\ BufOK
  BY DEF TypeInv, TypeOK
<1>1. /\ UNCHANGED <<sem, stored, uploads, pkg, mcu, unsent>>
      /\ pc["can"] \in {"lock", "number", "write"}
      /\ pc'["can"] \in {"number", "write", "signal"}
  BY <1>0, CanMoved
  DEF Numbering, LockEventno, Acquire, CanNumber, WriteEventno, WriteBack, locks,
      locals, history, world, mcuVars
<1>2. ASSUME NEW i \in 1..Cap
      PROVE  buf'[i].pkg = buf[i].pkg /\ buf'[i].slot = buf[i].slot
  <2>1. CASE CanNumber
    <3>1. buf[i] \in Cells
      BY <1>0 DEF BufOK
    <3>2. buf'[i] = buf[i] \/ buf'[i] = [buf[i] EXCEPT !.no = eventno + i - 1]
      BY <2>1 DEF CanNumber
    <3> QED BY <3>1, <3>2 DEF Cells
  <2>2. CASE ~CanNumber
    BY <2>2 DEF Numbering, LockEventno, Acquire, WriteEventno, WriteBack, bufVars
  <2> QED BY <2>1, <2>2
<1> QED BY <1>1, <1>2, ComingStill, AtHandStill DEF Once, InHand

LEMMA OnceStore ==
  ASSUME TypeInv, Kept, Once, Store("can") PROVE Once'
<1> DEFINE p == pkg["can"]
           new == SubSeq(buf, 2, 1 + Events[p])
<1>0. HistoryOK
  BY DEF TypeInv, TypeOK
<1>1. /\ pc["can"] = "store" /\ pc'["can"] = "waitsem"
      /\ UNCHANGED <<buf, sem, pkg, uploads, mcu, unsent>>
      /\ HeldWhole(p) /\ Events[p] \in Nat \ {0}
      /\ new \in Seq(Cells) /\ Len(new) = Events[p]
      /\ \A i \in 1..Events[p] : new[i] = buf[i + 1]
      /\ stored' = stored \o new
      /\ ToSet(stored') = ToSet(stored) \cup TheEvents
  BY TheStore
<1>2. \A i \in 1..(1 + Events[p]) : buf[i].pkg = p /\ buf[i].slot = i - 1
  BY <1>1 DEF HeldWhole
<1>3. \A c \in TheEvents : c.pkg = p
  BY <1>2 DEF TheEvents
<1>4. p \notin unsent /\ p # mcu.pkg
  BY <1>1, WholeIsPast DEF Once
<1>5. Len(stored) + 1 \in DOMAIN stored' /\ stored'[Len(stored) + 1] = buf[2]
  <2>1. stored \in Seq(Cells) /\ 1 \in 1..Len(new)
    BY <1>0, <1>1 DEF HistoryOK
  <2> HIDE DEF new, p
  <2>9. new \in Seq(Cells)
    BY <1>1
  <2>2. /\ Len(stored \o new) = Len(stored) + Len(new) /\ Len(stored) \in Nat
        /\ stored \o new \in Seq(Cells)
        /\ (stored \o new)[Len(stored) + 1] = new[1]
    BY <2>1, <2>9, Joined
  <2>3. new[1] = buf[1 + 1]
    BY <1>1, <2>1
  <2> QED BY <1>1, <2>1, <2>2, <2>3
<1>6. buf[2].pkg = p /\ buf[2].slot = 1
  BY <1>1, <1>2
<1>7. IsSaved(p)'
  BY <1>1, <1>5, <1>6 DEF IsSaved
<1> HIDE DEF p, new
<1>8. AtHand'
  BY <1>1, <1>7 DEF Once, AtHand, BeforeCopy, IsCopied, p
<1>9. Coming'
  BY <1>1 DEF Once, Coming, Begun
<1>10. ASSUME NEW q \in CanPackages, IsStored(q)' \/ IsCopied(q)' PROVE Past(q)'
  <2>1. CASE q = p
    BY <1>1, <1>4, <2>1 DEF Past, InHand
  <2>2. CASE q # p
    <3>1. IsStored(q) \/ IsCopied(q)
      BY <1>1, <1>3, <1>10, <2>2 DEF IsStored, IsCopied
    <3>2. q \notin unsent /\ q # mcu.pkg
      BY <3>1 DEF Once, HadIsPast, Past
    <3> QED BY <1>1, <3>2 DEF Past, InHand
  <2> QED BY <2>1, <2>2
<1> QED BY <1>8, <1>9, <1>10 DEF Once, HadIsPast

LEMMA OncePassing ==
  ASSUME TypeInv, Flow, Kept, Once, Passing PROVE Once'
<1>0. PcOK
  BY DEF TypeInv, TypeOK
<1> USE DEF bufVars, locks, locals, world, mcuVars
<1>1. CASE CanSignal
  <2>1. UNCHANGED <<buf, sem, pkg, mcu, unsent, stored, uploads>>
    BY <1>1 DEF CanSignal, Announce
  <2>2. pc["can"] = "signal" /\ pc'["can"] = "store"
    BY <1>0, <1>1, Signalled
  <2> QED BY <2>1, <2>2, ComingStill, AtHandStill DEF Once, InHand
<1>2. CASE WaitSem("can")
  <2>1. /\ pc["can"] = "waitsem" /\ pc'["can"] = "clear"
        /\ UNCHANGED <<buf, pkg, stored, uploads, mcu, unsent>>
    BY <1>0, <1>2, CanMoved DEF WaitSem, TakeSem, history
  <2>2. AtHand'
    BY <2>1 DEF Once, AtHand, BeforeCopy, IsSaved
  <2> QED BY <2>1, <2>2, ComingStill DEF Once, InHand
<1>3. CASE Clear("can")
  <2>1. /\ pc["can"] = "clear" /\ pc'["can"] = "respond" /\ buf' = Empty
        /\ UNCHANGED <<stored, uploads, mcu, unsent>>
    BY <1>0, <1>3, CanMoved DEF Clear, ClearBuf, Return, history
  <2> QED BY <2>1, ComingStill, AtHandStill DEF Once, InHand
<1>4. CASE CanRespond
  <2>1. /\ pc["can"] = "respond" /\ pc'["can"] = "read"
        /\ UNCHANGED <<buf, stored, uploads, mcu, unsent>>
    BY <1>0, <1>4, CanMoved DEF CanRespond
  <2> QED BY <2>1, ComingStill, AtHandStill DEF Once, InHand
<1> QED BY <1>1, <1>2, <1>3, <1>4, OnceStore DEF Passing

LEMMA OnceCopy ==
  ASSUME TypeInv, Flow, Kept, Once, DataCopy PROVE Once'
<1> DEFINE p == pkg["can"]
           new == SubSeq(buf, 1, 1 + Events[p])
<1>0. PcOK
  BY DEF TypeInv, TypeOK
<1>1. /\ pc["can"] \in {"store", "waitsem"} /\ pc'["can"] = pc["can"]
      /\ sem' = 1
      /\ UNCHANGED <<buf, pkg, stored, mcu, unsent>>
  BY <1>0, DataMoved
  DEF DataCopy, TakeCopy, Flow, bufVars, locals, world, mcuVars
<1>2. /\ HeldWhole(p) /\ ToSet(uploads') = ToSet(uploads) \cup {new}
      /\ new[1] = buf[1]
  <2>1. HeldWhole(p) /\ 1 + Events[p] \in 2..Cap
    BY TheCopy, PackageSize DEF HeldWhole
  <2> QED BY <2>1, TheCopy
<1>3. new[1].pkg = p
  <2>1. 1 \in 1..(1 + Events[p])
    BY <1>2, PackageSize DEF HeldWhole
  <2> QED BY <1>2, <2>1 DEF HeldWhole
<1>4. p \notin unsent /\ p # mcu.pkg
  BY <1>2, WholeIsPast DEF Once
<1> HIDE DEF new, p
<1>5. AtHand'
  BY <1>1 DEF Once, AtHand, BeforeCopy, IsStored, IsSaved
<1>6. Coming'
  BY <1>1 DEF Once, Coming, Begun
<1>7. ASSUME NEW q \in CanPackages, IsStored(q)' \/ IsCopied(q)' PROVE Past(q)'
  <2>1. CASE q = p
    BY <1>1, <1>4, <2>1 DEF Past, InHand
  <2>2. CASE q # p
    <3>1. IsStored(q) \/ IsCopied(q)
      BY <1>1, <1>2, <1>3, <1>7, <2>2 DEF IsStored, IsCopied
    <3>2. q \notin unsent /\ q # mcu.pkg
      BY <3>1 DEF Once, HadIsPast, Past
    <3> QED BY <1>1, <3>2 DEF Past, InHand
  <2> QED BY <2>1, <2>2
<1> QED BY <1>5, <1>6, <1>7 DEF Once, HadIsPast

LEMMA OnceStep ==
  ASSUME Single, TypeInv, Flow, Kept, Once, [Next]_vars PROVE Once'
<1>0. PcOK
  BY DEF TypeInv, TypeOK
<1>1. CASE Timeout
  <2>1. /\ pc["can"] \in {"read", "copy", "check"} /\ buf' = Empty
        /\ UNCHANGED <<pc, frame, stored, uploads, mcu, unsent>>
    BY <1>1 DEF Timeout, Flow, ClearBuf, locals, history, world, mcuVars
  <2> QED BY <2>1, ComingStill, AtHandStill DEF Once, InHand
<1>2. CASE Restart
  <2>1. buf' = Empty /\ UNCHANGED <<stored, uploads, mcu, unsent>>
    BY <1>2 DEF Restart, ClearBuf, history, mcuVars
  <2> QED BY <1>2, <2>1, Restarted, ComingStill, AtHandStill DEF Once, InHand
<1>3. CASE Others
  <2>1. /\ UNCHANGED <<buf, sem, pkg, frame, stored, uploads>> /\ pc'["can"] = pc["can"]
    BY <1>0, <1>3, OthersStill DEF history
  <2>2. UNCHANGED <<mcu, unsent>>
    BY <1>3 DEF Others, PingTop, PingSleep, DataWait, DataDeliver, vars, state, world,
         mcuVars
  <2> QED BY <2>1, <2>2, ComingStill, AtHandStill DEF Once
<1> QED BY <1>1, <1>2, <1>3, SingleNext, OnceReception, OnceNumbering,
           OncePassing, OnceCopy

LEMMA InitOnce == Init => Once
<1> SUFFICES ASSUME Init PROVE Once
  OBVIOUS
<1>1. pc["can"] = "read" /\ ToSet(stored) = {} /\ ToSet(uploads) = {}
  BY Started DEF Init, ToSet
<1>2. mcu.pkg = NoPkg /\ \A i \in 1..Cap : buf[i].pkg = NoPkg
  BY DEF Init, Empty, Zero, Cell
<1> QED BY <1>1, <1>2 DEF Once, Coming, HadIsPast, AtHand, BeforeCopy, IsStored, IsCopied
-------------------------------------------------------------------------------
(* The steps of HandOff: what Promise puts in its place for the slot and   *)
(* for what its readers have.                                              *)
Slot == IF Handed THEN pkg["can"] ELSE NoPkg
SentAt == [p \in CanPackages |-> {i \in DOMAIN uploads : uploads[i][1].pkg = p}]
SavedAt == [p \in CanPackages |->
              {i \in DOMAIN stored : stored[i].pkg = p /\ stored[i].slot = 1}]

LEMMA InitPromise == Init => Promise!Init
<1> SUFFICES ASSUME Init PROVE Promise!Init
  OBVIOUS
<1>1. pc["can"] = "read" /\ DOMAIN uploads = {} /\ DOMAIN stored = {} /\ restarts = 0
  BY Started DEF Init
<1> QED BY <1>1 DEF Promise!Init, Promise!Nothing, Handed

LEMMA PromiseStill ==
  ASSUME UNCHANGED <<uploads, stored, restarts>>, Slot' = Slot
  PROVE  UNCHANGED Promise!vars
  BY DEF Promise!vars, Slot

\* pthread_can_rcv has written eventno.txt and is about to signal.
LEMMA OfferStep ==
  ASSUME TypeInv, Kept, WriteEventno("can") PROVE Promise!Offer
<1>1. PcOK
  BY DEF TypeInv, TypeOK
<1>2. /\ pc["can"] = "write" /\ pc'["can"] = "signal" /\ pkg' = pkg
      /\ UNCHANGED <<uploads, stored, restarts>>
  BY <1>1, CanMoved DEF WriteEventno, WriteBack, locals, world, counters
<1>3. pkg["can"] \in CanPackages
  BY <1>2 DEF Kept, InHand, HeldWhole
<1> QED BY <1>2, <1>3 DEF Promise!Offer, Handed

LEMMA SaveStep ==
  ASSUME TypeInv, Kept, Once, Store("can") PROVE Promise!Save
<1> DEFINE p == pkg["can"]
           new == SubSeq(buf, 2, 1 + Events[p])
           n == Len(stored) + 1
<1>0. HistoryOK
  BY DEF TypeInv, TypeOK
<1>1. /\ pc["can"] = "store" /\ pc'["can"] = "waitsem"
      /\ UNCHANGED <<buf, pkg, uploads, restarts>>
      /\ HeldWhole(p) /\ p \in CanPackages /\ Events[p] \in Nat \ {0}
      /\ new \in Seq(Cells) /\ Len(new) = Events[p]
      /\ \A i \in 1..Events[p] : new[i] = buf[i + 1]
      /\ stored' = stored \o new
  BY TheStore DEF HeldWhole
<1>2. ASSUME NEW i \in 1..Events[p] PROVE new[i].pkg = p /\ new[i].slot = i
  <2>1. i + 1 \in 1..(1 + Events[p]) /\ (i + 1) - 1 = i
    BY <1>1
  <2>2. buf[i + 1].pkg = p /\ buf[i + 1].slot = i
    BY <1>1, <2>1 DEF HeldWhole
  <2> QED BY <1>1, <2>2
<1> HIDE DEF new, p
<1>3. stored \in Seq(Cells)
  BY <1>0 DEF HistoryOK
<1>4. /\ DOMAIN stored = 1..Len(stored) /\ Len(stored) \in Nat
      /\ DOMAIN stored' = 1..(Len(stored) + Len(new))
      /\ \A i \in 1..Len(stored) : stored'[i] = stored[i]
      /\ \A i \in 1..Len(new) : stored'[Len(stored) + i] = new[i]
  <2>0. new \in Seq(Cells)
    BY <1>1
  <2>1. /\ stored \o new \in Seq(Cells) /\ Len(stored \o new) = Len(stored) + Len(new)
        /\ Len(stored) \in Nat
        /\ \A i \in 1..Len(stored) : (stored \o new)[i] = stored[i]
        /\ \A i \in 1..Len(new) : (stored \o new)[Len(stored) + i] = new[i]
    BY <1>3, <2>0, Joined
  <2> QED BY <1>1, <1>3, <2>1
<1>5. ASSUME NEW i \in DOMAIN stored PROVE stored[i].pkg # p
  <2>1. stored[i] \in ToSet(stored)
    BY DEF ToSet
  <2> QED BY <1>1, <2>1 DEF Once, AtHand, IsStored, p
<1>6. ASSUME NEW q \in CanPackages
      PROVE  {i \in DOMAIN stored' : stored'[i].pkg = q /\ stored'[i].slot = 1}
               = IF q = p THEN {n}
                 ELSE {i \in DOMAIN stored : stored[i].pkg = q /\ stored[i].slot = 1}
  <2>1. ASSUME NEW i \in DOMAIN stored'
        PROVE  \/ i \in DOMAIN stored /\ stored'[i] = stored[i] /\ i # n
               \/ /\ i \notin DOMAIN stored /\ stored'[i].pkg = p
                  /\ stored'[i].slot = 1 <=> i = n
    <3>1. CASE i <= Len(stored)
      BY <1>4, <3>1
    <3>2. CASE i > Len(stored)
      <4>1. i - Len(stored) \in 1..Len(new) /\ i = Len(stored) + (i - Len(stored))
        BY <1>1, <1>4, <3>2
      <4>2. stored'[i] = new[i - Len(stored)]
        BY <1>4, <4>1
      <4>3. stored'[i].pkg = p /\ stored'[i].slot = i - Len(stored)
        BY <1>1, <1>2, <4>1, <4>2
      <4> QED BY <1>4, <3>2, <4>3
    <3> QED BY <1>4, <3>1, <3>2
  <2>2. n \in DOMAIN stored' /\ DOMAIN stored \subseteq DOMAIN stored'
    BY <1>1, <1>4
  <2> HIDE DEF n
  <2>3. CASE q = p
    BY <1>5, <2>1, <2>2, <2>3
  <2>4. CASE q # p
    BY <2>1, <2>2, <2>4
  <2> QED BY <2>3, <2>4
<1>7. SavedAt' = [SavedAt EXCEPT ![p] = {n}]
  BY <1>1, <1>6 DEF SavedAt
<1>8. SavedAt[p] = {} /\ n \in SavedAt'[p]
  BY <1>1, <1>5, <1>6 DEF SavedAt
<1>9. \A q \in CanPackages : \A m \in SavedAt[q] : m < n
  BY <1>4 DEF SavedAt
<1>10. Slot = p /\ Slot' = Slot
  BY <1>1 DEF Slot, Handed, p
<1> HIDE DEF n
<1>11. /\ Slot \in CanPackages /\ SavedAt[Slot] = {}
       /\ \E k \in SavedAt'[Slot] :
            /\ SavedAt' = [SavedAt EXCEPT ![Slot] = {k}]
            /\ \A q \in CanPackages : \A m \in SavedAt[q] : m < k
  BY <1>1, <1>7, <1>8, <1>9, <1>10
<1> QED BY <1>1, <1>10, <1>11 DEF Promise!Save, Promise!Got, Slot, SavedAt

LEMMA SendStep ==
  ASSUME TypeInv, Flow, Kept, Once, DataCopy PROVE Promise!Send
<1> DEFINE p == pkg["can"]
           new == SubSeq(buf, 1, 1 + Events[p])
           n == Len(uploads) + 1
           S == Seq(Cells)
<1>0. PcOK /\ uploads \in Seq(S)
  BY DEF TypeInv, TypeOK, HistoryOK
<1>1. /\ pc["can"] \in {"store", "waitsem"} /\ pc'["can"] = pc["can"] /\ sem = 0
      /\ UNCHANGED <<buf, pkg, stored, restarts>>
  BY <1>0, DataMoved
  DEF DataCopy, TakeCopy, Flow, bufVars, locals, world, counters
<1>2. /\ HeldWhole(p) /\ p \in CanPackages /\ new \in S
      /\ uploads' = Append(uploads, new) /\ new[1] = buf[1]
  <2>1. HeldWhole(p) /\ p \in CanPackages /\ 1 + Events[p] \in 2..Cap
    BY TheCopy, PackageSize DEF HeldWhole
  <2> QED BY <2>1, TheCopy
<1>3. new[1].pkg = p
  <2>1. 1 \in 1..(1 + Events[p])
    BY <1>2, PackageSize
  <2> QED BY <1>2, <2>1 DEF HeldWhole
<1> HIDE DEF new, p, S
<1>4. /\ DOMAIN uploads = 1..Len(uploads) /\ Len(uploads) \in Nat
      /\ DOMAIN uploads' = 1..n
      /\ \A i \in DOMAIN uploads : uploads'[i] = uploads[i]
      /\ uploads'[n] = new
  BY <1>0, <1>2, Appended
<1>5. ASSUME NEW i \in DOMAIN uploads PROVE uploads[i][1].pkg # p
  <2>1. uploads[i] \in ToSet(uploads)
    BY DEF ToSet
  <2> QED BY <1>1, <2>1 DEF Once, AtHand, BeforeCopy, IsCopied, p
<1>6. n \notin DOMAIN uploads /\ DOMAIN uploads' = DOMAIN uploads \cup {n}
  BY <1>4
<1>7. \A q \in CanPackages : \A m \in SentAt[q] : m < n
  BY <1>4 DEF SentAt
<1> HIDE DEF n
<1>8. ASSUME NEW q \in CanPackages
      PROVE  {i \in DOMAIN uploads' : uploads'[i][1].pkg = q}
               = IF q = p THEN {n} ELSE {i \in DOMAIN uploads : uploads[i][1].pkg = q}
  <2>1. CASE q = p
    BY <1>3, <1>4, <1>5, <1>6, <2>1
  <2>2. CASE q # p
    BY <1>3, <1>4, <1>6, <2>2
  <2> QED BY <2>1, <2>2
<1>9. SentAt' = [SentAt EXCEPT ![p] = {n}]
  BY <1>2, <1>8 DEF SentAt
<1>10. SentAt[p] = {} /\ n \in SentAt'[p]
  BY <1>2, <1>5, <1>8 DEF SentAt
<1>11. Slot = p /\ Slot' = Slot
  BY <1>1 DEF Slot, Handed, p
<1>12. /\ Slot \in CanPackages /\ SentAt[Slot] = {}
       /\ \E k \in SentAt'[Slot] :
            /\ SentAt' = [SentAt EXCEPT ![Slot] = {k}]
            /\ \A q \in CanPackages : \A m \in SentAt[q] : m < k
  BY <1>2, <1>7, <1>9, <1>10, <1>11
<1> QED BY <1>1, <1>11, <1>12 DEF Promise!Send, Promise!Got, Slot, SentAt

LEMMA ReleaseStep ==
  ASSUME TypeInv, Kept, Once, Clear("can") PROVE Promise!Release
<1> DEFINE p == pkg["can"]
<1>0. PcOK
  BY DEF TypeInv, TypeOK
<1>1. /\ pc["can"] = "clear" /\ pc'["can"] = "respond"
      /\ UNCHANGED <<uploads, stored, restarts>>
  BY <1>0, CanMoved DEF Clear, Return, history, world, counters
<1>2. p \in CanPackages /\ IsCopied(p) /\ IsSaved(p)
  BY <1>1 DEF Kept, InHand, HeldWhole, Once, AtHand
<1>3. SentAt[p] # {} /\ SavedAt[p] # {}
  BY <1>2 DEF SentAt, SavedAt, IsCopied, IsSaved, ToSet
<1>4. Slot = p /\ Slot' = NoPkg
  BY <1>1 DEF Slot, Handed
<1> HIDE DEF p
<1> QED BY <1>1, <1>2, <1>3, <1>4 DEF Promise!Release, Slot, SentAt, SavedAt

LEMMA PromiseStep ==
  ASSUME Single, TypeInv, Flow, Kept, Once, [Next]_vars
  PROVE  [Promise!Next]_Promise!vars
<1>0. PcOK
  BY DEF TypeInv, TypeOK
<1> USE DEF history, world, counters, locals
<1>1. CASE Reception
  <2>1. /\ UNCHANGED <<uploads, stored, restarts>>
        /\ pc["can"] \in {"read", "copy", "check", "show"}
        /\ pc'["can"] \in {"read", "copy", "check", "show", "lock"}
    BY <1>0, <1>1, CanMoved
    DEF Reception, CanRead, CanCopy, CanIncomplete, CanReject, CanShow, CanAccept,
        state, PcOK, Producers
  <2> QED BY <2>1, PromiseStill DEF Slot, Handed
<1>2. CASE LockEventno("can") \/ CanNumber
  <2>1. /\ UNCHANGED <<uploads, stored, restarts>>
        /\ pc["can"] \in {"lock", "number"} /\ pc'["can"] \in {"number", "write"}
    BY <1>0, <1>2, CanMoved DEF LockEventno, Acquire, CanNumber
  <2> QED BY <2>1, PromiseStill DEF Slot, Handed
<1>3. CASE WriteEventno("can")
  BY <1>3, OfferStep DEF Promise!Next
<1>4. CASE CanSignal
  <2>1. UNCHANGED <<uploads, stored, restarts, pkg>>
    BY <1>4 DEF CanSignal, Announce
  <2> QED BY <1>0, <1>4, <2>1, Signalled, PromiseStill DEF Slot, Handed
<1>5. CASE Store("can")
  BY <1>5, SaveStep DEF Promise!Next
<1>6. CASE WaitSem("can")
  <2>1. /\ UNCHANGED <<uploads, stored, restarts, pkg>>
        /\ pc["can"] = "waitsem" /\ pc'["can"] = "clear"
    BY <1>0, <1>6, CanMoved DEF WaitSem, TakeSem
  <2> QED BY <2>1, PromiseStill DEF Slot, Handed
<1>7. CASE Clear("can")
  BY <1>7, ReleaseStep DEF Promise!Next
<1>8. CASE CanRespond
  <2>1. /\ UNCHANGED <<uploads, stored, restarts>>
        /\ pc["can"] = "respond" /\ pc'["can"] = "read"
    BY <1>0, <1>8, CanMoved DEF CanRespond
  <2> QED BY <2>1, PromiseStill DEF Slot, Handed
<1>9. CASE Timeout
  <2>1. UNCHANGED <<uploads, stored, restarts, pkg, pc>>
    BY <1>9 DEF Timeout
  <2> QED BY <2>1, PromiseStill DEF Slot, Handed
<1>10. CASE DataCopy
  BY <1>10, SendStep DEF Promise!Next
<1>11. CASE Restart
  <2>1. /\ UNCHANGED <<uploads, stored>> /\ restarts' = restarts + 1
        /\ pc'["can"] = "read"
    BY <1>11, Restarted DEF Restart
  <2>2. Promise!Lose
    BY <2>1 DEF Promise!Lose, Handed
  <2> QED BY <2>2 DEF Promise!Next
<1>12. CASE Others
  <2>1. UNCHANGED <<uploads, stored, pkg>> /\ pc'["can"] = pc["can"]
    BY <1>0, <1>12, OthersStill
  <2>2. restarts' = restarts
    BY <1>12 DEF Others, PingTop, PingSleep, DataWait, DataDeliver, vars, state
  <2> QED BY <2>1, <2>2, PromiseStill DEF Slot, Handed
<1> QED BY <1>1, <1>2, <1>3, <1>4, <1>5, <1>6, <1>7, <1>8, <1>9, <1>10, <1>11, <1>12,
           SingleNext DEF Numbering, Passing

(***************************************************************************)
(* With pthread_can_rcv as the only producer the buffer, its semaphore and *)
(* the signal implement HandOff: every package announced is copied for the *)
(* server and stored in the database once each, in the order in which they *)
(* were announced, and leaves the buffer only then or with the process.    *)
(***************************************************************************)
THEOREM ImplementsHandOff == Single /\ Spec => Implements
<1> SUFFICES ASSUME Single PROVE Spec => Implements
  OBVIOUS
<1> DEFINE Inv == TypeInv /\ NumInv /\ Flow /\ Kept /\ Once
<1>1. Init => Inv /\ Promise!Init
  BY TypeInit, NumInit, InitSingle, InitKept, InitOnce, InitPromise
<1>2. Inv /\ [Next]_vars => Inv'
  BY TypeStep, NumStep, FlowStep, KeptStep, OnceStep
<1>3. Inv /\ [Next]_vars => [Promise!Next]_Promise!vars
  BY PromiseStep
<1> QED BY <1>1, <1>2, <1>3, PTL DEF Spec, Implements, Promise!Spec
===============================================================================
