------------------------ MODULE LazyInstance_proofs ------------------------
(* Theorems about LazyInstance, for every value of its constants.          *)
EXTENDS LazyInstance, TLAPS

(* An object that is opening or live has a configuration, and so has one   *)
(* that a task holds, which is live or was removed, never opening again.   *)
Opened == \A i \in Insts : phase[i] # "closed" => cfg[i] \in Config

HeldOpened ==
    \A t \in Tasks : pc[t] # "idle" =>
        /\ inst[t] \in Insts
        /\ cfg[inst[t]] \in Config
        /\ phase[inst[t]] \in {"live", "closed"}
        /\ req[t] \in Requests

TypeInv == TypeOk /\ Opened /\ HeldOpened

(* The slots of a range are slot indexes of the bitmap file.               *)
LEMMA SlotsAreIndexes ==
    ASSUME NEW u \in Units, NEW R \in SUBSET Block
    PROVE  /\ SlotsFor(u, R) \subseteq SlotIndex
           /\ SlotIds(u) \subseteq SlotIndex
BY DEF SlotsFor, SlotIds, SlotIndex

(* A write of slot bytes, ones or zeros, leaves a bitmap file.             *)
LEMMA SlotWrites ==
    ASSUME NEW f \in MapFile, NEW S \in SUBSET SlotIndex
    PROVE  WriteSlots(f, S) \in MapFile /\ ClearSlots(f, S) \in MapFile
BY DEF WriteSlots, ClearSlots, Extended, MapFile

(* The range of a task is a range of blocks, whatever it holds.            *)
LEMMA RangeIsBlocks == ASSUME NEW t \in Tasks PROVE RangeOf(t) \in SUBSET Block
BY DEF RangeOf, Amplify

LEMMA TypeInvInit == Init => TypeInv
BY FaultsAssumption DEF Init, RangeMapInit, TaskInit, TypeInv, TypeOk, RangeMapTypeOk,
   Opened, HeldOpened, MapFile, NoConfig, Kinds, Config

(* Steps of the object being opened.                                       *)
LEMMA TypeInvRegistry ==
    ASSUME TypeInv, NEW i \in Insts, RegistryStep(i)
    PROVE  TypeInv'
<1> USE DEF TypeInv, TypeOk, RangeMapTypeOk, Opened, HeldOpened, mapVars, taskVars,
            Opening, Initializing, Recovering, Kinds
<1>1. ASSUME NEW c \in Config, NEW k \in Kinds, Open(i, c, k) PROVE TypeInv'
  BY <1>1 DEF Open, OpenOrCreate, Held, Config
<1>2. ASSUME OpenStep(i) PROVE TypeInv'
  <2>0. phase[i] # "closed" => cfg[i].unit \in Units /\ SlotIds(cfg[i].unit) \subseteq SlotIndex
    BY SlotsAreIndexes DEF Config, SlotIds, SlotsFor, SlotIndex
  <2>1. CASE ReadSlots(i)
    BY <1>2, <2>0, <2>1 DEF OpenStep, ReadSlots
  <2>2. CASE SetLen(i)
    BY <1>2, <2>0, <2>2 DEF OpenStep, SetLen, MapFile
  <2>3. CASE WriteHeader(i)
    BY <1>2, <2>0, <2>3 DEF OpenStep, WriteHeader, MapFile
  <2>4. CASE WriteZeros(i)
    <3>1. map' \in MapFile BY <2>0, <2>4, SlotWrites DEF WriteZeros
    <3> QED BY <1>2, <2>0, <2>4, <3>1 DEF OpenStep, WriteZeros
  <2>5. CASE RecoverCheck(i)
    BY <1>2, <2>0, <2>5 DEF OpenStep, RecoverCheck
  <2>6. CASE RecoverClear(i)
    <3>1. map' \in MapFile BY <2>6, SlotWrites DEF RecoverClear
    <3> QED BY <1>2, <2>6, <3>1 DEF OpenStep, RecoverClear
  <2>7. CASE Publish(i)
    BY <1>2, <2>7 DEF OpenStep, Publish
  <2>8. CASE Prepared(i)
    BY <1>2, <2>8 DEF OpenStep, Prepared, Drop
  <2>9. CASE OpenFail(i)
    BY <1>2, <2>9 DEF OpenStep, OpenFail, Drop
  <2>10. CASE ReadErr(i)
    BY <1>2, <2>10 DEF OpenStep, ReadErr
  <2> QED BY <1>2, <2>1, <2>2, <2>3, <2>4, <2>5, <2>6, <2>7, <2>8, <2>9, <2>10 DEF OpenStep
<1>3. ASSUME Unregister(i) PROVE TypeInv'
  BY <1>3 DEF Unregister, Held, Drop
<1> QED BY <1>1, <1>2, <1>3 DEF RegistryStep

LEMMA TypeInvTask ==
    ASSUME TypeInv, NEW t \in Tasks, TaskStep(t)
    PROVE  TypeInv'
<1> USE DEF TypeInv, TypeOk, RangeMapTypeOk, Opened, HeldOpened, mapVars,
            Running, Holding, Fetching, Goto
<1> RangeOf(t) \in SUBSET Block BY RangeIsBlocks
<1>0. pc[t] # "idle" => SlotsFor(cfg[inst[t]].unit, RangeOf(t)) \in SUBSET SlotIndex
  BY SlotsAreIndexes DEF Config
<1>1. ASSUME NEW i \in Insts, NEW R \in Requests, Begin(t, i, R) PROVE TypeInv'
  BY <1>1, RequestsAssumption DEF Begin
<1>2. CASE CheckReady(t)
  BY <1>2 DEF CheckReady, Promise, Forget
<1>3. CASE CheckMissing(t)
  BY <1>3 DEF CheckMissing
<1>4. CASE Reserve(t)
  BY <1>4 DEF Reserve
<1>5. CASE Recheck(t)
  BY <1>5 DEF Recheck
<1>6. CASE WriteBlock(t)
  BY <1>6 DEF WriteBlock, Config
<1>7. CASE MarkFile(t)
  <2>1. map' \in MapFile BY <1>0, <1>7, SlotWrites DEF MarkFile, SetFileReady
  <2> QED BY <1>7, <2>1 DEF MarkFile, SetFileReady
<1>8. CASE MarkMemory(t)
  BY <1>0, <1>8 DEF MarkMemory, SetMemoryReady
<1>9. CASE ReturnOk(t)
  BY <1>9 DEF ReturnOk, Release, Promise, Forget
<1>10. CASE ReturnErr(t)
  BY <1>10 DEF ReturnErr, Release, Forget
<1>11. CASE FetchOk(t)
  BY <1>11 DEF FetchOk
<1>12. CASE Fail(t)
  BY <1>12 DEF Fail, FetchErr, WriteErr, MarkErr
<1> QED BY <1>1, <1>2, <1>3, <1>4, <1>5, <1>6, <1>7, <1>8, <1>9, <1>10, <1>11, <1>12
        DEF TaskStep, Proceed

LEMMA TypeInvSystem ==
    ASSUME TypeInv, SystemStep
    PROVE  TypeInv'
<1> USE DEF TypeInv, TypeOk, RangeMapTypeOk, Opened, HeldOpened, taskVars,
            LoseObjects, LoseTasks, Kinds
<1>1. CASE WriteBack /\ UNCHANGED <<taskVars, promised>>
  <2>1. mapDisk' \in MapFile /\ targetDisk' \in [Block -> Blobs \cup {Hole}]
    BY <1>1 DEF WriteBack, MapFile
  <2> QED BY <1>1, <2>1 DEF WriteBack
<1>2. CASE Crash
  BY <1>2 DEF Crash
<1>3. CASE PowerLoss
  BY <1>3 DEF PowerLoss
<1> QED BY <1>1, <1>2, <1>3 DEF SystemStep

(* The type invariant is inductive with what it needs to know of the       *)
(* objects that are open and of those a task holds.                        *)
LEMMA TypeInvInvariant == Spec => []TypeInv
<1>1. TypeInv /\ UNCHANGED vars => TypeInv'
  BY DEF TypeInv, TypeOk, RangeMapTypeOk, Opened, HeldOpened, vars, mapVars, taskVars
<1>2. TypeInv /\ [Next]_vars => TypeInv'
  BY <1>1, TypeInvTask, TypeInvRegistry, TypeInvSystem DEF Next
<1> QED BY TypeInvInit, <1>2, PTL DEF Spec

(* Every variable keeps its type: the state of LazyInstance is well formed *)
(* whatever the blobs, fetch units, objects, tasks and faults are.         *)
THEOREM TypeCorrect == Spec => []TypeOk
BY TypeInvInvariant, PTL DEF TypeInv

-----------------------------------------------------------------------------
(* Exclusion.  The invariant adds that reserved ranges are not empty.      *)

(* The blocks a caller asks for are among those its task reserves.         *)
LEMMA RequestInRange ==
    ASSUME NEW t \in Tasks, TypeInv
    PROVE  req[t] \subseteq RangeOf(t)
BY DEF TypeInv, TypeOk, RangeOf, Amplify, SlotsFor

(* Ranges made of whole units are disjoint only if their slots are.        *)
LEMMA DisjointSlots ==
    ASSUME NEW u, NEW R \in SUBSET Block, NEW Q \in SUBSET Block,
           Amplify(u, R) \cap Amplify(u, Q) = {}
    PROVE  SlotsFor(u, R) \cap SlotsFor(u, Amplify(u, Q)) = {}
BY DEF Amplify, SlotsFor

(* A step keeps the configuration, and so the range, of a task that goes   *)
(* on: its instance is never opened again meanwhile.                       *)
LEMMA RangeStable ==
    ASSUME TypeInv, [Next]_vars, NEW t \in Tasks, pc[t] # "idle", pc'[t] # "idle"
    PROVE  /\ inst'[t] = inst[t]
           /\ cfg'[inst[t]] = cfg[inst[t]]
           /\ req'[t] = req[t]
           /\ RangeOf(t)' = RangeOf(t)
<1> USE DEF TypeInv, TypeOk, RangeMapTypeOk, HeldOpened
<1>1. inst'[t] = inst[t] /\ cfg'[inst[t]] = cfg[inst[t]] /\ req'[t] = req[t]
  <2>1. CASE UNCHANGED vars
    BY <2>1 DEF vars, mapVars, taskVars
  <2>2. ASSUME NEW u \in Tasks, TaskStep(u)
        PROVE  inst'[t] = inst[t] /\ cfg'[inst[t]] = cfg[inst[t]] /\ req'[t] = req[t]
    BY <2>2 DEF TaskStep, Begin, Proceed, CheckReady, CheckMissing, Reserve, Recheck,
       WriteBlock, MarkFile, MarkMemory, ReturnOk, ReturnErr, FetchOk, Fail, FetchErr,
       WriteErr, MarkErr, Goto, Forget, SetFileReady, SetMemoryReady, mapVars
  <2>3. ASSUME NEW i \in Insts, RegistryStep(i)
        PROVE  inst'[t] = inst[t] /\ cfg'[inst[t]] = cfg[inst[t]] /\ req'[t] = req[t]
    BY <2>3 DEF RegistryStep, Open, OpenOrCreate, OpenStep, Unregister, Held, Drop,
       ReadSlots, SetLen, WriteHeader, WriteZeros, RecoverCheck, RecoverClear, Publish,
       Prepared, ReadErr, OpenFail, Opening, Initializing, Recovering, taskVars
  <2>4. CASE SystemStep
    BY <2>4 DEF SystemStep, WriteBack, Crash, PowerLoss, LoseTasks, taskVars
  <2> QED BY <2>1, <2>2, <2>3, <2>4 DEF Next
<1> QED BY <1>1 DEF RangeOf, Amplify, SlotsFor

LEMMA ExclusiveInit == Init => InflightExclusive
BY DEF Init, TaskInit, InflightExclusive, Holding, Fetching

(* A step in which every task keeps its reservation or its lack of one.    *)
LEMMA ExclusiveKept ==
    ASSUME TypeInv, InflightExclusive, [Next]_vars, inflight' = inflight,
           \A t \in Tasks : (pc[t] \in Holding) = (pc'[t] \in Holding)
    PROVE  InflightExclusive'
<1>1. ASSUME NEW t \in Tasks, pc'[t] \in Holding
      PROVE  pc[t] \in Holding /\ inst'[t] = inst[t] /\ RangeOf(t)' = RangeOf(t)
  BY <1>1, RangeStable DEF Holding, Fetching
<1>2. ASSUME NEW t \in Tasks, pc[t] \in Holding PROVE pc'[t] \in Holding
  BY <1>2
<1>3. ASSUME NEW i \in Insts
      PROVE  {RangeOf(t)' : t \in {u \in Tasks : pc'[u] \in Holding /\ inst'[u] = i}} =
             {RangeOf(t) : t \in {u \in Tasks : pc[u] \in Holding /\ inst[u] = i}}
  BY <1>1, <1>2
<1> QED BY <1>1, <1>3 DEF InflightExclusive

LEMMA ExclusiveTask ==
    ASSUME TypeInv, InflightExclusive, [Next]_vars, NEW t \in Tasks, TaskStep(t)
    PROVE  InflightExclusive'
<1> USE DEF TypeInv, TypeOk, Goto, Holding, Fetching, Running
<1>0. RangeOf(t) \in SUBSET Block /\ (pc[t] # "idle" => RangeOf(t) # {} /\ inst[t] \in Insts)
  BY RangeIsBlocks, RequestInRange, RequestsAssumption DEF HeldOpened
<1>1. CASE \E i \in Insts, R \in Requests : Begin(t, i, R)
  BY <1>1, ExclusiveKept DEF Begin
<1>2. CASE CheckReady(t)
  BY <1>2, ExclusiveKept DEF CheckReady
<1>3. CASE CheckMissing(t)
  BY <1>3, ExclusiveKept DEF CheckMissing
<1>4. CASE Reserve(t)
  <2>1. \A u \in Tasks : inst'[u] = inst[u] /\ RangeOf(u)' = RangeOf(u)
    BY <1>4 DEF Reserve, mapVars, RangeOf, Amplify, SlotsFor
  <2>2. \A u \in Tasks : pc[u] \in Holding /\ inst[u] = inst[t]
                           => RangeOf(u) \cap RangeOf(t) = {}
    <3>1. inst[t] \in Insts /\ \A R \in inflight[inst[t]] : R \cap RangeOf(t) = {}
      BY <1>0, <1>4 DEF Reserve
    <3>2. \A u \in Tasks : pc[u] \in Holding /\ inst[u] = inst[t]
                             => RangeOf(u) \in inflight[inst[t]]
      BY <3>1 DEF InflightExclusive
    <3> QED BY <3>1, <3>2
  <2>3. \A u \in Tasks : pc'[u] \in Holding <=> u = t \/ pc[u] \in Holding
    BY <1>4 DEF Reserve
  <2>4. ASSUME NEW i \in Insts
        PROVE  inflight'[i] =
                 {RangeOf(u)' : u \in {v \in Tasks : pc'[v] \in Holding /\ inst'[v] = i}}
    <3>1. inflight[i] = {RangeOf(u) : u \in {v \in Tasks : pc[v] \in Holding /\ inst[v] = i}}
      BY DEF InflightExclusive
    <3>2. CASE i = inst[t]
      <4>1. inflight'[i] = inflight[i] \cup {RangeOf(t)} BY <1>4, <3>2 DEF Reserve
      <4> QED BY <2>1, <2>3, <3>1, <3>2, <4>1
    <3>3. CASE i # inst[t]
      <4>1. inflight'[i] = inflight[i] BY <1>4, <3>3 DEF Reserve
      <4>2. \A u \in Tasks : pc'[u] \in Holding /\ inst'[u] = i
                             <=> pc[u] \in Holding /\ inst[u] = i
        BY <2>1, <2>3, <3>3
      <4> QED BY <2>1, <3>1, <4>1, <4>2
    <3> QED BY <3>2, <3>3
  <2> QED BY <2>1, <2>2, <2>3, <2>4 DEF InflightExclusive
<1>5. CASE ReturnOk(t) \/ ReturnErr(t)
  <2>1. /\ inflight' = [inflight EXCEPT ![inst[t]] = @ \ {RangeOf(t)}]
        /\ pc[t] \in Holding
        /\ pc' = [pc EXCEPT ![t] = "idle"]
        /\ cfg' = cfg
        /\ \A u \in Tasks \ {t} : inst'[u] = inst[u] /\ req'[u] = req[u]
    BY <1>5 DEF ReturnOk, ReturnErr, Release, Forget, mapVars
  <2>2. \A u \in Tasks \ {t} : inst'[u] = inst[u] /\ RangeOf(u)' = RangeOf(u)
    BY <2>1 DEF RangeOf, Amplify, SlotsFor
  <2>3. \A u \in Tasks : pc'[u] \in Holding <=> u # t /\ pc[u] \in Holding
    BY <2>1
  <2>4. \A u \in Tasks \ {t} : pc[u] \in Holding /\ inst[u] = inst[t]
                                 => RangeOf(u) # RangeOf(t)
    BY <1>0, <2>1 DEF InflightExclusive
  <2>5. ASSUME NEW i \in Insts
        PROVE  inflight'[i] =
                 {RangeOf(u)' : u \in {v \in Tasks : pc'[v] \in Holding /\ inst'[v] = i}}
    <3>1. CASE i = inst[t]
      <4>1. inflight'[i] = inflight[i] \ {RangeOf(t)} BY <2>1, <3>1
      <4>2. inflight[i] = {RangeOf(u) : u \in {v \in Tasks : pc[v] \in Holding /\ inst[v] = i}}
        BY DEF InflightExclusive
      <4> QED BY <2>1, <2>2, <2>3, <2>4, <3>1, <4>1, <4>2
    <3>2. CASE i # inst[t]
      <4>1. inflight'[i] = inflight[i] BY <2>1, <3>2
      <4>2. inflight[i] = {RangeOf(u) : u \in {v \in Tasks : pc[v] \in Holding /\ inst[v] = i}}
        BY DEF InflightExclusive
      <4>3. \A u \in Tasks : pc'[u] \in Holding /\ inst'[u] = i
                             <=> pc[u] \in Holding /\ inst[u] = i
        BY <2>1, <2>2, <2>3, <3>2
      <4> QED BY <2>2, <2>3, <4>1, <4>2, <4>3
    <3> QED BY <3>1, <3>2
  <2> QED BY <2>2, <2>3, <2>5 DEF InflightExclusive
<1>6. CASE Recheck(t)
  BY <1>6, ExclusiveKept DEF Recheck
<1>7. CASE WriteBlock(t)
  BY <1>7, ExclusiveKept DEF WriteBlock
<1>8. CASE MarkFile(t) \/ MarkMemory(t)
  BY <1>8, ExclusiveKept DEF MarkFile, MarkMemory
<1>9. CASE FetchOk(t) \/ Fail(t)
  BY <1>9, ExclusiveKept DEF FetchOk, Fail, FetchErr, WriteErr, MarkErr
<1> QED BY <1>1, <1>2, <1>3, <1>4, <1>5, <1>6, <1>7, <1>8, <1>9 DEF TaskStep, Proceed

LEMMA ExclusiveRegistry ==
    ASSUME TypeInv, InflightExclusive, [Next]_vars, NEW i \in Insts, RegistryStep(i)
    PROVE  InflightExclusive'
<1>1. CASE \E c \in Config, k \in Kinds : Open(i, c, k)
  <2>1. pc' = pc /\ \A t \in Tasks : inst[t] # i
    BY <1>1 DEF Open, Held
  <2>2. {u \in Tasks : pc[u] \in Holding /\ inst[u] = i} = {}
    BY <2>1
  <2>3. inflight' = inflight
    BY <1>1, <2>2 DEF Open, InflightExclusive, TypeInv, TypeOk
  <2> QED BY <2>1, <2>3, ExclusiveKept
<1>2. CASE OpenStep(i) \/ Unregister(i)
  <2>1. pc' = pc /\ inflight' = inflight BY <1>2 DEF OpenStep, Unregister, taskVars
  <2> QED BY <2>1, ExclusiveKept
<1> QED BY <1>1, <1>2 DEF RegistryStep

LEMMA ExclusiveSystem ==
    ASSUME TypeInv, InflightExclusive, [Next]_vars, SystemStep
    PROVE  InflightExclusive'
<1>1. CASE WriteBack /\ UNCHANGED <<taskVars, promised>>
  BY <1>1, ExclusiveKept DEF taskVars
<1>2. CASE Crash \/ PowerLoss
  BY <1>2 DEF Crash, PowerLoss, LoseTasks, InflightExclusive, Holding, Fetching
<1> QED BY <1>1, <1>2 DEF SystemStep

LEMMA ExclusiveInvariant == Spec => [](TypeInv /\ InflightExclusive)
<1>1. TypeInv /\ InflightExclusive /\ UNCHANGED vars => InflightExclusive'
  <2> SUFFICES ASSUME TypeInv, InflightExclusive, UNCHANGED vars PROVE InflightExclusive'
    OBVIOUS
  <2>1. pc' = pc /\ inflight' = inflight BY DEF vars, taskVars
  <2> QED BY <2>1, ExclusiveKept
<1>2. TypeInv /\ InflightExclusive /\ [Next]_vars => InflightExclusive'
  BY <1>1, ExclusiveTask, ExclusiveRegistry, ExclusiveSystem DEF Next
<1> QED BY TypeInvInvariant, ExclusiveInit, <1>2, PTL DEF Spec

(* Two tasks never download overlapping ranges of one instance, and the    *)
(* inflight list holds what running tasks reserved and nothing else, for   *)
(* any number of tasks, units and requests: reserve_inflight and its guard *)
(* are a mutual exclusion per fetch unit.                                  *)
THEOREM ReservationsExclusive == Spec => []InflightExclusive
BY ExclusiveInvariant, PTL

-----------------------------------------------------------------------------
(* No unnecessary download.                                                *)

(* Only a publication changes the ready slots of an object a task holds.   *)
LEMMA SlotsStable ==
    ASSUME TypeInv, [Next]_vars, NEW t \in Tasks, pc[t] # "idle", pc'[t] # "idle",
           \A u \in Tasks : ~MarkMemory(u)
    PROVE  slots'[inst[t]] = slots[inst[t]]
<1> USE DEF TypeInv, TypeOk, RangeMapTypeOk, HeldOpened
<1>1. CASE UNCHANGED vars
  BY <1>1 DEF vars, mapVars
<1>2. ASSUME NEW u \in Tasks, TaskStep(u) PROVE slots' = slots
  BY <1>2 DEF TaskStep, Begin, Proceed, CheckReady, CheckMissing, Reserve, Recheck,
     WriteBlock, MarkFile, ReturnOk, ReturnErr, FetchOk, Fail, FetchErr,
     WriteErr, MarkErr, SetFileReady, mapVars
<1>3. ASSUME NEW i \in Insts, RegistryStep(i) PROVE slots'[inst[t]] = slots[inst[t]]
  BY <1>3 DEF RegistryStep, Open, OpenOrCreate, OpenStep, Unregister, Held, Drop,
     ReadSlots, SetLen, WriteHeader, WriteZeros, RecoverCheck, RecoverClear, Publish,
     Prepared, ReadErr, OpenFail, Opening, Initializing, Recovering
<1>4. CASE SystemStep
  BY <1>4 DEF SystemStep, WriteBack, Crash, PowerLoss, LoseTasks
<1> QED BY <1>1, <1>2, <1>3, <1>4 DEF Next

LEMMA FetchNeededNext ==
    ASSUME TypeInv, InflightExclusive, FetchIsNeeded, [Next]_vars
    PROVE  FetchIsNeeded'
<1> SUFFICES ASSUME NEW t \in Tasks, pc'[t] \in Fetching
             PROVE  ~IsRangeReady(inst[t], req[t])'
  BY DEF FetchIsNeeded
<1> USE DEF TypeInv, TypeOk, RangeMapTypeOk, Goto, Fetching
<1>1. pc[t] \in Fetching \/ Recheck(t)
  <2>1. CASE UNCHANGED vars
    BY <2>1 DEF vars, taskVars
  <2>2. ASSUME NEW u \in Tasks, TaskStep(u) PROVE pc[t] \in Fetching \/ Recheck(t)
    BY <2>2 DEF TaskStep, Begin, Proceed, CheckReady, CheckMissing, Reserve, Recheck,
       WriteBlock, MarkFile, MarkMemory, ReturnOk, ReturnErr, FetchOk, Fail, FetchErr,
       WriteErr, MarkErr
  <2>3. ASSUME NEW i \in Insts, RegistryStep(i) PROVE pc' = pc
    BY <2>3 DEF RegistryStep, Open, OpenStep, Unregister, taskVars
  <2>4. CASE SystemStep
    BY <2>4 DEF SystemStep, Crash, PowerLoss, LoseTasks, taskVars
  <2> QED BY <2>1, <2>2, <2>3, <2>4 DEF Next
<1>2. ~IsRangeReady(inst[t], req[t]) /\ pc[t] # "idle"
  <2>1. CASE pc[t] \in Fetching BY <2>1 DEF FetchIsNeeded
  <2>2. CASE Recheck(t) BY <2>2 DEF Recheck
  <2> QED BY <1>1, <2>1, <2>2
<1>3. inst'[t] = inst[t] /\ cfg'[inst[t]] = cfg[inst[t]] /\ req'[t] = req[t]
  BY <1>2, RangeStable
<1>4. CASE \A u \in Tasks : ~MarkMemory(u)
  <2>1. slots'[inst[t]] = slots[inst[t]] BY <1>2, <1>4, SlotsStable
  <2> QED BY <1>2, <1>3, <2>1 DEF IsRangeReady, SlotsFor
<1>5. ASSUME NEW u \in Tasks, MarkMemory(u) PROVE ~IsRangeReady(inst[t], req[t])'
  <2>1. /\ u # t
        /\ pc[t] \in Fetching
        /\ pc[u] = "publish"
        /\ slots' = [slots EXCEPT ![inst[u]] =
                       @ \cup SlotsFor(cfg[inst[u]].unit, RangeOf(u))]
    BY <1>1, <1>5 DEF MarkMemory, SetMemoryReady, Recheck
  <2>2. inst[t] \in Insts /\ inst[u] \in Insts
    BY <1>2, <2>1 DEF HeldOpened
  <2>3. CASE inst[u] # inst[t]
    <3>1. slots'[inst[t]] = slots[inst[t]] BY <2>1, <2>2, <2>3
    <3> QED BY <1>2, <1>3, <3>1 DEF IsRangeReady, SlotsFor
  <2>4. CASE inst[u] = inst[t]
    <3> DEFINE n == cfg[inst[t]].unit
    <3>1. RangeOf(t) \cap RangeOf(u) = {}
      BY <2>1, <2>4 DEF InflightExclusive, Holding
    <3>2. SlotsFor(n, req[t]) \cap SlotsFor(n, RangeOf(u)) = {}
      BY <2>4, <3>1, DisjointSlots DEF RangeOf
    <3>3. slots'[inst[t]] = slots[inst[t]] \cup SlotsFor(n, RangeOf(u))
      BY <2>1, <2>2, <2>4
    <3>4. ~(SlotsFor(n, req[t]) \subseteq slots'[inst[t]])
      BY <1>2, <3>2, <3>3 DEF IsRangeReady
    <3> QED BY <1>3, <3>4 DEF IsRangeReady, SlotsFor
  <2> QED BY <2>3, <2>4
<1> QED BY <1>4, <1>5

LEMMA FetchNeededInit == Init => FetchIsNeeded
BY DEF Init, TaskInit, FetchIsNeeded, Fetching

(* The second check under the reservation is enough: whatever the other    *)
(* tasks do, a unit that is ready is never downloaded or published again,  *)
(* because nobody else can publish a slot of a reserved range.             *)
THEOREM NoDuplicateFetch == Spec => []FetchIsNeeded
<1>1. TypeInv /\ InflightExclusive /\ FetchIsNeeded /\ [Next]_vars => FetchIsNeeded'
  BY FetchNeededNext
<1> QED BY ExclusiveInvariant, FetchNeededInit, <1>1, PTL DEF Spec

-----------------------------------------------------------------------------
(* What is ready, or was answered, has been written.                       *)

Filled(R) == \A b \in R : target[b] # Hole

(* The parts of the inductive invariant: every claim the program makes     *)
(* about a block, in the memory of an object, in the progress of a task or *)
(* in an answer, is about a block that is no hole.                         *)
ReadyFilled ==
    \A i \in Insts : \A s \in slots[i] \ todo[i] : Filled(SlotBlocks(cfg[i].unit, s))
TodoOnlyRecovering == \A i \in Insts : phase[i] \notin Recovering => todo[i] = {}
WrittenFilled ==
    \A t \in Tasks :
        /\ pc[t] = "write" => Filled(RangeOf(t) \ left[t])
        /\ pc[t] \in {"mark", "publish"} => Filled(RangeOf(t))
        /\ pc[t] = "done" => Filled(req[t])

Stored == ReadyFilled /\ TodoOnlyRecovering /\ WrittenFilled /\ AnsweredIsPresent

(* A range whose slots are ready is filled.                                *)
LEMMA ReadyRange ==
    ASSUME TypeInv, Stored, NEW t \in Tasks, pc[t] # "idle", IsRangeReady(inst[t], req[t])
    PROVE  Filled(req[t])
<1>1. inst[t] \in Insts /\ todo[inst[t]] = {} /\ req[t] \in SUBSET Block
  BY DEF TypeInv, TypeOk, HeldOpened, Stored, TodoOnlyRecovering, Recovering
<1>2. ASSUME NEW b \in req[t] PROVE target[b] # Hole
  <2>1. SlotOf(cfg[inst[t]].unit, b) \in slots[inst[t]] \ todo[inst[t]]
    BY <1>1 DEF IsRangeReady, SlotsFor
  <2>2. b \in SlotBlocks(cfg[inst[t]].unit, SlotOf(cfg[inst[t]].unit, b))
    BY <1>1 DEF SlotBlocks
  <2> QED BY <1>1, <2>1, <2>2 DEF Stored, ReadyFilled, Filled
<1> QED BY <1>2 DEF Filled

(* The blocks of the slots of an amplified range are the range.            *)
LEMMA SlotsOfRange ==
    ASSUME NEW u, NEW R \in SUBSET Block, NEW s \in SlotsFor(u, Amplify(u, R))
    PROVE  SlotBlocks(u, s) \subseteq Amplify(u, R)
BY DEF SlotsFor, Amplify, SlotBlocks

(* Only a loss of power makes a hole.                                      *)
LEMMA FilledGrows ==
    ASSUME TypeInv, [Next]_vars, ~PowerLoss, NEW b \in Block, target[b] # Hole
    PROVE  target'[b] # Hole
<1>1. CASE UNCHANGED vars
  BY <1>1 DEF vars, mapVars
<1>2. ASSUME NEW t \in Tasks, TaskStep(t) PROVE target'[b] # Hole
  <2>1. CASE WriteBlock(t)
    <3>1. cfg[inst[t]].blob \in Blobs
      BY <2>1 DEF WriteBlock, Goto, TypeInv, HeldOpened, Config
    <3> QED BY <2>1, <3>1, BlobsAssumption DEF WriteBlock, TypeInv, TypeOk, RangeMapTypeOk
  <2>2. CASE ~WriteBlock(t)
    BY <1>2, <2>2 DEF TaskStep, Begin, Proceed, CheckReady, CheckMissing, Reserve,
       Recheck, MarkFile, MarkMemory, ReturnOk, ReturnErr, FetchOk, Fail, FetchErr,
       WriteErr, MarkErr, SetFileReady, SetMemoryReady, mapVars
  <2> QED BY <2>1, <2>2
<1>3. ASSUME NEW i \in Insts, RegistryStep(i) PROVE target' = target
  BY <1>3 DEF RegistryStep, Open, OpenOrCreate, OpenStep, Unregister, Drop, ReadSlots,
     SetLen, WriteHeader, WriteZeros, RecoverCheck, RecoverClear, Publish, Prepared,
     ReadErr, OpenFail
<1>4. CASE SystemStep
  BY <1>4 DEF SystemStep, WriteBack, Crash
<1> QED BY <1>1, <1>2, <1>3, <1>4 DEF Next

LEMMA StoredInit == Init => Stored
BY DEF Init, RangeMapInit, TaskInit, Stored, ReadyFilled, TodoOnlyRecovering,
   WrittenFilled, AnsweredIsPresent, Filled

LEMMA StoredRegistry ==
    ASSUME TypeInv, Stored, [Next]_vars, NEW i \in Insts, RegistryStep(i)
    PROVE  Stored'
<1> USE DEF TypeInv, TypeOk, RangeMapTypeOk
<1>1. target' = target /\ pc' = pc /\ left' = left /\ req' = req
  BY DEF RegistryStep, Open, OpenOrCreate, OpenStep, Unregister, Drop, ReadSlots,
     SetLen, WriteHeader, WriteZeros, RecoverCheck, RecoverClear, Publish, Prepared,
     ReadErr, OpenFail, taskVars
<1>2. WrittenFilled'
  <2>1. ASSUME NEW t \in Tasks, pc[t] # "idle" PROVE RangeOf(t)' = RangeOf(t)
    BY <1>1, <2>1, RangeStable
  <2> QED BY <1>1, <2>1 DEF Stored, WrittenFilled, Filled
<1>3. AnsweredIsPresent'
  <2>1. \A B \in Blobs : promised'[B] \subseteq promised[B]
    BY DEF RegistryStep, Open, OpenStep, Unregister
  <2> QED BY <1>1, <2>1 DEF Stored, AnsweredIsPresent
<1>4. TodoOnlyRecovering'
  BY DEF Stored, TodoOnlyRecovering, RegistryStep, Open, OpenOrCreate, OpenStep,
     Unregister, Drop, ReadSlots, SetLen, WriteHeader, WriteZeros, RecoverCheck,
     RecoverClear, Publish, Prepared, ReadErr, OpenFail, Recovering
<1>5. \A j \in Insts \ {i} : slots'[j] = slots[j] /\ todo'[j] = todo[j] /\ cfg'[j] = cfg[j]
  BY DEF RegistryStep, Open, OpenOrCreate, OpenStep, Unregister, Drop, ReadSlots,
     SetLen, WriteHeader, WriteZeros, RecoverCheck, RecoverClear, Publish, Prepared,
     ReadErr, OpenFail
<1>6. ASSUME NEW s \in slots'[i] \ todo'[i]
      PROVE  Filled(SlotBlocks(cfg'[i].unit, s))
  <2>1. CASE RecoverCheck(i)
    <3>1. cfg' = cfg /\ slots' = slots BY <2>1 DEF RecoverCheck
    <3>2. s \in slots[i] \ todo[i] \/ RangeIsPresent(SlotBlocks(cfg[i].unit, s))
      BY <1>6, <2>1, <3>1 DEF RecoverCheck
    <3> QED BY <3>1, <3>2 DEF Stored, ReadyFilled, RangeIsPresent, Filled
  <2>2. CASE RecoverClear(i)
    <3>1. cfg' = cfg /\ s \in slots[i] \ todo[i]
      BY <1>6, <2>2 DEF RecoverClear
    <3> QED BY <3>1 DEF Stored, ReadyFilled
  <2>3. CASE ReadSlots(i)
    <3>1. cfg' = cfg /\ s \in slots[i] \ todo[i]
      BY <1>6, <2>3 DEF ReadSlots
    <3> QED BY <3>1 DEF Stored, ReadyFilled
  <2>4. CASE ~RecoverCheck(i) /\ ~RecoverClear(i) /\ ~ReadSlots(i)
    <3>1. cfg'[i] = cfg[i] /\ s \in slots[i] \ todo[i]
      BY <1>6, <2>4 DEF RegistryStep, Open, OpenOrCreate, OpenStep, Unregister, Drop,
         SetLen, WriteHeader, WriteZeros, Publish, Prepared, ReadErr, OpenFail
    <3> QED BY <3>1 DEF Stored, ReadyFilled
  <2> QED BY <2>1, <2>2, <2>3, <2>4
<1>7. ReadyFilled'
  BY <1>1, <1>5, <1>6 DEF Stored, ReadyFilled, Filled, SlotBlocks
<1> QED BY <1>2, <1>3, <1>4, <1>7 DEF Stored

LEMMA StoredTask ==
    ASSUME TypeInv, Stored, [Next]_vars, NEW t \in Tasks, TaskStep(t)
    PROVE  Stored'
<1> USE DEF TypeInv, TypeOk, RangeMapTypeOk, Goto
<1>0. \A b \in Block : target[b] # Hole => target'[b] # Hole
  <2>1. ~PowerLoss \/ \A b \in Block : target'[b] = target[b]
    BY DEF PowerLoss, LoseTasks, TaskStep, Begin, Proceed, CheckReady, CheckMissing,
       Reserve, Recheck, WriteBlock, MarkFile, MarkMemory, ReturnOk, ReturnErr, FetchOk,
       Fail, FetchErr, WriteErr, MarkErr, SetFileReady, SetMemoryReady, mapVars
  <2> QED BY <2>1, FilledGrows
<1>1. phase' = phase /\ cfg' = cfg /\ todo' = todo
  BY DEF TaskStep, Begin, Proceed, CheckReady, CheckMissing, Reserve, Recheck,
     WriteBlock, MarkFile, MarkMemory, ReturnOk, ReturnErr, FetchOk, Fail, FetchErr,
     WriteErr, MarkErr, SetFileReady, SetMemoryReady, mapVars
<1>2. TodoOnlyRecovering'
  BY <1>1 DEF Stored, TodoOnlyRecovering
<1>3. ReadyFilled'
  <2>1. ASSUME NEW i \in Insts, NEW s \in slots'[i] \ todo'[i]
        PROVE  Filled(SlotBlocks(cfg[i].unit, s))
    <3>1. CASE s \in slots[i] BY <1>1, <2>1, <3>1 DEF Stored, ReadyFilled
    <3>2. CASE s \notin slots[i]
      <4>1. MarkMemory(t) /\ i = inst[t] /\ s \in SlotsFor(cfg[i].unit, RangeOf(t))
        BY <2>1, <3>2 DEF TaskStep, Begin, Proceed, CheckReady, CheckMissing, Reserve,
           Recheck, WriteBlock, MarkFile, MarkMemory, ReturnOk, ReturnErr, FetchOk,
           Fail, FetchErr, WriteErr, MarkErr, SetFileReady, SetMemoryReady, mapVars
      <4>2. SlotBlocks(cfg[i].unit, s) \subseteq RangeOf(t)
        BY <4>1, SlotsOfRange DEF RangeOf
      <4>3. Filled(RangeOf(t))
        BY <4>1 DEF MarkMemory, Stored, WrittenFilled
      <4> QED BY <4>2, <4>3 DEF Filled
    <3> QED BY <3>1, <3>2
  <2> QED BY <1>0, <1>1, <2>1 DEF ReadyFilled, Filled, SlotBlocks
<1>4. WrittenFilled'
  <2>1. ASSUME NEW u \in Tasks, pc'[u] \in {"write", "mark", "publish", "done"}
        PROVE  /\ RangeOf(u)' = RangeOf(u) /\ RangeOf(u) \in SUBSET Block
               /\ req'[u] = req[u] /\ req[u] \in SUBSET Block /\ pc[u] # "idle"
    <3>1. pc[u] # "idle"
      BY <2>1 DEF TaskStep, Begin, Proceed, CheckReady, CheckMissing, Reserve, Recheck,
         WriteBlock, MarkFile, MarkMemory, ReturnOk, ReturnErr, FetchOk, Fail, FetchErr,
         WriteErr, MarkErr
    <3> QED BY <2>1, <3>1, RangeStable, RangeIsBlocks
  <2>2. ASSUME NEW u \in Tasks \ {t} PROVE pc'[u] = pc[u] /\ left'[u] = left[u]
    BY <2>2 DEF TaskStep, Begin, Proceed, CheckReady, CheckMissing, Reserve, Recheck,
       WriteBlock, MarkFile, MarkMemory, ReturnOk, ReturnErr, FetchOk, Fail, FetchErr,
       WriteErr, MarkErr
  <2>3. ASSUME pc'[t] = "write" PROVE Filled(RangeOf(t) \ left[t])'
    <3>1. CASE FetchOk(t)
      <4>1. RangeOf(t) \ left'[t] = {} BY <3>1 DEF FetchOk
      <4> QED BY <2>1, <2>3, <4>1 DEF Filled
    <3>2. CASE WriteBlock(t)
      <4>1. PICK b \in left[t] : /\ target' = [target EXCEPT ![b] = cfg[inst[t]].blob]
                                 /\ left' = [left EXCEPT ![t] = @ \ {b}]
        BY <3>2 DEF WriteBlock
      <4>2. target'[b] # Hole
        BY <3>2, <4>1, BlobsAssumption DEF WriteBlock, HeldOpened, Config
      <4>3. Filled(RangeOf(t) \ left[t]) BY <3>2 DEF WriteBlock, Stored, WrittenFilled
      <4> QED BY <1>0, <2>1, <2>3, <4>1, <4>2, <4>3 DEF Filled
    <3> QED BY <2>3, <3>1, <3>2 DEF TaskStep, Begin, Proceed, CheckReady, CheckMissing,
       Reserve, Recheck, MarkFile, MarkMemory, ReturnOk, ReturnErr, Fail, FetchErr,
       WriteErr, MarkErr
  <2>4. ASSUME pc'[t] \in {"mark", "publish"} PROVE Filled(RangeOf(t))'
    <3>1. CASE WriteBlock(t)
      <4>0. PICK b \in left[t] :
              /\ target' = [target EXCEPT ![b] = cfg[inst[t]].blob]
              /\ pc' = [pc EXCEPT ![t] = IF left[t] = {b} THEN "mark" ELSE "write"]
        BY <3>1 DEF WriteBlock
      <4>1. left[t] = {b} BY <2>4, <4>0
      <4>2. target'[b] # Hole
        BY <3>1, <4>0, BlobsAssumption DEF WriteBlock, HeldOpened, Config
      <4>3. Filled(RangeOf(t) \ left[t]) BY <3>1 DEF WriteBlock, Stored, WrittenFilled
      <4> QED BY <1>0, <2>1, <2>4, <4>0, <4>1, <4>2, <4>3 DEF Filled
    <3>2. CASE MarkFile(t)
      <4>1. Filled(RangeOf(t)) BY <3>2 DEF MarkFile, Stored, WrittenFilled
      <4> QED BY <1>0, <2>1, <2>4, <4>1 DEF Filled
    <3> QED BY <2>4, <3>1, <3>2 DEF TaskStep, Begin, Proceed, CheckReady, CheckMissing,
       Reserve, Recheck, MarkMemory, ReturnOk, ReturnErr, FetchOk, Fail, FetchErr,
       WriteErr, MarkErr
  <2>5. ASSUME pc'[t] = "done" PROVE Filled(req[t])'
    <3>1. CASE MarkMemory(t)
      <4>1. Filled(RangeOf(t)) BY <3>1 DEF MarkMemory, Stored, WrittenFilled
      <4> QED BY <1>0, <2>1, <2>5, <4>1, RequestInRange DEF Filled
    <3>2. CASE Recheck(t)
      <4>1. Filled(req[t]) BY <2>5, <3>2, ReadyRange DEF Recheck
      <4> QED BY <1>0, <2>1, <2>5, <4>1 DEF Filled
    <3> QED BY <2>5, <3>1, <3>2 DEF TaskStep, Begin, Proceed, CheckReady, CheckMissing,
       Reserve, WriteBlock, MarkFile, ReturnOk, ReturnErr, FetchOk, Fail, FetchErr,
       WriteErr, MarkErr
  <2>6. ASSUME NEW u \in Tasks \ {t}
        PROVE  /\ pc'[u] = "write" => Filled(RangeOf(u) \ left[u])'
               /\ pc'[u] \in {"mark", "publish"} => Filled(RangeOf(u))'
               /\ pc'[u] = "done" => Filled(req[u])'
    BY <1>0, <2>1, <2>2 DEF Stored, WrittenFilled, Filled
  <2> QED BY <2>3, <2>4, <2>5, <2>6 DEF WrittenFilled
<1>5. AnsweredIsPresent'
  <2>1. ASSUME NEW B \in Blobs, NEW b \in promised'[B] PROVE b \in Block /\ target[b] # Hole
    <3>1. CASE b \in promised[B] BY <3>1 DEF Stored, AnsweredIsPresent
    <3>2. CASE b \notin promised[B]
      <4>1. (CheckReady(t) \/ ReturnOk(t)) /\ b \in req[t]
        BY <2>1, <3>2 DEF TaskStep, Begin, Proceed, CheckReady, CheckMissing, Reserve,
           Recheck, WriteBlock, MarkFile, MarkMemory, ReturnOk, ReturnErr, FetchOk,
           Fail, FetchErr, WriteErr, MarkErr, Promise
      <4>2. Filled(req[t])
        BY <4>1, ReadyRange DEF CheckReady, ReturnOk, Stored, WrittenFilled
      <4> QED BY <4>1, <4>2 DEF Filled
    <3> QED BY <3>1, <3>2
  <2> QED BY <1>0, <2>1 DEF AnsweredIsPresent, Filled
<1> QED BY <1>2, <1>3, <1>4, <1>5 DEF Stored

LEMMA StoredSystem ==
    ASSUME TypeInv, Stored, [Next]_vars, SystemStep
    PROVE  Stored'
<1> USE DEF TypeInv, TypeOk, RangeMapTypeOk
<1>1. CASE WriteBack /\ UNCHANGED <<taskVars, promised>>
  BY <1>1 DEF WriteBack, taskVars, Stored, ReadyFilled, TodoOnlyRecovering,
     WrittenFilled, AnsweredIsPresent, Filled, SlotBlocks, RangeOf, Amplify, SlotsFor
<1>2. CASE Crash
  BY <1>2 DEF Crash, LoseObjects, LoseTasks, Stored, ReadyFilled, TodoOnlyRecovering,
     WrittenFilled, AnsweredIsPresent
<1>3. CASE PowerLoss
  BY <1>3 DEF PowerLoss, LoseObjects, LoseTasks, Stored, ReadyFilled,
     TodoOnlyRecovering, WrittenFilled, AnsweredIsPresent
<1> QED BY <1>1, <1>2, <1>3 DEF SystemStep

LEMMA StoredInvariant == Spec => [](TypeInv /\ Stored)
<1>1. TypeInv /\ Stored /\ UNCHANGED vars => Stored'
  BY DEF vars, mapVars, taskVars, Stored, ReadyFilled, TodoOnlyRecovering,
     WrittenFilled, AnsweredIsPresent, Filled, SlotBlocks, RangeOf, Amplify, SlotsFor
<1>2. TypeInv /\ Stored /\ [Next]_vars => Stored'
  BY <1>1, StoredTask, StoredRegistry, StoredSystem DEF Next
<1> QED BY TypeInvInvariant, StoredInit, <1>2, PTL DEF Spec

(* A caller that was told a range is there never reads a hole from it, for *)
(* any blobs, objects, tasks and faults, stale instances and interrupted   *)
(* initializations included; only power loss, which ends the caller too,   *)
(* makes a written block a hole again.                                     *)
THEOREM NeverAHole == Spec => []AnsweredIsPresent
BY StoredInvariant, PTL DEF Stored

-----------------------------------------------------------------------------
(* A target that only ever holds one blob.  With two, AnsweredIsWritten    *)
(* is not an invariant.                                                    *)

OneBlob == \A B, C \in Blobs : B = C

LEMMA StoredIsWritten ==
    ASSUME OneBlob, TypeInv, Stored
    PROVE  AnsweredIsWritten /\ ReadyIsWritten
<1>1. \A b \in Block, B \in Blobs : target[b] # Hole => target[b] = B
  BY DEF OneBlob, TypeInv, TypeOk, RangeMapTypeOk
<1>2. AnsweredIsWritten
  BY <1>1 DEF AnsweredIsWritten, Stored, AnsweredIsPresent, TypeInv, TypeOk
<1>3. ReadyIsWritten
  <2>1. ASSUME NEW i \in Insts, phase[i] \in {"live", "built"} \cup Recovering
        PROVE  cfg[i].blob \in Blobs
    BY <2>1 DEF TypeInv, Opened, Config, Recovering
  <2> QED BY <1>1, <2>1 DEF ReadyIsWritten, Stored, ReadyFilled, Filled, SlotBlocks
<1> QED BY <1>2, <1>3

(* While the target is configured for one blob, whatever its fetch units,  *)
(* crashes, losses of power, I/O errors and concurrent preparations, a     *)
(* successful ensure_range means the bytes are those of the blob.          *)
THEOREM AnswersAreTrue == ASSUME OneBlob PROVE Spec => []AnsweredIsWritten
BY StoredInvariant, StoredIsWritten, PTL

(* And so does a ready slot of any object: recovery lets no slot through   *)
(* that a crash or a loss of power left without its data.                  *)
THEOREM ReadySlotsAreTrue == ASSUME OneBlob PROVE Spec => []ReadyIsWritten
BY StoredInvariant, StoredIsWritten, PTL
-----------------------------------------------------------------------------
(* One object at a time: its memory, the bitmap file and the answers.      *)

OneObject == \A i, j \in Insts : i = j

Working(i) == \E t \in Tasks : pc[t] # "idle" /\ inst[t] = i
InUse(i) == phase[i] \in {"built", "live"} \cup Recovering \/ Working(i)

(* The bitmap file is the file of the object in use, and has what the      *)
(* object has, and what a task is about to add to it.                      *)
FileFollows ==
    \A i \in Insts :
        /\ phase[i] \in {"slots", "zero"} => map.hdr = cfg[i]
        /\ phase[i] \in {"slots"} \cup Initializing => slots[i] = {}
        /\ InUse(i) => map.hdr = cfg[i] /\ slots[i] \subseteq map.slots
MarkedInFile ==
    \A t \in Tasks : pc[t] = "publish" => SlotsFor(cfg[inst[t]].unit, RangeOf(t)) \subseteq map.slots

DurableInv == FileFollows /\ MarkedInFile

LEMMA DurableInit == Init => DurableInv
BY DEF Init, RangeMapInit, TaskInit, DurableInv, FileFollows, MarkedInFile, InUse, Working, Initializing, Recovering

(* An object that is being opened is no task's.                            *)
LEMMA OpeningIsFree ==
    ASSUME OneObject, TypeInv, NEW i \in Insts, phase[i] \in Opening
    PROVE  \A t \in Tasks : pc[t] = "idle"
BY DEF OneObject, TypeInv, HeldOpened, Opening, Initializing, Recovering

LEMMA DurableRegistry ==
    ASSUME OneObject, TypeInv, DurableInv, NEW i \in Insts, RegistryStep(i)
    PROVE  DurableInv'
<1> USE DEF TypeInv, TypeOk, RangeMapTypeOk, Initializing, Recovering
<1>1. UNCHANGED <<pc, inst, req>> /\ \A j \in Insts : j = i
  BY DEF OneObject, RegistryStep, Open, OpenStep, Unregister, taskVars
<1>2. ASSUME NEW c \in Config, NEW k \in Kinds, Open(i, c, k)
      PROVE  DurableInv'
  <2>1. \A t \in Tasks : pc[t] = "idle"
    BY <1>1, <1>2 DEF Open, Held, HeldOpened
  <2> QED BY <1>1, <1>2, <2>1
          DEF Open, OpenOrCreate, DurableInv, FileFollows, MarkedInFile, InUse, Working
<1>3. CASE OpenStep(i)
  <2>1. phase[i] \in Opening
    BY <1>3 DEF OpenStep, ReadSlots, SetLen, WriteHeader, WriteZeros, RecoverCheck, RecoverClear, Publish,
       Prepared, ReadErr, OpenFail, Opening
  <2>2. \A t \in Tasks : pc[t] = "idle"
    BY <2>1, OpeningIsFree
  <2>3. MarkedInFile' /\ ~ Working(i)'
    BY <1>1, <2>2 DEF MarkedInFile, Working
  <2> DEFINE Follows == /\ phase'[i] \in {"slots", "zero"} => map'.hdr = cfg'[i]
                        /\ phase'[i] \in {"slots"} \cup Initializing => slots'[i] = {}
                        /\ phase'[i] \in {"built", "live"} \cup Recovering =>
                              map'.hdr = cfg'[i] /\ slots'[i] \subseteq map'.slots
  <2>4. Follows
    <3> USE DEF DurableInv, FileFollows, InUse
    <3>1. CASE ReadSlots(i)
      BY <3>1 DEF ReadSlots
    <3>2. CASE SetLen(i)
      BY <3>2 DEF SetLen
    <3>3. CASE WriteHeader(i)
      BY <3>3 DEF WriteHeader
    <3>4. CASE WriteZeros(i)
      BY <3>4 DEF WriteZeros, ClearSlots
    <3>5. CASE RecoverCheck(i)
      BY <3>5 DEF RecoverCheck
    <3>6. CASE RecoverClear(i)
      BY <3>6 DEF RecoverClear, ClearSlots
    <3>7. CASE Publish(i)
      BY <3>7 DEF Publish
    <3>8. CASE Prepared(i) \/ OpenFail(i)
      BY <3>8 DEF Prepared, OpenFail, Drop
    <3>9. CASE ReadErr(i)
      BY <3>2, <3>9 DEF ReadErr
    <3> QED BY <1>3, <3>1, <3>2, <3>3, <3>4, <3>5, <3>6, <3>7, <3>8, <3>9 DEF OpenStep
  <2> QED BY <1>1, <2>3, <2>4 DEF DurableInv, FileFollows, InUse
<1>4. CASE Unregister(i)
  <2>1. CASE Held(i)
    BY <1>1, <1>4, <2>1
       DEF Unregister, DurableInv, FileFollows, MarkedInFile, InUse, Working, RangeOf, Amplify, SlotsFor
  <2>2. CASE ~ Held(i)
    <3>1. \A t \in Tasks : pc[t] = "idle"
      BY <1>1, <2>2 DEF Held, HeldOpened
    <3> QED BY <1>1, <1>4, <2>2, <3>1
            DEF Unregister, Drop, DurableInv, FileFollows, MarkedInFile, InUse, Working
  <2> QED BY <2>1, <2>2
<1> QED BY <1>2, <1>3, <1>4 DEF RegistryStep

(* What the steps of a task change, of the objects and their file.         *)
LEMMA TaskMoves ==
    ASSUME TypeInv, NEW t \in Tasks, TaskStep(t)
    PROVE  /\ UNCHANGED <<phase, cfg, todo>>
           /\ UNCHANGED map \/ MarkFile(t)
           /\ UNCHANGED slots \/ MarkMemory(t)
           /\ \A u \in Tasks \ {t} : UNCHANGED <<pc[u], inst[u], req[u]>>
           /\ pc[t] # "idle" \/ \E i \in Insts : phase[i] = "live" /\ inst'[t] = i
           /\ pc'[t] = "publish" => MarkFile(t)
           /\ pc[t] # "idle" /\ pc'[t] # "idle" => UNCHANGED <<inst[t], req[t]>>
BY DEF TypeInv, TypeOk, RangeMapTypeOk, Goto, Forget, TaskStep, Begin, Proceed, CheckReady, CheckMissing,
   Reserve, Recheck, WriteBlock, MarkFile, MarkMemory, ReturnOk, ReturnErr, FetchOk, Fail, FetchErr,
   WriteErr, MarkErr, SetFileReady, SetMemoryReady, mapVars

(* The file keeps its header and gets more slots, an object gets only      *)
(* slots that the file has, and no step of a task brings one into use.     *)
LEMMA TaskFollows ==
    ASSUME TypeInv, MarkedInFile, NEW t \in Tasks, TaskStep(t)
    PROVE  /\ map'.hdr = map.hdr /\ map.slots \subseteq map'.slots
           /\ \A i \in Insts :
                 /\ InUse(i)' => InUse(i)
                 /\ \/ slots'[i] = slots[i]
                    \/ phase[i] \in {"live", "closed"} /\ slots'[i] \subseteq slots[i] \cup map.slots
<1> USE DEF TypeInv, TypeOk, RangeMapTypeOk
<1>1. \A i \in Insts : InUse(i)' => InUse(i)
  BY TaskMoves DEF InUse, Working
<1>2. map'.hdr = map.hdr /\ map.slots \subseteq map'.slots
  BY TaskMoves DEF MarkFile, SetFileReady, WriteSlots
<1>3. ASSUME NEW i \in Insts
      PROVE  \/ slots'[i] = slots[i]
             \/ phase[i] \in {"live", "closed"} /\ slots'[i] \subseteq slots[i] \cup map.slots
  <2>1. CASE MarkMemory(t)
    <3>1. inst[t] \in Insts /\ phase[inst[t]] \in {"live", "closed"}
          /\ SlotsFor(cfg[inst[t]].unit, RangeOf(t)) \subseteq map.slots
      BY <2>1 DEF MarkMemory, Goto, HeldOpened, MarkedInFile
    <3> QED BY <2>1, <3>1 DEF MarkMemory, SetMemoryReady
  <2> QED BY <2>1, TaskMoves
<1> QED BY <1>1, <1>2, <1>3

(* A task that is about to publish has its slots in the file.              *)
LEMMA MarkedTask ==
    ASSUME TypeInv, MarkedInFile, NEW t \in Tasks, TaskStep(t)
    PROVE  MarkedInFile'
<1> SUFFICES ASSUME NEW u \in Tasks, pc'[u] = "publish"
             PROVE  (SlotsFor(cfg[inst[u]].unit, RangeOf(u)) \subseteq map.slots)'
  BY DEF MarkedInFile
<1>1. cfg' = cfg /\ inst'[u] = inst[u] /\ req'[u] = req[u]
  BY TaskMoves DEF MarkFile, Goto
<1>2. SlotsFor(cfg[inst[u]].unit, RangeOf(u))' = SlotsFor(cfg[inst[u]].unit, RangeOf(u))
  BY <1>1 DEF RangeOf, Amplify, SlotsFor
<1>3. CASE u = t
  BY <1>2, <1>3, TaskMoves DEF MarkFile, SetFileReady, WriteSlots
<1>4. CASE u # t
  BY <1>2, <1>4, TaskFollows, TaskMoves DEF MarkedInFile
<1> QED BY <1>3, <1>4

LEMMA DurableTask ==
    ASSUME TypeInv, DurableInv, NEW t \in Tasks, TaskStep(t)
    PROVE  DurableInv'
<1>1. FileFollows'
  BY TaskFollows, TaskMoves DEF DurableInv, FileFollows, Initializing
<1> QED BY <1>1, MarkedTask DEF DurableInv

LEMMA DurableSystem ==
    ASSUME TypeInv, DurableInv, SystemStep
    PROVE  DurableInv'
<1>1. CASE WriteBack /\ UNCHANGED <<taskVars, promised>>
  BY <1>1 DEF WriteBack, taskVars, DurableInv, FileFollows, MarkedInFile, InUse, Working, RangeOf, Amplify,
     SlotsFor
<1>2. CASE Crash \/ PowerLoss
  BY <1>2 DEF Crash, PowerLoss, LoseObjects, LoseTasks, DurableInv, FileFollows, MarkedInFile, InUse, Working,
     Initializing, Recovering
<1> QED BY <1>1, <1>2 DEF SystemStep

LEMMA DurableNext ==
    ASSUME OneObject, TypeInv, DurableInv, [Next]_vars
    PROVE  DurableInv'
<1>1. CASE UNCHANGED vars
  BY <1>1 DEF vars, mapVars, taskVars, DurableInv, FileFollows, MarkedInFile, InUse, Working, RangeOf, Amplify,
     SlotsFor
<1> QED BY <1>1, DurableRegistry, DurableTask, DurableSystem DEF Next

(* What an object has ready in memory is in the bitmap file, under its own *)
(* header, also while recovery clears slots and after any loss of power.   *)
(* Two objects of one target may clear what the other has set, see         *)
(* ReadyIsDurableShared.                                                   *)
THEOREM ReadyIsDurable == ASSUME OneObject PROVE Spec => []DurableBeforeReady
<1>1. DurableInv => DurableBeforeReady
  BY DEF DurableInv, FileFollows, InUse, DurableBeforeReady
<1>2. OneObject /\ TypeInv /\ DurableInv /\ [Next]_vars => DurableInv'
  BY DurableNext
<1> QED BY <1>1, <1>2, TypeInvInvariant, DurableInit, PTL DEF Spec

-----------------------------------------------------------------------------
(* And one configuration: what was answered stays ready.                   *)

OneConfig == \A c, d \in Config : c = d

(* A file with a header is never too short for its slots, so that it is    *)
(* not initialized again.                                                  *)
HeaderHasSlots ==
    /\ map.hdr # NoConfig => SlotIds(map.hdr.unit) \subseteq map.bytes
    /\ \A i \in Insts : phase[i] = "sethdr" => SlotIds(cfg[i].unit) \subseteq map.bytes

(* Recovery clears a slot for a hole in it.                                *)
ClearedForHole ==
    \A i \in Insts : phase[i] = "clear" =>
        \E s \in todo[i] :
            (\A z \in todo[i] : s <= z) /\ ~RangeIsPresent(SlotBlocks(cfg[i].unit, s))

(* Every block that was answered is in a slot that is filled, is ready in  *)
(* the file, and is ready for the object in use; and no object starts the  *)
(* file anew.                                                              *)
AnsweredKept ==
    \A B \in Blobs : \A b \in promised[B] :
        /\ map.hdr # NoConfig
        /\ SlotOf(map.hdr.unit, b) \in map.slots
        /\ Filled(SlotBlocks(map.hdr.unit, SlotOf(map.hdr.unit, b)))
        /\ \A i \in Insts :
              /\ phase[i] \notin Initializing
              /\ InUse(i) => SlotOf(map.hdr.unit, b) \in slots[i]
DoneIsReady == \A t \in Tasks : pc[t] = "done" => IsRangeReady(inst[t], req[t])

KeptInv == HeaderHasSlots /\ ClearedForHole /\ AnsweredKept /\ DoneIsReady

LEMMA SlotsAreNumbers == ASSUME TypeInv, NEW i \in Insts PROVE todo[i] \in SUBSET Nat
<1>1. \A u \in Units, b \in Block : SlotOf(u, b) \in Nat
  BY UnitsAssumption, BlocksAssumption DEF SlotOf, Block
<1> QED BY <1>1 DEF TypeInv, TypeOk, RangeMapTypeOk, SlotIndex, SlotIds, SlotsFor

LEMMA KeptInit == Init => KeptInv
BY DEF Init, RangeMapInit, TaskInit, KeptInv, HeaderHasSlots, ClearedForHole, AnsweredKept, DoneIsReady

LEMMA KeptHeader ==
    ASSUME OneObject, OneConfig, TypeInv, HeaderHasSlots, [Next]_vars, ~PowerLoss
    PROVE  HeaderHasSlots'
<1> USE DEF TypeInv, TypeOk, RangeMapTypeOk, HeaderHasSlots
<1>1. CASE UNCHANGED vars
  BY <1>1 DEF vars, mapVars
<1>2. ASSUME NEW t \in Tasks, TaskStep(t)
      PROVE  HeaderHasSlots'
  BY <1>2, TaskMoves DEF MarkFile, SetFileReady, WriteSlots, Extended
<1>3. ASSUME NEW i \in Insts, RegistryStep(i)
      PROVE  HeaderHasSlots'
  <2>1. \A j \in Insts : j = i
    BY DEF OneObject
  <2>2. CASE SetLen(i)
    <3>1. map.hdr # NoConfig => map.hdr = cfg[i]
      BY <2>2 DEF SetLen, OneConfig, Opened, MapFile
    <3> QED BY <2>1, <2>2, <3>1 DEF SetLen
  <2>3. CASE WriteHeader(i)
    BY <2>1, <2>3 DEF WriteHeader
  <2>4. CASE WriteZeros(i) \/ RecoverClear(i)
    BY <2>1, <2>4 DEF WriteZeros, RecoverClear, ClearSlots, Extended
  <2>5. CASE ~ (SetLen(i) \/ WriteHeader(i) \/ WriteZeros(i) \/ RecoverClear(i))
    <3>1. map' = map /\ (phase'[i] = "sethdr" => phase[i] = "sethdr" /\ cfg'[i] = cfg[i])
      BY <1>3, <2>5 DEF RegistryStep, Open, OpenOrCreate, OpenStep, Unregister, Drop, ReadSlots, RecoverCheck,
         Publish, Prepared, ReadErr, OpenFail
    <3> QED BY <2>1, <3>1
  <2> QED BY <2>2, <2>3, <2>4, <2>5
<1>4. CASE SystemStep
  BY <1>4 DEF SystemStep, WriteBack, Crash, LoseObjects
<1> QED BY <1>1, <1>2, <1>3, <1>4 DEF Next

LEMMA KeptClearing ==
    ASSUME OneObject, TypeInv, ClearedForHole, [Next]_vars
    PROVE  ClearedForHole'
<1> SUFFICES ASSUME NEW i \in Insts, phase'[i] = "clear"
             PROVE  (\E s \in todo[i] :
                       (\A z \in todo[i] : s <= z) /\ ~RangeIsPresent(SlotBlocks(cfg[i].unit, s)))'
  BY DEF ClearedForHole
<1> USE DEF TypeInv, TypeOk, RangeMapTypeOk
<1>1. CASE RecoverCheck(i)
  BY <1>1 DEF RecoverCheck, RangeIsPresent, SlotBlocks
<1>2. CASE ~ RecoverCheck(i)
  <2>1. phase[i] = "clear" /\ UNCHANGED <<target, todo, cfg>>
    <3>1. CASE UNCHANGED vars
      BY <3>1 DEF vars, mapVars
    <3>2. ~ \E t \in Tasks : TaskStep(t)
      <4> SUFFICES ASSUME NEW t \in Tasks, TaskStep(t) PROVE FALSE
        OBVIOUS
      <4>1. phase[i] = "clear" /\ \A j \in Insts : phase[j] # "live"
        BY TaskMoves DEF OneObject
      <4>2. pc[t] = "idle"
        BY <4>1, OpeningIsFree DEF Opening, Recovering
      <4> QED BY <4>1, <4>2, TaskMoves
    <3>3. ASSUME NEW j \in Insts, RegistryStep(j)
          PROVE  phase[i] = "clear" /\ UNCHANGED <<target, todo, cfg>>
      <4>1. j = i
        BY DEF OneObject
      <4> QED BY <1>2, <3>3, <4>1
              DEF RegistryStep, Open, OpenOrCreate, OpenStep, Unregister, Drop, ReadSlots, SetLen, WriteHeader,
                  WriteZeros, RecoverClear, Publish, Prepared, ReadErr, OpenFail
    <3>4. CASE SystemStep
      BY <3>4 DEF SystemStep, WriteBack, Crash, PowerLoss, LoseObjects
    <3> QED BY <3>1, <3>2, <3>3, <3>4 DEF Next
  <2> QED BY <2>1 DEF ClearedForHole, RangeIsPresent, SlotBlocks
<1> QED BY <1>1, <1>2

LEMMA KeptDone ==
    ASSUME TypeInv, DoneIsReady, [Next]_vars
    PROVE  DoneIsReady'
<1> SUFFICES ASSUME NEW t \in Tasks, pc'[t] = "done"
             PROVE  IsRangeReady(inst[t], req[t])'
  BY DEF DoneIsReady
<1> USE DEF TypeInv, TypeOk, RangeMapTypeOk, HeldOpened
<1>1. pc[t] = "done" \/ Recheck(t) \/ MarkMemory(t)
  <2>1. CASE UNCHANGED vars
    BY <2>1 DEF vars, taskVars
  <2>2. ASSUME NEW u \in Tasks, TaskStep(u) PROVE pc[t] = "done" \/ Recheck(t) \/ MarkMemory(t)
    BY <2>2 DEF TaskStep, Begin, Proceed, CheckReady, CheckMissing, Reserve, Recheck, WriteBlock, MarkFile,
       MarkMemory, ReturnOk, ReturnErr, FetchOk, Fail, FetchErr, WriteErr, MarkErr, Goto
  <2>3. ASSUME NEW i \in Insts, RegistryStep(i) PROVE pc' = pc
    BY <2>3 DEF RegistryStep, Open, OpenStep, Unregister, taskVars
  <2>4. CASE SystemStep
    BY <2>4 DEF SystemStep, Crash, PowerLoss, LoseTasks, taskVars
  <2> QED BY <2>1, <2>2, <2>3, <2>4 DEF Next
<1>2. /\ pc[t] # "idle" /\ inst[t] \in Insts
      /\ inst'[t] = inst[t] /\ cfg'[inst[t]] = cfg[inst[t]] /\ req'[t] = req[t]
  BY <1>1, RangeStable DEF Recheck, MarkMemory, Goto
<1>3. slots[inst[t]] \subseteq slots'[inst[t]]
  <2>1. CASE \E u \in Tasks : MarkMemory(u)
    BY <1>2, <2>1 DEF MarkMemory, SetMemoryReady
  <2>2. CASE \A u \in Tasks : ~MarkMemory(u)
    BY <1>2, <2>2, SlotsStable
  <2> QED BY <2>1, <2>2
<1>4. SlotsFor(cfg[inst[t]].unit, req[t]) \subseteq slots'[inst[t]]
  <2>1. CASE pc[t] = "done" \/ Recheck(t)
    BY <1>3, <2>1 DEF DoneIsReady, Recheck, Goto, IsRangeReady
  <2>2. CASE MarkMemory(t)
    <3>1. SlotsFor(cfg[inst[t]].unit, req[t]) \subseteq SlotsFor(cfg[inst[t]].unit, RangeOf(t))
      BY RequestInRange DEF SlotsFor
    <3> QED BY <1>2, <2>2, <3>1 DEF MarkMemory, SetMemoryReady
  <2> QED BY <1>1, <2>1, <2>2
<1> QED BY <1>2, <1>4 DEF IsRangeReady, SlotsFor

LEMMA AnsweredRegistry ==
    ASSUME OneObject, OneConfig, "read" \notin Faults, TypeInv, DurableInv, KeptInv, NEW i \in Insts, RegistryStep(i)
    PROVE  AnsweredKept'
<1> USE DEF TypeInv, TypeOk, RangeMapTypeOk, Initializing, Recovering
<1>1. /\ UNCHANGED <<target, pc, inst>> /\ (\A j \in Insts : j = i)
      /\ \A B \in Blobs : promised'[B] \subseteq promised[B]
  BY DEF OneObject, RegistryStep, Open, OpenOrCreate, OpenStep, Unregister, Drop, ReadSlots, SetLen,
     WriteHeader, WriteZeros, RecoverCheck, RecoverClear, Publish, Prepared, ReadErr, OpenFail, taskVars
<1> SUFFICES ASSUME NEW B \in Blobs, NEW b \in promised[B]
             PROVE  LET s == SlotOf(map.hdr.unit, b) IN
                    /\ map'.hdr = map.hdr /\ s \in map'.slots
                    /\ phase'[i] \notin Initializing
                    /\ InUse(i)' => s \in slots'[i]
  BY <1>1 DEF KeptInv, AnsweredKept, Filled, SlotBlocks
<1> DEFINE s == SlotOf(map.hdr.unit, b)
<1>2. /\ map.hdr # NoConfig /\ s \in map.slots /\ Filled(SlotBlocks(map.hdr.unit, s))
      /\ phase[i] \notin Initializing /\ (InUse(i) => s \in slots[i] /\ map.hdr = cfg[i])
  BY DEF KeptInv, AnsweredKept, DurableInv, FileFollows
<1>3. s \in SlotIds(map.hdr.unit) /\ SlotIds(map.hdr.unit) \subseteq map.bytes
  BY <1>2 DEF SlotIds, SlotsFor, KeptInv, HeaderHasSlots
<1> HIDE DEF s
<1> DEFINE Goal == /\ map'.hdr = map.hdr /\ s \in map'.slots
                   /\ phase'[i] \notin Initializing
                   /\ InUse(i)' => s \in slots'[i]
<1>4. ASSUME NEW c \in Config, NEW k \in Kinds, Open(i, c, k)
      PROVE  Goal
  <2>1. map.hdr = c
    BY <1>2 DEF OneConfig, MapFile
  <2>2. ~ Working(i)'
    BY <1>1, <1>4 DEF Open, Held, Working
  <2> QED BY <1>2, <1>4, <2>1, <2>2 DEF Open, OpenOrCreate, InUse
<1>5. ASSUME Unregister(i)
      PROVE  Goal
  <2>1. CASE Held(i)
    BY <1>1, <1>2, <1>5, <2>1 DEF Unregister, InUse, Working
  <2>2. CASE ~ Held(i)
    BY <1>1, <1>2, <1>5, <2>2 DEF Unregister, Drop, Held, InUse, Working
  <2> QED BY <2>1, <2>2
<1>6. ASSUME OpenStep(i)
      PROVE  Goal
  <2>1. ~ Working(i)'
    <3>1. phase[i] \in Opening
      BY <1>6 DEF OpenStep, ReadSlots, SetLen, WriteHeader, WriteZeros, RecoverCheck, RecoverClear, Publish,
         Prepared, ReadErr, OpenFail, Opening
    <3> QED BY <1>1, <3>1, OpeningIsFree DEF Working
  <2>2. CASE ReadSlots(i)
    <3>1. map.hdr = cfg[i]
      BY <2>2 DEF ReadSlots, DurableInv, FileFollows
    <3> QED BY <1>2, <1>3, <2>1, <2>2, <3>1 DEF ReadSlots, InUse
  <2>3. ~ (SetLen(i) \/ WriteHeader(i) \/ WriteZeros(i))
    BY <1>2 DEF SetLen, WriteHeader, WriteZeros
  <2>4. CASE RecoverCheck(i)
    BY <1>2, <2>4 DEF RecoverCheck, InUse
  <2>5. CASE RecoverClear(i)
    <3>1. PICK z \in todo[i] :
            /\ \A y \in todo[i] : z <= y
            /\ map' = ClearSlots(map, {z})
            /\ slots' = [slots EXCEPT ![i] = @ \ {z}]
      BY <2>5 DEF RecoverClear
    <3>2. PICK y \in todo[i] : (\A x \in todo[i] : y <= x) /\ ~RangeIsPresent(SlotBlocks(cfg[i].unit, y))
      BY <2>5 DEF RecoverClear, KeptInv, ClearedForHole
    <3>3. z \in Nat /\ y \in Nat
      BY SlotsAreNumbers
    <3>4. z = y
      BY <3>1, <3>2, <3>3
    <3>5. s # z
      BY <1>2, <2>5, <3>2, <3>4 DEF RecoverClear, InUse, RangeIsPresent, Filled
    <3> QED BY <1>2, <2>1, <2>5, <3>1, <3>5 DEF RecoverClear, ClearSlots, InUse
  <2>6. CASE Publish(i)
    BY <1>2, <2>1, <2>6 DEF Publish, InUse
  <2>7. CASE Prepared(i) \/ OpenFail(i)
    BY <1>2, <2>1, <2>7 DEF Prepared, OpenFail, Drop, InUse
  <2>8. ~ ReadErr(i)
    BY DEF ReadErr
  <2> QED BY <1>6, <2>2, <2>3, <2>4, <2>5, <2>6, <2>7, <2>8 DEF OpenStep
<1> QED BY <1>4, <1>5, <1>6 DEF RegistryStep, s

LEMMA AnsweredTask ==
    ASSUME OneObject, TypeInv, Stored, DurableInv, KeptInv, [Next]_vars, ~PowerLoss,
           NEW t \in Tasks, TaskStep(t)
    PROVE  AnsweredKept'
<1> USE DEF TypeInv, TypeOk, RangeMapTypeOk
<1>1. /\ phase' = phase /\ map'.hdr = map.hdr /\ map.slots \subseteq map'.slots
      /\ \A i \in Insts : slots[i] \subseteq slots'[i] /\ (InUse(i)' => InUse(i))
  <2>1. phase' = phase /\ map'.hdr = map.hdr /\ map.slots \subseteq map'.slots
    BY TaskMoves DEF MarkFile, SetFileReady, WriteSlots
  <2>2. \A i \in Insts : slots[i] \subseteq slots'[i]
    BY TaskMoves DEF MarkMemory, SetMemoryReady
  <2>3. \A i \in Insts : InUse(i)' => InUse(i)
    BY TaskMoves DEF InUse, Working
  <2> QED BY <2>1, <2>2, <2>3
<1>2. \A b \in Block : target[b] # Hole => target'[b] # Hole
  BY FilledGrows
<1> SUFFICES ASSUME NEW B \in Blobs, NEW b \in promised'[B]
             PROVE  /\ map.hdr # NoConfig
                    /\ SlotOf(map.hdr.unit, b) \in map.slots
                    /\ Filled(SlotBlocks(map.hdr.unit, SlotOf(map.hdr.unit, b)))
                    /\ \A i \in Insts :
                          /\ phase[i] \notin Initializing
                          /\ InUse(i) => SlotOf(map.hdr.unit, b) \in slots[i]
  BY <1>1, <1>2 DEF AnsweredKept, Filled, SlotBlocks
<1>3. CASE b \in promised[B]
  BY <1>3 DEF KeptInv, AnsweredKept
<1>4. CASE b \notin promised[B]
  <2> DEFINE i == inst[t]
             s == SlotOf(cfg[i].unit, b)
  <2>1. (CheckReady(t) \/ ReturnOk(t)) /\ b \in req[t]
    BY <1>4 DEF TaskStep, Begin, Proceed, CheckReady, CheckMissing, Reserve, Recheck, WriteBlock, MarkFile,
       MarkMemory, ReturnOk, ReturnErr, FetchOk, Fail, FetchErr, WriteErr, MarkErr, Promise
  <2>2. pc[t] # "idle" /\ IsRangeReady(i, req[t])
    BY <2>1 DEF CheckReady, ReturnOk, Goto, KeptInv, DoneIsReady
  <2>3. i \in Insts /\ phase[i] \in {"live", "closed"} /\ InUse(i) /\ cfg[i] \in Config
    BY <2>2 DEF HeldOpened, InUse, Working
  <2>4. map.hdr = cfg[i] /\ slots[i] \subseteq map.slots
    BY <2>3 DEF DurableInv, FileFollows
  <2>5. s \in slots[i]
    BY <2>1, <2>2 DEF IsRangeReady, SlotsFor
  <2>6. Filled(SlotBlocks(cfg[i].unit, s))
    BY <2>3, <2>5 DEF Stored, ReadyFilled, TodoOnlyRecovering, Recovering
  <2>7. map.hdr # NoConfig
    BY <2>3, <2>4, BlobsAssumption DEF Config, NoConfig
  <2>8. \A j \in Insts : j = i
    BY <2>3 DEF OneObject
  <2> QED BY <2>3, <2>4, <2>5, <2>6, <2>7, <2>8 DEF Initializing
<1> QED BY <1>3, <1>4

LEMMA KeptNext ==
    ASSUME OneObject, OneConfig, {"read", "power"} \cap Faults = {},
           TypeInv, Stored, DurableInv, KeptInv, [Next]_vars
    PROVE  KeptInv'
<1>1. ~PowerLoss
  BY DEF PowerLoss
<1>2. HeaderHasSlots' /\ ClearedForHole' /\ DoneIsReady'
  BY <1>1, KeptHeader, KeptClearing, KeptDone DEF KeptInv
<1>3. ASSUME UNCHANGED vars
      PROVE  AnsweredKept'
  BY <1>3 DEF vars, mapVars, taskVars, KeptInv, AnsweredKept, InUse, Working, Filled, SlotBlocks
<1>4. ASSUME SystemStep
      PROVE  AnsweredKept'
  BY <1>1, <1>4 DEF SystemStep, WriteBack, Crash, LoseObjects, LoseTasks, taskVars, KeptInv, AnsweredKept, InUse,
     Working, Filled, SlotBlocks, Initializing, Recovering
<1>5. AnsweredKept'
  BY <1>1, <1>3, <1>4, AnsweredRegistry, AnsweredTask DEF Next
<1> QED BY <1>2, <1>5 DEF KeptInv

LEMMA AnsweredIsReady ==
    ASSUME TypeInv, DurableInv, KeptInv, NEW t \in Tasks, pc[t] # "idle",
           req[t] \subseteq promised[cfg[inst[t]].blob]
    PROVE  IsRangeReady(inst[t], req[t])
<1>1. inst[t] \in Insts /\ InUse(inst[t]) /\ cfg[inst[t]].blob \in Blobs
  BY DEF TypeInv, HeldOpened, InUse, Working, Config
<1>2. map.hdr = cfg[inst[t]]
  BY <1>1 DEF DurableInv, FileFollows
<1> QED BY <1>1, <1>2 DEF KeptInv, AnsweredKept, IsRangeReady, SlotsFor

(* What a caller was once told is there is never downloaded again, failed  *)
(* writes and restarts of the process included: no step of a restart loses *)
(* it, the file does not start anew, and recovery finds no hole in its     *)
(* slots.  This takes that every read of the bitmap file succeeds, since a *)
(* failed one starts the file anew, and that no power is lost.             *)
THEOREM AnswersAreKept ==
    ASSUME OneObject, OneConfig, {"read", "power"} \cap Faults = {}
    PROVE  Spec => []AnsweredNotRefetched
<1>1. TypeInv /\ FetchIsNeeded /\ DurableInv /\ KeptInv => AnsweredNotRefetched
  BY AnsweredIsReady DEF AnsweredNotRefetched, FetchIsNeeded, Fetching
<1>2. TypeInv /\ Stored /\ DurableInv /\ KeptInv /\ [Next]_vars => (DurableInv /\ KeptInv)'
  BY DurableNext, KeptNext
<1>3. Init => DurableInv /\ KeptInv
  BY DurableInit, KeptInit
<1> QED BY <1>1, <1>2, <1>3, StoredInvariant, NoDuplicateFetch, PTL DEF Spec
-----------------------------------------------------------------------------
(* Any number of objects of one target: a registered one, those that       *)
(* prepare it meanwhile, and removed ones that tasks still hold.  What one *)
(* has ready stays in the file that all of them write, unless one starts   *)
(* the file anew, or clears a slot, while another one comes into use.      *)

OneOpens == \A i, j \in Insts : phase[i] \in Opening /\ phase[j] \in Opening => i = j

(* A slot byte is written after its blocks, so recovery clears none.       *)
FileFilled == \A c \in Config : \A s \in map.slots : Filled(SlotBlocks(c.unit, s))

(* The file is complete when an object comes into use, and no object       *)
(* starts a complete file anew.                                            *)
FileShared ==
    \A i \in Insts :
        /\ phase[i] # "clear"
        /\ phase[i] \in {"slots", "zero"} => map.hdr = cfg[i]
        /\ phase[i] \in {"slots"} \cup Initializing => slots[i] = {}
        /\ InUse(i) => /\ map.hdr = cfg[i] /\ SlotIds(cfg[i].unit) \subseteq map.bytes
                       /\ slots[i] \cup todo[i] \subseteq map.slots
                       /\ \A j \in Insts : phase[j] \notin Initializing

SharedInv == FileFilled /\ FileShared /\ MarkedInFile

LEMMA SharedInit == Init => SharedInv
BY DEF Init, RangeMapInit, TaskInit, SharedInv, FileFilled, FileShared, MarkedInFile, InUse, Working,
   Initializing, Recovering

LEMMA SharedTask ==
    ASSUME OneConfig, "power" \notin Faults, TypeInv, Stored, SharedInv, [Next]_vars,
           NEW t \in Tasks, TaskStep(t)
    PROVE  SharedInv'
<1> USE DEF TypeInv, TypeOk, RangeMapTypeOk
<1>1. ASSUME NEW c \in Config, NEW s \in map'.slots
      PROVE  Filled(SlotBlocks(c.unit, s))
  <2>1. CASE s \in map.slots
    BY <2>1 DEF SharedInv, FileFilled
  <2>2. CASE s \notin map.slots
    <3>1. MarkFile(t) /\ s \in SlotsFor(cfg[inst[t]].unit, RangeOf(t))
      BY <1>1, <2>2, TaskMoves DEF MarkFile, SetFileReady, WriteSlots
    <3>2. cfg[inst[t]] = c /\ Filled(RangeOf(t))
      BY <3>1 DEF MarkFile, Goto, HeldOpened, OneConfig, Stored, WrittenFilled
    <3>3. SlotBlocks(c.unit, s) \subseteq RangeOf(t)
      BY <3>1, <3>2, SlotsOfRange DEF RangeOf
    <3> QED BY <3>2, <3>3 DEF Filled
  <2> QED BY <2>1, <2>2
<1>2. \A b \in Block : target[b] # Hole => target'[b] # Hole
  BY FilledGrows DEF PowerLoss
<1>3. FileFilled'
  BY <1>1, <1>2 DEF FileFilled, Filled, SlotBlocks
<1>4. FileShared'
  <2>1. map.bytes \subseteq map'.bytes
    BY TaskMoves DEF MarkFile, SetFileReady, WriteSlots, Extended
  <2>2. \A i \in Insts : phase[i] \in {"slots"} \cup Initializing => slots'[i] = slots[i]
    BY TaskFollows DEF SharedInv, Initializing
  <2> QED BY <2>1, <2>2, TaskFollows, TaskMoves DEF SharedInv, FileShared
<1> QED BY <1>3, <1>4, MarkedTask DEF SharedInv

(* What the steps of an object change.                                     *)
LEMMA ObjectMoves ==
    ASSUME TypeInv, NEW i \in Insts, RegistryStep(i)
    PROVE  /\ UNCHANGED <<target, pc, inst, req>>
           /\ \A j \in Insts \ {i} : UNCHANGED <<phase[j], cfg[j], slots[j], todo[j]>>
           /\ UNCHANGED map \/ SetLen(i) \/ WriteHeader(i) \/ WriteZeros(i) \/ RecoverClear(i)
BY DEF RegistryStep, Open, OpenOrCreate, OpenStep, Unregister, Drop, ReadSlots, SetLen, WriteHeader,
   WriteZeros, RecoverCheck, RecoverClear, Publish, Prepared, ReadErr, OpenFail, taskVars, TypeInv, TypeOk,
   RangeMapTypeOk

(* Starting the file anew: no object is in use yet.                        *)
LEMMA SharedInitialize ==
    ASSUME OneConfig, OneOpens, TypeInv, Stored, SharedInv, NEW i \in Insts, RegistryStep(i),
           SetLen(i) \/ WriteHeader(i) \/ WriteZeros(i)
    PROVE  SharedInv'
<1> USE DEF TypeInv, TypeOk, RangeMapTypeOk, Initializing, Recovering
<1>1. phase[i] \in Initializing /\ phase[i] \in Opening /\ cfg[i] \in Config /\ cfg' = cfg /\ slots' = slots
  BY DEF SetLen, WriteHeader, WriteZeros, Opening, Opened
<1>2. \A j \in Insts : ~ InUse(j)
  BY <1>1 DEF SharedInv, FileShared
<1>3. \A t \in Tasks : pc[t] = "idle"
  BY <1>2 DEF InUse, Working, HeldOpened
<1>4. MarkedInFile' /\ \A j \in Insts : ~ Working(j)'
  BY <1>3, ObjectMoves DEF MarkedInFile, Working
<1>5. FileFilled'
  <2>1. map'.slots \subseteq map.slots
    BY DEF SetLen, WriteHeader, WriteZeros, ClearSlots
  <2> QED BY <2>1, ObjectMoves DEF SharedInv, FileFilled, Filled, SlotBlocks
<1>6. \A j \in Insts : phase[j] \in {"slots", "zero"} => map'.hdr = map.hdr \/ map'.hdr = cfg[j]
  BY <1>1 DEF SetLen, WriteHeader, WriteZeros, ClearSlots, OneConfig, Opened
<1>7. CASE SetLen(i) \/ WriteHeader(i)
  <2>1. /\ phase'[i] \in {"sethdr", "zero"} /\ (phase'[i] = "zero" => map'.hdr = cfg[i])
        /\ \A j \in Insts : ~ InUse(j)'
    BY <1>2, <1>4, <1>7, ObjectMoves DEF SetLen, WriteHeader, InUse
  <2>2. FileShared'
    BY <1>1, <1>6, <2>1, ObjectMoves DEF SharedInv, FileShared
  <2> QED BY <1>4, <1>5, <2>2 DEF SharedInv
<1>8. CASE WriteZeros(i)
  <2>1. /\ phase'[i] = "built" /\ map'.hdr = cfg[i] /\ SlotIds(cfg[i].unit) \subseteq map'.bytes
        /\ slots[i] = {} /\ todo'[i] = {}
    <3>1. SlotIds(cfg[i].unit) \subseteq SlotIndex /\ \A z \in SlotIndex : z <= z
      BY <1>1, UnitsAssumption, BlocksAssumption DEF Config, SlotIndex, SlotIds, SlotsFor, SlotOf, Block
    <3> QED BY <1>8, <3>1
            DEF WriteZeros, ClearSlots, Extended, SharedInv, FileShared, Stored, TodoOnlyRecovering
  <2>2. \A j \in Insts \ {i} : phase'[j] \notin Opening /\ ~ InUse(j)'
    BY <1>1, <1>2, <1>4, ObjectMoves DEF OneOpens, InUse
  <2>3. FileShared'
    BY <1>1, <2>1, <2>2, ObjectMoves DEF FileShared, SharedInv, Opening
  <2> QED BY <1>4, <1>5, <2>3 DEF SharedInv
<1> QED BY <1>7, <1>8

(* The steps of an object that leave the file alone.                       *)
LEMMA SharedObject ==
    ASSUME OneConfig, OneOpens, "read" \notin Faults, TypeInv, Stored, SharedInv, [Next]_vars,
           NEW i \in Insts, RegistryStep(i),
           ~ (SetLen(i) \/ WriteHeader(i) \/ WriteZeros(i))
    PROVE  SharedInv'
<1> USE DEF TypeInv, TypeOk, RangeMapTypeOk, Initializing, Recovering
<1>1. UNCHANGED map
  BY ObjectMoves DEF RecoverClear, SharedInv, FileShared
<1>2. FileFilled'
  BY <1>1, ObjectMoves DEF SharedInv, FileFilled, Filled, SlotBlocks
<1>3. MarkedInFile'
  BY <1>1, RangeStable, ObjectMoves DEF SharedInv, MarkedInFile, SlotsFor
<1>4. \A j \in Insts : (Working(j)' <=> Working(j)) /\ (InUse(j) => cfg[j] \in Config)
  BY ObjectMoves DEF InUse, Working, Opened, HeldOpened
<1>5. ASSUME NEW j \in Insts, InUse(j)
      PROVE  phase'[i] \notin Initializing
  <2>1. map.hdr = cfg[j] /\ cfg[j] \in Config /\ SlotIds(cfg[j].unit) \subseteq map.bytes
        /\ phase[i] \notin Initializing
    BY <1>4, <1>5 DEF SharedInv, FileShared
  <2>2. CASE \E c \in Config, k \in Kinds : Open(i, c, k)
    BY <2>1, <2>2 DEF Open, OpenOrCreate, OneConfig
  <2> QED BY <2>1, <2>2
          DEF OneConfig, Opened, RegistryStep, OpenStep, Unregister, Drop, ReadSlots, RecoverCheck,
              RecoverClear, Publish, Prepared, ReadErr, OpenFail
<1>6. /\ phase'[i] # "clear"
      /\ phase'[i] \in {"slots", "zero"} => map.hdr = cfg'[i]
      /\ phase'[i] \in {"slots"} \cup Initializing => slots'[i] = {}
      /\ InUse(i)' => /\ map.hdr = cfg'[i] /\ SlotIds(cfg'[i].unit) \subseteq map.bytes
                      /\ slots'[i] \cup todo'[i] \subseteq map.slots
      /\ InUse(i)' => InUse(i) \/ phase[i] \in Opening
  <2> USE DEF SharedInv, FileShared, InUse
  <2>1. CASE \E c \in Config, k \in Kinds : Open(i, c, k)
    BY <1>4, <2>1 DEF Open, OpenOrCreate, Held, Working
  <2>2. CASE ReadSlots(i)
    BY <1>4, <2>2 DEF ReadSlots, Opening
  <2>3. CASE RecoverCheck(i)
    <3>1. phase[i] = "recover" /\ cfg[i] \in Config /\ todo[i] \subseteq map.slots
      BY <2>3 DEF RecoverCheck, Opened
    <3>2. \A s \in todo[i] : RangeIsPresent(SlotBlocks(cfg[i].unit, s))
      BY <3>1 DEF FileFilled, Filled, RangeIsPresent
    <3> QED BY <1>4, <2>3, <3>1, <3>2 DEF RecoverCheck
  <2>4. CASE Publish(i)
    BY <1>4, <2>4 DEF Publish
  <2>5. CASE Prepared(i) \/ OpenFail(i)
    <3>1. phase[i] \in Opening /\ ~ Working(i)
      BY <2>5 DEF Prepared, OpenFail, Opening, Initializing, Recovering, Working, HeldOpened
    <3> QED BY <1>4, <2>5, <3>1 DEF Prepared, OpenFail, Drop
  <2>6. CASE Unregister(i)
    <3>1. CASE Held(i)
      BY <1>4, <2>6, <3>1 DEF Unregister
    <3>2. CASE ~ Held(i)
      BY <1>4, <2>6, <3>2 DEF Unregister, Drop, Held, Working
    <3> QED BY <3>1, <3>2
  <2>7. ~ ReadErr(i)
    BY DEF ReadErr
  <2> QED BY <2>1, <2>2, <2>3, <2>4, <2>5, <2>6, <2>7 DEF RegistryStep, OpenStep, RecoverClear
<1>7. ASSUME NEW j \in Insts, InUse(j)'
      PROVE  \A l \in Insts : phase'[l] \notin Initializing
  <2>1. CASE InUse(j)
    BY <1>5, <2>1, ObjectMoves DEF SharedInv, FileShared
  <2>2. CASE ~ InUse(j)
    <3>1. j = i /\ phase[i] \in Opening
      BY <1>4, <1>6, <1>7, <2>2, ObjectMoves DEF InUse
    <3>2. phase'[i] \notin Initializing
      BY <1>4, <1>7, <2>2, <3>1 DEF InUse
    <3> QED BY <3>1, <3>2, ObjectMoves DEF OneOpens, Opening
  <2> QED BY <2>1, <2>2
<1>8. FileShared'
  BY <1>1, <1>4, <1>6, <1>7, ObjectMoves DEF SharedInv, FileShared, InUse
<1> QED BY <1>2, <1>3, <1>8 DEF SharedInv

LEMMA SharedNext ==
    ASSUME OneConfig, {"read", "power"} \cap Faults = {}, OneOpens, TypeInv, Stored, SharedInv, [Next]_vars
    PROVE  SharedInv'
<1>1. CASE UNCHANGED vars
  BY <1>1 DEF vars, mapVars, taskVars, SharedInv, FileFilled, FileShared, MarkedInFile, InUse, Working,
     Filled, SlotBlocks, RangeOf, Amplify, SlotsFor
<1>2. CASE SystemStep
  BY <1>2 DEF SystemStep, WriteBack, PowerLoss, Crash, LoseObjects, LoseTasks, SharedInv, FileFilled,
     FileShared, MarkedInFile, InUse, Working, Filled, SlotBlocks, Initializing, Recovering
<1> QED BY <1>1, <1>2, SharedTask, SharedInitialize, SharedObject DEF Next

(* What any object of a target has ready is in the bitmap file, also while *)
(* it is prepared under a live one or tasks of removed ones still write,   *)
(* if no two of its objects are opened at once and every read of the       *)
(* bitmap file succeeds: a prepare whose read fails zeroes the slots of    *)
(* the live object in the file (range_map.rs:67-79).                       *)
THEOREM ReadyIsDurableShared ==
    ASSUME OneConfig, {"read", "power"} \cap Faults = {}
    PROVE  Spec /\ []OneOpens => []DurableBeforeReady
<1>1. SharedInv => DurableBeforeReady
  BY DEF SharedInv, FileShared, InUse, DurableBeforeReady
<1>2. TypeInv /\ Stored /\ OneOpens /\ SharedInv /\ [Next]_vars => SharedInv'
  BY SharedNext
<1> QED BY <1>1, <1>2, StoredInvariant, SharedInit, PTL DEF Spec
=============================================================================
