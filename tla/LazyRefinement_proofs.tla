----------------------- MODULE LazyRefinement_proofs -----------------------
(* LazyInstance with one blob implements RangeCache, for every value of    *)
(* the constants.                                                          *)
EXTENDS LazyRefinement, LazyInstance_proofs

(* A task that is idle asks for nothing, and no block is on disk that the  *)
(* cache file does not have.                                               *)
IdleAsksNothing == \A t \in Tasks : pc[t] = "idle" => req[t] = {}
DiskBehind == \A b \in Block : targetDisk[b] # Hole => target[b] # Hole

RefineInv == IdleAsksNothing /\ DiskBehind

LEMMA RefineInvInit == Init => RefineInv
BY DEF Init, RangeMapInit, TaskInit, RefineInv, IdleAsksNothing, DiskBehind

LEMMA RefineInvNext ==
    ASSUME TypeInv, RefineInv, [Next]_vars
    PROVE  RefineInv'
<1> USE DEF TypeInv, TypeOk, RangeMapTypeOk
<1>1. IdleAsksNothing'
  <2>1. CASE UNCHANGED vars
    BY <2>1 DEF vars, taskVars, RefineInv, IdleAsksNothing
  <2>2. ASSUME NEW t \in Tasks, TaskStep(t) PROVE IdleAsksNothing'
    BY <2>2 DEF RefineInv, IdleAsksNothing, TaskStep, Begin, Proceed, CheckReady,
       CheckMissing, Reserve, Recheck, WriteBlock, MarkFile, MarkMemory, ReturnOk,
       ReturnErr, FetchOk, Fail, FetchErr, WriteErr, MarkErr, Goto, Forget
  <2>3. ASSUME NEW i \in Insts, RegistryStep(i) PROVE pc' = pc /\ req' = req
    BY <2>3 DEF RegistryStep, Open, OpenStep, Unregister, taskVars
  <2>4. CASE SystemStep
    BY <2>4 DEF SystemStep, Crash, PowerLoss, LoseTasks, taskVars, RefineInv,
       IdleAsksNothing
  <2> QED BY <2>1, <2>2, <2>3, <2>4 DEF Next, RefineInv, IdleAsksNothing
<1>2. DiskBehind'
  <2>1. CASE PowerLoss BY <2>1 DEF PowerLoss, DiskBehind
  <2>2. CASE ~PowerLoss
    <3>1. \A b \in Block : target[b] # Hole => target'[b] # Hole
      BY <2>2, FilledGrows
    <3>2. CASE WriteBack
      BY <3>1, <3>2 DEF WriteBack, RefineInv, DiskBehind
    <3>3. CASE ~WriteBack
      <4>1. targetDisk' = targetDisk
        BY <2>2, <3>3 DEF Next, vars, mapVars, TaskStep, Begin, Proceed, CheckReady,
           CheckMissing, Reserve, Recheck, WriteBlock, MarkFile, MarkMemory, ReturnOk,
           ReturnErr, FetchOk, Fail, FetchErr, WriteErr, MarkErr, SetFileReady,
           SetMemoryReady, RegistryStep, Open, OpenOrCreate, OpenStep, Unregister, Drop,
           ReadSlots, SetLen, WriteHeader, WriteZeros, RecoverCheck, RecoverClear,
           Publish, Prepared, ReadErr, OpenFail, SystemStep, Crash
      <4> QED BY <3>1, <4>1 DEF RefineInv, DiskBehind
    <3> QED BY <3>2, <3>3
  <2> QED BY <2>1, <2>2
<1> QED BY <1>1, <1>2 DEF RefineInv

LEMMA RefineInvariant == Spec => []RefineInv
<1>1. TypeInv /\ RefineInv /\ [Next]_vars => RefineInv'
  BY RefineInvNext
<1> QED BY TypeInvInvariant, RefineInvInit, <1>1, PTL DEF Spec

-----------------------------------------------------------------------------

LEMMA OnlyBlob == ASSUME OneBlob PROVE TheBlob \in Blobs /\ \A B \in Blobs : B = TheBlob
BY BlobsAssumption DEF OneBlob, TheBlob

LEMMA RefineInit == ASSUME OneBlob PROVE Init => Cache!CacheInit
BY OnlyBlob, BlobsAssumption DEF Init, RangeMapInit, TaskInit, Cache!CacheInit,
   PendingOf, FilledBlocks

(* A task that answers "there" at the abstract level.                      *)
LEMMA RefineAnswer ==
    ASSUME OneBlob, TypeInv, Stored, NEW t \in Tasks, CheckReady(t) \/ ReturnOk(t)
    PROVE  Cache!AnswerOk(t)
<1> USE DEF TypeInv, TypeOk, RangeMapTypeOk, HeldOpened, Goto
<1>1. pc[t] \in {"check", "done"} BY DEF CheckReady, ReturnOk
<1>2. req[t] \in Requests /\ req[t] # {} /\ cfg[inst[t]].blob = TheBlob
  BY <1>1, RequestsAssumption, OnlyBlob DEF Config
<1>3. Filled(req[t])
  BY <1>1, ReadyRange DEF CheckReady, ReturnOk, Stored, WrittenFilled
<1>4. req[t] \subseteq FilledBlocks
  BY <1>3, OnlyBlob DEF Filled, FilledBlocks
<1>5. /\ req' = [req EXCEPT ![t] = {}]
      /\ promised' = [promised EXCEPT ![cfg[inst[t]].blob] = @ \cup req[t]]
      /\ target' = target
  BY DEF CheckReady, ReturnOk, Promise, Forget, mapVars
<1>6. PendingOf' = [PendingOf EXCEPT ![t] = {}]
  BY <1>5 DEF PendingOf
<1>7. promised'[TheBlob] = promised[TheBlob] \cup req[t]
  BY <1>2, <1>5, OnlyBlob
<1> QED BY <1>2, <1>4, <1>5, <1>6, <1>7 DEF Cache!AnswerOk, PendingOf, FilledBlocks

LEMMA RefineTask ==
    ASSUME OneBlob, TypeInv, Stored, RefineInv, NEW t \in Tasks, TaskStep(t)
    PROVE  [Cache!CacheNext]_Cache!cacheVars
<1> USE DEF TypeInv, TypeOk, RangeMapTypeOk, HeldOpened, Goto
<1>1. ASSUME NEW i \in Insts, NEW R \in Requests, Begin(t, i, R)
      PROVE  Cache!Ask(t, R)
  <2>1. PendingOf[t] = {} BY <1>1 DEF Begin, RefineInv, IdleAsksNothing, PendingOf
  <2>2. PendingOf' = [PendingOf EXCEPT ![t] = R] BY <1>1 DEF Begin, PendingOf
  <2> QED BY <1>1, <2>1, <2>2 DEF Begin, mapVars, Cache!Ask, FilledBlocks
<1>2. CASE CheckReady(t) \/ ReturnOk(t)
  BY <1>2, RefineAnswer DEF Cache!CacheNext
<1>3. CASE ReturnErr(t)
  <2>1. req[t] # {} BY <1>3, RequestsAssumption DEF ReturnErr
  <2>2. PendingOf' = [PendingOf EXCEPT ![t] = {}]
    BY <1>3 DEF ReturnErr, Forget, PendingOf
  <2>3. Cache!AnswerErr(t)
    BY <1>3, <2>1, <2>2 DEF ReturnErr, mapVars, Cache!AnswerErr, PendingOf, FilledBlocks
  <2> QED BY <2>3 DEF Cache!CacheNext
<1>4. CASE WriteBlock(t)
  <2>1. PICK b \in left[t] : target' = [target EXCEPT ![b] = cfg[inst[t]].blob]
    BY <1>4 DEF WriteBlock
  <2>2. b \in Block /\ cfg[inst[t]].blob = TheBlob
    BY <1>4, <2>1, OnlyBlob DEF WriteBlock, Config
  <2>3. FilledBlocks' = FilledBlocks \cup {b}
    BY <2>1, <2>2 DEF FilledBlocks
  <2>4. Cache!Fill(b)
    BY <1>4, <2>3 DEF WriteBlock, Cache!Fill, PendingOf
  <2> QED BY <2>2, <2>4 DEF Cache!CacheNext
<1>5. CASE CheckMissing(t) \/ Reserve(t) \/ Recheck(t) \/ MarkFile(t) \/ MarkMemory(t)
             \/ FetchOk(t) \/ Fail(t)
  <2>1. UNCHANGED <<target, req, promised>>
    BY <1>5 DEF CheckMissing, Reserve, Recheck, MarkFile, MarkMemory, FetchOk, Fail,
       FetchErr, WriteErr, MarkErr, SetFileReady, SetMemoryReady, mapVars
  <2> QED BY <2>1 DEF Cache!cacheVars, PendingOf, FilledBlocks
<1> QED BY <1>1, <1>2, <1>3, <1>4, <1>5 DEF TaskStep, Proceed, Cache!CacheNext

LEMMA RefineOther ==
    ASSUME OneBlob, TypeInv, RefineInv, (\E i \in Insts : RegistryStep(i)) \/ SystemStep
    PROVE  [Cache!CacheNext]_Cache!cacheVars
<1> USE DEF TypeInv, TypeOk, RangeMapTypeOk
<1>1. ASSUME NEW i \in Insts, RegistryStep(i)
      PROVE  UNCHANGED <<target, req, promised[TheBlob]>>
  BY <1>1, OnlyBlob DEF Config, RegistryStep, Open, OpenOrCreate, OpenStep, Unregister,
     Drop, ReadSlots, SetLen, WriteHeader, WriteZeros, RecoverCheck, RecoverClear,
     Publish, Prepared, ReadErr, OpenFail, taskVars
<1>2. ASSUME WriteBack, UNCHANGED <<taskVars, promised>>
      PROVE  UNCHANGED <<target, req, promised[TheBlob]>>
  BY <1>2 DEF WriteBack, taskVars
<1>3. CASE Crash
  BY <1>3 DEF Crash, LoseTasks, Cache!CacheNext, Cache!Stop, PendingOf, FilledBlocks
<1>4. CASE PowerLoss
  <2>1. FilledBlocks' \in SUBSET FilledBlocks
    BY <1>4, OnlyBlob, BlobsAssumption DEF PowerLoss, FilledBlocks, RefineInv, DiskBehind
  <2>2. PendingOf' = [t \in Tasks |-> {}] /\ promised'[TheBlob] = {}
    BY <1>4, OnlyBlob DEF PowerLoss, LoseTasks, PendingOf
  <2> QED BY <2>1, <2>2 DEF Cache!CacheNext, Cache!Lose
<1>5. UNCHANGED <<target, req, promised[TheBlob]>> => UNCHANGED Cache!cacheVars
  BY DEF Cache!cacheVars, PendingOf, FilledBlocks
<1> QED BY <1>1, <1>2, <1>3, <1>4, <1>5 DEF SystemStep

(* lazyd's fetch state machine implements the abstract cache: every answer *)
(* it gives, with its two checks, its reservations, its two files and its  *)
(* restarts, is an answer the abstract cache may give at that moment.      *)
THEOREM Refinement == ASSUME OneBlob PROVE Spec => ImplementsCache
<1>1. TypeInv /\ Stored /\ RefineInv /\ [Next]_vars => [Cache!CacheNext]_Cache!cacheVars
  <2> SUFFICES ASSUME TypeInv, Stored, RefineInv, [Next]_vars
               PROVE  [Cache!CacheNext]_Cache!cacheVars
    OBVIOUS
  <2>1. CASE UNCHANGED vars
    BY <2>1 DEF vars, mapVars, taskVars, Cache!cacheVars, PendingOf, FilledBlocks
  <2> QED BY <2>1, RefineTask, RefineOther DEF Next
<1>2. Init => Cache!CacheInit BY RefineInit
<1> QED BY <1>1, <1>2, StoredInvariant, RefineInvariant, PTL
        DEF Spec, ImplementsCache, Cache!CacheSpec

(* The abstract cache itself tells nobody of a block that is not there; so *)
(* the refinement carries the promise of RangeCache over to lazyd.         *)
THEOREM CacheKeepsPromise == Cache!CacheSpec => []Cache!ToldIsFilled
<1>1. Cache!CacheInit => Cache!ToldIsFilled
  BY DEF Cache!CacheInit, Cache!ToldIsFilled
<1>2. Cache!ToldIsFilled /\ [Cache!CacheNext]_Cache!cacheVars => Cache!ToldIsFilled'
  BY DEF Cache!ToldIsFilled, Cache!CacheNext, Cache!cacheVars, Cache!Ask, Cache!Fill,
     Cache!AnswerOk, Cache!AnswerErr, Cache!Stop, Cache!Lose
<1> QED BY <1>1, <1>2, PTL DEF Cache!CacheSpec
=============================================================================
