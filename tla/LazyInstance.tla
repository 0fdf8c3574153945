---------------------------- MODULE LazyInstance ----------------------------
(***************************************************************************)
(* The fetch state machine of lazyd (src/instance.rs): concurrent tasks    *)
(* call ensure_range on the registered instance of one target, while the   *)
(* target is registered, unregistered and prepared again, and the process  *)
(* or the machine may stop.                                                *)
(*                                                                         *)
(* One step of a task runs up to the next point where another task or the  *)
(* disk can be observed: a lock, an await, or a system call.               *)
(***************************************************************************)
EXTENDS RangeMap

CONSTANTS
    Tasks,      \* tokio tasks that run ensure_range
    NoInst,     \* what an idle task holds
    Requests    \* ranges that callers ask for, as sets of blocks

ASSUME NoInstAssumption == NoInst \notin Insts
ASSUME RequestsAssumption == Requests \subseteq (SUBSET Block) \ {{}}

VARIABLES
    pc,         \* where each task is inside ensure_range
    inst,       \* the Arc<Instance> a task holds
    req,        \* the range it was asked for
    left,       \* blocks of its range that write_all_at has still to write
    inflight,   \* Instance::inflight, the reserved ranges of each instance
    promised    \* history: blocks of each blob some caller was told are there

taskVars == <<pc, inst, req, left, inflight>>
vars == <<mapVars, taskVars, promised>>

(* Where a task holds a reservation, and where it holds an instance.       *)
Fetching == {"fetch", "write", "mark", "publish"}
Holding == {"recheck", "done", "failed"} \cup Fetching
Running == {"check", "reserve"} \cup Holding

TypeOk ==
    /\ RangeMapTypeOk
    /\ pc \in [Tasks -> {"idle"} \cup Running]
    /\ inst \in [Tasks -> Insts \cup {NoInst}]
    /\ req \in [Tasks -> SUBSET Block]
    /\ left \in [Tasks -> SUBSET Block]
    /\ inflight \in [Insts -> SUBSET SUBSET Block]
    /\ promised \in [Blobs -> SUBSET Block]

TaskInit ==
    /\ pc = [t \in Tasks |-> "idle"]
    /\ inst = [t \in Tasks |-> NoInst]
    /\ req = [t \in Tasks |-> {}]
    /\ left = [t \in Tasks |-> {}]
    /\ inflight = [i \in Insts |-> {}]
    /\ promised = [B \in Blobs |-> {}]

Init == RangeMapInit /\ TaskInit

(* amplify_to_fetch_unit: every block of every slot the range touches.     *)
Amplify(u, R) == {b \in Block : SlotOf(u, b) \in SlotsFor(u, R)}

(* The range a task reserves, fetches and marks ready.                     *)
RangeOf(t) == Amplify(cfg[inst[t]].unit, req[t])

-----------------------------------------------------------------------------
(* The registry.  Its lock is held for the whole of a registration, so no  *)
(* other registration, lookup or removal happens meanwhile; prepare_lock   *)
(* serialises prepare requests, but nothing keeps them from a live one.    *)
(* The registry is keyed by id; here a target is registered under one id.  *)

Registering == \E i \in Insts : phase[i] \in Opening /\ kind[i] = "register"
Preparing == \E i \in Insts : phase[i] \in Opening /\ kind[i] = "prepare"

Held(i) == \E t \in Tasks : inst[t] = i

Open(i, c, k) ==
    /\ ~Held(i)
    /\ k = "register" => ~Registering /\ \A j \in Insts : phase[j] # "live"
    /\ k = "prepare" => ~Preparing
    /\ OpenOrCreate(i, c, k)
    /\ inflight' = [inflight EXCEPT ![i] = {}]
    /\ promised' = [B \in Blobs |-> IF B = c.blob THEN promised[B] ELSE {}]
    /\ UNCHANGED <<pc, inst, req, left>>

OpenStep(i) ==
    /\ \/ ReadSlots(i) \/ SetLen(i) \/ WriteHeader(i) \/ WriteZeros(i)
       \/ RecoverCheck(i) \/ RecoverClear(i) \/ Publish(i) \/ Prepared(i)
       \/ ReadErr(i) \/ OpenFail(i)
    /\ UNCHANGED <<taskVars, promised>>

(* Tasks that hold the instance go on using it after its removal.          *)
Unregister(i) ==
    /\ phase[i] = "live"
    /\ IF Held(i)
       THEN /\ phase' = [phase EXCEPT ![i] = "closed"]
            /\ UNCHANGED <<target, targetDisk, map, mapDisk>>
            /\ UNCHANGED <<cfg, kind, slots, todo>>
       ELSE Drop(i)
    /\ UNCHANGED <<taskVars, promised>>

-----------------------------------------------------------------------------
(* ensure_range.                                                           *)

Goto(t, from, to) ==
    /\ pc[t] = from
    /\ pc' = [pc EXCEPT ![t] = to]

(* The answer of the task reaches its caller.                              *)
Promise(t) ==
    LET B == cfg[inst[t]].blob IN
    promised' = [promised EXCEPT ![B] = @ \cup req[t]]

Forget(t) ==
    /\ inst' = [inst EXCEPT ![t] = NoInst]
    /\ req' = [req EXCEPT ![t] = {}]

Begin(t, i, R) ==
    /\ phase[i] = "live"
    /\ Goto(t, "idle", "check")
    /\ inst' = [inst EXCEPT ![t] = i]
    /\ req' = [req EXCEPT ![t] = R]
    /\ UNCHANGED <<mapVars, left, inflight, promised>>

CheckReady(t) ==
    /\ Goto(t, "check", "idle")
    /\ IsRangeReady(inst[t], req[t])
    /\ Promise(t)
    /\ Forget(t)
    /\ UNCHANGED <<mapVars, left, inflight>>

CheckMissing(t) ==
    /\ Goto(t, "check", "reserve")
    /\ ~IsRangeReady(inst[t], req[t])
    /\ UNCHANGED <<mapVars, inst, req, left, inflight, promised>>

(* Faulty variant: only an equal range is in the way.                      *)
ReserveUnlessEqual(t) ==
    /\ Goto(t, "reserve", "recheck")
    /\ RangeOf(t) \notin inflight[inst[t]]
    /\ inflight' = [inflight EXCEPT ![inst[t]] = @ \cup {RangeOf(t)}]
    /\ UNCHANGED <<mapVars, inst, req, left, promised>>

(* reserve_inflight: polled until no reserved range overlaps.              *)
Reserve(t) ==
    /\ Goto(t, "reserve", "recheck")
    /\ \A R \in inflight[inst[t]] : R \cap RangeOf(t) = {}
    /\ inflight' = [inflight EXCEPT ![inst[t]] = @ \cup {RangeOf(t)}]
    /\ UNCHANGED <<mapVars, inst, req, left, promised>>

(* Faulty variant: no second check once the reservation is held.           *)
NoRecheck(t) ==
    /\ Goto(t, "recheck", "fetch")
    /\ UNCHANGED <<mapVars, inst, req, left, inflight, promised>>

Recheck(t) ==
    /\ pc[t] = "recheck"
    /\ Goto(t, "recheck", IF IsRangeReady(inst[t], req[t]) THEN "done"
                                                          ELSE "fetch")
    /\ UNCHANGED <<mapVars, inst, req, left, inflight, promised>>

(* The remote answers with the bytes, or with an error or a wrong length.  *)
FetchOk(t) ==
    /\ Goto(t, "fetch", "write")
    /\ left' = [left EXCEPT ![t] = RangeOf(t)]
    /\ UNCHANGED <<mapVars, inst, req, inflight, promised>>

FetchErr(t) ==
    /\ Goto(t, "fetch", "failed")
    /\ UNCHANGED <<mapVars, inst, req, left, inflight, promised>>

(* Faulty variant: one short write is taken for the whole.                 *)
WriteOnce(t) ==
    /\ \E b \in left[t] :
       /\ \A z \in left[t] : b <= z
       /\ target' = [target EXCEPT ![b] = cfg[inst[t]].blob]
       /\ left' = [left EXCEPT ![t] = {}]
       /\ Goto(t, "write", "mark")
    /\ UNCHANGED <<targetDisk, map, mapDisk, phase, cfg, kind, slots, todo>>
    /\ UNCHANGED <<inst, req, inflight, promised>>

(* write_all_at: short writes, each from the first byte not yet written.   *)
WriteBlock(t) ==
    /\ \E b \in left[t] :
       /\ \A z \in left[t] : b <= z
       /\ target' = [target EXCEPT ![b] = cfg[inst[t]].blob]
       /\ left' = [left EXCEPT ![t] = @ \ {b}]
       /\ Goto(t, "write", IF left[t] = {b} THEN "mark" ELSE "write")
    /\ UNCHANGED <<targetDisk, map, mapDisk, phase, cfg, kind, slots, todo>>
    /\ UNCHANGED <<inst, req, inflight, promised>>

WriteErr(t) ==
    /\ "io" \in Faults
    /\ Goto(t, "write", "failed")
    /\ left' = [left EXCEPT ![t] = {}]
    /\ UNCHANGED <<mapVars, inst, req, inflight, promised>>

MarkFile(t) ==
    /\ Goto(t, "mark", "publish")
    /\ SetFileReady(inst[t], RangeOf(t))
    /\ UNCHANGED <<inst, req, left, inflight, promised>>

(* Faulty variant: a failed write of the bitmap file is ignored.           *)
MarkErrIgnored(t) ==
    /\ "io" \in Faults
    /\ Goto(t, "mark", "publish")
    /\ UNCHANGED <<mapVars, inst, req, left, inflight, promised>>

MarkErr(t) ==
    /\ "io" \in Faults
    /\ Goto(t, "mark", "failed")
    /\ UNCHANGED <<mapVars, inst, req, left, inflight, promised>>

MarkMemory(t) ==
    /\ Goto(t, "publish", "done")
    /\ SetMemoryReady(inst[t], RangeOf(t))
    /\ UNCHANGED <<inst, req, left, inflight, promised>>

(* InflightGuard::drop, on success and on every error, then the answer.    *)
Release(t) ==
    inflight' = [inflight EXCEPT ![inst[t]] = @ \ {RangeOf(t)}]

ReturnOk(t) ==
    /\ Goto(t, "done", "idle")
    /\ Release(t)
    /\ Promise(t)
    /\ Forget(t)
    /\ UNCHANGED <<mapVars, left>>

(* Faulty variant: the reservation is released on success only.            *)
ReturnErrReserved(t) ==
    /\ Goto(t, "failed", "idle")
    /\ Forget(t)
    /\ UNCHANGED <<mapVars, left, inflight, promised>>

ReturnErr(t) ==
    /\ Goto(t, "failed", "idle")
    /\ Release(t)
    /\ Forget(t)
    /\ UNCHANGED <<mapVars, left, promised>>

-----------------------------------------------------------------------------
(* The process stops: tasks and objects are gone, cached pages are not.    *)

LoseTasks ==
    /\ pc' = [t \in Tasks |-> "idle"]
    /\ inst' = [t \in Tasks |-> NoInst]
    /\ req' = [t \in Tasks |-> {}]
    /\ left' = [t \in Tasks |-> {}]
    /\ inflight' = [i \in Insts |-> {}]

Crash ==
    /\ "crash" \in Faults
    /\ LoseObjects
    /\ LoseTasks
    /\ UNCHANGED <<target, targetDisk, map, mapDisk, promised>>

(* The machine stops: what was not written back is gone, and so is every   *)
(* reader that was given an answer.                                        *)
PowerLoss ==
    /\ "power" \in Faults
    /\ target' = targetDisk
    /\ map' = mapDisk
    /\ promised' = [B \in Blobs |-> {}]
    /\ LoseObjects
    /\ LoseTasks
    /\ UNCHANGED <<targetDisk, mapDisk>>

-----------------------------------------------------------------------------
(* What a task does by itself, without an error of its environment.        *)
Proceed(t) ==
    \/ CheckReady(t) \/ CheckMissing(t) \/ Reserve(t) \/ Recheck(t)
    \/ WriteBlock(t) \/ MarkFile(t) \/ MarkMemory(t)
    \/ ReturnOk(t) \/ ReturnErr(t)

Fail(t) == FetchErr(t) \/ WriteErr(t) \/ MarkErr(t)

TaskStep(t) ==
    \/ \E i \in Insts, R \in Requests : Begin(t, i, R)
    \/ Proceed(t) \/ FetchOk(t) \/ Fail(t)

RegistryStep(i) ==
    \/ \E c \in Config, k \in Kinds : Open(i, c, k)
    \/ OpenStep(i)
    \/ Unregister(i)

SystemStep ==
    \/ WriteBack /\ UNCHANGED <<taskVars, promised>>
    \/ Crash
    \/ PowerLoss

Next ==
    \/ \E t \in Tasks : TaskStep(t)
    \/ \E i \in Insts : RegistryStep(i)
    \/ SystemStep

Spec == Init /\ [][Next]_vars

(* The executor runs a task that can run; the remote may never answer.     *)
FairSpec == Spec /\ \A t \in Tasks : WF_vars(Proceed(t))
-----------------------------------------------------------------------------
(* Safety.                                                                 *)

(* A block that some caller was told is there holds the data of the blob   *)
(* the caller asked for: a successful ensure_range is never followed by a  *)
(* read of a hole or of another blob's bytes.                              *)
AnsweredIsWritten ==
    \A B \in Blobs : \A b \in promised[B] : target[b] = B

(* And it stays so while an instance is registered for that blob: whoever  *)
(* else writes to the target, a block that was answered for is never       *)
(* overwritten between the answer and the caller's pread.                  *)
AnsweredStaysWritten ==
    [][\A i \in Insts :
          LET B == cfg[i].blob IN
          phase[i] = "live" =>
              \A b \in promised[B] : target[b] = B => target'[b] = B]_vars

(* Whatever blobs the target is configured for, and whoever else works on  *)
(* its files, a caller that got an answer never reads a hole: the answer   *)
(* is given after the write, and only a loss of power makes holes.         *)
AnsweredIsPresent ==
    \A B \in Blobs : \A b \in promised[B] : target[b] # Hole

(* A slot that an object in use has ready is wholly written with the blob  *)
(* of that object; while it recovers, only the slots examined so far.      *)
ReadyIsWritten ==
    \A i \in Insts : phase[i] \in {"live", "built"} \cup Recovering =>
        \A s \in slots[i] \ todo[i] :
            \A b \in SlotBlocks(cfg[i].unit, s) : target[b] = cfg[i].blob

(* Reservations are exclusive: no two tasks of one instance are between    *)
(* reserve and release with overlapping ranges, and the inflight list is   *)
(* exactly what those tasks hold, so an error path leaves none behind.     *)
InflightExclusive ==
    /\ \A t, u \in Tasks :
          /\ t # u /\ pc[t] \in Holding /\ pc[u] \in Holding
          /\ inst[t] = inst[u]
          => RangeOf(t) \cap RangeOf(u) = {}
    /\ \A i \in Insts :
          inflight[i] =
            {RangeOf(t) : t \in {u \in Tasks : pc[u] \in Holding /\ inst[u] = i}}

(* A task between its second check and its own publication is still the    *)
(* only one that can make its range ready: no unit that became ready while *)
(* the task waited for the reservation is downloaded a second time.        *)
FetchIsNeeded ==
    \A t \in Tasks : pc[t] \in Fetching => ~IsRangeReady(inst[t], req[t])

(* With one object at a time, a slot is ready in memory only after its     *)
(* byte is in the bitmap file (update_range writes the file first), so a   *)
(* process that dies never takes a readiness it acted on with it.          *)
DurableBeforeReady ==
    \A i \in Insts : phase[i] = "live" =>
        slots[i] \subseteq map.slots /\ map.hdr = cfg[i]

(* With one object at a time and one configuration, what was once answered *)
(* is never downloaded again, failed writes, crashes and restarts of the   *)
(* process included: recovery keeps every slot whose blocks were written.  *)
(* It holds while no power is lost and every read of the bitmap file       *)
(* succeeds: a failed one makes open_or_create forget the slots (ReadErr). *)
AnsweredNotRefetched ==
    \A t \in Tasks : pc[t] \in Fetching =>
        ~(req[t] \subseteq promised[cfg[inst[t]].blob])

-----------------------------------------------------------------------------
(* Liveness.                                                               *)

FailStep == \E t \in Tasks : Fail(t)

(* Although reservations are polled in no order, a waiting task gets its   *)
(* turn and ends if the remote answers every fetch and failures end: each  *)
(* task that overtakes it makes slots ready for good.                      *)
WaitersEnd ==
    /\ \A t \in Tasks : []<>(pc[t] # "fetch")
    /\ <>[][~FailStep]_vars
    => \A t \in Tasks : pc[t] = "reserve" ~> pc[t] = "idle"
=============================================================================
