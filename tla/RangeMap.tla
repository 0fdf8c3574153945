------------------------------ MODULE RangeMap ------------------------------
(***************************************************************************)
(* The bitmap side file `<target>.bitmap` of one sparse cache file, the    *)
(* in-memory RangeMap objects opened on it, and the cache file itself      *)
(* (src/range_map.rs).                                                     *)
(*                                                                         *)
(* A block is the piece of the cache file that is written, and is a hole,  *)
(* as a whole.  A slot is one fetch unit of u consecutive blocks and one   *)
(* byte of the bitmap.  Both files have a cached content, which survives   *)
(* a crash of the process, and a content on disk, which survives a loss of *)
(* power.                                                                  *)
(***************************************************************************)
EXTENDS Naturals, FiniteSets

CONSTANTS
    NBlocks,    \* number of blocks of the blob
    Units,      \* fetch units a configuration may ask for, in blocks
    Blobs,      \* blob descriptors (digest and size)
    Hole,       \* content of a block that was never written
    Insts,      \* RangeMap objects, and the Instance objects that own them
    Faults      \* which of "io" (a failed write or seek), "read" (a failed
                \* read of a bitmap file), "crash", "power" may happen

ASSUME BlocksAssumption == NBlocks \in Nat \ {0}
ASSUME UnitsAssumption == Units \subseteq Nat \ {0} /\ Units # {}
ASSUME BlobsAssumption == Hole \notin Blobs /\ Blobs # {}
ASSUME FaultsAssumption == Faults \subseteq {"io", "read", "crash", "power"}

Block == 0 .. NBlocks - 1
Config == [blob : Blobs, unit : Units]

(* Slots of a range of blocks, and blocks of a slot, for a fetch unit u.   *)
SlotOf(u, b) == b \div u
SlotsFor(u, R) == {SlotOf(u, b) : b \in R}
SlotBlocks(u, s) == {b \in Block : SlotOf(u, b) = s}
SlotIds(u) == SlotsFor(u, Block)
SlotIndex == UNION {SlotIds(u) : u \in Units}

VARIABLES
    target,      \* block -> blob whose data the cache file has there, or Hole
    targetDisk,  \* the part of target that has reached the disk
    map,         \* bitmap file: header, slot bytes that exist, slot bytes # 0
    mapDisk,     \* the part of map that has reached the disk
    phase,       \* progress of each object's open_or_create and recovery
    cfg,         \* the configuration each object was opened with
    kind,        \* who opened it: control-plane register or prepare
    slots,       \* RangeMap::slots in memory: the slots that are ready
    todo         \* ready slots recovery_reconcile has not examined yet

mapVars == <<target, targetDisk, map, mapDisk, phase, cfg, kind, slots, todo>>

(* The header of a bitmap file that is absent or unreadable (both behave   *)
(* alike), and the configuration of an object that does not exist.         *)
NoConfig == [blob |-> Hole, unit |-> 0]
MapFile == [hdr : Config \cup {NoConfig},
            bytes : SUBSET SlotIndex, slots : SUBSET SlotIndex]

Initializing == {"setlen", "sethdr", "zero"}
Recovering == {"recover", "clear"}
Opening == {"slots", "built"} \cup Initializing \cup Recovering
Kinds == {"register", "prepare"}

RangeMapTypeOk ==
    /\ target \in [Block -> Blobs \cup {Hole}]
    /\ targetDisk \in [Block -> Blobs \cup {Hole}]
    /\ map \in MapFile
    /\ mapDisk \in MapFile
    /\ phase \in [Insts -> {"closed", "live"} \cup Opening]
    /\ cfg \in [Insts -> Config \cup {NoConfig}]
    /\ kind \in [Insts -> Kinds]
    /\ slots \in [Insts -> SUBSET SlotIndex]
    /\ todo \in [Insts -> SUBSET SlotIndex]

RangeMapInit ==
    /\ target = [b \in Block |-> Hole]
    /\ targetDisk = target
    /\ map = [hdr |-> NoConfig, bytes |-> {}, slots |-> {}]
    /\ mapDisk = map
    /\ phase = [i \in Insts |-> "closed"]
    /\ cfg = [i \in Insts |-> NoConfig]
    /\ kind = [i \in Insts |-> "register"]
    /\ slots = [i \in Insts |-> {}]
    /\ todo = [i \in Insts |-> {}]

-----------------------------------------------------------------------------
(* Queries of an open map, and of the cache file.                          *)

IsRangeReady(i, R) == SlotsFor(cfg[i].unit, R) \subseteq slots[i]

(* Faulty variants: only the start of the range is looked at, or the next  *)
(* hole has to begin after the end of the range instead of at its end.     *)
StartIsPresent(R) ==
    \A b \in R : (\A z \in R : b <= z) => target[b] # Hole

RangeAndNextPresent(R) ==
    \A b \in R \cup {z + 1 : z \in R} : b \in Block /\ target[b] # Hole

RangeIsPresent(R) == \A b \in R : target[b] # Hole

(* A write of slot bytes past the end of the file makes the file longer.   *)
Extended(f, S) == f.bytes \cup {s \in SlotIndex : \E z \in S : s <= z}

WriteSlots(f, S) ==
    [hdr |-> f.hdr, bytes |-> Extended(f, S), slots |-> f.slots \cup S]

ClearSlots(f, S) ==
    [hdr |-> f.hdr, bytes |-> Extended(f, S), slots |-> f.slots \ S]

-----------------------------------------------------------------------------
(* open_or_create and recovery_reconcile, step by step.                    *)

(* Faulty variant: the header of another blob is taken for one's own.      *)
OpenAnyBlob(i, c, k) ==
    /\ phase[i] = "closed"
    /\ cfg' = [cfg EXCEPT ![i] = c]
    /\ kind' = [kind EXCEPT ![i] = k]
    /\ phase' = [phase EXCEPT ![i] = IF map.hdr.unit = c.unit THEN "slots"
                                                              ELSE "setlen"]
    /\ slots' = [slots EXCEPT ![i] = {}]
    /\ todo' = [todo EXCEPT ![i] = {}]
    /\ UNCHANGED <<target, targetDisk, map, mapDisk>>

(* The header decides between reading the slots and starting anew.         *)
OpenOrCreate(i, c, k) ==
    /\ phase[i] = "closed"
    /\ cfg' = [cfg EXCEPT ![i] = c]
    /\ kind' = [kind EXCEPT ![i] = k]
    /\ phase' = [phase EXCEPT ![i] = IF map.hdr = c THEN "slots" ELSE "setlen"]
    /\ slots' = [slots EXCEPT ![i] = {}]
    /\ todo' = [todo EXCEPT ![i] = {}]
    /\ UNCHANGED <<target, targetDisk, map, mapDisk>>

(* Faulty variant: the slots of the file are used without reconciling.     *)
ReadSlotsTrusting(i) ==
    /\ phase[i] = "slots"
    /\ slots' = [slots EXCEPT ![i] = map.slots \cap SlotIds(cfg[i].unit)]
    /\ phase' = [phase EXCEPT ![i] = "built"]
    /\ UNCHANGED <<target, targetDisk, map, mapDisk, cfg, kind, todo>>

(* A slot area that is too short is not an error: the file starts anew.    *)
ReadSlots(i) ==
    /\ phase[i] = "slots"
    /\ LET known == map.slots \cap SlotIds(cfg[i].unit) IN
       IF SlotIds(cfg[i].unit) \subseteq map.bytes
       THEN /\ slots' = [slots EXCEPT ![i] = known]
            /\ todo' = [todo EXCEPT ![i] = known]
            /\ phase' = [phase EXCEPT ![i] = "recover"]
       ELSE /\ phase' = [phase EXCEPT ![i] = "setlen"]
            /\ UNCHANGED <<slots, todo>>
    /\ UNCHANGED <<target, targetDisk, map, mapDisk, cfg, kind>>

(* A failed read of the header or of the slots is not an error either:     *)
(* open_or_create starts the file anew, though its header may match and    *)
(* whoever else may use it.                                                *)
ReadErr(i) ==
    /\ "read" \in Faults
    /\ phase[i] = "slots"
    /\ phase' = [phase EXCEPT ![i] = "setlen"]
    /\ UNCHANGED <<target, targetDisk, map, mapDisk, cfg, kind, slots, todo>>

(* initialize_file: set_len, header, zero slots, sync_data.                *)
SetLen(i) ==
    /\ phase[i] = "setlen"
    /\ map' = [hdr |-> map.hdr, bytes |-> SlotIds(cfg[i].unit),
               slots |-> map.slots \cap SlotIds(cfg[i].unit)]
    /\ phase' = [phase EXCEPT ![i] = "sethdr"]
    /\ UNCHANGED <<target, targetDisk, mapDisk, cfg, kind, slots, todo>>

WriteHeader(i) ==
    /\ phase[i] = "sethdr"
    /\ map' = [hdr |-> cfg[i], bytes |-> map.bytes, slots |-> map.slots]
    /\ phase' = [phase EXCEPT ![i] = "zero"]
    /\ UNCHANGED <<target, targetDisk, mapDisk, cfg, kind, slots, todo>>

(* Faulty variant: set_len alone is expected to reset the slots.           *)
WriteNoZeros(i) ==
    /\ phase[i] = "zero"
    /\ mapDisk' = map
    /\ phase' = [phase EXCEPT ![i] = "built"]
    /\ UNCHANGED <<target, targetDisk, map, cfg, kind, slots, todo>>

WriteZeros(i) ==
    /\ phase[i] = "zero"
    /\ map' = ClearSlots(map, SlotIds(cfg[i].unit))
    /\ mapDisk' = map'
    /\ phase' = [phase EXCEPT ![i] = "built"]
    /\ UNCHANGED <<target, targetDisk, cfg, kind, slots, todo>>

(* recovery_reconcile looks at the ready slots in ascending order; a slot  *)
(* with a hole in its range is cleared, in the file first.                 *)
RecoverCheck(i) ==
    /\ phase[i] = "recover"
    /\ IF todo[i] = {}
       THEN /\ phase' = [phase EXCEPT ![i] = "built"]
            /\ UNCHANGED todo
       ELSE \E s \in todo[i] :
            /\ \A z \in todo[i] : s <= z
            /\ IF RangeIsPresent(SlotBlocks(cfg[i].unit, s))
               THEN /\ todo' = [todo EXCEPT ![i] = @ \ {s}]
                    /\ UNCHANGED phase
               ELSE /\ phase' = [phase EXCEPT ![i] = "clear"]
                    /\ UNCHANGED todo
    /\ UNCHANGED <<target, targetDisk, map, mapDisk, cfg, kind, slots>>

RecoverClear(i) ==
    /\ phase[i] = "clear"
    /\ \E s \in todo[i] :
       /\ \A z \in todo[i] : s <= z
       /\ map' = ClearSlots(map, {s})
       /\ slots' = [slots EXCEPT ![i] = @ \ {s}]
       /\ todo' = [todo EXCEPT ![i] = @ \ {s}]
    /\ phase' = [phase EXCEPT ![i] = "recover"]
    /\ UNCHANGED <<target, targetDisk, mapDisk, cfg, kind>>

(* The object is dropped; the files keep what was written.                 *)
Drop(i) ==
    /\ phase' = [phase EXCEPT ![i] = "closed"]
    /\ slots' = [slots EXCEPT ![i] = {}]
    /\ todo' = [todo EXCEPT ![i] = {}]
    /\ cfg' = [cfg EXCEPT ![i] = NoConfig]
    /\ kind' = [kind EXCEPT ![i] = "register"]
    /\ UNCHANGED <<target, targetDisk, map, mapDisk>>

(* A registered object becomes visible; prepare_cache_layers drops its own.*)
Publish(i) ==
    /\ phase[i] = "built"
    /\ kind[i] = "register"
    /\ phase' = [phase EXCEPT ![i] = "live"]
    /\ UNCHANGED <<target, targetDisk, map, mapDisk, cfg, kind, slots, todo>>

Prepared(i) ==
    /\ phase[i] = "built"
    /\ kind[i] = "prepare"
    /\ Drop(i)

(* A failed write of the bitmap file, or a failed seek of recovery, ends   *)
(* the opening where it is; a registration may also fail at its end, when  *)
(* the remote configuration is refused.  Files that cannot be opened leave *)
(* everything as it was.                                                   *)
OpenFail(i) ==
    /\ \/ "io" \in Faults /\ phase[i] \in Initializing \cup Recovering
       \/ phase[i] = "built" /\ kind[i] = "register"
    /\ Drop(i)

-----------------------------------------------------------------------------
(* update_range(.., 1) on an open map: the file, then the memory.          *)

(* Faulty variant: the slot bytes are written one byte too far.            *)
SetNextFileReady(i, R) ==
    /\ map' = WriteSlots(map, {s + 1 : s \in SlotsFor(cfg[i].unit, R)})
    /\ UNCHANGED <<target, targetDisk, mapDisk, phase, cfg, kind, slots, todo>>

SetFileReady(i, R) ==
    /\ map' = WriteSlots(map, SlotsFor(cfg[i].unit, R))
    /\ UNCHANGED <<target, targetDisk, mapDisk, phase, cfg, kind, slots, todo>>

SetMemoryReady(i, R) ==
    /\ slots' = [slots EXCEPT ![i] = @ \cup SlotsFor(cfg[i].unit, R)]
    /\ UNCHANGED <<target, targetDisk, map, mapDisk, phase, cfg, kind, todo>>

-----------------------------------------------------------------------------
(* The kernel writes cached pages back when it pleases: a block of the     *)
(* cache file, the header page, or the slot pages of the bitmap file.      *)

WriteBack ==
    /\ "power" \in Faults
    /\ \/ /\ \E b \in Block : targetDisk' = [targetDisk EXCEPT ![b] = target[b]]
          /\ UNCHANGED mapDisk
       \/ /\ mapDisk' = [hdr |-> map.hdr, bytes |-> mapDisk.bytes,
                          slots |-> mapDisk.slots]
          /\ UNCHANGED targetDisk
       \/ /\ mapDisk' = [hdr |-> mapDisk.hdr, bytes |-> map.bytes,
                          slots |-> map.slots]
          /\ UNCHANGED targetDisk
    /\ UNCHANGED <<target, map, phase, cfg, kind, slots, todo>>

(* Every object dies with the process.                                     *)
LoseObjects ==
    /\ phase' = [i \in Insts |-> "closed"]
    /\ slots' = [i \in Insts |-> {}]
    /\ todo' = [i \in Insts |-> {}]
    /\ cfg' = [i \in Insts |-> NoConfig]
    /\ kind' = [i \in Insts |-> "register"]
=============================================================================
