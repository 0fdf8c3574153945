--------------------------- MODULE LazyRefinement ---------------------------
(* LazyInstance with a single blob implements RangeCache.                  *)
EXTENDS LazyInstance

TheBlob == CHOOSE B \in Blobs : TRUE

(* A task waits for an answer from Begin until it returns.                 *)
PendingOf == [t \in Tasks |-> req[t]]
FilledBlocks == {b \in Block : target[b] = TheBlob}

Cache == INSTANCE RangeCache WITH
    Callers <- Tasks, Blocks <- Block, Asked <- Requests,
    pending <- PendingOf, filled <- FilledBlocks, told <- promised[TheBlob]

(* ensure_range, with its restarts, its concurrent callers and its two     *)
(* files, keeps the promise of the abstract cache at every step.           *)
ImplementsCache == Cache!CacheSpec
=============================================================================
