# TLA+ specifications of lazyd

lazyd fills sparse EROFS cache files on demand. A caller asks for a byte range
of a blob (over HTTP, over a seqpacket socket, or by reading a file marked
with fanotify), lazyd downloads the missing fetch units from an OCI registry,
writes them to the cache file, records them in a bitmap side file, and
answers. The one promise everything rests on: *when lazyd says a range is
there, it is there, and it is the right blob.* The specifications in this
directory ask whether that promise survives concurrent callers, removal and
registration under running tasks, crashes, losses of power, failed system calls
and reuse of a cache file.

## 1. The system

| Component | State | Operations | What makes it correct |
|---|---|---|---|
| Range map (`range_map.rs`) | header and slot bytes in `<target>.bitmap`, ready slots in memory, holes of the target | `open_or_create`, `recovery_reconcile`, `set_range_ready`, `is_range_ready` | a slot is ready only if all of its bytes are in the target; no readiness is acted on before it is on file; recovery drops what is missing and nothing else |
| Instance (`instance.rs`) | configuration, range map, `inflight` list | `ensure_range`, `prepare_fetch_range` | overlapping fetches exclude each other; nothing is downloaded twice because of a race; the reservation goes on every path; an answer comes after the data |
| Instance registry (`instance.rs`) | table of instances under a tokio `RwLock` | `register`, `unregister`, `get` | an id names one configuration; a registered fanotify target stays marked |
| Fanotify backend (`fanotify.rs`) | marks in the kernel, marks in lazyd, event queue | `mark`, `unmark`, event loop | every event is answered; a reader let through finds data; no mark is left over |
| Control plane (`control.rs`) | `prepare_lock`; per call, what has been read of it | PUT, DELETE, ensure, images/prepare | a request is handled when all of it is there, however it arrives; requests run concurrently; a repeated prepare changes nothing |
| Prepare (`prepare.rs`) | sparse files | `prepare_cache_layers` | reuses what is there |
| Data plane (`data.rs`) | two queues per connection, the packet it handles, the worker thread it holds | accept, FETCH | accepts exactly the pages of the blob, padded tail page included; answers come one per packet and in order; a client that leaves gives its worker back |
| OCI remote (`remote/oci.rs`) | token cache per instance | `read_range`, challenge and retry | a refused token is replaced |
| Startup (`main.rs`) | the tasks it starts and their worker threads | | no task starves another |
| Errors (`error.rs`) | none | `status_code` | every status is one a client knows |

Interaction: every request of the control plane and of the data plane is a
tokio task that takes the registry's lock for a moment, clones an
`Arc<Instance>`, and calls `ensure_range` without the lock. The fanotify event
loop is one blocking thread that does the same, one event after another.
The tasks share a fixed number of worker threads, which also drive the sockets and timers
everyone waits for; `recv_packet` and `send_packet` block such a thread, since they are plain
system calls in an async function.
Tasks of one instance meet in `inflight`, in the range map's mutex, in the
target and in the bitmap file. Tasks of *different* instances, and
`images/prepare`, meet in the two files only, where nothing excludes them.

What is hard here: the interleaving of tasks between two system calls; an `Arc` that outlives its
registry entry; two files written without a common sync; recovery that infers the past from holes; a
kernel mark that is shared by everyone who marks the inode; worker threads that a client's silence
takes away. `PROJECT.json` lists each hazard at its line with the properties that would notice it.

## 2. Modules

    RangeMap        the two files and the range map objects      range_map.rs
      LazyInstance  tasks, registry, crashes, composed with it   instance.rs
        MCLazyInstance         symmetry for TLC
        LazyRefinement         LazyInstance implements RangeCache
        LazyInstance_proofs    all its safety properties
          LazyRefinement_proofs  (with LazyRefinement) the refinement
    RangeCache      the abstract promise
    EventBuffer     events in what fanotify reads                fanotify.rs
      Geometry      with it, the byte arithmetic                 range_map.rs, instance.rs, and others
        Geometry_proofs        the same for integers of any width
    FanotifyMarks   registry, marks, event loop, readers         instance.rs, fanotify.rs
      MCFanotifyMarks          its instances for TLC
      FanotifyMarks_proofs     marks and readers, for all constants
    PrepareImage    images/prepare, a request of many layers     control.rs, prepare.rs
      MCPrepareImage           its requests for TLC
      PrepareImage_proofs      files, bitmaps and registrations, for all constants
    RegistryAuth    tokens shared by the readers of one remote   remote/oci.rs
      RegistryAuth_proofs      retries, for all constants
    Errors          kinds of errors and their status             error.rs
      DataPlane     connections of the seqpacket socket          data.rs
        DataPlane_proofs       queues of packets and answers
      ControlPlane  calls of the HTTP socket                     control.rs
    Daemon          both, the event loop and RegistryAuth, on    main.rs
                    shared worker threads
      MCDaemon                 its clients for TLC
      Daemon_proofs            answers, calls, and Daemon implements RegistryAuth

### RangeMap and LazyInstance

The blob is cut into *blocks*: what one `write` call puts into the target, and what is
a hole, as a whole. A fetch unit is `u` blocks; a slot is one byte of the bitmap
for one unit. `target[b]` is the blob whose bytes block `b` holds, or `Hole`.
`map` is the bitmap file: its header (blob and unit), the slot bytes that exist,
and those that are not zero. `targetDisk` and `mapDisk` are what of both has reached the disk.
Each element of `Insts` is one `RangeMap` object with the `Instance` around it.
`phase` walks it through `open_or_create` one system call at a time:
`setlen`, `sethdr`, `zero` are the three steps of `initialize_file`;
`slots`, `recover`, `clear` are reading the slots and reconciling them with
holes; `built` objects are published (`live`) by a registration or dropped by a
preparation.

A task's `pc` follows `ensure_range`: `check` (first look), `reserve` (the poll),
`recheck` (second look), `fetch` (the remote), `write` (one block per step, in order),
`mark` (the bitmap file), `publish` (the memory), `done` or `failed` (the guard is
dropped). A removed object stays with the tasks that hold it.
`Open` needs an object nobody holds, as a new `Arc` has no holder, and
respects the two locks the code has: the registry's write lock over a whole registration,
and `prepare_lock` among preparations. The registry is keyed by id, so two ids could have live
objects on one target; here a target is registered under one id at a time. `promised` is a history variable: the
blocks some caller was told are there. It is forgotten for other blobs when the
target is opened for a new one, and for all on a loss of power (no caller
survives it).

Faults: `"io"` lets writes and seeks fail, `"read"` the reads of a bitmap file, `"crash"` ends the
process at any step (page cache kept), `"power"` adds page write-back in any order and the loss of
what was not written back. The remote may always fail. A failed read is no error in the code:
`open_or_create` takes a header or slots that it cannot read for ones that do not match, starts the
file anew (`ReadErr`) and succeeds, even under a live object when a preparation does it. The answers
stay right, but what was ready in the file is downloaded again, which is why the theorems and the run
about keeping readiness have "no failed read" among their premises.

What is abstracted: bytes (a block has a blob, not a content), the remote
(bytes of the right length, or an error), an instance's `source` and `auth` (two
configurations differ in blob or unit), and concurrent initialization keeps its
steps but not the file offsets of `Header`. A bitmap file that is missing and one with an
unreadable header behave alike and share `NoConfig`.

### RangeCache and LazyRefinement

`RangeCache` is the promise without bitmap, units, reservations or restarts: callers
wait, blocks get filled, an answer needs the range filled, a loss of power may
take anything and takes the callers with it. `LazyRefinement` maps a task's request to
`pending`, the blocks of the target that hold the blob to `filled`, and `promised` to
`told`.

### EventBuffer and Geometry

Slots, amplification, FETCH acceptance, the ranges of permission events, the rounding of a prepared
file and the acceptance of the registry's answers, with the code's unsigned integers:
`checked_add` is `Fits`, plain arithmetic is `Wrap`. `Register` sets size, unit,
slot count and file length; every other action is one call with any arguments and records what the code computes, and the
invariants compare it with sets of bytes. The registry is external and may send any
piece of the blob for a range (`Sendings`): less than it, more, or as many bytes from elsewhere. `LazyInstance` uses the set view of the same
notions, so this module is the ground its `Amplify` and `SlotBlocks` stand on.

`EventBuffer` walks a read of the fanotify group as `parse_events` does, by sizes: events of different lengths, with
info records of different lengths. `ReadEvents` applies it to every read of up to `MaxEvents` events.

### FanotifyMarks

`table` is the registry, `kmark` what the kernel has marked, `marks` what lazyd
believes (inode to id), `filled` the files whose range is present. `backend` says whether the process has a fanotify backend, which it may have or not
from its start to its end; without one, a PUT skips the marks, a DELETE too, and no event is read. A client's `cpc` walks a PUT
through `open`, `mark`, `metadata`, `insert` under the lock, and a DELETE
through `unmark`, `forget` after the lock. Readers of marked files are blocked and queue an
event; the loop (`lpc`) looks the file up, gets the instance (waiting for the lock), ensures
and answers. `ensure_range` is one step here: that it may be is what
`LazyInstance` shows. A file is an inode with one range. lazyd itself does not read
its targets, so its own work raises no event. A crash makes the kernel drop
the group: marks go, blocked readers are let through. `served` (readers whose file was registered
all along) and `leaked` (marks on which `metadata()` failed) are history variables.

### PrepareImage

A request is a list of layers with a fetch unit, a source and a file length. A layer stands for
its digest, which is its cache files and its instance id as well; its data is one
range. A client's `pc` goes through `file` and `bitmap` for each layer in turn, then through
`register` for each, and ends in `ok` or is refused. The early returns are
`RefuseFile` (a layer that is no native EROFS layer, a longer file, an I/O error), `RefuseBitmap`,
`RegisterConflict` (409) and `RegisterErr`; what was done for earlier layers stays, as in the code.
`Begin` needs that no other request is between its first step and its answer: that is
`prepare_lock`. `Ensure` and `Unregister` do not take it and happen at any time, as does
`Crash`, which keeps the files. `OpenBitmap` is the outcome of one whole `open_or_create`,
whose steps `LazyInstance` has, and `OpenBitmapErr` that of one that fails somewhere. `told` (lengths callers were
given), `removed` and `lost` (ranges whose readiness went with a bitmap that could not be read) are history variables.
The instances of this module are external ones; marks are the subject of FanotifyMarks.

### RegistryAuth

`tokens` and `last` are the two fields of `RegistryAuthInner`. A task's `at` goes from `send` to
`lookup` when it is challenged, from there to `resend` with a cached token or through `request` and
`store` with a new one. The lock of the cache is not held over the request to the token service, so
tasks interleave there. Tokens are numbers in the order of issue, and `valid` says which of them the
registry accepts for which challenge; the registry may name another challenge at each request and
stop to accept a token at any time (`Expire`; `expired` is a history variable). `Failed` stands for
every other end of a read. `MaxTokens` bounds the number of tokens ever issued.

### Errors, DataPlane, ControlPlane

In `DataPlane` each connection has two queues, as the kernel has them: `inq`, what its client has
sent, and `outq`, what it has not received. `dpc` follows `serve_listener` (`backlog`, `start`) and
`handle_stream` (`recv`, `handle`, `ensure`, `reply`, `ended`). A connection in `recv`, `handle` or
`reply` is in a blocking call, or between two without an await, and holds a worker (`Holding`); only
at `ensure` is it a waiting task like the others. `Free` says that a worker is left. A packet is a
`FETCH` of a range or one of four others: `Malformed` (answered without an id), `Refused` (answered
with an error), `Verbose` (its answer would exceed 64 KiB, which ends the connection), `Ending`
(empty, or with too many descriptors, which ends it too). Clients send before they are accepted,
pipeline up to `MaxQueued` packets, leave at any moment with packets and answers under way (the
kernel then resets the connection), and reconnect. A failed accept ends `serve_listener` for good
(`AcceptErr`). `owed` is a history variable: the packets of a client whose answers it has not seen.

In `ControlPlane` a call is cut into pieces, of its head and of its body, and a read returns any
number of those that are there and not read yet. `got` counts what has been read, `kpc` follows
`handle_stream`. The head ends the first loop of `read_request`; then `AfterRead` goes by
Content-Length, which the client may leave out or get wrong. A client may stop anywhere (`ReadEnd`,
`ReadBodyEnd`), and `read_request` gives up without a response when the head is too long or no HTTP
(`ReadHeadErr`). What PUT, DELETE and images/prepare do to the instances is in the modules above;
here they are `other` calls with a status.

`Errors` has the table from kinds of errors to statuses, which both planes answer with.

### Daemon

`Daemon` runs both planes, the event loop and `RegistryAuth`'s reads on the worker threads.
`Ensuring(t)` are the tasks inside `ensure_range`: a range is in `ready`, or some task reads it (its
`at` in RegistryAuth is not `idle`), or neither. That this coarse view of `ensure_range` is a fair
one is what LazyInstance shows in detail. A step of a task of the runtime needs `Free`, and so do
sockets and timers: an answer from the registry reaches no task, not even the event loop on its own
thread, while every worker is blocked. `StartRead` is the end of the 5 ms poll in
`reserve_inflight`.

`load` is chosen once, in the initial state, from the constant `Loads`: which connections have
clients, which packets they send, which calls are made, which marked files are read, and whether
accept may fail. It is an input, as the surroundings of a daemon are, and no action changes it. A
load leaves every client in it free to do anything at any time; what it saves is the product of
clients that have nothing to do with each other.

## 3. Runs

| Run | Asks | Bounds | Size |
|---|---|---|---|
| LazyCrash | `TypeOk`, `AnsweredIsWritten`, `InflightExclusive`, `FetchIsNeeded` with removal, preparation and crashes anywhere | 2 blocks, units 1 and 2, 1 blob, 2 objects, 2 tasks, failed reads | 0.98 M states |
| LazyPower | `ReadyIsWritten` and the refinement `ImplementsCache` with write-back in any order and losses of power | 2 blocks, units 1 and 2, 2 objects, 1 task, failed reads | 1.21 M |
| LazyReuse | `AnsweredIsWritten`, `ReadyIsWritten` when one target serves two blobs and units in turn | 3 blocks (unit 2 has a short last slot), 1 object, 2 tasks, failed reads | 27 k |
| LazyWaiters | `DurableBeforeReady`, `AnsweredNotRefetched`, `WaitersEnd` with failed writes and seeks and crashes | 2 blocks, 1 object, 3 tasks | 23 k, liveness |
| LazyTorn | **violation** of `AnsweredIsWritten`: crash inside `initialize_file` | 1 block, 2 blobs, 1 task | finding |
| LazyStale | **violation** of `AnsweredStaysWritten`: DELETE and PUT under a running task | 1 block, 2 blobs, 2 tasks | finding |
| Geometry | `SlotsPartitionBlob`, `FetchCoversRequest`, `FetchAnswersPages`, `WrittenIsMarked`, `AllowedIsInBlob`, `PmemHoldsPages`, `LostOnlyAfterOverflow` | 4-bit integers, units 4, 8, 12, pages 1, 2, 4, alignments 1, 3, 4, 8, a window of 6, reads of 4 events | 115 k |
| FanOwnIds | `TypeOk`, `RegisteredIsMarked`, `ServedIsAnswered`, `NoOrphanMark`, `AllowedIsFilled`, `BlockedEnds` with every fault | 2 ids of 2 clients, 2 files, 2 readers, processes with and without a backend | 250 k |
| FanSameId | **violation** of `RegisteredIsMarked`: DELETE and PUT of one id at once | 1 id, 2 clients | finding |
| PrepareAgain | `TypeOk`, `AnsweredIsRegistered`, `FileCoversPmem`, `LiveBitmapIsOwn`, `KeepsReadiness` with refusals, failures (those to read a bitmap included), removals and crashes anywhere | 2 clients, 3 layers, one of them bad, 4 requests with 2 sources, 2 lengths and one unit | 158 k |
| PrepareUnits | **violation** of `LiveBitmapIsOwn`: a live layer prepared again with another unit | 1 layer, 1 client, 2 units | finding |
| Daemon | `TypeOk`, `AnswersMatch`, `CutAnywhere`, `RetriesWithNewToken`, `AllServed`, `LeavingFrees` with failures, disconnections and expiry anywhere | 1 worker, 2 data connections, 1 call at a time, the event loop, 2 ranges, 1 token, queues of 1 packet, 4 loads | 55 k, liveness |

Why the bounds are enough to be interesting: two units over two blocks give ranges that
overlap without being equal (the case `reserve_inflight` is for) and headers that
differ in unit only; two objects are a live one beside a stale one, or beside one being prepared;
three tasks let one be overtaken while another holds; a loss of power with two blocks and two slots has every
mixture of old and new pages. Objects and tasks are symmetric where no liveness is
checked. The four requests of PrepareAgain overlap in one layer, in two in either order, and behind a layer that
is refused, so a request can find the work of another one at each stage. 

One worker is what `#[tokio::main]` starts on a machine with one processor, and the hardest case for
`AllServed` and `LeavingFrees`: a single idle client stops everything. A queue of one packet already
makes a client pipeline (one packet is handled, one queued, one answer unread) and a sender block.
The four loads are one client that sends every kind of packet beside the event loop and a failing
accept; a connection, an HTTP call and the event loop, two of them after one range; two connections
after one range in a process without a fanotify backend, which has no event loop (`main.rs:46-61`) and is
therefore a load without events; and an idle connection beside every kind of call: whole, without Content-Length,
announcing more than it sends, no HTTP, and with a head that is too long. One token that expires
suffices for an expired token in the cache; more tasks and challenges on one cache are a matter of
`DaemonRetryIsNew`, which is proved for all of them. `MaxTokens` and `MaxQueued` are the only bounds
on counters, of which the second is the kernel's; every other state space is finite by itself.

With several blobs on a target the promise holds only if initializations are not
interrupted and removals wait for tasks; LazyReuse checks just that (no fault but failed reads of the bitmap,
and a single object, which cannot be opened while it is held). Without these two conditions it is false (LazyTorn, LazyStale), and what is
left is that an answer is never a hole: `AnsweredIsPresent`, which no run has to check because it is proved below
for any blobs, objects and faults (`NeverAHole`).
`DurableBeforeReady` and `AnsweredNotRefetched` are checked for
one object at a time and one unit, as in LazyWaiters: a preparation with another unit, or one that cannot read
the bitmap, resets the file below a live object. `AnsweredNotRefetched` also needs that the bitmap can be read. For that case both are proved, and the first also for several objects of one unit.

Every property has a mutant: a faulty variant of one definition (named as such where
it stands) that violates it.

### Fairness

`LazyInstance!FairSpec`: tokio runs a task that can run, so each task's own steps
(`Proceed`) are weakly fair. The remote is not: `WaitersEnd` assumes that
every download ends, which nothing in the code enforces (the HTTP client has no timeout).
Reservations are polled in no order, so `Reserve` gets no strong fairness; the property holds
because every overtaking task makes slots ready for good, until failures recur for
ever, which the property excludes too.

`FanotifyMarks!FairSpec`: requests run on; the event thread reads its events; `Get` is
strongly fair because tokio's `RwLock` is first come, first served. Again downloads are
assumed to end. Readers and new requests are not fair: nobody needs them.

`Daemon!FairSpec`: what a task does by itself (`Proceed`) is strongly fair, because a worker that
comes free takes up the tasks that can run in turn, and with one worker it is also the one that
drives sockets and timers. With several, this assumes of the runtime that a worker which is left
takes over what a blocked one was driving or had woken. Clients, the registry and the token service
are not fair. `AllServed` has what it needs of them as premises, next to the conclusion: workers are
not taken away for good (`[]<>Free`), the remote answers, and failures end; polling gives no order,
but every overtaking task then makes a range ready, so the contention ends. `LeavingFrees` has no
premise: a client that leaves gives its worker back even if no other worker could help.

## 4. Proofs

Checked by TLAPS for every value of the constants: all blobs, units, objects, tasks, files, clients,
requests, queues, integer widths and faults.

| Theorem | Says | Needs |
|---|---|---|
| *LazyInstance_proofs* | | |
| `TypeCorrect` | `Spec => []TypeOk` | |
| `ReservationsExclusive` | `[]InflightExclusive` | |
| `NoDuplicateFetch` | `[]FetchIsNeeded` | |
| `NeverAHole` | `[]AnsweredIsPresent`, any number of blobs | |
| `AnswersAreTrue`, `ReadySlotsAreTrue` | `[]AnsweredIsWritten`, `[]ReadyIsWritten`, under crashes and losses of power | `OneBlob` |
| `ReadyIsDurable` | `[]DurableBeforeReady`, any blobs, units and faults | `OneObject` |
| `ReadyIsDurableShared` | `[]DurableBeforeReady`, any number of objects | `OneConfig`, `[]OneOpens`, no failed read of the bitmap, no loss of power |
| `AnswersAreKept` | `[]AnsweredNotRefetched`, with failed writes, seeks and downloads, and crashes | `OneObject`, `OneConfig`, no failed read of the bitmap, no loss of power |
| *LazyRefinement_proofs* | | |
| `Refinement` | `Spec => ImplementsCache` | `OneBlob` |
| `CacheKeepsPromise` | the abstract cache tells nobody of a block that is not there | |
| *Geometry_proofs* | | |
| `SlotsCutBlob` | `[]SlotsPartitionBlob` | |
| `FetchesCoverRequests` | `[]FetchCoversRequest` | |
| `WritesAreMarked` | `[]WrittenIsMarked`: what an accepted download overwrites is what is then marked, and right if the body begins where the range does | |
| `AllowedAreInBlob` | `[]AllowedIsInBlob` | |
| `FetchesAnswerPages` | `[]FetchAnswersPages` | |
| `PmemIsLongEnough` | `[]PmemHoldsPages` | |
| `LostAreBehindOverflow` | `[]LostOnlyAfterOverflow`, reads of any number of events | |
| *FanotifyMarks_proofs* | | |
| `TypeCorrect` | `[]TypeOk` | |
| `AllowedAreFilled` | `AllowedIsFilled` | `IdsHaveOneFile` |
| `RegisteredAreMarked`, `OrphansAreLeaks` | `[]RegisteredIsMarked` (marked with a backend, unmarked without), `[]NoOrphanMark` | `FilesHaveOneId`, `[]RequestsApart` |
| `ServedAreAnswered` | `[]ServedIsAnswered`, which is about processes with a backend | `FilesHaveOneId`, `[]RequestsApart` |
| `OwnIdsAreApart` | `[]RequestsApart` | `ClientsHaveOwnIds` |
| *PrepareImage_proofs* | | |
| `TypeCorrect` | `[]TypeOk` | |
| `FilesCoverPmem` | `[]FileCoversPmem` | |
| `AnswersRegister` | `[]AnsweredIsRegistered` | |
| `LiveBitmapsAreOwn`, `ReadinessIsKept` | `[]LiveBitmapIsOwn`, `KeepsReadiness`, both but for what a failed read of the bitmap took (`lost`) | `OneUnit` |
| *RegistryAuth_proofs* | | |
| `RetryIsNew` | `AuthSpec => []RetriesWithNewToken`, any number of tasks, challenges and tokens | |
| *Daemon_proofs* | | |
| `DaemonImplementsAuth` | `Spec => AuthSpec`: a daemon's reads are RegistryAuth's reads, whatever the load and the workers | |
| `DaemonRetryIsNew`, `DaemonTypeCorrect` | hence `[]RetriesWithNewToken`; `[]TypeOk` | `MaxTokens` is a number |
| `AnswersInOrder` | `[]AnswersMatch` | |
| `CallsAreWhole` | `[]CutAnywhere` | |

### Assumptions

Besides the named ones on the constants, each of which says what the code or its tests rely on:

* `OneBlob`: a target is only ever used for one blob, the intended use, since cache keys are digests. LazyTorn and
  LazyStale show what happens otherwise.
* `OneObject`: one `RangeMap` object of a target exists at a time, as long as nobody prepares an image whose layer is
  live, or registers a target anew under running tasks. With two of them, recovery of one may clear a slot that
  the other has just set, and with two units the file starts anew.
* `OneConfig`: and its blob and unit are always the same. A file for another unit starts anew, so everything is downloaded
  again. A loss of power may take answered blocks away, and they *should* be downloaded again.
* `OneUnit`: all requests of images/prepare have one fetch unit. PrepareUnits shows the need.
* `OneOpens`: no two objects of a target are opened at the same time. Registrations exclude each other, and so do
  preparations, but a preparation may initialize the file under an object that is being registered.
* `IdsHaveOneFile`: an id is always registered for the same file, by whomever and however often. Without it the loop
  may ensure a file that its reader does not read (section 5).
* `FilesHaveOneId`: a file is always registered under the same id. lazyd has one record per inode, so a registration
  under a second id takes over the record of the first. An id may name several files, in turn.
* `RequestsApart`: no two requests are at work on one id at once. FanSameId shows the need. It is a premise on the
  clients, any of which may use any id at any time otherwise; `ClientsHaveOwnIds` is one way to have it so.

### Argument

**LazyInstance.** `TypeInv` strengthens `TypeOk` with what a task holds while it runs: an object with
a configuration that is live or removed but not opening again, and a non-empty request. Exclusion
needs the exact content of `inflight`, the ranges of the tasks that hold one, so that
`Release` removes one's own and no other; `InflightExclusive` states both and is inductive
over `TypeInv`. `FetchIsNeeded` follows: between a
task's second check and its publication, whoever else publishes on the instance holds a
disjoint range, and amplified ranges that are disjoint have disjoint slots
(`DisjointSlots`). `AnsweredIsPresent` is not inductive by itself; its strengthening
`Stored` says for every place where a claim about blocks lives that they are no
holes: the ready slots in memory that recovery has examined (`ReadyFilled`,
`TodoOnlyRecovering`), what a task has written so far (`WrittenFilled`), and the answers. It says
nothing of the slots in the *file*, since write-back makes them arbitrary: that is
why recovery must look at holes, and the proof shows that looking is enough. Only a loss of
power makes holes (`FilledGrows`), and it takes objects, tasks and answers with it. With one blob, a
block that is no hole holds that blob (`StoredIsWritten`), which gives `AnsweredIsWritten`
and `ReadyIsWritten`. The refinement adds that what is on disk lies
behind what is cached and that idle tasks ask for nothing (`RefineInv`), so that a loss of power maps to `Lose`.

The memory and the file: `FileFollows` says that the object in use (live, recovering, or removed and held by a
task) has its own header in the file and no slot that the file lacks, `MarkedInFile` the same of a task between writing
slots and publishing them. Both survive anything that can happen to one object. That answers are kept needs
in addition that the file is never initialized over them: it is not too short for its header
(`HeaderHasSlots`) and its header is the one configuration; that recovery clears a slot only for a hole in it
(`ClearedForHole`) while the slot of an answered block has none; and that a task is done only if its range is ready
(`DoneIsReady`). `AnsweredKept` puts this together, and a task that fetches has a range that is not ready
(`FetchIsNeeded`).

With several objects, `FileShared` says of every object in use what `FileFollows` says of one, and that the file is
then complete and nobody starts it anew, as no read of it fails: an object that opens a complete file of its own configuration goes on to
its slots, and none comes into use beside one that initializes (`OneOpens`). What is left is recovery beside a running
task. It clears a slot for a hole, but without a loss of power the file has only slots whose blocks are there
(`FileFilled`), since `WrittenFilled` holds when a task marks. Answers are *not* kept among several objects: one that has
read the slots before a task of another one marks its own will download that range again.

**Geometry.** Every action is one call on a geometry that a registration has accepted (`Registered`),
so the invariant only has to say what was accepted and that the recorded reply is the model's reply to some
arguments (`ReplyOk`); the rest is arithmetic. Division by an unknown unit is beyond the SMT solver, so each
quotient is pinned between two products (`DivIs`, `DivAtLeast`, `CeilAtMost`), and every fact about
slots goes through these. That plain arithmetic does not wrap (`NoWrap`) follows from what registration
checks: `size + (unit - 1)` fits into the integer, and a page is no larger than the smallest unit, which is
why the rounding up of a FETCH to its page cannot overflow either.

Reads of events are the one place where the proof needs induction over data. `Ends` and `From` are recursive functions,
which TLA+ takes for *some* function with their equation, so the first thing to show is that there is one (`EndsExist`,
`ParseExists`). That and every other induction goes by the least number without the property (`LeastNatural`, from the
well-foundedness of the numbers). `EventStarts` places event `n` behind the lengths of those before it, `RunStep` says that
`parse_events` gets from one event to the next, permission or not, and `ParsedPrefix` that it stops only at the end of the read
or at an event too short to be a permission event.

**FanotifyMarks.** `Stopped` says where blocked readers are: each is in the queue once, or in the loop's hands.
Whatever has an id, in the table, in the marks, at a client or in the loop, has a file that somebody names by it (`Named`);
this needs no assumption. If an id names one file, the instance that the loop finds is for the file its reader reads, however long
ago the id was looked up (`LoopOwned`). If a file has one id, and requests keep apart, a client at work is at an id that is not
registered (`FreeId`), so its file is nobody else's (`FileIsOwn`), and its marks stay as it made them from step to step
(`Registering`, and `Unmarked` for the error paths). A process without a backend has no mark and no request on the way
to one (`Bare`), and `MarkedInv` is one or the other. `ServedInv` follows a reader whose file stays registered: it waits,
or was let through with its data, and when the loop holds its event the instance is still there and is for its file.

**PrepareImage.** `LockHeld` is `prepare_lock` as an invariant: one request is between its first step and its answer, so
the layers it has been at keep the length it gave them (`MadeInv`; nothing makes a file shorter, `FilesGrow`) and the
registration it made or found, unless someone removed that (`RegisteredInv`). With one unit, the header of every bitmap that
matters already has it (`UnitInv`), so opening it again takes nothing away that `lost` does not name (`OpenKeeps`).

**RegistryAuth.** `RetryIsNew` shows that expiry is the only way to a retry with the token that was refused. Its
invariant says of a challenged task that the registry does not accept the refused token under its
challenge, and that the one it obtained is accepted there or has expired (`ChallengedTask`), which
needs that no token is known before it is issued (`IssuedTokens`, `SentIsIssued`, `ExpiredIssued`)
and that the cache holds nothing else (`CachedIsValid`), whichever task stored them.

**Daemon.** `DaemonImplementsAuth` goes through the actions of Daemon: each one that touches a variable of
RegistryAuth does so by one of its actions (`StepIsAuthStep`). For the answers, `Matching` accounts for every packet
of a connection: those whose answers its client has not read are, in this order, the ones answered, the one being
handled and the ones queued, and each answer fits its packet. DataPlane_proofs has what each operation on
the two queues does to it, `Accounted` what it means at each point of `handle_stream`. `CallKnown` does the same for a call: what
has been read of it at each point of `read_request`, and that it goes on with less than announced only if its client stopped.

### Only model-checked

* Liveness (`WaitersEnd`, `BlockedEnds`, `AllServed`, `LeavingFrees`): fairness and `ENABLED` are out of the prover's reach.
* The violations of section 5, which are single behaviours.

## 5. Findings

* **LazyTorn** (`range_map.rs:233`): the header of a new blob is written before the old
  slots are zeroed. After a crash in between, the next open believes the old
  blob's slots, and recovery agrees since the old data is still there.
* **LazyStale** (`instance.rs:161`): DELETE does not wait for running tasks. A task of the removed
  instance writes its blob over a block that the next registration of the target has answered for, while that one is
  still registered. `AnsweredIsWritten` fails as well in this configuration, and a step earlier: the old task may mark its
  slots under the new header, and a later opening believes them; or a registration believes the old slots in the
  middle of the initialization by a preparation.
* **FanSameId** (`instance.rs:161-164`): unmark happens after the lock is released and removes the mark of a
  registration that came in between; the new instance's readers are never stopped.
* **PrepareUnits** (`control.rs:141`): the bitmap is opened before the registration is decided, so a
  request with another fetch unit empties the bitmap file of the live instance and is refused only then.

* **Geometry** (`range_map.rs:160`): `external-range-api.md:39-40` has slots of 1 MiB, of which a fetch unit can span several;
  in the code a slot is one fetch unit, whatever its size. `SlotsPartitionBlob` says so.
* **FanOwnIds** (`instance.rs:152`): `external-range-api.md:5-6` says that lazyd marks the target of an instance in
  fanotify mode; without a backend (`main.rs:46-56`) the instance is registered all the same and never marked.
  `RegisteredIsMarked` states both cases.

Eight more things a maintainer should know of, which no document of the repository speaks against:

* `fanotify.rs:191`: the loop knows the id of an event, not its inode, when it looks the instance up. If the id was removed and
  registered for another file in between, that file is filled and the reader of the first one is let through to a hole.
  `AllowedIsFilled` is false then (TLC finds it with one client that registers one id for two files), hence `IdsHaveOneFile`.
* `range_map.rs:73`: a failed read of the header or of the slots is taken for a file that does not match, which is zeroed. One
  I/O error thus forgets the readiness of a whole target, and a preparation can do so under a live instance.
* `remote/oci.rs:199-212`: of the registry's answer only the status, 206 or 200, and the length are looked at. A body of the right
  length that begins elsewhere in the blob is written and marked (`WrittenIsMarked` says what is left).
* `remote/oci.rs:286`: a cached token is never dropped, so once it has expired every read of the instance retries with
  the token that was just refused, until the instance is registered anew. `RetriesWithNewToken` has to allow this case, and
  `RetryIsNew` shows that it is the only one.
* `data.rs:98`: as many idle clients as workers stop the whole daemon, HTTP and fanotify included. `AllServed` is true only
  under `[]<>Free`.
* `data.rs:82`: one failed accept, say for want of descriptors, ends the data plane until a restart.
* `fanotify.rs:303`: an event without a count asks for 4 MiB and is denied near the end of the blob, as `AllowedIsInBlob` spells out.
* `fanotify.rs:267`: behind the event that tells of an overflowed queue, the rest of a read is dropped, and its readers
  stay blocked (`LostOnlyAfterOverflow` says that nothing else is).

## 6. Not modelled, and the plan

The order follows what breaks the promise first: the files and the fetch state machine, then who is
registered and marked, then requests that span many instances, then what the remote needs, then the threads.

Done: all modules above with their runs, and proofs of every type invariant, safety invariant and action property that
a passing run checks. What could come next:

1. A refinement of PrepareImage by the steps of `open_or_create` that LazyInstance has, and one of FanotifyMarks by
   the ranges and tasks of LazyInstance.
2. Two ids for one file in FanotifyMarks, where a registration takes over the record of another one's mark, and what
   `FilesHaveOneId` would have to become.
3. A loss of power in `ReadyIsDurableShared`, where a preparation may clear a slot that a live object has just filled.

Left out: what JSON, HTTP head lines, URLs, image references, host configuration and challenge
headers look like, the layout of control messages, argument parsing. They keep no state and are
inputs here. The end of the runtime when the control socket fails to accept (`control.rs:71`): `main`
returns, and the process waits for threads that are blocked in system calls.
