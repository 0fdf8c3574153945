--------------------------- MODULE FanotifyMarks ---------------------------
(***************************************************************************)
(* Instances in fanotify mode: the registry and its write lock             *)
(* (src/instance.rs), the fanotify marks kept by the kernel and by lazyd,  *)
(* and the single event loop that answers the permission events of readers *)
(* of the marked files (src/fanotify.rs).  A file is an inode and one      *)
(* range of it; what ensure_range does to it is the subject of             *)
(* LazyInstance.  lazyd reads no marked file itself.                       *)
(*                                                                         *)
(* A process may run without a fanotify backend: it was switched off, or   *)
(* it cannot be had.  Such a process takes the same requests, marks no     *)
(* file and has no event loop.                                             *)
(***************************************************************************)
EXTENDS Naturals, Sequences

CONSTANTS
    Ids,        \* instance ids
    Files,      \* target files
    Clients,    \* callers of the control plane
    Readers,    \* processes that read target files
    Nobody,     \* no id, no file, no reader
    MayAsk,     \* client -> pairs of id and configuration it asks for
    Faults      \* which of "io", "metadata", "crash" may happen

ASSUME NobodyAssumption == Nobody \notin Ids \cup Files \cup Readers
ASSUME FaultsAssumption == Faults \subseteq {"io", "metadata", "crash"}

Modes == {"fanotify", "external"}
Config == [file : Files, mode : Modes]
NoConfig == [file |-> Nobody, mode |-> "external"]

ASSUME MayAskAssumption == MayAsk \in [Clients -> SUBSET (Ids \X Config)]

VARIABLES
    backend,    \* whether this process has a fanotify backend
    table,      \* InstanceRegistry: id -> configuration, or NoConfig
    kmark,      \* files the kernel has a permission mark on
    marks,      \* FanotifyInner::marks: file -> id, or Nobody
    filled,     \* files whose range is in the cache file
    cpc,        \* where each client's request is
    cid,        \* the id it is about
    ccfg,       \* the configuration it registers, or removed
    rpc,        \* what each reader is doing, or a bad end of its read
    rfile,      \* the file it reads
    queue,      \* permission events, oldest first, by their readers
    lpc,        \* where the event loop is
    lev,        \* the event it handles
    lid,        \* the id it found for the event
    lfile,      \* the file of the instance it found for the id
    served,     \* history: the file was registered since the read began
    leaked      \* history: marked files on which metadata() failed

tableVars == <<backend, table, kmark, marks>>
clientVars == <<cpc, cid, ccfg>>
readerVars == <<rpc, rfile, queue, served>>
loopVars == <<lpc, lev, lid, lfile>>
vars == <<tableVars, filled, clientVars, readerVars, loopVars, leaked>>

Locking == {"open", "mark", "metadata", "insert"}
Removing == {"unmark", "forget"}
Reading == {"blocked", "allowed"}

TypeOk ==
    /\ backend \in BOOLEAN
    /\ table \in [Ids -> Config \cup {NoConfig}]
    /\ kmark \in SUBSET Files
    /\ marks \in [Files -> Ids \cup {Nobody}]
    /\ filled \in SUBSET Files
    /\ cpc \in [Clients -> {"idle"} \cup Locking \cup Removing]
    /\ cid \in [Clients -> Ids \cup {Nobody}]
    /\ ccfg \in [Clients -> Config \cup {NoConfig}]
    /\ rpc \in [Readers -> {"idle", "hole", "denied"} \cup Reading]
    /\ rfile \in [Readers -> Files \cup {Nobody}]
    /\ queue \in Seq(Readers)
    /\ lpc \in {"wait", "get", "ensure"}
    /\ lev \in Readers \cup {Nobody}
    /\ lid \in Ids \cup {Nobody}
    /\ lfile \in Files \cup {Nobody}
    /\ served \in SUBSET Readers
    /\ leaked \in SUBSET Files

Init ==
    /\ backend \in BOOLEAN
    /\ table = [id \in Ids |-> NoConfig]
    /\ kmark = {}
    /\ marks = [f \in Files |-> Nobody]
    /\ filled = {}
    /\ cpc = [c \in Clients |-> "idle"]
    /\ cid = [c \in Clients |-> Nobody]
    /\ ccfg = [c \in Clients |-> NoConfig]
    /\ rpc = [r \in Readers |-> "idle"]
    /\ rfile = [r \in Readers |-> Nobody]
    /\ queue = <<>>
    /\ lpc = "wait" /\ lev = Nobody /\ lid = Nobody /\ lfile = Nobody
    /\ served = {}
    /\ leaked = {}

(* The write lock is held from the lookup of the id to the insertion.      *)
Locked == \E c \in Clients : cpc[c] \in Locking

Serves(f) == \E id \in Ids : table[id] = [file |-> f, mode |-> "fanotify"]

-----------------------------------------------------------------------------
(* The requests of the clients.                                            *)

CGoto(c, from, to) ==
    /\ cpc[c] = from
    /\ cpc' = [cpc EXCEPT ![c] = to]

(* A request that is over leaves nothing of itself behind.                 *)
CEnd(c, from) ==
    /\ CGoto(c, from, "idle")
    /\ cid' = [cid EXCEPT ![c] = Nobody]
    /\ ccfg' = [ccfg EXCEPT ![c] = NoConfig]

(* PUT: an id that is there is left alone, whatever the configuration.     *)
Register(c, id, config) ==
    /\ ~Locked
    /\ table[id] = NoConfig
    /\ CGoto(c, "idle", "open")
    /\ cid' = [cid EXCEPT ![c] = id]
    /\ ccfg' = [ccfg EXCEPT ![c] = config]
    /\ UNCHANGED <<tableVars, filled, readerVars, loopVars, leaked>>

(* Without a backend the instance is inserted without a mark.              *)
OpenOk(c) ==
    /\ CGoto(c, "open", IF ccfg[c].mode = "fanotify" /\ backend THEN "mark"
                                                               ELSE "insert")
    /\ UNCHANGED <<tableVars, filled, cid, ccfg, readerVars, loopVars, leaked>>

(* Faulty variant: a mark the kernel refuses is only logged.               *)
RegisterWithoutMark(c) ==
    /\ "io" \in Faults
    /\ \/ CEnd(c, "open") /\ UNCHANGED tableVars
       \/ CGoto(c, "mark", "insert") /\ UNCHANGED <<tableVars, cid, ccfg>>
    /\ UNCHANGED <<filled, readerVars, loopVars, leaked>>

(* Instance::open or the kernel refuses, and the registration ends.        *)
RegisterErr(c) ==
    /\ "io" \in Faults
    /\ \E at \in {"open", "mark"} : CEnd(c, at)
    /\ UNCHANGED <<tableVars, filled, readerVars, loopVars, leaked>>

Mark(c) ==
    /\ CGoto(c, "mark", "metadata")
    /\ kmark' = kmark \cup {ccfg[c].file}
    /\ UNCHANGED <<backend, table, marks, filled, cid, ccfg>>
    /\ UNCHANGED <<readerVars, loopVars, leaked>>

(* Faulty variant: the file is recorded under itself.                      *)
MarkFileKeyed(c) ==
    /\ CGoto(c, "metadata", "insert")
    /\ marks' = [marks EXCEPT ![ccfg[c].file] = ccfg[c].file]
    /\ UNCHANGED <<backend, table, kmark, filled, cid, ccfg>>
    /\ UNCHANGED <<readerVars, loopVars, leaked>>

MarkId(c) ==
    /\ CGoto(c, "metadata", "insert")
    /\ marks' = [marks EXCEPT ![ccfg[c].file] = cid[c]]
    /\ UNCHANGED <<backend, table, kmark, filled, cid, ccfg>>
    /\ UNCHANGED <<readerVars, loopVars, leaked>>

(* The mark of the kernel stays when the inode cannot be looked up.        *)
MarkIdErr(c) ==
    /\ "metadata" \in Faults
    /\ leaked' = leaked \cup {ccfg[c].file}
    /\ CEnd(c, "metadata")
    /\ UNCHANGED <<tableVars, filled, readerVars, loopVars>>

Insert(c) ==
    /\ CEnd(c, "insert")
    /\ table' = [table EXCEPT ![cid[c]] = ccfg[c]]
    /\ UNCHANGED <<backend, kmark, marks, filled>>
    /\ UNCHANGED <<readerVars, loopVars, leaked>>

(* DELETE: the entry goes under the lock, the marks after its release.     *)
Unregister(c, id) ==
    /\ ~Locked
    /\ table[id] # NoConfig
    /\ cpc[c] = "idle"
    /\ table' = [table EXCEPT ![id] = NoConfig]
    /\ served' = {r \in served : \E j \in Ids \ {id} :
                     table[j] = [file |-> rfile[r], mode |-> "fanotify"]}
    /\ IF table[id].mode = "fanotify" /\ backend
       THEN /\ CGoto(c, "idle", "unmark")
            /\ cid' = [cid EXCEPT ![c] = id]
            /\ ccfg' = [ccfg EXCEPT ![c] = table[id]]
       ELSE UNCHANGED clientVars
    /\ UNCHANGED <<backend, kmark, marks, filled>>
    /\ UNCHANGED <<rpc, rfile, queue, loopVars, leaked>>

(* Faulty variant: only lazyd's own record of the mark is removed.         *)
UnmarkRecordOnly(c) ==
    /\ CGoto(c, "unmark", "forget")
    /\ UNCHANGED <<tableVars, filled, cid, ccfg, readerVars, loopVars, leaked>>

Unmark(c) ==
    /\ ccfg[c].file \in kmark
    /\ CGoto(c, "unmark", "forget")
    /\ kmark' = kmark \ {ccfg[c].file}
    /\ leaked' = leaked \ {ccfg[c].file}
    /\ UNCHANGED <<backend, table, marks, filled, cid, ccfg>>
    /\ UNCHANGED <<readerVars, loopVars>>

(* metadata() fails, or the kernel refuses because there is no mark: the   *)
(* request ends and lazyd's record stays, as does the mark if there is one.*)
UnmarkErr(c) ==
    /\ ccfg[c].file \in kmark => "metadata" \in Faults
    /\ CEnd(c, "unmark")
    /\ leaked' = leaked \cup ({ccfg[c].file} \cap kmark)
    /\ UNCHANGED <<tableVars, filled, readerVars, loopVars>>

ForgetId(c) ==
    /\ CEnd(c, "forget")
    /\ marks' = [marks EXCEPT ![ccfg[c].file] = Nobody]
    /\ UNCHANGED <<backend, table, kmark, filled>>
    /\ UNCHANGED <<readerVars, loopVars, leaked>>

-----------------------------------------------------------------------------
(* The readers, in the kernel.                                             *)

ReadEnd(r) ==
    /\ rpc' = [rpc EXCEPT ![r] = "idle"]
    /\ rfile' = [rfile EXCEPT ![r] = Nobody]
    /\ served' = served \ {r}

StartRead(r, f) ==
    /\ rpc[r] \notin Reading
    /\ rfile' = [rfile EXCEPT ![r] = f]
    /\ served' = IF Serves(f) THEN served \cup {r} ELSE served \ {r}
    /\ IF f \in kmark
       THEN /\ rpc' = [rpc EXCEPT ![r] = "blocked"]
            /\ queue' = Append(queue, r)
       ELSE /\ rpc' = [rpc EXCEPT ![r] = "allowed"]
            /\ UNCHANGED queue
    /\ UNCHANGED <<tableVars, filled, clientVars, loopVars, leaked>>

(* A read that returns data is over and forgotten.                         *)
FinishRead(r) ==
    /\ rpc[r] = "allowed"
    /\ IF rfile[r] \in filled
       THEN ReadEnd(r)
       ELSE /\ rpc' = [rpc EXCEPT ![r] = "hole"]
            /\ UNCHANGED <<rfile, served>>
    /\ UNCHANGED <<tableVars, filled, clientVars, queue, loopVars, leaked>>

-----------------------------------------------------------------------------
(* The event loop.                                                         *)

Respond(r, answer) ==
    rpc' = [rpc EXCEPT ![r] = answer]

LoopEnd ==
    /\ lpc' = "wait"
    /\ lev' = Nobody
    /\ lid' = Nobody
    /\ lfile' = Nobody

(* Faulty variant: an event of an unknown file is skipped.                 *)
ReceiveKnown ==
    LET r == Head(queue) IN
    /\ lpc = "wait" /\ queue # <<>>
    /\ queue' = Tail(queue)
    /\ IF marks[rfile[r]] = Nobody
       THEN UNCHANGED loopVars
       ELSE /\ lpc' = "get" /\ lev' = r /\ lid' = marks[rfile[r]]
            /\ UNCHANGED lfile
    /\ UNCHANGED <<tableVars, filled, clientVars, rpc, rfile, served, leaked>>

(* The next event, and the id its file is marked for.                      *)
Receive ==
    LET r == Head(queue) IN
    /\ lpc = "wait" /\ queue # <<>>
    /\ queue' = Tail(queue)
    /\ IF marks[rfile[r]] = Nobody
       THEN Respond(r, "denied") /\ UNCHANGED loopVars
       ELSE /\ lpc' = "get" /\ lev' = r /\ lid' = marks[rfile[r]]
            /\ UNCHANGED <<rpc, lfile>>
    /\ UNCHANGED <<tableVars, filled, clientVars, rfile, served, leaked>>

(* Faulty variant: no registered instance, nothing to wait for.            *)
GetAllows ==
    /\ lpc = "get" /\ ~Locked
    /\ IF table[lid] = NoConfig
       THEN Respond(lev, "allowed") /\ LoopEnd
       ELSE /\ lpc' = "ensure" /\ lfile' = table[lid].file
            /\ UNCHANGED <<rpc, lev, lid>>
    /\ UNCHANGED <<tableVars, filled, clientVars, rfile, queue, served, leaked>>

(* registry.get waits for the lock.                                        *)
Get ==
    /\ lpc = "get" /\ ~Locked
    /\ IF table[lid] = NoConfig
       THEN Respond(lev, "denied") /\ LoopEnd
       ELSE /\ lpc' = "ensure" /\ lfile' = table[lid].file
            /\ UNCHANGED <<rpc, lev, lid>>
    /\ UNCHANGED <<tableVars, filled, clientVars, rfile, queue, served, leaked>>

EnsureOk ==
    /\ lpc = "ensure"
    /\ filled' = filled \cup {lfile}
    /\ Respond(lev, "allowed")
    /\ LoopEnd
    /\ UNCHANGED <<tableVars, clientVars, rfile, queue, served, leaked>>

(* Faulty variant: the reader may try its luck.                            *)
EnsureErrAllows ==
    /\ "io" \in Faults
    /\ lpc = "ensure"
    /\ Respond(lev, "allowed")
    /\ LoopEnd
    /\ UNCHANGED <<tableVars, filled, clientVars, rfile, queue, served, leaked>>

EnsureErr ==
    /\ "io" \in Faults
    /\ lpc = "ensure"
    /\ ReadEnd(lev)
    /\ LoopEnd
    /\ UNCHANGED <<tableVars, filled, clientVars, queue, leaked>>

-----------------------------------------------------------------------------
(* The process stops: its registry is gone, and the kernel removes its     *)
(* marks and lets every waiting reader through.  The next process may have *)
(* a backend or not.                                                       *)
Crash ==
    /\ "crash" \in Faults
    /\ backend' \in BOOLEAN
    /\ table' = [id \in Ids |-> NoConfig]
    /\ kmark' = {}
    /\ marks' = [f \in Files |-> Nobody]
    /\ cpc' = [c \in Clients |-> "idle"]
    /\ cid' = [c \in Clients |-> Nobody]
    /\ ccfg' = [c \in Clients |-> NoConfig]
    /\ rpc' = [r \in Readers |-> IF rpc[r] = "blocked" THEN "allowed" ELSE rpc[r]]
    /\ queue' = <<>>
    /\ LoopEnd
    /\ served' = {}
    /\ leaked' = {}
    /\ UNCHANGED <<filled, rfile>>

-----------------------------------------------------------------------------
ClientStep(c) ==
    \/ OpenOk(c) \/ RegisterErr(c) \/ Mark(c) \/ MarkId(c) \/ MarkIdErr(c)
    \/ Insert(c)
    \/ Unmark(c) \/ UnmarkErr(c) \/ ForgetId(c)

Request(c) ==
    \/ \E p \in MayAsk[c] : Register(c, p[1], p[2])
    \/ \E p \in MayAsk[c] : Unregister(c, p[1])

ReaderStep(r) == FinishRead(r) \/ \E f \in Files : StartRead(r, f)

LoopStep == Receive \/ Get \/ EnsureOk \/ EnsureErr

Next ==
    \/ \E c \in Clients : ClientStep(c) \/ Request(c)
    \/ \E r \in Readers : ReaderStep(r)
    \/ LoopStep
    \/ Crash

Spec == Init /\ [][Next]_vars

(* Requests run on, the event loop reads its events, and tokio's RwLock is *)
(* first come, first served, so a lookup that waits for it gets it.        *)
FairSpec ==
    /\ Spec
    /\ \A c \in Clients : WF_vars(ClientStep(c))
    /\ WF_vars(Receive)
    /\ SF_vars(Get)
-----------------------------------------------------------------------------
(* A registered file in fanotify mode carries the mark of the kernel and   *)
(* the id of its instance, whatever requests are under way or have failed, *)
(* if the process has a backend.  Without one (main.rs:46-56) the file is  *)
(* registered all the same, and never marked (instance.rs:152).            *)
RegisteredIsMarked ==
    \A id \in Ids : table[id].mode = "fanotify" =>
        IF backend
        THEN table[id].file \in kmark /\ marks[table[id].file] = id
        ELSE table[id].file \notin kmark

(* With a backend, a reader of a file that stays registered from the       *)
(* beginning of the read to its end gets the data, or an error of the      *)
(* download: never a hole, and it is never turned away as a stranger.      *)
(* Without one nothing stops it, and it reads whatever is in the file.     *)
ServedIsAnswered ==
    backend => \A r \in served : rpc[r] \notin {"hole", "denied"}

(* Each id names one file, in each of these requests, and lazyd lets no    *)
(* reader through before the range is there; a reader that was let through *)
(* by the end of the process, or was never stopped, is another matter.     *)
AllowedIsFilled ==
    [][\A r \in Readers :
          lev = r /\ rpc[r] = "blocked" /\ rpc'[r] = "allowed" /\ ~Crash
          => rfile[r] \in filled']_vars

(* A mark outlives its instance only for as long as a request is at work   *)
(* on it, or after metadata() failed: readers of a file nobody serves any  *)
(* more are not stopped.                                                   *)
NoOrphanMark ==
    \A f \in kmark \ leaked :
        \/ Serves(f)
        \/ \E c \in Clients : cpc[c] # "idle" /\ ccfg[c].file = f

(* A reader that waits for lazyd is answered, if the remote answers the    *)
(* fetches: events of unknown files, removed instances, a lock that is     *)
(* taken and the end of the process included.                              *)
BlockedEnds ==
    []<>(lpc # "ensure") =>
        \A r \in Readers : rpc[r] = "blocked" ~> rpc[r] # "blocked"
=============================================================================
