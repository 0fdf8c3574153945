------------------------ MODULE FanotifyMarks_proofs ------------------------
(* What holds of marks, events and readers for any ids, files, clients and *)
(* readers.  The types need no more.  That lazyd lets a reader through     *)
(* only to data needs ids that do not change their file (IdsHaveOneFile);  *)
(* the marks, and the readers they serve, need files that do not change    *)
(* their id (FilesHaveOneId) and requests that keep apart (RequestsApart). *)
EXTENDS FanotifyMarks, SequenceTheorems, TLAPS

(* A request at work has an id and a configuration; the loop has the id of *)
(* its event, and then the file of the instance.                           *)
ClientAtWork ==
    \A c \in Clients : cpc[c] # "idle" => cid[c] \in Ids /\ ccfg[c] \in Config

LoopAtWork ==
    /\ lpc # "wait" => lid \in Ids
    /\ lpc = "ensure" => lfile \in Files

(* The readers that lazyd has to answer: each is in the queue once, or is  *)
(* the one whose event the loop handles.                                   *)
Stopped ==
    /\ \A i \in 1 .. Len(queue) : rpc[queue[i]] = "blocked" /\ queue[i] # lev
    /\ \A i, j \in 1 .. Len(queue) : queue[i] = queue[j] => i = j
    /\ IF lpc = "wait" THEN lev = Nobody ELSE lev \in Readers /\ rpc[lev] = "blocked"
    /\ \A r \in Readers : rpc[r] # "idle" => rfile[r] \in Files

TypeInv == TypeOk /\ ClientAtWork /\ LoopAtWork /\ Stopped

LEMMA ConfigType ==
    /\ NoConfig \notin Config
    /\ \A f \in Files, m \in Modes : [file |-> f, mode |-> m] \in Config
    /\ \A g \in Config : g.file \in Files /\ g.mode \in Modes /\ g = [file |-> g.file, mode |-> g.mode]
BY NobodyAssumption DEF Config, NoConfig

LEMMA TypeInit == Init => TypeInv
BY DEF Init, TypeInv, TypeOk, ClientAtWork, LoopAtWork, Stopped

(* A process keeps the backend it started with, or goes on without one.    *)
LEMMA BackendStays == ASSUME [Next]_vars, ~Crash PROVE UNCHANGED backend
BY DEF Next, vars, tableVars, ClientStep, OpenOk, RegisterErr, Mark, MarkId, MarkIdErr, Insert, Unmark,
   UnmarkErr, ForgetId, Request, Register, Unregister, ReaderStep, StartRead, FinishRead, LoopStep, Receive,
   Get, EnsureOk, EnsureErr

LEMMA TypeClient ==
    ASSUME TypeInv, UNCHANGED backend, NEW c \in Clients, ClientStep(c)
    PROVE  TypeInv'
<1> USE DEF TypeInv, TypeOk, ClientAtWork, CGoto, CEnd, Locking, Removing
<1>1. UNCHANGED <<rpc, rfile, queue, lpc, lev, lid, lfile, filled, served>>
  BY DEF ClientStep, OpenOk, RegisterErr, Mark, MarkId, MarkIdErr, Insert, Unmark, UnmarkErr, ForgetId,
     readerVars, loopVars
<1>2. LoopAtWork' /\ Stopped'
  BY <1>1 DEF LoopAtWork, Stopped
<1>3. TypeOk' /\ ClientAtWork'
  <2>1. CASE OpenOk(c)
    BY <2>1, <1>1 DEF OpenOk, tableVars
  <2>2. CASE RegisterErr(c)
    BY <2>2, <1>1 DEF RegisterErr, tableVars
  <2>3. CASE Mark(c)
    BY <2>3, <1>1, ConfigType DEF Mark
  <2>4. CASE MarkId(c)
    BY <2>4, <1>1 DEF MarkId
  <2>5. CASE MarkIdErr(c)
    BY <2>5, <1>1, ConfigType DEF MarkIdErr, tableVars
  <2>6. CASE Insert(c)
    BY <2>6, <1>1 DEF Insert
  <2>7. CASE Unmark(c)
    BY <2>7, <1>1 DEF Unmark
  <2>8. CASE UnmarkErr(c)
    BY <2>8, <1>1 DEF UnmarkErr, tableVars
  <2>9. CASE ForgetId(c)
    BY <2>9, <1>1 DEF ForgetId
  <2> QED BY <2>1, <2>2, <2>3, <2>4, <2>5, <2>6, <2>7, <2>8, <2>9 DEF ClientStep
<1> QED BY <1>2, <1>3

LEMMA TypeRequest ==
    ASSUME TypeInv, UNCHANGED backend, NEW c \in Clients, Request(c)
    PROVE  TypeInv'
<1> USE DEF TypeInv, TypeOk, ClientAtWork, CGoto, Locking, Removing
<1>1. UNCHANGED <<rpc, rfile, queue, lpc, lev, lid, lfile, filled, kmark, marks, leaked>>
  BY DEF Request, Register, Unregister, tableVars, readerVars, loopVars
<1>2. LoopAtWork' /\ Stopped'
  BY <1>1 DEF LoopAtWork, Stopped
<1>3. \A p \in MayAsk[c] : p[1] \in Ids /\ p[2] \in Config
  BY MayAskAssumption
<1>4. TypeOk' /\ ClientAtWork'
  <2>1. CASE \E p \in MayAsk[c] : Register(c, p[1], p[2])
    BY <2>1, <1>1, <1>3 DEF Register, tableVars, readerVars
  <2>2. CASE \E p \in MayAsk[c] : Unregister(c, p[1])
    <3> PICK p \in MayAsk[c] : Unregister(c, p[1])
      BY <2>2
    <3>1. p[1] \in Ids /\ table[p[1]] \in Config
      BY <1>3 DEF Unregister
    <3> QED BY <1>1, <3>1 DEF Unregister, clientVars
  <2> QED BY <2>1, <2>2 DEF Request
<1> QED BY <1>2, <1>4

LEMMA TypeReader ==
    ASSUME TypeInv, UNCHANGED backend, NEW r \in Readers, ReaderStep(r)
    PROVE  TypeInv'
<1>1. UNCHANGED <<table, kmark, marks, filled, cpc, cid, ccfg, lpc, lev, lid, lfile, leaked>>
  BY DEF ReaderStep, StartRead, FinishRead, tableVars, clientVars, loopVars
<1>2. ClientAtWork' /\ LoopAtWork'
  BY <1>1 DEF TypeInv, ClientAtWork, LoopAtWork
<1>3. CASE FinishRead(r)
  <2>1. rpc[r] = "allowed" /\ rpc'[r] \in {"idle", "hole"} /\ queue' = queue
    BY <1>3 DEF FinishRead, ReadEnd, TypeInv, TypeOk
  <2>2. TypeOk'
    BY <1>1, <1>3 DEF FinishRead, ReadEnd, TypeInv, TypeOk, Reading
  <2>3. Stopped'
    BY <1>1, <1>3, <2>1 DEF FinishRead, ReadEnd, TypeInv, TypeOk, Stopped
  <2> QED BY <1>2, <2>2, <2>3 DEF TypeInv
<1>4. ASSUME NEW f \in Files, StartRead(r, f)
      PROVE  TypeInv'
  <2>1. rpc[r] # "blocked" /\ rpc'[r] \in {"blocked", "allowed"} /\ rfile'[r] = f
    BY <1>4 DEF StartRead, Reading, TypeInv, TypeOk
  <2>2. queue \in Seq(Readers) /\ Len(queue) \in Nat /\ Len(queue') \in Nat /\ queue' \in Seq(Readers)
    <3>1. queue \in Seq(Readers)
      BY DEF TypeInv, TypeOk
    <3>2. queue' = Append(queue, r) \/ queue' = queue
      BY <1>4 DEF StartRead
    <3>3. queue' \in Seq(Readers)
      BY <3>1, <3>2, AppendProperties
    <3> QED BY <3>1, <3>3, LenProperties
  <2>3. TypeOk'
    BY <1>1, <1>4, <2>2 DEF StartRead, TypeInv, TypeOk, Reading
  <2>4. CASE f \in kmark
    <3>1. /\ Len(queue') = Len(queue) + 1 /\ queue'[Len(queue) + 1] = r
          /\ \A i \in 1 .. Len(queue) : queue'[i] = queue[i]
      BY <1>4, <2>2, <2>4, AppendProperties DEF StartRead
    <3>2. \A i \in 1 .. Len(queue) : queue[i] # r
      BY <2>1 DEF TypeInv, Stopped
    <3>3. \A i \in 1 .. Len(queue') : i \in 1 .. Len(queue) \/ i = Len(queue) + 1
      BY <2>2, <3>1
    <3>4. r # lev
      BY <2>1, NobodyAssumption DEF TypeInv, Stopped
    <3>5. rpc' = [rpc EXCEPT ![r] = "blocked"] /\ rfile' = [rfile EXCEPT ![r] = f]
      BY <1>4, <2>4 DEF StartRead
    <3>6. \A i \in 1 .. Len(queue') : rpc'[queue'[i]] = "blocked" /\ queue'[i] # lev'
      BY <1>1, <2>2, <3>1, <3>2, <3>3, <3>4, <3>5 DEF TypeInv, TypeOk, Stopped
    <3>7. \A i, j \in 1 .. Len(queue') : queue'[i] = queue'[j] => i = j
      BY <2>2, <3>1, <3>2, <3>3 DEF TypeInv, Stopped
    <3>8. Stopped'
      BY <1>1, <2>1, <3>4, <3>5, <3>6, <3>7 DEF TypeInv, TypeOk, Stopped
    <3> QED BY <1>2, <2>3, <3>8 DEF TypeInv
  <2>5. CASE f \notin kmark
    <3>1. /\ queue' = queue /\ rpc' = [rpc EXCEPT ![r] = "allowed"] /\ rfile' = [rfile EXCEPT ![r] = f]
      BY <1>4, <2>5 DEF StartRead
    <3>2. Stopped'
      BY <1>1, <2>1, <3>1 DEF TypeInv, TypeOk, Stopped
    <3> QED BY <1>2, <2>3, <3>2 DEF TypeInv
  <2> QED BY <2>4, <2>5
<1> QED BY <1>3, <1>4 DEF ReaderStep

LEMMA TypeReceive == ASSUME TypeInv, UNCHANGED backend, Receive PROVE TypeInv'
<1> DEFINE r == Head(queue)
<1>1. /\ lpc = "wait" /\ queue # <<>> /\ queue \in Seq(Readers) /\ queue' = Tail(queue)
      /\ UNCHANGED <<table, kmark, marks, filled, cpc, cid, ccfg, rfile, served, leaked>>
  BY DEF Receive, TypeInv, TypeOk, tableVars, clientVars
<1>2. /\ r \in Readers /\ r = queue[1] /\ queue' \in Seq(Readers)
      /\ Len(queue) \in Nat \ {0} /\ Len(queue') = Len(queue) - 1
      /\ \A i \in 1 .. Len(queue') : queue'[i] = queue[i + 1]
  BY <1>1, HeadTailProperties, EmptySeq, LenProperties
<1>3. rpc[r] = "blocked" /\ rfile[r] \in Files /\ r # Nobody
  BY <1>2, NobodyAssumption DEF TypeInv, Stopped
<1>4. \A i \in 1 .. Len(queue') : queue'[i] = queue[i + 1] /\ i + 1 \in 1 .. Len(queue) /\ queue'[i] # r
  BY <1>2 DEF TypeInv, Stopped
<1>5. \A i, j \in 1 .. Len(queue') : queue'[i] = queue'[j] => i = j
  BY <1>2, <1>4 DEF TypeInv, Stopped
<1>6. ClientAtWork'
  BY <1>1 DEF TypeInv, ClientAtWork
<1>7. CASE marks[rfile[r]] = Nobody
  <2>1. rpc' = [rpc EXCEPT ![r] = "denied"] /\ UNCHANGED <<lpc, lev, lid, lfile>>
    BY <1>7 DEF Receive, Respond, loopVars
  <2>2. TypeOk' /\ LoopAtWork'
    BY <1>1, <1>2, <2>1 DEF TypeInv, TypeOk, LoopAtWork
  <2>3. Stopped'
    <3>1. rpc \in [Readers -> {"idle", "hole", "denied"} \cup Reading]
      BY DEF TypeInv, TypeOk
    <3>4. \A i \in 1 .. Len(queue') : rpc[queue'[i]] = "blocked" /\ queue'[i] # lev' /\ queue'[i] \in Readers
      BY <1>2, <1>4, <2>1 DEF TypeInv, Stopped
    <3>5. \A i \in 1 .. Len(queue') : rpc'[queue'[i]] = "blocked" /\ queue'[i] # lev'
      BY <1>4, <2>1, <3>1, <3>4
    <3>2. IF lpc' = "wait" THEN lev' = Nobody ELSE lev' \in Readers /\ rpc'[lev'] = "blocked"
      BY <1>1, <2>1 DEF TypeInv, Stopped
    <3>3. \A q \in Readers : rpc'[q] # "idle" => rfile'[q] \in Files
      BY <1>1, <1>3, <2>1 DEF TypeInv, TypeOk, Stopped
    <3> QED BY <1>5, <3>2, <3>3, <3>5 DEF Stopped
  <2> QED BY <1>6, <2>2, <2>3 DEF TypeInv
<1>8. CASE marks[rfile[r]] # Nobody
  <2>1. lpc' = "get" /\ lev' = r /\ lid' = marks[rfile[r]] /\ lid' \in Ids /\ UNCHANGED <<rpc, lfile>>
    BY <1>3, <1>8 DEF Receive, TypeInv, TypeOk
  <2>2. TypeOk' /\ LoopAtWork'
    BY <1>1, <1>2, <2>1 DEF TypeInv, TypeOk, LoopAtWork
  <2>3. Stopped'
    BY <1>1, <1>2, <1>3, <1>4, <1>5, <2>1 DEF TypeInv, TypeOk, Stopped
  <2> QED BY <1>6, <2>2, <2>3 DEF TypeInv
<1> QED BY <1>7, <1>8

(* The loop is done with its event: its reader is no longer stopped.       *)
LEMMA TypeLoopEnd ==
    ASSUME TypeInv, lpc # "wait", LoopEnd, served' \in SUBSET Readers,
           UNCHANGED <<tableVars, clientVars, queue, leaked>>, filled' \in SUBSET Files,
           \/ \E a \in {"denied", "allowed"} : Respond(lev, a) /\ UNCHANGED rfile
           \/ ReadEnd(lev)
    PROVE  TypeInv'
<1>1. /\ rpc' \in [Readers -> {"idle", "hole", "denied"} \cup Reading]
      /\ rfile' \in [Readers -> Files \cup {Nobody}]
      /\ \A r \in Readers \ {lev} : rpc'[r] = rpc[r] /\ rfile'[r] = rfile[r]
      /\ rpc'[lev] # "idle" => rfile'[lev] = rfile[lev] /\ rpc[lev] # "idle"
  BY DEF Respond, ReadEnd, Reading, TypeInv, TypeOk, Stopped
<1>2. TypeOk'
  BY <1>1 DEF LoopEnd, tableVars, clientVars, TypeInv, TypeOk
<1>3. ClientAtWork' /\ LoopAtWork'
  BY DEF LoopEnd, tableVars, clientVars, TypeInv, ClientAtWork, LoopAtWork
<1>4. \A i \in 1 .. Len(queue) : queue[i] \in Readers
  BY DEF TypeInv, TypeOk
<1>5. \A i \in 1 .. Len(queue) : rpc'[queue[i]] = "blocked" /\ queue[i] # Nobody
  BY <1>1, <1>4, NobodyAssumption DEF TypeInv, Stopped
<1>6. Stopped'
  BY <1>1, <1>5 DEF LoopEnd, TypeInv, Stopped
<1> QED BY <1>2, <1>3, <1>6 DEF TypeInv

LEMMA TypeLoop == ASSUME TypeInv, UNCHANGED backend, LoopStep PROVE TypeInv'
<1>1. CASE Get
  <2>1. lpc = "get" /\ lid \in Ids /\ UNCHANGED <<tableVars, filled, clientVars, rfile, queue, served, leaked>>
    BY <1>1 DEF Get, TypeInv, LoopAtWork
  <2>2. CASE table[lid] = NoConfig
    BY <1>1, <2>1, <2>2, TypeLoopEnd DEF Get, TypeInv, TypeOk
  <2>3. CASE table[lid] # NoConfig
    <3>1. lpc' = "ensure" /\ lfile' = table[lid].file /\ lfile' \in Files /\ UNCHANGED <<rpc, lev, lid>>
      BY <1>1, <2>1, <2>3, ConfigType DEF Get, TypeInv, TypeOk
    <3> QED BY <2>1, <3>1 DEF TypeInv, TypeOk, ClientAtWork, LoopAtWork, Stopped, tableVars, clientVars
  <2> QED BY <2>2, <2>3
<1>2. CASE EnsureOk
  <2>1. lpc = "ensure" /\ lfile \in Files /\ filled' = filled \cup {lfile} /\ Respond(lev, "allowed") /\ LoopEnd
    BY <1>2 DEF EnsureOk, TypeInv, LoopAtWork
  <2> QED BY <1>2, <2>1, TypeLoopEnd DEF EnsureOk, TypeInv, TypeOk
<1>3. CASE EnsureErr
  BY <1>3, TypeLoopEnd DEF EnsureErr, ReadEnd, TypeInv, TypeOk
<1> QED BY <1>1, <1>2, <1>3, TypeReceive DEF LoopStep

LEMMA TypeCrash == ASSUME TypeInv, Crash PROVE TypeInv'
<1>1. TypeOk'
  BY DEF Crash, LoopEnd, TypeInv, TypeOk, Reading
<1>2. ClientAtWork' /\ LoopAtWork' /\ Stopped'
  BY DEF Crash, LoopEnd, TypeInv, TypeOk, ClientAtWork, LoopAtWork, Stopped
<1> QED BY <1>1, <1>2 DEF TypeInv

LEMMA TypeNext == ASSUME TypeInv, [Next]_vars PROVE TypeInv'
<1>1. CASE UNCHANGED vars
  BY <1>1 DEF vars, tableVars, clientVars, readerVars, loopVars, TypeInv, TypeOk, ClientAtWork,
     LoopAtWork, Stopped
<1>2. CASE Crash
  BY <1>2, TypeCrash
<1>3. CASE ~ Crash
  <2>1. UNCHANGED backend
    BY <1>3, BackendStays
  <2> QED BY <1>1, <1>3, <2>1, TypeClient, TypeRequest, TypeReader, TypeLoop DEF Next
<1> QED BY <1>2, <1>3

LEMMA TypeInvariant == Spec => []TypeInv
BY TypeInit, TypeNext, PTL DEF Spec

(* The type invariant of FanotifyMarks.  It rests on no reader being in    *)
(* the queue twice, or in it while its event is handled.                   *)
THEOREM TypeCorrect == Spec => []TypeOk
<1>1. TypeInv => TypeOk
  BY DEF TypeInv
<1> QED BY <1>1, TypeInvariant, PTL
-----------------------------------------------------------------------------
(* How ids are used.                                                       *)

Asks(c) == {p[1] : p \in MayAsk[c]}
Names(id, f) == \E c \in Clients : \E p \in MayAsk[c] : p[1] = id /\ p[2].file = f

(* Whatever has an id has a file that somebody names by it.                *)
TableNamed == \A id \in Ids : table[id] # NoConfig => Names(id, table[id].file)
MarksNamed == \A f \in Files : marks[f] # Nobody => Names(marks[f], f)
ClientNamed ==
    \A c \in Clients : cpc[c] # "idle" => cid[c] \in Asks(c) /\ Names(cid[c], ccfg[c].file)
LoopNamed == lpc = "get" => Names(lid, rfile[lev])

Named == TableNamed /\ MarksNamed /\ ClientNamed /\ LoopNamed

LEMMA NamedInit == Init => Named
BY DEF Init, Named, TableNamed, MarksNamed, ClientNamed, LoopNamed

LEMMA AsksType ==
    ASSUME NEW c \in Clients, NEW p \in MayAsk[c]
    PROVE  /\ p[1] \in Ids /\ p[2] \in Config /\ p[1] \in Asks(c) /\ Names(p[1], p[2].file)
BY MayAskAssumption DEF Asks, Names

(* What a client's step changes, of its own request and of the table.      *)
LEMMA ClientMoves ==
    ASSUME TypeInv, NEW c \in Clients, ClientStep(c)
    PROVE  /\ cpc[c] # "idle"
           /\ \A d \in Clients \ {c} : UNCHANGED <<cpc[d], cid[d], ccfg[d]>>
           /\ cpc'[c] = "idle" \/ (UNCHANGED <<cid[c], ccfg[c]>>)
           /\ \/ UNCHANGED table
              \/ cpc'[c] = "idle" /\ table' = [table EXCEPT ![cid[c]] = ccfg[c]]
           /\ UNCHANGED <<rpc, rfile, queue, lpc, lev, lid, lfile, filled, served>>
BY DEF ClientStep, OpenOk, RegisterErr, Mark, MarkId, MarkIdErr, Insert, Unmark, UnmarkErr, ForgetId,
   readerVars, loopVars, tableVars, CGoto, CEnd, TypeInv, TypeOk, Locking, Removing

LEMMA NamedClient ==
    ASSUME TypeInv, Named, NEW c \in Clients, ClientStep(c)
    PROVE  Named'
<1>1. cpc[c] # "idle" /\ cid[c] \in Ids /\ cid[c] \in Asks(c) /\ Names(cid[c], ccfg[c].file)
  BY ClientMoves DEF TypeInv, ClientAtWork, Named, ClientNamed
<1>2. TableNamed'
  BY <1>1, ClientMoves DEF TypeInv, TypeOk, Named, TableNamed
<1>3. MarksNamed'
  BY <1>1 DEF ClientStep, OpenOk, RegisterErr, Mark, MarkId, MarkIdErr, Insert, Unmark, UnmarkErr, ForgetId,
     tableVars, TypeInv, TypeOk, Named, MarksNamed
<1>4. ClientNamed'
  BY ClientMoves DEF Named, ClientNamed
<1>5. LoopNamed'
  BY ClientMoves DEF Named, LoopNamed
<1> QED BY <1>2, <1>3, <1>4, <1>5 DEF Named

LEMMA NamedRequest ==
    ASSUME TypeInv, Named, NEW c \in Clients, Request(c)
    PROVE  Named'
<1>1. UNCHANGED <<marks, rfile, lpc, lev, lid, lfile>>
  BY DEF Request, Register, Unregister, tableVars, readerVars, loopVars
<1>2. MarksNamed' /\ LoopNamed'
  BY <1>1 DEF Named, MarksNamed, LoopNamed
<1>3. CASE \E p \in MayAsk[c] : Register(c, p[1], p[2])
  <2> PICK p \in MayAsk[c] : Register(c, p[1], p[2])
    BY <1>3
  <2>1. TableNamed'
    BY DEF Register, tableVars, Named, TableNamed
  <2>2. ClientNamed'
    BY AsksType DEF Register, CGoto, tableVars, TypeInv, TypeOk, Named, ClientNamed
  <2> QED BY <1>2, <2>1, <2>2 DEF Named
<1>4. CASE \E p \in MayAsk[c] : Unregister(c, p[1])
  <2> PICK p \in MayAsk[c] : Unregister(c, p[1])
    BY <1>4
  <2>1. p[1] \in Ids /\ p[1] \in Asks(c) /\ Names(p[1], table[p[1]].file) /\ table'[p[1]] = NoConfig
    BY AsksType DEF Unregister, TypeInv, TypeOk, Named, TableNamed
  <2>2. \A id \in Ids : table'[id] = table[id] \/ table'[id] = NoConfig
    BY <2>1 DEF Unregister, TypeInv, TypeOk
  <2>3. TableNamed'
    BY <2>2 DEF Named, TableNamed
  <2>4. ClientNamed'
    <3>1. \A d \in Clients : \/ UNCHANGED <<cpc[d], cid[d], ccfg[d]>>
                             \/ d = c /\ cid'[d] = p[1] /\ ccfg'[d] = table[p[1]]
      BY DEF Unregister, CGoto, clientVars, TypeInv, TypeOk
    <3> QED BY <2>1, <2>2, <3>1 DEF TypeInv, ClientAtWork, Named, ClientNamed
  <2> QED BY <1>2, <2>3, <2>4 DEF Named
<1> QED BY <1>3, <1>4 DEF Request

(* The reader whose event is handled waits, and reads no other file.       *)
LEMMA NamedReader ==
    ASSUME TypeInv, Named, NEW r \in Readers, ReaderStep(r)
    PROVE  Named' /\ (lpc # "wait" => lev # r)
<1>1. lpc # "wait" => lev # r
  BY DEF ReaderStep, FinishRead, StartRead, Reading, TypeInv, Stopped
<1>2. UNCHANGED <<table, marks, cpc, cid, ccfg, lpc, lev, lid, lfile>>
  BY DEF ReaderStep, StartRead, FinishRead, tableVars, clientVars, loopVars
<1>3. \A q \in Readers \ {r} : rfile'[q] = rfile[q]
  BY DEF ReaderStep, StartRead, FinishRead, ReadEnd, TypeInv, TypeOk
<1>4. LoopNamed'
  BY <1>1, <1>2, <1>3 DEF Named, LoopNamed, TypeInv, Stopped
<1> QED BY <1>1, <1>2, <1>4 DEF Named, TableNamed, MarksNamed, ClientNamed

LEMMA NamedLoop ==
    ASSUME TypeInv, Named, LoopStep
    PROVE  Named'
<1>1. UNCHANGED <<table, marks, cpc, cid, ccfg>>
  BY DEF LoopStep, Receive, Get, EnsureOk, EnsureErr, tableVars, clientVars
<1>2. LoopNamed'
  <2>1. CASE Receive
    <3>1. Head(queue) \in Readers /\ Head(queue) = queue[1] /\ 1 \in 1 .. Len(queue)
      BY <2>1, HeadTailProperties, EmptySeq, LenProperties DEF Receive, TypeInv, TypeOk
    <3>2. rfile[Head(queue)] \in Files
      BY <3>1 DEF TypeInv, Stopped
    <3> QED BY <2>1, <3>1, <3>2 DEF Receive, loopVars, Named, MarksNamed, LoopNamed
  <2>2. CASE Get \/ EnsureOk \/ EnsureErr
    BY <2>2 DEF Get, EnsureOk, EnsureErr, LoopEnd, LoopNamed
  <2> QED BY <2>1, <2>2 DEF LoopStep
<1> QED BY <1>1, <1>2 DEF Named, TableNamed, MarksNamed, ClientNamed

LEMMA NamedNext ==
    ASSUME TypeInv, Named, [Next]_vars
    PROVE  Named'
<1>1. CASE UNCHANGED vars
  BY <1>1 DEF vars, tableVars, clientVars, readerVars, loopVars, Named, TableNamed, MarksNamed,
     ClientNamed, LoopNamed
<1>2. CASE Crash
  BY <1>2 DEF Crash, LoopEnd, Named, TableNamed, MarksNamed, ClientNamed, LoopNamed
<1> QED BY <1>1, <1>2, NamedClient, NamedRequest, NamedReader, NamedLoop DEF Next

-----------------------------------------------------------------------------
(* What the loop ensures: the file of the reader, if an id does not change *)
(* its file.                                                               *)
IdsHaveOneFile == \A id \in Ids : \A f, g \in Files : Names(id, f) /\ Names(id, g) => f = g

LoopOwned == lpc = "ensure" => lfile = rfile[lev]

LEMMA LoopOwnedNext ==
    ASSUME IdsHaveOneFile, TypeInv, Named, LoopOwned, [Next]_vars
    PROVE  LoopOwned'
<1>1. CASE Get
  <2>1. lid \in Ids /\ lev \in Readers /\ rfile[lev] \in Files /\ Names(lid, rfile[lev])
    BY <1>1 DEF Get, TypeInv, LoopAtWork, Stopped, Named, LoopNamed
  <2>2. table[lid] # NoConfig => table[lid].file = rfile[lev]
    BY <2>1, ConfigType DEF IdsHaveOneFile, TypeInv, TypeOk, Named, TableNamed
  <2> QED BY <1>1, <2>2 DEF Get, LoopEnd, LoopOwned
<1>2. CASE Receive \/ EnsureOk \/ EnsureErr \/ Crash
  BY <1>2 DEF Receive, EnsureOk, EnsureErr, Crash, LoopEnd, loopVars, LoopOwned
<1>3. CASE \E c \in Clients : ClientStep(c) \/ Request(c)
  BY <1>3, ClientMoves DEF Request, Register, Unregister, readerVars, loopVars, LoopOwned
<1>4. CASE \E r \in Readers : ReaderStep(r)
  <2> PICK r \in Readers : ReaderStep(r)
    BY <1>4
  <2>1. /\ UNCHANGED <<lpc, lev, lfile>> /\ (lpc # "wait" => lev # r)
        /\ \A q \in Readers \ {r} : rfile'[q] = rfile[q]
    BY NamedReader DEF ReaderStep, StartRead, FinishRead, ReadEnd, loopVars, TypeInv, TypeOk
  <2> QED BY <2>1 DEF LoopOwned, TypeInv, Stopped
<1>5. CASE UNCHANGED vars
  BY <1>5 DEF vars, readerVars, loopVars, LoopOwned
<1> QED BY <1>1, <1>2, <1>3, <1>4, <1>5 DEF Next, LoopStep

(* lazyd lets a reader through only when the range of its file is there,   *)
(* though it finds the instance by an id that was looked up before.  For   *)
(* this an id may have any number of clients and files any number of ids.  *)
THEOREM AllowedAreFilled == ASSUME IdsHaveOneFile PROVE Spec => AllowedIsFilled
<1> DEFINE Granted ==
      \A r \in Readers :
          lev = r /\ rpc[r] = "blocked" /\ rpc'[r] = "allowed" /\ ~Crash => rfile[r] \in filled'
<1>1. ASSUME TypeInv, Named, LoopOwned, [Next]_vars
      PROVE  Granted
  <2> SUFFICES ASSUME NEW r \in Readers, lev = r, rpc[r] = "blocked", rpc'[r] = "allowed", ~Crash
               PROVE  rfile[r] \in filled'
    OBVIOUS
  <2>1. lpc # "wait"
    BY <1>1, NobodyAssumption DEF TypeInv, Stopped
  <2>2. CASE EnsureOk
    BY <1>1, <2>2 DEF EnsureOk, LoopOwned
  <2>3. ~ (Receive \/ Get \/ EnsureErr)
    BY <1>1, <2>1 DEF Receive, Get, EnsureErr, ReadEnd, Respond, TypeInv, TypeOk
  <2>4. ~ \E q \in Readers : ReaderStep(q)
    <3> SUFFICES ASSUME NEW q \in Readers, ReaderStep(q) PROVE FALSE
      OBVIOUS
    <3>1. q # r
      BY <1>1, <2>1, NamedReader
    <3> QED BY <1>1, <3>1 DEF ReaderStep, StartRead, FinishRead, ReadEnd, TypeInv, TypeOk
  <2>5. ~ \E c \in Clients : ClientStep(c) \/ Request(c)
    BY <1>1, ClientMoves DEF Request, Register, Unregister, readerVars
  <2>6. ~ UNCHANGED vars
    BY DEF vars, readerVars
  <2> QED BY <1>1, <2>2, <2>3, <2>4, <2>5, <2>6 DEF Next, LoopStep
<1>2. TypeInv /\ Named /\ LoopOwned /\ [Next]_vars => [Granted]_vars
  BY <1>1
<1>3. TypeInv /\ Named /\ LoopOwned /\ [Next]_vars => (TypeInv /\ Named /\ LoopOwned)'
  BY TypeNext, NamedNext, LoopOwnedNext
<1>4. Init => LoopOwned
  BY DEF Init, LoopOwned
<1> QED BY <1>2, <1>3, <1>4, TypeInit, NamedInit, PTL DEF Spec, AllowedIsFilled
-----------------------------------------------------------------------------
(* Requests that keep apart: no two of them are at work on one id, and no  *)
(* two ids name one file.  Without the first, what follows is false, as    *)
(* FanSameId shows; without the second, the marks of a file that is        *)
(* registered again under another id are no longer those of the first.     *)
FilesHaveOneId == \A i, j \in Ids : \A f \in Files : Names(i, f) /\ Names(j, f) => i = j

RequestsApart ==
    \A c, d \in Clients : cpc[c] # "idle" /\ cpc[d] # "idle" /\ cid[c] = cid[d] => c = d

ClientsHaveOwnIds == \A c, d \in Clients : Asks(c) \cap Asks(d) # {} => c = d

(* One client per id is one way to have it so, as in FanOwnIds: a client   *)
(* makes its PUT and DELETE requests one after the other.                  *)
THEOREM OwnIdsAreApart == ASSUME ClientsHaveOwnIds PROVE Spec => []RequestsApart
<1>1. TypeInv /\ Named => RequestsApart
  BY DEF Named, ClientNamed, ClientsHaveOwnIds, RequestsApart
<1>2. TypeInv /\ Named /\ [Next]_vars => (TypeInv /\ Named)'
  BY TypeNext, NamedNext
<1> QED BY <1>1, <1>2, TypeInit, NamedInit, PTL DEF Spec

(* A request is at work on an id that is not registered: not yet, or not   *)
(* any more.                                                               *)
FreeId == \A c \in Clients : cpc[c] # "idle" => table[cid[c]] = NoConfig

Owned == RequestsApart /\ Named /\ FreeId

LEMMA OwnedInit == Init => Owned
BY NamedInit DEF Init, Owned, RequestsApart, FreeId

LEMMA OwnedNext ==
    ASSUME TypeInv, Owned, RequestsApart', [Next]_vars
    PROVE  Owned'
<1>1. CASE \E c \in Clients : ClientStep(c)
  <2> PICK c \in Clients : ClientStep(c)
    BY <1>1
  <2> SUFFICES ASSUME NEW d \in Clients, cpc'[d] # "idle"
               PROVE  table'[cid'[d]] = NoConfig
    BY NamedNext DEF Owned, FreeId
  <2>1. /\ cpc[d] # "idle" /\ cpc[c] # "idle" /\ UNCHANGED <<cid[d], ccfg[d]>>
        /\ UNCHANGED table \/ (d # c /\ table' = [table EXCEPT ![cid[c]] = ccfg[c]])
    BY ClientMoves
  <2>2. table[cid[d]] = NoConfig /\ cid[d] \in Ids /\ (d # c => cid[d] # cid[c])
    BY <2>1 DEF TypeInv, ClientAtWork, Owned, RequestsApart, FreeId
  <2> QED BY <2>1, <2>2 DEF TypeInv, TypeOk
<1>2. CASE \E c \in Clients : Request(c)
  <2> PICK c \in Clients : Request(c)
    BY <1>2
  <2> PICK p \in MayAsk[c] : Register(c, p[1], p[2]) \/ Unregister(c, p[1])
    BY DEF Request
  <2>1. p[1] \in Ids
    BY AsksType
  <2>2. CASE Register(c, p[1], p[2])
    <3>1. FreeId'
      BY <2>2 DEF Register, CGoto, tableVars, TypeInv, TypeOk, Owned, FreeId
    <3> QED BY <3>1, NamedNext DEF Owned
  <2>3. CASE Unregister(c, p[1])
    <3>1. \A id \in Ids : table'[id] = table[id] \/ table'[id] = NoConfig
      BY <2>1, <2>3 DEF Unregister, TypeInv, TypeOk
    <3>2. \A d \in Clients : UNCHANGED <<cpc[d], cid[d], ccfg[d]>> \/ (d = c /\ cid'[d] = p[1])
      BY <2>3 DEF Unregister, CGoto, clientVars, TypeInv, TypeOk
    <3>3. table'[p[1]] = NoConfig
      BY <2>1, <2>3 DEF Unregister, TypeInv, TypeOk
    <3>4. FreeId'
      BY <3>1, <3>2, <3>3 DEF TypeInv, ClientAtWork, Owned, FreeId
    <3> QED BY <3>4, NamedNext DEF Owned
  <2> QED BY <2>2, <2>3
<1>3. CASE Crash
  BY <1>3, NamedNext DEF Crash, Owned, FreeId
<1>4. CASE UNCHANGED <<table, cpc, cid>>
  BY <1>4, NamedNext DEF Owned, FreeId
<1> QED BY <1>1, <1>2, <1>3, <1>4
        DEF Next, vars, ReaderStep, StartRead, FinishRead, LoopStep, Receive, Get, EnsureOk, EnsureErr,
            tableVars, clientVars
-----------------------------------------------------------------------------
(* Marks: a registration that is about to insert has its marks.            *)

Registering ==
    \A c \in Clients :
        /\ cpc[c] = "metadata" => ccfg[c].file \in kmark
        /\ cpc[c] = "insert" /\ ccfg[c].mode = "fanotify" =>
              ccfg[c].file \in kmark /\ marks[ccfg[c].file] = cid[c]

AllMarked ==
    \A id \in Ids : table[id].mode = "fanotify" =>
        table[id].file \in kmark /\ marks[table[id].file] = id

(* A process without a backend has no marks, and no request at them.       *)
Bare == kmark = {} /\ \A c \in Clients : cpc[c] \notin {"mark", "metadata"} \cup Removing

BackedInv == Registering /\ AllMarked
MarkedInv == IF backend THEN BackedInv ELSE Bare

(* The file of a request at work is the file of no registered instance and *)
(* of no other request.                                                    *)
LEMMA FileIsOwn ==
    ASSUME FilesHaveOneId, TypeInv, Owned, NEW c \in Clients, cpc[c] # "idle"
    PROVE  /\ ccfg[c].file \in Files /\ ccfg[c] \in Config /\ cid[c] \in Ids /\ table[cid[c]] = NoConfig
           /\ \A id \in Ids : table[id] # NoConfig => table[id].file # ccfg[c].file
           /\ \A d \in Clients : cpc[d] # "idle" /\ ccfg[d].file = ccfg[c].file => d = c
<1>1. /\ ccfg[c].file \in Files /\ ccfg[c] \in Config /\ cid[c] \in Ids
      /\ Names(cid[c], ccfg[c].file) /\ table[cid[c]] = NoConfig
  BY ConfigType DEF TypeInv, ClientAtWork, Owned, FreeId, Named, ClientNamed
<1>2. ASSUME NEW id \in Ids, table[id] # NoConfig, table[id].file = ccfg[c].file
      PROVE  FALSE
  BY <1>1, <1>2 DEF FilesHaveOneId, Owned, Named, TableNamed
<1>3. ASSUME NEW d \in Clients, cpc[d] # "idle", ccfg[d].file = ccfg[c].file
      PROVE  d = c
  <2>1. cid[d] \in Ids /\ Names(cid[d], ccfg[d].file)
    BY <1>3 DEF TypeInv, ClientAtWork, Owned, Named, ClientNamed
  <2>2. cid[d] = cid[c]
    BY <1>1, <1>3, <2>1 DEF FilesHaveOneId
  <2> QED BY <1>3, <2>2 DEF Owned, RequestsApart
<1> QED BY <1>1, <1>2, <1>3

LEMMA TableType ==
    ASSUME TypeInv, NEW id \in Ids
    PROVE  /\ table[id].mode = "fanotify" => table[id] # NoConfig
           /\ table[id] # NoConfig => table[id] \in Config /\ table[id].file \in Files
BY ConfigType DEF TypeInv, TypeOk, NoConfig

LEMMA MarkedClient ==
    ASSUME backend, FilesHaveOneId, TypeInv, Owned, BackedInv, NEW c \in Clients, ClientStep(c)
    PROVE  BackedInv'
<1> DEFINE f == ccfg[c].file
<1>1. /\ f \in Files /\ cid[c] \in Ids /\ ccfg[c] \in Config /\ table[cid[c]] = NoConfig
      /\ \A id \in Ids : table[id] # NoConfig => table[id].file # f
      /\ \A d \in Clients \ {c} : cpc[d] # "idle" => ccfg[d].file # f
      /\ \A d \in Clients \ {c} : UNCHANGED <<cpc[d], cid[d], ccfg[d]>>
  BY ClientMoves, FileIsOwn
<1>2. \A g \in Files \ {f} : (g \in kmark' <=> g \in kmark) /\ marks'[g] = marks[g]
  BY <1>1 DEF ClientStep, OpenOk, RegisterErr, Mark, MarkId, MarkIdErr, Insert, Unmark, UnmarkErr, ForgetId,
     tableVars, TypeInv, TypeOk
<1>3. \A d \in Clients \ {c} : cpc[d] # "idle" => ccfg[d].file \in Files \ {f}
  BY <1>1, FileIsOwn
<1>4. Registering'
  <2>1. /\ cpc'[c] = "metadata" => ccfg'[c].file \in kmark'
        /\ cpc'[c] = "insert" /\ ccfg'[c].mode = "fanotify" =>
              ccfg'[c].file \in kmark' /\ marks'[ccfg'[c].file] = cid'[c]
    <3>1. CASE OpenOk(c)
      <4>1. cpc'[c] # "metadata" /\ (cpc'[c] = "insert" => ccfg[c].mode # "fanotify")
        BY <3>1 DEF OpenOk, CGoto, TypeInv, TypeOk
      <4> QED BY <3>1, <4>1 DEF OpenOk
    <3>2. CASE Mark(c)
      BY <1>1, <3>2 DEF Mark, CGoto, TypeInv, TypeOk
    <3>3. CASE MarkId(c)
      BY <1>1, <3>3 DEF MarkId, CGoto, TypeInv, TypeOk, BackedInv, Registering
    <3>4. CASE Unmark(c)
      BY <3>4 DEF Unmark, CGoto, TypeInv, TypeOk
    <3>5. CASE RegisterErr(c) \/ MarkIdErr(c) \/ Insert(c) \/ UnmarkErr(c) \/ ForgetId(c)
      BY <3>5 DEF RegisterErr, MarkIdErr, Insert, UnmarkErr, ForgetId, CGoto, CEnd, TypeInv, TypeOk
    <3> QED BY <3>1, <3>2, <3>3, <3>4, <3>5 DEF ClientStep
  <2> QED BY <1>1, <1>2, <1>3, <2>1 DEF BackedInv, Registering
<1>5. AllMarked'
  <2> SUFFICES ASSUME NEW id \in Ids, table'[id].mode = "fanotify"
               PROVE  table'[id].file \in kmark' /\ marks'[table'[id].file] = id
    BY DEF AllMarked
  <2>1. CASE table'[id] = table[id]
    <3>1. table[id].file \in Files \ {f} /\ table[id].file \in kmark /\ marks[table[id].file] = id
      BY <1>1, <2>1, TableType DEF BackedInv, AllMarked
    <3> QED BY <1>2, <2>1, <3>1
  <2>2. CASE Insert(c) /\ id = cid[c]
    BY <1>1, <2>2 DEF Insert, CEnd, CGoto, TypeInv, TypeOk, BackedInv, Registering
  <2>3. CASE UNCHANGED table
    BY <2>1, <2>3
  <2> QED BY <1>1, <2>1, <2>2, <2>3
          DEF ClientStep, OpenOk, RegisterErr, Mark, MarkId, MarkIdErr, Insert, Unmark, UnmarkErr, ForgetId,
              tableVars, TypeInv, TypeOk
<1> QED BY <1>4, <1>5 DEF BackedInv

LEMMA MarkedRequest ==
    ASSUME TypeInv, BackedInv, NEW c \in Clients, Request(c)
    PROVE  BackedInv'
<1>1. UNCHANGED <<kmark, marks>>
  BY DEF Request, Register, Unregister, tableVars
<1>2. \A id \in Ids : table'[id] = table[id] \/ table'[id] = NoConfig
  BY AsksType DEF Request, Register, Unregister, tableVars, TypeInv, TypeOk
<1>3. AllMarked'
  BY <1>1, <1>2 DEF BackedInv, AllMarked, NoConfig
<1>4. \A d \in Clients : \/ UNCHANGED <<cpc[d], cid[d], ccfg[d]>>
                         \/ cpc'[d] \in {"open", "unmark"}
  BY DEF Request, Register, Unregister, CGoto, clientVars, TypeInv, TypeOk
<1>5. Registering'
  BY <1>1, <1>4 DEF BackedInv, Registering
<1> QED BY <1>3, <1>5 DEF BackedInv

LEMMA BareNext ==
    ASSUME TypeInv, Bare, ~backend, [Next]_vars, ~Crash
    PROVE  Bare'
<1>1. ASSUME NEW c \in Clients, ClientStep(c)
      PROVE  Bare'
  BY <1>1 DEF ClientStep, OpenOk, RegisterErr, Mark, MarkId, MarkIdErr, Insert, Unmark, UnmarkErr, ForgetId,
     CGoto, CEnd, tableVars, TypeInv, TypeOk, Bare, Removing
<1>2. ASSUME NEW c \in Clients, Request(c)
      PROVE  Bare'
  BY <1>2 DEF Request, Register, Unregister, CGoto, tableVars, clientVars, TypeInv, TypeOk, Bare, Removing
<1>3. CASE UNCHANGED <<tableVars, clientVars>>
  BY <1>3 DEF tableVars, clientVars, Bare
<1> QED BY <1>1, <1>2, <1>3
        DEF Next, vars, ReaderStep, StartRead, FinishRead, LoopStep, Receive, Get, EnsureOk, EnsureErr

LEMMA MarkedNext ==
    ASSUME FilesHaveOneId, TypeInv, Owned, MarkedInv, [Next]_vars
    PROVE  MarkedInv'
<1>1. CASE Crash
  <2>1. BackedInv' /\ Bare'
    BY <1>1 DEF Crash, BackedInv, Registering, AllMarked, Bare, Removing, NoConfig
  <2> QED BY <2>1 DEF MarkedInv
<1>2. CASE ~ backend /\ ~ Crash
  <2>1. backend' = backend
    BY <1>2, BackendStays
  <2> QED BY <1>2, <2>1, BareNext DEF MarkedInv
<1>3. CASE backend /\ ~ Crash
  <2>1. backend' = backend
    BY <1>3, BackendStays
  <2>2. CASE UNCHANGED <<tableVars, clientVars>>
    BY <1>3, <2>1, <2>2 DEF tableVars, clientVars, MarkedInv, BackedInv, Registering, AllMarked
  <2>3. CASE \E c \in Clients : ClientStep(c) \/ Request(c)
    BY <1>3, <2>1, <2>3, MarkedClient, MarkedRequest DEF MarkedInv
  <2> QED BY <1>3, <2>2, <2>3
          DEF Next, vars, ReaderStep, StartRead, FinishRead, LoopStep, Receive, Get, EnsureOk, EnsureErr
<1> QED BY <1>1, <1>2, <1>3

LEMMA MarkedInit == Init => MarkedInv
BY DEF Init, MarkedInv, BackedInv, Registering, AllMarked, Bare, Removing, NoConfig

(* Whatever requests are under way or have failed: in a process with a     *)
(* backend a registered fanotify target is marked, under the id of its     *)
(* instance; in one without, no target is.                                 *)
THEOREM RegisteredAreMarked ==
    ASSUME FilesHaveOneId
    PROVE  Spec /\ []RequestsApart => []RegisteredIsMarked
<1>1. MarkedInv => RegisteredIsMarked
  BY DEF MarkedInv, BackedInv, AllMarked, Bare, RegisteredIsMarked
<1>2. TypeInv /\ Owned /\ MarkedInv /\ RequestsApart' /\ [Next]_vars
        => (TypeInv /\ Owned /\ MarkedInv)'
  BY TypeNext, OwnedNext, MarkedNext
<1> QED BY <1>1, <1>2, TypeInit, OwnedInit, MarkedInit, PTL DEF Spec

-----------------------------------------------------------------------------
(* Orphans: a request that has made no mark, or has removed it, leaves     *)
(* none behind.                                                            *)

Unmarked ==
    \A c \in Clients :
        \/ cpc[c] \in {"open", "mark", "forget"}
        \/ cpc[c] = "insert" /\ ccfg[c].mode = "external"
        => ccfg[c].file \notin kmark \ leaked

MarkersAreFanotify ==
    \A c \in Clients : cpc[c] \in {"mark", "metadata"} => ccfg[c].mode = "fanotify"

OrphanInv == Unmarked /\ MarkersAreFanotify /\ NoOrphanMark

(* A file that no request is at and that no fanotify instance serves has   *)
(* no mark but a leaked one.                                               *)
LEMMA FreeFile ==
    ASSUME OrphanInv, NEW f, ~Serves(f), \A c \in Clients : cpc[c] # "idle" => ccfg[c].file # f
    PROVE  f \notin kmark \ leaked
BY DEF OrphanInv, NoOrphanMark

LEMMA OrphanClient ==
    ASSUME backend, FilesHaveOneId, TypeInv, Owned, OrphanInv, NEW c \in Clients, ClientStep(c)
    PROVE  OrphanInv'
<1> DEFINE f == ccfg[c].file
<1>1. /\ f \in Files /\ cid[c] \in Ids /\ ccfg[c] \in Config /\ table[cid[c]] = NoConfig
      /\ \A d \in Clients \ {c} : cpc[d] # "idle" => ccfg[d].file # f
      /\ \A d \in Clients \ {c} : UNCHANGED <<cpc[d], cid[d], ccfg[d]>>
  BY ClientMoves, FileIsOwn
<1>2. \A g : g # f => (g \in kmark' \ leaked' <=> g \in kmark \ leaked)
  BY <1>1 DEF ClientStep, OpenOk, RegisterErr, Mark, MarkId, MarkIdErr, Insert, Unmark, UnmarkErr, ForgetId,
     tableVars, TypeInv, TypeOk
<1>3. \A g : Serves(g) => Serves(g)'
  <2>1. \A id \in Ids : table[id] # NoConfig => table'[id] = table[id]
    BY <1>1, ClientMoves DEF TypeInv, TypeOk
  <2> QED BY <2>1, NobodyAssumption DEF Serves, NoConfig
<1>4. Unmarked' /\ MarkersAreFanotify'
  <2> DEFINE Clean == \/ cpc'[c] \in {"open", "mark", "forget"}
                      \/ cpc'[c] = "insert" /\ ccfg'[c].mode = "external"
                      => ccfg'[c].file \notin kmark' \ leaked'
             Marking == cpc'[c] \in {"mark", "metadata"} => ccfg'[c].mode = "fanotify"
  <2>1. Clean /\ Marking
    <3>1. CASE OpenOk(c)
      BY <1>1, <3>1, ConfigType DEF OpenOk, CGoto, tableVars, Modes, TypeInv, TypeOk, OrphanInv, Unmarked
    <3>2. CASE Mark(c)
      BY <1>1, <3>2 DEF Mark, CGoto, TypeInv, TypeOk, OrphanInv, MarkersAreFanotify
    <3>3. CASE MarkId(c)
      BY <1>1, <3>3 DEF MarkId, CGoto, TypeInv, TypeOk, OrphanInv, MarkersAreFanotify
    <3>4. CASE Unmark(c)
      BY <1>1, <3>4 DEF Unmark, CGoto, TypeInv, TypeOk
    <3>5. CASE RegisterErr(c) \/ MarkIdErr(c) \/ Insert(c) \/ UnmarkErr(c) \/ ForgetId(c)
      <4>1. cpc'[c] = "idle"
        BY <3>5 DEF RegisterErr, MarkIdErr, Insert, UnmarkErr, ForgetId, CEnd, CGoto, TypeInv, TypeOk
      <4> QED BY <4>1
    <3> QED BY <3>1, <3>2, <3>3, <3>4, <3>5 DEF ClientStep
  <2>2. Unmarked'
    BY <1>1, <1>2, <2>1 DEF OrphanInv, Unmarked
  <2>3. MarkersAreFanotify'
    BY <1>1, <2>1 DEF OrphanInv, MarkersAreFanotify
  <2> QED BY <2>2, <2>3
<1>5. NoOrphanMark'
  <2> SUFFICES ASSUME NEW g \in kmark' \ leaked', ~Serves(g)'
               PROVE  \E d \in Clients : cpc'[d] # "idle" /\ ccfg'[d].file = g
    BY DEF NoOrphanMark
  <2>1. CASE g # f
    <3>1. PICK d \in Clients : cpc[d] # "idle" /\ ccfg[d].file = g
      BY <1>2, <1>3, <2>1 DEF OrphanInv, NoOrphanMark
    <3> QED BY <1>1, <2>1, <3>1
  <2>2. CASE g = f
    <3>1. CASE cpc'[c] # "idle"
      BY <2>2, <3>1, ClientMoves
    <3>2. CASE cpc'[c] = "idle"
      <4>1. CASE RegisterErr(c) \/ ForgetId(c)
        BY <2>2, <4>1 DEF RegisterErr, ForgetId, CEnd, CGoto, tableVars, OrphanInv, Unmarked
      <4>2. CASE MarkIdErr(c) \/ UnmarkErr(c)
        BY <2>2, <4>2 DEF MarkIdErr, UnmarkErr, tableVars
      <4>3. CASE Insert(c)
        <5>1. ccfg[c].mode = "external"
          BY <1>1, <2>2, <4>3, ConfigType DEF Insert, Serves, Modes, TypeInv, TypeOk
        <5> QED BY <2>2, <4>3, <5>1 DEF Insert, CEnd, CGoto, OrphanInv, Unmarked
      <4> QED BY <3>2, <4>1, <4>2, <4>3 DEF ClientStep, OpenOk, Mark, MarkId, Unmark, CGoto, TypeInv, TypeOk
    <3> QED BY <3>1, <3>2
  <2> QED BY <2>1, <2>2
<1> QED BY <1>4, <1>5 DEF OrphanInv

LEMMA OrphanRequest ==
    ASSUME backend, FilesHaveOneId, TypeInv, Owned, OrphanInv, RequestsApart', NEW c \in Clients, Request(c)
    PROVE  OrphanInv'
<1>1. UNCHANGED <<kmark, marks, leaked>>
  BY DEF Request, Register, Unregister, tableVars
<1>2. CASE \E p \in MayAsk[c] : Register(c, p[1], p[2])
  <2> PICK p \in MayAsk[c] : Register(c, p[1], p[2])
    BY <1>2
  <2>1. /\ table[p[1]] = NoConfig /\ UNCHANGED table /\ cpc[c] = "idle"
        /\ cpc'[c] = "open" /\ cid'[c] = p[1] /\ ccfg'[c] = p[2]
        /\ \A d \in Clients \ {c} : UNCHANGED <<cpc[d], cid[d], ccfg[d]>>
    BY AsksType DEF Register, CGoto, tableVars, TypeInv, TypeOk
  <2>2. p[2].file \notin kmark \ leaked
    <3>1. ~ Serves(p[2].file)
      <4> SUFFICES ASSUME NEW id \in Ids, table[id] = [file |-> p[2].file, mode |-> "fanotify"]
                   PROVE  FALSE
        BY DEF Serves
      <4>1. table[id] # NoConfig /\ table[id].file = p[2].file
        BY DEF NoConfig
      <4>2. Names(id, p[2].file) /\ Names(p[1], p[2].file) /\ p[1] \in Ids /\ p[2].file \in Files
        BY <4>1, AsksType, ConfigType DEF Owned, Named, TableNamed
      <4> QED BY <2>1, <4>1, <4>2 DEF FilesHaveOneId
    <3>2. \A d \in Clients : cpc[d] # "idle" => ccfg[d].file # p[2].file
      <4> SUFFICES ASSUME NEW d \in Clients, cpc[d] # "idle", ccfg[d].file = p[2].file
                   PROVE  FALSE
        OBVIOUS
      <4>1. /\ cid[d] \in Ids /\ Names(cid[d], p[2].file)
            /\ p[1] \in Ids /\ Names(p[1], p[2].file) /\ p[2].file \in Files
        BY AsksType, ConfigType DEF TypeInv, ClientAtWork, Owned, Named, ClientNamed
      <4>2. cid[d] = p[1]
        BY <4>1 DEF FilesHaveOneId
      <4> QED BY <2>1, <4>2 DEF RequestsApart
    <3> QED BY <3>1, <3>2, FreeFile
  <2>3. Unmarked' /\ MarkersAreFanotify'
    BY <1>1, <2>1, <2>2 DEF OrphanInv, Unmarked, MarkersAreFanotify
  <2>4. NoOrphanMark'
    BY <1>1, <2>1 DEF OrphanInv, NoOrphanMark, Serves
  <2> QED BY <2>3, <2>4 DEF OrphanInv
<1>3. CASE \E p \in MayAsk[c] : Unregister(c, p[1])
  <2> PICK p \in MayAsk[c] : Unregister(c, p[1])
    BY <1>3
  <2> DEFINE id == p[1]
  <2>1. /\ id \in Ids /\ table[id] # NoConfig /\ cpc[c] = "idle"
        /\ \A d \in Clients \ {c} : UNCHANGED <<cpc[d], cid[d], ccfg[d]>>
        /\ \A j \in Ids \ {id} : table'[j] = table[j]
        /\ \/ UNCHANGED <<cpc[c], ccfg[c]>> /\ table[id].mode # "fanotify"
           \/ cpc'[c] = "unmark" /\ ccfg'[c] = table[id]
    BY AsksType DEF Unregister, CGoto, clientVars, TypeInv, TypeOk
  <2>2. Unmarked' /\ MarkersAreFanotify'
    BY <1>1, <2>1 DEF OrphanInv, Unmarked, MarkersAreFanotify
  <2>3. NoOrphanMark'
    <3> SUFFICES ASSUME NEW g \in kmark \ leaked, ~ Serves(g)'
                 PROVE  \E d \in Clients : cpc'[d] # "idle" /\ ccfg'[d].file = g
      BY <1>1 DEF NoOrphanMark
    <3>1. CASE \E d \in Clients : cpc[d] # "idle" /\ ccfg[d].file = g
      BY <2>1, <3>1
    <3>2. CASE Serves(g)
      <4>1. table[id] = [file |-> g, mode |-> "fanotify"]
        BY <2>1, <3>2 DEF Serves
      <4> QED BY <2>1, <4>1
    <3> QED BY <3>1, <3>2 DEF OrphanInv, NoOrphanMark
  <2> QED BY <2>2, <2>3 DEF OrphanInv
<1> QED BY <1>2, <1>3 DEF Request

LEMMA OrphanNext ==
    ASSUME FilesHaveOneId, TypeInv, Owned, backend => OrphanInv, RequestsApart', [Next]_vars
    PROVE  backend' => OrphanInv'
<1>1. CASE Crash
  BY <1>1 DEF Crash, OrphanInv, Unmarked, MarkersAreFanotify, NoOrphanMark
<1>2. CASE ~ Crash
  <2>1. backend' = backend
    BY <1>2, BackendStays
  <2>2. CASE UNCHANGED <<tableVars, clientVars, leaked>>
    BY <2>1, <2>2 DEF tableVars, clientVars, OrphanInv, Unmarked, MarkersAreFanotify, NoOrphanMark, Serves
  <2>3. CASE \E c \in Clients : ClientStep(c) \/ Request(c)
    BY <2>1, <2>3, OrphanClient, OrphanRequest
  <2> QED BY <1>2, <2>2, <2>3
          DEF Next, vars, ReaderStep, StartRead, FinishRead, LoopStep, Receive, Get, EnsureOk, EnsureErr
<1> QED BY <1>1, <1>2

LEMMA OrphanInit == Init => OrphanInv
BY DEF Init, OrphanInv, Unmarked, MarkersAreFanotify, NoOrphanMark

(* Once its requests are over, a file that no instance serves has no mark, *)
(* unless metadata() failed on it.                                         *)
THEOREM OrphansAreLeaks ==
    ASSUME FilesHaveOneId
    PROVE  Spec /\ []RequestsApart => []NoOrphanMark
<1> DEFINE Inv == TypeInv /\ Owned /\ MarkedInv /\ (backend => OrphanInv)
<1>1. Inv => NoOrphanMark
  BY DEF OrphanInv, MarkedInv, Bare, NoOrphanMark
<1>2. Inv /\ RequestsApart' /\ [Next]_vars => Inv'
  BY TypeNext, OwnedNext, MarkedNext, OrphanNext
<1>3. Init => Inv
  BY TypeInit, OwnedInit, MarkedInit, OrphanInit
<1> QED BY <1>1, <1>2, <1>3, PTL DEF Spec
-----------------------------------------------------------------------------
(* Readers: one that is served all the while it reads either waits or has  *)
(* been let through with its range there, and an event of such a reader    *)
(* that the loop has in hand is still of a registered instance.            *)

ServedWell ==
    \A r \in served :
        /\ Serves(rfile[r])
        /\ rpc[r] = "blocked" \/ (rpc[r] = "allowed" /\ rfile[r] \in filled)

ServedInv ==
    /\ ServedWell
    /\ lpc = "get" /\ lev \in served => table[lid] # NoConfig
    /\ lpc = "ensure" /\ lev \in served => lfile = rfile[lev]

(* Registration never takes the place of another: what is served stays.    *)
LEMMA ServesKept ==
    ASSUME FilesHaveOneId, TypeInv, Owned, NEW c \in Clients, ClientStep(c)
    PROVE  /\ \A g : Serves(g) => Serves(g)'
           /\ \A id \in Ids : table[id] # NoConfig => table'[id] # NoConfig
<1>1. \A id \in Ids : table[id] # NoConfig => table'[id] = table[id]
  BY FileIsOwn, ClientMoves DEF TypeInv, TypeOk
<1> QED BY <1>1, NobodyAssumption DEF Serves, NoConfig

LEMMA ServedRequest ==
    ASSUME FilesHaveOneId, TypeInv, Owned, ServedInv, NEW c \in Clients, Request(c)
    PROVE  ServedInv'
<1>1. UNCHANGED <<rpc, rfile, filled, lpc, lev, lid, lfile>>
  BY DEF Request, Register, Unregister, readerVars, loopVars
<1>2. CASE \E p \in MayAsk[c] : Register(c, p[1], p[2])
  BY <1>1, <1>2 DEF Register, tableVars, readerVars, ServedInv, ServedWell, Serves
<1>3. CASE \E p \in MayAsk[c] : Unregister(c, p[1])
  <2> PICK p \in MayAsk[c] : Unregister(c, p[1])
    BY <1>3
  <2> DEFINE id == p[1]
  <2>1. /\ id \in Ids /\ \A j \in Ids \ {id} : table'[j] = table[j]
        /\ served' = {r \in served : \E j \in Ids \ {id} :
                         table[j] = [file |-> rfile[r], mode |-> "fanotify"]}
    BY AsksType DEF Unregister, TypeInv, TypeOk
  <2>2. ServedWell'
    BY <1>1, <2>1 DEF ServedInv, ServedWell, Serves
  <2>3. ASSUME lpc = "get", lev \in served'
        PROVE  table'[lid] # NoConfig
    <3>1. PICK j \in Ids \ {id} : table[j] = [file |-> rfile[lev], mode |-> "fanotify"]
      BY <2>1, <2>3
    <3>2. table[j] # NoConfig /\ table[j].file = rfile[lev]
      BY <3>1 DEF NoConfig
    <3>3. /\ lid \in Ids /\ rfile[lev] \in Files
          /\ Names(lid, rfile[lev]) /\ Names(j, rfile[lev])
      BY <2>3, <3>2 DEF TypeInv, LoopAtWork, Stopped, Owned, Named, LoopNamed, TableNamed
    <3>4. lid = j
      BY <3>3 DEF FilesHaveOneId
    <3> QED BY <2>1, <3>2, <3>4
  <2>4. lpc = "ensure" /\ lev \in served' => lfile = rfile[lev]
    BY <2>1 DEF ServedInv
  <2> QED BY <1>1, <2>2, <2>3, <2>4 DEF ServedInv
<1> QED BY <1>2, <1>3 DEF Request

LEMMA ServedReader ==
    ASSUME TypeInv, Owned, AllMarked, ServedInv, NEW r \in Readers, ReaderStep(r)
    PROVE  ServedInv'
<1>1. /\ UNCHANGED <<table, filled, lpc, lev, lid, lfile>> /\ (lpc # "wait" => lev # r)
      /\ \A g : Serves(g)' <=> Serves(g)
  BY NamedReader DEF Owned, ReaderStep, StartRead, FinishRead, tableVars, loopVars, Serves
<1>2. \A q \in Readers \ {r} :
        UNCHANGED <<rpc[q], rfile[q]>> /\ (q \in served' <=> q \in served)
  BY DEF ReaderStep, StartRead, FinishRead, ReadEnd, TypeInv, TypeOk
<1>3. served' \in SUBSET Readers
  BY DEF ReaderStep, StartRead, FinishRead, ReadEnd, TypeInv, TypeOk
<1>4. ASSUME r \in served'
      PROVE  Serves(rfile'[r]) /\ rpc'[r] = "blocked"
  <2>1. ~ FinishRead(r)
    BY <1>4 DEF FinishRead, ReadEnd, ServedInv, ServedWell
  <2>2. PICK f \in Files : StartRead(r, f)
    BY <2>1 DEF ReaderStep
  <2>3. Serves(f) /\ rfile'[r] = f
    BY <1>4, <2>2 DEF StartRead, TypeInv, TypeOk
  <2>4. f \in kmark
    BY <2>3 DEF Serves, AllMarked
  <2> QED BY <2>2, <2>3, <2>4 DEF StartRead, TypeInv, TypeOk
<1>5. ServedWell'
  BY <1>1, <1>2, <1>3, <1>4 DEF ServedInv, ServedWell
<1>6. /\ lpc' = "get" /\ lev' \in served' => table'[lid'] # NoConfig
      /\ lpc' = "ensure" /\ lev' \in served' => lfile' = rfile'[lev']
  BY <1>1, <1>2, <1>3 DEF ServedInv
<1> QED BY <1>5, <1>6 DEF ServedInv

LEMMA ServedLoop ==
    ASSUME FilesHaveOneId, TypeInv, Owned, AllMarked, ServedInv, LoopStep
    PROVE  ServedInv'
<1>1. UNCHANGED table /\ (\A g : Serves(g)' <=> Serves(g)) /\ served \in SUBSET Readers
  BY DEF LoopStep, Receive, Get, EnsureOk, EnsureErr, tableVars, Serves, TypeInv, TypeOk
<1>2. CASE Receive
  <2> DEFINE r == Head(queue)
  <2>1. r \in Readers /\ UNCHANGED <<rfile, filled, served>>
    BY <1>2, HeadTailProperties, EmptySeq, LenProperties DEF Receive, TypeInv, TypeOk
  <2>2. r \in served => marks[rfile[r]] # Nobody /\ table[marks[rfile[r]]] # NoConfig
    <3> SUFFICES ASSUME r \in served PROVE marks[rfile[r]] # Nobody /\ table[marks[rfile[r]]] # NoConfig
      OBVIOUS
    <3>1. PICK id \in Ids : table[id] = [file |-> rfile[r], mode |-> "fanotify"]
      BY DEF ServedInv, ServedWell, Serves
    <3>2. marks[rfile[r]] = id /\ table[id] # NoConfig
      BY <3>1 DEF AllMarked, NoConfig
    <3> QED BY <3>2, NobodyAssumption
  <2>3. \A q \in served : rpc'[q] = rpc[q]
    BY <1>1, <1>2, <2>2 DEF Receive, Respond, TypeInv, TypeOk
  <2>4. ServedWell'
    BY <1>1, <2>1, <2>3 DEF ServedInv, ServedWell
  <2>5. lpc' # "ensure" /\ (lpc' = "get" /\ lev' \in served' => table'[lid'] # NoConfig)
    BY <1>1, <1>2, <2>1, <2>2 DEF Receive, loopVars
  <2> QED BY <2>4, <2>5 DEF ServedInv
<1>3. CASE Get
  <2>1. lev \in served => table[lid] # NoConfig
    BY <1>3 DEF Get, ServedInv
  <2>2. \A q \in served : rpc'[q] = rpc[q]
    BY <1>1, <1>3, <2>1 DEF Get, Respond, TypeInv, TypeOk
  <2>3. lev \in served => table[lid].file = rfile[lev]
    <3> SUFFICES ASSUME lev \in served PROVE table[lid].file = rfile[lev]
      OBVIOUS
    <3>1. PICK j \in Ids : table[j] = [file |-> rfile[lev], mode |-> "fanotify"]
      BY DEF ServedInv, ServedWell, Serves
    <3>2. table[j] # NoConfig /\ table[j].file = rfile[lev]
      BY <3>1 DEF NoConfig
    <3>3. /\ lid \in Ids /\ rfile[lev] \in Files
          /\ Names(lid, rfile[lev]) /\ Names(j, rfile[lev])
      BY <1>3, <3>2 DEF Get, TypeInv, LoopAtWork, Stopped, Owned, Named, LoopNamed, TableNamed
    <3>4. lid = j
      BY <3>3 DEF FilesHaveOneId
    <3> QED BY <3>2, <3>4
  <2>4. ServedWell'
    BY <1>1, <1>3, <2>2 DEF Get, ServedInv, ServedWell
  <2>5. lpc' # "get" /\ (lpc' = "ensure" /\ lev' \in served' => lfile' = rfile'[lev'])
    BY <1>3, <2>3 DEF Get, LoopEnd
  <2> QED BY <2>4, <2>5 DEF ServedInv
<1>4. CASE EnsureOk
  <2>1. lev \in served => lfile = rfile[lev]
    BY <1>4 DEF EnsureOk, ServedInv
  <2>2. \A q \in served : rpc'[q] = rpc[q] \/ (rpc'[q] = "allowed" /\ rfile[q] \in filled')
    BY <1>1, <1>4, <2>1 DEF EnsureOk, Respond, TypeInv, TypeOk
  <2> QED BY <1>1, <1>4, <2>2 DEF EnsureOk, LoopEnd, ServedInv, ServedWell
<1>5. CASE EnsureErr
  BY <1>1, <1>5 DEF EnsureErr, ReadEnd, LoopEnd, ServedInv, ServedWell, TypeInv, TypeOk
<1> QED BY <1>2, <1>3, <1>4, <1>5 DEF LoopStep

LEMMA ServedNext ==
    ASSUME FilesHaveOneId, TypeInv, Owned, MarkedInv, backend => ServedInv, [Next]_vars
    PROVE  backend' => ServedInv'
<1>1. CASE Crash
  BY <1>1 DEF Crash, LoopEnd, ServedInv, ServedWell
<1>2. CASE UNCHANGED vars
  BY <1>2 DEF vars, tableVars, readerVars, loopVars, ServedInv, ServedWell, Serves
<1>3. CASE ~ UNCHANGED vars /\ ~ Crash
  <2> SUFFICES ASSUME backend PROVE ServedInv'
    BY <1>3, BackendStays
  <2>1. ServedInv /\ AllMarked
    BY DEF MarkedInv, BackedInv
  <2>2. CASE \E c \in Clients : ClientStep(c)
    <3> PICK c \in Clients : ClientStep(c)
      BY <2>2
    <3>1. UNCHANGED <<rpc, rfile, filled, lpc, lev, lid, lfile, served>>
      BY ClientMoves
    <3>2. lpc = "get" => lid \in Ids
      BY DEF TypeInv, LoopAtWork
    <3> QED BY <2>1, <3>1, <3>2, ServesKept DEF ServedInv, ServedWell
  <2> QED BY <1>3, <2>1, <2>2, ServedRequest, ServedReader, ServedLoop DEF Next
<1> QED BY <1>1, <1>2, <1>3

LEMMA ServedInit == Init => ServedInv
BY DEF Init, ServedInv, ServedWell

(* In a process with a backend, a reader whose file stays registered while *)
(* it reads is not turned away and finds no hole, wherever the             *)
(* registration or the removal of other files, the queue and the loop are. *)
THEOREM ServedAreAnswered ==
    ASSUME FilesHaveOneId
    PROVE  Spec /\ []RequestsApart => []ServedIsAnswered
<1> DEFINE Inv == TypeInv /\ Owned /\ MarkedInv /\ (backend => ServedInv)
<1>1. Inv => ServedIsAnswered
  BY DEF ServedInv, ServedWell, ServedIsAnswered
<1>2. Inv /\ RequestsApart' /\ [Next]_vars => Inv'
  BY TypeNext, OwnedNext, MarkedNext, ServedNext
<1>3. Init => Inv
  BY TypeInit, OwnedInit, MarkedInit, ServedInit
<1> QED BY <1>1, <1>2, <1>3, PTL DEF Spec
=============================================================================
