------------------------------- MODULE Daemon -------------------------------
(***************************************************************************)
(* The tasks of one lazyd process on the threads they share (src/main.rs): *)
(* the data plane, the control plane and the fanotify event loop ask one   *)
(* instance for ranges, and ensure_range reads them from one registry.     *)
(*                                                                         *)
(* The async runtime has a fixed number of workers.  They run the tasks,   *)
(* and, between two tasks, what drives sockets and timers; a connection of *)
(* the data plane that is in a blocking system call takes one away.  The   *)
(* event loop and accept have threads of their own, but what they await    *)
(* has to be driven by a worker too.  How ensure_range works on the files  *)
(* is in LazyInstance: here a range is ready, or reserved by the task that *)
(* reads it, or neither.                                                   *)
(***************************************************************************)
EXTENDS DataPlane, ControlPlane, RegistryAuth

CONSTANTS
    Loop,       \* the fanotify event loop
    Loads,      \* what the surroundings may do to a process, see load
    NoEvent

ASSUME TasksAssumption == Tasks = Conns \cup Ctrls \cup {Loop}
ASSUME KindsAssumption == Conns \cap Ctrls = {} /\ Loop \notin Conns \cup Ctrls
ASSUME NoEventAssumption == NoEvent \notin Ranges
ASSUME LoadsAssumption ==
    \A l \in Loads :
        /\ l.conns \subseteq Conns /\ l.packets \subseteq Packets /\ l.calls \subseteq Calls
        /\ l.events \subseteq Ranges /\ l.acceptErr \in BOOLEAN
ASSUME EnsureAssumption == \A k \in Calls : k.op = "ensure" => k.range \in Ranges

VARIABLES
    load,       \* which clients there are, what they send, which files are read
    event,      \* the range of the event that the loop handles
    ready       \* ranges that are ready

vars == <<dataVars, controlVars, authVars, load, event, ready>>

TypeOk ==
    /\ DataTypeOk /\ ControlTypeOk /\ AuthTypeOk
    /\ load \in Loads
    /\ event \in Ranges \cup {NoEvent}
    /\ ready \in SUBSET Ranges

(* main: nothing is registered with the kernel or accepted before the      *)
(* loop and both sockets are set up.  Without a fanotify backend there is  *)
(* no loop, and everything else as usual: a load without events.           *)
Init ==
    /\ DataInit /\ ControlInit /\ AuthInit
    /\ load \in Loads
    /\ event = NoEvent
    /\ ready = {}

-----------------------------------------------------------------------------
(* ensure_range.                                                           *)

Ensuring(t) ==
    \/ t \in Conns /\ dpc[t] = "ensure"
    \/ t \in Ctrls /\ kpc[t] = "ensure"
    \/ t = Loop /\ event # NoEvent

RangeOf(t) ==
    IF t \in Conns THEN packet[t]
    ELSE IF t \in Ctrls THEN call[t].range
    ELSE event

Reading(t) == at[t] # "idle"

(* Where a task waits for the registry or the token service.               *)
OnNetwork(t) == at[t] \in Sending \cup {"request"}

(* A task of the runtime runs on a worker, the event loop on its thread.   *)
CanRun(t) == t = Loop \/ Free

Finish(t, ok) ==
    \/ /\ t \in Conns /\ AnswerFetch(t, ok)
       /\ UNCHANGED <<controlVars, event>>
    \/ /\ t \in Ctrls /\ Ensured(t, ok) /\ Free
       /\ UNCHANGED <<dataVars, event>>
    \/ /\ t = Loop /\ event' = NoEvent
       /\ UNCHANGED <<dataVars, controlVars>>

(* The range is ready at the first or, after waiting for its reservation,  *)
(* at the second look.                                                     *)
AlreadyReady(t) ==
    /\ Ensuring(t) \/ (t \in Conns /\ dpc[t] = "handle" /\ packet[t] \in Ranges)
    /\ ~Reading(t) /\ RangeOf(t) \in ready
    /\ Finish(t, TRUE)
    /\ UNCHANGED <<authVars, ready>>

(* reserve_inflight succeeds and read_range begins.                        *)
StartRead(t) ==
    /\ Ensuring(t) /\ CanRun(t)
    /\ ~Reading(t) /\ RangeOf(t) \notin ready
    /\ \A u \in Tasks : Reading(u) => RangeOf(u) # RangeOf(t)
    /\ Begin(t)
    /\ UNCHANGED <<dataVars, controlVars, event, ready>>

(* The bytes are written and the range is made ready.                      *)
ReadOk(t) ==
    /\ Ensuring(t) /\ Free
    /\ Accepted(t)
    /\ ready' = ready \cup {RangeOf(t)}
    /\ Finish(t, TRUE)

(* The read, the write or the update of the bitmap fails.                  *)
ReadErr(t) ==
    /\ Ensuring(t) /\ Free
    /\ Failed(t)
    /\ Finish(t, FALSE)
    /\ UNCHANGED ready

(* Answers of the registry and of the token service that read_range acts   *)
(* on, and what it does by itself.                                         *)
NetworkStep(t) ==
    /\ Free
    /\ Challenged(t) \/ Issue(t)
    /\ UNCHANGED <<dataVars, controlVars, event, ready>>

TokenStep(t) ==
    /\ CanRun(t)
    /\ UseCached(t) \/ AskService(t) \/ Store(t)
    /\ UNCHANGED <<dataVars, controlVars, event, ready>>

-----------------------------------------------------------------------------
(* A reader of a marked file is stopped by the kernel.                     *)
Event(r) ==
    /\ event = NoEvent
    /\ event' = r
    /\ UNCHANGED <<dataVars, controlVars, authVars, ready>>

(* What a task does by itself.                                             *)
Proceed(t) ==
    \/ t \in Conns /\ StreamStep(t) /\ UNCHANGED <<controlVars, authVars, event, ready>>
    \/ t \in Ctrls /\ Free /\ CallStep(t) /\ UNCHANGED <<dataVars, authVars, event, ready>>
    \/ AlreadyReady(t) \/ StartRead(t) \/ TokenStep(t)

Environment ==
    \/ \E c \in load.conns :
          ClientStep(c, load.packets) /\ UNCHANGED <<controlVars, authVars, event, ready>>
    \/ load.acceptErr /\ AcceptErr /\ UNCHANGED <<controlVars, authVars, event, ready>>
    \/ \E k \in Ctrls :
          /\ (\E c \in load.calls : MakeCall(k, c)) \/ (Free /\ ReadStep(k))
          /\ UNCHANGED <<dataVars, authVars, event, ready>>
    \/ \E r \in load.events : Event(r)
    \/ Expire /\ UNCHANGED <<dataVars, controlVars, event, ready>>

Next ==
    /\ \/ \E t \in Tasks : Proceed(t) \/ ReadOk(t) \/ ReadErr(t) \/ NetworkStep(t)
       \/ Environment
    /\ UNCHANGED load

Spec == Init /\ [][Next]_vars

(* A task that can run again and again is run: the queues of the runtime   *)
(* are served in turn by every worker that gets free, and a thread in a    *)
(* system call returns from it.                                            *)
FairSpec == Spec /\ \A t \in Tasks : SF_vars(Proceed(t) /\ UNCHANGED load)
-----------------------------------------------------------------------------
(* The answers of a connection come in the order of its packets, one for   *)
(* each: the i-th answer a client can read belongs to the i-th packet it   *)
(* has sent and seen no answer to, whatever it has pipelined, and says yes *)
(* only if that packet is a FETCH of a range that is ready.                *)
AnswersMatch ==
    \A c \in Conns \ closed : \A i \in DOMAIN outq[c] :
        /\ i \in DOMAIN owed[c]
        /\ outq[c][i].to = IF owed[c][i] = Malformed THEN NoId ELSE owed[c][i]
        /\ outq[c][i].code = 200 => owed[c][i] \in ready

(* However the reads cut the stream of a call, its response is the one it  *)
(* deserves: a range is granted only if it is ready, and a call whose      *)
(* Content-Length is that of its body is rejected as unreadable only if    *)
(* its client stopped sending.                                             *)
CutAnywhere ==
    \A k \in Ctrls : kpc[k] = "respond" /\ call[k].op = "ensure" =>
        /\ status[k] = 204 => got[k] = Size(k) /\ call[k].range \in ready
        /\ call[k].length = call[k].body /\ got[k] < Size(k) => cut[k]

-----------------------------------------------------------------------------
(* A task that somebody waits for.                                         *)
Waiting(t) ==
    \/ t \in Conns /\ dpc[t] \in {"backlog", "start", "handle", "ensure"}
    \/ t \in Ctrls /\ kpc[t] \in {"handle", "ensure", "respond"}
    \/ t = Loop /\ event # NoEvent

FailStep == \E t \in Tasks : ReadErr(t)

(* If the workers are not taken away for good by clients that neither send *)
(* nor read nor leave, if the remote answers and failures end, then every  *)
(* connection, packet, call and event is served: none is starved by the    *)
(* others or forgotten at a reservation.                                   *)
AllServed ==
    /\ []<>Free
    /\ \A t \in Tasks : []<>(~OnNetwork(t))
    /\ <>[][~FailStep]_vars
    => \A t \in Tasks : Waiting(t) ~> ~Waiting(t)

(* A client that leaves gives back the worker its connection holds, though *)
(* no other worker may be left to help: whatever the connection is doing,  *)
(* its blocking calls return, and it ends or waits without the worker.     *)
LeavingFrees == \A c \in Conns : c \in closed /\ Holding(c) ~> ~Holding(c)
=============================================================================
