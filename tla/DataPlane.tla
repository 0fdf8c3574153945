----------------------------- MODULE DataPlane -----------------------------
(***************************************************************************)
(* The seqpacket socket of lazyd (src/data.rs): clients connect, send      *)
(* FETCH packets, several at a time if they like, and read the answers;    *)
(* each connection is a task that receives, handles and answers one packet *)
(* after another.  recv_packet and send_packet are blocking system calls   *)
(* made on a worker thread of the async runtime, so a connection holds a   *)
(* worker except while it awaits the registry or ensure_range.             *)
(*                                                                         *)
(* What a FETCH makes ready is the business of the module that EXTENDS     *)
(* this one.                                                               *)
(***************************************************************************)
EXTENDS Errors, FiniteSets, Sequences

CONSTANTS
    Conns,      \* connections; an ended one may be used for the next client
    Workers,    \* number of worker threads of the runtime
    Ranges,     \* ranges of the blob, of which no two share a fetch unit
    Packets,    \* what clients send
    MaxQueued   \* packets a socket holds before its sender blocks

ASSUME WorkersAssumption == Workers \in Nat \ {0}
ASSUME MaxQueuedAssumption == MaxQueued \in Nat \ {0}

(* A packet is a FETCH of a range, or one of these: no FETCH request at    *)
(* all, without an id, or cut off at 64 KiB; a request for an unknown      *)
(* instance; the same with an id that does not fit into an answer; no      *)
(* bytes, or more descriptors than there is room for.  A request of        *)
(* another version or for a range that is not accepted is answered like    *)
(* one for an unknown instance, with another code.                         *)
Malformed == "malformed"
Refused == "refused"
Verbose == "verbose"
Ending == "ending"
ASSUME PacketsAssumption == Packets \subseteq Ranges \cup {Malformed, Refused, Verbose, Ending}
ASSUME RangesAssumption == Ranges \cap {Malformed, Refused, Verbose, Ending} = {}

NoPacket == "nopacket"

VARIABLES
    dpc,        \* where each connection is in serve_listener or handle_stream
    inq,        \* packets in the socket that the daemon has not received
    outq,       \* answers in the socket that the client has not received
    packet,     \* the packet that is handled
    answer,     \* the answer that is being sent
    owed,       \* history: packets sent whose answer the client still expects
    closed,     \* connections whose client has closed its end
    listening   \* whether serve_listener still runs

queueVars == <<inq, outq, owed, closed>>
dataVars == <<dpc, packet, answer, queueVars, listening>>

(* request_id is empty in the answer to a packet that is no request.       *)
NoId == "noid"
NoAnswer == [to |-> NoPacket, code |-> 0]
Answers == [to : Packets \cup {NoId}, code : Statuses]

(* A worker thread is in a blocking call of this connection, or between    *)
(* two such calls without an await.                                        *)
Holding(c) == dpc[c] \in {"recv", "handle", "reply"}
Free == Cardinality({c \in Conns : Holding(c)}) < Workers

DataTypeOk ==
    /\ dpc \in [Conns -> {"none", "backlog", "start", "recv", "handle", "ensure", "reply", "ended"}]
    /\ inq \in [Conns -> Seq(Packets)] /\ outq \in [Conns -> Seq(Answers)]
    /\ packet \in [Conns -> Packets \cup {NoPacket}]
    /\ answer \in [Conns -> Answers \cup {NoAnswer}]
    /\ owed \in [Conns -> Seq(Packets)]
    /\ closed \in SUBSET Conns /\ listening \in BOOLEAN

DataInit ==
    /\ dpc = [c \in Conns |-> "none"]
    /\ inq = [c \in Conns |-> <<>>] /\ outq = [c \in Conns |-> <<>>]
    /\ packet = [c \in Conns |-> NoPacket]
    /\ answer = [c \in Conns |-> NoAnswer]
    /\ owed = [c \in Conns |-> <<>>]
    /\ closed = {} /\ listening = TRUE

Move(c, from, to) ==
    /\ dpc[c] = from
    /\ dpc' = [dpc EXCEPT ![c] = to]

-----------------------------------------------------------------------------
(* Clients.                                                                *)

Connected(c) == dpc[c] \notin {"none", "ended"} /\ c \notin closed

(* A client may send before its connection is accepted.                    *)
Connect(c) ==
    /\ listening
    /\ Move(c, "none", "backlog")
    /\ UNCHANGED <<packet, answer, queueVars, listening>>

Send(c, p) ==
    /\ Connected(c)
    /\ Len(inq[c]) < MaxQueued
    /\ inq' = [inq EXCEPT ![c] = Append(@, p)]
    /\ owed' = [owed EXCEPT ![c] = Append(@, p)]
    /\ UNCHANGED <<dpc, packet, answer, outq, closed, listening>>

Receive(c) ==
    /\ c \notin closed /\ outq[c] # <<>>
    /\ outq' = [outq EXCEPT ![c] = Tail(@)]
    /\ owed' = [owed EXCEPT ![c] = Tail(@)]
    /\ UNCHANGED <<dpc, packet, answer, inq, closed, listening>>

(* A client that leaves answers unread resets the connection: the daemon   *)
(* gets an error instead of the packets that are still queued.             *)
Close(c) ==
    /\ dpc[c] # "none" /\ c \notin closed
    /\ closed' = closed \cup {c}
    /\ inq' = [inq EXCEPT ![c] = IF outq[c] = <<>> THEN @ ELSE <<>>]
    /\ outq' = [outq EXCEPT ![c] = <<>>]
    /\ owed' = [owed EXCEPT ![c] = <<>>]
    /\ UNCHANGED <<dpc, packet, answer, listening>>

(* Both ends are closed and the connection is nobody's.                    *)
Forget(c) ==
    /\ c \in closed
    /\ Move(c, "ended", "none")
    /\ closed' = closed \ {c}
    /\ UNCHANGED <<packet, answer, inq, outq, owed, listening>>

-----------------------------------------------------------------------------
(* Faulty variant: the stream is handled before the next accept.           *)
AcceptAlone(c) ==
    /\ listening /\ Free
    /\ \A d \in Conns : dpc[d] \in {"none", "backlog", "ended"}
    /\ Move(c, "backlog", "start")
    /\ UNCHANGED <<packet, answer, queueVars, listening>>

(* serve_listener.  A thread of its own waits in accept, and the stream is *)
(* handed to a new task by a worker.                                       *)
Accept(c) ==
    /\ listening /\ Free
    /\ Move(c, "backlog", "start")
    /\ UNCHANGED <<packet, answer, queueVars, listening>>

(* A failed accept ends serve_listener, which closes the listener and      *)
(* resets what it has not accepted; streams go on.                         *)
AcceptErr ==
    /\ listening /\ Free
    /\ listening' = FALSE
    /\ dpc' = [c \in Conns |-> IF dpc[c] = "backlog" THEN "ended" ELSE dpc[c]]
    /\ inq' = [c \in Conns |-> IF dpc[c] = "backlog" THEN <<>> ELSE inq[c]]
    /\ owed' = [c \in Conns |-> IF dpc[c] = "backlog" THEN <<>> ELSE owed[c]]
    /\ UNCHANGED <<packet, answer, outq, closed>>

-----------------------------------------------------------------------------
(* handle_stream.                                                          *)

(* The stream is dropped: nobody reads what is left in it, and of what the *)
(* client has sent only the answers that are in the socket will reach it.  *)
EndStream(c) ==
    /\ dpc' = [dpc EXCEPT ![c] = "ended"]
    /\ packet' = [packet EXCEPT ![c] = NoPacket]
    /\ answer' = [answer EXCEPT ![c] = NoAnswer]
    /\ inq' = [inq EXCEPT ![c] = <<>>]
    /\ owed' = [owed EXCEPT ![c] = SubSeq(@, 1, Len(outq[c]))]
    /\ UNCHANGED <<outq, closed, listening>>

StartRecv(c) ==
    /\ Free
    /\ Move(c, "start", "recv")
    /\ UNCHANGED <<packet, answer, queueVars, listening>>

Recv(c) ==
    /\ inq[c] # <<>> /\ Head(inq[c]) # Ending
    /\ Move(c, "recv", "handle")
    /\ packet' = [packet EXCEPT ![c] = Head(inq[c])]
    /\ inq' = [inq EXCEPT ![c] = Tail(@)]
    /\ UNCHANGED <<answer, outq, owed, closed, listening>>

(* Faulty variant: a receive that fails is tried again.                    *)
RecvAgain(c) ==
    /\ dpc[c] = "recv"
    /\ inq[c] = <<>> /\ c \in closed
    /\ UNCHANGED dataVars

(* recvmsg fails, returns nothing because the peer is gone, or returns an  *)
(* empty packet, which is taken for the same.                              *)
RecvEnd(c) ==
    /\ dpc[c] = "recv"
    /\ IF inq[c] = <<>> THEN c \in closed ELSE Head(inq[c]) = Ending
    /\ EndStream(c)

Reply(c, a) ==
    /\ dpc' = [dpc EXCEPT ![c] = "reply"]
    /\ answer' = [answer EXCEPT ![c] = a]
    /\ UNCHANGED <<packet, queueVars, listening>>

(* Faulty variant: what is no request is not answered.                     *)
SkipMalformed(c) ==
    /\ packet[c] = Malformed
    /\ Move(c, "handle", "recv")
    /\ packet' = [packet EXCEPT ![c] = NoPacket]
    /\ UNCHANGED <<answer, queueVars, listening>>

(* parse_fetch_request cannot read the packet.                             *)
AnswerMalformed(c) ==
    /\ dpc[c] = "handle" /\ packet[c] = Malformed
    /\ Reply(c, [to |-> NoId, code |-> StatusCode("BadRequest")])

(* The registry does not have the instance.                                *)
AnswerRefused(c) ==
    /\ dpc[c] = "handle" /\ packet[c] \in {Refused, Verbose}
    /\ Reply(c, [to |-> packet[c], code |-> StatusCode("NotFound")])

(* handle_fetch awaits the registry's lock or ensure_range.                *)
Await(c) ==
    /\ packet[c] \in Ranges
    /\ Move(c, "handle", "ensure")
    /\ UNCHANGED <<packet, answer, queueVars, listening>>

(* prepare_fetch_range returns the range, with a descriptor of the target, *)
(* or an error; once it had to wait, a worker has to take it up.           *)
AnswerFetch(c, ok) ==
    /\ packet[c] \in Ranges
    /\ dpc[c] = "handle" \/ (dpc[c] = "ensure" /\ Free)
    /\ Reply(c, [to |-> packet[c], code |-> IF ok THEN 200 ELSE StatusCode("Remote")])

(* The answer fits into a packet, and blocks until there is room for it;   *)
(* the next receive follows without an await.                              *)
SendAnswer(c) ==
    /\ packet[c] # Verbose /\ c \notin closed
    /\ Len(outq[c]) < MaxQueued
    /\ Move(c, "reply", "recv")
    /\ outq' = [outq EXCEPT ![c] = Append(@, answer[c])]
    /\ packet' = [packet EXCEPT ![c] = NoPacket]
    /\ answer' = [answer EXCEPT ![c] = NoAnswer]
    /\ UNCHANGED <<inq, owed, closed, listening>>

(* The answer is too large, or the client is gone.                         *)
SendEnd(c) ==
    /\ dpc[c] = "reply"
    /\ packet[c] = Verbose \/ c \in closed
    /\ EndStream(c)

-----------------------------------------------------------------------------
(* A client that sends packets of P.                                       *)
ClientStep(c, P) ==
    \/ Connect(c) \/ \E p \in P : Send(c, p)
    \/ Receive(c) \/ Close(c) \/ Forget(c)

StreamStep(c) ==
    \/ Accept(c) \/ StartRecv(c)
    \/ Recv(c) \/ RecvEnd(c)
    \/ AnswerMalformed(c) \/ AnswerRefused(c) \/ Await(c)
    \/ SendAnswer(c) \/ SendEnd(c)
=============================================================================
