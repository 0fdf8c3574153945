--------------------------- MODULE Daemon_proofs ---------------------------
(* What holds of a daemon of any size.  What its tasks do is what          *)
(* RegistryAuth allows tasks to do, so that what holds there holds here;   *)
(* the packets of its data plane are accounted for; and its calls are      *)
(* handled only when they are there.                                       *)
EXTENDS Daemon, DataPlane_proofs, RegistryAuth_proofs

LEMMA StepIsAuthStep == [Next]_vars => [AuthNext]_authVars
<1> SUFFICES ASSUME [Next]_vars PROVE [AuthNext]_authVars
  OBVIOUS
<1>1. CASE UNCHANGED vars
  BY <1>1 DEF vars
<1>2. ASSUME NEW t \in Tasks, Proceed(t) PROVE [AuthNext]_authVars
  <2>1. CASE AlreadyReady(t)
    BY <2>1 DEF AlreadyReady
  <2>2. CASE StartRead(t)
    BY <2>2 DEF StartRead, AuthNext
  <2>3. CASE TokenStep(t)
    BY <2>3 DEF TokenStep, AuthNext
  <2> QED BY <1>2, <2>1, <2>2, <2>3 DEF Proceed
<1>3. ASSUME NEW t \in Tasks, ReadOk(t) \/ ReadErr(t) \/ NetworkStep(t) PROVE [AuthNext]_authVars
  BY <1>3 DEF ReadOk, ReadErr, NetworkStep, AuthNext
<1>4. CASE Environment
  BY <1>4 DEF Environment, Event, AuthNext
<1> QED BY <1>1, <1>2, <1>3, <1>4 DEF Next

(* The reads of a daemon are reads as RegistryAuth has them: however       *)
(* connections, calls and the event loop are scheduled on the workers.     *)
THEOREM DaemonImplementsAuth == Spec => AuthSpec
<1>1. Init => AuthInit
  BY DEF Init
<1> QED BY <1>1, StepIsAuthStep, PTL DEF Spec, AuthSpec

(* No task of a daemon sends a refused token again unless it has expired.  *)
THEOREM DaemonRetryIsNew ==
    ASSUME MaxTokens \in Nat
    PROVE  Spec => []RetriesWithNewToken
BY DaemonImplementsAuth, RetryIsNew, PTL
-----------------------------------------------------------------------------
(* The data plane: each connection's packets are accounted for.            *)

Handled(c) == dpc[c] \in {"handle", "ensure", "reply"}
Handling(c) == IF Handled(c) THEN 1 ELSE 0

Accounted(c) ==
    /\ Handled(c) => packet[c] \in Packets
    /\ dpc[c] = "reply" => answer[c] \in Answers /\ Fitting(answer[c], packet[c], ready)
    /\ dpc[c] \in {"none", "ended"} => inq[c] = <<>>
    /\ dpc[c] \in {"none", "backlog"} => outq[c] = <<>>
    /\ IF c \in closed THEN outq[c] = <<>> /\ owed[c] = <<>>
       ELSE Matching(outq[c], Handling(c), packet[c], inq[c], owed[c], ready)

DataInv == DataTypeOk /\ \A c \in Conns : Accounted(c)

LEMMA Codes ==
    /\ StatusCode("BadRequest") \in Statuses \ {200, 204}
    /\ StatusCode("NotFound") \in Statuses \ {200, 204}
    /\ StatusCode("Json") \in Statuses \ {200, 204}
    /\ StatusCode("Remote") \in Statuses \ {200, 204}
    /\ 200 \in Statuses /\ 204 \in Statuses
BY DEF StatusCode, Statuses

LEMMA DataInvInit == Init => DataInv
BY DEF Init, DataInit, DataInv, DataTypeOk, Accounted, Matching, Handled, Handling

(* A connection of which nothing changes stays accounted for.              *)
LEMMA AccountedFrame ==
    ASSUME NEW c \in Conns, Accounted(c), ready \subseteq ready',
           UNCHANGED <<dpc[c], inq[c], outq[c], packet[c], answer[c], owed[c]>>,
           c \in closed' <=> c \in closed
    PROVE  Accounted(c)'
<1>1. Handling(c)' = Handling(c) /\ (Handled(c)' <=> Handled(c))
  BY DEF Handled, Handling
<1>2. c \notin closed =>
        Matching(outq[c], Handling(c), packet[c], inq[c], owed[c], ready')
  BY MatchingGrows DEF Accounted
<1>3. dpc[c] = "reply" => Fitting(answer[c], packet[c], ready')
  BY DEF Accounted, Fitting
<1> QED BY <1>1, <1>2, <1>3 DEF Accounted, Fitting, Matching

(* Queues, and whether a packet is handled, in a connection of DataInv.    *)
LEMMA ConnType ==
    ASSUME DataInv, NEW c \in Conns
    PROVE  /\ inq[c] \in Seq(Packets) /\ outq[c] \in Seq(Answers) /\ owed[c] \in Seq(Packets)
           /\ Accounted(c) /\ Handling(c) \in {0, 1} /\ (Handled(c) <=> Handling(c) = 1)
BY DEF DataInv, DataTypeOk, Handling

(* Steps from one place to another that touch no packet.                   *)
LEMMA DataMove ==
    ASSUME DataInv, ready \subseteq ready', NEW c \in Conns,
           Connect(c) \/ Forget(c) \/ Accept(c) \/ StartRecv(c) \/ Await(c)
    PROVE  DataInv'
<1>1. /\ UNCHANGED <<inq, outq, packet, answer, owed, listening>>
      /\ dpc' \in [Conns -> {"none", "backlog", "start", "recv", "handle", "ensure", "reply", "ended"}]
      /\ \A d \in Conns \ {c} : dpc'[d] = dpc[d] /\ (d \in closed' <=> d \in closed)
      /\ closed' \in SUBSET Conns
  BY DEF Connect, Forget, Accept, StartRecv, Await, Move, queueVars, DataInv, DataTypeOk
<1>2. DataTypeOk'
  BY <1>1 DEF DataInv, DataTypeOk
<1>3. \A d \in Conns \ {c} : Accounted(d)'
  BY <1>1, AccountedFrame DEF DataInv
<1>4. Accounted(c)'
  <2>1. Accounted(c) /\ Handling(c)' = Handling(c) /\ (Handled(c)' <=> Handled(c)) /\ dpc'[c] # "reply"
    BY <1>1 DEF Connect, Forget, Accept, StartRecv, Await, Move, DataInv, DataTypeOk, Handled, Handling
  <2>2. /\ dpc'[c] \in {"none", "ended"} => inq'[c] = <<>>
        /\ dpc'[c] \in {"none", "backlog"} => outq'[c] = <<>>
    BY <1>1, <2>1 DEF Connect, Forget, Accept, StartRecv, Await, Move, DataInv, DataTypeOk, Accounted
  <2>3. CASE Forget(c)
    <3>1. c \in closed /\ c \notin closed' /\ Handling(c)' = 0 /\ outq'[c] = <<>> /\ owed'[c] = <<>> /\ inq'[c] = <<>>
      BY <1>1, <2>1, <2>3 DEF Forget, Move, Accounted, Handled, Handling, DataInv, DataTypeOk
    <3>2. Matching(outq[c], Handling(c), packet[c], inq[c], owed[c], ready)'
      BY <3>1 DEF Matching
    <3> QED BY <1>1, <2>1, <2>2, <3>1, <3>2 DEF Accounted
  <2>4. CASE ~Forget(c)
    <3>1. closed' = closed
      BY <2>4 DEF Connect, Accept, StartRecv, Await, queueVars
    <3>2. c \notin closed => Matching(outq[c], Handling(c), packet[c], inq[c], owed[c], ready')
      BY <2>1, MatchingGrows DEF Accounted
    <3> QED BY <1>1, <2>1, <2>2, <3>1, <3>2 DEF Accounted
  <2> QED BY <2>3, <2>4
<1> QED BY <1>2, <1>3, <1>4 DEF DataInv

LEMMA DataSend ==
    ASSUME DataInv, UNCHANGED ready, NEW c \in Conns, NEW p \in Packets, Send(c, p)
    PROVE  DataInv'
<1>1. /\ UNCHANGED <<dpc, packet, answer, outq, closed, listening>>
      /\ c \notin closed /\ dpc[c] \notin {"none", "ended"}
      /\ inq'[c] = Append(inq[c], p) /\ owed'[c] = Append(owed[c], p)
      /\ \A d \in Conns \ {c} : UNCHANGED <<inq[d], owed[d]>>
  BY DEF Send, Connected, DataInv, DataTypeOk
<1>2. DataTypeOk'
  BY ConnType DEF Send, DataInv, DataTypeOk
<1>3. \A d \in Conns \ {c} : Accounted(d)'
  BY <1>1, AccountedFrame DEF DataInv
<1>4. Matching(outq[c], Handling(c), packet[c], inq'[c], owed'[c], ready)
  <2>1. Matching(outq[c], Handling(c), packet[c], inq[c], owed[c], ready)
    BY <1>1, ConnType DEF Accounted
  <2>2. Matching(outq[c], Handling(c), packet[c], Append(inq[c], p), Append(owed[c], p), ready)
    BY <2>1, ConnType, MatchingSend, Zenon
  <2> QED BY <1>1, <2>2
<1>5. Accounted(c)'
  BY <1>1, <1>4, ConnType DEF Accounted, Handled, Handling
<1> QED BY <1>2, <1>3, <1>5 DEF DataInv

LEMMA DataReceive ==
    ASSUME DataInv, UNCHANGED ready, NEW c \in Conns, Receive(c)
    PROVE  DataInv'
<1>1. /\ UNCHANGED <<dpc, packet, answer, inq, closed, listening>>
      /\ c \notin closed /\ outq[c] # <<>>
      /\ outq'[c] = Tail(outq[c]) /\ owed'[c] = Tail(owed[c])
      /\ \A d \in Conns \ {c} : UNCHANGED <<outq[d], owed[d]>>
  BY DEF Receive, DataInv, DataTypeOk
<1>2. Matching(outq'[c], Handling(c), packet[c], inq[c], owed'[c], ready) /\ owed[c] # <<>>
  <2>1. Matching(outq[c], Handling(c), packet[c], inq[c], owed[c], ready)
    BY <1>1, ConnType DEF Accounted
  <2>2. outq[c] # <<>>
    BY <1>1
  <2>3. /\ Matching(Tail(outq[c]), Handling(c), packet[c], inq[c], Tail(owed[c]), ready)
        /\ owed[c] # <<>>
    BY <2>1, <2>2, ConnType, MatchingReceive, Zenon
  <2> QED BY <1>1, <2>3
<1>3. outq'[c] \in Seq(Answers) /\ owed'[c] \in Seq(Packets)
  BY <1>1, <1>2, ConnType, HeadTailProperties
<1>4. DataTypeOk'
  BY <1>1, <1>3 DEF Receive, DataInv, DataTypeOk
<1>5. \A d \in Conns \ {c} : Accounted(d)'
  BY <1>1, AccountedFrame DEF DataInv
<1>6. Accounted(c)'
  BY <1>1, <1>2, ConnType DEF Accounted, Handled, Handling
<1> QED BY <1>4, <1>5, <1>6 DEF DataInv

LEMMA DataClose ==
    ASSUME DataInv, UNCHANGED ready, NEW c \in Conns, Close(c)
    PROVE  DataInv'
<1>1. DataTypeOk'
  BY DEF Close, DataInv, DataTypeOk
<1>2. \A d \in Conns \ {c} : Accounted(d)'
  BY AccountedFrame DEF Close, DataInv, DataTypeOk
<1>3. Accounted(c)'
  BY DEF Close, DataInv, DataTypeOk, Accounted, Handled
<1> QED BY <1>1, <1>2, <1>3 DEF DataInv

LEMMA DataAcceptErr ==
    ASSUME DataInv, UNCHANGED ready, AcceptErr
    PROVE  DataInv'
<1>1. DataTypeOk'
  <2>1. <<>> \in Seq(Packets)
    OBVIOUS
  <2>2. inq' \in [Conns -> Seq(Packets)] /\ owed' \in [Conns -> Seq(Packets)]
    BY <2>1, ConnType DEF AcceptErr
  <2>3. dpc' \in [Conns -> {"none", "backlog", "start", "recv", "handle", "ensure", "reply", "ended"}]
    BY DEF AcceptErr, DataInv, DataTypeOk
  <2> QED BY <2>2, <2>3 DEF AcceptErr, DataInv, DataTypeOk
<1>2. ASSUME NEW c \in Conns PROVE Accounted(c)'
  <2>1. CASE dpc[c] = "backlog"
    <3>1. /\ dpc'[c] = "ended" /\ inq'[c] = <<>> /\ owed'[c] = <<>>
          /\ outq' = outq /\ closed' = closed /\ Accounted(c)
      BY <2>1 DEF AcceptErr, DataInv
    <3>2. outq[c] = <<>> /\ Handling(c)' = 0
      BY <3>1, <2>1 DEF Accounted, Handled, Handling
    <3>3. Matching(outq[c], Handling(c), packet[c], inq[c], owed[c], ready)'
      BY <3>1, <3>2 DEF Matching
    <3> QED BY <3>1, <3>2, <3>3, <2>1 DEF Accounted, Handled
  <2>2. CASE dpc[c] # "backlog"
    BY <2>2, AccountedFrame DEF AcceptErr, DataInv
  <2> QED BY <2>1, <2>2
<1> QED BY <1>1, <1>2 DEF DataInv

(* The stream takes the next packet.                                       *)
LEMMA DataRecv ==
    ASSUME DataInv, UNCHANGED ready, NEW c \in Conns, Recv(c)
    PROVE  DataInv'
<1>1. /\ UNCHANGED <<answer, outq, owed, closed, listening>>
      /\ dpc[c] = "recv" /\ dpc'[c] = "handle" /\ inq[c] # <<>>
      /\ packet'[c] = Head(inq[c]) /\ inq'[c] = Tail(inq[c])
      /\ \A d \in Conns \ {c} : UNCHANGED <<dpc[d], inq[d], packet[d]>>
  BY DEF Recv, Move, DataInv, DataTypeOk
<1>2. Head(inq[c]) \in Packets /\ Tail(inq[c]) \in Seq(Packets)
  BY <1>1, ConnType, HeadTailProperties
<1>3. DataTypeOk'
  BY <1>2 DEF Recv, Move, DataInv, DataTypeOk
<1>4. \A d \in Conns \ {c} : Accounted(d)'
  BY <1>1, AccountedFrame DEF DataInv
<1>5. Handling(c) = 0 /\ Handling(c)' = 1
  BY <1>1 DEF Handled, Handling
<1>6. ASSUME c \notin closed
      PROVE  Matching(outq[c], 1, packet'[c], inq'[c], owed[c], ready)
  <2>1. Matching(outq[c], 0, packet[c], inq[c], owed[c], ready) /\ inq[c] # <<>>
    BY <1>1, <1>5, <1>6, ConnType DEF Accounted
  <2>2. Matching(outq[c], 1, Head(inq[c]), Tail(inq[c]), owed[c], ready)
    BY <2>1, ConnType, MatchingRecv, Zenon
  <2> QED BY <1>1, <2>2
<1>7. Accounted(c)'
  BY <1>1, <1>2, <1>5, <1>6, ConnType DEF Accounted, Handled
<1> QED BY <1>3, <1>4, <1>7 DEF DataInv

(* The stream is dropped, between two packets or instead of an answer.     *)
LEMMA DataEnd ==
    ASSUME DataInv, UNCHANGED ready, NEW c \in Conns, RecvEnd(c) \/ SendEnd(c)
    PROVE  DataInv'
<1>1. /\ UNCHANGED <<outq, closed, listening>>
      /\ dpc[c] \notin {"none", "backlog"} /\ dpc'[c] = "ended"
      /\ packet'[c] = NoPacket /\ answer'[c] = NoAnswer
      /\ inq'[c] = <<>> /\ owed'[c] = SubSeq(owed[c], 1, Len(outq[c]))
      /\ \A d \in Conns \ {c} :
            UNCHANGED <<dpc[d], inq[d], packet[d], answer[d], owed[d]>>
  BY DEF RecvEnd, SendEnd, EndStream, DataInv, DataTypeOk
<1>2. /\ owed'[c] \in Seq(Packets)
      /\ c \in closed => owed'[c] = <<>>
      /\ c \notin closed => Matching(outq[c], 0, packet'[c], <<>>, owed'[c], ready)
  <2>1. CASE c \in closed
    <3>1. outq[c] = <<>> /\ owed[c] = <<>>
      BY <2>1, ConnType DEF Accounted
    <3> QED BY <1>1, <2>1, <3>1
  <2>2. CASE c \notin closed
    <3>1. Matching(outq[c], Handling(c), packet[c], inq[c], owed[c], ready)
      BY <2>2, ConnType DEF Accounted
    <3>2. /\ SubSeq(owed[c], 1, Len(outq[c])) \in Seq(Packets)
          /\ Matching(outq[c], 0, packet'[c], <<>>, SubSeq(owed[c], 1, Len(outq[c])), ready)
      BY <3>1, ConnType, MatchingEnd, Zenon
    <3> QED BY <1>1, <2>2, <3>2
  <2> QED BY <2>1, <2>2
<1>3. DataTypeOk'
  <2>1. <<>> \in Seq(Packets)
    OBVIOUS
  <2>2. owed' = [owed EXCEPT ![c] = owed'[c]]
    BY <1>1 DEF RecvEnd, SendEnd, EndStream, DataInv, DataTypeOk
  <2>3. owed' \in [Conns -> Seq(Packets)]
    BY <1>2, <2>2 DEF DataInv, DataTypeOk
  <2>4. inq' \in [Conns -> Seq(Packets)]
    BY <2>1 DEF RecvEnd, SendEnd, EndStream, DataInv, DataTypeOk
  <2>5. /\ dpc' \in [Conns -> {"none", "backlog", "start", "recv", "handle", "ensure", "reply", "ended"}]
        /\ packet' \in [Conns -> Packets \cup {NoPacket}]
        /\ answer' \in [Conns -> Answers \cup {NoAnswer}]
    BY DEF RecvEnd, SendEnd, EndStream, DataInv, DataTypeOk
  <2> QED BY <1>1, <2>3, <2>4, <2>5 DEF DataInv, DataTypeOk
<1>4. \A d \in Conns \ {c} : Accounted(d)'
  BY <1>1, AccountedFrame DEF DataInv
<1>5. Handling(c)' = 0 /\ ~Handled(c)'
  BY <1>1 DEF Handled, Handling
<1>6. Accounted(c)'
  BY <1>1, <1>2, <1>5, ConnType DEF Accounted
<1> QED BY <1>3, <1>4, <1>6 DEF DataInv

(* The answer is decided on: 200 only for a range that is ready.           *)
LEMMA DataReply ==
    ASSUME DataInv, ready \subseteq ready', NEW c \in Conns,
           NEW a \in Answers, Reply(c, a), Handled(c), Fitting(a, packet[c], ready')
    PROVE  DataInv'
<1>1. /\ UNCHANGED <<packet, inq, outq, owed, closed, listening>>
      /\ dpc'[c] = "reply" /\ answer'[c] = a
      /\ \A d \in Conns \ {c} : UNCHANGED <<dpc[d], answer[d]>>
  BY DEF Reply, queueVars, DataInv, DataTypeOk
<1>2. DataTypeOk'
  BY DEF Reply, queueVars, DataInv, DataTypeOk
<1>3. \A d \in Conns \ {c} : Accounted(d)'
  BY <1>1, AccountedFrame DEF DataInv
<1>4. Handling(c) = 1 /\ Handling(c)' = 1
  BY <1>1 DEF Handled, Handling
<1>5. c \notin closed => Matching(outq[c], Handling(c), packet[c], inq[c], owed[c], ready')
  BY ConnType, MatchingGrows DEF Accounted
<1>6. Fitting(answer[c], packet[c], ready)'
  BY <1>1 DEF Fitting
<1>7. Accounted(c)'
  BY <1>1, <1>4, <1>5, <1>6, ConnType DEF Accounted
<1> QED BY <1>2, <1>3, <1>7 DEF DataInv

LEMMA DataAnswer ==
    ASSUME DataInv, UNCHANGED ready, NEW c \in Conns, AnswerMalformed(c) \/ AnswerRefused(c)
    PROVE  DataInv'
<1>1. Handled(c) /\ packet[c] \in Packets
  BY ConnType DEF AnswerMalformed, AnswerRefused, Handled, Accounted
<1>2. CASE AnswerMalformed(c)
  <2> DEFINE a == [to |-> NoId, code |-> StatusCode("BadRequest")]
  <2>1. a \in Answers /\ Fitting(a, packet[c], ready')
    BY <1>2, Codes DEF AnswerMalformed, Answers, Fitting
  <2> QED BY <1>1, <1>2, <2>1, DataReply DEF AnswerMalformed
<1>3. CASE AnswerRefused(c)
  <2> DEFINE a == [to |-> packet[c], code |-> StatusCode("NotFound")]
  <2>1. a \in Answers /\ Fitting(a, packet[c], ready')
    BY <1>1, <1>3, Codes DEF AnswerRefused, Answers, Fitting, Refused, Verbose, Malformed
  <2> QED BY <1>1, <1>3, <2>1, DataReply DEF AnswerRefused
<1> QED BY <1>2, <1>3

LEMMA DataFetch ==
    ASSUME DataInv, ready \subseteq ready', NEW c \in Conns, NEW ok \in BOOLEAN,
           AnswerFetch(c, ok), ok => packet[c] \in ready'
    PROVE  DataInv'
<1> DEFINE a == [to |-> packet[c], code |-> IF ok THEN 200 ELSE StatusCode("Remote")]
<1>1. Handled(c) /\ packet[c] \in Packets /\ packet[c] # Malformed
  BY ConnType, RangesAssumption DEF AnswerFetch, Handled, Accounted
<1>2. a \in Answers /\ Fitting(a, packet[c], ready')
  BY <1>1, Codes DEF Answers, Fitting
<1> QED BY <1>1, <1>2, DataReply DEF AnswerFetch

LEMMA DataSendAnswer ==
    ASSUME DataInv, UNCHANGED ready, NEW c \in Conns, SendAnswer(c)
    PROVE  DataInv'
<1>1. /\ UNCHANGED <<inq, owed, closed, listening>>
      /\ c \notin closed /\ dpc[c] = "reply" /\ dpc'[c] = "recv"
      /\ outq'[c] = Append(outq[c], answer[c])
      /\ \A d \in Conns \ {c} : UNCHANGED <<dpc[d], outq[d], packet[d], answer[d]>>
  BY DEF SendAnswer, Move, DataInv, DataTypeOk
<1>2. answer[c] \in Answers /\ Fitting(answer[c], packet[c], ready)
  BY <1>1, ConnType DEF Accounted
<1>3. DataTypeOk'
  BY <1>2, ConnType DEF SendAnswer, Move, DataInv, DataTypeOk
<1>4. \A d \in Conns \ {c} : Accounted(d)'
  BY <1>1, AccountedFrame DEF DataInv
<1>5. Handling(c) = 1 /\ Handling(c)' = 0 /\ ~Handled(c)'
  BY <1>1 DEF Handled, Handling
<1>6. Matching(outq'[c], 0, packet'[c], inq[c], owed[c], ready)
  <2>1. Matching(outq[c], 1, packet[c], inq[c], owed[c], ready)
    BY <1>1, <1>5, ConnType DEF Accounted
  <2>2. Matching(Append(outq[c], answer[c]), 0, packet'[c], inq[c], owed[c], ready)
    BY <1>2, <2>1, ConnType, MatchingAnswer, Zenon
  <2> QED BY <1>1, <2>2
<1>7. Accounted(c)'
  BY <1>1, <1>5, <1>6, ConnType DEF Accounted
<1> QED BY <1>3, <1>4, <1>7 DEF DataInv

LEMMA DataStill ==
    ASSUME DataInv, ready \subseteq ready', UNCHANGED dataVars
    PROVE  DataInv'
<1>1. DataTypeOk'
  BY DEF dataVars, queueVars, DataInv, DataTypeOk
<1>2. \A c \in Conns : Accounted(c)'
  BY AccountedFrame DEF dataVars, queueVars, DataInv
<1> QED BY <1>1, <1>2 DEF DataInv

LEMMA DataStream ==
    ASSUME DataInv, UNCHANGED ready, NEW c \in Conns, StreamStep(c)
    PROVE  DataInv'
BY DataMove, DataRecv, DataEnd, DataAnswer, DataSendAnswer DEF StreamStep

LEMMA DataClient ==
    ASSUME DataInv, UNCHANGED ready, NEW c \in Conns, ClientStep(c, Packets)
    PROVE  DataInv'
BY DataMove, DataSend, DataReceive, DataClose DEF ClientStep

-----------------------------------------------------------------------------
(* The control plane: what is known of a call once it is handled.          *)

CallKnown(k) ==
    /\ kpc[k] # "none" => call[k] \in Calls
    /\ kpc[k] = "none" => got[k] = 0 /\ ~cut[k]
    /\ kpc[k] = "ensure" => call[k].op = "ensure" /\ got[k] = Size(k)
    /\ kpc[k] \in {"handle", "ensure", "respond"} =>
          (call[k].length = call[k].body /\ got[k] < Size(k) => cut[k])
    /\ kpc[k] = "respond" /\ call[k].op = "ensure" /\ status[k] = 204 =>
          got[k] = Size(k) /\ call[k].range \in ready

ControlInv == ControlTypeOk /\ \A k \in Ctrls : CallKnown(k)

LEMMA ControlInvInit == Init => ControlInv
BY DEF Init, ControlInit, ControlInv, ControlTypeOk, CallKnown

LEMMA CallFrame ==
    ASSUME NEW k \in Ctrls, CallKnown(k), ready \subseteq ready',
           UNCHANGED <<kpc[k], call[k], got[k], cut[k], status[k]>>
    PROVE  CallKnown(k)'
BY DEF CallKnown, Size

(* A call in Calls is a finite number of pieces.                           *)
LEMMA CallType ==
    ASSUME ControlInv, NEW k \in Ctrls
    PROVE  /\ CallKnown(k) /\ got[k] \in Nat
           /\ kpc[k] # "none" =>
                 /\ call[k] \in Calls /\ Size(k) \in Nat
                 /\ call[k].head \in Nat /\ call[k].body \in Nat /\ call[k].length \in Nat
                 /\ call[k].status \in Statuses
                 /\ Size(k) = call[k].head + call[k].body
BY CallsAssumption DEF ControlInv, ControlTypeOk, CallKnown, Size

(* A read of n pieces: the call is handled only if n reach Content-Length. *)
LEMMA ControlRead ==
    ASSUME ControlInv, UNCHANGED ready, NEW k \in Ctrls, ReadHead(k) \/ ReadBody(k)
    PROVE  ControlInv'
<1>1. kpc[k] \in {"head", "body"} /\ UNCHANGED <<call, cut, status>>
  BY DEF ReadHead, ReadBody
<1>2. PICK n \in 1 .. Size(k) :
        /\ got' = [got EXCEPT ![k] = n]
        /\ \/ kpc[k] = "head" /\ UNCHANGED kpc
           \/ kpc' = [kpc EXCEPT ![k] = AfterRead(k, n)]
  BY DEF ReadHead, ReadBody, Read, Turn
<1>3. n \in Nat
  BY <1>1, CallType
<1>4. ControlTypeOk'
  BY <1>1, <1>2, <1>3 DEF AfterRead, ControlInv, ControlTypeOk
<1>5. \A j \in Ctrls \ {k} : CallKnown(j)'
  BY <1>1, <1>2, CallFrame DEF ControlInv, ControlTypeOk
<1>6. got'[k] = n /\ kpc'[k] \in {"head", "body", "handle"}
  BY <1>1, <1>2 DEF AfterRead, ControlInv, ControlTypeOk
<1>7. kpc'[k] = "handle" => n >= call[k].head + call[k].length
  BY <1>1, <1>2, <1>3, CallType DEF AfterRead, ControlInv, ControlTypeOk
<1>8. CallKnown(k)'
  BY <1>1, <1>3, <1>6, <1>7, CallType DEF CallKnown, Size
<1> QED BY <1>4, <1>5, <1>8 DEF ControlInv

LEMMA ControlHangup ==
    ASSUME ControlInv, UNCHANGED ready, NEW k \in Ctrls, Hangup(k)
    PROVE  ControlInv'
<1>1. ControlTypeOk'
  BY DEF Hangup, Turn, ControlInv, ControlTypeOk
<1>2. \A j \in Ctrls \ {k} : CallKnown(j)'
  BY CallFrame DEF Hangup, Turn, ControlInv, ControlTypeOk
<1>3. CallKnown(k)'
  BY DEF Hangup, Turn, ControlInv, ControlTypeOk, CallKnown
<1> QED BY <1>1, <1>2, <1>3 DEF ControlInv

(* Steps that read nothing and decide on no response.                      *)
LEMMA ControlTurn ==
    ASSUME ControlInv, UNCHANGED ready, NEW k \in Ctrls,
           (\E c \in Calls : MakeCall(k, c)) \/ ReadBodyEnd(k) \/ HandleEnsure(k)
    PROVE  ControlInv'
<1>1. ControlTypeOk'
  BY DEF MakeCall, ReadBodyEnd, HandleEnsure, Turn, ControlInv, ControlTypeOk
<1>2. \A j \in Ctrls \ {k} : CallKnown(j)'
  BY CallFrame DEF MakeCall, ReadBodyEnd, HandleEnsure, Turn, ControlInv, ControlTypeOk
<1>3. CallKnown(k)'
  <2>1. CASE \E c \in Calls : MakeCall(k, c)
    BY <2>1 DEF MakeCall, Turn, ControlInv, ControlTypeOk, CallKnown
  <2>2. CASE ReadBodyEnd(k)
    BY <2>2 DEF ReadBodyEnd, Turn, ControlInv, ControlTypeOk, CallKnown
  <2>3. CASE HandleEnsure(k)
    BY <2>3 DEF HandleEnsure, BodyParses, Turn, ControlInv, ControlTypeOk, CallKnown, Size
  <2> QED BY <2>1, <2>2, <2>3
<1> QED BY <1>1, <1>2, <1>3 DEF ControlInv

LEMMA ControlRespond ==
    ASSUME ControlInv, ready \subseteq ready', NEW k \in Ctrls, NEW code \in Statuses, Respond(k, code),
           kpc[k] \in {"handle", "ensure"},
           code = 204 /\ call[k].op = "ensure" => got[k] = Size(k) /\ call[k].range \in ready'
    PROVE  ControlInv'
<1>1. ControlTypeOk'
  BY DEF Respond, Turn, ControlInv, ControlTypeOk
<1>2. \A j \in Ctrls \ {k} : CallKnown(j)'
  BY CallFrame DEF Respond, Turn, ControlInv, ControlTypeOk
<1>3. CallKnown(k)'
  BY DEF Respond, Turn, ControlInv, ControlTypeOk, CallKnown, Size
<1> QED BY <1>1, <1>2, <1>3 DEF ControlInv

LEMMA ControlCall ==
    ASSUME ControlInv, UNCHANGED ready, NEW k \in Ctrls, CallStep(k)
    PROVE  ControlInv'
<1>1. CASE HandleOther(k)
  BY <1>1, CallType, ControlRespond DEF HandleOther
<1>2. CASE HandleUnparsed(k)
  BY <1>2, Codes, ControlRespond DEF HandleUnparsed
<1> QED BY <1>1, <1>2, ControlTurn, ControlHangup DEF CallStep, WriteResponse

LEMMA ControlEnsured ==
    ASSUME ControlInv, ready \subseteq ready', NEW k \in Ctrls, NEW ok \in BOOLEAN, Ensured(k, ok),
           ok => call[k].range \in ready'
    PROVE  ControlInv'
<1>1. (IF ok THEN 204 ELSE StatusCode("Remote")) \in Statuses
  BY Codes
<1>2. got[k] = Size(k)
  BY CallType DEF Ensured, CallKnown
<1> QED BY <1>1, <1>2, Codes, ControlRespond DEF Ensured

LEMMA ControlReads ==
    ASSUME ControlInv, UNCHANGED ready, NEW k \in Ctrls, ReadStep(k)
    PROVE  ControlInv'
BY ControlRead, ControlHangup, ControlTurn DEF ReadStep, ReadHeadErr, ReadEnd

LEMMA ControlStill ==
    ASSUME ControlInv, ready \subseteq ready', UNCHANGED controlVars
    PROVE  ControlInv'
<1>1. ControlTypeOk'
  BY DEF controlVars, ControlInv, ControlTypeOk
<1>2. \A k \in Ctrls : CallKnown(k)'
  BY CallFrame DEF controlVars, ControlInv
<1> QED BY <1>1, <1>2 DEF ControlInv

-----------------------------------------------------------------------------
(* The steps of the daemon.                                                *)

PlaneInv ==
    /\ DataInv /\ ControlInv
    /\ load \in Loads /\ event \in Ranges \cup {NoEvent} /\ ready \in SUBSET Ranges

(* Whoever asked for a range is told that it is there only once it is.     *)
LEMMA PlaneFinish ==
    ASSUME PlaneInv, NEW t \in Tasks, NEW ok \in BOOLEAN, Finish(t, ok),
           ready \subseteq ready', ok => RangeOf(t) \in ready'
    PROVE  DataInv' /\ ControlInv' /\ event' \in Ranges \cup {NoEvent}
<1>1. CASE t \in Conns /\ AnswerFetch(t, ok) /\ UNCHANGED <<controlVars, event>>
  BY <1>1, DataFetch, ControlStill DEF PlaneInv, RangeOf
<1>2. CASE t \in Ctrls /\ Ensured(t, ok) /\ UNCHANGED <<dataVars, event>>
  BY <1>2, ControlEnsured, DataStill, KindsAssumption DEF PlaneInv, RangeOf
<1>3. CASE event' = NoEvent /\ UNCHANGED <<dataVars, controlVars>>
  BY <1>3, DataStill, ControlStill DEF PlaneInv
<1> QED BY <1>1, <1>2, <1>3 DEF Finish

LEMMA PlaneReadOk ==
    ASSUME PlaneInv, NEW t \in Tasks, ReadOk(t), UNCHANGED load
    PROVE  PlaneInv'
<1>1. RangeOf(t) \in Ranges
  <2>1. CASE t \in Conns
    BY <2>1, KindsAssumption DEF ReadOk, Finish, AnswerFetch, RangeOf
  <2>2. CASE t \in Ctrls
    <3>1. kpc[t] = "ensure" /\ RangeOf(t) = call[t].range
      BY <2>2, KindsAssumption DEF ReadOk, Finish, Ensured, RangeOf
    <3> QED BY <2>2, <3>1, CallType, EnsureAssumption DEF PlaneInv, CallKnown
  <2>3. CASE t = Loop
    BY <2>3, KindsAssumption DEF ReadOk, Ensuring, RangeOf, PlaneInv
  <2> QED BY <2>1, <2>2, <2>3, TasksAssumption
<1>2. ready \subseteq ready' /\ RangeOf(t) \in ready' /\ ready' \in SUBSET Ranges /\ Finish(t, TRUE)
  BY <1>1 DEF ReadOk, PlaneInv
<1> QED BY <1>2, PlaneFinish DEF PlaneInv

LEMMA PlaneProceed ==
    ASSUME PlaneInv, NEW t \in Tasks, Proceed(t), UNCHANGED load
    PROVE  PlaneInv'
<1>1. CASE t \in Conns /\ StreamStep(t) /\ UNCHANGED <<controlVars, authVars, event, ready>>
  BY <1>1, DataStream, ControlStill DEF PlaneInv
<1>2. CASE t \in Ctrls /\ CallStep(t) /\ UNCHANGED <<dataVars, authVars, event, ready>>
  BY <1>2, ControlCall, DataStill DEF PlaneInv
<1>3. CASE AlreadyReady(t)
  <2>1. Finish(t, TRUE) /\ RangeOf(t) \in ready /\ ready' = ready
    BY <1>3 DEF AlreadyReady
  <2> QED BY <2>1, PlaneFinish DEF PlaneInv
<1>4. CASE StartRead(t) \/ TokenStep(t)
  <2>1. UNCHANGED <<dataVars, controlVars, event, ready>>
    BY <1>4 DEF StartRead, TokenStep
  <2> QED BY <2>1, DataStill, ControlStill DEF PlaneInv
<1> QED BY <1>1, <1>2, <1>3, <1>4 DEF Proceed

LEMMA PlaneEnvironment ==
    ASSUME PlaneInv, Environment, UNCHANGED load
    PROVE  PlaneInv'
<1>1. /\ load.conns \subseteq Conns /\ load.packets \subseteq Packets
      /\ load.calls \subseteq Calls /\ load.events \subseteq Ranges
  BY LoadsAssumption DEF PlaneInv
<1>2. ASSUME NEW c \in Conns, ClientStep(c, load.packets), UNCHANGED <<controlVars, authVars, event, ready>>
      PROVE  PlaneInv'
  <2>1. ClientStep(c, Packets)
    BY <1>1, <1>2 DEF ClientStep
  <2> QED BY <1>2, <2>1, DataClient, ControlStill DEF PlaneInv
<1>3. CASE AcceptErr /\ UNCHANGED <<controlVars, authVars, event, ready>>
  BY <1>3, DataAcceptErr, ControlStill DEF PlaneInv
<1>4. ASSUME NEW k \in Ctrls, (\E c \in load.calls : MakeCall(k, c)) \/ ReadStep(k),
             UNCHANGED <<dataVars, authVars, event, ready>>
      PROVE  PlaneInv'
  BY <1>1, <1>4, ControlTurn, ControlReads, DataStill DEF PlaneInv
<1>5. ASSUME NEW r \in load.events, Event(r)
      PROVE  PlaneInv'
  BY <1>1, <1>5, DataStill, ControlStill DEF Event, PlaneInv
<1>6. CASE UNCHANGED <<dataVars, controlVars, event, ready>>
  BY <1>6, DataStill, ControlStill DEF PlaneInv
<1> QED BY <1>1, <1>2, <1>3, <1>4, <1>5, <1>6 DEF Environment

LEMMA PlaneNext == ASSUME PlaneInv, [Next]_vars PROVE PlaneInv'
<1>1. CASE UNCHANGED vars
  BY <1>1, DataStill, ControlStill DEF vars, PlaneInv
<1>2. ASSUME NEW t \in Tasks, ReadErr(t), UNCHANGED load
      PROVE  PlaneInv'
  <2>1. Finish(t, FALSE) /\ ready' = ready
    BY <1>2 DEF ReadErr
  <2> QED BY <1>2, <2>1, PlaneFinish DEF PlaneInv
<1>3. ASSUME NEW t \in Tasks, NetworkStep(t), UNCHANGED load
      PROVE  PlaneInv'
  BY <1>3, DataStill, ControlStill DEF NetworkStep, PlaneInv
<1> QED BY <1>1, <1>2, <1>3, PlaneProceed, PlaneReadOk, PlaneEnvironment DEF Next

LEMMA PlaneInvariant == Spec => []PlaneInv
<1>1. Init => PlaneInv
  BY DataInvInit, ControlInvInit DEF Init, PlaneInv
<1> QED BY <1>1, PlaneNext, PTL DEF Spec

(* The type invariant of a daemon of any size.                             *)
THEOREM DaemonTypeCorrect ==
    ASSUME MaxTokens \in Nat
    PROVE  Spec => []TypeOk
<1>1. PlaneInv /\ AuthInv => TypeOk
  BY DEF PlaneInv, DataInv, ControlInv, AuthInv, TypeOk
<1>2. AuthSpec => []AuthInv
  BY AuthInvInit, AuthInvNext, PTL DEF AuthSpec
<1> QED BY <1>1, <1>2, PlaneInvariant, DaemonImplementsAuth, PTL

(* However many connections pipeline however much, however large the       *)
(* queues are and whatever ends streams, fails or is read by others: each  *)
(* answer is that of the packet whose turn it is, and 200 only for a range *)
(* that is ready.                                                          *)
THEOREM AnswersInOrder == Spec => []AnswersMatch
<1>1. ASSUME PlaneInv PROVE AnswersMatch
  <2> SUFFICES ASSUME NEW c \in Conns \ closed, NEW i \in DOMAIN outq[c]
               PROVE  /\ i \in DOMAIN owed[c]
                      /\ Fitting(outq[c][i], owed[c][i], ready)
    BY DEF AnswersMatch, Fitting
  <2>1. /\ inq[c] \in Seq(Packets) /\ outq[c] \in Seq(Answers) /\ owed[c] \in Seq(Packets)
        /\ Handling(c) \in {0, 1}
        /\ Matching(outq[c], Handling(c), packet[c], inq[c], owed[c], ready)
    BY <1>1, ConnType DEF PlaneInv, Accounted
  <2>2. i \in 1 .. Len(outq[c]) /\ Len(outq[c]) <= Len(owed[c])
    BY <2>1 DEF Matching
  <2> QED BY <2>1, <2>2 DEF Matching
<1> QED BY <1>1, PlaneInvariant, PTL

(* However a call is cut into reads, and whatever its client announces:    *)
(* 204 only for a body that is all there and a range that is ready, and no *)
(* call is handled with less than it announced unless its client stopped.  *)
THEOREM CallsAreWhole == Spec => []CutAnywhere
<1>1. ASSUME PlaneInv PROVE CutAnywhere
  BY <1>1, CallType DEF PlaneInv, CallKnown, CutAnywhere
<1> QED BY <1>1, PlaneInvariant, PTL
=============================================================================
