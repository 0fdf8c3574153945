------------------------------ MODULE MCDaemon ------------------------------
(* Clients of the daemon, for TLC.                                         *)
EXTENDS Daemon

CONSTANTS c1, c2, r1, r2

Whole == [op |-> "ensure", range |-> r1, status |-> 204, head |-> 1, body |-> 1, length |-> 1]
MCCalls ==
    {Whole,
     [Whole EXCEPT !.length = 0],                                   \* no Content-Length
     [Whole EXCEPT !.length = 2],                                   \* never all sent
     [Whole EXCEPT !.op = "garbage", !.body = 0, !.length = 0],
     [Whole EXCEPT !.op = "other", !.status = 404, !.head = 3, !.body = 0, !.length = 0]}

(* A client that pipelines whatever there is, a connection beside every    *)
(* other kind of task, two connections in a process without a fanotify     *)
(* backend, and an idle one beside all kinds of calls.                     *)
MCLoads ==
    {[conns |-> {c1}, packets |-> {r1, Malformed, Verbose, Ending}, calls |-> {},
      events |-> {r1}, acceptErr |-> TRUE],
     [conns |-> {c1}, packets |-> {r1}, calls |-> {Whole},
      events |-> {r2}, acceptErr |-> FALSE],
     [conns |-> {c1, c2}, packets |-> {r1}, calls |-> {},
      events |-> {}, acceptErr |-> FALSE],
     [conns |-> {c1}, packets |-> {}, calls |-> MCCalls,
      events |-> {r1}, acceptErr |-> TRUE]}
=============================================================================
