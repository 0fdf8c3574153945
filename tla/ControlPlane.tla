---------------------------- MODULE ControlPlane ----------------------------
(***************************************************************************)
(* One HTTP call per connection on the control socket (src/control.rs):    *)
(* the daemon reads the head and then as much of the body as               *)
(* Content-Length announces, in reads that may cut the stream anywhere,    *)
(* handles the call, writes a response and closes.  A stream is counted in *)
(* pieces, head first.  The calls that register, remove and prepare are    *)
(* modelled where their effects are; here they only have a status.         *)
(***************************************************************************)
EXTENDS Errors

CONSTANTS
    Ctrls,      \* connections to the control socket
    Calls,      \* what their clients send
    NoCall,
    MaxHead     \* pieces without an end of the head that are too many

ASSUME NoCallAssumption == NoCall \notin Calls

(* A call has an operation, the range it asks for or else the status it is *)
(* answered with, the pieces of its head and of its body, and the          *)
(* Content-Length in its head, 0 without one.                              *)
Operations ==
    {"ensure",      \* POST .../ranges/ensure of a registered instance
     "other",       \* any other
     "garbage"}     \* a head that is no HTTP

ASSUME CallsAssumption ==
    \A c \in Calls :
        /\ c.op \in Operations /\ c.status \in Statuses
        /\ c.head \in Nat \ {0} /\ c.body \in Nat /\ c.length \in Nat

VARIABLES
    kpc,        \* where each connection is in handle_stream
    call,       \* the call its client makes
    got,        \* pieces of it that read_request has read
    cut,        \* whether the client has stopped sending before the end
    status      \* the status of the response, 0 before there is one

controlVars == <<kpc, call, got, cut, status>>

ControlTypeOk ==
    /\ kpc \in [Ctrls -> {"none", "head", "body", "handle", "ensure", "respond"}]
    /\ call \in [Ctrls -> Calls \cup {NoCall}]
    /\ got \in [Ctrls -> Nat] /\ cut \in [Ctrls -> BOOLEAN]
    /\ status \in [Ctrls -> Statuses \cup {0}]

ControlInit ==
    /\ kpc = [k \in Ctrls |-> "none"]
    /\ call = [k \in Ctrls |-> NoCall]
    /\ got = [k \in Ctrls |-> 0] /\ cut = [k \in Ctrls |-> FALSE]
    /\ status = [k \in Ctrls |-> 0]

Size(k) == call[k].head + call[k].body

Turn(k, to) == kpc' = [kpc EXCEPT ![k] = to]

(* The stream is dropped, with a response or without.                      *)
Hangup(k) ==
    /\ Turn(k, "none")
    /\ call' = [call EXCEPT ![k] = NoCall]
    /\ got' = [got EXCEPT ![k] = 0] /\ cut' = [cut EXCEPT ![k] = FALSE]
    /\ status' = [status EXCEPT ![k] = 0]

-----------------------------------------------------------------------------
(* A client connects.                                                      *)
MakeCall(k, c) ==
    /\ kpc[k] = "none"
    /\ Turn(k, "head")
    /\ call' = [call EXCEPT ![k] = c]
    /\ UNCHANGED <<got, cut, status>>

-----------------------------------------------------------------------------
(* read_request.                                                           *)

(* What one read may return, once the client has sent it.                  *)
Read(k, n) ==
    /\ n > got[k]
    /\ got' = [got EXCEPT ![k] = n]

(* Faulty variant: the bytes read with the end of the head are the body.   *)
HeadEndsRequest(k, n) == "handle"

(* The body is read until Content-Length is reached.                       *)
AfterRead(k, n) == IF n < call[k].head + call[k].length THEN "body" ELSE "handle"

ReadHead(k) ==
    /\ kpc[k] = "head"
    /\ \E n \in 1 .. Size(k) :
       /\ Read(k, n)
       /\ IF n < call[k].head
          THEN n <= MaxHead /\ UNCHANGED kpc
          ELSE call[k].op # "garbage" /\ Turn(k, AfterRead(k, n))
    /\ UNCHANGED <<call, cut, status>>

(* Too much without an end of the head, or a head that cannot be parsed:   *)
(* the stream is closed without a response.                                *)
ReadHeadErr(k) ==
    /\ kpc[k] = "head"
    /\ \E n \in got[k] + 1 .. Size(k) :
          IF n < call[k].head THEN n > MaxHead ELSE call[k].op = "garbage"
    /\ Hangup(k)

(* The client stops before the end of the head, or a read fails.           *)
ReadEnd(k) ==
    /\ kpc[k] \in {"head", "body"}
    /\ Hangup(k)

ReadBody(k) ==
    /\ kpc[k] = "body"
    /\ \E n \in 1 .. Size(k) : Read(k, n) /\ Turn(k, AfterRead(k, n))
    /\ UNCHANGED <<call, cut, status>>

(* The client stops before the end of the body, and the call is handled    *)
(* with what there is.                                                     *)
ReadBodyEnd(k) ==
    /\ kpc[k] = "body"
    /\ Turn(k, "handle")
    /\ cut' = [cut EXCEPT ![k] = TRUE]
    /\ UNCHANGED <<call, got, status>>

-----------------------------------------------------------------------------
(* handle_request and write_response.                                      *)

Respond(k, code) ==
    /\ Turn(k, "respond")
    /\ status' = [status EXCEPT ![k] = code]
    /\ UNCHANGED <<call, got, cut>>

(* Every piece of a body in JSON is needed to parse it.                    *)
BodyParses(k) == got[k] = Size(k)

HandleOther(k) ==
    /\ kpc[k] = "handle" /\ call[k].op = "other"
    /\ Respond(k, call[k].status)

HandleUnparsed(k) ==
    /\ kpc[k] = "handle" /\ call[k].op = "ensure" /\ ~BodyParses(k)
    /\ Respond(k, StatusCode("Json"))

HandleEnsure(k) ==
    /\ kpc[k] = "handle" /\ call[k].op = "ensure" /\ BodyParses(k)
    /\ Turn(k, "ensure")
    /\ UNCHANGED <<call, got, cut, status>>

(* ensure_range returns.                                                   *)
Ensured(k, ok) ==
    /\ kpc[k] = "ensure"
    /\ Respond(k, IF ok THEN 204 ELSE StatusCode("Remote"))

(* Written, or not, if the client is gone.                                 *)
WriteResponse(k) ==
    /\ kpc[k] = "respond"
    /\ Hangup(k)

-----------------------------------------------------------------------------
CallStep(k) ==
    \/ HandleOther(k) \/ HandleUnparsed(k) \/ HandleEnsure(k)
    \/ WriteResponse(k)

ReadStep(k) ==
    \/ ReadHead(k) \/ ReadHeadErr(k) \/ ReadEnd(k)
    \/ ReadBody(k) \/ ReadBodyEnd(k)
=============================================================================
