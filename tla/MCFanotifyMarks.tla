-------------------------- MODULE MCFanotifyMarks --------------------------
(* Instances of FanotifyMarks for TLC.                                     *)
EXTENDS FanotifyMarks, TLC

CONSTANTS a, b, f1, f2, c1, c2

Lazy(f) == [file |-> f, mode |-> "fanotify"]
External(f) == [file |-> f, mode |-> "external"]

(* Each id belongs to one client, which names one file for it.             *)
OwnIds == (c1 :> {<<a, Lazy(f1)>>, <<a, External(f1)>>}) @@ (c2 :> {<<b, Lazy(f2)>>})

(* Two clients make requests about the same id and file.                   *)
SameId == [c \in Clients |-> {<<a, Lazy(f1)>>}]
=============================================================================
