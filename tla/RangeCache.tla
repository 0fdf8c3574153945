----------------------------- MODULE RangeCache -----------------------------
(***************************************************************************)
(* What a lazily filled cache file of one blob promises, without fetch     *)
(* units, bitmaps, reservations or restarts: a caller asks for a range and *)
(* is told "it is there" only when every block of it holds the blob, and   *)
(* what is there stays there until the machine loses power.                *)
(***************************************************************************)
EXTENDS Naturals

CONSTANTS
    Callers,    \* who asks
    Blocks,     \* the blocks of the blob
    Asked       \* the ranges that may be asked for, none of them empty

VARIABLES
    pending,    \* the range each caller waits for, {} when it does not wait
    filled,     \* the blocks that hold the blob
    told        \* the blocks some caller was told are there

cacheVars == <<pending, filled, told>>

CacheInit ==
    /\ pending = [c \in Callers |-> {}]
    /\ filled = {}
    /\ told = {}

Ask(c, R) ==
    /\ pending[c] = {}
    /\ pending' = [pending EXCEPT ![c] = R]
    /\ UNCHANGED <<filled, told>>

Fill(b) ==
    /\ filled' = filled \cup {b}
    /\ UNCHANGED <<pending, told>>

AnswerOk(c) ==
    /\ pending[c] # {}
    /\ pending[c] \subseteq filled
    /\ pending' = [pending EXCEPT ![c] = {}]
    /\ told' = told \cup pending[c]
    /\ UNCHANGED filled

AnswerErr(c) ==
    /\ pending[c] # {}
    /\ pending' = [pending EXCEPT ![c] = {}]
    /\ UNCHANGED <<filled, told>>

(* The service stops: nobody is answered, nothing that was told is undone. *)
Stop ==
    /\ pending' = [c \in Callers |-> {}]
    /\ UNCHANGED <<filled, told>>

(* The machine stops: any part of the file may be gone, with its readers.  *)
Lose ==
    /\ pending' = [c \in Callers |-> {}]
    /\ filled' \in SUBSET filled
    /\ told' = {}

CacheNext ==
    \/ \E c \in Callers : \/ \E R \in Asked : Ask(c, R)
                          \/ AnswerOk(c)
                          \/ AnswerErr(c)
    \/ \E b \in Blocks : Fill(b)
    \/ Stop
    \/ Lose

CacheSpec == CacheInit /\ [][CacheNext]_cacheVars

(* Every block a caller was told about holds the blob.                     *)
ToldIsFilled == told \subseteq filled
=============================================================================
