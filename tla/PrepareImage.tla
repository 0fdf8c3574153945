---------------------------- MODULE PrepareImage ----------------------------
(***************************************************************************)
(* images/prepare (src/control.rs, src/prepare.rs): a request names layers *)
(* of an image; for each, in turn, a sparse file and a bitmap file are     *)
(* made or found, and then each is registered as an external instance.     *)
(* Meanwhile ranges of live instances are filled, and instances are        *)
(* removed.  A layer stands for its digest, its cache files and its        *)
(* instance id; its data is one range, and the steps within one opening of *)
(* a bitmap file are those of RangeMap.                                    *)
(***************************************************************************)
EXTENDS Naturals, Sequences

CONSTANTS
    Layers,     \* layers, by digest
    BadLayers,  \* layers with another media type or an empty blob
    Clients,    \* callers of images/prepare
    Requests,   \* what they ask for
    NoRequest

(* A request has its layers, in order, a fetch unit, the credentials and   *)
(* image reference of the remote, and the length its files shall have.     *)
(* Requests without layers or with a unit of zero are rejected.            *)
ASSUME RequestsAssumption ==
    \A r \in Requests :
        /\ r.layers \in Seq(Layers) /\ r.layers # <<>>
        /\ r.unit \in Nat \ {0} /\ r.len \in Nat \ {0}
ASSUME NoRequestAssumption == NoRequest \notin Requests

ConfigOf(r) == [unit |-> r.unit, source |-> r.source]
NoConfig == [unit |-> 0, source |-> NoRequest]

VARIABLES
    len,        \* length of the sparse file of each layer, 0 without a file
    hdr,        \* fetch unit in the header of its bitmap file, 0 without one
    ready,      \* layers whose range is ready in the bitmap file
    data,       \* layers whose range is in the sparse file
    table,      \* the registered instances
    memory,     \* layers whose range is ready in the memory of the instance
    pc,         \* where each client's request is
    req,        \* the request
    pos,        \* the position of the layer it is at
    lost,       \* history: layers whose range was ready until a failed read
                \* of the bitmap file, and was not filled again since
    told,       \* history: the longest length a response gave for a layer
    removed     \* history: layers removed since the client's last request

fileVars == <<len, hdr, ready, data, lost>>
clientVars == <<pc, req, pos>>
vars == <<fileVars, table, memory, clientVars, told, removed>>

Lens == {0} \cup {r.len : r \in Requests}
Units == {0} \cup {r.unit : r \in Requests}
Configs == {NoConfig} \cup {ConfigOf(r) : r \in Requests}
Busy == {"file", "bitmap", "register"}

TypeOk ==
    /\ len \in [Layers -> Lens] /\ hdr \in [Layers -> Units]
    /\ ready \in SUBSET Layers /\ data \in SUBSET Layers
    /\ table \in [Layers -> Configs] /\ memory \in SUBSET Layers
    /\ pc \in [Clients -> {"idle", "ok"} \cup Busy]
    /\ req \in [Clients -> Requests \cup {NoRequest}]
    /\ pos \in [Clients -> Nat]
    /\ lost \in SUBSET Layers
    /\ told \in [Layers -> Lens]
    /\ removed \in [Clients -> SUBSET Layers]

Init ==
    /\ len = [y \in Layers |-> 0] /\ hdr = [y \in Layers |-> 0]
    /\ ready = {} /\ data = {} /\ lost = {}
    /\ table = [y \in Layers |-> NoConfig] /\ memory = {}
    /\ pc = [c \in Clients |-> "idle"]
    /\ req = [c \in Clients |-> NoRequest]
    /\ pos = [c \in Clients |-> 1]
    /\ told = [y \in Layers |-> 0]
    /\ removed = [c \in Clients |-> {}]

Live(y) == table[y] # NoConfig
Layer(c) == req[c].layers[pos[c]]
LastLayer(c) == pos[c] = Len(req[c].layers)

-----------------------------------------------------------------------------
(* The bitmap file as open_or_create leaves it.                            *)

(* Faulty variant: the file is made anew whatever its header says.         *)
OpenAnew(y, u) ==
    /\ hdr' = [hdr EXCEPT ![y] = u]
    /\ ready' = ready \ {y}
    /\ UNCHANGED lost

(* A matching header is kept, with the slots that recovery finds written;  *)
(* but if the header or the slots cannot be read, the file is made anew as *)
(* if they did not match.                                                  *)
OpenBitmap(y, u) ==
    /\ hdr' = [hdr EXCEPT ![y] = u]
    /\ \/ hdr[y] = u /\ ready' = ready \ ({y} \ data) /\ UNCHANGED lost
       \/ hdr[y] # u /\ ready' = ready \ {y} /\ UNCHANGED lost
       \/ /\ hdr[y] = u
          /\ ready' = ready \ {y}
          /\ lost' = lost \cup ({y} \cap ready)

(* An opening that fails, before it changes anything, between the header   *)
(* and the slots, or at its end.                                           *)
OpenBitmapErr(y, u) ==
    \/ UNCHANGED <<hdr, ready, lost>>
    \/ hdr' = [hdr EXCEPT ![y] = u] /\ UNCHANGED <<ready, lost>>
    \/ OpenBitmap(y, u)

-----------------------------------------------------------------------------
Goto(c, from, to) ==
    /\ pc[c] = from
    /\ pc' = [pc EXCEPT ![c] = to]

(* prepare_lock is held from here to the response.                         *)
Begin(c, r) ==
    /\ \A d \in Clients : pc[d] \notin Busy
    /\ pc' = [pc EXCEPT ![c] = "file"]
    /\ req' = [req EXCEPT ![c] = r]
    /\ removed' = [removed EXCEPT ![c] = {}]
    /\ UNCHANGED <<fileVars, table, memory, pos, told>>

Refuse(c) ==
    /\ pc' = [pc EXCEPT ![c] = "idle"]
    /\ req' = [req EXCEPT ![c] = NoRequest]
    /\ pos' = [pos EXCEPT ![c] = 1]

(* Faulty variant: a file that is too long is cut.                         *)
CutFile(c) ==
    /\ Goto(c, "file", "bitmap")
    /\ Layer(c) \notin BadLayers
    /\ len' = [len EXCEPT ![Layer(c)] = req[c].len]
    /\ UNCHANGED <<hdr, ready, data, lost, table, memory, req, pos, told, removed>>

(* create_sparse_file: a shorter file is made longer.                      *)
MakeFile(c) ==
    /\ Goto(c, "file", "bitmap")
    /\ Layer(c) \notin BadLayers
    /\ len[Layer(c)] <= req[c].len
    /\ len' = [len EXCEPT ![Layer(c)] = req[c].len]
    /\ UNCHANGED <<hdr, ready, data, lost, table, memory, req, pos, told, removed>>

(* The layer is no native EROFS layer, its file is longer than asked for,  *)
(* or the file cannot be made; the layers before it stay as they are.      *)
RefuseFile(c) ==
    /\ pc[c] = "file"
    /\ Refuse(c)
    /\ UNCHANGED <<fileVars, table, memory, told, removed>>

(* The bitmap is opened beside a live instance, and closed again; after    *)
(* the last layer the registrations begin.                                 *)
MakeBitmap(c) ==
    /\ Goto(c, "bitmap", IF LastLayer(c) THEN "register" ELSE "file")
    /\ OpenBitmap(Layer(c), req[c].unit)
    /\ pos' = [pos EXCEPT ![c] = IF LastLayer(c) THEN 1 ELSE @ + 1]
    /\ UNCHANGED <<len, data, table, memory, req, told, removed>>

RefuseBitmap(c) ==
    /\ pc[c] = "bitmap"
    /\ OpenBitmapErr(Layer(c), req[c].unit)
    /\ Refuse(c)
    /\ UNCHANGED <<len, data, table, memory, told, removed>>

(* The next layer, or the response with the lengths of all of them.        *)
Registered(c) ==
    IF LastLayer(c)
    THEN /\ pc' = [pc EXCEPT ![c] = "ok"]
         /\ pos' = [pos EXCEPT ![c] = 1]
         /\ UNCHANGED req
         /\ told' = [y \in Layers |->
                        IF \E i \in DOMAIN req[c].layers : req[c].layers[i] = y
                        THEN req[c].len ELSE told[y]]
    ELSE /\ pos' = [pos EXCEPT ![c] = @ + 1]
         /\ UNCHANGED <<pc, req, told>>

(* Faulty variant: the whole request is kept as the configuration.         *)
RegisterRequest(c) ==
    /\ pc[c] = "register"
    /\ ~Live(Layer(c))
    /\ OpenBitmap(Layer(c), req[c].unit)
    /\ table' = [table EXCEPT ![Layer(c)] = req[c]]
    /\ memory' = memory \cup ({Layer(c)} \cap ready')
    /\ Registered(c)
    /\ UNCHANGED <<len, data, removed>>

RegisterNew(c) ==
    /\ pc[c] = "register"
    /\ ~Live(Layer(c))
    /\ OpenBitmap(Layer(c), req[c].unit)
    /\ table' = [table EXCEPT ![Layer(c)] = ConfigOf(req[c])]
    /\ memory' = memory \cup ({Layer(c)} \cap ready')
    /\ Registered(c)
    /\ UNCHANGED <<len, data, removed>>

(* Faulty variant: an instance of the same id is good enough.              *)
RegisterAny(c) ==
    /\ pc[c] = "register"
    /\ Live(Layer(c))
    /\ Registered(c)
    /\ UNCHANGED <<fileVars, table, memory, removed>>

RegisterSame(c) ==
    /\ pc[c] = "register"
    /\ table[Layer(c)] = ConfigOf(req[c])
    /\ Registered(c)
    /\ UNCHANGED <<fileVars, table, memory, removed>>

(* 409: what was done for this layer and the ones before it stays.         *)
RegisterConflict(c) ==
    /\ pc[c] = "register"
    /\ Live(Layer(c)) /\ table[Layer(c)] # ConfigOf(req[c])
    /\ Refuse(c)
    /\ UNCHANGED <<fileVars, table, memory, told, removed>>

(* Instance::open fails in the file system or on the image reference.      *)
RegisterErr(c) ==
    /\ pc[c] = "register"
    /\ ~Live(Layer(c))
    /\ OpenBitmapErr(Layer(c), req[c].unit)
    /\ Refuse(c)
    /\ UNCHANGED <<len, data, table, memory, told, removed>>

-----------------------------------------------------------------------------
(* Faulty variant: the readiness is kept in memory only.                   *)
EnsureMemoryOnly(y) ==
    /\ Live(y) /\ y \notin memory
    /\ data' = data \cup {y}
    /\ memory' = memory \cup {y}
    /\ lost' = lost \ {y}
    /\ UNCHANGED <<len, hdr, ready, table, clientVars, told, removed>>

(* ensure_range on a live instance.                                        *)
Ensure(y) ==
    /\ Live(y) /\ y \notin memory
    /\ data' = data \cup {y}
    /\ ready' = ready \cup {y}
    /\ memory' = memory \cup {y}
    /\ lost' = lost \ {y}
    /\ UNCHANGED <<len, hdr, table, clientVars, told, removed>>

(* DELETE.                                                                 *)
Unregister(y) ==
    /\ Live(y)
    /\ table' = [table EXCEPT ![y] = NoConfig]
    /\ memory' = memory \ {y}
    /\ removed' = [c \in Clients |-> removed[c] \cup {y}]
    /\ UNCHANGED <<fileVars, clientVars, told>>

(* The process stops; the files stay.                                      *)
Crash ==
    /\ table' = [y \in Layers |-> NoConfig]
    /\ memory' = {}
    /\ pc' = [c \in Clients |-> "idle"]
    /\ req' = [c \in Clients |-> NoRequest]
    /\ pos' = [c \in Clients |-> 1]
    /\ removed' = [c \in Clients |-> {}]
    /\ UNCHANGED <<fileVars, told>>

-----------------------------------------------------------------------------
Prepare(c) ==
    \/ \E r \in Requests : Begin(c, r)
    \/ MakeFile(c) \/ RefuseFile(c) \/ MakeBitmap(c) \/ RefuseBitmap(c)
    \/ RegisterNew(c) \/ RegisterSame(c) \/ RegisterConflict(c) \/ RegisterErr(c)

Next ==
    \/ \E c \in Clients : Prepare(c)
    \/ \E y \in Layers : Ensure(y) \/ Unregister(y)
    \/ Crash

Spec == Init /\ [][Next]_vars
-----------------------------------------------------------------------------
(* With one fetch unit, whatever is prepared again, refused, removed or    *)
(* restarted, and with other credentials or lengths: the bitmap is reused, *)
(* and no range that was once ready has to be downloaded again, but for    *)
(* those whose bitmap could not be read at an opening (range_map.rs:67).   *)
KeepsReadiness == [][ready \ ready' \subseteq lost']_vars

(* From the answer to a request on, each of its layers is registered as it *)
(* asked, until somebody removes the layer or the process stops.           *)
AnsweredIsRegistered ==
    \A c \in Clients : pc[c] = "ok" =>
        \A i \in DOMAIN req[c].layers :
            LET y == req[c].layers[i] IN
            table[y] = ConfigOf(req[c]) \/ y \in removed[c]

(* The sparse file never gets shorter than the pmem_size some caller was   *)
(* given for it, which the guest maps.                                     *)
FileCoversPmem == \A y \in Layers : told[y] <= len[y]

(* The bitmap file of a live instance is its own: it has the header of the *)
(* instance's fetch unit, and the ranges ready in memory are ready in it,  *)
(* but for those a failed read took out of it, under the live instance.    *)
LiveBitmapIsOwn ==
    \A y \in Layers : Live(y) =>
        hdr[y] = table[y].unit /\ (y \in memory => y \in ready \cup lost)
=============================================================================
