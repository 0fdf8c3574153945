------------------------ MODULE PrepareImage_proofs ------------------------
(* What holds of images/prepare for any layers, clients and requests.      *)
EXTENDS PrepareImage, TLAPS

(* prepare_lock: one request is at work.                                   *)
LockHeld == \A c, d \in Clients : pc[c] \in Busy /\ pc[d] \in Busy => c = d

(* A request at work is at one of its layers; one that is over, or none,   *)
(* is at the first.                                                        *)
AtLayer ==
    \A c \in Clients :
        /\ pc[c] # "idle" => req[c] \in Requests
        /\ pc[c] \in Busy => pos[c] \in 1 .. Len(req[c].layers)
        /\ pc[c] \notin Busy => pos[c] = 1

TypeInv == TypeOk /\ LockHeld /\ AtLayer

LEMMA RequestType ==
    ASSUME NEW r \in Requests
    PROVE  /\ r.layers \in Seq(Layers) /\ Len(r.layers) \in Nat \ {0}
           /\ DOMAIN r.layers = 1 .. Len(r.layers)
           /\ \A i \in 1 .. Len(r.layers) : r.layers[i] \in Layers
           /\ r.unit \in Units \ {0} /\ r.len \in Lens
           /\ ConfigOf(r) \in Configs \ {NoConfig}
           /\ ConfigOf(r).unit = r.unit
BY RequestsAssumption DEF Units, Lens, Configs, ConfigOf, NoConfig

LEMMA NumbersType ==
    Lens \subseteq Nat /\ Units \subseteq Nat /\ 0 \in Lens /\ 0 \in Units /\ NoConfig \in Configs
BY RequestsAssumption DEF Lens, Units, Configs

(* The layer a request is at.                                              *)
LEMMA LayerType ==
    ASSUME TypeInv, NEW c \in Clients, pc[c] \in Busy
    PROVE  /\ req[c] \in Requests /\ pos[c] \in Nat \ {0}
           /\ Layer(c) \in Layers
           /\ LastLayer(c) <=> pos[c] = Len(req[c].layers)
           /\ ~LastLayer(c) => pos[c] + 1 \in 1 .. Len(req[c].layers)
BY RequestType DEF TypeInv, TypeOk, AtLayer, Busy, Layer, LastLayer

LEMMA TypeInit == Init => TypeInv
BY NumbersType DEF Init, TypeInv, TypeOk, LockHeld, AtLayer, Busy, Lens

(* An opening of a bitmap file changes the file of its layer only.         *)
LEMMA OpenBitmapType ==
    ASSUME TypeInv, NEW y \in Layers, NEW u \in Units, OpenBitmap(y, u)
    PROVE  hdr' \in [Layers -> Units] /\ ready' \in SUBSET Layers /\ lost' \in SUBSET Layers
BY DEF TypeInv, TypeOk, OpenBitmap

LEMMA OpenBitmapErrType ==
    ASSUME TypeInv, NEW y \in Layers, NEW u \in Units, OpenBitmapErr(y, u)
    PROVE  hdr' \in [Layers -> Units] /\ ready' \in SUBSET Layers /\ lost' \in SUBSET Layers
BY OpenBitmapType DEF TypeInv, TypeOk, OpenBitmapErr

LEMMA RegisteredType ==
    ASSUME TypeInv, NEW c \in Clients, pc[c] = "register", Registered(c)
    PROVE  /\ pc' = IF LastLayer(c) THEN [pc EXCEPT ![c] = "ok"] ELSE pc
           /\ pos' = [pos EXCEPT ![c] = IF LastLayer(c) THEN 1 ELSE @ + 1]
           /\ req' = req
           /\ told' \in [Layers -> Lens]
BY LayerType, RequestType DEF Registered, Busy, TypeInv, TypeOk

-----------------------------------------------------------------------------
(* Each action keeps TypeInv.                                              *)

LEMMA TypeBegin ==
    ASSUME TypeInv, NEW c \in Clients, NEW r \in Requests, Begin(c, r)
    PROVE  TypeInv'
BY RequestType DEF Begin, TypeInv, TypeOk, LockHeld, AtLayer, Busy, fileVars

LEMMA TypeFile ==
    ASSUME TypeInv, NEW c \in Clients, MakeFile(c) \/ RefuseFile(c)
    PROVE  TypeInv'
<1>1. CASE MakeFile(c)
  BY <1>1, LayerType, RequestType DEF MakeFile, Goto, TypeInv, TypeOk, LockHeld, AtLayer, Busy
<1>2. CASE RefuseFile(c)
  BY <1>2 DEF RefuseFile, Refuse, TypeInv, TypeOk, LockHeld, AtLayer, Busy, fileVars
<1> QED BY <1>1, <1>2

LEMMA TypeBitmap ==
    ASSUME TypeInv, NEW c \in Clients, MakeBitmap(c)
    PROVE  TypeInv'
<1>1. pc[c] \in Busy
  BY DEF MakeBitmap, Goto, Busy
<1>2. hdr' \in [Layers -> Units] /\ ready' \in SUBSET Layers /\ lost' \in SUBSET Layers
  BY <1>1, LayerType, RequestType, OpenBitmapType DEF MakeBitmap
<1>3. TypeOk'
  BY <1>2, NumbersType DEF MakeBitmap, Goto, TypeInv, TypeOk, Busy
<1>4. LockHeld' /\ AtLayer'
  BY <1>1, LayerType, RequestType DEF MakeBitmap, Goto, TypeInv, TypeOk, LockHeld, AtLayer, Busy
<1> QED BY <1>3, <1>4 DEF TypeInv

LEMMA TypeRegister ==
    ASSUME TypeInv, NEW c \in Clients, RegisterNew(c) \/ RegisterSame(c)
    PROVE  TypeInv'
<1>1. pc[c] = "register" /\ pc[c] \in Busy /\ Registered(c)
  BY DEF RegisterNew, RegisterSame, Busy
<1>2. Layer(c) \in Layers /\ req[c] \in Requests
  BY <1>1, LayerType
<1>3. /\ hdr' \in [Layers -> Units] /\ ready' \in SUBSET Layers /\ lost' \in SUBSET Layers
      /\ table' \in [Layers -> Configs] /\ memory' \in SUBSET Layers
      /\ UNCHANGED <<len, data, removed>>
  <2>1. CASE RegisterNew(c)
    <3>1. hdr' \in [Layers -> Units] /\ ready' \in SUBSET Layers /\ lost' \in SUBSET Layers
      BY <1>2, <2>1, RequestType, OpenBitmapType DEF RegisterNew
    <3> QED BY <1>2, <2>1, <3>1, RequestType DEF RegisterNew, TypeInv, TypeOk
  <2>2. CASE RegisterSame(c)
    BY <2>2 DEF RegisterSame, fileVars, TypeInv, TypeOk
  <2> QED BY <2>1, <2>2
<1>4. TypeOk'
  BY <1>1, <1>3, RegisteredType DEF TypeInv, TypeOk, Busy
<1>5. LockHeld'
  BY <1>1, RegisteredType DEF TypeInv, TypeOk, LockHeld, Busy
<1>6. AtLayer'
  <2>1. /\ LastLayer(c) => pc'[c] = "ok" /\ pos'[c] = 1
        /\ ~LastLayer(c) => pc'[c] = "register" /\ pos'[c] \in 1 .. Len(req[c].layers)
    BY <1>1, RegisteredType, LayerType DEF TypeInv, TypeOk
  <2>2. \A d \in Clients \ {c} : pc'[d] = pc[d] /\ pos'[d] = pos[d]
    BY <1>1, RegisteredType DEF TypeInv, TypeOk
  <2>3. req' = req
    BY <1>1, RegisteredType
  <2> QED BY <1>2, <2>1, <2>2, <2>3 DEF TypeInv, AtLayer, Busy
<1> QED BY <1>4, <1>5, <1>6 DEF TypeInv

LEMMA TypeRefused ==
    ASSUME TypeInv, NEW c \in Clients, RefuseBitmap(c) \/ RegisterConflict(c) \/ RegisterErr(c)
    PROVE  TypeInv'
<1>1. pc[c] \in Busy /\ Refuse(c)
  BY DEF RefuseBitmap, RegisterConflict, RegisterErr, Busy
<1>2. hdr' \in [Layers -> Units] /\ ready' \in SUBSET Layers /\ lost' \in SUBSET Layers
  BY <1>1, LayerType, RequestType, OpenBitmapErrType
     DEF RefuseBitmap, RegisterConflict, RegisterErr, fileVars, TypeInv, TypeOk
<1>3. UNCHANGED <<len, data, table, memory, told, removed>>
  BY DEF RefuseBitmap, RegisterConflict, RegisterErr, fileVars
<1> QED BY <1>1, <1>2, <1>3 DEF Refuse, TypeInv, TypeOk, LockHeld, AtLayer, Busy

LEMMA TypeInstance ==
    ASSUME TypeInv, NEW y \in Layers, Ensure(y) \/ Unregister(y)
    PROVE  TypeInv'
<1>1. CASE Ensure(y)
  BY <1>1 DEF Ensure, clientVars, TypeInv, TypeOk, LockHeld, AtLayer
<1>2. CASE Unregister(y)
  BY <1>2, NumbersType DEF Unregister, fileVars, clientVars, TypeInv, TypeOk, LockHeld, AtLayer
<1> QED BY <1>1, <1>2

LEMMA TypeCrash == ASSUME TypeInv, Crash PROVE TypeInv'
BY NumbersType DEF Crash, fileVars, TypeInv, TypeOk, LockHeld, AtLayer, Busy

LEMMA TypeNext == ASSUME TypeInv, [Next]_vars PROVE TypeInv'
<1>1. CASE UNCHANGED vars
  BY <1>1 DEF vars, fileVars, clientVars, TypeInv, TypeOk, LockHeld, AtLayer
<1> QED BY <1>1, TypeBegin, TypeFile, TypeBitmap, TypeRegister, TypeRefused, TypeInstance, TypeCrash
        DEF Next, Prepare

LEMMA TypeInvariant == Spec => []TypeInv
BY TypeInit, TypeNext, PTL DEF Spec

(* The type invariant of PrepareImage.  What it rests on is prepare_lock,  *)
(* and that a request steps from layer to layer without leaving its list.  *)
THEOREM TypeCorrect == Spec => []TypeOk
<1>1. TypeInv => TypeOk
  BY DEF TypeInv
<1> QED BY <1>1, TypeInvariant, PTL
-----------------------------------------------------------------------------
(* No file gets shorter, and those a request has been at are as long as it *)
(* asks for, to the response.                                              *)

MadeInv ==
    \A c \in Clients : pc[c] \in Busy =>
        \A i \in 1 .. Len(req[c].layers) :
            \/ i < pos[c]
            \/ i = pos[c] /\ pc[c] = "bitmap"
            \/ pc[c] = "register"
            => req[c].len <= len[req[c].layers[i]]

LEMMA FilesGrow ==
    ASSUME TypeInv, [Next]_vars, NEW y \in Layers
    PROVE  len[y] \in Nat /\ len'[y] \in Nat /\ len[y] <= len'[y]
<1>1. len[y] \in Nat /\ len'[y] \in Nat
  BY TypeNext, NumbersType DEF TypeInv, TypeOk
<1>2. CASE \E c \in Clients : MakeFile(c)
  BY <1>1, <1>2 DEF MakeFile, TypeInv, TypeOk
<1>3. CASE UNCHANGED len
  BY <1>1, <1>3
<1> QED BY <1>2, <1>3 DEF Next, Prepare, vars, fileVars, Begin, RefuseFile, MakeBitmap, RegisterNew,
           RefuseBitmap, RegisterSame, RegisterConflict, RegisterErr, Ensure, Unregister, Crash

(* A request adds the layer it has made a file for, and drops none.        *)
LEMMA MadeNext ==
    ASSUME TypeInv, MadeInv, [Next]_vars
    PROVE  MadeInv'
<1> SUFFICES ASSUME NEW c \in Clients, pc'[c] \in Busy,
                    NEW i \in 1 .. Len(req'[c].layers),
                    \/ i < pos'[c]
                    \/ i = pos'[c] /\ pc'[c] = "bitmap"
                    \/ pc'[c] = "register"
             PROVE  req'[c].len <= len'[req'[c].layers[i]]
  BY DEF MadeInv
<1>1. TypeInv' /\ req'[c] \in Requests /\ req'[c].layers[i] \in Layers /\ req'[c].len \in Nat
  BY TypeNext, RequestType, RequestsAssumption DEF TypeInv, AtLayer, Busy
<1> DEFINE Made == req[c].len <= len[req[c].layers[i]]
<1>2. (req'[c] = req[c] /\ Made) => req'[c].len <= len'[req'[c].layers[i]]
  BY <1>1, FilesGrow
<1>3. ASSUME UNCHANGED <<pc[c], req[c], pos[c]>>
      PROVE  req'[c] = req[c] /\ Made
  BY <1>3 DEF MadeInv
<1>4. ASSUME NEW r \in Requests, Begin(c, r)
      PROVE  FALSE
  <2>1. pc'[c] = "file" /\ pos'[c] = 1
    BY <1>4 DEF Begin, TypeInv, TypeOk, AtLayer
  <2> QED BY <2>1
<1>5. ASSUME MakeFile(c)
      PROVE  req'[c].len <= len'[req'[c].layers[i]]
  <2>1. pc[c] = "file" /\ pc'[c] = "bitmap" /\ UNCHANGED <<req, pos>> /\ i <= pos[c]
    BY <1>1, <1>5 DEF MakeFile, Goto, TypeInv, TypeOk
  <2>2. CASE i < pos[c]
    BY <1>2, <2>1, <2>2 DEF MadeInv, Busy
  <2>3. CASE i = pos[c]
    BY <1>1, <1>5, <2>1, <2>3 DEF MakeFile, Layer, TypeInv, TypeOk
  <2> QED BY <2>1, <2>2, <2>3, <1>1 DEF TypeInv, TypeOk
<1>6. ASSUME MakeBitmap(c)
      PROVE  req'[c] = req[c] /\ Made
  <2>1. pc[c] = "bitmap" /\ req'[c] = req[c]
    BY <1>6 DEF MakeBitmap, Goto
  <2>2. i <= pos[c]
    BY <1>6, <2>1, <1>1, LayerType DEF MakeBitmap, Goto, TypeInv, TypeOk, Busy
  <2> QED BY <2>1, <2>2, LayerType DEF MadeInv, Busy
<1>7. ASSUME RegisterNew(c) \/ RegisterSame(c)
      PROVE  req'[c] = req[c] /\ Made
  BY <1>7, RegisteredType DEF RegisterNew, RegisterSame, MadeInv, Busy
<1>8. ASSUME RefuseFile(c) \/ RefuseBitmap(c) \/ RegisterConflict(c) \/ RegisterErr(c)
      PROVE  FALSE
  BY <1>8 DEF RefuseFile, RefuseBitmap, RegisterConflict, RegisterErr, Refuse, TypeInv, TypeOk, Busy
<1>9. CASE \E d \in Clients : Prepare(d)
  <2> PICK d \in Clients : Prepare(d)
    BY <1>9
  <2>1. CASE d = c
    BY <2>1, <1>2, <1>4, <1>5, <1>6, <1>7, <1>8 DEF Prepare
  <2>2. CASE d # c
    <3>1. CASE RegisterNew(d) \/ RegisterSame(d)
      BY <3>1, <2>2, <1>2, <1>3, RegisteredType DEF RegisterNew, RegisterSame, TypeInv, TypeOk
    <3>2. CASE ~(RegisterNew(d) \/ RegisterSame(d))
      <4>1. UNCHANGED <<pc[c], req[c], pos[c]>>
        BY <3>2, <2>2 DEF Prepare, Begin, MakeFile, RefuseFile, Refuse, MakeBitmap, RefuseBitmap,
           RegisterConflict, RegisterErr, Goto, TypeInv, TypeOk
      <4> QED BY <4>1, <1>2, <1>3
    <3> QED BY <3>1, <3>2
  <2> QED BY <2>1, <2>2
<1>10. CASE \/ UNCHANGED vars
            \/ \E y \in Layers : Ensure(y) \/ Unregister(y)
  BY <1>10, <1>2, <1>3 DEF vars, clientVars, Ensure, Unregister
<1>11. CASE Crash
  BY <1>11 DEF Crash, Busy
<1> QED BY <1>9, <1>10, <1>11 DEF Next

(* A length that some response gave is a length the file keeps: whatever   *)
(* else is prepared, refused, registered or removed, and however often the *)
(* process is restarted, the guest maps nothing past the end of the file.  *)
THEOREM FilesCoverPmem == Spec => []FileCoversPmem
<1> DEFINE Inv == TypeInv /\ MadeInv /\ FileCoversPmem
<1>1. Init => Inv
  BY TypeInit DEF Init, MadeInv, FileCoversPmem, Busy
<1>2. ASSUME Inv, [Next]_vars
      PROVE  Inv'
  <2>1. TypeInv' /\ MadeInv'
    BY <1>2, TypeNext, MadeNext
  <2>2. told \in [Layers -> Nat] /\ told' \in [Layers -> Nat]
    BY <1>2, <2>1, NumbersType DEF TypeInv, TypeOk
  <2>3. ASSUME NEW y \in Layers
        PROVE  told'[y] <= len'[y]
    <3>1. CASE told'[y] = told[y]
      BY <1>2, <3>1, <2>2, FilesGrow DEF FileCoversPmem
    <3>2. CASE \E c \in Clients : (RegisterNew(c) \/ RegisterSame(c)) /\ told'[y] # told[y]
      <4> PICK c \in Clients : (RegisterNew(c) \/ RegisterSame(c)) /\ told'[y] # told[y]
        BY <3>2
      <4>1. pc[c] = "register" /\ Registered(c) /\ UNCHANGED len
        BY DEF RegisterNew, RegisterSame, fileVars
      <4>2. PICK i \in DOMAIN req[c].layers : req[c].layers[i] = y /\ told'[y] = req[c].len
        BY <4>1 DEF Registered, TypeInv, TypeOk
      <4>3. i \in 1 .. Len(req[c].layers)
        BY <1>2, <4>1, <4>2, RequestType DEF TypeInv, AtLayer
      <4> QED BY <1>2, <4>1, <4>2, <4>3 DEF MadeInv, Busy
    <3> QED BY <1>2, <3>1, <3>2 DEF Next, Prepare, vars, Begin, MakeFile, RefuseFile, MakeBitmap,
               RefuseBitmap, RegisterConflict, RegisterErr, Ensure, Unregister, Crash
  <2> QED BY <2>1, <2>3 DEF FileCoversPmem
<1> QED BY <1>1, <1>2, PTL DEF Spec
-----------------------------------------------------------------------------
(* A request that is registering or answered finds each layer it has been  *)
(* at registered as it asked, or removed since it began.                   *)

Kept(c, y) == table[y] = ConfigOf(req[c]) \/ y \in removed[c]

RegisteredInv ==
    \A c \in Clients : pc[c] \in {"register", "ok"} =>
        \A i \in 1 .. Len(req[c].layers) :
            i < pos[c] \/ pc[c] = "ok" => Kept(c, req[c].layers[i])

(* Nobody registers a layer anew while it is registered.                   *)
LEMMA KeptNext ==
    ASSUME TypeInv, [Next]_vars, ~Crash, NEW c \in Clients, req[c] \in Requests, req'[c] = req[c],
           ~\E r \in Requests : Begin(c, r), NEW y \in Layers, Kept(c, y)
    PROVE  Kept(c, y)'
<1>1. CASE \E d \in Clients : RegisterNew(d)
  <2> PICK d \in Clients : RegisterNew(d)
    BY <1>1
  <2>1. ~Live(Layer(d)) /\ table' = [table EXCEPT ![Layer(d)] = ConfigOf(req[d])] /\ removed' = removed
    BY DEF RegisterNew
  <2>2. table[y] = ConfigOf(req[c]) => y # Layer(d)
    BY <2>1, RequestType DEF Live
  <2> QED BY <2>1, <2>2 DEF Kept, TypeInv, TypeOk
<1>2. CASE \E z \in Layers : Unregister(z)
  BY <1>2 DEF Unregister, Kept, TypeInv, TypeOk
<1>3. CASE UNCHANGED <<table, removed>>
  BY <1>3 DEF Kept
<1>4. CASE \E d \in Clients \ {c}, r \in Requests : Begin(d, r)
  BY <1>4 DEF Begin, Kept, TypeInv, TypeOk
<1> QED BY <1>1, <1>2, <1>3, <1>4 DEF Next, Prepare, vars, MakeFile, RefuseFile, MakeBitmap,
           RefuseBitmap, RegisterSame, RegisterConflict, RegisterErr, Ensure

LEMMA RegisteredNext ==
    ASSUME TypeInv, RegisteredInv, [Next]_vars
    PROVE  RegisteredInv'
<1> SUFFICES ASSUME NEW c \in Clients, pc'[c] \in {"register", "ok"},
                    NEW i \in 1 .. Len(req'[c].layers), i < pos'[c] \/ pc'[c] = "ok"
             PROVE  Kept(c, req[c].layers[i])'
  BY DEF RegisteredInv
<1> DEFINE y == req[c].layers[i]
<1>1. TypeInv' /\ req'[c] \in Requests /\ req'[c].layers[i] \in Layers
  BY TypeNext, RequestType DEF TypeInv, AtLayer, Busy
<1>2. ~Crash /\ ~\E r \in Requests : Begin(c, r)
  BY DEF Crash, Begin, TypeInv, TypeOk
<1>3. (req'[c] = req[c] /\ Kept(c, y)) => Kept(c, y)'
  BY <1>1, <1>2, KeptNext
<1>4. ASSUME UNCHANGED <<pc[c], req[c], pos[c]>>
      PROVE  Kept(c, y)'
  BY <1>3, <1>4 DEF RegisteredInv
<1>5. ASSUME RegisterNew(c) \/ RegisterSame(c)
      PROVE  Kept(c, y)'
  <2>1. pc[c] = "register" /\ pc[c] \in Busy /\ Registered(c)
    BY <1>5 DEF RegisterNew, RegisterSame, Busy
  <2>2. /\ req' = req /\ i <= pos[c]
        /\ pos[c] \in Nat
    BY <1>1, <2>1, RegisteredType, LayerType DEF TypeInv, TypeOk
  <2>3. CASE i < pos[c]
    BY <1>3, <2>1, <2>2, <2>3 DEF RegisteredInv
  <2>4. CASE i = pos[c]
    <3>1. Layer(c) = y /\ Layer(c) \in Layers
      BY <2>1, <2>4, LayerType DEF Layer
    <3>2. table'[y] = ConfigOf(req[c])
      BY <1>5, <3>1 DEF RegisterNew, RegisterSame, TypeInv, TypeOk
    <3> QED BY <2>2, <3>2 DEF Kept
  <2> QED BY <2>2, <2>3, <2>4
<1>6. ASSUME MakeBitmap(c)
      PROVE  FALSE
  <2>1. pos'[c] = 1 /\ pc'[c] = "register"
    BY <1>6 DEF MakeBitmap, Goto, TypeInv, TypeOk
  <2> QED BY <2>1
<1>7. ASSUME MakeFile(c) \/ RefuseFile(c) \/ RefuseBitmap(c) \/ RegisterConflict(c) \/ RegisterErr(c)
      PROVE  FALSE
  BY <1>7 DEF MakeFile, Goto, RefuseFile, RefuseBitmap, RegisterConflict, RegisterErr, Refuse, TypeInv, TypeOk
<1>8. CASE \E d \in Clients : Prepare(d)
  <2> PICK d \in Clients : Prepare(d)
    BY <1>8
  <2>1. CASE d = c
    BY <2>1, <1>2, <1>5, <1>6, <1>7 DEF Prepare
  <2>2. CASE d # c
    <3>1. CASE RegisterNew(d) \/ RegisterSame(d)
      BY <3>1, <2>2, <1>4, RegisteredType DEF RegisterNew, RegisterSame, TypeInv, TypeOk
    <3>2. CASE ~(RegisterNew(d) \/ RegisterSame(d))
      <4>1. UNCHANGED <<pc[c], req[c], pos[c]>>
        BY <3>2, <2>2 DEF Prepare, Begin, MakeFile, RefuseFile, Refuse, MakeBitmap, RefuseBitmap,
           RegisterConflict, RegisterErr, Goto, TypeInv, TypeOk
      <4> QED BY <4>1, <1>4
    <3> QED BY <3>1, <3>2
  <2> QED BY <2>1, <2>2
<1>9. CASE \/ UNCHANGED vars
           \/ \E z \in Layers : Ensure(z) \/ Unregister(z)
  BY <1>9, <1>4 DEF vars, clientVars, Ensure, Unregister
<1> QED BY <1>2, <1>8, <1>9 DEF Next

(* Whatever other requests, removals and fetches are under way, a request  *)
(* that is answered has registered every layer it names, as it asked.      *)
THEOREM AnswersRegister == Spec => []AnsweredIsRegistered
<1>1. Init => TypeInv /\ RegisteredInv
  BY TypeInit DEF Init, RegisteredInv
<1>2. TypeInv /\ RegisteredInv /\ [Next]_vars => (TypeInv /\ RegisteredInv)'
  BY TypeNext, RegisteredNext
<1>3. TypeInv /\ RegisteredInv => AnsweredIsRegistered
  BY RequestType DEF TypeInv, AtLayer, RegisteredInv, Kept, AnsweredIsRegistered, Busy
<1> QED BY <1>1, <1>2, <1>3, PTL DEF Spec

-----------------------------------------------------------------------------
(* One fetch unit for every request, as in the run PrepareAgain.  With two *)
(* of them the theorems below are false: PrepareUnits.                     *)
OneUnit == \A r, s \in Requests : r.unit = s.unit

(* No range is ready without its data, in memory without being so in the   *)
(* file unless a failed read took it out, or in a file with another unit.  *)
UnitInv ==
    /\ ready \subseteq data /\ memory \subseteq ready \cup lost
    /\ \A y \in ready : \E r \in Requests : hdr[y] = r.unit
    /\ \A y \in Layers : Live(y) => hdr[y] = table[y].unit

(* A step keeps that, and takes no readiness but what it could not read.   *)
FileKept == UnitInv' /\ ready \ ready' \subseteq lost'

(* An opening takes nothing away but what it could not read.               *)
LEMMA OpenKeeps ==
    ASSUME OneUnit, TypeInv, UnitInv, NEW r \in Requests, NEW y \in Layers, OpenBitmapErr(y, r.unit)
    PROVE  /\ ready' \subseteq ready /\ ready \ ready' \subseteq lost' /\ lost \subseteq lost'
           /\ hdr' = hdr \/ hdr' = [hdr EXCEPT ![y] = r.unit]
           /\ \A z \in ready : \E s \in Requests : hdr'[z] = s.unit
           /\ \A z \in Layers : Live(z) => hdr'[z] = table[z].unit
<1>1. \A z \in ready : hdr[z] = r.unit
  BY DEF OneUnit, UnitInv
<1>2. ready' \subseteq ready /\ ready \ ready' \subseteq lost' /\ lost \subseteq lost'
  BY <1>1 DEF OpenBitmapErr, OpenBitmap, UnitInv
<1>3. hdr' = hdr \/ hdr' = [hdr EXCEPT ![y] = r.unit]
  BY DEF OpenBitmapErr, OpenBitmap
<1>4. \A z \in Layers : Live(z) => table[z].unit = r.unit
  BY DEF OneUnit, TypeInv, TypeOk, Live, Configs, ConfigOf
<1> QED BY <1>1, <1>2, <1>3, <1>4 DEF UnitInv, TypeInv, TypeOk

LEMMA UnitNext ==
    ASSUME OneUnit, TypeInv, UnitInv, [Next]_vars
    PROVE  FileKept
<1> USE DEF FileKept
<1>1. ASSUME NEW c \in Clients, MakeBitmap(c) \/ RefuseBitmap(c) \/ RegisterErr(c)
      PROVE  FileKept
  <2>1. pc[c] \in Busy /\ req[c] \in Requests /\ Layer(c) \in Layers
    BY <1>1, LayerType DEF MakeBitmap, RefuseBitmap, RegisterErr, Goto, Busy
  <2>2. OpenBitmapErr(Layer(c), req[c].unit) /\ UNCHANGED <<data, table, memory>>
    BY <1>1 DEF MakeBitmap, RefuseBitmap, RegisterErr, OpenBitmapErr
  <2> QED BY <2>1, <2>2, OpenKeeps DEF UnitInv, Live
<1>2. ASSUME NEW c \in Clients, RegisterNew(c)
      PROVE  FileKept
  <2>1. pc[c] \in Busy /\ req[c] \in Requests /\ Layer(c) \in Layers
    BY <1>2, LayerType DEF RegisterNew, Busy
  <2>2. OpenBitmapErr(Layer(c), req[c].unit) /\ hdr'[Layer(c)] = req[c].unit
    BY <1>2, <2>1 DEF RegisterNew, OpenBitmapErr, OpenBitmap, TypeInv, TypeOk
  <2>3. /\ ready' \subseteq ready /\ ready \ ready' \subseteq lost' /\ lost \subseteq lost'
        /\ \A z \in ready : \E s \in Requests : hdr'[z] = s.unit
        /\ \A z \in Layers : Live(z) => hdr'[z] = table[z].unit
    BY <2>1, <2>2, OpenKeeps
  <2>4. \A z \in Layers : Live(z)' => hdr'[z] = table'[z].unit
    BY <1>2, <2>1, <2>2, <2>3 DEF RegisterNew, ConfigOf, Live, TypeInv, TypeOk
  <2> QED BY <1>2, <2>3, <2>4 DEF RegisterNew, UnitInv
<1>3. ASSUME NEW y \in Layers, Ensure(y)
      PROVE  FileKept
  <2>1. \E r \in Requests : hdr[y] = r.unit
    BY <1>3 DEF Ensure, UnitInv, Live, TypeInv, TypeOk, Configs, ConfigOf
  <2> QED BY <1>3, <2>1 DEF Ensure, UnitInv, Live
<1>4. ASSUME NEW y \in Layers, Unregister(y)
      PROVE  FileKept
  BY <1>4 DEF Unregister, fileVars, UnitInv, Live, TypeInv, TypeOk
<1>5. CASE Crash
  BY <1>5 DEF Crash, fileVars, UnitInv, Live
<1>6. CASE UNCHANGED <<hdr, ready, lost, data, table, memory>>
  BY <1>6 DEF UnitInv, Live
<1> QED BY <1>1, <1>2, <1>3, <1>4, <1>5, <1>6 DEF Next, Prepare, vars, fileVars, Begin, MakeFile,
           RefuseFile, RegisterSame, RegisterConflict

LEMMA UnitInit == Init => UnitInv
BY DEF Init, UnitInv, Live

(* With one fetch unit, a preparation that finds a live instance leaves    *)
(* its bitmap file as it is, though it opens it again, unless the file     *)
(* cannot be read: then only the instance's memory has what was ready.     *)
THEOREM LiveBitmapsAreOwn == ASSUME OneUnit PROVE Spec => []LiveBitmapIsOwn
<1>1. UnitInv => LiveBitmapIsOwn
  BY DEF UnitInv, LiveBitmapIsOwn
<1>2. TypeInv /\ UnitInv /\ [Next]_vars => UnitInv'
  BY UnitNext DEF FileKept
<1> QED BY <1>1, <1>2, TypeInit, TypeNext, UnitInit, PTL DEF Spec

(* With one fetch unit, no preparation, refusal, removal or restart takes  *)
(* back a range that was ready, whatever fails on the way, except that an  *)
(* opening which cannot read the bitmap file starts it anew.               *)
THEOREM ReadinessIsKept == ASSUME OneUnit PROVE Spec => KeepsReadiness
<1>1. TypeInv /\ UnitInv /\ [Next]_vars => [ready \ ready' \subseteq lost']_vars /\ UnitInv'
  BY UnitNext DEF FileKept
<1> QED BY <1>1, TypeInit, TypeNext, UnitInit, PTL DEF Spec, KeepsReadiness
=============================================================================
