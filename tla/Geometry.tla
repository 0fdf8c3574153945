------------------------------ MODULE Geometry ------------------------------
(***************************************************************************)
(* The byte arithmetic of lazyd: from the size of a blob and its fetch     *)
(* unit to bitmap slots (src/range_map.rs) and to the length of its sparse *)
(* file (src/prepare.rs), from a requested range to the units that are     *)
(* fetched, from the pages of a FETCH request (src/instance.rs) or the     *)
(* range of a permission event (src/fanotify.rs) to the bytes that must be *)
(* there, and from the bytes a registry sends to those that are written    *)
(* (src/remote/oci.rs).  RangeMap and LazyInstance use the same notions on *)
(* sets of blocks; here the code's arithmetic on bounded unsigned integers *)
(* is compared with them.  Each call is looked at by itself.               *)
(***************************************************************************)
EXTENDS EventBuffer

CONSTANTS
    MaxInt,     \* largest value of the integer type, u64::MAX in the code
    MinUnit,    \* BITMAP_UNIT_BYTES, the smallest fetch unit
    Pages,      \* page sizes of the host
    Aligns,     \* pmem.alignment_bytes of a preparation
    Window,     \* DEFAULT_ZERO_COUNT_WINDOW
    MaxEvents   \* events in one read of the fanotify group

ASSUME MaxIntAssumption == MaxInt \in Nat
ASSUME MinUnitAssumption == MinUnit \in Nat \ {0}
ASSUME PagesAssumption == \A p \in Pages : p \in Nat \ {0} /\ MinUnit % p = 0
ASSUME AlignsAssumption == \A a \in Aligns : a \in Nat \ {0}
ASSUME WindowAssumption == Window \in 1 .. MaxInt
ASSUME MaxEventsAssumption == MaxEvents \in Nat

Int64 == 0 .. MaxInt

(* checked_add fails where the sum does not fit; a plain operation wraps.  *)
Fits(n) == n <= MaxInt
Wrap(n) == n % (MaxInt + 1)
DivCeil(a, b) == (a + b - 1) \div b
Least(a, b) == IF a <= b THEN a ELSE b

VARIABLES
    size,       \* size of the blob, 0 while nothing is registered
    unit,       \* RangeMap::unit_bytes
    count,      \* RangeMap::slot_count
    pmem,       \* length of the sparse file, and its alignment
    reply       \* a call and what it answered

blobVars == <<size, unit, count, pmem>>
vars == <<blobVars, reply>>

(* No call, a refused one, and one that asks for no bytes and is granted.  *)
NoCall == [call |-> "none"]
Bad == [call |-> "bad"]
Nothing == [call |-> "nothing"]

-----------------------------------------------------------------------------
(* src/range_map.rs                                                        *)

ValidUnit(u) == u >= MinUnit /\ u % MinUnit = 0

SlotCount(s, u) == (s + (u - 1)) \div u

(* Faulty variant: a rounded-up size past the largest integer is accepted. *)
SizeFits(s, u) == Fits(s)

(* slot_count refuses a blob that ends in the last partial unit.           *)
SlotCountFits(s, u) == Fits(s + (u - 1))

(* slots_for_range: the first slot and the one after the last.             *)
SlotsForRange(start, len) ==
    LET end == start + len IN
    IF len = 0 THEN [ok |-> TRUE, from |-> 0, to |-> 0]
    ELSE IF ~Fits(end) \/ end > size \/ DivCeil(end, unit) > count
    THEN [ok |-> FALSE, from |-> 0, to |-> 0]
    ELSE [ok |-> TRUE, from |-> start \div unit, to |-> DivCeil(end, unit)]

(* slot_range: the bytes of a slot, from the first to the one after the    *)
(* last; the last slot ends with the blob.                                 *)
SlotRange(slot) ==
    [from |-> slot * unit, to |-> Least(Wrap(slot * unit + unit), size)]

-----------------------------------------------------------------------------
(* src/prepare.rs                                                          *)

(* Faulty variant: the length is rounded down.                             *)
AlignDown(s, a) == (s \div a) * a

AlignUp(s, a) == ((s + (a - 1)) \div a) * a
AlignUpFits(s, a) == Fits(s + (a - 1))

-----------------------------------------------------------------------------
(* src/instance.rs                                                         *)

(* Faulty variant: the end is rounded down instead of up.                  *)
AmplifyDown(offset, len) ==
    LET end == offset + len IN
    [from |-> (offset \div unit) * unit,
     to |-> Least(Wrap((end \div unit) * unit), size)]

AmplifyToFetchUnit(offset, len) ==
    LET end == offset + len IN
    [from |-> (offset \div unit) * unit,
     to |-> Least(Wrap(DivCeil(end, unit) * unit), size)]

(* ensure_range accepts a range that lies in the blob.                     *)
InBlob(offset, len) == Fits(offset + len) /\ offset + len <= size

BlobPageEnd(page) == Wrap(DivCeil(size, page) * page)

(* Faulty variant: the tail page is refused.                               *)
FetchWholePagesOnly(offset, len, page) ==
    /\ len > 0
    /\ offset % page = 0 /\ len % page = 0
    /\ Fits(offset + len)
    /\ offset + len <= size

(* prepare_fetch_range accepts whole pages up to the tail page.            *)
FetchAccepted(offset, len, page) ==
    /\ len > 0
    /\ offset % page = 0 /\ len % page = 0
    /\ Fits(offset + len)
    /\ offset < size /\ offset + len <= BlobPageEnd(page)

(* What it then asks ensure_range for: the part that is in the blob.       *)
RealLen(offset, len) == Least(size, offset + len) - offset

-----------------------------------------------------------------------------
(* src/remote/oci.rs, src/fanotify.rs                                      *)

(* What a registry may send for a range, whatever its status says: any     *)
(* piece of the blob.  Nothing in read_range looks at Content-Range.       *)
Sendings == {p \in [from : 0 .. size, to : 0 .. size] : p.from <= p.to}

Length(r) == r.to - r.from

(* Faulty variant: fewer bytes than requested will do.                     *)
NotTooLong(sent, r) == Length(sent) <= Length(r)

(* read_range refuses more bytes than requested, ensure_range any other    *)
(* number of them.                                                         *)
ReadAccepted(sent, r) == Length(sent) <= Length(r) /\ Length(sent) = Length(r)

(* write_all_at: the bytes go where the range begins, whatever they are.   *)
Written(sent, r) == [from |-> r.from, to |-> r.from + Length(sent)]

(* Faulty variant: an event asks for its first byte only.                  *)
FirstByte(n) == 1

(* parse_range: an event that gives no count asks for a window.            *)
EventLen(n) == IF n = 0 THEN Window ELSE n

-----------------------------------------------------------------------------
Init == size = 0 /\ unit = MinUnit /\ count = 0 /\ pmem = [len |-> 0, align |-> 1] /\ reply = NoCall

(* A preparation and its registration: refused for an empty blob, an       *)
(* invalid unit, a length or a slot count that does not fit; the geometry  *)
(* is set up for good otherwise.                                           *)
Register(s, u, a) ==
    /\ size = 0 /\ s > 0 /\ ValidUnit(u)
    /\ AlignUpFits(s, a) /\ SlotCountFits(s, u)
    /\ size' = s /\ unit' = u /\ count' = SlotCount(s, u)
    /\ pmem' = [len |-> AlignUp(s, a), align |-> a]
    /\ UNCHANGED reply

Called == size > 0 /\ reply = NoCall

Ensured(offset, len) ==
    IF len = 0 THEN Nothing
    ELSE IF ~InBlob(offset, len) THEN Bad
    ELSE [call |-> "ensure", offset |-> offset, len |-> len,
          asked |-> SlotsForRange(offset, len),
          fetched |-> AmplifyToFetchUnit(offset, len)]

Ensure(offset, len) ==
    /\ Called
    /\ reply' = Ensured(offset, len)
    /\ UNCHANGED blobVars

(* The download of a range that was not ready.                             *)
Download ==
    /\ reply.call = "ensure"
    /\ \E sent \in Sendings :
          reply' = [call |-> "download", range |-> reply.fetched, sent |-> sent,
                    ok |-> ReadAccepted(sent, reply.fetched),
                    written |-> Written(sent, reply.fetched)]
    /\ UNCHANGED blobVars

(* The event loop ensures the range of the event and allows or denies.     *)
Event(offset, n) ==
    /\ Called
    /\ reply' = [call |-> "event", offset |-> offset, n |-> n,
                 ensured |-> Ensured(offset, EventLen(n))]
    /\ UNCHANGED blobVars

(* The event loop reads events, of whatever files: looked at once.         *)
ReadEvents(es) ==
    /\ size = 0 /\ reply = NoCall
    /\ reply' = [call |-> "events", read |-> es, handled |-> ParseEvents(es)]
    /\ UNCHANGED blobVars

Fetch(offset, len, page) ==
    /\ Called
    /\ reply' = [call |-> "fetch", offset |-> offset, len |-> len, page |-> page,
                 ok |-> /\ FetchAccepted(offset, len, page)
                        /\ InBlob(offset, RealLen(offset, len)),
                 ensured |-> IF FetchAccepted(offset, len, page)
                             THEN RealLen(offset, len) ELSE 0]
    /\ UNCHANGED blobVars

(* A call that has been answered is forgotten.                             *)
Return ==
    /\ reply # NoCall
    /\ reply' = NoCall
    /\ UNCHANGED blobVars

Next ==
    \/ \E s, u \in Int64, a \in Aligns : Register(s, u, a)
    \/ \E offset, len \in Int64 : Ensure(offset, len)
    \/ \E offset, len \in Int64, page \in Pages : Fetch(offset, len, page)
    \/ \E offset, n \in Int64 : Event(offset, n)
    \/ \E es \in Buffers(MaxEvents) : ReadEvents(es)
    \/ Download \/ Return

Spec == Init /\ [][Next]_vars

-----------------------------------------------------------------------------
Bytes(r) == {b \in 0 .. size - 1 : r.from <= b /\ b < r.to}

(* The slots of an open map cut the blob into non-empty pieces: every byte *)
(* lies in the range of the slot its offset divides to, and in no other.   *)
(* A slot is a whole fetch unit, of however many MinUnit, except the last  *)
(* one; external-range-api.md:39-40 has slots of 1 MiB, of which a fetch   *)
(* unit may span several, and the code has none such (range_map.rs:159).   *)
SlotsPartitionBlob ==
    /\ size > 0 => count * unit >= size
    /\ \A s \in 0 .. count - 1 :
          /\ SlotRange(s).from < SlotRange(s).to
          /\ SlotRange(s).to <= size
          /\ s < count - 1 => Length(SlotRange(s)) = unit
          /\ Bytes(SlotRange(s)) = {b \in 0 .. size - 1 : b \div unit = s}

(* A download covers the request, is made of whole slots, and stays in the *)
(* blob: marking its slots ready makes the request ready, and marks no     *)
(* slot of which a byte was not downloaded.                                *)
FetchCoversRequest ==
    reply.call = "ensure" =>
        LET touched == {b \div unit : b \in reply.offset .. reply.offset + reply.len - 1}
            marked == SlotsForRange(reply.fetched.from,
                                    reply.fetched.to - reply.fetched.from)
        IN
        /\ reply.asked.ok /\ marked.ok
        /\ touched = reply.asked.from .. reply.asked.to - 1
        /\ touched = marked.from .. marked.to - 1
        /\ reply.fetched.to <= size
        /\ Bytes(reply.fetched) = {b \in 0 .. size - 1 : b \div unit \in touched}

(* A FETCH request is accepted exactly when it names whole pages that each *)
(* hold a byte of the blob, the padded tail page included, and then every  *)
(* byte of the blob on these pages is made ready before the answer.        *)
FetchAnswersPages ==
    reply.call = "fetch" =>
        LET pages == {p \in 0 .. MaxInt : \E b \in reply.offset .. reply.offset + reply.len - 1 :
                                             b \div reply.page = p}
        IN
        /\ reply.ok <=>
             /\ reply.len > 0 /\ Fits(reply.offset + reply.len)
             /\ reply.offset % reply.page = 0 /\ reply.len % reply.page = 0
             /\ \A p \in pages : p * reply.page < size
        /\ reply.ok =>
             {b \in 0 .. size - 1 : b \div reply.page \in pages} =
                 reply.offset .. reply.offset + reply.ensured - 1

(* A download that is accepted overwrites exactly the slots that are then  *)
(* marked, each of them whole.  What it writes there is right if the body  *)
(* begins where the range does; a body of the right length from elsewhere  *)
(* is written and marked all the same, as only lengths are compared        *)
(* (oci.rs:199-212, instance.rs:251).                                      *)
WrittenIsMarked ==
    reply.call = "download" /\ reply.ok =>
        LET marked == SlotsForRange(reply.range.from, Length(reply.range)) IN
        /\ marked.ok
        /\ Bytes(reply.written) =
               {b \in 0 .. size - 1 : b \div unit \in marked.from .. marked.to - 1}
        /\ reply.sent.from = reply.range.from => reply.sent = reply.written

(* A permission event is allowed exactly when it asks for nothing past the *)
(* end of the blob, and then every byte it asks for is fetched.  An event  *)
(* that gives no count asks for a whole window, and one of a read that     *)
(* reaches past the end asks for bytes that are not there: both are denied *)
(* near the end of the blob, though the file holds bytes to read.          *)
AllowedIsInBlob ==
    reply.call = "event" =>
        LET asked == IF reply.n = 0 THEN reply.offset .. reply.offset + Window - 1
                     ELSE reply.offset .. reply.offset + reply.n - 1
        IN
        /\ reply.ensured # Bad <=> \A b \in asked : b < size
        /\ reply.ensured # Bad => asked \subseteq Bytes(reply.ensured.fetched)

(* Every permission event of a read is answered, in the order of the read, *)
(* unless the kernel has put an overflow event before it: at that one the  *)
(* loop gives up, and the readers behind it stay blocked.                  *)
LostOnlyAfterOverflow ==
    reply.call = "events" =>
        \E n \in 0 .. Len(reply.read) :
            /\ reply.handled = [i \in 1 .. n |-> i]
            /\ \A i \in 1 .. n : reply.read[i].perm
            /\ n < Len(reply.read) => ~reply.read[n + 1].perm

(* The sparse file of a prepared layer holds every page that FETCH grants, *)
(* the padded tail page included, if its alignment is a multiple of the    *)
(* page size: the guest maps nothing past the end of the file.             *)
PmemHoldsPages ==
    /\ size > 0 => size <= pmem.len
    /\ reply.call = "fetch" /\ reply.ok /\ pmem.align % reply.page = 0 =>
          reply.offset + reply.len <= pmem.len
=============================================================================
