-------------------------- MODULE Geometry_proofs --------------------------
(* The arithmetic of slots, units, pages and byte ranges, for every integer *)
(* width, unit, page size, alignment and window, and for calls with any     *)
(* offset and length of that width: what Geometry checks with numbers up to *)
(* 15 holds of those the code is built with.                                *)
EXTENDS Geometry, TLAPS, WellFoundedInduction

(* Division, by the products that bound its result.                        *)
LEMMA ProductMono ==
    ASSUME NEW a \in Int, NEW b \in Int, NEW u \in Nat
    PROVE  a <= b => a * u <= b * u
OBVIOUS

LEMMA DivIs ==
    ASSUME NEW n \in Nat, NEW u \in Nat \ {0}
    PROVE  /\ n \div u \in Nat
           /\ (n \div u) * u \in Nat
           /\ (n \div u) * u <= n /\ n < (n \div u) * u + u
           /\ n % u = n - (n \div u) * u
OBVIOUS

LEMMA DivAtLeast ==
    ASSUME NEW n \in Nat, NEW u \in Nat \ {0}, NEW q \in Nat
    PROVE  q <= n \div u <=> q * u <= n
<1> DEFINE d == n \div u
<1>1. d \in Nat /\ d * u <= n /\ n < d * u + u
  BY DivIs
<1> HIDE DEF d
<1>2. q <= d => q * u <= n
  BY <1>1, ProductMono
<1>3. ASSUME q > d PROVE q * u > n
  <2>1. (d + 1) * u <= q * u
    BY <1>1, <1>3, ProductMono
  <2>2. (d + 1) * u = d * u + u
    BY <1>1
  <2> QED BY <1>1, <2>1, <2>2
<1>4. q <= d <=> q * u <= n
  BY <1>1, <1>2, <1>3
<1> QED BY <1>4 DEF d

LEMMA DivIsQuotient ==
    ASSUME NEW n \in Nat, NEW u \in Nat \ {0}, NEW q \in Nat
    PROVE  n \div u = q <=> q * u <= n /\ n < q * u + u
OBVIOUS

LEMMA CeilIs ==
    ASSUME NEW n \in Nat, NEW u \in Nat \ {0}
    PROVE  /\ DivCeil(n, u) \in Nat /\ DivCeil(n, u) * u \in Nat
           /\ n <= DivCeil(n, u) * u /\ DivCeil(n, u) * u < n + u
<1> DEFINE m == n + u - 1
           d == m \div u
<1>1. m \in Nat /\ m = n + u - 1 /\ DivCeil(n, u) = d
  BY DEF DivCeil
<1> HIDE DEF m
<1>2. d \in Nat /\ d * u <= m /\ m < d * u + u
  BY <1>1, DivIs
<1> HIDE DEF d
<1>3. d * u \in Nat
  BY <1>2
<1> QED BY <1>1, <1>2, <1>3

LEMMA CeilAtMost ==
    ASSUME NEW n \in Nat, NEW u \in Nat \ {0}, NEW q \in Nat
    PROVE  DivCeil(n, u) <= q <=> n <= q * u
<1>1. n + u - 1 \in Nat /\ q + 1 \in Nat /\ (q + 1) * u = q * u + u /\ DivCeil(n, u) \in Nat
  BY CeilIs
<1>2. q + 1 <= DivCeil(n, u) <=> q * u + u <= n + u - 1
  BY <1>1, DivAtLeast DEF DivCeil
<1>3. q * u \in Nat
  OBVIOUS
<1> QED BY <1>1, <1>2, <1>3

-----------------------------------------------------------------------------
(* The geometry of an open map: what registration has accepted.            *)
Registered ==
    /\ size + (unit - 1) <= MaxInt
    /\ count = DivCeil(size, unit)
    /\ pmem.len = AlignUp(size, pmem.align)

GeometryOk ==
    /\ size \in Nat /\ unit \in Nat \ {0} /\ count \in Nat
    /\ \A p \in Pages : p <= unit
    /\ pmem.align \in Nat \ {0}
    /\ size = 0 => count = 0
    /\ size > 0 => Registered

FetchReply(offset, len, page) ==
    [call |-> "fetch", offset |-> offset, len |-> len, page |-> page,
     ok |-> /\ FetchAccepted(offset, len, page)
            /\ InBlob(offset, RealLen(offset, len)),
     ensured |-> IF FetchAccepted(offset, len, page) THEN RealLen(offset, len) ELSE 0]

DownloadReply(range, sent) ==
    [call |-> "download", range |-> range, sent |-> sent, ok |-> ReadAccepted(sent, range),
     written |-> Written(sent, range)]

EventsReply(es) == [call |-> "events", read |-> es, handled |-> ParseEvents(es)]

(* A call and its answer are of the blob that is registered.               *)
ReplyOk ==
    \/ reply = NoCall
    \/ size > 0 /\ \E offset, len \in Int64 : reply = Ensured(offset, len)
    \/ size > 0 /\ \E offset, len \in Int64 :
          /\ len > 0 /\ InBlob(offset, len)
          /\ \E sent \in Sendings : reply = DownloadReply(AmplifyToFetchUnit(offset, len), sent)
    \/ size > 0 /\ \E offset, n \in Int64 :
          reply = [call |-> "event", offset |-> offset, n |-> n,
                   ensured |-> Ensured(offset, EventLen(n))]
    \/ \E es \in Seq(Kinds) : reply = EventsReply(es)
    \/ size > 0 /\ \E offset, len \in Int64, page \in Pages :
          reply = FetchReply(offset, len, page)

GeometryInv == GeometryOk /\ ReplyOk

(* A page is no larger than the smallest unit, which is a whole number of  *)
(* pages.                                                                  *)
LEMMA PageIsSmall == ASSUME NEW p \in Pages PROVE p \in Nat \ {0} /\ p <= MinUnit
<1>1. p \in Nat \ {0} /\ MinUnit % p = 0 /\ MinUnit \in Nat \ {0}
  BY PagesAssumption, MinUnitAssumption
<1> QED BY <1>1

LEMMA GeometryInit == Init => GeometryInv
<1> SUFFICES ASSUME Init PROVE GeometryInv
  OBVIOUS
<1>1. \A p \in Pages : p <= MinUnit
  BY PageIsSmall
<1> QED BY <1>1, MinUnitAssumption DEF Init, GeometryInv, GeometryOk, ReplyOk

(* What the calls make of their arguments depends on the blob only.        *)
LEMMA SameBlob ==
    ASSUME UNCHANGED blobVars, NEW offset, NEW len
    PROVE  /\ Ensured(offset, len)' = Ensured(offset, len)
           /\ AmplifyToFetchUnit(offset, len)' = AmplifyToFetchUnit(offset, len)
           /\ InBlob(offset, len)' <=> InBlob(offset, len)
           /\ \A page : FetchReply(offset, len, page)' = FetchReply(offset, len, page)
           /\ Sendings' = Sendings
<1>1. UNCHANGED <<size, unit, count>>
  BY DEF blobVars
<1> QED BY <1>1 DEF Ensured, AmplifyToFetchUnit, InBlob, RealLen, FetchAccepted, FetchReply, Sendings,
           SlotsForRange, BlobPageEnd

LEMMA GeometryNext == ASSUME GeometryInv, [Next]_vars PROVE GeometryInv'
<1>1. ASSUME NEW s \in Int64, NEW u \in Int64, NEW a \in Aligns, Register(s, u, a)
      PROVE  GeometryInv'
  <2>1. s \in Nat /\ u \in Nat /\ a \in Nat \ {0} /\ MinUnit \in Nat \ {0} /\ MaxInt \in Nat
    BY AlignsAssumption, MinUnitAssumption, MaxIntAssumption DEF Int64
  <2>2. size = 0 /\ size' = s /\ s > 0 /\ unit' = u /\ u >= MinUnit /\ s + (u - 1) <= MaxInt
    BY <1>1 DEF Register, ValidUnit, SlotCountFits, Fits
  <2>3. u \in Nat \ {0} /\ \A p \in Pages : p <= u
    BY <2>1, <2>2, PageIsSmall
  <2>4. s + (u - 1) = s + u - 1
    BY <2>1
  <2>5. count' = DivCeil(s, u)
    BY <1>1, <2>4 DEF Register, SlotCount, DivCeil
  <2>6. pmem'.len = AlignUp(s, a) /\ pmem'.align = a
    BY <1>1 DEF Register
  <2>7. GeometryOk'
    BY <2>1, <2>2, <2>3, <2>5, <2>6, CeilIs DEF GeometryOk, Registered, AlignUp, DivCeil
  <2>8. ReplyOk'
    BY <1>1, <2>2 DEF GeometryInv, ReplyOk, Register
  <2> QED BY <2>7, <2>8 DEF GeometryInv
<1>2. ASSUME UNCHANGED blobVars
      PROVE  GeometryOk'
  BY <1>2 DEF blobVars, GeometryInv, GeometryOk, Registered, AlignUp, DivCeil
<1>3. ASSUME UNCHANGED blobVars, UNCHANGED reply
      PROVE  ReplyOk'
  BY <1>3, SameBlob DEF GeometryInv, ReplyOk, blobVars
<1>4. ASSUME NEW offset \in Int64, NEW len \in Int64, Ensure(offset, len)
      PROVE  ReplyOk'
  BY <1>4, SameBlob DEF Ensure, Called, ReplyOk, blobVars
<1>5. ASSUME NEW offset \in Int64, NEW len \in Int64, NEW page \in Pages, Fetch(offset, len, page)
      PROVE  ReplyOk'
  <2>1. UNCHANGED blobVars /\ size' > 0 /\ reply' = FetchReply(offset, len, page)
    BY <1>5 DEF Fetch, Called, FetchReply, blobVars
  <2>2. FetchReply(offset, len, page)' = FetchReply(offset, len, page)
    BY <2>1, SameBlob
  <2> QED BY <2>1, <2>2 DEF ReplyOk
<1>6. ASSUME NEW offset \in Int64, NEW n \in Int64, Event(offset, n)
      PROVE  ReplyOk'
  BY <1>6, SameBlob DEF Event, Called, ReplyOk, blobVars
<1>7. ASSUME NEW es \in Buffers(MaxEvents), ReadEvents(es)
      PROVE  ReplyOk'
  <2>1. es \in Seq(Kinds)
    BY MaxEventsAssumption DEF Buffers
  <2>2. reply' = EventsReply(es)
    BY <1>7 DEF ReadEvents, EventsReply
  <2> QED BY <2>1, <2>2 DEF ReplyOk
<1>8. ASSUME Return
      PROVE  ReplyOk'
  BY <1>8 DEF Return, ReplyOk
<1>9. ASSUME Download
      PROVE  ReplyOk'
  <2>1. PICK offset, len \in Int64 : size > 0 /\ reply = Ensured(offset, len)
    BY <1>9 DEF Download, DownloadReply, FetchReply, EventsReply, GeometryInv, ReplyOk, NoCall
  <2>2. len > 0 /\ InBlob(offset, len) /\ reply.fetched = AmplifyToFetchUnit(offset, len)
    BY <1>9, <2>1 DEF Download, Ensured, Nothing, Bad, Int64
  <2> QED BY <1>9, <2>1, <2>2, SameBlob DEF Download, DownloadReply, ReplyOk, blobVars
<1>10. CASE UNCHANGED vars
  BY <1>2, <1>3, <1>10 DEF vars, blobVars, GeometryInv
<1> QED BY <1>1, <1>2, <1>4, <1>5, <1>6, <1>7, <1>8, <1>9, <1>10
        DEF Next, Ensure, Fetch, Event, ReadEvents, Return, Download, GeometryInv

LEMMA GeometryInvariant == Spec => []GeometryInv
BY GeometryInit, GeometryNext, PTL DEF Spec
-----------------------------------------------------------------------------
(* Slots.                                                                  *)

(* The largest integer type holds the end of the last unit, so that no     *)
(* product of a slot and the unit wraps.                                   *)
LEMMA NoWrap ==
    ASSUME NEW n \in Nat, n <= MaxInt
    PROVE  Wrap(n) = n
BY MaxIntAssumption DEF Wrap

LEMMA SlotBytes ==
    ASSUME GeometryOk, size > 0, NEW s \in 0 .. count - 1
    PROVE  /\ s * unit \in Nat /\ s * unit < size
           /\ SlotRange(s).from = s * unit
           /\ SlotRange(s).to = Least(s * unit + unit, size)
<1>1. s \in Nat /\ s + 1 \in Nat /\ s + 1 <= count /\ count \in Nat /\ unit \in Nat \ {0} /\ size \in Nat
      /\ count = DivCeil(size, unit) /\ size + (unit - 1) <= MaxInt
  BY DEF GeometryOk, Registered
<1>2. s * unit \in Nat /\ (s + 1) * unit = s * unit + unit
  BY <1>1
<1>3. s * unit < size
  <2>1. s \in Nat /\ unit \in Nat \ {0} /\ size \in Nat
    BY <1>1
  <2>2. DivCeil(size, unit) <= s <=> size <= s * unit
    BY <2>1, CeilAtMost
  <2>3. ~ (DivCeil(size, unit) <= s)
    BY <1>1
  <2> QED BY <1>1, <1>2, <2>2, <2>3
<1>4. s * unit + unit \in Nat /\ s * unit + unit <= MaxInt
  BY <1>1, <1>2, <1>3, MaxIntAssumption
<1>5. Wrap(s * unit + unit) = s * unit + unit
  BY <1>4, NoWrap
<1> QED BY <1>2, <1>3, <1>5, <1>1 DEF SlotRange

(* The slots of a map are the pieces of its blob, whatever the size of the *)
(* blob and the unit, and also next to the largest integer.                *)
THEOREM SlotsCutBlob == Spec => []SlotsPartitionBlob
<1>1. ASSUME GeometryOk PROVE SlotsPartitionBlob
  <2>1. size \in Nat /\ unit \in Nat \ {0} /\ count \in Nat
    BY <1>1 DEF GeometryOk
  <2>2. ASSUME size > 0 PROVE count * unit >= size
    <3>1. count = DivCeil(size, unit) /\ count * unit \in Nat
      BY <1>1, <2>1, <2>2 DEF GeometryOk, Registered
    <3> QED BY <2>1, <3>1, CeilIs
  <2>3. ASSUME NEW s \in 0 .. count - 1
        PROVE  /\ SlotRange(s).from < SlotRange(s).to
               /\ SlotRange(s).to <= size
               /\ s < count - 1 => Length(SlotRange(s)) = unit
               /\ Bytes(SlotRange(s)) = {b \in 0 .. size - 1 : b \div unit = s}
    <3>1. size > 0
      BY <1>1, <2>1 DEF GeometryOk
    <3>2. /\ s * unit \in Nat /\ s * unit < size /\ s \in Nat
          /\ SlotRange(s).from = s * unit
          /\ SlotRange(s).to = Least(s * unit + unit, size)
      BY <1>1, <2>1, <3>1, SlotBytes
    <3>3. \A b \in 0 .. size - 1 : b \div unit = s <=> s * unit <= b /\ b < s * unit + unit
      <4> SUFFICES ASSUME NEW b \in 0 .. size - 1
                   PROVE  b \div unit = s <=> s * unit <= b /\ b < s * unit + unit
        OBVIOUS
      <4>1. b \in Nat
        BY <2>1
      <4> QED BY <2>1, <3>2, <4>1, DivIsQuotient
    <3>4. \A b \in 0 .. size - 1 :
            SlotRange(s).from <= b /\ b < SlotRange(s).to <=> b \div unit = s
      BY <2>1, <3>2, <3>3 DEF Least
    <3>5. Bytes(SlotRange(s)) = {b \in 0 .. size - 1 : b \div unit = s}
      BY <3>4 DEF Bytes
    <3>6. ASSUME s < count - 1 PROVE Length(SlotRange(s)) = unit
      <4>1. s + 1 \in 0 .. count - 1 /\ (s + 1) * unit = s * unit + unit
        BY <2>1, <3>2, <3>6
      <4>2. s * unit + unit < size
        BY <1>1, <3>1, <4>1, SlotBytes
      <4> QED BY <2>1, <3>2, <4>2 DEF Least, Length
    <3> QED BY <2>1, <3>2, <3>5, <3>6 DEF Least
  <2> QED BY <2>2, <2>3 DEF SlotsPartitionBlob
<1>2. GeometryInv => SlotsPartitionBlob
  BY <1>1 DEF GeometryInv
<1> QED BY <1>2, GeometryInvariant, PTL

-----------------------------------------------------------------------------
(* Requests and downloads.                                                 *)

(* The slots from \div to DivCeil are those with a byte of the range.      *)
LEMMA TouchedSlots ==
    ASSUME NEW from \in Nat, NEW to \in Nat, from < to, NEW u \in Nat \ {0}
    PROVE  {b \div u : b \in from .. to - 1} = (from \div u) .. DivCeil(to, u) - 1
<1> DEFINE first == from \div u
           last == DivCeil(to, u)
<1>1. /\ first \in Nat /\ first * u \in Nat /\ first * u <= from /\ from < first * u + u
      /\ last \in Nat
  BY DivIs, CeilIs
<1>2. ASSUME NEW b \in from .. to - 1
      PROVE  b \div u \in first .. last - 1
  <2> DEFINE d == b \div u
  <2>1. b \in Nat /\ d \in Nat /\ d * u <= b /\ d * u \in Nat
    BY DivIs
  <2>2. first <= d
    BY <1>1, <2>1, DivAtLeast
  <2>3. ~ (last <= d)
    BY <2>1, CeilAtMost
  <2> HIDE DEF d, first, last
  <2>4. d \in first .. last - 1
    BY <1>1, <2>1, <2>2, <2>3
  <2> QED BY <2>4 DEF d
<1>3. ASSUME NEW k \in first .. last - 1
      PROVE  \E b \in from .. to - 1 : b \div u = k
  <2>1. k \in Nat /\ k * u \in Nat /\ first <= k /\ ~ (last <= k)
    BY <1>1
  <2>2. k * u < to
    BY <2>1, CeilAtMost
  <2>3. CASE k = first
    BY <2>3
  <2>4. CASE k > first
    <3>1. (first + 1) * u <= k * u
      BY <1>1, <2>1, <2>4, ProductMono
    <3>2. (first + 1) * u = first * u + u
      BY <1>1
    <3>3. k * u \in from .. to - 1
      BY <1>1, <2>1, <2>2, <3>1, <3>2
    <3>4. (k * u) \div u = k
      BY <2>1, DivIsQuotient
    <3> QED BY <3>3, <3>4
  <2> QED BY <1>1, <2>1, <2>3, <2>4
<1> HIDE DEF first, last
<1>4. {b \div u : b \in from .. to - 1} = first .. last - 1
  BY <1>2, <1>3
<1> QED BY <1>4 DEF first, last

(* What ensure_range downloads for a range of the blob: the whole slots    *)
(* that the range touches.                                                 *)
LEMMA WholeSlots ==
    ASSUME GeometryOk, size > 0, NEW offset \in Int64, NEW len \in Int64, len > 0, InBlob(offset, len)
    PROVE  LET first == offset \div unit
               last == DivCeil(offset + len, unit)
               fetched == AmplifyToFetchUnit(offset, len)
           IN  /\ first \in Nat /\ last \in Nat /\ first < last
               /\ SlotsForRange(offset, len) = [ok |-> TRUE, from |-> first, to |-> last]
               /\ first * unit \in Nat /\ first * unit <= offset
               /\ last * unit \in Nat /\ offset + len <= last * unit
               /\ fetched = [from |-> first * unit, to |-> Least(last * unit, size)]
               /\ SlotsForRange(fetched.from, fetched.to - fetched.from) =
                      [ok |-> TRUE, from |-> first, to |-> last]
<1> DEFINE first == offset \div unit
           last == DivCeil(offset + len, unit)
           top == Least(last * unit, size)
           fetched == AmplifyToFetchUnit(offset, len)
<1>1. /\ size \in Nat /\ unit \in Nat \ {0} /\ offset \in Nat /\ len \in Nat
      /\ offset + len \in Nat /\ offset + len <= size /\ MaxInt \in Nat
      /\ count = DivCeil(size, unit) /\ size + (unit - 1) <= MaxInt
  BY MaxIntAssumption DEF GeometryOk, Registered, InBlob, Int64
<1>2. first \in Nat /\ first * unit <= offset /\ first * unit \in Nat
  BY <1>1, DivIs
<1>3. last \in Nat /\ offset + len <= last * unit /\ last * unit < offset + len + unit /\ last * unit \in Nat
  BY <1>1, CeilIs
<1>4. size <= count * unit /\ count \in Nat /\ count * unit \in Nat
  BY <1>1, CeilIs
<1>5. last <= count
  <2>1. last <= count <=> offset + len <= count * unit
    BY <1>1, <1>4, CeilAtMost
  <2> QED BY <1>1, <1>4, <2>1
<1>6. first < last
  <2>1. last <= first <=> offset + len <= first * unit
    BY <1>1, <1>2, CeilAtMost
  <2> QED BY <1>1, <1>2, <1>3, <2>1
<1>7. fetched = [from |-> first * unit, to |-> top]
  <2>1. last * unit <= MaxInt
    BY <1>1, <1>3
  <2>2. Wrap(last * unit) = last * unit
    BY <1>3, <2>1, NoWrap
  <2> QED BY <2>2 DEF AmplifyToFetchUnit
<1>8. top \in Nat /\ top <= size /\ top <= last * unit /\ offset + len <= top
  BY <1>1, <1>3 DEF Least
<1>9. (first * unit) \div unit = first
  BY <1>1, <1>2, DivIsQuotient
<1>10. DivCeil(top, unit) = last
  <2>1. DivCeil(top, unit) <= last
    BY <1>1, <1>3, <1>8, CeilAtMost
  <2>2. DivCeil(top, unit) \in Nat /\ top <= DivCeil(top, unit) * unit /\ DivCeil(top, unit) * unit \in Nat
    BY <1>1, <1>8, CeilIs
  <2>3. last <= DivCeil(top, unit) <=> offset + len <= DivCeil(top, unit) * unit
    BY <1>1, <2>2, CeilAtMost
  <2> QED BY <1>1, <1>3, <1>8, <2>1, <2>2, <2>3
<1>11. SlotsForRange(offset, len) = [ok |-> TRUE, from |-> first, to |-> last]
  BY <1>1, <1>3, <1>4, <1>5 DEF SlotsForRange, Fits
<1>12. SlotsForRange(first * unit, top - first * unit) = [ok |-> TRUE, from |-> first, to |-> last]
  <2> DEFINE start == first * unit
             n == top - start
  <2>1. start + n = top /\ n # 0 /\ start \div unit = first
    BY <1>1, <1>2, <1>8, <1>9
  <2>2. Fits(top) /\ ~ (top > size) /\ ~ (last > count)
    BY <1>1, <1>3, <1>4, <1>5, <1>8 DEF Fits
  <2> HIDE DEF top, first, last, start, n
  <2>3. SlotsForRange(start, n) = [ok |-> TRUE, from |-> first, to |-> last]
    BY <1>10, <2>1, <2>2 DEF SlotsForRange
  <2> QED BY <2>3 DEF start, n
<1>13. SlotsForRange(fetched.from, fetched.to - fetched.from) = [ok |-> TRUE, from |-> first, to |-> last]
  BY <1>7, <1>12
<1> QED BY <1>2, <1>3, <1>6, <1>7, <1>11, <1>13

LEMMA FetchedRange ==
    ASSUME GeometryOk, size > 0, NEW offset \in Int64, NEW len \in Int64, len > 0, InBlob(offset, len)
    PROVE  LET r == AmplifyToFetchUnit(offset, len)
           IN  /\ r = [from |-> r.from, to |-> r.to] /\ r.from \in Nat /\ r.to \in Nat
               /\ r.from <= offset /\ offset + len <= r.to /\ r.to <= size
<1> DEFINE a == (offset \div unit) * unit
           e == DivCeil(offset + len, unit) * unit
<1>1. /\ AmplifyToFetchUnit(offset, len) = [from |-> a, to |-> Least(e, size)]
      /\ a \in Nat /\ a <= offset /\ e \in Nat /\ offset + len <= e
  BY WholeSlots
<1>2. size \in Nat /\ offset + len <= size
  BY DEF GeometryOk, InBlob
<1> HIDE DEF a, e
<1> QED BY <1>1, <1>2 DEF Least

(* The bytes of the blob that ensure_range downloads are those of slots.   *)
LEMMA FetchedBytes ==
    ASSUME GeometryOk, size > 0, NEW offset \in Int64, NEW len \in Int64, len > 0, InBlob(offset, len)
    PROVE  Bytes(AmplifyToFetchUnit(offset, len)) =
               {b \in 0 .. size - 1 :
                   b \div unit \in (offset \div unit) .. DivCeil(offset + len, unit) - 1}
<1> DEFINE first == offset \div unit
           last == DivCeil(offset + len, unit)
           fetched == AmplifyToFetchUnit(offset, len)
<1>1. /\ size \in Nat /\ unit \in Nat \ {0}
      /\ first \in Nat /\ last \in Nat /\ first * unit \in Nat /\ last * unit \in Nat
      /\ fetched = [from |-> first * unit, to |-> Least(last * unit, size)]
  BY WholeSlots DEF GeometryOk
<1>2. ASSUME NEW b \in 0 .. size - 1
      PROVE  fetched.from <= b /\ b < fetched.to <=> b \div unit \in first .. last - 1
  <2> DEFINE d == b \div unit
  <2>1. b \in Nat
    BY <1>1
  <2>2. d \in Nat
    BY <1>1, <2>1, DivIs
  <2>3. first <= d <=> first * unit <= b
    BY <1>1, <2>1, DivAtLeast
  <2>4. last <= d <=> last * unit <= b
    BY <1>1, <2>1, DivAtLeast
  <2> HIDE DEF d, first, last, fetched
  <2>5. d \in first .. last - 1 <=> first * unit <= b /\ b < Least(last * unit, size)
    BY <1>1, <2>1, <2>2, <2>3, <2>4 DEF Least
  <2>6. fetched.from = first * unit /\ fetched.to = Least(last * unit, size)
    BY <1>1
  <2>7. d \in first .. last - 1 <=> fetched.from <= b /\ b < fetched.to
    BY <2>5, <2>6
  <2> QED BY <2>7 DEF d
<1> HIDE DEF first, last, fetched
<1>3. Bytes(fetched) = {b \in 0 .. size - 1 : b \div unit \in first .. last - 1}
  BY <1>2 DEF Bytes
<1> QED BY <1>3 DEF first, last, fetched

(* ensure_range downloads the slots that the request touches, whole, and   *)
(* marks these and no others; the range it asks for is one the map knows.  *)
THEOREM FetchesCoverRequests == Spec => []FetchCoversRequest
<1>1. ASSUME GeometryInv PROVE FetchCoversRequest
  <2> SUFFICES ASSUME reply.call = "ensure" PROVE FetchCoversRequest
    BY DEF FetchCoversRequest
  <2>1. PICK offset, len \in Int64 : size > 0 /\ reply = Ensured(offset, len)
    BY <1>1 DEF GeometryInv, ReplyOk, NoCall, DownloadReply, FetchReply, EventsReply
  <2>2. /\ len > 0 /\ InBlob(offset, len)
        /\ reply.offset = offset /\ reply.len = len
        /\ reply.asked = SlotsForRange(offset, len)
        /\ reply.fetched = AmplifyToFetchUnit(offset, len)
    BY <2>1 DEF Ensured, Nothing, Bad, Int64
  <2> DEFINE first == offset \div unit
             last == DivCeil(offset + len, unit)
             touched == {b \div unit : b \in offset .. offset + len - 1}
  <2>3. /\ size \in Nat /\ unit \in Nat \ {0} /\ offset \in Nat /\ len \in Nat
    BY <1>1 DEF GeometryInv, GeometryOk, Int64
  <2>4. /\ first \in Nat /\ last \in Nat /\ first < last
        /\ reply.asked = [ok |-> TRUE, from |-> first, to |-> last]
        /\ first * unit \in Nat /\ last * unit \in Nat
        /\ reply.fetched = [from |-> first * unit, to |-> Least(last * unit, size)]
        /\ SlotsForRange(reply.fetched.from, reply.fetched.to - reply.fetched.from) =
               [ok |-> TRUE, from |-> first, to |-> last]
    BY <1>1, <2>1, <2>2, WholeSlots DEF GeometryInv
  <2>5. touched = first .. last - 1
    <3> DEFINE to == offset + len
    <3>1. to \in Nat /\ offset < to /\ offset + len - 1 = to - 1
      BY <2>2, <2>3
    <3> HIDE DEF to
    <3>2. {b \div unit : b \in offset .. to - 1} = (offset \div unit) .. DivCeil(to, unit) - 1
      BY <2>3, <3>1, TouchedSlots
    <3>3. touched = {b \div unit : b \in offset .. to - 1}
      BY <3>1
    <3> QED BY <3>2, <3>3 DEF to
  <2>6. Bytes(reply.fetched) = {b \in 0 .. size - 1 : b \div unit \in first .. last - 1}
    BY <1>1, <2>1, <2>2, FetchedBytes DEF GeometryInv
  <2>7. Bytes(reply.fetched) = {b \in 0 .. size - 1 : b \div unit \in touched}
    BY <2>5, <2>6
  <2>8. reply.fetched.to <= size
    BY <2>3, <2>4 DEF Least
  <2> HIDE DEF first, last
  <2> QED BY <2>2, <2>4, <2>5, <2>7, <2>8 DEF FetchCoversRequest
<1>2. GeometryInv => FetchCoversRequest
  BY <1>1
<1> QED BY <1>2, GeometryInvariant, PTL

(* What an accepted download writes is what is then marked, whatever the   *)
(* registry has sent, and it is that range of the blob if the body begins  *)
(* where the range does.                                                   *)
THEOREM WritesAreMarked == Spec => []WrittenIsMarked
<1>1. ASSUME GeometryInv PROVE WrittenIsMarked
  <2> SUFFICES ASSUME reply.call = "download", reply.ok PROVE WrittenIsMarked
    BY DEF WrittenIsMarked
  <2>1. PICK offset, len \in Int64 :
          /\ size > 0 /\ len > 0 /\ InBlob(offset, len)
          /\ \E sent \in Sendings : reply = DownloadReply(AmplifyToFetchUnit(offset, len), sent)
    BY <1>1 DEF GeometryInv, ReplyOk, NoCall, Ensured, Nothing, Bad, DownloadReply, FetchReply, EventsReply
  <2> DEFINE r == AmplifyToFetchUnit(offset, len)
             first == offset \div unit
             last == DivCeil(offset + len, unit)
  <2>2. /\ r = [from |-> r.from, to |-> r.to] /\ r.from \in Nat /\ r.to \in Nat /\ size \in Nat
        /\ Bytes(r) = {b \in 0 .. size - 1 : b \div unit \in first .. last - 1}
        /\ SlotsForRange(r.from, r.to - r.from) = [ok |-> TRUE, from |-> first, to |-> last]
    BY <1>1, <2>1, FetchedRange, FetchedBytes, WholeSlots DEF GeometryInv, GeometryOk
  <2> HIDE DEF r, first, last
  <2>3. PICK sent \in Sendings : reply = DownloadReply(r, sent)
    BY <2>1 DEF r
  <2>4. reply.sent = sent /\ reply.range = r /\ Length(sent) = Length(r) /\ reply.written = Written(sent, r)
    BY <2>3 DEF DownloadReply, ReadAccepted
  <2>5. sent = [from |-> sent.from, to |-> sent.to] /\ sent.from \in Nat /\ sent.to \in Nat
    BY <2>2 DEF Sendings
  <2>6. sent.to - sent.from = r.to - r.from
    BY <2>4 DEF Length
  <2>7. reply.written = r
    BY <2>2, <2>4, <2>5, <2>6 DEF Written, Length
  <2>8. sent.from = r.from => sent = r
    BY <2>2, <2>5, <2>6
  <2>9. SlotsForRange(r.from, Length(r)) = [ok |-> TRUE, from |-> first, to |-> last]
    BY <2>2 DEF Length
  <2> QED BY <2>2, <2>4, <2>7, <2>8, <2>9 DEF WrittenIsMarked
<1>2. GeometryInv => WrittenIsMarked
  BY <1>1
<1> QED BY <1>2, GeometryInvariant, PTL

(* An event is allowed exactly when what it asks for is in the blob, and   *)
(* then all of it is fetched.                                              *)
THEOREM AllowedAreInBlob == Spec => []AllowedIsInBlob
<1>1. ASSUME GeometryInv PROVE AllowedIsInBlob
  <2> SUFFICES ASSUME reply.call = "event" PROVE AllowedIsInBlob
    BY DEF AllowedIsInBlob
  <2>1. PICK offset, n \in Int64 :
          size > 0 /\ reply = [call |-> "event", offset |-> offset, n |-> n,
                              ensured |-> Ensured(offset, EventLen(n))]
    BY <1>1 DEF GeometryInv, ReplyOk, NoCall, Ensured, Nothing, Bad, DownloadReply, FetchReply, EventsReply
  <2> DEFINE len == EventLen(n)
             asked == IF reply.n = 0 THEN reply.offset .. reply.offset + Window - 1
                      ELSE reply.offset .. reply.offset + reply.n - 1
  <2>2. /\ len \in Int64 /\ len > 0 /\ offset \in Nat /\ len \in Nat
        /\ size \in Nat /\ size <= MaxInt /\ MaxInt \in Nat /\ unit \in Nat \ {0}
    BY <1>1, <2>1, WindowAssumption, MaxIntAssumption
       DEF GeometryInv, GeometryOk, Registered, EventLen, Int64
  <2>3. asked = offset .. offset + len - 1
    BY <2>1 DEF EventLen
  <2> HIDE DEF len
  <2>4. reply.ensured = Ensured(offset, len)
    BY <2>1 DEF len
  <2>5. InBlob(offset, len) <=> offset + len <= size
    BY <2>2 DEF InBlob, Fits
  <2>6. reply.ensured # Bad <=> InBlob(offset, len)
    BY <2>2, <2>4 DEF Ensured, Bad
  <2>7. offset + len <= size <=> \A b \in asked : b < size
    <3>1. offset + len - 1 \in asked
      BY <2>2, <2>3
    <3> HIDE DEF asked
    <3> QED BY <2>2, <2>3, <3>1
  <2>8. ASSUME InBlob(offset, len) PROVE asked \subseteq Bytes(reply.ensured.fetched)
    <3>1. reply.ensured.fetched = AmplifyToFetchUnit(offset, len)
      BY <2>2, <2>4, <2>8 DEF Ensured
    <3>2. /\ reply.ensured.fetched.from \in Nat /\ reply.ensured.fetched.to \in Nat
          /\ reply.ensured.fetched.from <= offset /\ offset + len <= reply.ensured.fetched.to
      BY <1>1, <2>1, <2>2, <2>8, <3>1, FetchedRange DEF GeometryInv
    <3>3. offset + len <= size
      BY <2>5, <2>8
    <3> HIDE DEF asked
    <3>4. \A b \in asked : b \in 0 .. size - 1 /\ offset <= b /\ b < offset + len
      BY <2>2, <2>3, <3>3
    <3> QED BY <2>2, <3>2, <3>4 DEF Bytes
  <2> QED BY <2>5, <2>6, <2>7, <2>8 DEF AllowedIsInBlob
<1>2. GeometryInv => AllowedIsInBlob
  BY <1>1
<1> QED BY <1>2, GeometryInvariant, PTL

-----------------------------------------------------------------------------
(* Pages.                                                                  *)

(* The pages of a whole number of pages.                                   *)
LEMMA WholePages ==
    ASSUME NEW offset \in Nat, NEW len \in Nat \ {0}, NEW page \in Nat \ {0},
           offset % page = 0, len % page = 0
    PROVE  LET first == offset \div page
               last == (offset + len) \div page
           IN  /\ first \in Nat /\ last \in Nat /\ first < last
               /\ offset = first * page /\ offset + len = last * page
<1> DEFINE first == offset \div page
           pages == len \div page
           last == (offset + len) \div page
<1>1. first \in Nat /\ offset = first * page
  BY DivIs
<1>2. pages \in Nat /\ len = pages * page
  BY DivIs
<1>3. first + pages \in Nat /\ (first + pages) * page = first * page + pages * page
  BY <1>1, <1>2
<1>4. offset + len = (first + pages) * page /\ offset + len \in Nat
  BY <1>1, <1>2, <1>3
<1>5. last = first + pages
  <2> DEFINE n == offset + len
             q == first + pages
  <2>1. n \in Nat /\ q \in Nat /\ n = q * page
    BY <1>3, <1>4
  <2> HIDE DEF n, q
  <2>2. q * page <= n /\ n < q * page + page
    BY <2>1
  <2>3. n \div page = q
    BY <2>1, <2>2, DivIsQuotient
  <2> QED BY <2>3 DEF n, q
<1>6. pages # 0
  BY <1>2
<1> HIDE DEF first, pages, last
<1>7. first \in Nat /\ last \in Nat /\ first < last /\ offset = first * page /\ offset + len = last * page
  BY <1>1, <1>2, <1>4, <1>5, <1>6
<1> QED BY <1>7 DEF first, last

LEMMA DivAtMost == ASSUME NEW n \in Nat, NEW u \in Nat \ {0} PROVE n \div u <= n
OBVIOUS

LEMMA CeilOfProduct ==
    ASSUME NEW q \in Nat, NEW u \in Nat \ {0}
    PROVE  DivCeil(q * u, u) = q
<1> DEFINE n == q * u
           c == DivCeil(n, u)
<1>1. n \in Nat
  OBVIOUS
<1> HIDE DEF n
<1>2. c \in Nat /\ c * u \in Nat /\ n <= c * u /\ c * u < n + u
  BY <1>1, CeilIs
<1>3. c <= q
  BY <1>1, CeilAtMost DEF n
<1>4. q <= c
  <2> SUFFICES ASSUME c + 1 <= q PROVE FALSE
    BY <1>2
  <2>1. (c + 1) * u <= n
    BY <1>2, ProductMono DEF n
  <2>2. (c + 1) * u = c * u + u
    BY <1>2
  <2> QED BY <1>1, <1>2, <2>1, <2>2
<1> HIDE DEF c
<1>5. c = q
  BY <1>2, <1>3, <1>4
<1> QED BY <1>5 DEF c, n

(* The pages of a number of whole pages that the integer type holds.       *)
LEMMA PagesOf ==
    ASSUME NEW offset \in Nat, NEW len \in Nat \ {0}, NEW page \in Nat \ {0},
           offset % page = 0, len % page = 0, offset + len <= MaxInt
    PROVE  {p \in 0 .. MaxInt : \E b \in offset .. offset + len - 1 : b \div page = p}
             = (offset \div page) .. ((offset + len) \div page) - 1
<1> DEFINE to == offset + len
           first == offset \div page
           last == to \div page
           pages == {p \in 0 .. MaxInt : \E b \in offset .. to - 1 : b \div page = p}
<1>1. to \in Nat /\ offset < to /\ to <= MaxInt /\ offset + len - 1 = to - 1 /\ MaxInt \in Nat
  BY MaxIntAssumption
<1>2. last \in Nat /\ to = last * page
  BY WholePages
<1> HIDE DEF to
<1>3. {b \div page : b \in offset .. to - 1} = first .. DivCeil(to, page) - 1
  BY <1>1, TouchedSlots
<1>4. DivCeil(to, page) = last
  BY <1>2, CeilOfProduct
<1>5. ASSUME NEW b \in offset .. to - 1
      PROVE  b \div page \in 0 .. MaxInt
  <2>1. b \in Nat /\ b <= MaxInt
    BY <1>1
  <2>2. b \div page \in Nat /\ b \div page <= b
    BY <2>1, DivIs, DivAtMost
  <2> QED BY <1>1, <2>1, <2>2
<1>6. pages = {b \div page : b \in offset .. to - 1}
  BY <1>5
<1>7. pages = first .. last - 1
  BY <1>3, <1>4, <1>6
<1>8. {p \in 0 .. MaxInt : \E b \in offset .. offset + len - 1 : b \div page = p} = pages
  BY <1>1
<1> QED BY <1>7, <1>8 DEF to

(* The padded end of the blob is a number too: a page is no larger than    *)
(* the unit.                                                               *)
LEMMA PaddedEnd ==
    ASSUME GeometryOk, size > 0, NEW page \in Pages
    PROVE  /\ page \in Nat \ {0} /\ DivCeil(size, page) \in Nat
           /\ BlobPageEnd(page) = DivCeil(size, page) * page
           /\ DivCeil(size, page) * page \in Nat /\ size <= DivCeil(size, page) * page
<1> DEFINE c == DivCeil(size, page)
<1>1. /\ page \in Nat \ {0} /\ size \in Nat /\ unit \in Nat /\ page <= unit
      /\ size + (unit - 1) <= MaxInt /\ MaxInt \in Nat
  BY PageIsSmall, MaxIntAssumption DEF GeometryOk, Registered
<1>2. c \in Nat /\ c * page \in Nat /\ size <= c * page /\ c * page < size + page
  BY <1>1, CeilIs
<1>3. c * page <= MaxInt
  BY <1>1, <1>2
<1>4. Wrap(c * page) = c * page
  BY <1>2, <1>3, NoWrap
<1> QED BY <1>1, <1>2, <1>4 DEF BlobPageEnd

(* A FETCH is granted exactly as whole pages up to the padded end.         *)
LEMMA Granted ==
    ASSUME GeometryOk, size > 0, NEW offset \in Int64, NEW len \in Int64, NEW page \in Pages
    PROVE  /\ FetchAccepted(offset, len, page) => InBlob(offset, RealLen(offset, len))
           /\ FetchAccepted(offset, len, page) <=>
                 /\ len > 0 /\ offset % page = 0 /\ len % page = 0
                 /\ Fits(offset + len)
                 /\ offset < size /\ offset + len <= DivCeil(size, page) * page
<1>1. /\ size \in Nat /\ offset \in Nat /\ len \in Nat /\ size <= MaxInt /\ MaxInt \in Nat
  BY MaxIntAssumption DEF GeometryOk, Registered, Int64
<1>2. FetchAccepted(offset, len, page) <=>
         /\ len > 0 /\ offset % page = 0 /\ len % page = 0
         /\ Fits(offset + len)
         /\ offset < size /\ offset + len <= DivCeil(size, page) * page
  BY PaddedEnd DEF FetchAccepted
<1>3. offset + RealLen(offset, len) = Least(size, offset + len)
  BY <1>1 DEF RealLen, Least
<1>4. InBlob(offset, RealLen(offset, len))
  BY <1>1, <1>3 DEF InBlob, Fits, Least
<1> QED BY <1>2, <1>4

(* A FETCH that is not granted asks for part of a page, for a page without *)
(* a byte of the blob, or for nothing; one that is granted waits for every *)
(* byte of its pages, and for no other.                                    *)
THEOREM FetchesAnswerPages == Spec => []FetchAnswersPages
<1>1. ASSUME GeometryInv PROVE FetchAnswersPages
  <2> SUFFICES ASSUME reply.call = "fetch" PROVE FetchAnswersPages
    BY DEF FetchAnswersPages
  <2>1. PICK offset, len \in Int64, page \in Pages :
          size > 0 /\ reply = FetchReply(offset, len, page)
    BY <1>1 DEF GeometryInv, ReplyOk, NoCall, Ensured, Nothing, Bad, DownloadReply, FetchReply, EventsReply
  <2> DEFINE first == offset \div page
             last == (offset + len) \div page
             padded == DivCeil(size, page)
             pages == {p \in 0 .. MaxInt : \E b \in offset .. offset + len - 1 : b \div page = p}
             whole == len > 0 /\ Fits(offset + len) /\ offset % page = 0 /\ len % page = 0
  <2>2. /\ size \in Nat /\ MaxInt \in Nat /\ offset \in Nat /\ len \in Nat /\ page \in Nat \ {0}
        /\ padded \in Nat /\ padded * page \in Nat /\ size <= padded * page
    BY <1>1, <2>1, PaddedEnd, MaxIntAssumption DEF GeometryInv, GeometryOk, Int64
  <2>3. /\ reply.offset = offset /\ reply.len = len /\ reply.page = page
        /\ reply.ok <=> whole /\ offset < size /\ offset + len <= padded * page
        /\ reply.ok => reply.ensured = RealLen(offset, len)
    BY <1>1, <2>1, Granted DEF GeometryInv, FetchReply
  <2>4. ASSUME whole
        PROVE  /\ pages = first .. last - 1
               /\ offset < size /\ offset + len <= padded * page <=> \A p \in pages : p * page < size
               /\ offset < size =>
                     {b \in 0 .. size - 1 : b \div page \in pages} =
                         offset .. offset + RealLen(offset, len) - 1
    <3>1. /\ first \in Nat /\ last \in Nat /\ first < last
          /\ offset = first * page /\ offset + len = last * page
      <4>1. len \in Nat \ {0}
        BY <2>2, <2>4
      <4> QED BY <2>2, <2>4, <4>1, WholePages
    <3>2. pages = first .. last - 1
      <4>1. /\ len \in Nat \ {0} /\ offset + len <= MaxInt
            /\ offset % page = 0 /\ len % page = 0 /\ offset \in Nat /\ page \in Nat \ {0}
        BY <2>2, <2>4 DEF Fits
      <4> QED BY <4>1, PagesOf
    <3> HIDE DEF pages, first, last, padded
    <3>3. ASSUME offset + len <= padded * page, NEW p \in pages
          PROVE  p * page < size
      <4>1. p \in Nat /\ p + 1 <= last /\ p * page \in Nat /\ (p + 1) * page = p * page + page
        BY <2>2, <3>1, <3>2
      <4>2. padded <= p <=> size <= p * page
        BY <2>2, <4>1, CeilAtMost DEF padded
      <4>3. ASSUME padded <= p PROVE FALSE
        <5>1. padded * page <= p * page
          BY <2>2, <4>1, <4>3, ProductMono
        <5>2. (p + 1) * page <= last * page
          BY <2>2, <3>1, <4>1, ProductMono
        <5> QED BY <2>2, <3>1, <3>3, <4>1, <5>1, <5>2
      <4> QED BY <2>2, <4>1, <4>2, <4>3
    <3>4. ASSUME \A p \in pages : p * page < size
          PROVE  offset < size /\ offset + len <= padded * page
      <4>1. first \in pages /\ last - 1 \in pages /\ last - 1 \in Nat
        BY <3>1, <3>2
      <4>2. (last - 1) * page \in Nat /\ (last - 1) * page < size
        BY <2>2, <3>4, <4>1
      <4>3. padded <= last - 1 <=> size <= (last - 1) * page
        BY <2>2, <4>1, CeilAtMost DEF padded
      <4>4. last <= padded
        BY <2>2, <3>1, <4>2, <4>3
      <4>5. last * page <= padded * page
        BY <2>2, <3>1, <4>4, ProductMono
      <4> QED BY <3>1, <3>4, <4>1, <4>5
    <3>5. ASSUME offset < size
          PROVE  {b \in 0 .. size - 1 : b \div page \in pages} =
                     offset .. offset + RealLen(offset, len) - 1
      <4>1. ASSUME NEW b \in 0 .. size - 1
            PROVE  b \div page \in pages <=> offset <= b /\ b < offset + len
        <5>1. b \in Nat /\ b \div page \in Nat
          <6>1. b \in Nat
            BY <2>2
          <6> QED BY <2>2, <6>1, DivIs
        <5>2. first <= b \div page <=> first * page <= b
          BY <2>2, <3>1, <5>1, DivAtLeast
        <5>3. last <= b \div page <=> last * page <= b
          BY <2>2, <3>1, <5>1, DivAtLeast
        <5>4. b \div page \in pages <=> first <= b \div page /\ ~ (last <= b \div page)
          BY <3>1, <3>2, <5>1
        <5> QED BY <2>2, <3>1, <5>1, <5>2, <5>3, <5>4
      <4>2. RealLen(offset, len) \in Nat /\ offset + RealLen(offset, len) = Least(size, offset + len)
        BY <2>2, <3>5 DEF RealLen, Least
      <4>3. \A b \in Int : b \in offset .. offset + RealLen(offset, len) - 1
                            <=> b \in 0 .. size - 1 /\ offset <= b /\ b < offset + len
        BY <2>2, <4>2 DEF Least
      <4> QED BY <4>1, <4>3
    <3> QED BY <3>2, <3>3, <3>4, <3>5
  <2>5. pages = {p \in 0 .. MaxInt : \E b \in reply.offset .. reply.offset + reply.len - 1 :
                                        b \div reply.page = p}
    BY <2>3
  <2> HIDE DEF pages, padded
  <2>6. /\ reply.ok <=> whole /\ \A p \in pages : p * page < size
        /\ reply.ok => {b \in 0 .. size - 1 : b \div page \in pages} =
                         offset .. offset + reply.ensured - 1
    BY <2>3, <2>4
  <2> QED BY <2>3, <2>5, <2>6 DEF FetchAnswersPages
<1>2. GeometryInv => FetchAnswersPages
  BY <1>1
<1> QED BY <1>2, GeometryInvariant, PTL

(* The sparse file is as long as its blob, and holds every page a FETCH    *)
(* grants if its alignment is a number of pages.                           *)
THEOREM PmemIsLongEnough == Spec => []PmemHoldsPages
<1>1. ASSUME GeometryInv PROVE PmemHoldsPages
  <2> DEFINE align == pmem.align
             blocks == DivCeil(size, align)
  <2>1. size > 0 => /\ size \in Nat /\ align \in Nat \ {0} /\ blocks \in Nat
                    /\ blocks * align \in Nat /\ size <= blocks * align
                    /\ pmem.len = blocks * align
    <3> SUFFICES ASSUME size > 0 PROVE /\ size \in Nat /\ align \in Nat \ {0} /\ blocks \in Nat
                                      /\ blocks * align \in Nat /\ size <= blocks * align
                                      /\ pmem.len = blocks * align
      OBVIOUS
    <3>1. size \in Nat /\ align \in Nat \ {0} /\ pmem.len = AlignUp(size, align)
      BY <1>1 DEF GeometryInv, GeometryOk, Registered
    <3> HIDE DEF align
    <3>2. size + (align - 1) = size + align - 1
      BY <3>1
    <3>3. pmem.len = blocks * align
      BY <3>1, <3>2 DEF AlignUp, DivCeil
    <3> QED BY <3>1, <3>3, CeilIs
  <2>2. ASSUME reply.call = "fetch", reply.ok, align % reply.page = 0
        PROVE  reply.offset + reply.len <= pmem.len
    <3>1. PICK offset, len \in Int64, page \in Pages :
            size > 0 /\ reply = FetchReply(offset, len, page)
      BY <1>1, <2>2 DEF GeometryInv, ReplyOk, NoCall, Ensured, Nothing, Bad, DownloadReply, FetchReply, EventsReply
    <3> DEFINE padded == DivCeil(size, page)
               parts == align \div page
    <3>2. reply.offset = offset /\ reply.len = len /\ reply.page = page /\ FetchAccepted(offset, len, page)
      BY <2>2, <3>1 DEF FetchReply
    <3>3. offset + len <= padded * page /\ offset \in Nat /\ len \in Nat
      BY <1>1, <3>1, <3>2, Granted DEF GeometryInv, Int64
    <3>4. page \in Nat \ {0} /\ padded \in Nat /\ padded * page \in Nat
      BY <1>1, <3>1, PaddedEnd DEF GeometryInv
    <3>5. parts \in Nat /\ align = parts * page
      <4>1. align \in Nat \ {0} /\ align % page = 0
        BY <2>1, <2>2, <3>1, <3>2
      <4> HIDE DEF align
      <4>2. parts \in Nat /\ parts * page \in Nat /\ align % page = align - parts * page
        BY <3>4, <4>1, DivIs
      <4> QED BY <4>1, <4>2
    <3> HIDE DEF parts, padded, blocks, align
    <3>6. blocks * parts \in Nat /\ blocks * align = (blocks * parts) * page
      BY <2>1, <3>1, <3>4, <3>5
    <3>7. padded <= blocks * parts <=> size <= (blocks * parts) * page
      BY <2>1, <3>1, <3>4, <3>6, CeilAtMost DEF padded
    <3>8. padded <= blocks * parts
      BY <2>1, <3>1, <3>6, <3>7
    <3>9. padded * page <= (blocks * parts) * page
      BY <3>4, <3>6, <3>8, ProductMono
    <3> QED BY <2>1, <3>1, <3>2, <3>3, <3>4, <3>6, <3>9
  <2>3. size > 0 => size <= pmem.len
    BY <2>1
  <2> QED BY <2>2, <2>3 DEF PmemHoldsPages
<1>2. GeometryInv => PmemHoldsPages
  BY <1>1
<1> QED BY <1>2, GeometryInvariant, PTL

-----------------------------------------------------------------------------
(* Events: what a read of the fanotify group is cut into.                  *)

(* Induction over numbers, as the least element of a set.                  *)
LEMMA LeastNatural ==
    ASSUME NEW T \in SUBSET Nat, T # {}
    PROVE  \E n \in T : \A m \in T : n <= m
<1> DEFINE Less == {p \in Nat \X Nat : p[1] < p[2]}
<1>1. IsWellFoundedOn(Less, Nat)
  BY NatLessThanWellFounded DEF OpToRel
<1>2. \A n, m \in Nat : m < n => <<m, n>> \in Less
  OBVIOUS
<1> HIDE DEF Less
<1>3. PICK n \in T : \A m \in T : <<m, n>> \notin Less
  BY <1>1, WFMin
<1>4. ASSUME NEW m \in T PROVE n <= m
  <2>1. n \in Nat /\ m \in Nat /\ <<m, n>> \notin Less
    BY <1>3
  <2>2. ~(m < n)
    BY <1>2, <2>1
  <2> QED BY <2>1, <2>2
<1> QED BY <1>4

(* The recursive function of Ends is one: for the first n pieces, and so   *)
(* for all.                                                                *)
LEMMA EndsExist ==
    ASSUME NEW sizes, NEW n \in Nat
    PROVE  \E g : g = [i \in 0 .. n |-> IF i = 0 THEN 0 ELSE g[i - 1] + sizes[i]]
<1> DEFINE Has(m) == \E g : g = [i \in 0 .. m |-> IF i = 0 THEN 0 ELSE g[i - 1] + sizes[i]]
           Lacking == {m \in Nat : ~Has(m)}
<1>1. SUFFICES ASSUME Lacking # {} PROVE FALSE
  OBVIOUS
<1>2. PICK m \in Lacking : \A k \in Lacking : m <= k
  BY <1>1, LeastNatural
<1>3. CASE m = 0
  <2>1. [i \in 0 .. 0 |-> 0] = [i \in 0 .. 0 |-> IF i = 0 THEN 0 ELSE [j \in 0 .. 0 |-> 0][i - 1] + sizes[i]]
    OBVIOUS
  <2>2. Has(0)
    BY <2>1
  <2> QED BY <1>2, <1>3, <2>2
<1>4. CASE m # 0
  <2>1. m - 1 \in Nat /\ Has(m - 1)
    BY <1>2, <1>4
  <2>2. PICK g : g = [i \in 0 .. m - 1 |-> IF i = 0 THEN 0 ELSE g[i - 1] + sizes[i]]
    BY <2>1
  <2> DEFINE h == [i \in 0 .. m |-> IF i = m THEN g[m - 1] + sizes[m] ELSE g[i]]
  <2>3. \A i \in 0 .. m : h[i] = IF i = 0 THEN 0 ELSE h[i - 1] + sizes[i]
    BY <2>1, <2>2, <1>4
  <2>4. h = [i \in 0 .. m |-> IF i = 0 THEN 0 ELSE h[i - 1] + sizes[i]]
    BY <2>3
  <2>5. Has(m)
    <3> HIDE DEF h
    <3> QED BY <2>4
  <2> QED BY <1>2, <2>5
<1> QED BY <1>3, <1>4

LEMMA EndsEquation ==
    ASSUME NEW sizes, Len(sizes) \in Nat
    PROVE  Ends(sizes) = [i \in 0 .. Len(sizes) |-> IF i = 0 THEN 0 ELSE Ends(sizes)[i - 1] + sizes[i]]
<1> DEFINE P(g) == g = [i \in 0 .. Len(sizes) |-> IF i = 0 THEN 0 ELSE g[i - 1] + sizes[i]]
<1>1. \E g : P(g)
  BY EndsExist
<1>2. P(CHOOSE g : P(g))
  BY <1>1
<1> QED BY <1>2 DEF Ends

(* Each piece ends its size after the one before.                          *)
LEMMA EndsAre ==
    ASSUME NEW sizes \in Seq(Nat)
    PROVE  /\ Ends(sizes)[0] = 0
           /\ \A i \in 1 .. Len(sizes) : Ends(sizes)[i] = Ends(sizes)[i - 1] + sizes[i]
           /\ \A i \in 0 .. Len(sizes) : Ends(sizes)[i] \in Nat
<1>1. /\ Ends(sizes)[0] = 0
      /\ \A i \in 1 .. Len(sizes) : Ends(sizes)[i] = Ends(sizes)[i - 1] + sizes[i]
  BY EndsEquation
<1> DEFINE Wrong == {i \in Nat : i \in 0 .. Len(sizes) /\ Ends(sizes)[i] \notin Nat}
<1>2. Wrong = {}
  <2>1. SUFFICES ASSUME Wrong # {} PROVE FALSE
    OBVIOUS
  <2>2. PICK i \in Wrong : \A k \in Wrong : i <= k
    BY <2>1, LeastNatural
  <2>3. i # 0 /\ i \in 1 .. Len(sizes) /\ i - 1 \in 0 .. Len(sizes) /\ i - 1 \in Nat
    BY <1>1, <2>2
  <2>4. Ends(sizes)[i - 1] \in Nat
    BY <2>2, <2>3
  <2>5. sizes[i] \in Nat
    BY <2>3
  <2> QED BY <1>1, <2>2, <2>3, <2>4, <2>5
<1> QED BY <1>1, <1>2

(* Pieces that are not empty start at places of their own.                 *)
LEMMA EndsRise ==
    ASSUME NEW sizes \in Seq(Nat \ {0}), NEW i \in 0 .. Len(sizes), NEW j \in 0 .. Len(sizes), i < j
    PROVE  Ends(sizes)[i] < Ends(sizes)[j]
<1> DEFINE Flat == {k \in Nat : k \in i + 1 .. Len(sizes) /\ ~(Ends(sizes)[i] < Ends(sizes)[k])}
<1>1. /\ \A k \in 1 .. Len(sizes) : Ends(sizes)[k] = Ends(sizes)[k - 1] + sizes[k] /\ sizes[k] \in Nat \ {0}
      /\ \A k \in 0 .. Len(sizes) : Ends(sizes)[k] \in Nat
  <2>1. sizes \in Seq(Nat)
    OBVIOUS
  <2> QED BY <2>1, EndsAre
<1>2. Flat = {}
  <2>1. SUFFICES ASSUME Flat # {} PROVE FALSE
    OBVIOUS
  <2>2. PICK k \in Flat : \A m \in Flat : k <= m
    BY <2>1, LeastNatural
  <2>3. k \in 1 .. Len(sizes) /\ k - 1 \in 0 .. Len(sizes) /\ k - 1 \in Nat /\ k \in 0 .. Len(sizes)
    BY <2>2
  <2>5. /\ Ends(sizes)[k - 1] \in Nat /\ Ends(sizes)[k] \in Nat /\ Ends(sizes)[i] \in Nat
        /\ Ends(sizes)[k - 1] < Ends(sizes)[k]
    <3> DEFINE end == Ends(sizes)
    <3>1. /\ end[k] = end[k - 1] + sizes[k] /\ sizes[k] \in Nat \ {0}
          /\ end[k - 1] \in Nat /\ end[k] \in Nat /\ end[i] \in Nat
      BY <1>1, <2>3
    <3> HIDE DEF end
    <3>2. end[k - 1] < end[k]
      BY <3>1
    <3> QED BY <3>1, <3>2 DEF end
  <2>4. k - 1 = i \/ Ends(sizes)[i] < Ends(sizes)[k - 1]
    <3>1. k - 1 \notin Flat
      BY <2>2, <2>3
    <3> QED BY <2>2, <2>3, <3>1
  <2>6. Ends(sizes)[i] < Ends(sizes)[k]
    BY <2>4, <2>5
  <2> QED BY <2>2, <2>6
<1> QED BY <1>2

LEMMA TotalOf ==
    ASSUME NEW sizes \in Seq(Nat)
    PROVE  /\ Len(sizes) = 0 => Total(sizes) = 0
           /\ Len(sizes) = 1 => Total(sizes) = sizes[1]
           /\ Len(sizes) = 2 => Total(sizes) = sizes[1] + sizes[2]
<1> DEFINE end == Ends(sizes)
<1>1. /\ end[0] = 0 /\ Total(sizes) = end[Len(sizes)]
      /\ \A i \in 1 .. Len(sizes) : end[i] = end[i - 1] + sizes[i] /\ sizes[i] \in Nat
  BY EndsAre DEF Total
<1> HIDE DEF end
<1>2. Len(sizes) >= 1 => end[1] = sizes[1] /\ sizes[1] \in Nat
  <2>1. 1 - 1 = 0 /\ \A n \in Nat : 0 + n = n
    OBVIOUS
  <2>2. Len(sizes) >= 1 => 1 \in 1 .. Len(sizes)
    OBVIOUS
  <2> QED BY <1>1, <2>1, <2>2
<1>3. Len(sizes) = 2 => end[2] = end[1] + sizes[2]
  <2>1. 2 - 1 = 1 /\ (Len(sizes) = 2 => 2 \in 1 .. Len(sizes))
    OBVIOUS
  <2> QED BY <1>1, <2>1
<1> QED BY <1>1, <1>2, <1>3

(* An event is longer than its metadata exactly if it is one of permission,*)
(* and then it gives a range.                                              *)
LEMMA EventSizeIs ==
    ASSUME NEW e \in Kinds
    PROVE  /\ EventSize(e) \in Nat \ {0} /\ EventSize(e) >= MetadataSize
           /\ e.perm \in BOOLEAN
           /\ e.perm <=> EventSize(e) > MetadataSize
           /\ e.perm => HasRange(e)
<1> DEFINE sizes == [i \in DOMAIN e.infos |-> InfoSize[e.infos[i]]]
<1>0. EventSize(e) = 3 + Total(sizes) /\ MetadataSize = 3
  BY DEF EventSize, MetadataSize
<1>1. CASE e = [perm |-> TRUE, infos |-> <<"range">>]
  <2>1. sizes \in Seq(Nat) /\ Len(sizes) = 1 /\ sizes[1] = 3
    <3>1. sizes = <<3>>
      BY <1>1 DEF InfoSize
    <3> QED BY <3>1
  <2>2. HasRange(e)
    BY <1>1 DEF HasRange
  <2>3. Total(sizes) = 3
    <3> HIDE DEF sizes
    <3> QED BY <2>1, TotalOf
  <2>4. e.perm = TRUE
    BY <1>1
  <2>5. EventSize(e) \in Nat \ {0} /\ EventSize(e) >= MetadataSize /\ EventSize(e) > MetadataSize
    BY <1>0, <2>3
  <2> QED BY <2>2, <2>4, <2>5, Zenon
<1>2. CASE e = [perm |-> TRUE, infos |-> <<"other", "range">>]
  <2>1. sizes \in Seq(Nat) /\ Len(sizes) = 2 /\ sizes[1] = 1 /\ sizes[2] = 3
    <3>1. sizes = <<1, 3>>
      BY <1>2 DEF InfoSize
    <3> QED BY <3>1
  <2>2. HasRange(e)
    BY <1>2 DEF HasRange
  <2>3. Total(sizes) = 1 + 3
    <3> HIDE DEF sizes
    <3> QED BY <2>1, TotalOf
  <2>4. e.perm = TRUE
    BY <1>2
  <2>5. EventSize(e) \in Nat \ {0} /\ EventSize(e) >= MetadataSize /\ EventSize(e) > MetadataSize
    BY <1>0, <2>3
  <2> QED BY <2>2, <2>4, <2>5, Zenon
<1>3. CASE e = [perm |-> FALSE, infos |-> <<>>]
  <2>1. sizes \in Seq(Nat) /\ Len(sizes) = 0
    <3>1. sizes = <<>>
      BY <1>3
    <3> QED BY <3>1
  <2>3. Total(sizes) = 0
    <3> HIDE DEF sizes
    <3> QED BY <2>1, TotalOf
  <2>4. e.perm = FALSE
    BY <1>3
  <2>5. EventSize(e) \in Nat \ {0} /\ EventSize(e) >= MetadataSize /\ ~(EventSize(e) > MetadataSize)
    BY <1>0, <2>3
  <2> QED BY <2>4, <2>5, Zenon
<1> QED BY <1>1, <1>2, <1>3 DEF Kinds

(* Of the events of a read, one starts where the one before it ends, and   *)
(* none behind the last.                                                   *)
LEMMA EventStarts ==
    ASSUME NEW es \in Seq(Kinds)
    PROVE  /\ Ends(EventSizes(es))[0] = 0 /\ SizeOf(es) = Ends(EventSizes(es))[Len(es)]
           /\ \A i \in 0 .. Len(es) : Ends(EventSizes(es))[i] \in Nat
           /\ \A i \in 1 .. Len(es) :
                 /\ Skip(Ends(EventSizes(es))[i - 1], es[i]) = Ends(EventSizes(es))[i]
                 /\ StartAt(es, Ends(EventSizes(es))[i - 1]) = {i}
                 /\ Ends(EventSizes(es))[i - 1] + MetadataSize <= SizeOf(es)
<1> DEFINE sizes == EventSizes(es)
           end == Ends(sizes)
<1>1. /\ sizes \in Seq(Nat) /\ sizes \in Seq(Nat \ {0}) /\ Len(sizes) = Len(es)
      /\ \A i \in 1 .. Len(es) : sizes[i] = EventSize(es[i]) /\ sizes[i] >= MetadataSize
  <2>1. \A i \in 1 .. Len(es) : es[i] \in Kinds /\ EventSize(es[i]) \in Nat \ {0} /\ EventSize(es[i]) >= MetadataSize
    BY EventSizeIs
  <2>2. sizes = [i \in 1 .. Len(es) |-> EventSize(es[i])]
    BY DEF EventSizes
  <2>3. sizes \in Seq(Nat \ {0}) /\ Len(sizes) = Len(es)
    BY <2>1, <2>2
  <2>4. sizes \in Seq(Nat)
    BY <2>1, <2>2
  <2> QED BY <2>1, <2>2, <2>3, <2>4
<1> HIDE DEF sizes
<1>2. /\ end[0] = 0 /\ SizeOf(es) = end[Len(es)]
      /\ \A i \in 1 .. Len(es) : end[i] = end[i - 1] + sizes[i]
      /\ \A i \in 0 .. Len(es) : end[i] \in Nat
  BY <1>1, EndsAre DEF SizeOf, Total, sizes
<1>3. \A i, j \in 0 .. Len(es) : i < j => end[i] < end[j]
  BY <1>1, EndsRise
<1> HIDE DEF end
<1>4. ASSUME NEW i \in 1 .. Len(es)
      PROVE  /\ Skip(end[i - 1], es[i]) = end[i]
             /\ \A j \in 1 .. Len(es) : end[j - 1] = end[i - 1] => j = i
             /\ end[i - 1] + MetadataSize <= end[Len(es)]
  <2>1. /\ i - 1 \in 0 .. Len(es) /\ i \in 0 .. Len(es) /\ Len(es) \in 0 .. Len(es)
        /\ end[i] = end[i - 1] + sizes[i] /\ sizes[i] = EventSize(es[i]) /\ sizes[i] >= MetadataSize
        /\ sizes[i] \in Nat
    BY <1>1, <1>2
  <2>2. Skip(end[i - 1], es[i]) = end[i]
    BY <2>1 DEF Skip
  <2>3. ASSUME NEW j \in 1 .. Len(es), end[j - 1] = end[i - 1], j # i PROVE FALSE
    <3>1. /\ j - 1 \in 0 .. Len(es) /\ end[j - 1] \in Nat /\ end[i - 1] \in Nat
          /\ j - 1 < i - 1 \/ i - 1 < j - 1
      BY <1>2, <2>1, <2>3
    <3> QED BY <1>3, <2>1, <2>3, <3>1
  <2>4. end[i] <= end[Len(es)]
    <3>1. end[i] \in Nat /\ end[Len(es)] \in Nat
      BY <1>2, <2>1
    <3>2. i = Len(es) \/ end[i] < end[Len(es)]
      BY <1>3, <2>1
    <3> QED BY <3>1, <3>2
  <2>5. end[i - 1] \in Nat /\ end[i] \in Nat /\ end[Len(es)] \in Nat
    BY <1>2, <2>1
  <2> QED BY <2>1, <2>2, <2>3, <2>4, <2>5 DEF MetadataSize
<1>5. \A i \in 1 .. Len(es) : StartAt(es, end[i - 1]) = {i}
  BY <1>4 DEF StartAt, sizes, end
<1> QED BY <1>2, <1>4, <1>5 DEF sizes, end

(* From the i-th event on, the loop goes through those before the first    *)
(* without permission, if any.                                             *)
Stops(es, i, n) ==
    /\ n \in i - 1 .. Len(es)
    /\ \A j \in i .. n : es[j].perm
    /\ n < Len(es) => ~es[n + 1].perm

Stop(es, i) == CHOOSE n \in Nat : Stops(es, i, n)

LEMMA StopIs ==
    ASSUME NEW es \in Seq(Kinds), NEW i \in 1 .. Len(es) + 1
    PROVE  /\ Stop(es, i) \in Nat /\ Stops(es, i, Stop(es, i))
           /\ \A n \in Nat : Stops(es, i, n) => n = Stop(es, i)
<1> DEFINE Stopping == {n \in Nat : n \in i - 1 .. Len(es) /\ (n < Len(es) => ~es[n + 1].perm)}
<1>1. Len(es) \in Stopping
  OBVIOUS
<1>2. PICK n \in Stopping : \A m \in Stopping : n <= m
  BY <1>1, LeastNatural
<1>3. Stops(es, i, n)
  <2> SUFFICES ASSUME NEW j \in i .. n PROVE es[j].perm
    BY <1>2 DEF Stops
  <2>1. n \in Nat /\ n \in i - 1 .. Len(es) /\ j \in Nat
    BY <1>2
  <2>2. j - 1 \in Nat /\ j - 1 \in i - 1 .. Len(es) /\ j - 1 < Len(es) /\ j - 1 < n /\ (j - 1) + 1 = j
    BY <2>1
  <2>3. j - 1 \notin Stopping
    <3> HIDE DEF Stopping
    <3> QED BY <1>2, <2>1, <2>2
  <2> QED BY <2>2, <2>3
<1>4. Stop(es, i) \in Nat /\ Stops(es, i, Stop(es, i))
  BY <1>2, <1>3 DEF Stop
<1>5. ASSUME NEW a \in Nat, NEW b \in Nat, Stops(es, i, a), Stops(es, i, b), a < b PROVE FALSE
  <2>1. a + 1 \in i .. b /\ a < Len(es)
    BY <1>5 DEF Stops
  <2> QED BY <1>5, <2>1 DEF Stops
<1>6. ASSUME NEW n1 \in Nat, Stops(es, i, n1) PROVE n1 = Stop(es, i)
  <2>1. ~(n1 < Stop(es, i)) /\ ~(Stop(es, i) < n1)
    BY <1>4, <1>5, <1>6
  <2> QED BY <1>4, <2>1
<1> QED BY <1>4, <1>6

LEMMA StopStep ==
    ASSUME NEW es \in Seq(Kinds), NEW i \in 1 .. Len(es)
    PROVE  IF es[i].perm THEN Stop(es, i) = Stop(es, i + 1) ELSE Stop(es, i) = i - 1
<1>1. CASE es[i].perm
  <2> DEFINE n == Stop(es, i + 1)
  <2>1. n \in Nat /\ Stops(es, i + 1, n)
    BY StopIs
  <2> HIDE DEF n
  <2>2. Stops(es, i, n)
    BY <1>1, <2>1 DEF Stops
  <2> QED BY <1>1, <2>1, <2>2, StopIs DEF n
<1>2. CASE ~es[i].perm
  <2>1. i - 1 \in Nat /\ Stops(es, i, i - 1)
    BY <1>2 DEF Stops
  <2>2. i \in 1 .. Len(es) + 1
    OBVIOUS
  <2> QED BY <1>2, <2>1, <2>2, StopIs
<1> QED BY <1>1, <1>2

(* What parse_events has from a cursor on, given what it has from later ones. *)
From(es, later, cursor) ==
    IF cursor + MetadataSize > SizeOf(es) THEN <<>>
    ELSE LET here == StartAt(es, cursor) IN
         IF \A i \in here : EventSize(es[i]) <= MetadataSize THEN <<>>
         ELSE LET i == CHOOSE x \in here : TRUE IN
              (IF es[i].perm /\ HasRange(es[i]) THEN <<i>> ELSE <<>>)
              \o later[Skip(cursor, es[i])]

LEMMA FromStart ==
    ASSUME NEW es \in Seq(Kinds), NEW later
    PROVE  /\ \A i \in 1 .. Len(es) :
                 From(es, later, Ends(EventSizes(es))[i - 1]) =
                     IF es[i].perm THEN <<i>> \o later[Ends(EventSizes(es))[i]] ELSE <<>>
           /\ From(es, later, Ends(EventSizes(es))[Len(es)]) = <<>>
           /\ \A cursor \in Nat : StartAt(es, cursor) = {} => From(es, later, cursor) = <<>>
<1> DEFINE end == Ends(EventSizes(es))
<1>1. /\ SizeOf(es) = end[Len(es)] /\ \A i \in 0 .. Len(es) : end[i] \in Nat
      /\ \A i \in 1 .. Len(es) :
            /\ Skip(end[i - 1], es[i]) = end[i]
            /\ StartAt(es, end[i - 1]) = {i}
            /\ end[i - 1] + MetadataSize <= SizeOf(es)
  BY EventStarts
<1> HIDE DEF end
<1>2. ASSUME NEW i \in 1 .. Len(es)
      PROVE  From(es, later, end[i - 1]) = IF es[i].perm THEN <<i>> \o later[end[i]] ELSE <<>>
  <2>1. /\ es[i] \in Kinds /\ EventSize(es[i]) \in Nat
        /\ es[i].perm <=> EventSize(es[i]) > MetadataSize
        /\ es[i].perm => HasRange(es[i])
    BY EventSizeIs
  <2>2. /\ i - 1 \in 0 .. Len(es) /\ end[i - 1] \in Nat /\ end[Len(es)] \in Nat
        /\ ~(end[i - 1] + MetadataSize > SizeOf(es))
    BY <1>1 DEF MetadataSize
  <2>3. (CHOOSE x \in {i} : TRUE) = i
    OBVIOUS
  <2>4. EventSize(es[i]) <= MetadataSize <=> ~(EventSize(es[i]) > MetadataSize)
    BY <2>1 DEF MetadataSize
  <2>5. (\A x \in {i} : EventSize(es[x]) <= MetadataSize) <=> ~es[i].perm
    BY <2>1, <2>4, Zenon
  <2>6. CASE es[i].perm
    <3>1. From(es, later, end[i - 1]) =
              LET x == CHOOSE x \in {i} : TRUE IN
              (IF es[x].perm /\ HasRange(es[x]) THEN <<x>> ELSE <<>>) \o later[Skip(end[i - 1], es[x])]
      <4> DEFINE here == StartAt(es, end[i - 1])
      <4>1. here = {i}
        BY <1>1
      <4>2. ~(\A x \in here : EventSize(es[x]) <= MetadataSize)
        BY <2>5, <2>6, <4>1, Zenon
      <4>3. From(es, later, end[i - 1]) =
              LET x == CHOOSE y \in here : TRUE IN
              (IF es[x].perm /\ HasRange(es[x]) THEN <<x>> ELSE <<>>) \o later[Skip(end[i - 1], es[x])]
        BY <2>2, <4>2, Zenon DEF From
      <4> HIDE DEF here
      <4> QED BY <4>1, <4>3
    <3>2. From(es, later, end[i - 1]) = <<i>> \o later[Skip(end[i - 1], es[i])]
      BY <2>1, <2>3, <2>6, <3>1, Zenon
    <3>3. Skip(end[i - 1], es[i]) = end[i]
      BY <1>1
    <3> QED BY <2>6, <3>2, <3>3, Zenon
  <2>7. CASE ~es[i].perm
    BY <1>1, <2>2, <2>5, <2>7, Zenon DEF From
  <2> QED BY <2>6, <2>7
<1>3. From(es, later, end[Len(es)]) = <<>>
  BY <1>1 DEF From, MetadataSize
<1>4. ASSUME NEW cursor \in Nat, StartAt(es, cursor) = {} PROVE From(es, later, cursor) = <<>>
  BY <1>4, Zenon DEF From
<1> QED BY <1>2, <1>3, <1>4 DEF end

(* The places from i to the one where the loop stops.                      *)
Run(es, i) == [k \in 1 .. Stop(es, i) - (i - 1) |-> i - 1 + k]

LEMMA RunStep ==
    ASSUME NEW es \in Seq(Kinds)
    PROVE  /\ \A i \in 1 .. Len(es) : Run(es, i) = IF es[i].perm THEN <<i>> \o Run(es, i + 1) ELSE <<>>
           /\ Run(es, Len(es) + 1) = <<>>
<1>1. Run(es, Len(es) + 1) = <<>>
  <2>1. Len(es) + 1 \in 1 .. Len(es) + 1
    OBVIOUS
  <2>2. Stop(es, Len(es) + 1) = Len(es)
    BY <2>1, StopIs DEF Stops
  <2> QED BY <2>2 DEF Run
<1>2. ASSUME NEW i \in 1 .. Len(es), ~es[i].perm PROVE Run(es, i) = <<>>
  BY <1>2, StopStep DEF Run
<1>3. ASSUME NEW i \in 1 .. Len(es), es[i].perm PROVE Run(es, i) = <<i>> \o Run(es, i + 1)
  <2> DEFINE n == Stop(es, i + 1)
  <2>1. n \in Nat /\ n \in i .. Len(es) /\ Stop(es, i) = n
    <3>1. i + 1 \in 1 .. Len(es) + 1 /\ (i + 1) - 1 = i
      OBVIOUS
    <3>2. n \in Nat /\ Stops(es, i + 1, n)
      BY <3>1, StopIs
    <3> QED BY <1>3, <3>1, <3>2, StopStep DEF Stops
  <2> HIDE DEF n
  <2>2. Run(es, i) = [k \in 1 .. n - (i - 1) |-> i - 1 + k]
    BY <2>1 DEF Run
  <2>3. Run(es, i + 1) = [k \in 1 .. n - i |-> i + k]
    BY <2>1 DEF Run, n
  <2>4. [k \in 1 .. n - (i - 1) |-> i - 1 + k] = <<i>> \o [k \in 1 .. n - i |-> i + k]
    BY <2>1
  <2> QED BY <2>2, <2>3, <2>4
<1> QED BY <1>1, <1>2, <1>3

(* parse_events is what its recursion says: there is such a function.      *)
LEMMA ParseExists ==
    ASSUME NEW es \in Seq(Kinds)
    PROVE  \E g : g = [cursor \in Nat |-> From(es, g, cursor)]
<1> DEFINE end == Ends(EventSizes(es))
           g == [cursor \in Nat |->
                    IF StartAt(es, cursor) = {} THEN <<>>
                    ELSE Run(es, CHOOSE i \in StartAt(es, cursor) : TRUE)]
<1>1. /\ \A i \in 0 .. Len(es) : end[i] \in Nat
      /\ \A i \in 1 .. Len(es) : StartAt(es, end[i - 1]) = {i}
  BY EventStarts
<1>2. \A i \in 1 .. Len(es) : g[end[i - 1]] = Run(es, i)
  <2> SUFFICES ASSUME NEW i \in 1 .. Len(es) PROVE g[end[i - 1]] = Run(es, i)
    OBVIOUS
  <2> HIDE DEF g
  <2>2. i - 1 \in 0 .. Len(es) /\ (CHOOSE x \in {i} : TRUE) = i
    OBVIOUS
  <2>1. end[i - 1] \in Nat /\ StartAt(es, end[i - 1]) = {i} /\ (CHOOSE x \in {i} : TRUE) = i
    <3> HIDE DEF end
    <3> QED BY <1>1, <2>2
  <2> USE DEF g
  <2> HIDE DEF end
  <2> QED BY <2>1
<1>3. g[end[Len(es)]] = Run(es, Len(es) + 1)
  <2>1. end[Len(es)] \in Nat
    BY <1>1
  <2>2. StartAt(es, end[Len(es)]) = {}
    <3> SUFFICES ASSUME NEW i \in 1 .. Len(es), end[i - 1] = end[Len(es)] PROVE FALSE
      BY DEF StartAt
    <3>1. From(es, g, end[i - 1]) = From(es, g, end[Len(es)])
      BY Zenon
    <3>2. end[i - 1] + MetadataSize <= end[Len(es)]
      BY EventStarts
    <3> QED BY <2>1, <3>2 DEF MetadataSize
  <2> HIDE DEF end
  <2> QED BY <2>1, <2>2, RunStep
<1>4. ASSUME NEW cursor \in Nat PROVE g[cursor] = From(es, g, cursor)
  <2>1. CASE StartAt(es, cursor) = {}
    <3>1. g[cursor] = <<>>
      BY <2>1
    <3> HIDE DEF g
    <3> QED BY <2>1, <3>1, FromStart
  <2>2. CASE StartAt(es, cursor) # {}
    <3>1. PICK i \in 1 .. Len(es) : cursor = end[i - 1]
      BY <2>2 DEF StartAt
    <3>2. g[cursor] = Run(es, i)
      BY <1>2, <3>1
    <3>3. g[end[i]] = Run(es, i + 1)
      <4>1. CASE i = Len(es)
        BY <1>3, <4>1
      <4>2. CASE i < Len(es)
        <5>1. i + 1 \in 1 .. Len(es) /\ (i + 1) - 1 = i
          BY <4>2
        <5> HIDE DEF g, end
        <5> QED BY <1>2, <5>1
      <4> QED BY <4>1, <4>2
    <3> HIDE DEF g
    <3>4. From(es, g, cursor) = IF es[i].perm THEN <<i>> \o g[end[i]] ELSE <<>>
      BY <3>1, FromStart
    <3> QED BY <3>2, <3>3, <3>4, RunStep
  <2> QED BY <2>1, <2>2
<1>5. g = [cursor \in Nat |-> From(es, g, cursor)]
  <2>1. g = [cursor \in Nat |-> g[cursor]]
    OBVIOUS
  <2> HIDE DEF g
  <2> QED BY <1>4, <2>1
<1> QED
  <2> HIDE DEF g
  <2> QED BY <1>5

(* A read is answered up to its first event without permission.            *)
LEMMA ParsedIsRun ==
    ASSUME NEW es \in Seq(Kinds)
    PROVE  ParseEvents(es) = Run(es, 1)
<1> DEFINE end == Ends(EventSizes(es))
           P(g) == g = [cursor \in Nat |-> From(es, g, cursor)]
           parse == CHOOSE g : P(g)
<1>1. P(parse)
  BY ParseExists
<1>2. ParseEvents(es) = parse[0]
  BY DEF ParseEvents, From
<1> HIDE DEF parse
<1>3. \A cursor \in Nat : parse[cursor] = From(es, parse, cursor)
  BY <1>1
<1>4. end[0] = 0 /\ \A i \in 0 .. Len(es) : end[i] \in Nat
  BY EventStarts
<1>5. /\ parse[end[Len(es)]] = <<>>
      /\ \A i \in 1 .. Len(es) : parse[end[i - 1]] = IF es[i].perm THEN <<i>> \o parse[end[i]] ELSE <<>>
  <2>1. end[Len(es)] \in Nat /\ \A i \in 1 .. Len(es) : end[i - 1] \in Nat
    BY <1>4
  <2> QED BY <1>3, <2>1, FromStart
<1> HIDE DEF end
<1> DEFINE Wrong == {d \in Nat : d <= Len(es) /\ parse[end[Len(es) - d]] # Run(es, Len(es) - d + 1)}
<1>6. Wrong = {}
  <2> SUFFICES ASSUME Wrong # {} PROVE FALSE
    OBVIOUS
  <2>1. PICK d \in Wrong : \A c \in Wrong : d <= c
    BY LeastNatural
  <2>2. d # 0
    BY <1>5, <2>1, RunStep
  <2> DEFINE i == Len(es) - d + 1
  <2>3. i \in 1 .. Len(es) /\ i - 1 = Len(es) - d /\ i = Len(es) - (d - 1) /\ i + 1 = Len(es) - (d - 1) + 1
    BY <2>1, <2>2
  <2>4. parse[end[i]] = Run(es, i + 1)
    <3>2. d \in Nat /\ d <= Len(es)
      BY <2>1
    <3>3. d - 1 \in Nat /\ d - 1 <= Len(es) /\ ~(d <= d - 1)
      BY <2>2, <3>2
    <3>1. d - 1 \in Nat /\ d - 1 <= Len(es) /\ d - 1 \notin Wrong
      <4> HIDE DEF Wrong
      <4> QED BY <2>1, <3>3
    <3> QED BY <2>3, <3>1
  <2>5. parse[end[i - 1]] # Run(es, i)
    BY <2>1, <2>3
  <2> HIDE DEF i, Wrong
  <2> QED BY <1>5, <2>3, <2>4, <2>5, RunStep
<1>7. parse[end[0]] = Run(es, 1)
  <2>1. Len(es) \in Nat /\ Len(es) <= Len(es) /\ Len(es) - Len(es) = 0 /\ 0 + 1 = 1
    OBVIOUS
  <2>2. Len(es) \notin Wrong
    BY <1>6, Zenon
  <2> QED BY <2>1, <2>2
<1> QED BY <1>2, <1>4, <1>7

(* What is answered of a read, in the words of the property.               *)
LEMMA ParsedPrefix ==
    ASSUME NEW es \in Seq(Kinds)
    PROVE  \E n \in 0 .. Len(es) :
               /\ ParseEvents(es) = [i \in 1 .. n |-> i]
               /\ \A i \in 1 .. n : es[i].perm
               /\ n < Len(es) => ~es[n + 1].perm
<1> DEFINE n == Stop(es, 1)
<1>1. n \in Nat /\ Stops(es, 1, n)
  <2>1. 1 \in 1 .. Len(es) + 1
    OBVIOUS
  <2> QED BY <2>1, StopIs
<1>2. ParseEvents(es) = [i \in 1 .. n - 0 |-> 0 + i]
  BY ParsedIsRun DEF Run
<1> HIDE DEF n
<1>3. [i \in 1 .. n - 0 |-> 0 + i] = [i \in 1 .. n |-> i]
  BY <1>1
<1> QED BY <1>1, <1>2, <1>3 DEF Stops

(* However many events a read returns: parse_events finds every one that   *)
(* asks for permission, in order, up to an overflow event, and no other.   *)
THEOREM LostAreBehindOverflow == Spec => []LostOnlyAfterOverflow
<1>1. GeometryInv => LostOnlyAfterOverflow
  <2> SUFFICES ASSUME GeometryInv, reply.call = "events"
               PROVE  \E n \in 0 .. Len(reply.read) :
                          /\ reply.handled = [i \in 1 .. n |-> i]
                          /\ \A i \in 1 .. n : reply.read[i].perm
                          /\ n < Len(reply.read) => ~reply.read[n + 1].perm
    BY DEF LostOnlyAfterOverflow
  <2>1. PICK es \in Seq(Kinds) : reply = EventsReply(es)
    BY DEF GeometryInv, ReplyOk, NoCall, Ensured, Bad, Nothing, DownloadReply, FetchReply
  <2>2. reply.read = es /\ reply.handled = ParseEvents(es)
    BY <2>1 DEF EventsReply
  <2> QED BY <2>2, ParsedPrefix
<1> QED BY <1>1, GeometryInvariant, PTL
=============================================================================
