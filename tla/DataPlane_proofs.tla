-------------------------- MODULE DataPlane_proofs --------------------------
(* The packets of a connection are accounted for: the ones its client      *)
(* expects an answer to are, in the order of sending, those whose answers  *)
(* wait in the socket, the one that is handled, and those that wait in the *)
(* socket to be handled.  Lemmas for each way that this changes.           *)
EXTENDS DataPlane, SequenceTheorems, TLAPS

(* An answer a to the packet p, while the ranges in G are ready.           *)
Fitting(a, p, G) ==
    /\ a.to = IF p = Malformed THEN NoId ELSE p
    /\ a.code = 200 => p \in G

(* Answers out, h packets that are handled (none or p), packets in, and    *)
(* the packets ow whose answers are expected.                              *)
Matching(out, h, p, in, ow, G) ==
    /\ Len(ow) = Len(out) + h + Len(in)
    /\ \A i \in 1 .. Len(out) : Fitting(out[i], ow[i], G)
    /\ h = 1 => ow[Len(out) + 1] = p
    /\ \A i \in 1 .. Len(in) : ow[Len(out) + h + i] = in[i]

(* The client sends a packet.                                              *)
LEMMA MatchingSend ==
    ASSUME NEW out \in Seq(Answers), NEW in \in Seq(Packets), NEW ow \in Seq(Packets), NEW G,
           NEW h \in {0, 1}, NEW p, NEW q \in Packets, Matching(out, h, p, in, ow, G)
    PROVE  Matching(out, h, p, Append(in, q), Append(ow, q), G)
<1>1. Len(out) \in Nat /\ Len(in) \in Nat /\ Len(ow) \in Nat
  BY LenProperties
<1>2. /\ Len(Append(in, q)) = Len(in) + 1 /\ Append(in, q)[Len(in) + 1] = q
      /\ \A i \in 1 .. Len(in) : Append(in, q)[i] = in[i]
  BY AppendProperties
<1>3. /\ Len(Append(ow, q)) = Len(ow) + 1 /\ Append(ow, q)[Len(ow) + 1] = q
      /\ \A i \in 1 .. Len(ow) : Append(ow, q)[i] = ow[i]
  BY AppendProperties
<1>4. ASSUME NEW i \in 1 .. Len(out) PROVE Fitting(out[i], Append(ow, q)[i], G)
  BY <1>1, <1>3 DEF Matching
<1>5. h = 1 => Append(ow, q)[Len(out) + 1] = p
  BY <1>1, <1>3 DEF Matching
<1>6. ASSUME NEW i \in 1 .. Len(in) + 1 PROVE Append(ow, q)[Len(out) + h + i] = Append(in, q)[i]
  <2>1. CASE i \in 1 .. Len(in)
    BY <1>1, <1>2, <1>3, <2>1 DEF Matching
  <2>2. CASE i = Len(in) + 1
    BY <1>1, <1>2, <1>3, <2>2 DEF Matching
  <2>3. i \in 1 .. Len(in) \/ i = Len(in) + 1
    BY <1>1
  <2> QED BY <2>1, <2>2, <2>3
<1>7. Len(ow) + 1 = Len(out) + h + (Len(in) + 1)
  BY <1>1 DEF Matching
<1> QED BY <1>2, <1>3, <1>4, <1>5, <1>6, <1>7 DEF Matching

(* The client reads an answer.                                             *)
LEMMA MatchingReceive ==
    ASSUME NEW out \in Seq(Answers), NEW in \in Seq(Packets), NEW ow \in Seq(Packets), NEW G,
           NEW h \in {0, 1}, NEW p, Matching(out, h, p, in, ow, G), out # <<>>
    PROVE  Matching(Tail(out), h, p, in, Tail(ow), G) /\ ow # <<>>
<1>1. Len(out) \in Nat \ {0} /\ Len(in) \in Nat /\ Len(ow) \in Nat
  BY EmptySeq, LenProperties
<1>2. Len(ow) = Len(out) + h + Len(in) /\ Len(ow) # 0 /\ ow # <<>>
  BY <1>1 DEF Matching
<1>3. /\ Len(Tail(out)) = Len(out) - 1
      /\ \A i \in 1 .. Len(Tail(out)) : Tail(out)[i] = out[i + 1]
  BY HeadTailProperties
<1>4. /\ Len(Tail(ow)) = Len(ow) - 1
      /\ \A i \in 1 .. Len(Tail(ow)) : Tail(ow)[i] = ow[i + 1]
  BY <1>2, HeadTailProperties
<1>5. Len(Tail(ow)) = Len(Tail(out)) + h + Len(in)
  BY <1>1, <1>2, <1>3, <1>4
<1>6. ASSUME NEW i \in 1 .. Len(Tail(out)) PROVE Fitting(Tail(out)[i], Tail(ow)[i], G)
  BY <1>1, <1>2, <1>3, <1>4 DEF Matching
<1>7. h = 1 => Tail(ow)[Len(Tail(out)) + 1] = p
  BY <1>1, <1>2, <1>3, <1>4 DEF Matching
<1>8. ASSUME NEW i \in 1 .. Len(in) PROVE Tail(ow)[Len(Tail(out)) + h + i] = in[i]
  BY <1>1, <1>2, <1>3, <1>4 DEF Matching
<1> QED BY <1>2, <1>5, <1>6, <1>7, <1>8 DEF Matching

(* The first packet of the socket is handled.                              *)
LEMMA MatchingRecv ==
    ASSUME NEW out \in Seq(Answers), NEW in \in Seq(Packets), NEW ow \in Seq(Packets), NEW G,
           NEW p, Matching(out, 0, p, in, ow, G), in # <<>>
    PROVE  Matching(out, 1, Head(in), Tail(in), ow, G)
<1>1. Len(out) \in Nat /\ Len(in) \in Nat \ {0} /\ Len(ow) \in Nat
  BY EmptySeq, LenProperties
<1>2. /\ Len(Tail(in)) = Len(in) - 1 /\ Head(in) = in[1]
      /\ \A i \in 1 .. Len(Tail(in)) : Tail(in)[i] = in[i + 1]
  BY HeadTailProperties
<1>3. Len(ow) = Len(out) + 1 + Len(Tail(in))
  BY <1>1, <1>2 DEF Matching
<1>4. ow[Len(out) + 1] = Head(in)
  BY <1>1, <1>2 DEF Matching
<1>5. ASSUME NEW i \in 1 .. Len(Tail(in)) PROVE ow[Len(out) + 1 + i] = Tail(in)[i]
  <2>1. i + 1 \in 1 .. Len(in) /\ Len(out) + 0 + (i + 1) = Len(out) + 1 + i
    BY <1>1, <1>2
  <2> QED BY <1>2, <2>1 DEF Matching
<1>6. ASSUME NEW i \in 1 .. Len(out) PROVE Fitting(out[i], ow[i], G)
  BY DEF Matching
<1> QED BY <1>3, <1>4, <1>5, <1>6 DEF Matching

(* The packet that is handled is answered.                                 *)
LEMMA MatchingAnswer ==
    ASSUME NEW out \in Seq(Answers), NEW in \in Seq(Packets), NEW ow \in Seq(Packets), NEW G,
           NEW p, NEW q, NEW a \in Answers, Fitting(a, p, G), Matching(out, 1, p, in, ow, G)
    PROVE  Matching(Append(out, a), 0, q, in, ow, G)
<1>1. Len(out) \in Nat /\ Len(in) \in Nat /\ Len(ow) \in Nat
  BY LenProperties
<1>2. /\ Len(Append(out, a)) = Len(out) + 1 /\ Append(out, a)[Len(out) + 1] = a
      /\ \A i \in 1 .. Len(out) : Append(out, a)[i] = out[i]
  BY AppendProperties
<1>3. Len(ow) = (Len(out) + 1) + 0 + Len(in)
  BY <1>1 DEF Matching
<1>4. ASSUME NEW i \in 1 .. Len(out) + 1 PROVE Fitting(Append(out, a)[i], ow[i], G)
  BY <1>1, <1>2 DEF Matching
<1>5. ASSUME NEW i \in 1 .. Len(in) PROVE ow[(Len(out) + 1) + 0 + i] = in[i]
  BY <1>1 DEF Matching
<1> QED BY <1>2, <1>3, <1>4, <1>5 DEF Matching

(* The stream is dropped.                                                  *)
LEMMA MatchingEnd ==
    ASSUME NEW out \in Seq(Answers), NEW in \in Seq(Packets), NEW ow \in Seq(Packets), NEW G,
           NEW h \in {0, 1}, NEW p, NEW q, Matching(out, h, p, in, ow, G)
    PROVE  /\ SubSeq(ow, 1, Len(out)) \in Seq(Packets)
           /\ Matching(out, 0, q, <<>>, SubSeq(ow, 1, Len(out)), G)
<1>1. Len(out) \in Nat /\ Len(in) \in Nat /\ Len(ow) \in Nat /\ Len(out) <= Len(ow)
  BY LenProperties DEF Matching
<1>2. /\ SubSeq(ow, 1, Len(out)) \in Seq(Packets) /\ Len(SubSeq(ow, 1, Len(out))) = Len(out)
      /\ \A i \in 1 .. Len(out) : SubSeq(ow, 1, Len(out))[i] = ow[i]
  BY <1>1
<1>3. Len(<<>>) = 0
  OBVIOUS
<1> QED BY <1>1, <1>2, <1>3 DEF Matching

(* More ranges get ready.                                                  *)
LEMMA MatchingGrows ==
    ASSUME NEW out, NEW in, NEW ow, NEW h, NEW p, NEW G, NEW H, G \subseteq H,
           Matching(out, h, p, in, ow, G)
    PROVE  Matching(out, h, p, in, ow, H)
BY DEF Matching, Fitting
=============================================================================
