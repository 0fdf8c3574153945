---------------------------- MODULE EventBuffer ----------------------------
(* How the event loop cuts what it reads from the fanotify group into      *)
(* events, and events into info records (parse_events and parse_range in   *)
(* src/fanotify.rs).  A buffer holds whole events, as the kernel writes    *)
(* them; sizes are in units of 8 bytes.                                    *)
EXTENDS Naturals, Sequences

MetadataSize == 3
InfoSize == [range |-> 3, other |-> 1]

(* What the kernel writes: a permission event with the range of the        *)
(* access, or, when its queue has overflowed, an event without permission, *)
(* range or file.  Records of other types may precede the range, if a      *)
(* group is made to report more.                                           *)
Kinds ==
    {[perm |-> TRUE, infos |-> <<"range">>],
     [perm |-> TRUE, infos |-> <<"other", "range">>],
     [perm |-> FALSE, infos |-> <<>>]}

Buffers(n) == UNION {[1 .. k -> Kinds] : k \in 0 .. n}

(* Where pieces of the given sizes end that lie one behind the other, and  *)
(* their size together.                                                    *)
Ends(sizes) ==
    LET end[i \in 0 .. Len(sizes)] == IF i = 0 THEN 0 ELSE end[i - 1] + sizes[i]
    IN end
Total(sizes) == Ends(sizes)[Len(sizes)]

EventSize(e) == MetadataSize + Total([i \in DOMAIN e.infos |-> InfoSize[e.infos[i]]])
EventSizes(es) == [i \in DOMAIN es |-> EventSize(es[i])]

SizeOf(es) == Total(EventSizes(es))

(* The events that start at an offset of the buffer: one, or none.         *)
StartAt(es, offset) == {i \in DOMAIN es : Ends(EventSizes(es))[i - 1] = offset}

(* parse_range: the first record that gives a range.                       *)
HasRange(e) == \E i \in DOMAIN e.infos : e.infos[i] = "range"

(* Faulty variant: an event is its metadata and a range.                   *)
SkipFixed(cursor, e) == cursor + MetadataSize + InfoSize.range

Skip(cursor, e) == cursor + EventSize(e)

(* parse_events: the events that are answered, by their places.            *)
ParseEvents(es) ==
    LET parse[cursor \in Nat] ==
          IF cursor + MetadataSize > SizeOf(es) THEN <<>>
          ELSE LET here == StartAt(es, cursor) IN
               IF \A i \in here : EventSize(es[i]) <= MetadataSize THEN <<>>
               ELSE LET i == CHOOSE x \in here : TRUE IN
                    (IF es[i].perm /\ HasRange(es[i]) THEN <<i>> ELSE <<>>)
                    \o parse[Skip(cursor, es[i])]
    IN parse[0]
=============================================================================
