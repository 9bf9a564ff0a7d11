----------------------------- MODULE NetDevRing -----------------------------
(***************************************************************************)
(* The single-producer, single-consumer descriptor ring that the network   *)
(* stack shares with a driver (src/src/phase4_netdev/netdev_ring.c).       *)
(*                                                                         *)
(* Each access to shared memory is a step.  Two constants say what the     *)
(* hardware guarantees.  Ordered: the accesses of one side are seen in     *)
(* program order, as between tasks of one CPU.  It is not what the         *)
(* barriers that netdev_ring.c names would give on several CPUs: none      *)
(* stands between the read of the slot and the store of tail (:43-44).     *)
(* Widths: whether a 64-bit counter is one access, as on a 64-bit machine, *)
(* or two, as on the target, or either.                                    *)
(***************************************************************************)
EXTENDS Integers, Sequences

CONSTANTS
    ring_size,
    WORD,          \* 2^32: values of half a counter
    Bufs,          \* NetDevBuf pointers
    None,          \* no buffer; also the contents of a slot never written
    Ordered,
    Widths,        \* values that atomic64 may have
    Carry          \* bound: whether counters in two words go past their first carry

(* What netdev_ring_init requires of the size: a power of two. *)
RingSizeOK(n) == \E k \in 0 .. n : n = 2 ^ k

SEQ_MOD == WORD * WORD

(* Of two powers of two the smaller divides the larger; this is said apart *)
(* because the provers do not reason about ^.                              *)
ASSUME NetDevRingAssumption ==
    /\ WORD \in Nat /\ ring_size \in Nat /\ ring_size < SEQ_MOD
    /\ RingSizeOK(ring_size) /\ RingSizeOK(WORD)
    /\ ring_size > 0 /\ SEQ_MOD % ring_size = 0
    /\ None \notin Bufs
    /\ Ordered \in BOOLEAN /\ Widths \subseteq BOOLEAN /\ Carry \in BOOLEAN

VARIABLES
    head, tail,    \* the shared counters, each a pair of words
    slots,
    atomic64,      \* the machine's width: never changes
    p,             \* the producer: where it is, what it has read and must still access
    c,             \* the consumer, likewise
    flight,        \* history: buffers accepted by publish and not yet consumed
    out            \* history: what the last consume returned, and what was due

vars == <<head, tail, slots, atomic64, p, c, flight, out>>

Halves == {"hi", "lo"}
Counter(n) == [hi |-> (n \div WORD) % WORD, lo |-> n % WORD]
Num(x) == x.hi * WORD + x.lo
Minus(a, b) == (Num(a) - Num(b) + SEQ_MOD) % SEQ_MOD
Succ(x) == Counter(Num(x) + 1)
SlotOf(x) == Num(x) % ring_size

(* The words of a counter that one access touches. *)
Accesses == IF atomic64 THEN {Halves} ELSE {{"hi"}, {"lo"}}

(* old with the words in ws taken from new. *)
Mixed(old, new, ws) == [w \in Halves |-> IF w \in ws THEN new[w] ELSE old[w]]

Idle == [pc |-> "idle", seen |-> Counter(0), todo |-> {}, buf |-> None]

(* netdev_ring_init; the slots come from osal_malloc. *)
Init ==
    /\ head = Counter(0) /\ tail = Counter(0)
    /\ slots = [i \in 0 .. ring_size - 1 |-> None]
    /\ atomic64 \in Widths
    /\ p = Idle /\ c = Idle
    /\ flight = <<>>
    /\ out = [got |-> None, due |-> None]

-----------------------------------------------------------------------------
(* netdev_ring_publish: read the counters, then store the slot and head.   *)
(* The producer's own counter is not changed by anybody else.              *)

publish(b) ==
    /\ p.pc = "idle"
    /\ atomic64 \/ Carry \/ Num(head) < WORD - 1
    /\ p' = [Idle EXCEPT !.pc = "load", !.todo = Halves, !.buf = b]
    /\ UNCHANGED <<head, tail, slots, atomic64, c, flight, out>>

(* Mutation of Full: > for >=. *)
Full_late(t) == Minus(head, t) > ring_size

Full(t) == Minus(head, t) >= ring_size

publish_load(ws) ==
    /\ p.pc = "load" /\ ws \subseteq p.todo
    /\ LET t    == Mixed(p.seen, tail, ws)
           left == p.todo \ ws
       IN
       \/ /\ left # {}
          /\ p' = [p EXCEPT !.seen = t, !.todo = left]
          /\ UNCHANGED flight
       \/ /\ left = {} /\ Full(t)
          /\ p' = Idle
          /\ UNCHANGED flight
       \/ /\ left = {} /\ ~ Full(t)
          /\ p' = [p EXCEPT !.pc = "store", !.seen = Succ(head), !.todo = Halves \cup {"slot"}]
          /\ flight' = Append(flight, p.buf)
    /\ UNCHANGED <<head, tail, slots, atomic64, c, out>>

(* p.seen is now the value that head is to get. *)
ProducerDone(left) == IF left = {} THEN Idle ELSE [p EXCEPT !.todo = left]

publish_slot ==
    /\ p.pc = "store" /\ "slot" \in p.todo
    /\ slots' = [slots EXCEPT ![(Num(p.seen) + SEQ_MOD - 1) % ring_size] = p.buf]
    /\ p' = ProducerDone(p.todo \ {"slot"})
    /\ UNCHANGED <<head, tail, atomic64, c, flight, out>>

(* Mutation of ReleaseOK: no release barrier. *)
ReleaseOK_none == TRUE

(* barrier_release: head is stored after the slot. *)
ReleaseOK == Ordered => "slot" \notin p.todo

publish_head(ws) ==
    /\ p.pc = "store" /\ ws \subseteq p.todo /\ ReleaseOK
    /\ head' = Mixed(head, p.seen, ws)
    /\ p' = ProducerDone(p.todo \ ws)
    /\ out' = [got |-> None, due |-> None]
    /\ UNCHANGED <<tail, slots, atomic64, c, flight>>

-----------------------------------------------------------------------------
(* netdev_ring_consume: read the counters, then read the slot and store    *)
(* tail.                                                                   *)

consume ==
    /\ c.pc = "idle"
    /\ c' = [Idle EXCEPT !.pc = "load", !.todo = Halves \cup {"slot"}]
    /\ UNCHANGED <<head, tail, slots, atomic64, p, flight, out>>

(* With the counters read, the slot may already be, when nothing orders    *)
(* the two.  The halves are then to be stored to tail.                     *)
consume_load(ws) ==
    /\ c.pc = "load" /\ ws \subseteq c.todo
    /\ LET h    == Mixed(c.seen, head, ws)
           left == c.todo \ ws
       IN
       \/ /\ left \cap Halves # {}
          /\ c' = [c EXCEPT !.seen = h, !.todo = left]
       \/ /\ left \cap Halves = {} /\ h = tail
          /\ c' = Idle
       \/ /\ left \cap Halves = {} /\ h # tail
          /\ c' = [c EXCEPT !.pc = "store", !.seen = Succ(tail), !.todo = left \cup Halves]
    /\ UNCHANGED <<head, tail, slots, atomic64, p, flight, out>>

(* The call returns with its last access. *)
ConsumerDone(left, buf) ==
    IF left # {}
    THEN /\ c' = [c EXCEPT !.todo = left, !.buf = buf]
         /\ UNCHANGED <<flight, out>>
    ELSE /\ c' = Idle
         /\ out' = [got |-> buf, due |-> IF flight = <<>> THEN None ELSE Head(flight)]
         /\ flight' = IF flight = <<>> THEN <<>> ELSE Tail(flight)

(* Mutation of AcquireOK: no acquire barrier. *)
AcquireOK_none == TRUE

(* barrier_acquire: the slot is read after head. *)
AcquireOK == Ordered => c.pc = "store"

(* Until tail is complete its slot is the one before c.seen. *)
SlotToRead ==
    IF c.pc = "load" THEN SlotOf(tail) ELSE (Num(c.seen) + SEQ_MOD - 1) % ring_size

consume_slot ==
    /\ "slot" \in c.todo /\ AcquireOK
    /\ ConsumerDone(c.todo \ {"slot"}, slots[SlotToRead])
    /\ UNCHANGED <<head, tail, slots, atomic64, p>>

(* In program order the slot is read before tail is stored. *)
consume_tail(ws) ==
    /\ c.pc = "store" /\ ws \subseteq c.todo
    /\ Ordered => "slot" \notin c.todo
    /\ tail' = Mixed(tail, c.seen, ws)
    /\ ConsumerDone(c.todo \ ws, c.buf)
    /\ UNCHANGED <<head, slots, atomic64, p>>

-----------------------------------------------------------------------------
Next ==
    \/ \E b \in Bufs : publish(b)
    \/ publish_slot \/ consume \/ consume_slot
    \/ \E ws \in Accesses : publish_load(ws) \/ publish_head(ws) \/ consume_load(ws) \/ consume_tail(ws)

Spec == Init /\ [][Next]_vars

-----------------------------------------------------------------------------
(* Type invariant of the counters, the slots and the two sides; no more    *)
(* buffers are in flight than the ring has slots, counting the one that a  *)
(* consume under way may already have given up.                            *)
Counters == [hi : 0 .. WORD - 1, lo : 0 .. WORD - 1]
Sides == [pc : {"idle", "load", "store"}, seen : Counters,
          todo : SUBSET (Halves \cup {"slot"}), buf : Bufs \cup {None}]
TypeOK ==
    /\ head \in Counters /\ tail \in Counters
    /\ atomic64 \in BOOLEAN
    /\ slots \in [0 .. ring_size - 1 -> Bufs \cup {None}]
    /\ p \in Sides /\ c \in Sides
    /\ flight \in Seq(Bufs) /\ Len(flight) <= IF c.pc = "store" THEN ring_size + 1 ELSE ring_size

(* "SPSC lockless ring" (netdev.h:100): each consume that succeeds returns *)
(* the oldest buffer published and not yet consumed, so none is lost,      *)
(* repeated, reordered or read from a slot not yet filled.                 *)
InOrder == out.got = out.due

(* The producer is never about to fill the slot that the consumer is about *)
(* to read.                                                                *)
SlotsApart ==
    p.pc = "store" /\ "slot" \in p.todo /\ c.pc = "store" /\ "slot" \in c.todo =>
       (Num(p.seen) + SEQ_MOD - 1) % ring_size # SlotToRead

=============================================================================
