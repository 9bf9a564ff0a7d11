------------------------------- MODULE Queue --------------------------------
(***************************************************************************)
(* A bounded first-in first-out queue of which the reader takes the oldest *)
(* entry, may hand it back, and of which an entry can be withdrawn.  "out" *)
(* is the entry the last step took.                                        *)
(***************************************************************************)
EXTENDS Integers, Sequences

CONSTANTS N, Value, None

VARIABLES q, out

vars == <<q, out>>

Init == q = <<>> /\ out = None

Push(x) ==
    /\ Len(q) < N
    /\ q' = Append(q, x)
    /\ out' = None

Pop ==
    /\ q # <<>>
    /\ q' = Tail(q)
    /\ out' = Head(q)

(* The reader took the oldest entry, could not use it and handed it back. *)
Retry ==
    /\ q # <<>>
    /\ out' = Head(q)
    /\ UNCHANGED q

FirstIndex(s, x) == CHOOSE i \in DOMAIN s : s[i] = x /\ \A j \in 1 .. i - 1 : s[j] # x

(* The first entry equal to x leaves the queue, the others keep their order. *)
Remove(x) ==
    /\ \E i \in DOMAIN q : q[i] = x
    /\ q' = SubSeq(q, 1, FirstIndex(q, x) - 1) \o SubSeq(q, FirstIndex(q, x) + 1, Len(q))
    /\ out' = None

Empty == q' = <<>> /\ out' = None

Next ==
    \/ \E x \in Value : Push(x) \/ Remove(x)
    \/ Pop \/ Retry \/ Empty

Spec == Init /\ [][Next]_vars

=============================================================================
