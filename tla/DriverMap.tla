----------------------------- MODULE DriverMap ------------------------------
(***************************************************************************)
(* What the driver registry promises: a bounded partial map from names to  *)
(* drivers.  "out" is the last call and its answer.                        *)
(***************************************************************************)
EXTENDS Integers, FiniteSets

CONSTANTS Names, Ifaces, Capacity, None

VARIABLES map, out

vars == <<map, out>>

Registered == {n \in Names : map[n] # None}

Answer(op, n, rc) == [op |-> op, name |-> n, rc |-> rc, iface |-> None, names |-> {}]

Init == map = [n \in Names |-> None] /\ out = Answer("none", None, 0)

Register(n, i) ==
    IF n \in Registered \/ Cardinality(Registered) >= Capacity
    THEN out' = Answer("register", n, -1) /\ UNCHANGED map
    ELSE out' = Answer("register", n, 0) /\ map' = [map EXCEPT ![n] = i]

Unregister(n) ==
    /\ map' = [map EXCEPT ![n] = None]
    /\ out' = Answer("unregister", n, IF n \in Registered THEN 0 ELSE -1)

Lookup(n) == out' = [Answer("lookup", n, 0) EXCEPT !.iface = map[n]] /\ UNCHANGED map

(* Some of the registered names, as many as fit. *)
List(max) ==
    /\ LET room == IF max < 0 THEN 0 ELSE max IN
       \E S \in SUBSET Registered :
          /\ Cardinality(S) <= room
          /\ S = Registered \/ Cardinality(S) = room
          /\ out' = [Answer("list", None, IF max < 0 THEN max ELSE Cardinality(S)) EXCEPT !.names = S]
    /\ UNCHANGED map

Next ==
    \/ \E n \in Names : Unregister(n) \/ Lookup(n) \/ \E i \in Ifaces : Register(n, i)
    \/ \E max \in -1 .. Capacity + 1 : List(max)

Spec == Init /\ [][Next]_vars

=============================================================================
