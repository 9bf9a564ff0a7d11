--------------------------- MODULE NetDevRegistry ---------------------------
(***************************************************************************)
(* The table of network drivers (src/src/phase4_netdev/netdev_registry.c). *)
(* The file assumes one thread, so a call is one step.  The array is       *)
(* g_registry with g_count live entries; slots past them keep what they    *)
(* held, which no call reads.                                              *)
(***************************************************************************)
EXTENDS Integers, Sequences

CONSTANTS Names, Ifaces, NETDEV_MAX_REGISTERED, NULL

ASSUME NetDevRegistryAssumption ==
    NETDEV_MAX_REGISTERED \in Nat /\ NULL \notin Ifaces

VARIABLES
    g_registry,    \* the first g_count entries
    answer         \* the last call and what it returned

registryVars == <<g_registry, answer>>

g_count == Len(g_registry)

Answer(op, name, rc) == [op |-> op, name |-> name, rc |-> rc, iface |-> NULL, names |-> {}]

RegistryInit == g_registry = <<>> /\ answer = Answer("none", NULL, 0)

(* Indices of the entries with a name; the loops stop at the first. *)
Matches(name) == {i \in 1 .. g_count : g_registry[i].name = name}
First(S) == CHOOSE i \in S : \A j \in S : i <= j

(* Mutation of Taken: only the first entry is compared. *)
Taken_first(name) == 1 \in Matches(name)

Taken(name) == Matches(name) # {}

NetDev_Register(name, iface) ==
    IF g_count >= NETDEV_MAX_REGISTERED \/ Taken(name)
    THEN answer' = Answer("register", name, -1) /\ UNCHANGED g_registry
    ELSE /\ g_registry' = Append(g_registry, [name |-> name, iface |-> iface])
         /\ answer' = Answer("register", name, 0)

(* Mutation of DropEntry: the last entry is not moved into the gap. *)
DropEntry_last(i) == SubSeq(g_registry, 1, g_count - 1)

(* The last entry fills the gap. *)
DropEntry(i) == SubSeq([g_registry EXCEPT ![i] = g_registry[g_count]], 1, g_count - 1)

NetDev_Unregister(name) ==
    IF Matches(name) = {}
    THEN answer' = Answer("unregister", name, -1) /\ UNCHANGED g_registry
    ELSE g_registry' = DropEntry(First(Matches(name))) /\ answer' = Answer("unregister", name, 0)

NetDev_Lookup(name) ==
    /\ answer' = [Answer("lookup", name, 0) EXCEPT !.iface =
                 IF Matches(name) = {} THEN NULL ELSE g_registry[First(Matches(name))].iface]
    /\ UNCHANGED g_registry

(* The count returned, and the names written to out_names. *)
NetDev_List(max_names) ==
    /\ LET n == IF g_count < max_names THEN g_count ELSE max_names
       IN answer' = [Answer("list", NULL, n) EXCEPT !.names = {g_registry[i].name : i \in 1 .. n}]
    /\ UNCHANGED g_registry

RegistryNext ==
    \/ \E name \in Names :
          \/ \E iface \in Ifaces : NetDev_Register(name, iface)
          \/ NetDev_Unregister(name) \/ NetDev_Lookup(name)
    \/ \E max \in -1 .. NETDEV_MAX_REGISTERED + 1 : NetDev_List(max)

RegistrySpec == RegistryInit /\ [][RegistryNext]_registryVars

-----------------------------------------------------------------------------
(* Type invariant: the entries fit the array and no name occurs twice.     *)
RegistryOK ==
    /\ g_registry \in Seq([name : Names, iface : Ifaces])
    /\ g_count <= NETDEV_MAX_REGISTERED
    /\ \A i, j \in 1 .. g_count : g_registry[i].name = g_registry[j].name => i = j

(* The map that the array stands for. *)
Drivers == [n \in Names |-> IF Taken(n) THEN g_registry[First(Matches(n))].iface ELSE NULL]

AsMap == INSTANCE DriverMap WITH
    Capacity <- NETDEV_MAX_REGISTERED, map <- Drivers, out <- answer, None <- NULL

(* Through any sequence of calls the array behaves as a map from names to  *)
(* drivers: removal by moving the last entry loses and mixes up none.      *)
ImplementsMap == AsMap!Spec

=============================================================================
