------------------------------ MODULE MCArrays ------------------------------
(***************************************************************************)
(* The program's circular and packed arrays in one run: the backlog ring,  *)
(* the driver table and the descriptor ring.  They have nothing to do with *)
(* each other, so each behaviour is a behaviour of one of them, and the    *)
(* other two stay as they start.                                           *)
(***************************************************************************)
EXTENDS Ring, NetDevRegistry, NetDevRing

VARIABLE array     \* which of the three moves

MCVars == <<ringVars, registryVars, vars, array>>

MCInit == RingInit /\ RegistryInit /\ Init /\ array \in {"ring", "registry", "netdev"}

MCNext ==
    /\ \/ array = "ring" /\ RingNext /\ UNCHANGED <<registryVars, vars>>
       \/ array = "registry" /\ RegistryNext /\ UNCHANGED <<ringVars, vars>>
       \/ array = "netdev" /\ Next /\ UNCHANGED <<ringVars, registryVars>>
    /\ UNCHANGED array

MCSpec == MCInit /\ [][MCNext]_MCVars
=============================================================================
