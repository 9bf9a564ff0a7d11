------------------------ MODULE NetDevRegistryProofs ------------------------
(***************************************************************************)
(* The driver registry is a bounded map, for any names, drivers and size   *)
(* of the array.                                                           *)
(***************************************************************************)
EXTENDS NetDevRegistry, FiniteSetTheorems, SequenceTheorems, TLAPS

Entries == [name : Names, iface : Ifaces]

(* Sequences of entries with no name twice, and the map such a sequence is. *)
Tables == {s \in Seq(Entries) :
             \A i, j \in 1 .. Len(s) : s[i].name = s[j].name => i = j}
At(s, n) == {i \in 1 .. Len(s) : s[i].name = n}
MapOf(s) == [n \in Names |-> IF At(s, n) # {} THEN s[First(At(s, n))].iface ELSE NULL]

LEMMA AtOne ==
  ASSUME NEW s \in Tables, NEW i \in 1 .. Len(s)
  PROVE  At(s, s[i].name) = {i} /\ First({i}) = i /\ s[i] \in Entries
<1>1. At(s, s[i].name) = {i} /\ s[i] \in Entries
  BY DEF At, Tables
<1>2. First({i}) = i
  BY DEF First
<1> QED
  BY <1>1, <1>2

LEMMA MapAt ==
  ASSUME NEW s \in Tables
  PROVE  /\ \A i \in 1 .. Len(s) : s[i].name \in Names /\ MapOf(s)[s[i].name] = s[i].iface
                                   /\ s[i].iface \in Ifaces /\ s[i].iface # NULL
         /\ \A n \in Names : At(s, n) = {} => MapOf(s)[n] = NULL
         /\ \A n \in Names : At(s, n) # {} <=> MapOf(s)[n] # NULL
<1> USE NetDevRegistryAssumption
<1>1. ASSUME NEW i \in 1 .. Len(s)
      PROVE  s[i].name \in Names /\ MapOf(s)[s[i].name] = s[i].iface
             /\ s[i].iface \in Ifaces /\ s[i].iface # NULL
  BY AtOne DEF MapOf, Entries
<1>2. ASSUME NEW n \in Names, At(s, n) = {} PROVE MapOf(s)[n] = NULL
  BY <1>2 DEF MapOf
<1>3. ASSUME NEW n \in Names, At(s, n) # {} PROVE MapOf(s)[n] # NULL
  <2>1. PICK i \in 1 .. Len(s) : s[i].name = n
    BY <1>3 DEF At
  <2> QED
    BY <1>1, <2>1
<1> QED
  BY <1>1, <1>2, <1>3

LEMMA MapType ==
  ASSUME NEW s \in Tables PROVE MapOf(s) \in [Names -> Ifaces \cup {NULL}]
<1>1. ASSUME NEW m \in Names PROVE MapOf(s)[m] \in Ifaces \cup {NULL}
  <2>1. CASE At(s, m) # {}
    BY <2>1, MapAt DEF At
  <2>2. CASE At(s, m) = {}
    BY <2>2, MapAt
  <2> QED
    BY <2>1, <2>2
<1> QED
  BY <1>1 DEF MapOf

(* A map is known by its values. *)
LEMMA MapIs ==
  ASSUME NEW s \in Tables, NEW f \in [Names -> Ifaces \cup {NULL}],
         \A i \in 1 .. Len(s) : f[s[i].name] = s[i].iface,
         \A n \in Names : At(s, n) = {} => f[n] = NULL
  PROVE  MapOf(s) = f
<1>1. ASSUME NEW n \in Names PROVE MapOf(s)[n] = f[n]
  <2>1. CASE At(s, n) = {}
    BY <2>1, MapAt
  <2>2. CASE At(s, n) # {}
    <3>1. PICK i \in 1 .. Len(s) : s[i].name = n
      BY <2>2 DEF At
    <3> QED
      BY <3>1, MapAt
  <2> QED
    BY <2>1, <2>2
<1>2. MapOf(s) = [n \in Names |-> MapOf(s)[n]]
  BY DEF MapOf
<1> QED
  BY <1>1, <1>2

LEMMA NamesCounted ==
  ASSUME NEW s \in Tables, NEW n \in 0 .. Len(s)
  PROVE  Cardinality({s[i].name : i \in 1 .. n}) = n
<1> DEFINE T == {s[i].name : i \in 1 .. n}
           f == [i \in 1 .. n |-> s[i].name]
<1>0. n \in Nat /\ \A i \in 1 .. n : i \in 1 .. Len(s)
  BY DEF Tables
<1>1. f \in Surjection(1 .. n, T)
  BY DEF Surjection
<1>2. f \in Injection(1 .. n, T)
  <2>1. f \in [1 .. n -> T]
    OBVIOUS
  <2>2. \A i, j \in 1 .. n : s[i].name = s[j].name => i = j
    BY <1>0 DEF Tables
  <2>3. \A i, j \in 1 .. n : f[i] = f[j] => i = j
    BY <2>2
  <2> HIDE DEF f, T
  <2> QED
    BY <2>1, <2>3 DEF Injection, IsInjective
<1>3. IsFiniteSet(1 .. n) /\ Cardinality(1 .. n) = n
  BY <1>0, FS_Interval
<1> QED
  BY <1>1, <1>2, <1>3, FS_Surjection

LEMMA Known ==
  ASSUME NEW s \in Tables
  PROVE  {n \in Names : MapOf(s)[n] # NULL} = {s[i].name : i \in 1 .. Len(s)}
BY MapAt DEF At

-----------------------------------------------------------------------------
LEMMA Appended ==
  ASSUME NEW s \in Tables, NEW n \in Names, NEW x \in Ifaces, At(s, n) = {}
  PROVE  LET a == Append(s, [name |-> n, iface |-> x]) IN
         a \in Tables /\ Len(a) = Len(s) + 1 /\ MapOf(a) = [MapOf(s) EXCEPT ![n] = x]
<1> DEFINE e == [name |-> n, iface |-> x]
           a == Append(s, e)
<1>1. s \in Seq(Entries) /\ e \in Entries /\ Len(s) \in Nat
  BY LenProperties DEF Tables, Entries
<1>2. a \in Seq(Entries) /\ Len(a) = Len(s) + 1 /\ a[Len(a)] = e
      /\ \A i \in 1 .. Len(s) : a[i] = s[i]
  BY <1>1, AppendProperties
<1>3. \A i \in 1 .. Len(a) : i \in 1 .. Len(s) \/ i = Len(a)
  BY <1>1, <1>2
<1>4. \A i \in 1 .. Len(s) : s[i].name # n
  BY DEF At
<1> HIDE DEF a
<1>5. a \in Tables
  BY <1>2, <1>3, <1>4 DEF Tables
<1> DEFINE f == [MapOf(s) EXCEPT ![n] = x]
<1>6. MapOf(s) \in [Names -> Ifaces \cup {NULL}]
  BY MapType
<1>7. \A i \in 1 .. Len(a) : f[a[i].name] = a[i].iface
  BY <1>2, <1>3, <1>4, <1>6, MapAt
<1>8. \A m \in Names : At(a, m) = {} => f[m] = NULL
  <2>1. ASSUME NEW m \in Names, At(a, m) = {} PROVE m # n /\ At(s, m) = {}
    BY <1>1, <1>2, <2>1 DEF At
  <2> QED
    BY <1>6, <2>1, MapAt
<1>9. MapOf(a) = f
  <2>1. f \in [Names -> Ifaces \cup {NULL}]
    BY <1>6
  <2> HIDE DEF f
  <2> QED
    BY <1>5, <1>7, <1>8, <2>1, MapIs
<1> QED
  BY <1>2, <1>5, <1>9 DEF a

(* Moving the last entry into the gap removes one name and keeps the rest. *)
LEMMA Dropped ==
  ASSUME NEW s \in Tables, NEW i \in 1 .. Len(s)
  PROVE  LET d == SubSeq([s EXCEPT ![i] = s[Len(s)]], 1, Len(s) - 1) IN
         d \in Tables /\ Len(d) = Len(s) - 1 /\ MapOf(d) = [MapOf(s) EXCEPT ![s[i].name] = NULL]
<1> DEFINE g == [s EXCEPT ![i] = s[Len(s)]]
           d == SubSeq(g, 1, Len(s) - 1)
<1>1. s \in Seq(Entries) /\ Len(s) \in Nat /\ i \in Nat /\ 1 <= i /\ i <= Len(s)
      /\ \A j \in 1 .. Len(s) : s[j] \in Entries
  BY LenProperties, AtOne DEF Tables
<1>2. \A j \in 1 .. Len(s) : g[j] = IF j = i THEN s[Len(s)] ELSE s[j]
  BY <1>1
<1>3. \A j \in 1 .. Len(s) - 1 : j \in 1 .. Len(s) /\ g[j] \in Entries
  BY <1>1, <1>2
<1> HIDE DEF g
<1>4. /\ d \in Seq(Entries) /\ Len(d) = Len(s) - 1
      /\ \A j \in 1 .. Len(s) - 1 : d[j] = g[j]
  <2>1. PICK n \in Int : n = Len(s) - 1 /\ 0 <= n
    BY <1>1
  <2>2. \A j \in 1 .. n : g[j] \in Entries
    BY <1>3, <2>1
  <2>3. /\ SubSeq(g, 1, n) \in Seq(Entries) /\ Len(SubSeq(g, 1, n)) = IF 1 <= n THEN n - 1 + 1 ELSE 0
        /\ \A j \in 1 .. n - 1 + 1 : SubSeq(g, 1, n)[j] = g[1 + j - 1]
    BY <2>2, SubSeqProperties
  <2> QED
    BY <2>1, <2>3
<1>5. \A j \in 1 .. Len(d) : /\ j \in 1 .. Len(s) /\ j # Len(s)
                             /\ d[j] = IF j = i THEN s[Len(s)] ELSE s[j]
  BY <1>1, <1>2, <1>3, <1>4
<1> HIDE DEF d
<1>6. Len(s) \in 1 .. Len(s) /\ \A j, k \in 1 .. Len(s) : s[j].name = s[k].name => j = k
  BY <1>1 DEF Tables
<1>7. d \in Tables
  BY ZenonT(60), <1>4, <1>5, <1>6 DEF Tables
<1> DEFINE f == [MapOf(s) EXCEPT ![s[i].name] = NULL]
<1>8. MapOf(s) \in [Names -> Ifaces \cup {NULL}]
  BY MapType
<1>9. ASSUME NEW j \in 1 .. Len(d) PROVE f[d[j].name] = d[j].iface
  <2>1. PICK k \in 1 .. Len(s) : d[j] = s[k] /\ k # i
    BY <1>5, <1>6
  <2>2. s[k].name # s[i].name /\ s[k].name \in Names
    BY <1>6, <2>1, MapAt
  <2> QED
    BY <1>8, <2>1, <2>2, MapAt
<1>10. ASSUME NEW m \in Names, At(d, m) = {} PROVE f[m] = NULL
  <2>1. CASE m = s[i].name
    BY <1>8, <2>1
  <2>2. CASE m # s[i].name
    <3>1. ASSUME NEW k \in 1 .. Len(s), s[k].name = m PROVE FALSE
      <4>1. CASE k = Len(s)
        <5>1. i \in 1 .. Len(d) /\ d[i] = s[k]
          BY SMTT(30), <1>1, <1>4, <1>5, <2>2, <3>1, <4>1
        <5> QED
          BY <1>10, <3>1, <5>1 DEF At
      <4>2. CASE k # Len(s)
        <5>1. k \in 1 .. Len(d) /\ d[k] = s[k]
          BY <1>1, <1>4, <1>5, <2>2, <3>1, <4>2
        <5> QED
          BY <1>10, <3>1, <5>1 DEF At
      <4> QED
        BY <4>1, <4>2
    <3>2. At(s, m) = {}
      BY <3>1 DEF At
    <3> QED
      BY <1>8, <2>2, <3>2, MapAt
  <2> QED
    BY <2>1, <2>2
<1>11. MapOf(d) = f
  <2>1. f \in [Names -> Ifaces \cup {NULL}]
    BY <1>8
  <2> HIDE DEF f
  <2> QED
    BY <1>7, <1>9, <1>10, <2>1, MapIs
<1> QED
  BY <1>4, <1>7, <1>11 DEF d, g

-----------------------------------------------------------------------------
TableInv == g_registry \in Tables /\ Len(g_registry) <= NETDEV_MAX_REGISTERED

(* The map, before and after a step, and the array it is read from. *)
LEMMA Mapping ==
  ASSUME TableInv
  PROVE  /\ Drivers = MapOf(g_registry) /\ Drivers' = MapOf(g_registry')
         /\ AsMap!Registered = {g_registry[i].name : i \in 1 .. Len(g_registry)}
         /\ Cardinality(AsMap!Registered) = Len(g_registry) /\ Len(g_registry) \in Nat
         /\ \A n \in Names : n \in AsMap!Registered <=> Matches(n) # {}
         /\ \A n \in Names : Matches(n) = At(g_registry, n)
         /\ Drivers \in [Names -> Ifaces \cup {NULL}]
<1>1. Drivers = MapOf(g_registry) /\ Drivers' = MapOf(g_registry')
  BY DEF Drivers, MapOf, At, Taken, Matches, g_count
<1>2. \A n : Matches(n) = At(g_registry, n)
  BY DEF Matches, At, g_count
<1>3. g_registry \in Tables /\ Len(g_registry) \in Nat
  BY LenProperties DEF TableInv, Tables
<1>4. AsMap!Registered = {g_registry[i].name : i \in 1 .. Len(g_registry)}
  BY <1>1, <1>3, Known DEF AsMap!Registered
<1>5. Cardinality(AsMap!Registered) = Len(g_registry)
  BY <1>3, <1>4, NamesCounted
<1>6. \A n \in Names : n \in AsMap!Registered <=> Matches(n) # {}
  BY <1>1, <1>2, <1>3, MapAt DEF AsMap!Registered
<1>7. Drivers \in [Names -> Ifaces \cup {NULL}]
  BY <1>1, <1>3, MapType
<1> QED
  BY <1>1, <1>2, <1>3, <1>4, <1>5, <1>6, <1>7

(* A call that leaves the array alone leaves the map alone. *)
LEMMA SameTable ==
  ASSUME TableInv, UNCHANGED g_registry PROVE TableInv' /\ UNCHANGED Drivers
BY Mapping DEF TableInv

LEMMA Answers == \A op, n, rc : AsMap!Answer(op, n, rc) = Answer(op, n, rc)
BY DEF Answer, AsMap!Answer

(* The abstract specification's Cardinality is this module's. *)
LEMMA Sizes == \A S : AsMap!Cardinality(S) = Cardinality(S)
BY DEF AsMap!Cardinality, Cardinality

LEMMA CallRegister ==
  ASSUME TableInv, NEW n \in Names, NEW x \in Ifaces, NetDev_Register(n, x)
  PROVE  TableInv' /\ AsMap!Register(n, x)
<1>1. CASE Len(g_registry) >= NETDEV_MAX_REGISTERED \/ Matches(n) # {}
  <2>1. n \in AsMap!Registered \/ Cardinality(AsMap!Registered) >= NETDEV_MAX_REGISTERED
    BY <1>1, Mapping
  <2>2. answer' = AsMap!Answer("register", n, -1) /\ UNCHANGED g_registry
    BY <1>1, Answers DEF NetDev_Register, g_count, Taken
  <2>3. TableInv' /\ UNCHANGED Drivers
    BY <2>2, SameTable
  <2> QED
    BY <2>1, <2>2, <2>3, Sizes DEF AsMap!Register
<1>2. CASE ~ (Len(g_registry) >= NETDEV_MAX_REGISTERED) /\ Matches(n) = {}
  <2>1. g_registry' = Append(g_registry, [name |-> n, iface |-> x])
        /\ answer' = Answer("register", n, 0)
    BY <1>2 DEF NetDev_Register, g_count, Taken
  <2>2. g_registry' \in Tables /\ Len(g_registry') = Len(g_registry) + 1
        /\ Drivers' = [Drivers EXCEPT ![n] = x]
    <3>1. At(g_registry, n) = {} /\ g_registry \in Tables
      BY <1>2, Mapping DEF TableInv
    <3>2. MapOf(g_registry') = [MapOf(g_registry) EXCEPT ![n] = x]
          /\ g_registry' \in Tables /\ Len(g_registry') = Len(g_registry) + 1
      BY <2>1, <3>1, Appended
    <3> QED
      BY <3>2, Mapping
  <2>3. TableInv'
    BY <1>2, <2>2, Mapping, NetDevRegistryAssumption DEF TableInv
  <2> QED
    <3>1. ~ (n \in AsMap!Registered \/ Cardinality(AsMap!Registered) >= NETDEV_MAX_REGISTERED)
      BY <1>2, Mapping
    <3>2. answer' = AsMap!Answer("register", n, 0)
      BY <2>1, Answers
    <3> QED
      BY <2>2, <2>3, <3>1, <3>2, Sizes DEF AsMap!Register
<1> QED
  BY <1>1, <1>2

LEMMA CallUnregister ==
  ASSUME TableInv, NEW n \in Names, NetDev_Unregister(n)
  PROVE  TableInv' /\ AsMap!Unregister(n)
<1>1. CASE Matches(n) = {}
  <2>1. Drivers[n] = NULL
    BY <1>1, Mapping DEF AsMap!Registered
  <2>2. Drivers = [Drivers EXCEPT ![n] = NULL]
    BY <2>1, Mapping
  <2> QED
    BY <1>1, <2>2, Mapping, SameTable, Answers DEF NetDev_Unregister, AsMap!Unregister
<1>2. CASE Matches(n) # {}
  <2>1. PICK i \in 1 .. Len(g_registry) : g_registry[i].name = n
    BY <1>2 DEF Matches, g_count
  <2>2. First(Matches(n)) = i
    BY <2>1, AtOne, Mapping DEF TableInv
  <2>3. g_registry' = SubSeq([g_registry EXCEPT ![i] = g_registry[Len(g_registry)]],
                             1, Len(g_registry) - 1)
        /\ answer' = Answer("unregister", n, 0)
    BY <1>2, <2>2 DEF NetDev_Unregister, DropEntry, g_count
  <2>4. g_registry' \in Tables /\ Len(g_registry') = Len(g_registry) - 1
        /\ Drivers' = [Drivers EXCEPT ![n] = NULL]
    BY <2>1, <2>3, Dropped, Mapping DEF TableInv
  <2>5. TableInv'
    BY <2>4, Mapping, NetDevRegistryAssumption DEF TableInv
  <2> QED
    BY <1>2, <2>3, <2>4, <2>5, Mapping, Answers DEF AsMap!Unregister
<1> QED
  BY <1>1, <1>2

LEMMA CallLookup ==
  ASSUME TableInv, NEW n \in Names, NetDev_Lookup(n)
  PROVE  TableInv' /\ AsMap!Lookup(n)
<1>1. Drivers[n] = IF Matches(n) = {} THEN NULL ELSE g_registry[First(Matches(n))].iface
  BY DEF Drivers, Taken
<1> QED
  BY <1>1, SameTable, Answers DEF NetDev_Lookup, AsMap!Lookup

LEMMA CallList ==
  ASSUME TableInv, NEW max \in -1 .. NETDEV_MAX_REGISTERED + 1, NetDev_List(max)
  PROVE  TableInv' /\ AsMap!List(max)
<1> DEFINE n == IF Len(g_registry) < max THEN Len(g_registry) ELSE max
           S == {g_registry[i].name : i \in 1 .. n}
           room == IF max < 0 THEN 0 ELSE max
<1>1. answer' = [Answer("list", NULL, n) EXCEPT !.names = S] /\ UNCHANGED g_registry
  BY DEF NetDev_List, g_count
<1>2. max \in Int /\ Len(g_registry) \in Nat /\ n \in Int
  BY Mapping, NetDevRegistryAssumption
<1>3. CASE max < 0
  <2>1. S = {} /\ n = max /\ room = 0
    BY <1>2, <1>3
  <2>2. Cardinality(S) = 0
    BY <2>1, FS_EmptySet
  <2> HIDE DEF S, n, room
  <2>3. S \in SUBSET AsMap!Registered /\ Cardinality(S) <= room /\ Cardinality(S) = room
        /\ answer' = [AsMap!Answer("list", NULL, IF max < 0 THEN max ELSE Cardinality(S))
                     EXCEPT !.names = S]
    BY <1>1, <1>3, <2>1, <2>2, Answers
  <2> QED
    BY <1>1, <2>3, SameTable, Sizes DEF AsMap!List, room
<1>4. CASE max >= 0
  <2>1. n \in 0 .. Len(g_registry) /\ n <= max /\ room = max
        /\ (n = max \/ n = Len(g_registry))
    BY <1>2, <1>4
  <2>2. Cardinality(S) = n
    BY <2>1, NamesCounted DEF TableInv
  <2>3. S \in SUBSET AsMap!Registered
    BY <1>2, <2>1, Mapping
  <2>4. S = AsMap!Registered \/ Cardinality(S) = room
    BY <2>1, <2>2, Mapping
  <2> HIDE DEF S, n
  <2>5. ~ (max < 0)
    BY <1>2, <1>4
  <2> HIDE DEF room
  <2>6. answer' = [AsMap!Answer("list", NULL, IF max < 0 THEN max ELSE Cardinality(S))
                  EXCEPT !.names = S]
    BY <1>1, <2>2, <2>5, Answers
  <2>7. Cardinality(S) <= room
    BY <2>1, <2>2
  <2> QED
    BY <1>1, <2>3, <2>4, <2>6, <2>7, SameTable, Sizes DEF AsMap!List, room
<1> QED
  BY <1>2, <1>3, <1>4

-----------------------------------------------------------------------------
LEMMA Start == RegistryInit => TableInv /\ AsMap!Init
<1> SUFFICES ASSUME RegistryInit PROVE TableInv /\ AsMap!Init
  OBVIOUS
<1>1. g_registry = <<>> /\ answer = Answer("none", NULL, 0)
  BY DEF RegistryInit
<1>2. TableInv
  BY <1>1, NetDevRegistryAssumption DEF TableInv, Tables
<1>3. Drivers = [n \in Names |-> NULL]
  BY <1>1 DEF Drivers, Taken, Matches, g_count
<1> QED
  BY <1>1, <1>2, <1>3, Answers DEF AsMap!Init

LEMMA Step ==
  ASSUME TableInv, [RegistryNext]_registryVars PROVE TableInv' /\ [AsMap!Next]_<<Drivers, answer>>
<1>1. CASE UNCHANGED registryVars
  BY <1>1, SameTable DEF registryVars
<1>2. CASE RegistryNext
  BY <1>2, CallRegister, CallUnregister, CallLookup, CallList DEF RegistryNext, AsMap!Next
<1> QED
  BY <1>1, <1>2

(* For any names, drivers and array size: the array with its swap-with-    *)
(* the-last removal answers every call as a bounded map would              *)
(* (netdev_registry.c:25-68).                                              *)
THEOREM RegistryIsMap == RegistrySpec => ImplementsMap
<1>1. RegistrySpec => []TableInv
  BY Start, Step, PTL DEF RegistrySpec
<1>2. RegistrySpec => AsMap!Init /\ [][AsMap!Next]_<<Drivers, answer>>
  BY <1>1, Start, Step, PTL DEF RegistrySpec
<1> QED
  BY <1>2 DEF ImplementsMap, AsMap!Spec, AsMap!vars

(* For any names, drivers and array size: the entries fit the array and no *)
(* name is registered twice.                                               *)
THEOREM RegistryTypes == RegistrySpec => []RegistryOK
<1>1. TableInv => RegistryOK
  BY DEF TableInv, Tables, Entries, RegistryOK, g_count
<1> QED
  BY <1>1, Start, Step, PTL DEF RegistrySpec
=============================================================================
