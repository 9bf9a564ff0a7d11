------------------------- MODULE RumpAtomicsProofs --------------------------
(***************************************************************************)
(* The atomic_* routines implement the atomic word, for any threads, any   *)
(* word size and any operation.                                            *)
(***************************************************************************)
EXTENDS RumpAtomics, TLAPS

Pcs == {"idle", "load", "lwarx", "stwcx", "done"}

TypeOK ==
    /\ word \in Words
    /\ reserved \subseteq Threads
    /\ pc \in [Threads -> Pcs]
    /\ kind \in [Threads -> {"cas", "loop"}]
    /\ op \in [Threads -> Ops]
    /\ old \in [Threads -> Words]
    /\ new \in [Threads -> Words]
    /\ prev \in [Threads -> Words]
    /\ ret \in [Threads -> Words]

(* Between the comparison and the stwcx. the loaded value is the one the   *)
(* caller expects, and the word still holds it while the reservation lasts. *)
Reserved(t) ==
    pc[t] = "stwcx" => /\ prev[t] = old[t]
                       /\ t \in reserved => word = old[t]

(* What is about to be stored is the operation's result on old. *)
Computed(t) ==
    pc[t] \in {"lwarx", "stwcx"} => new[t] = op[t][old[t]]

(* A cas is past its own load and, when its comparison fails, leaves the   *)
(* word as it is.                                                          *)
CasLeaves(t) ==
    /\ pc[t] = "load" => kind[t] = "loop"
    /\ pc[t] \in {"lwarx", "stwcx"} /\ kind[t] = "cas"
          => \A w \in Words : w # old[t] => op[t][w] = w

Inv ==
    /\ TypeOK
    /\ \A t \in Threads : Reserved(t) /\ Computed(t) /\ CasLeaves(t)

LEMMA InitInv == Init => Inv
BY DEF Init, Inv, TypeOK, Pcs, Reserved, Computed, CasLeaves

LEMMA NextInv == Inv /\ [Next]_vars => Inv'
<1> SUFFICES ASSUME Inv, [Next]_vars PROVE Inv'
  OBVIOUS
<1> USE DEF Inv, TypeOK, Pcs, Go
<1>1. ASSUME NEW t \in Threads, atomic_cas(t) PROVE Inv'
  <2> PICK o \in Words, n \in Words :
         /\ old' = [old EXCEPT ![t] = o]
         /\ new' = [new EXCEPT ![t] = n]
         /\ op' = [op EXCEPT ![t] = CasOp(o, n)]
    BY <1>1 DEF atomic_cas
  <2>1. /\ CasOp(o, n) \in Ops
        /\ CasOp(o, n)[o] = n
        /\ \A w \in Words : w # o => CasOp(o, n)[w] = w
    BY DEF CasOp, Ops
  <2>2. TypeOK'
    BY <1>1, <2>1 DEF atomic_cas
  <2>3. ASSUME NEW u \in Threads PROVE (Reserved(u) /\ Computed(u) /\ CasLeaves(u))'
    BY <1>1, <2>1 DEF atomic_cas, Reserved, Computed, CasLeaves
  <2> QED
    BY <2>2, <2>3
<1>2. ASSUME NEW t \in Threads, atomic_op(t) PROVE Inv'
  BY <1>2 DEF atomic_op, Reserved, Computed, CasLeaves
<1>3. ASSUME NEW t \in Threads, load(t) PROVE Inv'
  <2>1. op[t][word] \in Words
    BY DEF Ops
  <2>2. TypeOK'
    BY <1>3, <2>1 DEF load
  <2>3. ASSUME NEW u \in Threads PROVE (Reserved(u) /\ Computed(u) /\ CasLeaves(u))'
    BY <1>3 DEF load, Reserved, Computed, CasLeaves
  <2> QED
    BY <2>2, <2>3
<1>4. ASSUME NEW t \in Threads, lwarx(t) PROVE Inv'
  BY <1>4 DEF lwarx, Reserved, Computed, CasLeaves
<1>5. ASSUME NEW t \in Threads, stwcx(t) PROVE Inv'
  BY <1>5 DEF stwcx, Reserved, Computed, CasLeaves
<1>6. ASSUME NEW t \in Threads, return(t) PROVE Inv'
  BY <1>6 DEF return, Reserved, Computed, CasLeaves
<1>7. ASSUME NEW t \in Threads, drop_reservation(t) PROVE Inv'
  BY <1>7 DEF drop_reservation, Reserved, Computed, CasLeaves
<1>8. CASE UNCHANGED vars
  BY <1>8 DEF vars, Reserved, Computed, CasLeaves
<1> QED
  BY <1>1, <1>2, <1>3, <1>4, <1>5, <1>6, <1>7, <1>8 DEF Next

-----------------------------------------------------------------------------
(* The word a call finds and leaves: every step of a thread is a step of   *)
(* the atomic word or none.                                                *)
LEMMA StepImplements == Inv /\ [Next]_vars => [Word!Next]_(Word!vars)
<1> SUFFICES ASSUME Inv, [Next]_vars PROVE [Word!Next]_(Word!vars)
  OBVIOUS
<1> DEFINE S == [t \in Threads |-> State(t)]
<1> USE DEF Inv, TypeOK, Pcs, Go
<1>a. ASSUME NEW t \in Threads, NEW a \in Pcs, pc' = [pc EXCEPT ![t] = a]
      PROVE  S' = [S EXCEPT ![t] = IF a \in {"idle", "done"} THEN a ELSE "called"]
  BY <1>a DEF State
<1>b. S \in [Threads -> {"idle", "called", "done"}] /\ \A t \in Threads : S[t] = State(t)
  BY DEF State
<1> HIDE DEF S
<1>1. ASSUME NEW t \in Threads, atomic_cas(t) PROVE Word!Call(t)
  <2>1. PICK o \in Words, n \in Words : op' = [op EXCEPT ![t] = CasOp(o, n)]
    BY <1>1 DEF atomic_cas
  <2>2. CasOp(o, n) \in Ops
    BY DEF CasOp, Ops
  <2>3. S[t] = "idle" /\ S' = [S EXCEPT ![t] = "called"]
    BY <1>1, <1>a, <1>b DEF atomic_cas, State
  <2> QED
    BY <1>1, <2>1, <2>2, <2>3 DEF atomic_cas, Word!Call, S
<1>2. ASSUME NEW t \in Threads, atomic_op(t) PROVE Word!Call(t)
  <2>1. S[t] = "idle" /\ S' = [S EXCEPT ![t] = "called"]
    BY <1>2, <1>a, <1>b DEF atomic_op, State
  <2> QED
    BY <1>2, <2>1 DEF atomic_op, Word!Call, S
<1>c. ASSUME NEW t \in Threads, NEW a \in {"load", "lwarx", "stwcx"},
             pc[t] \in {"load", "lwarx", "stwcx"}, pc' = [pc EXCEPT ![t] = a]
      PROVE  S' = S
  <2>1. S[t] = "called"
    BY <1>b, <1>c DEF State
  <2>2. S' = [S EXCEPT ![t] = "called"]
    BY <1>a, <1>c
  <2> QED
    BY <1>b, <2>1, <2>2
<1>3. ASSUME NEW t \in Threads, load(t) PROVE UNCHANGED Word!vars
  <2>1. S' = S
    BY <1>3, <1>c DEF load
  <2> QED
    BY <1>3, <2>1 DEF load, Word!vars, S
<1>4. ASSUME NEW t \in Threads, lwarx(t) PROVE [Word!Next]_(Word!vars)
  <2>1. CASE word # old[t] /\ kind[t] = "cas"
    <3>1. S[t] = "called" /\ S' = [S EXCEPT ![t] = "done"]
      BY <1>4, <1>a, <1>b, <2>1 DEF lwarx, State
    <3>2. op[t][word] = word
      BY <1>4, <2>1 DEF lwarx, CasLeaves
    <3>3. Word!Apply(t)
      BY <1>4, <2>1, <3>1, <3>2 DEF lwarx, Word!Apply, S
    <3> QED
      BY <3>3 DEF Word!Next
  <2>2. CASE word = old[t] \/ kind[t] = "loop"
    <3>1. S' = S
      BY <1>4, <1>c, <2>2 DEF lwarx
    <3> QED
      BY <1>4, <2>2, <3>1 DEF lwarx, Word!vars, S
  <2> QED
    BY <2>1, <2>2
<1>5. ASSUME NEW t \in Threads, stwcx(t) PROVE [Word!Next]_(Word!vars)
  <2>1. CASE t \in reserved
    <3>1. S[t] = "called" /\ S' = [S EXCEPT ![t] = "done"]
      BY <1>5, <1>a, <1>b, <2>1 DEF stwcx, State
    <3>2. prev[t] = word /\ new[t] = op[t][word]
      BY <1>5, <2>1 DEF stwcx, Reserved, Computed
    <3>3. Word!Apply(t)
      BY <1>5, <2>1, <3>1, <3>2 DEF stwcx, Word!Apply, S
    <3> QED
      BY <3>3 DEF Word!Next
  <2>2. CASE t \notin reserved
    <3>1. S' = S
      BY <1>5, <1>c, <2>2 DEF stwcx
    <3> QED
      BY <1>5, <2>2, <3>1 DEF stwcx, Word!vars, S
  <2> QED
    BY <2>1, <2>2
<1>6. ASSUME NEW t \in Threads, return(t) PROVE Word!Return(t)
  <2>1. S[t] = "done" /\ S' = [S EXCEPT ![t] = "idle"]
    BY <1>6, <1>a, <1>b DEF return, State
  <2> QED
    BY <1>6, <2>1 DEF return, Word!Return, S
<1>7. ASSUME NEW t \in Threads, drop_reservation(t) PROVE UNCHANGED Word!vars
  BY <1>7 DEF drop_reservation, Word!vars, State
<1>8. CASE UNCHANGED vars
  BY <1>8 DEF vars, Word!vars, State
<1> QED
  BY <1>1, <1>2, <1>3, <1>4, <1>5, <1>6, <1>7, <1>8 DEF Next, Word!Next

(* Every behaviour of the atomic_* routines (load, lwarx, stwcx. and their *)
(* retries) is one of the atomic word: each call takes effect exactly once *)
(* and returns the value its operation was applied to.                     *)
THEOREM AtomicsImplementWord == Spec => ImplementsAtomicWord
<1>1. Init => Word!Init
  BY DEF Init, Word!Init, State
<1> QED
  BY <1>1, InitInv, NextInv, StepImplements, PTL DEF Spec, ImplementsAtomicWord, Word!Spec
=============================================================================
