---------------------------- MODULE RumpAtomics -----------------------------
(***************************************************************************)
(* The atomic_* routines for the rump kernel                               *)
(* (src/src/phase1_osal/rump_atomics.c): compare-and-swap as a loop of     *)
(* lwarx and stwcx., and the other operations as a loop around it.  One    *)
(* memory access is one step.  The processor drops a thread's reservation  *)
(* when anybody stores to the word, and may drop it at any other time, as  *)
(* on a task switch.                                                       *)
(*                                                                         *)
(* An operation is the function it computes: w + v modulo 2^32 for add,    *)
(* inc and dec, w | v, w & v, the constant v for swap, and for cas the     *)
(* function that maps old to new and leaves other values alone.  Nothing   *)
(* below depends on which function it is, so callers may ask for any.      *)
(***************************************************************************)
CONSTANTS
    Threads,
    Words          \* the values of the word

VARIABLES
    word,          \* *ptr
    reserved,      \* threads that hold a reservation on it
    pc,
    kind,          \* of each thread's call: "cas" or "loop"
    op,
    old, new,      \* what atomic_cas_32 was called with
    prev,          \* what its lwarx loaded
    ret            \* what it returned

vars == <<word, reserved, pc, kind, op, old, new, prev, ret>>

Ops == [Words -> Words]

Init ==
    /\ word \in Words /\ reserved = {}
    /\ pc = [t \in Threads |-> "idle"]
    /\ kind \in [Threads -> {"cas", "loop"}]
    /\ op \in [Threads -> Ops]
    /\ old \in [Threads -> Words] /\ new \in [Threads -> Words] /\ prev \in [Threads -> Words]
    /\ ret \in [Threads -> Words]

Go(t, at, next) == pc[t] = at /\ pc' = [pc EXCEPT ![t] = next]

-----------------------------------------------------------------------------
CasOp(o, n) == [w \in Words |-> IF w = o THEN n ELSE w]

atomic_cas(t) ==
    /\ Go(t, "idle", "lwarx")
    /\ kind' = [kind EXCEPT ![t] = "cas"]
    /\ \E o, n \in Words :
       /\ old' = [old EXCEPT ![t] = o]
       /\ new' = [new EXCEPT ![t] = n]
       /\ op' = [op EXCEPT ![t] = CasOp(o, n)]
    /\ UNCHANGED <<word, reserved, prev, ret>>

(* atomic_add, atomic_or, atomic_and, atomic_swap. *)
atomic_op(t) ==
    /\ Go(t, "idle", "load")
    /\ kind' = [kind EXCEPT ![t] = "loop"]
    /\ \E f \in Ops : op' = [op EXCEPT ![t] = f]
    /\ UNCHANGED <<word, reserved, old, new, prev, ret>>

(* old = *ptr; new = f(old). *)
load(t) ==
    /\ Go(t, "load", "lwarx")
    /\ old' = [old EXCEPT ![t] = word]
    /\ new' = [new EXCEPT ![t] = op[t][word]]
    /\ UNCHANGED <<word, reserved, kind, op, prev, ret>>

(* The load of atomic_cas_32 with its comparison: on another value than    *)
(* old it returns, and the callers that loop begin again.                  *)
lwarx(t) ==
    /\ \/ /\ word = old[t]
          /\ Go(t, "lwarx", "stwcx")
          /\ UNCHANGED ret
       \/ /\ word # old[t] /\ kind[t] = "cas"
          /\ Go(t, "lwarx", "done")
          /\ ret' = [ret EXCEPT ![t] = word]
       \/ /\ word # old[t] /\ kind[t] = "loop"
          /\ Go(t, "lwarx", "load")
          /\ UNCHANGED ret
    /\ prev' = [prev EXCEPT ![t] = word]
    /\ reserved' = reserved \cup {t}
    /\ UNCHANGED <<word, kind, op, old, new>>

(* The store, which goes ahead only with the reservation. *)
stwcx(t) ==
    /\ \/ /\ t \in reserved
          /\ Go(t, "stwcx", "done")
          /\ word' = new[t] /\ reserved' = {}
          /\ ret' = [ret EXCEPT ![t] = prev[t]]
       \/ /\ t \notin reserved
          /\ Go(t, "stwcx", "lwarx")
          /\ UNCHANGED <<word, reserved, ret>>
    /\ UNCHANGED <<kind, op, old, new, prev>>

return(t) ==
    /\ Go(t, "done", "idle")
    /\ UNCHANGED <<word, reserved, kind, op, old, new, prev, ret>>

drop_reservation(t) ==
    /\ reserved' = reserved \ {t}
    /\ UNCHANGED <<word, pc, kind, op, old, new, prev, ret>>

Next ==
    \E t \in Threads :
       \/ atomic_cas(t) \/ atomic_op(t) \/ load(t) \/ lwarx(t) \/ stwcx(t) \/ return(t)
       \/ drop_reservation(t)

Spec == Init /\ [][Next]_vars

-----------------------------------------------------------------------------
(* A call that has not yet stored, or found another value than a cas asked *)
(* for, has not taken effect.                                              *)
State(t) ==
    IF pc[t] = "idle" THEN "idle" ELSE IF pc[t] = "done" THEN "done" ELSE "called"

Word == INSTANCE AtomicWord WITH state <- [t \in Threads |-> State(t)]

(* Whatever the threads interleave and whenever a reservation is dropped,  *)
(* each call of an atomic_* routine applies its operation to the word      *)
(* exactly once, in one step, and returns what it found there: no update   *)
(* is lost between the load and the stwcx. and none is applied twice by    *)
(* the retries.                                                            *)
ImplementsAtomicWord == Word!Spec

=============================================================================
