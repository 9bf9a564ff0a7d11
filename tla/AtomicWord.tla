----------------------------- MODULE AtomicWord -----------------------------
(***************************************************************************)
(* What the atomic_* routines promise: a word in memory to which each call *)
(* applies its operation in one indivisible step between the call and the  *)
(* return, and which hands back the value it found there.                  *)
(***************************************************************************)
CONSTANTS
    Threads,
    Words,         \* the values of the word
    Ops            \* the operations callers ask for, functions from Words to Words

VARIABLES
    word,
    state,         \* of each thread: "idle", "called", "done"
    op,            \* the operation of its current call
    ret          \* what the call found in the word, from which its result follows

vars == <<word, state, op, ret>>

Init ==
    /\ word \in Words
    /\ state = [t \in Threads |-> "idle"]
    /\ op \in [Threads -> Ops]
    /\ ret \in [Threads -> Words]

Call(t) ==
    /\ state[t] = "idle"
    /\ state' = [state EXCEPT ![t] = "called"]
    /\ \E f \in Ops : op' = [op EXCEPT ![t] = f]
    /\ UNCHANGED <<word, ret>>

Apply(t) ==
    /\ state[t] = "called"
    /\ state' = [state EXCEPT ![t] = "done"]
    /\ word' = op[t][word]
    /\ ret' = [ret EXCEPT ![t] = word]
    /\ UNCHANGED op

Return(t) ==
    /\ state[t] = "done"
    /\ state' = [state EXCEPT ![t] = "idle"]
    /\ UNCHANGED <<word, op, ret>>

Next == \E t \in Threads : Call(t) \/ Apply(t) \/ Return(t)

Spec == Init /\ [][Next]_vars

=============================================================================
