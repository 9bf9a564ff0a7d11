-------------------------------- MODULE Ring --------------------------------
(***************************************************************************)
(* The circular array that two parts of the program write by hand: the     *)
(* accept backlog of a listening socket (fdtable.c) and the waiter list of *)
(* a condition variable (osal_lock.c).  The names are those of fdtable.c:  *)
(* backlog_head is the index of the oldest entry and backlog_tail the next *)
(* index to fill; osal_lock.c names the two the other way round.  The      *)
(* modules that use a ring model it with a sequence; this one justifies    *)
(* that.                                                                   *)
(***************************************************************************)
EXTENDS Integers, Sequences

CONSTANTS N, Value, Nil

ASSUME RingAssumption == N \in Nat \ {0} /\ Nil \notin Value

VARIABLES backlog, backlog_head, backlog_tail, backlog_count, taken

ringVars == <<backlog, backlog_head, backlog_tail, backlog_count, taken>>

Slots == 0 .. N - 1

RingInit ==
    /\ backlog = [i \in Slots |-> Nil]
    /\ backlog_head = 0 /\ backlog_tail = 0 /\ backlog_count = 0
    /\ taken = Nil

(* Mutation of Push: the index does not wrap. *)
Push_on(x) ==
    /\ backlog_count < N
    /\ backlog' = [backlog EXCEPT ![backlog_tail] = x]
    /\ backlog_tail' = backlog_tail + 1
    /\ backlog_count' = backlog_count + 1
    /\ taken' = Nil
    /\ UNCHANGED backlog_head

(* connect, and the first half of cv_wait and cv_timedwait. *)
Push(x) ==
    /\ backlog_count < N
    /\ backlog' = [backlog EXCEPT ![backlog_tail] = x]
    /\ backlog_tail' = (backlog_tail + 1) % N
    /\ backlog_count' = backlog_count + 1
    /\ taken' = Nil
    /\ UNCHANGED backlog_head

(* accept, cv_signal, and each turn of the loop in cv_broadcast. *)
Pop ==
    /\ backlog_count > 0
    /\ backlog_head' = (backlog_head + 1) % N
    /\ backlog_count' = backlog_count - 1
    /\ taken' = backlog[backlog_head]
    /\ UNCHANGED <<backlog, backlog_tail>>

(* Mutation of Retry: the entry goes back where the next one is. *)
Retry_over ==
    /\ backlog_count > 0
    /\ backlog' = [backlog EXCEPT ![(backlog_head + 1) % N] = backlog[backlog_head]]
    /\ taken' = backlog[backlog_head]
    /\ UNCHANGED <<backlog_head, backlog_tail, backlog_count>>

(* accept that finds no free descriptor: a pop, then a push at the head. *)
Retry ==
    /\ backlog_count > 0
    /\ LET popped == (backlog_head + 1) % N
           back   == (popped + N - 1) % N
       IN /\ backlog_head' = back
          /\ backlog' = [backlog EXCEPT ![back] = backlog[backlog_head]]
    /\ backlog_count' = (backlog_count - 1) + 1
    /\ taken' = backlog[backlog_head]
    /\ UNCHANGED backlog_tail

(* The i-th live index, counted from 0. *)
Index(i) == (backlog_head + i) % N

(* The first live position that holds x. *)
Found(i, x) == backlog[Index(i)] = x /\ \A j \in 0 .. i - 1 : backlog[Index(j)] # x

(* cv_timedwait that gives up: the entries after its own move one place    *)
(* towards the head, each overwriting the one before it.                   *)
Remove(x) ==
    \E i \in 0 .. backlog_count - 1 :
       /\ Found(i, x)
       /\ backlog' = [s \in Slots |->
                        IF \E j \in i .. backlog_count - 2 : s = Index(j)
                        THEN backlog[(s + 1) % N] ELSE backlog[s]]
       /\ backlog_tail' = (backlog_tail - 1 + N) % N
       /\ backlog_count' = backlog_count - 1
       /\ taken' = Nil
       /\ UNCHANGED backlog_head

(* listen zeroes the indices and leaves the array alone. *)
Empty ==
    /\ backlog_head' = 0 /\ backlog_tail' = 0 /\ backlog_count' = 0
    /\ taken' = Nil
    /\ UNCHANGED backlog

RingNext ==
    \/ \E x \in Value : Push(x) \/ Remove(x)
    \/ Pop \/ Retry \/ Empty

RingSpec == RingInit /\ [][RingNext]_ringVars

-----------------------------------------------------------------------------
(* Type invariant: the indices stay inside the array and agree with the    *)
(* count, so that a full ring is told from an empty one.                   *)
RingInv ==
    /\ backlog \in [Slots -> Value \cup {Nil}]
    /\ backlog_head \in Slots /\ backlog_tail \in Slots
    /\ backlog_count \in 0 .. N
    /\ backlog_tail = (backlog_head + backlog_count) % N
    /\ \A i \in 0 .. backlog_count - 1 : backlog[Index(i)] \in Value

Contents == [i \in 1 .. backlog_count |-> backlog[Index(i - 1)]]

AsQueue == INSTANCE Queue WITH q <- Contents, out <- taken, None <- Nil

(* The index arithmetic of the backlog and of the waiter list implements a *)
(* bounded FIFO queue, through wrap-around, push-back and removal.         *)
ImplementsQueue == AsQueue!Spec

=============================================================================
