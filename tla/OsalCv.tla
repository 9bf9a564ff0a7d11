------------------------------- MODULE OsalCv -------------------------------
(***************************************************************************)
(* The condition variable of the OS layer and the mutex it is used with    *)
(* (src/src/phase1_osal/osal_lock.c).  A section under cv->guard is one    *)
(* step, cv_broadcast included; the rest of a call is split where another  *)
(* task can run.  The waiter ring is the sequence of its live entries      *)
(* (Ring.tla).  All waiters use the same signal bit, SIGF_SINGLE.  The     *)
(* mutex is an exec semaphore, which its owner may take again.             *)
(***************************************************************************)
EXTENDS Integers, Sequences

CONSTANTS
    Tasks,
    Timed,         \* the tasks that call cv_timedwait too, besides cv_wait
    MAX_WAITERS,   \* OSAL_CV_MAX_WAITERS
    POLLS,         \* turns of the polling loop that fit in the timeout
    MAX_NEST,      \* bound: how often a task takes the mutex
    None

ASSUME OsalCvAssumption ==
    /\ Timed \subseteq Tasks /\ None \notin Tasks
    /\ MAX_WAITERS \in Nat /\ POLLS \in Nat /\ MAX_NEST \in Nat

VARIABLES
    owner, nest,   \* of the mutex, and how often it holds it
    waiters,       \* the waiter list, oldest first
    sig,           \* SIGF_SINGLE pending at a task
    pc,            \* where a task is
    polls,         \* turns of the polling loop done
    rv,            \* result of cv_timedwait
    w,             \* the waiter that cv_signal has popped and not yet signalled
    due,           \* history: the task was popped during its current wait
    overtaken,     \* history: signallers whose popped waiter has begun another wait
    late           \* history: tasks that such a signaller has signalled

history == <<due, overtaken, late>>
vars == <<owner, nest, waiters, sig, pc, polls, rv, w, history>>

InList(t) == \E i \in DOMAIN waiters : waiters[i] = t

Waiting(t) == pc[t] \in {"unlock", "wait", "poll"}

Init ==
    /\ owner = None /\ nest = 0 /\ waiters = <<>>
    /\ sig = [t \in Tasks |-> FALSE]
    /\ pc = [t \in Tasks |-> "out"]
    /\ polls = [t \in Tasks |-> 0]
    /\ rv = [t \in Tasks |-> "none"]
    /\ w = [t \in Tasks |-> None]
    /\ due = [t \in Tasks |-> FALSE]
    /\ overtaken = {} /\ late = {}

(* A task at pc "at" goes on to "next". *)
Go(t, at, next) ==
    /\ pc[t] = at /\ w[t] = None
    /\ pc' = [pc EXCEPT ![t] = next]

-----------------------------------------------------------------------------
ObtainSemaphore(t, times) == owner \in {None, t} /\ owner' = t /\ nest' = nest + times

ReleaseSemaphore == owner' = (IF nest = 1 THEN None ELSE owner) /\ nest' = nest - 1

(* Or a trylock that returns 1.  The calls with which a task takes the     *)
(* mutex again are one step with the first: nobody can tell them apart.    *)
osal_mutex_lock(t) ==
    /\ Go(t, "out", "in")
    /\ \E times \in 1 .. MAX_NEST : ObtainSemaphore(t, times)
    /\ UNCHANGED <<waiters, sig, polls, rv, w, history>>

osal_mutex_unlock(t) ==
    /\ Go(t, "in", IF nest = 1 THEN "out" ELSE "in")
    /\ ReleaseSemaphore
    /\ UNCHANGED <<waiters, sig, polls, rv, w, history>>

(* The first part of cv_wait and cv_timedwait: drop a stale signal.  With  *)
(* its last entry gone, what a late signal did to t is over.               *)
wait_clear(t) ==
    /\ Go(t, "in", "push")
    /\ sig' = [sig EXCEPT ![t] = FALSE]
    /\ overtaken' = overtaken \cup {s \in Tasks : w[s] = t}
    /\ late' = IF InList(t) THEN late ELSE late \ {t}
    /\ UNCHANGED <<owner, nest, waiters, polls, rv, w, due>>

(* Mutation of wait_push: an overflow is ignored. *)
wait_push_over(t) ==
    /\ Go(t, "push", "unlock")
    /\ waiters' = Append(waiters, t)
    /\ UNCHANGED <<owner, nest, sig, polls, rv, w, history>>

wait_push(t) ==
    /\ Go(t, "push", "unlock")
    /\ Len(waiters) < MAX_WAITERS
    /\ waiters' = Append(waiters, t)
    /\ UNCHANGED <<owner, nest, sig, polls, rv, w, history>>

(* osal_panic freezes the task, which still holds the mutex. *)
wait_overflow(t) ==
    /\ Go(t, "push", "panic")
    /\ Len(waiters) >= MAX_WAITERS
    /\ UNCHANGED <<owner, nest, waiters, sig, polls, rv, w, history>>

(* Mutation of wait_unlock: the stale signal is dropped after the push. *)
wait_unlock_clear(t) ==
    /\ Go(t, "unlock", "wait") \/ (t \in Timed /\ Go(t, "unlock", "poll"))
    /\ ReleaseSemaphore
    /\ sig' = [sig EXCEPT ![t] = FALSE]
    /\ UNCHANGED <<waiters, polls, rv, w, history>>

(* One level only: a mutex held twice stays held.  Up to here cv_wait and  *)
(* cv_timedwait are the same.                                              *)
wait_unlock(t) ==
    /\ Go(t, "unlock", "wait") \/ (t \in Timed /\ Go(t, "unlock", "poll"))
    /\ ReleaseSemaphore
    /\ UNCHANGED <<waiters, sig, polls, rv, w, history>>

(* Wait(SIGF_SINGLE). *)
wait_wake(t) ==
    /\ Go(t, "wait", "relock")
    /\ sig[t] /\ sig' = [sig EXCEPT ![t] = FALSE]
    /\ UNCHANGED <<owner, nest, waiters, polls, rv, w, history>>

(* The call returns, and its local variables go. *)
wait_relock(t) ==
    /\ Go(t, "relock", "in")
    /\ ObtainSemaphore(t, 1)
    /\ polls' = [polls EXCEPT ![t] = 0]
    /\ rv' = [rv EXCEPT ![t] = "none"]
    /\ due' = [due EXCEPT ![t] = FALSE]
    /\ UNCHANGED <<waiters, sig, w, overtaken, late>>

(* The loop of cv_timedwait: a look at the signal, then a sleep.  After    *)
(* the last sleep the signal is not looked at again.                       *)
timed_poll(t) ==
    /\ polls[t] < POLLS
    /\ \/ /\ sig[t]
          /\ Go(t, "poll", "relock")
          /\ sig' = [sig EXCEPT ![t] = FALSE]
          /\ rv' = [rv EXCEPT ![t] = "signaled"]
          /\ UNCHANGED polls
       \/ /\ ~ sig[t]
          /\ Go(t, "poll", "poll")
          /\ polls' = [polls EXCEPT ![t] = @ + 1]
          /\ UNCHANGED <<sig, rv>>
    /\ UNCHANGED <<owner, nest, waiters, w, history>>

(* The list without the first entry of t, if it has one. *)
Without(t) ==
    IF InList(t)
    THEN LET i == CHOOSE i \in DOMAIN waiters :
                     waiters[i] = t /\ \A j \in 1 .. i - 1 : waiters[j] # t
         IN SubSeq(waiters, 1, i - 1) \o SubSeq(waiters, i + 1, Len(waiters))
    ELSE waiters

timed_out(t) ==
    /\ polls[t] >= POLLS
    /\ Go(t, "poll", "relock")
    /\ rv' = [rv EXCEPT ![t] = "ETIMEDOUT"]
    /\ waiters' = Without(t)
    /\ UNCHANGED <<owner, nest, sig, polls, w, history>>

-----------------------------------------------------------------------------
(* Called with the mutex held or not.  cv_signal pops under the guard and  *)
(* signals after it.                                                       *)
Caller(t) == pc[t] \in {"in", "out"} /\ w[t] = None

(* Mutation of osal_cv_signal: the entry is read and not taken off. *)
osal_cv_signal_keep(t) ==
    /\ Caller(t) /\ waiters # <<>>
    /\ w' = [w EXCEPT ![t] = Head(waiters)]
    /\ due' = [due EXCEPT ![Head(waiters)] = @ \/ Waiting(Head(waiters))]
    /\ UNCHANGED <<owner, nest, waiters, sig, pc, polls, rv, overtaken, late>>

osal_cv_signal(t) ==
    /\ Caller(t) /\ waiters # <<>>
    /\ w' = [w EXCEPT ![t] = Head(waiters)]
    /\ due' = [due EXCEPT ![Head(waiters)] = @ \/ Waiting(Head(waiters))]
    /\ waiters' = Tail(waiters)
    /\ UNCHANGED <<owner, nest, sig, pc, polls, rv, overtaken, late>>

(* Mutation of signal_send: the popped waiter is forgotten. *)
signal_send_not(t) ==
    /\ w[t] # None
    /\ w' = [w EXCEPT ![t] = None]
    /\ UNCHANGED <<owner, nest, waiters, sig, pc, polls, rv, history>>

(* The popped waiter may have timed out meanwhile, and wait again: then    *)
(* the signal comes late.                                                  *)
signal_send(t) ==
    /\ w[t] # None
    /\ sig' = [sig EXCEPT ![w[t]] = TRUE]
    /\ w' = [w EXCEPT ![t] = None]
    /\ late' = IF t \in overtaken THEN late \cup {w[t]} ELSE late
    /\ overtaken' = overtaken \ {t}
    /\ UNCHANGED <<owner, nest, waiters, pc, polls, rv, due>>

osal_cv_broadcast(t) ==
    /\ Caller(t) /\ waiters # <<>>
    /\ sig' = [x \in Tasks |-> sig[x] \/ InList(x)]
    /\ due' = [x \in Tasks |-> due[x] \/ (InList(x) /\ Waiting(x))]
    /\ waiters' = <<>>
    /\ UNCHANGED <<owner, nest, pc, polls, rv, w, overtaken, late>>

-----------------------------------------------------------------------------
(* The rest of a call that has begun. *)
InCall(t) ==
    \/ wait_push(t) \/ wait_overflow(t) \/ wait_unlock(t) \/ wait_wake(t)
    \/ timed_poll(t) \/ timed_out(t) \/ signal_send(t)

Next ==
    \E t \in Tasks :
       \/ osal_mutex_lock(t) \/ osal_mutex_unlock(t)
       \/ wait_clear(t) \/ wait_relock(t) \/ InCall(t)
       \/ osal_cv_signal(t) \/ osal_cv_broadcast(t)

Spec == Init /\ [][Next]_vars

(* A task in a call runs on; the queue of a semaphore is first come, first *)
(* served; and a task that holds the mutex lets it go in the end.          *)
FairSpec ==
    /\ Spec
    /\ \A t \in Tasks : /\ WF_vars(InCall(t))
                        /\ SF_vars(wait_relock(t))
                        /\ SF_vars(osal_mutex_unlock(t))

-----------------------------------------------------------------------------
(* Type invariant; the list fits its array.                                *)
TypeOK ==
    /\ owner \in Tasks \cup {None} /\ nest \in 0 .. MAX_NEST
    /\ waiters \in Seq(Tasks) /\ Len(waiters) <= MAX_WAITERS
    /\ sig \in [Tasks -> BOOLEAN] /\ due \in [Tasks -> BOOLEAN]
    /\ pc \in [Tasks -> {"out", "in", "push", "unlock", "wait", "poll", "relock", "panic"}]
    /\ polls \in [Tasks -> 0 .. POLLS]
    /\ rv \in [Tasks -> {"none", "signaled", "ETIMEDOUT"}]
    /\ w \in [Tasks -> Tasks \cup {None}] /\ overtaken \subseteq Tasks /\ late \subseteq Tasks

(* "better than silent lost wakeups" (osal_lock.c:68): a task that cv_wait *)
(* has put to sleep is on the list, or its signal is pending, or a         *)
(* cv_signal that popped it is about to send it.  Every order of clearing, *)
(* pushing, popping and signalling is covered, time-outs of other tasks    *)
(* and stale signals included.                                             *)
NoLostWakeup ==
    \A t \in Tasks : pc[t] \in {"unlock", "wait"} =>
       InList(t) \/ sig[t] \/ \E s \in Tasks : w[s] = t

(* Every entry of the list is a task now waiting, once, so cv_signal       *)
(* spends no wakeup on a task that does not wait: a timed wait that gives  *)
(* up takes its own entry away ("so a future signal doesn't fire the wrong *)
(* task", osal_lock.c:170-171), and a wait that ends by a signal had its   *)
(* entry popped.  The one exception is a task that was sent a late signal: *)
(* popped, timed out, in its next wait, and only then signalled            *)
(* (osal_lock.c:205-206).  That ends the next wait, of either kind, and    *)
(* leaves its entry behind.                                                *)
EntriesWait ==
    \A i \in DOMAIN waiters : waiters[i] \notin late =>
       /\ pc[waiters[i]] \in {"unlock", "wait", "poll"}
       /\ \A j \in DOMAIN waiters : waiters[i] = waiters[j] => i = j

(* A waiter that a signal or broadcast has chosen gets the mutex back,     *)
(* unless a task panicked with the mutex held, or went to sleep in cv_wait *)
(* with a mutex it had taken twice (osal_lock.c:131-133).                  *)
Woken ==
    \A t \in Tasks : due[t] /\ pc[t] = "wait" ~>
       \/ pc[t] = "in"
       \/ \E s \in Tasks : pc[s] = "panic" \/ (pc[s] = "wait" /\ owner = s)

(* "0 = signaled, ETIMEDOUT otherwise" (osal.h:71).                        *)
TimedResult ==
    \A t \in Tasks : pc[t] = "relock" /\ rv[t] # "none" => (rv[t] = "signaled" <=> due[t])

=============================================================================
