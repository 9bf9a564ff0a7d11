----------------------------- MODULE OsalThread -----------------------------
(***************************************************************************)
(* Threads as exec tasks: create, the trampoline, the polling join and the *)
(* wrapper for the rump kernel (src/src/phase1_osal/osal_thread.c), with   *)
(* the sleeps of TimerSlots.  Task structures and records are freed and    *)
(* used again.  A thread is joined at most once, by the task that created  *)
(* it, and its function sleeps at most once.  Only tasks that do not end   *)
(* create threads: the code lets a thread do so too, and then signals a    *)
(* creator that may be gone (osal_thread.c:51, 68).                        *)
(***************************************************************************)
EXTENDS TimerSlots

CONSTANTS
    Mains,         \* tasks that create and join threads
    Records,       \* addresses of osal_thread structures
    Bits           \* signal bits a task can allocate

ASSUME OsalThreadAssumption ==
    Mains \subseteq Tasks /\ None \notin Records /\ Bits \subseteq 0 .. 31

VARIABLES
    pc,            \* where a task is; "dead" for a Task structure not in use
    mem,           \* osal_thread structures in use
    rec,           \* their fields
    user,          \* tc_UserData of a task
    wrap,          \* structures whose rump_wrap is still allocated
    arg,           \* the structure a task works on: its own or the one it creates or joins
    sigs,          \* signal bits allocated by a creator
    recvd          \* signals that have arrived at it

threadVars == <<pc, mem, rec, user, wrap, arg, sigs, recvd>>
vars == <<pc, mem, rec, user, wrap, arg, sigs, recvd, timerVars>>

Threads == Tasks \ Mains

(* The contents of a structure that is not in use. *)
NoRecord == [task |-> None, joiner |-> None, bit |-> None, done |-> FALSE]

Init ==
    /\ TimerInit
    /\ pc = [t \in Tasks |-> IF t \in Mains THEN "idle" ELSE "dead"]
    /\ mem = {} /\ wrap = {}
    /\ rec = [r \in Records |-> NoRecord]
    /\ user = [t \in Tasks |-> None]
    /\ arg = [t \in Tasks |-> None]
    /\ sigs = [m \in Mains |-> {}]
    /\ recvd = [m \in Mains |-> {}]

Awake(t, at) == nap[t] = "awake" /\ pc[t] = at

Go(t, at, next) ==
    /\ Awake(t, at)
    /\ pc' = [pc EXCEPT ![t] = next]

-----------------------------------------------------------------------------
(* osal_thread_create and rumpuser_thread_create.  The structure is not    *)
(* seen by others before the task exists, and Forbid keeps the task from   *)
(* running before its tc_UserData is set: one step.                        *)

NextBit(m) == Max(Bits \ sigs[m])

(* AllocSignal takes the highest free bit and clears what has arrived on   *)
(* it; CreateTaskTags gives a Task structure that is not in use.           *)
create(m) ==
    /\ Awake(m, "idle") /\ Bits \ sigs[m] # {}
    /\ \E r \in Records \ mem, t \in {u \in Threads : pc[u] = "dead"} :
          /\ mem' = mem \cup {r} /\ wrap' = wrap \cup {r}
          /\ rec' = [rec EXCEPT ![r] = [task |-> t, joiner |-> m, bit |-> NextBit(m), done |-> FALSE]]
          /\ user' = [user EXCEPT ![t] = r]
          /\ pc' = [pc EXCEPT ![t] = "start"]
    /\ sigs' = [sigs EXCEPT ![m] = @ \cup {NextBit(m)}]
    /\ recvd' = [recvd EXCEPT ![m] = @ \ {NextBit(m)}]
    /\ UNCHANGED <<arg, timerVars>>

(* No task can be created: all is given back.  An earlier failure changes  *)
(* nothing.                                                                *)
create_fail(m) ==
    /\ Awake(m, "idle") /\ Bits \ sigs[m] # {} /\ Records \ mem # {}
    /\ recvd' = [recvd EXCEPT ![m] = @ \ {NextBit(m)}]
    /\ UNCHANGED <<pc, mem, rec, user, wrap, arg, sigs, timerVars>>

-----------------------------------------------------------------------------
(* osal_thread_trampoline.  The function starts as rump_thread_shim. *)

thread_start(t) ==
    /\ Go(t, "start", "fn")
    /\ arg' = [arg EXCEPT ![t] = user[t]]
    /\ wrap' = wrap \ {user[t]}
    /\ UNCHANGED <<mem, rec, user, sigs, recvd, timerVars>>

(* The function sleeps (rumpuser_clock_sleep). *)
fn_sleep(t) ==
    /\ Go(t, "fn", "slept")
    /\ sleep_call(t)
    /\ UNCHANGED <<mem, rec, user, wrap, arg, sigs, recvd>>

(* It leaves through rumpuser_thread_exit, which waits for ever. *)
fn_exit(t) ==
    /\ \E at \in {"fn", "slept"} : Go(t, at, "exited")
    /\ UNCHANGED <<mem, rec, user, wrap, arg, sigs, recvd, timerVars>>

(* It returns; t->done = 1. *)
fn_return(t) ==
    /\ \E at \in {"fn", "slept"} : Go(t, at, "signal")
    /\ rec' = [rec EXCEPT ![arg[t]].done = TRUE]
    /\ UNCHANGED <<mem, user, wrap, arg, sigs, recvd, timerVars>>

(* Signal, through the fields of the structure; then Wait(0) until reaped. *)
thread_signal(t) ==
    /\ Go(t, "signal", "ended")
    /\ LET r == rec[arg[t]] IN recvd' = [recvd EXCEPT ![r.joiner] = @ \cup {r.bit}]
    /\ UNCHANGED <<mem, rec, user, wrap, arg, sigs, timerVars>>

-----------------------------------------------------------------------------
(* osal_thread_join. *)

join_call(m) ==
    /\ Go(m, "idle", "poll")
    /\ \E r \in mem : rec[r].joiner = m /\ arg' = [arg EXCEPT ![m] = r]
    /\ UNCHANGED <<mem, rec, user, wrap, sigs, recvd, timerVars>>

join_poll(m) ==
    \/ /\ Go(m, "poll", "kill")
       /\ rec[arg[m]].done
       /\ UNCHANGED <<mem, rec, user, wrap, arg, sigs, recvd, timerVars>>
    \/ /\ Awake(m, "poll")
       /\ ~ rec[arg[m]].done
       /\ sleep_call(m)
       /\ UNCHANGED threadVars

(* Mutation of join_kill: the task is left to end by itself. *)
join_kill_not(m) ==
    /\ Go(m, "kill", "freesig")
    /\ UNCHANGED <<mem, rec, user, wrap, arg, sigs, recvd, timerVars>>

(* RemTask: the thread may not have signalled yet. *)
join_kill(m) ==
    /\ Awake(m, "kill")
    /\ LET t == rec[arg[m]].task IN
       /\ pc' = [pc EXCEPT ![m] = "freesig", ![t] = "dead"]
       /\ user' = [user EXCEPT ![t] = None]
       /\ arg' = [arg EXCEPT ![t] = None]
    /\ UNCHANGED <<mem, rec, wrap, sigs, recvd, timerVars>>

join_freesig(m) ==
    /\ Go(m, "freesig", "free")
    /\ sigs' = [sigs EXCEPT ![m] = @ \ {rec[arg[m]].bit}]
    /\ UNCHANGED <<mem, rec, user, wrap, arg, recvd, timerVars>>

join_free(m) ==
    /\ Go(m, "free", "idle")
    /\ mem' = mem \ {arg[m]}
    /\ rec' = [rec EXCEPT ![arg[m]] = NoRecord]
    /\ arg' = [arg EXCEPT ![m] = None]
    /\ UNCHANGED <<user, wrap, sigs, recvd, timerVars>>

-----------------------------------------------------------------------------
sleeping(t) == sleep_step(t) /\ UNCHANGED threadVars

joining(m) == join_poll(m) \/ join_kill(m) \/ join_freesig(m) \/ join_free(m)
running(t) ==
    thread_start(t) \/ fn_sleep(t) \/ fn_exit(t) \/ fn_return(t) \/ thread_signal(t)

Next ==
    \/ \E m \in Mains : create(m) \/ create_fail(m) \/ join_call(m) \/ joining(m)
    \/ \E t \in Threads : running(t)
    \/ \E t \in Tasks : sleeping(t)

Spec == Init /\ [][Next]_vars

(* Exec gives every task that can run its turn, in the end, and semaphores *)
(* in the order they were asked for; sleeps end.  Nobody has to create or  *)
(* join.                                                                   *)
FairSpec ==
    /\ Spec
    /\ \A m \in Mains : WF_vars(joining(m))
    /\ \A t \in Threads : WF_vars(running(t))
    /\ \A t \in Tasks : WF_vars(sleeping(t)) /\ SF_vars(slot_obtain(t) /\ UNCHANGED threadVars)

-----------------------------------------------------------------------------
(* Type invariant; a wrapper is allocated only with its structure. *)
TypeOK ==
    /\ TimerTypeOK
    /\ pc \in [Tasks -> {"idle", "poll", "kill", "freesig", "free",
                         "dead", "start", "fn", "slept", "exited", "signal", "ended"}]
    /\ mem \subseteq Records /\ wrap \subseteq mem
    /\ rec \in [Records -> [task : Threads \cup {None}, joiner : Mains \cup {None},
                            bit : Bits \cup {None}, done : BOOLEAN]]
    /\ user \in [Tasks -> Records \cup {None}]
    /\ arg \in [Tasks -> Records \cup {None}]
    /\ sigs \in [Mains -> SUBSET Bits] /\ recvd \in [Mains -> SUBSET Bits]

(* From its first look at tc_UserData to its signal, a thread finds the    *)
(* structure that was made for it, not freed and not made into another's   *)
(* (osal_thread.c:47-51 and 77-83 against 112-117).                        *)
RecordHeld ==
    \A t \in Threads :
       LET r == IF pc[t] = "start" THEN user[t] ELSE arg[t] IN
       pc[t] \in {"start", "fn", "slept", "signal"} =>
          r \in mem /\ rec[r].task = t /\ (pc[t] = "start" <=> r \in wrap)

(* A completion signal arrives on a bit that its creator still holds for   *)
(* that thread alone, so it is never taken for another event.              *)
SignalOwned ==
    [][\A m \in Mains : \A b \in recvd'[m] \ recvd[m] :
          /\ b \in sigs[m]
          /\ Cardinality({r \in mem : rec[r].joiner = m /\ rec[r].bit = b}) = 1]_vars

(* What may keep a join from returning: the joiner or the thread sleeps    *)
(* without a timer request, the thread has left through thread_exit, or    *)
(* the timer semaphore is broken.                                          *)
Stuck(m) ==
    \/ broken \/ nap[m] = "frozen"
    \/ \E r \in mem, t \in Threads :
          arg[m] = r /\ rec[r].task = t /\ (nap[t] = "frozen" \/ pc[t] = "exited")

(* "poll is dumb but reliable" (osal_thread.c:104): a join returns, unless *)
(* it is Stuck.                                                            *)
JoinReturns == \A m \in Mains : pc[m] = "poll" ~> pc[m] = "idle" \/ Stuck(m)

=============================================================================
