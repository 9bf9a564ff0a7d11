-------------------------- MODULE OsalThreadProofs --------------------------
(***************************************************************************)
(* Threads and sleeps for any number of tasks, thread structures, signal   *)
(* bits and timer slots.                                                   *)
(***************************************************************************)
EXTENDS OsalThread, FiniteSetTheorems, WellFoundedInduction, TLAPS

LEMMA LeastNat ==
  ASSUME NEW S \in SUBSET Nat, S # {}
  PROVE  \E m \in S : \A n \in S : m <= n
<1> DEFINE R == OpToRel(<, Nat)
<1>1. IsWellFoundedOn(R, Nat)
  BY Zenon, NatLessThanWellFounded
<1>2. \A x, y \in Nat : x < y => <<x, y>> \in R
  BY DEF OpToRel
<1> HIDE DEF R
<1>3. PICK m \in S : \A n \in S : <<n, m>> \notin R
  BY Zenon, <1>1, WFMin
<1>4. ASSUME NEW n \in S PROVE m <= n
  <2>1. m \in Nat /\ n \in Nat /\ ~ (n < m)
    BY Zenon, <1>2, <1>3
  <2> QED
    BY <2>1
<1> QED
  BY <1>4

LEMMA MinIn ==
  ASSUME NEW S \in SUBSET Nat, S # {}
  PROVE  Min(S) \in S
BY Zenon, LeastNat DEF Min

LEMMA MaxIn ==
  ASSUME NEW S \in SUBSET (0 .. 31), S # {}
  PROVE  Max(S) \in S
<1> DEFINE T == {31 - x : x \in S}
<1>1. T \in SUBSET Nat /\ T # {}
  <2>1. \A x \in S : x \in 0 .. 31 /\ 31 - x \in Nat
    OBVIOUS
  <2>2. T # {}
    BY Zenon
  <2> QED
    BY <2>1, <2>2
<1> HIDE DEF T
<1>2. PICK m \in T : \A n \in T : m <= n
  BY <1>1, LeastNat
<1>3. PICK x \in S : m = 31 - x
  BY DEF T
<1>4. ASSUME NEW y \in S PROVE x >= y
  <2>1. 31 - y \in T
    BY DEF T
  <2>2. 31 - x <= 31 - y
    BY <1>2, <1>3, <2>1
  <2>3. x \in 0 .. 31 /\ y \in 0 .. 31
    OBVIOUS
  <2> QED
    BY <2>2, <2>3
<1> QED
  BY Zenon, <1>4 DEF Max

-----------------------------------------------------------------------------
(* The timer slots. *)

(* As long as g_timer_sem was not initialised in use: who is past the      *)
(* semaphore holds it, and a slot is found free by its task alone and      *)
(* then belongs to it.                                                     *)
SlotInv ==
    /\ \A t \in Tasks : slot[t] # 0 <=> nap[t] \in {"open", "asleep"}
    /\ ~ broken =>
          /\ \A t \in Tasks : nap[t] \in {"scan", "open"} <=> holder = t
          /\ \A t \in Tasks : nap[t] = "asleep" => owner[slot[t]] = t
          /\ \A t \in Tasks : nap[t] = "open" => owner[slot[t]] = None /\ SlotsOf(t) = {}
          /\ \A i, j \in Slots : owner[i] = owner[j] /\ owner[i] # None => i = j

TimerInv == TimerTypeOK /\ SlotInv

LEMMA InitTimer == TimerInit => TimerInv
BY Zenon, TimerSlotsAssumption DEF TimerInit, TimerInv, TimerTypeOK, SlotInv, Slots

(* The slots a scan can choose. *)
LEMMA ScanFinds ==
  ASSUME TimerInv, NEW t \in Tasks
  PROVE  /\ SlotsOf(t) # {} => Min(SlotsOf(t)) \in Slots /\ owner[Min(SlotsOf(t))] = t
         /\ FreeSlots # {} => Min(FreeSlots) \in Slots /\ owner[Min(FreeSlots)] = None
         /\ 0 \notin Slots
<1>1. SlotsOf(t) \in SUBSET Nat /\ FreeSlots \in SUBSET Nat /\ 0 \notin Slots
  BY TimerSlotsAssumption DEF SlotsOf, FreeSlots, Slots
<1>2. SlotsOf(t) # {} => Min(SlotsOf(t)) \in SlotsOf(t)
  BY <1>1, MinIn
<1>3. FreeSlots # {} => Min(FreeSlots) \in FreeSlots
  BY <1>1, MinIn
<1> QED
  BY <1>1, <1>2, <1>3 DEF SlotsOf, FreeSlots

LEMMA StepTimer ==
  ASSUME TimerInv, NEW t \in Tasks, sleep_call(t) \/ sleep_step(t)
  PROVE  TimerInv'
<1> USE TimerSlotsAssumption DEF TimerInv, TimerTypeOK
<1>1. CASE sleep_call(t)
  BY <1>1 DEF sleep_call, SlotInv, SlotsOf
<1>2. CASE slot_init(t)
  <2>1. ~ broken' => ~ broken /\ holder = None
    BY <1>2, Zenon DEF slot_init
  <2> QED
    BY <1>2, <2>1 DEF slot_init, SlotInv, SlotsOf
<1>3. CASE slot_obtain(t)
  BY <1>3 DEF slot_obtain, SlotInv, SlotsOf
<1>4. CASE slot_scan(t)
  <2>1. CASE SlotsOf(t) # {}
    BY <1>4, <2>1, ScanFinds DEF slot_scan, SlotInv, SlotsOf
  <2>2. CASE SlotsOf(t) = {} /\ FreeSlots # {}
    <3>1. PICK n \in Slots : n = Min(FreeSlots) /\ owner[n] = None
      BY <2>2, ScanFinds
    <3>2. n # 0
      BY ScanFinds
    <3>3. slot' = [slot EXCEPT ![t] = n] /\ nap' = [nap EXCEPT ![t] = "open"]
          /\ UNCHANGED <<g_timer_sem_init, holder, owner, broken>>
      BY <1>4, <2>2, <3>1 DEF slot_scan
    <3>4. nap[t] = "scan"
      BY <1>4 DEF slot_scan
    <3> QED
      BY <2>2, <3>1, <3>2, <3>3, <3>4 DEF SlotInv, SlotsOf
  <2>3. CASE SlotsOf(t) = {} /\ FreeSlots = {}
    BY <1>4, <2>3 DEF slot_scan, SlotInv, SlotsOf
  <2> QED
    BY <2>1, <2>2, <2>3
<1>5. CASE slot_open(t)
  BY <1>5 DEF slot_open, SlotInv, SlotsOf
<1>6. CASE sleep_done(t)
  BY <1>6 DEF sleep_done, SlotInv, SlotsOf
<1> QED
  BY <1>1, <1>2, <1>3, <1>4, <1>5, <1>6 DEF sleep_step

LEMMA SameTimer ==
  ASSUME TimerInv, UNCHANGED timerVars PROVE TimerInv'
BY DEF TimerInv, TimerTypeOK, SlotInv, SlotsOf, timerVars

LEMMA SlotsOwned == TimerInv => OwnRequest
<1> SUFFICES ASSUME TimerInv, ~ broken
             PROVE  /\ \A t \in Tasks : nap[t] = "asleep" => owner[slot[t]] = t
                    /\ \A t, u \in Tasks : slot[t] = slot[u] /\ slot[t] # 0 => t = u
                    /\ \A t \in Tasks : Cardinality(SlotsOf(t)) <= 1
  BY DEF OwnRequest
<1> USE TimerSlotsAssumption DEF TimerInv, TimerTypeOK, SlotInv
<1>1. \A t, u \in Tasks : slot[t] = slot[u] /\ slot[t] # 0 => t = u
  OBVIOUS
<1>2. ASSUME NEW t \in Tasks PROVE Cardinality(SlotsOf(t)) <= 1
  <2>1. CASE SlotsOf(t) = {}
    BY <2>1, FS_EmptySet
  <2>2. CASE SlotsOf(t) # {}
    <3>1. PICK i \in SlotsOf(t) : SlotsOf(t) = {i}
      BY <2>2 DEF SlotsOf
    <3> QED
      <4>1. Cardinality({i}) = 1
        BY Zenon, FS_Singleton
      <4> QED
        BY <3>1, <4>1
  <2> QED
    BY <2>1, <2>2
<1> QED
  BY <1>1, <1>2

-----------------------------------------------------------------------------
(* Threads and their structures. *)

MainPcs == {"idle", "poll", "kill", "freesig", "free"}
ThreadPcs == {"dead", "start", "fn", "slept", "exited", "signal", "ended"}

(* The structure's task has been removed, the structure is still there. *)
Reaped(r) ==
    LET m == rec[r].joiner IN pc[m] \in {"freesig", "free"} /\ arg[m] = r

(* A joiner works on a structure it created, and kills only after done. *)
JoinerInv ==
    \A m \in Mains :
       /\ pc[m] \in MainPcs
       /\ pc[m] # "idle" => arg[m] \in mem /\ rec[arg[m]].joiner = m
       /\ pc[m] = "kill" => rec[arg[m]].done

(* A structure in use has its task until it is reaped; a done one has a    *)
(* task with nothing left to do but signal.                                *)
RecordInv ==
    \A r \in mem :
       /\ rec[r].task \in Threads /\ rec[r].joiner \in Mains /\ rec[r].bit \in Bits
       /\ Reaped(r) => r \notin wrap
       /\ ~ Reaped(r) => user[rec[r].task] = r /\ pc[rec[r].task] # "dead"
       /\ ~ Reaped(r) /\ rec[r].done => pc[rec[r].task] \in {"signal", "ended"}

(* A live thread has its structure, which is not reaped. *)
ThreadInv ==
    \A t \in Threads :
       /\ pc[t] \in ThreadPcs
       /\ pc[t] # "dead" =>
             /\ user[t] \in mem /\ rec[user[t]].task = t /\ ~ Reaped(user[t])
             /\ pc[t] # "start" => arg[t] = user[t]
             /\ pc[t] = "start" <=> user[t] \in wrap

(* The bit of a structure is allocated until its FreeSignal, and is the    *)
(* bit of no other structure of the same creator.                          *)
BitInv ==
    /\ \A r \in mem :
          \/ rec[r].bit \in sigs[rec[r].joiner]
          \/ pc[rec[r].joiner] = "free" /\ arg[rec[r].joiner] = r
    /\ \A r, s \in mem :
          rec[r].joiner = rec[s].joiner /\ rec[r].bit = rec[s].bit => r = s

IInv == TypeOK /\ TimerInv /\ JoinerInv /\ RecordInv /\ ThreadInv /\ BitInv

(* A step is one of these; the last leaves the threads alone. *)
LEMMA Steps ==
  ASSUME [Next]_vars
  PROVE  \/ \E m \in Mains : \/ create(m) \/ create_fail(m) \/ join_call(m)
                              \/ (join_poll(m) /\ ~ UNCHANGED threadVars)
                              \/ join_kill(m) \/ join_freesig(m) \/ join_free(m)
         \/ \E t \in Threads : running(t)
         \/ UNCHANGED threadVars
BY DEF Next, joining, sleeping, vars, threadVars

LEMMA TimerSteps ==
  ASSUME [Next]_vars
  PROVE  UNCHANGED timerVars \/ \E t \in Tasks : sleep_call(t) \/ sleep_step(t)
<1> USE OsalThreadAssumption DEF Threads
<1>1. ASSUME NEW m \in Mains, create(m) \/ create_fail(m) \/ join_call(m)
      PROVE  UNCHANGED timerVars
  BY <1>1 DEF create, create_fail, join_call
<1>2. ASSUME NEW m \in Mains, joining(m)
      PROVE  UNCHANGED timerVars \/ sleep_call(m)
  BY <1>2 DEF joining, join_poll, join_kill, join_freesig, join_free
<1>3. ASSUME NEW t \in Threads, running(t)
      PROVE  UNCHANGED timerVars \/ sleep_call(t)
  BY <1>3 DEF running, thread_start, fn_sleep, fn_exit, fn_return, thread_signal
<1>4. ASSUME NEW t \in Tasks, sleeping(t)
      PROVE  sleep_step(t)
  BY <1>4 DEF sleeping
<1>5. ASSUME UNCHANGED vars PROVE UNCHANGED timerVars
  BY <1>5 DEF vars
<1> QED
  BY <1>1, <1>2, <1>3, <1>4, <1>5 DEF Next

LEMMA NewBit ==
  ASSUME TypeOK, NEW m \in Mains, Bits \ sigs[m] # {}
  PROVE  NextBit(m) \in Bits \ sigs[m]
BY MaxIn, OsalThreadAssumption DEF NextBit

ThreadTypes ==
    /\ pc \in [Tasks -> MainPcs \cup ThreadPcs]
    /\ mem \subseteq Records /\ wrap \subseteq mem
    /\ rec \in [Records -> [task : Threads \cup {None}, joiner : Mains \cup {None},
                            bit : Bits \cup {None}, done : BOOLEAN]]
    /\ user \in [Tasks -> Records \cup {None}]
    /\ arg \in [Tasks -> Records \cup {None}]
    /\ sigs \in [Mains -> SUBSET Bits] /\ recvd \in [Mains -> SUBSET Bits]

LEMMA TypeParts == TypeOK <=> TimerTypeOK /\ ThreadTypes
BY DEF TypeOK, ThreadTypes, MainPcs, ThreadPcs

LEMMA StepTypes ==
  ASSUME IInv, [Next]_vars PROVE ThreadTypes'
<1> USE OsalThreadAssumption DEF IInv, TypeOK, Threads
<1>1. ASSUME NEW m \in Mains, create(m)
      PROVE  ThreadTypes'
  BY <1>1, NewBit DEF create, Awake, ThreadTypes, MainPcs, ThreadPcs, JoinerInv, RecordInv, ThreadInv, Reaped
<1>2. ASSUME NEW m \in Mains, create_fail(m)
      PROVE  ThreadTypes'
  BY <1>2, NewBit DEF create_fail, Awake, ThreadTypes, MainPcs, ThreadPcs, JoinerInv, RecordInv, ThreadInv, Reaped
<1>3. ASSUME NEW m \in Mains, join_call(m)
      PROVE  ThreadTypes'
  BY <1>3 DEF join_call, Go, Awake, ThreadTypes, MainPcs, ThreadPcs, JoinerInv, RecordInv, ThreadInv, Reaped
<1>4. ASSUME NEW m \in Mains, join_poll(m), ~ UNCHANGED threadVars
      PROVE  ThreadTypes'
  BY <1>4 DEF join_poll, Go, Awake, threadVars, ThreadTypes, MainPcs, ThreadPcs, JoinerInv, RecordInv, ThreadInv, Reaped
<1>5. ASSUME NEW m \in Mains, join_kill(m)
      PROVE  ThreadTypes'
  BY SMTT(30), <1>5 DEF join_kill, Awake, ThreadTypes, MainPcs, ThreadPcs, JoinerInv, RecordInv, ThreadInv, Reaped
<1>6. ASSUME NEW m \in Mains, join_freesig(m)
      PROVE  ThreadTypes'
  BY <1>6 DEF join_freesig, Go, Awake, ThreadTypes, MainPcs, ThreadPcs, JoinerInv, RecordInv, ThreadInv, Reaped
<1>7. ASSUME NEW m \in Mains, join_free(m)
      PROVE  ThreadTypes'
  BY <1>7 DEF join_free, Go, Awake, NoRecord, ThreadTypes, MainPcs, ThreadPcs, JoinerInv, RecordInv, ThreadInv, Reaped
<1>8. ASSUME NEW t \in Threads, thread_start(t)
      PROVE  ThreadTypes'
  BY <1>8 DEF thread_start, Go, Awake, ThreadTypes, MainPcs, ThreadPcs, JoinerInv, RecordInv, ThreadInv, Reaped
<1>9. ASSUME NEW t \in Threads, fn_sleep(t)
      PROVE  ThreadTypes'
  BY <1>9 DEF fn_sleep, Go, Awake, ThreadTypes, MainPcs, ThreadPcs, JoinerInv, RecordInv, ThreadInv, Reaped
<1>10. ASSUME NEW t \in Threads, fn_exit(t)
      PROVE  ThreadTypes'
  BY <1>10 DEF fn_exit, Go, Awake, ThreadTypes, MainPcs, ThreadPcs, JoinerInv, RecordInv, ThreadInv, Reaped
<1>11. ASSUME NEW t \in Threads, fn_return(t)
      PROVE  ThreadTypes'
  <2>1. arg[t] \in Records /\ rec' = [rec EXCEPT ![arg[t]].done = TRUE]
    BY <1>11 DEF fn_return, Go, Awake, ThreadInv
  <2>2. rec' \in [Records -> [task : Threads \cup {None}, joiner : Mains \cup {None},
                            bit : Bits \cup {None}, done : BOOLEAN]]
    <3> DEFINE F == [task : Threads \cup {None}, joiner : Mains \cup {None},
                     bit : Bits \cup {None}, done : BOOLEAN]
    <3>1. \A f \in F : [f EXCEPT !.done = TRUE] \in F
      BY Zenon
    <3>2. rec \in [Records -> F] /\ rec' = [rec EXCEPT ![arg[t]] = [@ EXCEPT !.done = TRUE]]
      BY <2>1
    <3> HIDE DEF F
    <3>3. rec' \in [Records -> F]
      BY <2>1, <3>1, <3>2
    <3> QED
      BY <3>3 DEF F
  <2> QED
    BY <1>11, <2>2 DEF fn_return, Go, Awake, ThreadTypes, MainPcs, ThreadPcs, JoinerInv, RecordInv, ThreadInv, Reaped
<1>12. ASSUME NEW t \in Threads, thread_signal(t)
      PROVE  ThreadTypes'
  BY <1>12 DEF thread_signal, Go, Awake, ThreadTypes, MainPcs, ThreadPcs, JoinerInv, RecordInv, ThreadInv, Reaped
<1>13. ASSUME UNCHANGED threadVars PROVE ThreadTypes'
  BY <1>13 DEF threadVars, ThreadTypes, MainPcs, ThreadPcs, JoinerInv, RecordInv, ThreadInv, Reaped
<1> QED
  BY Steps, <1>1, <1>2, <1>3, <1>4, <1>5, <1>6, <1>7, <1>8, <1>9, <1>10, <1>11, <1>12, <1>13 DEF running

LEMMA StepJoiner ==
  ASSUME IInv, [Next]_vars PROVE JoinerInv'
<1> USE OsalThreadAssumption DEF IInv, TypeOK, Threads
<1>1. ASSUME NEW m \in Mains, create(m)
      PROVE  JoinerInv'
  BY <1>1, NewBit DEF create, Awake, JoinerInv, MainPcs, RecordInv, ThreadInv, Reaped
<1>2. ASSUME NEW m \in Mains, create_fail(m)
      PROVE  JoinerInv'
  BY <1>2, NewBit DEF create_fail, Awake, JoinerInv, MainPcs, RecordInv, ThreadInv, Reaped
<1>3. ASSUME NEW m \in Mains, join_call(m)
      PROVE  JoinerInv'
  BY <1>3 DEF join_call, Go, Awake, JoinerInv, MainPcs, RecordInv, ThreadInv, Reaped
<1>4. ASSUME NEW m \in Mains, join_poll(m), ~ UNCHANGED threadVars
      PROVE  JoinerInv'
  BY <1>4 DEF join_poll, Go, Awake, threadVars, JoinerInv, MainPcs, RecordInv, ThreadInv, Reaped
<1>5. ASSUME NEW m \in Mains, join_kill(m)
      PROVE  JoinerInv'
  BY <1>5 DEF join_kill, Awake, JoinerInv, MainPcs, RecordInv, ThreadInv, Reaped
<1>6. ASSUME NEW m \in Mains, join_freesig(m)
      PROVE  JoinerInv'
  BY <1>6 DEF join_freesig, Go, Awake, JoinerInv, MainPcs, RecordInv, ThreadInv, Reaped
<1>7. ASSUME NEW m \in Mains, join_free(m)
      PROVE  JoinerInv'
  BY <1>7 DEF join_free, Go, Awake, NoRecord, JoinerInv, MainPcs, RecordInv, ThreadInv, Reaped
<1>8. ASSUME NEW t \in Threads, thread_start(t)
      PROVE  JoinerInv'
  BY <1>8 DEF thread_start, Go, Awake, JoinerInv, MainPcs, RecordInv, ThreadInv, Reaped
<1>9. ASSUME NEW t \in Threads, fn_sleep(t)
      PROVE  JoinerInv'
  BY <1>9 DEF fn_sleep, Go, Awake, JoinerInv, MainPcs, RecordInv, ThreadInv, Reaped
<1>10. ASSUME NEW t \in Threads, fn_exit(t)
      PROVE  JoinerInv'
  BY <1>10 DEF fn_exit, Go, Awake, JoinerInv, MainPcs, RecordInv, ThreadInv, Reaped
<1>11. ASSUME NEW t \in Threads, fn_return(t)
      PROVE  JoinerInv'
  BY <1>11 DEF fn_return, Go, Awake, JoinerInv, MainPcs, RecordInv, ThreadInv, Reaped
<1>12. ASSUME NEW t \in Threads, thread_signal(t)
      PROVE  JoinerInv'
  BY <1>12 DEF thread_signal, Go, Awake, JoinerInv, MainPcs, RecordInv, ThreadInv, Reaped
<1>13. ASSUME UNCHANGED threadVars PROVE JoinerInv'
  BY <1>13 DEF threadVars, JoinerInv, MainPcs, RecordInv, ThreadInv, Reaped
<1> QED
  BY Steps, <1>1, <1>2, <1>3, <1>4, <1>5, <1>6, <1>7, <1>8, <1>9, <1>10, <1>11, <1>12, <1>13 DEF running

LEMMA StepRecord ==
  ASSUME IInv, [Next]_vars PROVE RecordInv'
<1> USE OsalThreadAssumption DEF IInv, TypeOK, Threads
<1>1. ASSUME NEW m \in Mains, create(m)
      PROVE  RecordInv'
  BY <1>1, NewBit DEF create, Awake, JoinerInv, RecordInv, ThreadInv, Reaped
<1>2. ASSUME NEW m \in Mains, create_fail(m)
      PROVE  RecordInv'
  BY <1>2, NewBit DEF create_fail, Awake, JoinerInv, RecordInv, ThreadInv, Reaped
<1>3. ASSUME NEW m \in Mains, join_call(m)
      PROVE  RecordInv'
  BY <1>3 DEF join_call, Go, Awake, JoinerInv, RecordInv, ThreadInv, Reaped
<1>4. ASSUME NEW m \in Mains, join_poll(m), ~ UNCHANGED threadVars
      PROVE  RecordInv'
  BY <1>4 DEF join_poll, Go, Awake, threadVars, JoinerInv, RecordInv, ThreadInv, Reaped
<1>5. ASSUME NEW m \in Mains, join_kill(m)
      PROVE  RecordInv'
  BY <1>5 DEF join_kill, Awake, JoinerInv, RecordInv, ThreadInv, Reaped
<1>6. ASSUME NEW m \in Mains, join_freesig(m)
      PROVE  RecordInv'
  BY <1>6 DEF join_freesig, Go, Awake, JoinerInv, RecordInv, ThreadInv, Reaped
<1>7. ASSUME NEW m \in Mains, join_free(m)
      PROVE  RecordInv'
  BY <1>7 DEF join_free, Go, Awake, NoRecord, JoinerInv, RecordInv, ThreadInv, Reaped
<1>8. ASSUME NEW t \in Threads, thread_start(t)
      PROVE  RecordInv'
  BY <1>8 DEF thread_start, Go, Awake, JoinerInv, RecordInv, ThreadInv, Reaped
<1>9. ASSUME NEW t \in Threads, fn_sleep(t)
      PROVE  RecordInv'
  BY <1>9 DEF fn_sleep, Go, Awake, JoinerInv, RecordInv, ThreadInv, Reaped
<1>10. ASSUME NEW t \in Threads, fn_exit(t)
      PROVE  RecordInv'
  BY <1>10 DEF fn_exit, Go, Awake, JoinerInv, RecordInv, ThreadInv, Reaped
<1>11. ASSUME NEW t \in Threads, fn_return(t)
      PROVE  RecordInv'
  BY <1>11 DEF fn_return, Go, Awake, JoinerInv, RecordInv, ThreadInv, Reaped
<1>12. ASSUME NEW t \in Threads, thread_signal(t)
      PROVE  RecordInv'
  BY <1>12 DEF thread_signal, Go, Awake, JoinerInv, RecordInv, ThreadInv, Reaped
<1>13. ASSUME UNCHANGED threadVars PROVE RecordInv'
  BY <1>13 DEF threadVars, JoinerInv, RecordInv, ThreadInv, Reaped
<1> QED
  BY SMTT(30), Steps, <1>1, <1>2, <1>3, <1>4, <1>5, <1>6, <1>7, <1>8, <1>9, <1>10, <1>11, <1>12, <1>13 DEF running

LEMMA StepThread ==
  ASSUME IInv, [Next]_vars PROVE ThreadInv'
<1> USE OsalThreadAssumption DEF IInv, TypeOK, Threads
<1>1. ASSUME NEW m \in Mains, create(m)
      PROVE  ThreadInv'
  BY <1>1, NewBit DEF create, Awake, JoinerInv, MainPcs, ThreadPcs, RecordInv, ThreadInv, Reaped
<1>2. ASSUME NEW m \in Mains, create_fail(m)
      PROVE  ThreadInv'
  BY <1>2, NewBit DEF create_fail, Awake, JoinerInv, MainPcs, ThreadPcs, RecordInv, ThreadInv, Reaped
<1>3. ASSUME NEW m \in Mains, join_call(m)
      PROVE  ThreadInv'
  BY <1>3 DEF join_call, Go, Awake, JoinerInv, MainPcs, ThreadPcs, RecordInv, ThreadInv, Reaped
<1>4. ASSUME NEW m \in Mains, join_poll(m), ~ UNCHANGED threadVars
      PROVE  ThreadInv'
  BY <1>4 DEF join_poll, Go, Awake, threadVars, JoinerInv, MainPcs, ThreadPcs, RecordInv, ThreadInv, Reaped
<1>5. ASSUME NEW m \in Mains, join_kill(m)
      PROVE  ThreadInv'
  BY <1>5 DEF join_kill, Awake, JoinerInv, MainPcs, ThreadPcs, RecordInv, ThreadInv, Reaped
<1>6. ASSUME NEW m \in Mains, join_freesig(m)
      PROVE  ThreadInv'
  BY <1>6 DEF join_freesig, Go, Awake, JoinerInv, MainPcs, ThreadPcs, RecordInv, ThreadInv, Reaped
<1>7. ASSUME NEW m \in Mains, join_free(m)
      PROVE  ThreadInv'
  BY <1>7 DEF join_free, Go, Awake, NoRecord, JoinerInv, MainPcs, ThreadPcs, RecordInv, ThreadInv, Reaped
<1>8. ASSUME NEW t \in Threads, thread_start(t)
      PROVE  ThreadInv'
  BY <1>8 DEF thread_start, Go, Awake, JoinerInv, MainPcs, ThreadPcs, RecordInv, ThreadInv, Reaped
<1>9. ASSUME NEW t \in Threads, fn_sleep(t)
      PROVE  ThreadInv'
  BY <1>9 DEF fn_sleep, Go, Awake, JoinerInv, MainPcs, ThreadPcs, RecordInv, ThreadInv, Reaped
<1>10. ASSUME NEW t \in Threads, fn_exit(t)
      PROVE  ThreadInv'
  BY <1>10 DEF fn_exit, Go, Awake, JoinerInv, MainPcs, ThreadPcs, RecordInv, ThreadInv, Reaped
<1>11. ASSUME NEW t \in Threads, fn_return(t)
      PROVE  ThreadInv'
  BY <1>11 DEF fn_return, Go, Awake, JoinerInv, MainPcs, ThreadPcs, RecordInv, ThreadInv, Reaped
<1>12. ASSUME NEW t \in Threads, thread_signal(t)
      PROVE  ThreadInv'
  BY <1>12 DEF thread_signal, Go, Awake, JoinerInv, MainPcs, ThreadPcs, RecordInv, ThreadInv, Reaped
<1>13. ASSUME UNCHANGED threadVars PROVE ThreadInv'
  BY <1>13 DEF threadVars, JoinerInv, MainPcs, ThreadPcs, RecordInv, ThreadInv, Reaped
<1> QED
  BY SMTT(30), Steps, <1>1, <1>2, <1>3, <1>4, <1>5, <1>6, <1>7, <1>8, <1>9, <1>10, <1>11, <1>12, <1>13 DEF running

LEMMA StepBit ==
  ASSUME IInv, [Next]_vars PROVE BitInv'
<1> USE OsalThreadAssumption DEF IInv, TypeOK, Threads
<1>1. ASSUME NEW m \in Mains, create(m)
      PROVE  BitInv'
  <2>1. PICK b \in Bits \ sigs[m] : b = NextBit(m)
    BY Zenon, <1>1, NewBit DEF create
  <2>2. PICK r \in Records \ mem, t \in Threads :
           /\ mem' = mem \cup {r} /\ pc' = [pc EXCEPT ![t] = "start"]
           /\ rec' = [rec EXCEPT ![r] = [task |-> t, joiner |-> m, bit |-> b, done |-> FALSE]]
    BY Zenon, <1>1, <2>1 DEF create
  <2>3. pc[m] = "idle" /\ sigs' = [sigs EXCEPT ![m] = @ \cup {b}] /\ arg' = arg
    BY <1>1, <2>1 DEF create, Awake
  <2>4. \A x \in mem : rec[x].joiner = m => rec[x].bit \in sigs[m]
    BY <2>3 DEF BitInv
  <2>5. rec'[r].joiner = m /\ rec'[r].bit = b /\ \A x \in mem : rec'[x] = rec[x]
    BY <2>2
  <2>6. ASSUME NEW x \in mem'
        PROVE  \/ rec'[x].bit \in sigs'[rec'[x].joiner]
               \/ pc'[rec'[x].joiner] = "free" /\ arg'[rec'[x].joiner] = x
    <3>1. CASE x = r
      BY <2>3, <2>5, <3>1
    <3>2. CASE x \in mem
      <4>1. rec'[x] = rec[x] /\ rec[x].joiner \in Mains
        BY <2>5, <3>2 DEF RecordInv
      <4>2. pc'[rec[x].joiner] = pc[rec[x].joiner]
        BY <2>2, <4>1
      <4>3. sigs[rec[x].joiner] \subseteq sigs'[rec[x].joiner]
        BY <2>3, <4>1
      <4> QED
        BY <2>3, <3>2, <4>1, <4>2, <4>3 DEF BitInv
    <3> QED
      BY <2>2, <3>1, <3>2
  <2>7. \A x, y \in mem' :
          rec'[x].joiner = rec'[y].joiner /\ rec'[x].bit = rec'[y].bit => x = y
    BY <2>1, <2>2, <2>4, <2>5 DEF BitInv
  <2> QED
    BY <2>6, <2>7 DEF BitInv
<1>2. ASSUME NEW m \in Mains, create_fail(m)
      PROVE  BitInv'
  BY <1>2, NewBit DEF create_fail, Awake, JoinerInv, RecordInv, ThreadInv, Reaped, BitInv
<1>3. ASSUME NEW m \in Mains, join_call(m)
      PROVE  BitInv'
  BY <1>3 DEF join_call, Go, Awake, JoinerInv, RecordInv, ThreadInv, Reaped, BitInv
<1>4. ASSUME NEW m \in Mains, join_poll(m), ~ UNCHANGED threadVars
      PROVE  BitInv'
  BY <1>4 DEF join_poll, Go, Awake, threadVars, JoinerInv, RecordInv, ThreadInv, Reaped, BitInv
<1>5. ASSUME NEW m \in Mains, join_kill(m)
      PROVE  BitInv'
  BY <1>5 DEF join_kill, Awake, JoinerInv, RecordInv, ThreadInv, Reaped, BitInv
<1>6. ASSUME NEW m \in Mains, join_freesig(m)
      PROVE  BitInv'
  BY <1>6 DEF join_freesig, Go, Awake, JoinerInv, RecordInv, ThreadInv, Reaped, BitInv
<1>7. ASSUME NEW m \in Mains, join_free(m)
      PROVE  BitInv'
  <2>1. \A x \in mem' : x \in mem /\ x # arg[m] /\ rec'[x] = rec[x] /\ rec[x].joiner \in Mains
    BY <1>7 DEF join_free, RecordInv
  <2>2. \A n \in Mains : n # m => pc'[n] = pc[n] /\ arg'[n] = arg[n]
    BY <1>7 DEF join_free, Go
  <2>3. sigs' = sigs
    BY <1>7 DEF join_free
  <2>4. ASSUME NEW x \in mem'
        PROVE  \/ rec'[x].bit \in sigs'[rec'[x].joiner]
               \/ pc'[rec'[x].joiner] = "free" /\ arg'[rec'[x].joiner] = x
    <3>1. CASE rec[x].joiner = m
      BY <2>1, <2>3, <3>1 DEF BitInv
    <3>2. CASE rec[x].joiner # m
      BY <2>1, <2>2, <2>3, <3>2 DEF BitInv
    <3> QED
      BY <3>1, <3>2
  <2>5. \A x, y \in mem' :
          rec'[x].joiner = rec'[y].joiner /\ rec'[x].bit = rec'[y].bit => x = y
    BY <2>1 DEF BitInv
  <2> QED
    BY <2>4, <2>5 DEF BitInv
<1>8. ASSUME NEW t \in Threads, thread_start(t)
      PROVE  BitInv'
  BY <1>8 DEF thread_start, Go, Awake, JoinerInv, RecordInv, ThreadInv, Reaped, BitInv
<1>9. ASSUME NEW t \in Threads, fn_sleep(t)
      PROVE  BitInv'
  BY <1>9 DEF fn_sleep, Go, Awake, JoinerInv, RecordInv, ThreadInv, Reaped, BitInv
<1>10. ASSUME NEW t \in Threads, fn_exit(t)
      PROVE  BitInv'
  BY <1>10 DEF fn_exit, Go, Awake, JoinerInv, RecordInv, ThreadInv, Reaped, BitInv
<1>11. ASSUME NEW t \in Threads, fn_return(t)
      PROVE  BitInv'
  BY <1>11 DEF fn_return, Go, Awake, JoinerInv, RecordInv, ThreadInv, Reaped, BitInv
<1>12. ASSUME NEW t \in Threads, thread_signal(t)
      PROVE  BitInv'
  BY <1>12 DEF thread_signal, Go, Awake, JoinerInv, RecordInv, ThreadInv, Reaped, BitInv
<1>13. ASSUME UNCHANGED threadVars PROVE BitInv'
  BY <1>13 DEF threadVars, JoinerInv, RecordInv, ThreadInv, Reaped, BitInv
<1> QED
  BY Steps, <1>1, <1>2, <1>3, <1>4, <1>5, <1>6, <1>7, <1>8, <1>9, <1>10, <1>11, <1>12, <1>13 DEF running

-----------------------------------------------------------------------------
LEMMA InitInv == Init => IInv
<1> SUFFICES ASSUME Init PROVE IInv
  OBVIOUS
<1> USE OsalThreadAssumption, TimerSlotsAssumption DEF Init, Threads
<1>1. TimerInv
  BY InitTimer
<1>2. ThreadTypes
  BY DEF ThreadTypes, MainPcs, ThreadPcs, NoRecord
<1>3. TypeOK
  BY <1>1, <1>2, TypeParts DEF TimerInv
<1>4. JoinerInv /\ RecordInv /\ ThreadInv /\ BitInv
  BY DEF JoinerInv, RecordInv, ThreadInv, BitInv, MainPcs, ThreadPcs
<1> QED
  BY <1>1, <1>3, <1>4 DEF IInv

LEMMA StepInv ==
  ASSUME IInv, [Next]_vars PROVE IInv'
<1>1. TimerInv'
  BY TimerSteps, StepTimer, SameTimer DEF IInv
<1>2. ThreadTypes' /\ TimerTypeOK'
  BY <1>1, StepTypes DEF TimerInv
<1>3. TypeOK'
  BY <1>2, TypeParts DEF TypeOK, ThreadTypes, MainPcs, ThreadPcs
<1> QED
  BY <1>1, <1>3, StepJoiner, StepRecord, StepThread, StepBit DEF IInv

LEMMA InvHeld == IInv => RecordHeld
BY DEF IInv, ThreadInv, RecordHeld

(* IInv holds always, and gives what the run checks. *)
LEMMA ThreadInvs == Spec => [](TypeOK /\ RecordHeld /\ OwnRequest)
<1>1. IInv => TypeOK /\ RecordHeld /\ OwnRequest
  BY SMTT(30), InvHeld, SlotsOwned DEF IInv
<1> QED
  BY InitInv, StepInv, <1>1, PTL DEF Spec

(* For any tasks, structures, bits and slots: a thread finds its own       *)
(* structure from its first step to its signal, because the polling join   *)
(* never frees it too early.                                               *)
THEOREM ThreadsSafe == Spec => []RecordHeld
BY ThreadInvs, PTL

(* A sleeping task has a timer request of its own, unless the semaphore    *)
(* was initialised in use.                                                 *)
THEOREM TimerOwned == Spec => []OwnRequest
BY ThreadInvs, PTL

(* The structures, the bits and the slots stay what they are declared to   *)
(* be, whatever the order of the calls.                                    *)
THEOREM ThreadsTyped == Spec => []TypeOK
BY ThreadInvs, PTL

(* Only thread_signal makes a signal arrive. *)
LEMMA Arrives ==
  ASSUME IInv, [Next]_vars, NEW m \in Mains, NEW b \in recvd'[m] \ recvd[m]
  PROVE  \E r \in mem : ~ Reaped(r) /\ rec[r].joiner = m /\ rec[r].bit = b
<1> USE OsalThreadAssumption DEF IInv, TypeOK, Threads
<1>1. ASSUME NEW n \in Mains, \/ create(n) \/ create_fail(n) \/ join_call(n)
                               \/ (join_poll(n) /\ ~ UNCHANGED threadVars)
                               \/ join_kill(n) \/ join_freesig(n) \/ join_free(n)
      PROVE  recvd'[m] \subseteq recvd[m]
  BY <1>1 DEF create, create_fail, join_call, join_poll, join_kill, join_freesig,
              join_free, threadVars
<1>2. ASSUME NEW t \in Threads,
             thread_start(t) \/ fn_sleep(t) \/ fn_exit(t) \/ fn_return(t)
      PROVE  recvd'[m] \subseteq recvd[m]
  BY <1>2 DEF thread_start, fn_sleep, fn_exit, fn_return
<1>3. ASSUME NEW t \in Threads, thread_signal(t)
      PROVE  \E r \in mem : ~ Reaped(r) /\ rec[r].joiner = m /\ rec[r].bit = b
  <2>1. arg[t] \in mem /\ ~ Reaped(arg[t])
    BY <1>3 DEF thread_signal, Go, Awake, ThreadInv
  <2>2. recvd' = [recvd EXCEPT ![rec[arg[t]].joiner] = @ \cup {rec[arg[t]].bit}]
    BY <1>3 DEF thread_signal
  <2>3. rec[arg[t]].joiner = m /\ rec[arg[t]].bit = b
    BY <2>1, <2>2 DEF RecordInv
  <2> QED
    BY <2>1, <2>3
<1>4. ASSUME UNCHANGED threadVars
      PROVE  recvd'[m] \subseteq recvd[m]
  BY <1>4 DEF threadVars
<1> QED
  BY Zenon, Steps, <1>1, <1>2, <1>3, <1>4 DEF running

LEMMA BitHeld ==
  ASSUME IInv, NEW r \in mem, ~ Reaped(r)
  PROVE  /\ rec[r].bit \in sigs[rec[r].joiner]
         /\ Cardinality({s \in mem : rec[s].joiner = rec[r].joiner
                                      /\ rec[s].bit = rec[r].bit}) = 1
<1>1. rec[r].bit \in sigs[rec[r].joiner]
  BY DEF IInv, BitInv, Reaped
<1>2. {s \in mem : rec[s].joiner = rec[r].joiner /\ rec[s].bit = rec[r].bit} = {r}
  BY DEF IInv, BitInv
<1>3. Cardinality({r}) = 1
  BY FS_Singleton
<1> QED
  BY <1>1, <1>2, <1>3

(* For any tasks, structures and bits: a completion signal arrives on a    *)
(* bit that is allocated to that thread alone (osal_thread.c:77-83 before  *)
(* the FreeSignal of 112-117).                                             *)
THEOREM SignalsOwned == Spec => SignalOwned
<1>1. ASSUME IInv, [Next]_vars, NEW m \in Mains, NEW b \in recvd'[m] \ recvd[m]
      PROVE  /\ b \in sigs[m]
             /\ Cardinality({r \in mem : rec[r].joiner = m /\ rec[r].bit = b}) = 1
  <2>1. PICK r \in mem : ~ Reaped(r) /\ rec[r].joiner = m /\ rec[r].bit = b
    BY <1>1, Arrives
  <2> QED
    BY Zenon, <1>1, <2>1, BitHeld
<1>2. IInv /\ [Next]_vars =>
        [\A m \in Mains : \A b \in recvd'[m] \ recvd[m] :
          /\ b \in sigs[m]
          /\ Cardinality({r \in mem : rec[r].joiner = m /\ rec[r].bit = b}) = 1]_vars
  BY <1>1
<1> QED
  BY InitInv, StepInv, <1>2, PTL DEF Spec, SignalOwned
=============================================================================
