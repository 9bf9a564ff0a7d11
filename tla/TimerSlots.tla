----------------------------- MODULE TimerSlots -----------------------------
(***************************************************************************)
(* Sleeping with one timer request per task                                *)
(* (src/src/phase1_osal/osal_timer.c).  A task is named by the address of  *)
(* its Task structure, as in the slot table; a slot outlives its owner.    *)
(* Sleeps are of 100 ns or more.                                           *)
(***************************************************************************)
EXTENDS Integers, FiniteSets, FiniteSetsExt

CONSTANTS
    Tasks,
    TIMER_SLOT_MAX,
    None

ASSUME TimerSlotsAssumption == TIMER_SLOT_MAX \in Nat /\ None \notin Tasks

VARIABLES
    g_timer_sem_init,
    holder,        \* of g_timer_sem
    owner,         \* the owner field of g_timer_slots
    nap,           \* where a task is in osal_sleep_ns, "awake" outside of it
    slot,          \* the slot a task found, 0 for none
    broken         \* history: g_timer_sem was initialised while a task held it

timerVars == <<g_timer_sem_init, holder, owner, nap, slot, broken>>

Slots == 1 .. TIMER_SLOT_MAX
FreeSlots == {i \in Slots : owner[i] = None}
SlotsOf(t) == {i \in Slots : owner[i] = t}

(* Nothing has slept yet. *)
TimerInit ==
    /\ g_timer_sem_init = FALSE /\ holder = None /\ broken = FALSE
    /\ owner = [i \in Slots |-> None]
    /\ nap = [t \in Tasks |-> "awake"]
    /\ slot = [t \in Tasks |-> 0]

-----------------------------------------------------------------------------
(* The test of g_timer_sem_init. *)
sleep_call(t) ==
    /\ nap[t] = "awake"
    /\ nap' = [nap EXCEPT ![t] = IF g_timer_sem_init THEN "obtain" ELSE "init"]
    /\ UNCHANGED <<g_timer_sem_init, holder, owner, slot, broken>>

(* InitSemaphore.  A task that held the semaphore no longer does; what     *)
(* exec makes of its release is then undefined, and the model only goes on *)
(* with a free semaphore.                                                  *)
slot_init(t) ==
    /\ nap[t] = "init"
    /\ nap' = [nap EXCEPT ![t] = "obtain"]
    /\ g_timer_sem_init' = TRUE
    /\ holder' = None
    /\ broken' = (broken \/ holder # None)
    /\ UNCHANGED <<owner, slot>>

(* Mutation of slot_obtain: the semaphore is taken without waiting. *)
slot_obtain_now(t) ==
    /\ nap[t] = "obtain"
    /\ holder' = t
    /\ nap' = [nap EXCEPT ![t] = "scan"]
    /\ UNCHANGED <<g_timer_sem_init, owner, slot, broken>>

slot_obtain(t) ==
    /\ nap[t] = "obtain" /\ holder = None
    /\ holder' = t
    /\ nap' = [nap EXCEPT ![t] = "scan"]
    /\ UNCHANGED <<g_timer_sem_init, owner, slot, broken>>

(* Mutation of slot_scan: a full table is not noticed. *)
slot_scan_full(t) ==
    /\ nap[t] = "scan"
    /\ slot' = [slot EXCEPT ![t] = IF SlotsOf(t) # {} THEN Min(SlotsOf(t))
                                   ELSE Min(FreeSlots \cup {TIMER_SLOT_MAX + 1})]
    /\ nap' = [nap EXCEPT ![t] = IF SlotsOf(t) # {} THEN "asleep" ELSE "open"]
    /\ holder' = IF SlotsOf(t) # {} THEN None ELSE holder
    /\ UNCHANGED <<g_timer_sem_init, owner, broken>>

(* Mutation of slot_scan: the semaphore is kept when a slot is found. *)
slot_scan_held(t) ==
    /\ nap[t] = "scan" /\ SlotsOf(t) \cup FreeSlots # {}
    /\ slot' = [slot EXCEPT ![t] = Min(IF SlotsOf(t) # {} THEN SlotsOf(t) ELSE FreeSlots)]
    /\ nap' = [nap EXCEPT ![t] = IF SlotsOf(t) # {} THEN "asleep" ELSE "open"]
    /\ UNCHANGED <<g_timer_sem_init, holder, owner, broken>>

(* The two loops over the table.  With no slot left, or none opened, the   *)
(* sleep is a Wait(0), which no signal ends.                               *)
slot_scan(t) ==
    /\ nap[t] = "scan"
    /\ \/ /\ SlotsOf(t) # {}
          /\ slot' = [slot EXCEPT ![t] = Min(SlotsOf(t))]
          /\ nap' = [nap EXCEPT ![t] = "asleep"]
          /\ holder' = None
       \/ /\ SlotsOf(t) = {} /\ FreeSlots # {}
          /\ slot' = [slot EXCEPT ![t] = Min(FreeSlots)]
          /\ nap' = [nap EXCEPT ![t] = "open"]
          /\ UNCHANGED holder
       \/ /\ SlotsOf(t) = {} /\ FreeSlots = {}
          /\ nap' = [nap EXCEPT ![t] = "frozen"]
          /\ holder' = None
          /\ UNCHANGED slot
    /\ UNCHANGED <<g_timer_sem_init, owner, broken>>

(* The port, the request and the device are opened before the owner is set. *)
slot_open(t) ==
    /\ nap[t] = "open"
    /\ \/ /\ owner' = [owner EXCEPT ![slot[t]] = t]
          /\ nap' = [nap EXCEPT ![t] = "asleep"]
          /\ UNCHANGED slot
       \/ /\ nap' = [nap EXCEPT ![t] = "frozen"]
          /\ slot' = [slot EXCEPT ![t] = 0]
          /\ UNCHANGED owner
    /\ holder' = None
    /\ UNCHANGED <<g_timer_sem_init, broken>>

(* The timer's reply ends DoIO. *)
sleep_done(t) ==
    /\ nap[t] = "asleep"
    /\ nap' = [nap EXCEPT ![t] = "awake"]
    /\ slot' = [slot EXCEPT ![t] = 0]
    /\ UNCHANGED <<g_timer_sem_init, holder, owner, broken>>

(* The steps inside a sleep. *)
sleep_step(t) ==
    slot_init(t) \/ slot_obtain(t) \/ slot_scan(t) \/ slot_open(t) \/ sleep_done(t)

-----------------------------------------------------------------------------
(* Type invariant: a slot found is one of the table. *)
TimerTypeOK ==
    /\ g_timer_sem_init \in BOOLEAN /\ broken \in BOOLEAN
    /\ holder \in Tasks \cup {None}
    /\ owner \in [Slots -> Tasks \cup {None}]
    /\ nap \in [Tasks -> {"awake", "init", "obtain", "scan", "open", "asleep", "frozen"}]
    /\ slot \in [Tasks -> Slots \cup {0}]

(* "Per-task IORequests are the OS-blessed way to avoid concurrent DoIO    *)
(* races on a single request" (osal_timer.c:55-56): a task sleeps on a     *)
(* request of its own, and no two tasks open the same slot, as long as the *)
(* unguarded first initialisation does not meet a held semaphore.          *)
OwnRequest ==
    ~ broken =>
       /\ \A t \in Tasks : nap[t] = "asleep" => owner[slot[t]] = t
       /\ \A t, u \in Tasks : slot[t] = slot[u] /\ slot[t] # 0 => t = u
       /\ \A t \in Tasks : Cardinality(SlotsOf(t)) <= 1

=============================================================================
