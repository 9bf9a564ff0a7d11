# Verification of netstack-amigaos4

TLA+ models of the concurrent and stateful parts of the network stack under
`src/`, checked with TLC on small instances, and proofs of most of their safety
properties and refinements, checked with TLAPS for every size.

## The system

A client program calls `netstack_*` functions. Each call sends one request
message to the *engine*, a task with a public message port, and waits for the
reply. The engine takes one request at a time and runs a dispatcher on a table
of sockets that talk to each other in memory; a NetBSD rump kernel is to take
the table's place later. `bsdsocket.library` wraps the calls and starts the
engine on first use. Below are an OS layer (locks, threads, timers, atomics) for
that kernel, and a ring and a registry for network drivers.

| Part | Source | State | Operations | Module |
|---|---|---|---|---|
| socket table | `phase2_engine/fdtable.c` | 128 entries: kind, port, backlog, peer, receive buffer | socket, close, bind, listen, connect, accept, send, recv | `FdTable`; promise: `Connections`; proofs: `FdTableProofs` |
| engine | `phase2_engine/engine_main.c` | task, launcher, request port, ready and shutdown flags, signals | boot, wait, dispatch, tear down; start, stop | `Engine` |
| client calls | `phase3_bsdsocket/socket_ipc.c` | cached engine port, reply ports by task | init, shutdown, the round trip | `SocketIpc` (composed with `Engine`); proofs of both: `SocketIpcProofs` |
| library wrapper | `phase3_bsdsocket/bsdsocket_library.c` | open count, delayed-expunge flag, started flag | init, open, close, expunge, the `bs_*` calls with the lazy start | `BsdLibrary` (composed with `SocketIpc`); proofs: `SocketIpcProofs` |
| mutex, condition variable | `phase1_osal/osal_lock.c` | mutex and its nesting, waiter ring, a signal bit per task | lock, trylock, unlock, wait, timedwait, signal, broadcast | `OsalCv`; proofs: `OsalCvProofs` |
| circular arrays | in `fdtable.c` and `osal_lock.c` | array, two indices, count | push, pop, push back, remove, reset | `Ring`; promise: `Queue`; proofs: `RingProofs` |
| atomics | `phase1_osal/rump_atomics.c` | a word, reservations | compare-and-swap, add, or, and, swap | `RumpAtomics`; promise: `AtomicWord`; proofs: `RumpAtomicsProofs` |
| driver ring | `phase4_netdev/netdev_ring.c` | slots, two 64-bit counters | init, publish, consume | `NetDevRing`; proofs: `NetDevRingProofs` |
| driver registry | `phase4_netdev/netdev_registry.c` | array of names and drivers | register, unregister, lookup, list | `NetDevRegistry`; promise: `DriverMap`; proofs: `NetDevRegistryProofs` |
| sleep | `phase1_osal/osal_timer.c` | semaphore, timer requests by task | sleep | `TimerSlots` |
| threads | `phase1_osal/osal_thread.c` | task, structure, done flag, signal bit | create, trampoline, exit, join | `OsalThread` (composed with `TimerSlots`); proofs of both: `OsalThreadProofs` |

`PROJECT.json` lists the other files and why they are left out: they are stubs,
output, or thin calls to exec.

What is hard here: requests of several tasks interleave; a descriptor number
stays in a backlog after its socket is gone; the engine may end, or start again,
while calls are under way; signals are bits, so several events look like one;
time-outs race with signals; tasks, structures and signal bits are freed and
used again; the library's code may be unloaded; the driver ring relies on memory
order. The
`hazards` of `PROJECT.json` place each of these at its line.

## How the models correspond to the code

**FdTable.** Each field of `struct fd_entry` is a function of the descriptor. A
dispatcher is one action: the engine is the only caller ("Called only from the
engine's dispatch context", `fdtable.c:12`). `x_err(...)` is the chain of early
returns of dispatcher `x`, in the order of the code. `rx` is the filled part of
the buffer, so `rx_tail` is its length. The backlog is a sequence, which `Ring`
justifies. `domain`, `type`, `proto` and `peer_port` are stored and never used
in a decision. Bad descriptors and bad lengths are among the inputs. There are two
specifications: in `Spec` callers do anything; in `OrderlySpec` nobody closes a
socket whose connect is still unaccepted.

**Engine and SocketIpc.** A run of the engine and its port share a number; 0 is
NULL. A step ends where another task could notice. Signals are Booleans, so two
before one `Wait` merge. Any number of tasks may start and stop the engine, and
all runs share the file's globals: a run drains and frees whatever
`g_request_port` names and signals whatever task `g_launcher_task` names. The
signal masks are left out: launchers are taken to get the same bits from
`AllocSignal`, so a mask overwritten by another launcher does not matter. A
message to a port that is NULL or freed, and a reply to a reply port that is
freed, make the task a member of `lost`; the code reads freed memory there, and
the model says only that the answer never comes. `Break` says whether the user
may send CTRL_C. One task at a time calls `netstack_client_shutdown`.
Allocations of ports, signals and tasks may fail wherever the code looks at the
result. In `SocketIpc` calls, starts, stops and shutdowns come in any order; a
task is in one of them at a time (`Free`). `told` and `broke` are history
variables: the runs that got a shutdown request or a break, and whether the user
has sent one.

Four things are coarser than the code. The test of the engine's loop
(`engine_main.c:110`) and its `Wait` are one step; with several runs at once, a
run already in `Wait` sees a shutdown flag of another run one turn early. A run
is dead from its last signal on (`:126`), although it has still to return
(`:127`). The two semaphores of `socket_ipc.c` are taken as initialised; the
code does that at first use without a lock (`:35-40`, `:73-76`). And the clear of
the cache in `netstack_client_shutdown`, which is outside the semaphore (`:160`),
does not fall between the test and the read of the cache (`:42-45`), where it
would make a call fail that found a port.

**BsdLibrary.** Every task may open the library, call, close it, and be the one in
which exec runs Expunge. Init, Open and Close run under exec's `Forbid` and are
one step; Expunge waits in `NetstackEngine_Stop`, which lets other tasks run, and
is split there: outside Stop's two Waits `Permitted` keeps the other manager
calls out. `bsd_Init` gives the statics of all three files their initial values,
since loading the code does. All `bs_*` calls are `ensure_engine` and then the
round trip; their interface is commented out in the present build
(`bsdsocket_library.c:182`), and the model takes it as enabled.

Nothing in the model keeps tasks out of each other's way where the code has no
lock, and the user may break the engine. `overlap` is a history variable that
records three meetings: a Start that gets past its test while another call of
Start or Stop is under way, and an open or an expunge inside an expunge at work.
`Orderly` says that there has been none and that the user has sent no break. The
properties of the library are stated for as long as `Orderly` holds. Beyond it
they fail, and the runs `lib_race` and `lib_freed` show two ways; a break is a
third, since it ends the engine and leaves `g_engine_started` set. `Orderly` is
lost only by a step that a user of the library takes, and never regained. So the
run `ipc_orderly` does not follow states past that point (`CONSTRAINT Orderly`):
each property is true there by its form, and no fair step leads there. Without
the constraint the invariants were checked too, on 20.9 million states.

**OsalCv.** A section under `cv->guard` is one step. `SIGF_SINGLE` is one
Boolean per task, shared by all its waits. The mutex is an exec semaphore and
nests, up to `MAX_NEST`; `cv_wait` gives up one level. A full waiter list
freezes the calling task (`osal_panic`, `Wait(0)`), which keeps the mutex. Time
is the number of turns of the polling loop. Every task calls `cv_wait`, and
those in `Timed` call `cv_timedwait` as well. `cv_signal` pops under the guard
and signals after it (`osal_lock.c:205-206`), so the popped task may have timed
out meanwhile and be in its next wait. Three history variables follow this:
`due`, the task was popped during its present wait; `overtaken`, signallers
whose popped task has begun another wait; `late`, tasks that such a signaller
has then signalled.

**NetDevRing.** Each access to shared memory is a step. `Ordered` says that a
side's accesses are seen in program order, as between two tasks on the
single-CPU target. Nothing is claimed for several CPUs: the barriers that the
file leaves as stubs would not give that order, since none is marked between the
read of the slot and the store of tail (`netdev_ring.c:43-44`). `atomic64`,
which `Widths` bounds, says that a 64-bit counter is one access; the target is
32-bit, where it is two and a task switch may fall between them. `Carry` says
whether counters in halves are followed past their first carry.

**TimerSlots and OsalThread.** A task is the address of its Task structure, as
in `g_timer_slots`, so a new task may inherit the slot of a dead one. A sleep is
split at the test of `g_timer_sem_init`, the semaphore, the scan and the opening
of the device. With no slot it ends in `Wait(0)`, as in the code: the task is
frozen. Two first sleeps at once may both run `InitSemaphore`; if the semaphore
is held then, `broken` records it, and what exec does next is not modelled.
Threads are created by tasks that do not end (`Mains`). `create` is one step,
since nothing is shared before `Forbid`. The join is split at the poll,
`RemTask`, `FreeSignal` and the free. Only its creator joins a thread.
`rumpuser_thread_create`, the shim and `rumpuser_thread_exit` are part of the
thread's steps.

**RumpAtomics.** Each load and store of the word is a step. A reservation is lost
when anybody stores to the word and, at any time, to a task switch. An operation
is the function it computes, so add, or, and, swap and compare-and-swap are all
covered by quantifying over functions, with 32-bit wrapping among them. The
abstract `AtomicWord` applies an operation in one step between call and return.

**NetDevRegistry.** The file assumes one thread, so a call is one step. A null
argument, which `NetDev_Register` refuses, is not among the inputs.

## What is checked

Passing runs:

| Run | Checks | States |
|---|---|---|
| `fdtable_orderly` | bounds and types; `PairInv`, the inductive invariant of the pairing proof; `BytesKept`: unread bytes change only by the send, recv, close or reuse that reports it; the table implements `Connections` | 103,827 |
| `arrays` | three parts, of which one moves in each behaviour. Circular arrays: index arithmetic; they implement `Queue`. Driver registry: `RegistryOK`; it implements `DriverMap`. Driver ring: types; producer and consumer never in one slot; buffers arrive once and in order | 117,647 |
| `ipc_orderly` | through the library, while `Orderly` holds: one engine at a time, no request lost, reply ports not shared, code loaded while in use, `g_engine_started` true to the engine; calls, Start, Stop and Expunge return, and a delayed expunge is carried out | 22,795 |
| `ipc_any` | types; a request is in exactly one place; no wakeup of the engine is lost; as long as the user sends no break, an engine ends only for a shutdown or a break that Stop sent to it | 1,386,541 |
| `cv` | types; with time-outs, stale signals, nested locks and overflow, no wakeup is lost, the list holds only tasks now waiting unless a late signal was sent, and a chosen waiter gets the mutex back unless a task panicked or sleeps with the mutex | 83,971 |
| `thread` | types; a thread finds its own structure until it has signalled; signals come on bits still held; no two sleepers share a timer request; a join returns unless it is `Stuck` | 124,208 |

Runs that show the code to differ from what the repository says of it:

| Run | What happens |
|---|---|
| `fdtable_peers` | connect, close the client, accept: the new socket is paired with whatever has the old number, possibly itself |
| `ipc_hang` | a request on the port when the engine frees it is never answered and the caller waits for ever |
| `lib_race` | two first calls of the library both get past Start's test, and there are two engines on one set of globals |
| `lib_freed` | a task opens the library while Expunge waits for the engine, and the code it has just opened is unloaded |
| `cv_timed` | a timed waiter that is signalled during its last sleep reports ETIMEDOUT |
| `netdev_ring_torn` | at a carry, a counter read in halves makes the consumer read a slot with nothing new in it |

Each is quoted against its comment or header in the `findings`. For every
property of a passing run a mutated definition, kept beside the original and
commented "Mutation of", shows that a plausible slip in the code violates it.

The models also show, without a run of their own, behaviour that a reader may
not expect: recv between connect and accept reports end of file; bind, bind,
listen, listen on one port all succeed; after a restart a client that did not
shut down still uses the old engine's port (one way into `ipc_hang`); without
program order (`Ordered = FALSE`, or the mutation `ReleaseOK_none`; the file
says at `netdev_ring.c:4-6` that its barriers are missing) the consumer can read
a slot before it is filled; timer slots are never given back, so tasks freeze
once 16 have slept; two tasks whose first sleeps meet can end up on one timer
request (`broken`); `cv_wait` with a mutex taken twice sleeps with the mutex;
the engine tells only the task that started it of its end, so Stop in another
task, or Expunge run in one, never returns (`StopsForeign`, `Stranded`); a first
call of the library that comes while another is starting the engine returns -1;
and a signal that comes late ends the next wait of its task and leaves the entry
of that wait behind.

**Bounds.** `FDTABLE_MAX` counts the three reserved entries. Three descriptors
are a listener and a pair, enough for a full table in accept, reuse of a number
and a backlog with two entries; the theorems cover larger tables, where one pair
might disturb another, and callers that close pending sockets. Buffers of two
bytes fill, compact and take partial sends. Two clients and two engine runs give
a request that survives its engine and a restart; one reply slot for two clients
gives exhaustion. Two tasks that open, call, close and expunge, with two runs,
give a delayed expunge, a reload with fresh statics and an Expunge in the task
that did not start the engine; each has a reply slot, so a full table there is
left to the theorem. Three tasks are a waiter, another waiter and a signaller, with
a waiter list of two that can overflow. One creator and two threads, with two
slots, two structures and two bits, give reuse of each and a sleep without a
slot; a thread's function sleeps at most once. Counters are two words of 8
values: whole counters wrap at 64, and counters in halves stop before their
first carry, since `netdev_ring_torn`, with words of 2 values, shows what
happens there. The circular arrays of four
slots wrap in every operation.

**Fairness.** `SocketIpc!FairSpec` assumes that the engine, a launcher inside
Start or Stop, a client inside a call and a shutdown under way go on when they
can: exec runs every ready task, the engine above the clients. No one is assumed
to call, start, stop or break. `BsdLibrary!LibFairSpec` adds a task inside a
library call; no one is assumed to open, close, call, break or expunge.
`OsalCv!FairSpec` assumes the same of a task inside a call; that a task that
holds the mutex lets it go; and strong fairness of taking the mutex back, since
an exec semaphore serves its queue in order. `OsalThread!FairSpec` assumes that
a thread, a join and a sleep under way go on, with strong fairness for the timer
semaphore for the same reason; a thread's function ends, by returning or by
`rumpuser_thread_exit`.

**Deadlock** is checked except in the `OsalCv` runs, where all tasks may wait
for a signal that nobody is obliged to send, in `thread`, where all tasks may
be frozen in `Wait(0)`, and in `lib_freed`, where with one run to be had all tasks
may be in calls that never return.

## What is proved

Each theorem holds for every value of the constants that the named assumption
of its module allows.

**The socket table** (`FdTableProofs`; sizes are naturals, backlog and buffer at
least 1):

* `TypeCorrect`: `Spec => []TypeOK`. `TypeOK` is inductive as it stands. The
  step that needs an argument is send: `rx_compact` leaves the live bytes at the
  front, and what is written fits in the room that is left.
* `PairsCorrect`: `OrderlySpec => []PairInv`. The property wanted is
  `PairedPeers`: peers point at each other. It is not inductive, because accept
  trusts the number in the backlog. `BacklogsOK` adds what accept relies on:
  only listeners have a backlog, a client is in at most one place of one
  backlog, and it is connected and has no peer; unbound and listening sockets
  have no peer. `TypeOK` is used as well. Without the restriction on close the
  theorem is false, as `fdtable_peers` shows.
* `BytesCorrect`: `Spec => BytesKept`, for any callers. It needs `TypeOK` only:
  compaction leaves exactly the live bytes (`CompactIsLive`), and a read splits
  them into what it returns and what it leaves (`SplitLive`), also when it
  drains the buffer and resets both indices.
* `TableIsConnections`: `OrderlySpec => ImplementsConnections`. Each dispatcher
  has a lemma that its step is a step of `Connections`, or none. It rests on
  `TypeOK`, `PairInv` and `FreeEmpty`, that an entry not in use has nothing
  unread; the lemmas on live bytes of `BytesCorrect` give the streams.

**The circular arrays** (`RingProofs`): `RingSafe`, `RingSpec => []RingInv`, and
`RingIsQueue`, `RingSpec => ImplementsQueue`. `RingInv` is inductive and is all the
refinement needs. The position of entry i counted from index h is kept behind
the operator `At(h, i)`, with five lemmas on how it wraps; no other step reasons
about the modulus.

**Calls to the engine** (`SocketIpcProofs`), in three layers.

* `IpcSafe`, `IpcWakeups` and `IpcTypes`: `Spec => []OnePlace`,
  `[]SignalPending`, `[]TypeOK`, for any clients, launchers that may race or be
  clients too, runs and slots, with breaks. The inductive invariant is `IInv`.
  `TypeOK` is split into the globals, the runs and the tasks; its last conjunct
  is needed by `OnePlace`, since a port that is freed must be the one
  `g_request_port` names. `Places` is `OnePlace` without the set of places,
  `Ports` says that only a run that has opened its port holds messages and that
  who is alive knows a launcher, `OneCall` that a task makes one call at a time.
* `EndsCorrect`: `Spec => []EndsWhenTold` for one launcher. `EndsWhenTold` is far
  from inductive: whether the shutdown flag, a break or a signal is left over
  depends on where Start, Stop and the run are. `Phases` says so: only the last
  run is alive, and the engine is `Off`, `Booting`, `Serving` or `Ending`, each
  with its flags, signals and what the launcher may be at. It holds for
  launchers that take turns (`Turns`) up to the first break of the user. The
  restriction is needed. With two launchers, runs overlap and share the shutdown
  flag. With a break, TLC finds this in three runs: a break ends the first while
  Start still waits, so that Start fails; the run's stopped signal comes after
  the next Start has begun and stays pending; the Stop of the second run returns
  on it while that run is alive; and the shutdown of the third ends the second.
* `LibSoleEngine`, `LibAllAnswered`, `LibOwnReplyPort`, `LibCodeLoaded`,
  `LibStartedRuns`: the safety properties of the library, `LibSpec => []...`, for
  any number of tasks, runs and slots, if every task may do everything
  (`Launchers = Clients`). Each property is stated while `Orderly` holds, that is
  up to the first break and the first meeting of two tasks where the code has no
  lock; `lib_race` and `lib_freed` show why. What is proved is
  `[](Orderly => LInv)`. The invariant `LInv` adds `Lib` to the two above: where a
  task may be (`Where`), who is kept out by whom (`Alone`), what
  `g_engine_started` and the cached port say of the engine (`Cached`), what the
  result of Start and Stop says of it (`Returns`) and the reply ports. First calls
  may still meet: a second one, made while the engine is coming up, fails in
  Start and disturbs nothing. As long as `Orderly` holds launchers take turns, so
  `Phases` carries over; `OrderLost` says that a step from a state that is not
  orderly does not lead back to one that is. `AllAnswered` is the hard one: when a
  run frees its port, nobody is in a call, and the request of the Stop has been
  answered (`NothingLeft`).

**The condition variable** (`OsalCvProofs`): `CvSafe`, `Spec => []NoLostWakeup`;
`CvEntries`, `Spec => []EntriesWait`; `CvTypes`, `Spec => [](TypeOK /\ Held)`.
`Held` says at which points of a call a task owns the mutex, with how many
levels left. Neither of the first two is inductive alone: a popped task must be
known to be asleep until its signal is sent, and the removal of a timed-out
entry must be known to take the first entry of that task and no other.
`EntriesWait` rests on `Tokens`: a wait has one entry until it is popped, and
only the signal of that pop ends it, unless a late signal has reached the task.

**Threads and sleeps** (`OsalThreadProofs`): `ThreadsSafe`, `TimerOwned` and
`ThreadsTyped`, `Spec => []RecordHeld`, `[]OwnRequest` and `[]TypeOK`, and
`SignalsOwned`, `Spec => SignalOwned`.
`RecordHeld` speaks of the thread; the invariant that keeps it speaks of the
structure as well (`RecordInv`): until it is reaped, its task is alive and points
back at it, and once `done` is set the task has nothing left to do but signal.
`JoinerInv` says that a join works on a structure of its own and kills only
after `done`, `BitInv` that a structure's bit stays allocated up to its
`FreeSignal` and belongs to no other structure of that creator. For the sleeps,
`SlotInv` adds the holder of the semaphore and the slot found but not yet owned.
Bits are below 32, as in a signal mask.

**The driver ring** (`NetDevRingProofs`): `RingInOrder`, `RingSlotsApart` and
`RingTypes`, `Spec => []InOrder`, `[]SlotsApart` and `[]TypeOK`, with
`Ordered = TRUE` and `Carry = FALSE`, which `netdev_ring_torn` and the mutation
`ReleaseOK_none` show to be needed, for every size of the ring and of a word. The
counters of the code are two unbounded numbers modulo `SEQ_MOD`: h buffers
accepted by publish and t consumed. `At(h, t)` ties everything to them: `Front(h)`
and `Back(t)` are what `head` and `tail` show while a store is under way; slot
`i % ring_size` holds the buffer with number i, for i from t up to h, except the
one not yet filled and the one already taken; a counter in two words has 0 in the
first, and what was read of the second is at most as old as the call. The lemmas
`SuccIs`, `MinusIs` and `SlotIs` say what the code's wrapping arithmetic computes
of h and t, and `ModApart` that numbers less than a ring apart have different
slots; the steps use no other arithmetic. The size is a power of two, as
`netdev_ring_init` demands; that it divides `SEQ_MOD` follows, but is assumed by
name since the provers do not handle `^`.

**The driver registry** (`NetDevRegistryProofs`): `RegistryIsMap`, `RegistrySpec =>
ImplementsMap`, and `RegistryTypes`. `Appended` and `Dropped` say what the two
changes of the array do to the map it stands for; `NamesCounted` counts the
registered names, on which the capacity test and the list rest.

**The atomics** (`RumpAtomicsProofs`): `AtomicsImplementWord`, `Spec =>
ImplementsAtomicWord`. The invariant: a thread that holds a reservation and is
about to store loaded the word's present value, which is the `old` it computed
`new` from. So a successful store is the operation applied in one step, and a
failed one changes nothing.

Only model-checked: liveness and everything under fairness, which the prover does
not handle (`LibCallReturns`, `LibLauncherReturns`, `ExpungeDone`, `Woken`,
`JoinReturns`). Every safety property, action property and refinement of a
passing run is also proved. `RumpAtomics` is only proved.

## Not modelled

* The reader-writer lock, one exec semaphore taken shared or exclusive, and the
  `rumpuser_*` shims of `osal_lock.c`, which forward or return fixed values
  (229 to the end).
* `atomic_fetchop_32`, a static function without a caller, and the byte swaps of
  `rump_atomics.c`.
* Drivers that register at the same time: `netdev_registry.c` is written for one
  thread at start-up. `create` of a thread is one step because of `Forbid`.
* The clock: the comment above it says that callers must not rely on it. Sleeps
  below 100 ns, which return at once. The timer objects, which are stubs.
* A join by another task than the creator of the thread, and the global pointer
  of the current lwp, which the rump kernel would set. A thread created by a
  thread: its creator may end and be gone when it signals (`osal_thread.c:51`,
  `:68`).
* The race of first calls to initialise a semaphore of `socket_ipc.c` (`:35-40`,
  `:73-76`). The comment at `:36` relies on `netstack_client_init` being called
  first; `netstack_client.h:31` calls it optional. `TimerSlots` models the same
  pattern up to the point where the semaphore breaks.
* What becomes of the engine between its last signal and its return
  (`engine_main.c:126-127`). An Expunge in a task of the engine's priority or above
  may unload the code in between.
* The reference counts of the library's interfaces (`_mgr_Obtain`,
  `_mgr_Release`), which no code reads, and the conversion of socket addresses.
* Tasks that end while they own a reply slot; `TimerSlots` models the same shape
  of table with tasks that end.
* The socket table over a restart of the engine needs no model of its own: a
  restart leaves the table alone, so it is a stuttering step of `FdTable`.
* The allocator, the mbuf pool, logging, link stubs, the reference driver, the
  SANA-II bridge and the benchmark: thin calls to exec, output, or placeholders.
