----------------------------- MODULE SocketIpc ------------------------------
(***************************************************************************)
(* Client calls to the engine (src/src/phase3_bsdsocket/socket_ipc.c): the *)
(* shared cache of the engine's port, a reply port per task, and the round *)
(* trip of a request.  Composed with the engine and its launchers, each    *)
(* free to do anything at any time; BsdLibrary.tla is an orderly user.     *)
(*                                                                         *)
(* A section under one of the two semaphores is one step.  All netstack_*  *)
(* calls fill in a request, make the same round trip and unpack the reply. *)
(* One task at a time calls netstack_client_shutdown.                      *)
(*                                                                         *)
(* The semaphores are taken to be initialised.  The code does it at first  *)
(* use and without a lock (socket_ipc.c:35-40, 73-76), so that two first   *)
(* calls at once may initialise one that is held; the comment at :36 asks  *)
(* for netstack_client_init before that, netstack_client.h:31 calls it     *)
(* optional.  TimerSlots.tla models the same pattern.                      *)
(***************************************************************************)
EXTENDS Engine

CONSTANT REPLY_SLOT_MAX

ASSUME SocketIpcAssumption == REPLY_SLOT_MAX \in Nat

VARIABLES
    g_engine_port, \* the cached port
    g_reply_slots, \* the owner of each reply port
    g_reply_sem_init,
    closing,       \* a client_shutdown has freed the reply ports and not yet cleared the cache
    cpc,           \* where each client is in netstack_ipc_call
    engine         \* the port it was given

replyVars == <<g_reply_slots, g_reply_sem_init>>
clientVars == <<g_engine_port, replyVars, closing, cpc, engine>>
vars == <<engineVars, clientVars>>

Slots == 1 .. REPLY_SLOT_MAX

Init ==
    /\ EngineInit
    /\ g_engine_port = 0
    /\ g_reply_slots = [i \in Slots |-> None]
    /\ g_reply_sem_init = FALSE /\ closing = FALSE
    /\ cpc = [c \in Clients |-> "idle"]
    /\ engine = [c \in Clients |-> 0]

-----------------------------------------------------------------------------
(* FindPort by name: a public port, or NULL. *)
FindPort ==
    LET open == {e \in Runs : port[e] = "open"} IN IF open = {} THEN {0} ELSE open

(* What it may return.  The clear of the cache in netstack_client_shutdown *)
(* (socket_ipc.c:160) is not under the semaphore; that it may fall between *)
(* the test and the read (:42-45), so that a port is found and NULL        *)
(* returned, is left out.                                                  *)
ensure_engine_port == IF g_engine_port = 0 THEN FindPort ELSE {g_engine_port}

netstack_client_init ==
    /\ g_reply_sem_init' = TRUE
    /\ g_engine_port' \in ensure_engine_port
    /\ UNCHANGED <<engineVars, g_reply_slots, closing, cpc, engine>>

(* The reply ports of all tasks are freed, also of tasks that wait on one. *)
(* Before the first use of the table nothing is done at all.               *)
netstack_client_shutdown ==
    /\ ~ closing
    /\ \/ /\ ~ g_reply_sem_init
          /\ UNCHANGED <<g_reply_slots, closing, lost, replied>>
       \/ /\ g_reply_sem_init
          /\ g_reply_slots' = [i \in Slots |-> None]
          /\ closing' = TRUE
          /\ lost' = lost \cup {c \in Clients : cpc[c] \in {"put", "wait"}}
          /\ replied' = replied \ {c \in Clients : cpc[c] = "wait"}
    /\ UNCHANGED <<globals, gen, history, runVars, launchVars, g_engine_port, g_reply_sem_init, cpc, engine>>

(* Its last statement, outside both semaphores. *)
shutdown_clear ==
    /\ closing
    /\ g_engine_port' = 0 /\ closing' = FALSE
    /\ UNCHANGED <<engineVars, replyVars, cpc, engine>>

(* A task makes one call at a time. *)
Free(t) == (t \in Clients => cpc[t] = "idle") /\ (t \in Launchers => ~ Calling(t))

(* netstack_ipc_call: no engine port ends the call. *)
call_engine(c) ==
    /\ Free(c)
    /\ \E p \in ensure_engine_port :
       /\ g_engine_port' = p
       /\ engine' = [engine EXCEPT ![c] = p]
       /\ cpc' = [cpc EXCEPT ![c] = IF p = 0 THEN "idle" ELSE "slot"]
    /\ UNCHANGED <<engineVars, replyVars, closing>>

Owned(c) == {i \in Slots : g_reply_slots[i] = c}

(* Mutation of FreeSlots: the owner is not looked at. *)
FreeSlots_any == Slots

FreeSlots == Owned(None)

FirstOf(S) == CHOOSE i \in S : \A j \in S : i <= j

(* ensure_reply_port: the task's own port, else a new one in the first     *)
(* free slot; without either the call ends.                                *)
call_slot(c) ==
    /\ cpc[c] = "slot"
    /\ \/ /\ Owned(c) # {}
          /\ cpc' = [cpc EXCEPT ![c] = "put"]
          /\ UNCHANGED g_reply_slots
       \/ /\ Owned(c) = {} /\ FreeSlots # {}
          /\ cpc' = [cpc EXCEPT ![c] = "put"]
          /\ g_reply_slots' = [g_reply_slots EXCEPT ![FirstOf(FreeSlots)] = c]
       \/ (* out of slots, or no port to be had *)
          /\ Owned(c) = {}
          /\ cpc' = [cpc EXCEPT ![c] = "idle"]
          /\ UNCHANGED g_reply_slots
    /\ g_reply_sem_init' = TRUE
    /\ UNCHANGED <<engineVars, g_engine_port, closing, engine>>

call_put(c) ==
    /\ cpc[c] = "put"
    /\ cpc' = [cpc EXCEPT ![c] = "wait"]
    /\ PutMsg(engine[c], c)
    /\ UNCHANGED <<globals, gen, history, epc, port, ctrl_c, launchVars, replied,
                   g_engine_port, replyVars, closing, engine>>

call_return(c) ==
    /\ cpc[c] = "wait"
    /\ GetReply(c)
    /\ cpc' = [cpc EXCEPT ![c] = "idle"]
    /\ UNCHANGED <<globals, gen, history, runVars, launchVars, lost,
                   g_engine_port, replyVars, closing, engine>>

client_step(c) == call_slot(c) \/ call_put(c) \/ call_return(c)

-----------------------------------------------------------------------------
Next ==
    \/ \E e \in Runs : (engine_step(e) \/ UserBreak(e)) /\ UNCHANGED clientVars
    \/ \E t \in Launchers :
          /\ \/ Free(t) /\ (NetstackEngine_Start(t) \/ NetstackEngine_Stop(t))
             \/ launcher_step(t)
          /\ UNCHANGED clientVars
    \/ netstack_client_init \/ netstack_client_shutdown \/ shutdown_clear
    \/ \E c \in Clients : call_engine(c) \/ client_step(c)

Spec == Init /\ [][Next]_vars

(* Exec runs every ready task: the engine above the clients, tasks of one  *)
(* priority in turn.  Nobody has to start, stop or call.                   *)
FairSpec ==
    /\ Spec
    /\ \A e \in Runs : WF_vars(engine_step(e) /\ UNCHANGED clientVars)
    /\ \A t \in Launchers : WF_vars(launcher_step(t) /\ UNCHANGED clientVars)
    /\ WF_vars(shutdown_clear)
    /\ \A c \in Clients : WF_vars(client_step(c))

-----------------------------------------------------------------------------
(* Type invariant of the engine, its ports and the clients; a non-null     *)
(* g_request_port is the port of a run that has not got past its           *)
(* tear-down.                                                              *)
EnginePcs == {"none", "boot", "ready", "loop", "drain", "free", "clear", "stopped", "dead"}
LauncherPcs == {"ok", "failed", "publish", "create", "start", "put", "reply", "stop"}
TypeOK ==
    /\ gen \in 0 .. MAX_RUNS /\ told \subseteq Runs /\ broke \in BOOLEAN
    /\ g_engine_task \in 0 .. gen /\ g_request_port \in 0 .. gen
    /\ g_launcher_task \in Launchers \cup {None}
    /\ g_engine_ready \in BOOLEAN /\ g_engine_shutdown \in BOOLEAN
    /\ epc \in [Runs -> EnginePcs]
    /\ port \in [Runs -> {"none", "open", "freed"}]
    /\ queue \in [Runs -> Seq(Tasks)]
    /\ port_sig \in [Runs -> BOOLEAN] /\ ctrl_c \in [Runs -> BOOLEAN]
    /\ ready_sig \subseteq Launchers /\ stopped_sig \subseteq Launchers
    /\ lpc \in [Launchers -> LauncherPcs]
    /\ replied \subseteq Tasks /\ lost \subseteq Tasks
    /\ g_engine_port \in 0 .. gen
    /\ g_reply_slots \in [Slots -> Clients \cup {None}]
    /\ g_reply_sem_init \in BOOLEAN /\ closing \in BOOLEAN
    /\ cpc \in [Clients -> {"idle", "slot", "put", "wait"}]
    /\ engine \in [Clients -> 0 .. gen]
    /\ g_request_port # 0 => epc[g_request_port] \in EnginePcs \ {"none", "boot", "stopped", "dead"}

Waiting(t) == IsShutdown(t) \/ (t \in Clients /\ cpc[t] = "wait")

(* Places where the request of t is. *)
Queued(t) == UNION {{e} \X {i \in DOMAIN queue[e] : queue[e][i] = t} : e \in Runs}

(* Each request is in one place from PutMsg to the return of the call: on  *)
(* one port, or answered, unless a port went away.  In particular no reply *)
(* is left over for the next call of the task (engine_main.c:115-118,      *)
(* socket_ipc.c:124-126).                                                  *)
OnePlace ==
    \A t \in Tasks :
       /\ Queued(t) # {} => Waiting(t) /\ \A x, y \in Queued(t) : x = y
       /\ t \in replied => Waiting(t) /\ Queued(t) = {}
       /\ Waiting(t) => t \in lost \/ t \in replied \/ Queued(t) # {}

(* No wakeup of the engine is lost: the run that serves g_request_port and *)
(* is about to Wait, for the first time or again, with requests on the     *)
(* port has the port's signal pending (engine_main.c:83-120).              *)
SignalPending ==
    \A e \in Runs :
       epc[e] \in {"ready", "loop"} /\ g_request_port = e /\ queue[e] # <<>> => port_sig[e]

(* As long as the user sends no break, the engine that one launcher starts *)
(* and stops ends only for a shutdown request, or a break from Stop, of    *)
(* its own: what stopped the last run does not stop this one               *)
(* (engine_main.c:104, 110).                                               *)
EndsWhenTold ==
    ~ broke => \A e \in Runs : epc[e] \in {"free", "clear", "stopped"} => e \in told

(* There is never more than one engine, and Stop returns only when it is   *)
(* gone: the port, the globals and the socket table have one owner.        *)
OneEngine ==
    /\ \A d, e \in Live : d = e
    /\ g_engine_task = 0 => Live = {}

(* Stopped in an orderly way, the engine answers every request.            *)
NothingLost == lost = {}

(* A task that waits for a reply owns a reply port, and no other task does. *)
ReplyPortHeld ==
    \A c \in Clients : cpc[c] \in {"put", "wait"} =>
       \E i \in Slots : g_reply_slots[i] = c /\ \A j \in Slots \ {i} : g_reply_slots[j] # c

(* "Returns 0 if the message round-tripped; -1 if we couldn't reach the    *)
(* engine" (socket_ipc.c:106-107): every call returns.                     *)
CallReturns == \A c \in Clients : cpc[c] # "idle" ~> cpc[c] = "idle"

(* NetstackEngine_Start and NetstackEngine_Stop return, except a Stop in a *)
(* task that did not start the engine (engine_main.c:126, 203).            *)
LauncherReturns == \A t \in Launchers : Calling(t) ~> ~ Calling(t) \/ StopsForeign(t)

=============================================================================
