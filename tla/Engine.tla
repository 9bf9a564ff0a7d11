------------------------------- MODULE Engine -------------------------------
(***************************************************************************)
(* The engine process and the tasks that start and stop it                 *)
(* (src/src/phase2_engine/engine_main.c).  Each start creates a new run of *)
(* engine_process_main with a request port of its own; a run and its port  *)
(* share a number, and 0 is NULL.  The runs share the file's globals: a    *)
(* run reads g_request_port again at each GetMsg and signals whatever task *)
(* g_launcher_task names.  A step ends where another task can see the      *)
(* difference.                                                             *)
(*                                                                         *)
(* A request is named by the task that sent it: a task waits for its reply *)
(* before it sends another.  What the socket dispatchers do with a request *)
(* is FdTable.tla.                                                         *)
(***************************************************************************)
EXTENDS Integers, Sequences

CONSTANTS
    Clients,       \* tasks that make calls
    Launchers,     \* tasks that call Start and Stop
    None,          \* no task
    MAX_RUNS,      \* bound: number of starts
    Break          \* whether the user may send CTRL_C to the engine

Tasks == Clients \cup Launchers

ASSUME EngineAssumption == MAX_RUNS \in Nat /\ None \notin Tasks /\ Break \in BOOLEAN

VARIABLES
    g_engine_task, g_launcher_task, g_request_port, g_engine_ready, g_engine_shutdown,
    gen,           \* number of runs created
    told,          \* history: runs that got a shutdown request or a break
    broke,         \* history: whether the user has sent a break
    epc,           \* where each run is
    port,          \* its request port: none yet, open, freed
    queue,         \* the messages on the port
    port_sig,      \* the port's signal, pending at the run's task
    ctrl_c,        \* SIGBREAKF_CTRL_C, likewise
    ready_sig, stopped_sig,  \* launchers with that signal pending
    lpc,           \* where each launcher is; "ok" or "failed" between calls
    replied,       \* tasks with a reply waiting on their reply port
    lost           \* tasks whose request or reply went to no live port

globals == <<g_engine_task, g_launcher_task, g_request_port, g_engine_ready, g_engine_shutdown>>
runVars == <<epc, port, queue, port_sig, ctrl_c>>
launchVars == <<ready_sig, stopped_sig, lpc>>
msgVars == <<replied, lost>>
history == <<told, broke>>
engineVars == <<globals, gen, history, runVars, launchVars, msgVars>>

Runs == 1 .. MAX_RUNS
Live == {e \in Runs : epc[e] \notin {"none", "dead"}}
Elements(s) == {s[i] : i \in DOMAIN s}

EngineInit ==
    /\ g_engine_task = 0 /\ g_launcher_task = None /\ g_request_port = 0
    /\ g_engine_ready = FALSE /\ g_engine_shutdown = FALSE
    /\ gen = 0 /\ told = {} /\ broke = FALSE
    /\ epc = [e \in Runs |-> "none"] /\ port = [e \in Runs |-> "none"]
    /\ queue = [e \in Runs |-> <<>>]
    /\ port_sig = [e \in Runs |-> FALSE] /\ ctrl_c = [e \in Runs |-> FALSE]
    /\ ready_sig = {} /\ stopped_sig = {}
    /\ lpc = [t \in Launchers |-> "ok"]
    /\ replied = {} /\ lost = {}

(* PutMsg by task t; a port that is NULL or freed takes no message. *)
PutMsg(e, t) ==
    IF e # 0 /\ port[e] = "open"
    THEN /\ queue' = [queue EXCEPT ![e] = Append(@, t)]
         /\ port_sig' = [port_sig EXCEPT ![e] = TRUE]
         /\ UNCHANGED lost
    ELSE /\ lost' = lost \cup {t}
         /\ UNCHANGED <<queue, port_sig>>

(* Mutation of GetReply: the reply stays on the reply port. *)
GetReply_left(t) == t \in replied /\ UNCHANGED replied

(* WaitPort and GetMsg on the reply port. *)
GetReply(t) == t \in replied /\ replied' = replied \ {t}

-----------------------------------------------------------------------------
(* engine_process_main *)

(* Mutation of TellReady: the launcher is not told. *)
TellReady_not == UNCHANGED ready_sig

TellReady == ready_sig' = ready_sig \cup {g_launcher_task}

boot_fail(e) ==
    /\ epc[e] = "boot"
    /\ epc' = [epc EXCEPT ![e] = "dead"]
    /\ g_request_port' = 0
    /\ TellReady
    /\ UNCHANGED <<g_engine_task, g_launcher_task, g_engine_ready, g_engine_shutdown, gen, history,
                   port, queue, port_sig, ctrl_c, stopped_sig, lpc, msgVars>>

boot_port(e) ==
    /\ epc[e] = "boot"
    /\ epc' = [epc EXCEPT ![e] = "ready"]
    /\ port' = [port EXCEPT ![e] = "open"]
    /\ g_request_port' = e
    /\ UNCHANGED <<g_engine_task, g_launcher_task, g_engine_ready, g_engine_shutdown, gen, history,
                   queue, port_sig, ctrl_c, launchVars, msgVars>>

(* Mutation of boot_flags: the shutdown flag of the last run stays set. *)
boot_flags_stale == g_engine_ready' = TRUE /\ UNCHANGED g_engine_shutdown

boot_flags == g_engine_ready' = TRUE /\ g_engine_shutdown' = FALSE

boot_ready(e) ==
    /\ epc[e] = "ready"
    /\ epc' = [epc EXCEPT ![e] = "loop"]
    /\ boot_flags
    /\ TellReady
    /\ UNCHANGED <<g_engine_task, g_launcher_task, g_request_port, gen, history,
                   port, queue, port_sig, ctrl_c, stopped_sig, lpc, msgVars>>

(* The test of the loop (engine_main.c:110) and a return from Wait (:111)  *)
(* with all pending signals, in one step.  A flag that another run sets    *)
(* between the two is noticed one turn later in the code; with one run,    *)
(* only the run itself sets it, and the two cannot be told apart.  A break *)
(* goes before the requests that are waiting.                              *)
engine_wait(e) ==
    /\ epc[e] = "loop"
    /\ \/ /\ g_engine_shutdown
          /\ epc' = [epc EXCEPT ![e] = "free"]
          /\ UNCHANGED <<ctrl_c, port_sig, told>>
       \/ /\ ~ g_engine_shutdown
          /\ ctrl_c[e] \/ port_sig[e]
          /\ epc' = [epc EXCEPT ![e] = IF ctrl_c[e] THEN "free" ELSE "drain"]
          /\ ctrl_c' = [ctrl_c EXCEPT ![e] = FALSE]
          /\ port_sig' = [port_sig EXCEPT ![e] = FALSE]
          /\ told' = IF ctrl_c[e] THEN told \cup {e} ELSE told
    /\ UNCHANGED <<globals, gen, broke, port, queue, launchVars, msgVars>>

(* Mutation of after_reply: one message for each wakeup. *)
after_reply_one == "loop"

after_reply == "drain"

IsShutdown(t) == t \in Launchers /\ lpc[t] = "reply"

(* GetMsg, dispatch_request and ReplyMsg.  Only Stop sends a shutdown.  A  *)
(* reply to a port freed meanwhile reaches nobody.  Without a port, GetMsg *)
(* of NULL halts the task: there is no step.                               *)
engine_dispatch(e) ==
    /\ epc[e] = "drain" /\ g_request_port # 0
    /\ LET p == g_request_port IN
       /\ queue[p] # <<>>
       /\ epc' = [epc EXCEPT ![e] = after_reply]
       /\ queue' = [queue EXCEPT ![p] = Tail(@)]
       /\ g_engine_shutdown' = (g_engine_shutdown \/ IsShutdown(Head(queue[p])))
       /\ told' = IF IsShutdown(Head(queue[p])) THEN told \cup {e} ELSE told
       /\ replied' = replied \cup ({Head(queue[p])} \ lost)
    /\ UNCHANGED <<g_engine_task, g_launcher_task, g_request_port, g_engine_ready, gen, broke,
                   port, port_sig, ctrl_c, launchVars, lost>>

engine_drained(e) ==
    /\ epc[e] = "drain" /\ g_request_port # 0 /\ queue[g_request_port] = <<>>
    /\ epc' = [epc EXCEPT ![e] = "loop"]
    /\ UNCHANGED <<globals, gen, history, port, queue, port_sig, ctrl_c, launchVars, msgVars>>

(* Tear-down: messages still on the port are never replied to. *)
engine_free(e) ==
    /\ epc[e] = "free"
    /\ epc' = [epc EXCEPT ![e] = "clear"]
    /\ IF g_request_port = 0
       THEN UNCHANGED <<port, queue, lost>>
       ELSE /\ port' = [port EXCEPT ![g_request_port] = "freed"]
            /\ queue' = [queue EXCEPT ![g_request_port] = <<>>]
            /\ lost' = lost \cup Elements(queue[g_request_port])
    /\ UNCHANGED <<globals, gen, history, port_sig, ctrl_c, launchVars, replied>>

(* Mutation of cleared_port: the pointer to the freed port stays. *)
cleared_port_not == g_request_port

cleared_port == 0

engine_clear(e) ==
    /\ epc[e] = "clear"
    /\ epc' = [epc EXCEPT ![e] = "stopped"]
    /\ g_request_port' = cleared_port /\ g_engine_ready' = FALSE
    /\ UNCHANGED <<g_engine_task, g_launcher_task, g_engine_shutdown, gen, history,
                   port, queue, port_sig, ctrl_c, launchVars, msgVars>>

TellStopped == stopped_sig' = stopped_sig \cup {g_launcher_task}

(* The last signal (engine_main.c:126), after which the run counts as      *)
(* dead: its pending signals no longer matter.  What is left of it, the    *)
(* return (:127), touches nothing shared but still runs in this code.      *)
engine_stopped(e) ==
    /\ epc[e] = "stopped"
    /\ epc' = [epc EXCEPT ![e] = "dead"]
    /\ ctrl_c' = [ctrl_c EXCEPT ![e] = FALSE]
    /\ port_sig' = [port_sig EXCEPT ![e] = FALSE]
    /\ TellStopped
    /\ UNCHANGED <<globals, gen, history, port, queue, ready_sig, lpc, msgVars>>

engine_step(e) ==
    \/ boot_fail(e) \/ boot_port(e) \/ boot_ready(e)
    \/ engine_wait(e) \/ engine_dispatch(e) \/ engine_drained(e)
    \/ engine_free(e) \/ engine_clear(e) \/ engine_stopped(e)

UserBreak(e) ==
    /\ Break /\ e \in Live
    /\ ctrl_c' = [ctrl_c EXCEPT ![e] = TRUE]
    /\ broke' = TRUE
    /\ UNCHANGED <<globals, gen, told, epc, port, queue, port_sig, launchVars, msgVars>>

-----------------------------------------------------------------------------
(* NetstackEngine_Start by task t: the test, the stores for the engine to  *)
(* find, the creation and the wait are apart.                              *)

Calling(t) == lpc[t] \notin {"ok", "failed"}
Goes(t, at, to) == lpc[t] = at /\ lpc' = [lpc EXCEPT ![t] = to]

NetstackEngine_Start(t) ==
    /\ ~ Calling(t)
    /\ lpc' = [lpc EXCEPT ![t] = IF g_engine_task # 0 THEN "failed" ELSE "publish"]
    /\ UNCHANGED <<globals, gen, history, runVars, ready_sig, stopped_sig, msgVars>>

(* Signals just allocated are clear; without two bits to be had, Start     *)
(* fails.                                                                  *)
start_publish(t) ==
    /\ g_launcher_task' = t
    /\ \/ /\ Goes(t, "publish", "create")
          /\ g_engine_ready' = FALSE
          /\ ready_sig' = ready_sig \ {t} /\ stopped_sig' = stopped_sig \ {t}
       \/ /\ Goes(t, "publish", "failed")
          /\ UNCHANGED <<g_engine_ready, ready_sig, stopped_sig>>
    /\ UNCHANGED <<g_engine_task, g_request_port, g_engine_shutdown, gen, history, runVars, msgVars>>

start_create(t) ==
    /\ \/ /\ gen < MAX_RUNS
          /\ Goes(t, "create", "start")
          /\ gen' = gen + 1
          /\ g_engine_task' = gen + 1
          /\ epc' = [epc EXCEPT ![gen + 1] = "boot"]
       \/ (* no task created *)
          /\ Goes(t, "create", "failed")
          /\ g_engine_task' = 0
          /\ UNCHANGED <<gen, epc>>
    /\ UNCHANGED <<g_launcher_task, g_request_port, g_engine_ready, g_engine_shutdown, history,
                   port, queue, port_sig, ctrl_c, ready_sig, stopped_sig, msgVars>>

start_wait(t) ==
    /\ t \in ready_sig
    /\ Goes(t, "start", IF g_engine_ready THEN "ok" ELSE "failed")
    /\ ready_sig' = ready_sig \ {t}
    /\ g_engine_task' = IF g_engine_ready THEN g_engine_task ELSE 0
    /\ UNCHANGED <<g_launcher_task, g_request_port, g_engine_ready, g_engine_shutdown, gen, history,
                   runVars, stopped_sig, msgVars>>

NetstackEngine_IsRunning == g_engine_task # 0 /\ g_engine_ready

-----------------------------------------------------------------------------
(* NetstackEngine_Stop by task t.  g_request_port is read twice: to choose *)
(* between the request and the break, and for PutMsg.                      *)

NetstackEngine_Stop(t) ==
    /\ ~ Calling(t)
    /\ \/ /\ g_engine_task = 0
          /\ lpc' = [lpc EXCEPT ![t] = "ok"]
          /\ UNCHANGED ctrl_c
       \/ /\ g_engine_task # 0 /\ g_request_port # 0
          /\ lpc' = [lpc EXCEPT ![t] = "put"]
          /\ UNCHANGED ctrl_c
       \/ (* no request port, or no reply port to be had *)
          /\ g_engine_task # 0
          /\ lpc' = [lpc EXCEPT ![t] = "stop"]
          /\ ctrl_c' = [ctrl_c EXCEPT ![g_engine_task] = TRUE]
    /\ UNCHANGED <<globals, gen, history, epc, port, queue, port_sig, ready_sig, stopped_sig, msgVars>>

stop_put(t) ==
    /\ Goes(t, "put", "reply")
    /\ PutMsg(g_request_port, t)
    /\ UNCHANGED <<globals, gen, history, epc, port, ctrl_c, ready_sig, stopped_sig, replied>>

stop_reply(t) ==
    /\ Goes(t, "reply", "stop")
    /\ GetReply(t)
    /\ UNCHANGED <<globals, gen, history, runVars, ready_sig, stopped_sig, lost>>

(* Mutation of stopped_seen: Stop does not wait for the engine to end. *)
stopped_seen_not(t) == TRUE

stopped_seen(t) == t \in stopped_sig

(* The engine signals g_launcher_task: a task that did not start it has no *)
(* such signal coming, and waits for ever.                                 *)
StopsForeign(t) == lpc[t] = "stop" /\ g_launcher_task # t

stop_wait(t) ==
    /\ stopped_seen(t)
    /\ Goes(t, "stop", "ok")
    /\ stopped_sig' = stopped_sig \ {t}
    /\ g_engine_task' = 0
    /\ UNCHANGED <<g_launcher_task, g_request_port, g_engine_ready, g_engine_shutdown, gen, history,
                   runVars, ready_sig, msgVars>>

launcher_step(t) ==
    \/ start_publish(t) \/ start_create(t) \/ start_wait(t)
    \/ stop_put(t) \/ stop_reply(t) \/ stop_wait(t)

=============================================================================
