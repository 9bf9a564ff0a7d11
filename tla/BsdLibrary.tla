----------------------------- MODULE BsdLibrary -----------------------------
(***************************************************************************)
(* bsdsocket.library (src/src/phase3_bsdsocket/bsdsocket_library.c): open, *)
(* close, expunge, and the bs_* calls, which start the engine on first     *)
(* use.  Composed with the client calls and the engine it links in: their  *)
(* statics come and go with the library's code.                            *)
(*                                                                         *)
(* Every task is a client and a launcher: it may open the library, call,   *)
(* close it, and be the one in which exec runs Expunge.  Exec runs the     *)
(* manager calls with switching forbidden, which a Wait in them undoes:    *)
(* Open and Close are one step, Expunge is not, and another manager call   *)
(* may come while it waits for the engine.  All bs_* calls test and start  *)
(* the engine and then make the netstack_* call of the same name; the      *)
(* build exports them once the "main" interface is enabled.                *)
(***************************************************************************)
EXTENDS SocketIpc, FiniteSets

VARIABLES
    lib,           \* whether the library's code is loaded: "in", "out"
    lib_OpenCnt,
    DELEXP,        \* LIBF_DELEXP
    g_engine_started,
    opened,        \* tasks that have the library open
    bpc,           \* where each task is in the library; "app" when it is not
    overlap        \* history: whether two tasks met where the code has no lock

countVars == <<lib, lib_OpenCnt, DELEXP, opened>>
libVars == <<vars, countVars, g_engine_started, bpc, overlap>>

Away(t) == bpc[t] = "app" /\ Free(t)
Moves(t, at, to) == bpc[t] = at /\ bpc' = [bpc EXCEPT ![t] = to]

Expunging(t) == bpc[t] \in {"expunge", "stop", "delete"}

(* In one of Stop's two Waits; else it keeps the other tasks from running. *)
GivesWay(t) == bpc[t] = "delete" /\ lpc[t] \in {"reply", "stop"}
Permitted == \A u \in Clients : Expunging(u) => GivesWay(u)

(* An Expunge in a task that did not start the engine waits for ever. *)
Stranded(t) == bpc[t] = "delete" /\ StopsForeign(t)

(* An Expunge that is still going to unload the code, or end the engine. *)
AtWork(t) == Expunging(t) /\ (Stranded(t) => Live # {})

LibInit ==
    /\ Init
    /\ lib = "out" /\ lib_OpenCnt = 0 /\ DELEXP = FALSE
    /\ g_engine_started = FALSE
    /\ opened = {}
    /\ bpc = [t \in Clients |-> "app"]
    /\ overlap = FALSE

-----------------------------------------------------------------------------
(* The code is loaded, with fresh statics. *)
bsd_Init ==
    /\ lib = "out"
    /\ lib' = "in" /\ lib_OpenCnt' = 0 /\ DELEXP' = FALSE
    /\ g_engine_started' = FALSE
    /\ g_engine_task' = 0 /\ g_launcher_task' = None /\ g_request_port' = 0
    /\ g_engine_ready' = FALSE /\ g_engine_shutdown' = FALSE
    /\ g_engine_port' = 0
    /\ g_reply_slots' = [i \in Slots |-> None] /\ g_reply_sem_init' = FALSE
    /\ UNCHANGED <<gen, history, runVars, launchVars, msgVars, closing, cpc, engine, opened, bpc, overlap>>

mgr_Open(t) ==
    /\ lib = "in" /\ Permitted /\ Away(t) /\ t \notin opened
    /\ lib_OpenCnt' = lib_OpenCnt + 1
    /\ DELEXP' = FALSE
    /\ opened' = opened \cup {t}
    /\ overlap' = (overlap \/ \E u \in Clients : AtWork(u))
    /\ UNCHANGED <<vars, lib, g_engine_started, bpc>>

(* Mutation of last_close: any close completes a delayed expunge. *)
last_close_any == TRUE

(* Mutation of last_close: the count is looked at before it is lowered. *)
last_close_early == lib_OpenCnt = 0

last_close == lib_OpenCnt' = 0

mgr_Close(t) ==
    /\ lib = "in" /\ Permitted /\ Away(t) /\ t \in opened
    /\ lib_OpenCnt' = lib_OpenCnt - 1
    /\ opened' = opened \ {t}
    /\ bpc' = [bpc EXCEPT ![t] = IF last_close /\ DELEXP THEN "expunge" ELSE @]
    /\ UNCHANGED <<vars, lib, DELEXP, g_engine_started, overlap>>

(* Mutation of in_use: one opener is not counted. *)
in_use_off == lib_OpenCnt > 1

in_use == lib_OpenCnt > 0

(* Exec wants memory back. *)
mgr_Expunge(t) ==
    /\ lib = "in" /\ Permitted /\ Away(t)
    /\ DELEXP' = (DELEXP \/ in_use)
    /\ bpc' = [bpc EXCEPT ![t] = IF in_use THEN @ ELSE "expunge"]
    /\ overlap' = (overlap \/ \E u \in Clients : Expunging(u))
    /\ UNCHANGED <<vars, lib, lib_OpenCnt, opened, g_engine_started>>

expunge_client(t) ==
    /\ Moves(t, "expunge", "stop")
    /\ netstack_client_shutdown
    /\ UNCHANGED <<countVars, g_engine_started, overlap>>

expunge_stop(t) ==
    /\ Moves(t, "stop", "delete") /\ ~ closing
    /\ NetstackEngine_Stop(t)
    /\ UNCHANGED <<clientVars, countVars, g_engine_started, overlap>>

(* Remove, DeleteLibrary, and the code is unloaded. *)
expunge_delete(t) ==
    /\ Moves(t, "delete", "app") /\ ~ Calling(t)
    /\ lib' = "out"
    /\ UNCHANGED <<vars, lib_OpenCnt, DELEXP, opened, g_engine_started, overlap>>

-----------------------------------------------------------------------------
(* A bs_* call: ensure_engine first.  No lock keeps a second task from     *)
(* Start's test until the first has stored g_engine_task.                  *)
bs_call(t) ==
    /\ lib = "in" /\ Away(t) /\ t \in opened
    /\ \/ /\ g_engine_started
          /\ call_engine(t)
          /\ UNCHANGED <<bpc, overlap>>
       \/ /\ ~ g_engine_started
          /\ NetstackEngine_Start(t)
          /\ bpc' = [bpc EXCEPT ![t] = "start"]
          /\ overlap' = (overlap \/ (g_engine_task = 0 /\ \E u \in Clients : Calling(u)))
          /\ UNCHANGED clientVars
    /\ UNCHANGED <<countVars, g_engine_started>>

(* Mutation of started: what the two calls returned is not looked at. *)
started_blind(t) == TRUE

started(t) == lpc[t] = "ok" /\ g_engine_port' # 0

(* The rest of ensure_engine, when Start has returned. *)
ensure_engine(t) ==
    /\ ~ Calling(t)
    /\ IF lpc[t] = "ok" THEN netstack_client_init ELSE UNCHANGED vars
    /\ g_engine_started' = (g_engine_started \/ started(t))
    /\ Moves(t, "start", IF started(t) THEN "call" ELSE "app")
    /\ UNCHANGED <<countVars, overlap>>

bs_rpc(t) ==
    /\ Moves(t, "call", "app")
    /\ call_engine(t)
    /\ UNCHANGED <<countVars, g_engine_started, overlap>>

lib_step(t) ==
    \/ expunge_client(t) \/ expunge_stop(t) \/ expunge_delete(t)
    \/ ensure_engine(t) \/ bs_rpc(t)

-----------------------------------------------------------------------------
rest == <<countVars, g_engine_started, bpc, overlap>>

LibNext ==
    \/ bsd_Init
    \/ \E t \in Clients :
          \/ mgr_Open(t) \/ mgr_Close(t) \/ mgr_Expunge(t) \/ bs_call(t) \/ lib_step(t)
          \/ client_step(t) /\ UNCHANGED rest
          \/ launcher_step(t) /\ UNCHANGED <<clientVars, rest>>
    \/ shutdown_clear /\ UNCHANGED rest
    \/ \E e \in Runs : (engine_step(e) \/ UserBreak(e)) /\ UNCHANGED <<clientVars, rest>>

LibSpec == LibInit /\ [][LibNext]_libVars

(* As in SocketIpc: a task inside the library or the engine runs on. *)
LibFairSpec ==
    /\ LibSpec
    /\ \A e \in Runs : WF_libVars(engine_step(e) /\ UNCHANGED <<clientVars, rest>>)
    /\ WF_libVars(shutdown_clear /\ UNCHANGED rest)
    /\ \A t \in Clients :
          /\ WF_libVars(lib_step(t))
          /\ WF_libVars(client_step(t) /\ UNCHANGED rest)
          /\ WF_libVars(launcher_step(t) /\ UNCHANGED <<clientVars, rest>>)

-----------------------------------------------------------------------------
(* The user has sent no break, no Start got past its test inside another,  *)
(* and no open or expunge came inside an expunge at work.  The code keeps  *)
(* nobody to that, and without it what is said below fails: OneEngine and  *)
(* FreedUnused are two cases.  After code was unloaded in use the model    *)
(* goes on, and the program need not.                                      *)
Orderly == ~ broke /\ ~ overlap

(* In order, there is never more than one engine, and Stop and a failed    *)
(* Start return only when the engine is past its last signal               *)
(* (engine_main.c:134, 166, 203): first calls may meet anywhere but        *)
(* between Start's test and its store.                                     *)
SoleEngine == Orderly => OneEngine

(* In order, the engine answers every request: Expunge stops it only when  *)
(* nobody is in a call (bsdsocket_library.c:312-321).                      *)
AllAnswered == Orderly => NothingLost

(* In order, a task that waits for a reply owns a reply port, and no other *)
(* task does, also when the table is full (socket_ipc.c:66-103).           *)
OwnReplyPort == Orderly => ReplyPortHeld

(* "Expunge frees the library base + seglist when refcount is 0"           *)
(* (bsdsocket_library.c:268-269): in order, the code is there for every    *)
(* task that has the library open or is inside it, and for the engine up   *)
(* to its last signal.  The engine's return (engine_main.c:127) is not     *)
(* covered: an Expunge in a task of the engine's priority or above may     *)
(* unload the code first.                                                  *)
CodeLoaded ==
    Orderly /\ lib = "out" => opened = {} /\ (\A t \in Clients : Away(t)) /\ Live = {}

(* "Idempotent + cheap after first success" (bsdsocket_library.c:251): in  *)
(* order, once ensure_engine has succeeded a call may go ahead without a   *)
(* test, because the cached port is that of the running engine, until an   *)
(* expunge begins.  A break ends the engine and leaves g_engine_started    *)
(* set (engine_main.c:112).                                                *)
StartedRuns ==
    Orderly /\ g_engine_started /\ lib = "in" /\ (\A t \in Clients : ~ Expunging(t)) =>
       /\ NetstackEngine_IsRunning
       /\ g_engine_port = g_request_port /\ g_request_port # 0
       /\ epc[g_request_port] \in {"loop", "drain"}

(* "Expunge frees the library base + seglist when refcount is 0"           *)
(* (bsdsocket_library.c:268-269), as it stands: code that is gone is open  *)
(* to nobody.  The count is tested at :312, and Stop waits at :321.        *)
FreedUnused == lib = "out" => opened = {}

(* In order, every call returns (socket_ipc.c:106-107). *)
LibCallReturns == \A c \in Clients : cpc[c] # "idle" ~> cpc[c] = "idle" \/ ~ Orderly

(* In order, Start and Stop return, except a Stop in a task that did not   *)
(* start the engine (engine_main.c:126, 203).                              *)
LibLauncherReturns ==
    \A t \in Launchers : Calling(t) ~> ~ Calling(t) \/ StopsForeign(t) \/ ~ Orderly

(* "Expunge ... Stops the engine, releases seglist"                         *)
(* (bsdsocket_library.c:16-17): in order, a delayed expunge is carried out  *)
(* once nobody has the library open, and an expunge comes to its end,       *)
(* unless it runs in a task that did not start the engine.                  *)
ExpungeDone ==
    /\ lib = "in" /\ DELEXP /\ opened = {} ~>
          lib = "out" \/ (\E t \in Clients : Stranded(t)) \/ opened # {} \/ ~ Orderly
    /\ \A t \in Clients : Expunging(t) ~> ~ Expunging(t) \/ Stranded(t) \/ ~ Orderly

=============================================================================
