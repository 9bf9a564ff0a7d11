--------------------------- MODULE SocketIpcProofs --------------------------
(***************************************************************************)
(* For any number of clients, launchers, runs of the engine and reply      *)
(* ports: the round trip of a request, with launchers and clients that     *)
(* start, stop, shut down and call at any time (IInv); the life of the     *)
(* engine under launchers that take turns (Phases); and the library on top *)
(* of both (LInv).                                                         *)
(***************************************************************************)
EXTENDS BsdLibrary, SequenceTheorems, FiniteSetTheorems, NaturalsInduction, WellFoundedInduction, TLAPS

(* The request of t is on some port. *)
Has(t) == \E e \in Runs : \E i \in DOMAIN queue[e] : queue[e][i] = t

(* OnePlace, without the set of places. *)
Places ==
    \A t \in Tasks :
       /\ Has(t) => Waiting(t)
       /\ \A d, e \in Runs : \A i \in DOMAIN queue[d], j \in DOMAIN queue[e] :
             queue[d][i] = t /\ queue[e][j] = t => d = e /\ i = j
       /\ t \in replied => Waiting(t) /\ ~ Has(t)
       /\ Waiting(t) => t \in lost \/ t \in replied \/ Has(t)

(* A run that has not opened its port has nothing on it, a run not created *)
(* does nothing, and who has created one has put its name down.            *)
Ports ==
    /\ \A e \in Runs : /\ epc[e] \in {"none", "boot"} => port[e] = "none"
                       /\ port[e] = "none" => queue[e] = <<>>
                       /\ e > gen => epc[e] = "none"
    /\ Live # {} \/ (\E t \in Launchers : lpc[t] = "create") => g_launcher_task # None

(* TypeOK in parts. *)
GlobalsOK ==
    /\ gen \in 0 .. MAX_RUNS /\ told \subseteq Runs /\ broke \in BOOLEAN
    /\ g_engine_task \in 0 .. gen /\ g_request_port \in 0 .. gen
    /\ g_launcher_task \in Launchers \cup {None}
    /\ g_engine_ready \in BOOLEAN /\ g_engine_shutdown \in BOOLEAN
    /\ ready_sig \subseteq Launchers /\ stopped_sig \subseteq Launchers

RunsOK ==
    /\ epc \in [Runs -> EnginePcs]
    /\ port \in [Runs -> {"none", "open", "freed"}]
    /\ queue \in [Runs -> Seq(Tasks)]
    /\ port_sig \in [Runs -> BOOLEAN] /\ ctrl_c \in [Runs -> BOOLEAN]
    /\ g_request_port # 0 => epc[g_request_port] \in EnginePcs \ {"none", "boot", "stopped", "dead"}

TasksOK ==
    /\ lpc \in [Launchers -> LauncherPcs]
    /\ replied \subseteq Tasks /\ lost \subseteq Tasks
    /\ g_engine_port \in 0 .. gen
    /\ g_reply_slots \in [Slots -> Clients \cup {None}]
    /\ g_reply_sem_init \in BOOLEAN /\ closing \in BOOLEAN
    /\ cpc \in [Clients -> {"idle", "slot", "put", "wait"}]
    /\ engine \in [Clients -> 0 .. gen]

(* A task that starts or stops the engine makes no other call. *)
OneCall == \A t \in Clients \cap Launchers : Calling(t) => cpc[t] = "idle"

IInv == GlobalsOK /\ RunsOK /\ TasksOK /\ Ports /\ OneCall /\ SignalPending /\ Places

-----------------------------------------------------------------------------
(* The runs created. *)
LEMMA Created ==
  ASSUME IInv, NEW e \in Runs, epc[e] # "none"
  PROVE  e \in 0 .. gen
BY EngineAssumption DEF IInv, GlobalsOK, Ports, Runs

(* A run that is alive knows its launcher. *)
LEMMA KnowsLauncher ==
  ASSUME IInv, NEW e \in Runs, epc[e] \notin {"none", "dead"}
  PROVE  g_launcher_task \in Launchers
BY Zenon DEF IInv, GlobalsOK, Ports, Live

(* The port that g_request_port names. *)
LEMMA RequestPort ==
  ASSUME IInv, g_request_port # 0
  PROVE  g_request_port \in Runs
BY EngineAssumption DEF IInv, GlobalsOK, Runs

(* PutMsg keeps the types of the queues. *)
LEMMA PutMsgType ==
  ASSUME IInv, NEW e \in 0 .. gen, NEW t \in Tasks, PutMsg(e, t)
  PROVE  /\ queue' \in [Runs -> Seq(Tasks)] /\ port_sig' \in [Runs -> BOOLEAN]
         /\ lost' \subseteq Tasks
<1>1. CASE e # 0 /\ port[e] = "open"
  <2>1. e \in Runs /\ queue[e] \in Seq(Tasks)
    BY <1>1, EngineAssumption DEF IInv, GlobalsOK, RunsOK, Runs
  <2>2. Append(queue[e], t) \in Seq(Tasks)
    BY <2>1
  <2> QED
    BY Zenon, <1>1, <2>1, <2>2 DEF PutMsg, IInv, RunsOK, TasksOK
<1>2. CASE ~ (e # 0 /\ port[e] = "open")
  BY Zenon, <1>2 DEF PutMsg, IInv, RunsOK, TasksOK
<1> QED
  BY Zenon, <1>1, <1>2

-----------------------------------------------------------------------------
LEMMA NextGlobals == IInv /\ [Next]_vars => GlobalsOK'
<1> SUFFICES ASSUME IInv, [Next]_vars PROVE GlobalsOK'
  BY Zenon
<1> USE EngineAssumption
    DEF IInv, GlobalsOK, Runs, history, globals, runVars, launchVars, msgVars, clientVars, replyVars, engineVars
<1>1. ASSUME NEW e \in Runs, boot_fail(e), UNCHANGED clientVars PROVE GlobalsOK'
  <2>1. g_launcher_task \in Launchers
    BY Zenon, <1>1, KnowsLauncher DEF boot_fail
  <2> QED
    BY <1>1, <2>1 DEF boot_fail, TellReady
<1>2. ASSUME NEW e \in Runs, boot_port(e), UNCHANGED clientVars PROVE GlobalsOK'
  <2>1. e \in 0 .. gen
    BY Zenon, <1>2, Created DEF boot_port
  <2> QED
    BY Zenon, <1>2, <2>1 DEF boot_port
<1>3. ASSUME NEW e \in Runs, boot_ready(e), UNCHANGED clientVars PROVE GlobalsOK'
  <2>1. g_launcher_task \in Launchers
    BY Zenon, <1>3, KnowsLauncher DEF boot_ready
  <2> QED
    BY Zenon, <1>3, <2>1 DEF boot_ready, boot_flags, TellReady
<1>4. ASSUME NEW e \in Runs, engine_wait(e), UNCHANGED clientVars PROVE GlobalsOK'
  BY Zenon, <1>4 DEF engine_wait
<1>5. ASSUME NEW e \in Runs, engine_dispatch(e), UNCHANGED clientVars PROVE GlobalsOK'
  BY Zenon, <1>5 DEF engine_dispatch, after_reply
<1>6. ASSUME NEW e \in Runs, engine_drained(e), UNCHANGED clientVars PROVE GlobalsOK'
  BY Zenon, <1>6 DEF engine_drained
<1>7. ASSUME NEW e \in Runs, engine_free(e), UNCHANGED clientVars PROVE GlobalsOK'
  BY Zenon, <1>7 DEF engine_free
<1>8. ASSUME NEW e \in Runs, engine_clear(e), UNCHANGED clientVars PROVE GlobalsOK'
  <2>1. 0 \in 0 .. gen
    OBVIOUS
  <2> QED
    BY Zenon, <1>8, <2>1 DEF engine_clear, cleared_port
<1>9. ASSUME NEW e \in Runs, engine_stopped(e), UNCHANGED clientVars PROVE GlobalsOK'
  <2>1. g_launcher_task \in Launchers
    BY Zenon, <1>9, KnowsLauncher DEF engine_stopped
  <2> QED
    BY Zenon, <1>9, <2>1 DEF engine_stopped, TellStopped
<1>10. ASSUME NEW e \in Runs, UserBreak(e), UNCHANGED clientVars PROVE GlobalsOK'
  BY Zenon, <1>10 DEF UserBreak, Live
<1>11. ASSUME NEW t \in Launchers, NetstackEngine_Start(t), UNCHANGED clientVars PROVE GlobalsOK'
  BY Zenon, <1>11 DEF NetstackEngine_Start, Calling
<1>12. ASSUME NEW t \in Launchers, NetstackEngine_Stop(t), UNCHANGED clientVars PROVE GlobalsOK'
  BY Zenon, <1>12 DEF NetstackEngine_Stop, Calling
<1>13. ASSUME NEW t \in Launchers, start_publish(t), UNCHANGED clientVars PROVE GlobalsOK'
  BY Zenon, <1>13 DEF start_publish, Goes
<1>14. ASSUME NEW t \in Launchers, start_create(t), UNCHANGED clientVars PROVE GlobalsOK'
  <2>1. CASE gen' = gen + 1
    <3>1. gen' \in 0 .. MAX_RUNS /\ 0 .. gen \subseteq 0 .. gen' /\ gen' \in 0 .. gen'
      BY <1>14, <2>1 DEF start_create
    <3> QED
      BY <1>14, <2>1, <3>1 DEF start_create
  <2>2. CASE gen' = gen
    BY <1>14, <2>2 DEF start_create
  <2> QED
    BY Zenon, <1>14, <2>1, <2>2 DEF start_create
<1>15. ASSUME NEW t \in Launchers, start_wait(t), UNCHANGED clientVars PROVE GlobalsOK'
  BY <1>15 DEF start_wait, Goes
<1>16. ASSUME NEW t \in Launchers, stop_put(t), UNCHANGED clientVars PROVE GlobalsOK'
  BY Zenon, <1>16 DEF stop_put, Goes, PutMsg
<1>17. ASSUME NEW t \in Launchers, stop_reply(t), UNCHANGED clientVars PROVE GlobalsOK'
  BY Zenon, <1>17 DEF stop_reply, Goes, GetReply
<1>18. ASSUME NEW t \in Launchers, stop_wait(t), UNCHANGED clientVars PROVE GlobalsOK'
  BY <1>18 DEF stop_wait, Goes, stopped_seen
<1>19. ASSUME netstack_client_init PROVE GlobalsOK'
  BY Zenon, <1>19 DEF netstack_client_init, ensure_engine_port, FindPort
<1>20. ASSUME netstack_client_shutdown PROVE GlobalsOK'
  BY Zenon, <1>20 DEF netstack_client_shutdown
<1>21. ASSUME shutdown_clear PROVE GlobalsOK'
  BY Zenon, <1>21 DEF shutdown_clear
<1>22. ASSUME NEW c \in Clients, call_engine(c) PROVE GlobalsOK'
  BY Zenon, <1>22 DEF call_engine, ensure_engine_port, FindPort
<1>23. ASSUME NEW c \in Clients, call_slot(c) PROVE GlobalsOK'
  BY Zenon, <1>23 DEF call_slot
<1>24. ASSUME NEW c \in Clients, call_put(c) PROVE GlobalsOK'
  BY Zenon, <1>24 DEF call_put, PutMsg
<1>25. ASSUME NEW c \in Clients, call_return(c) PROVE GlobalsOK'
  BY Zenon, <1>25 DEF call_return, GetReply
<1>26. CASE UNCHANGED vars
  BY SMTT(30), <1>26 DEF vars, engineVars
<1> QED
  BY Zenon, <1>1, <1>2, <1>3, <1>4, <1>5, <1>6, <1>7, <1>8, <1>9, <1>10, <1>11, <1>12, 
     <1>13, <1>14, <1>15, <1>16, <1>17, <1>18, <1>19, <1>20, <1>21, <1>22, <1>23, 
     <1>24, <1>25, <1>26
     DEF Next, engine_step, launcher_step, client_step

LEMMA NextRuns == IInv /\ [Next]_vars => RunsOK'
<1> SUFFICES ASSUME IInv, [Next]_vars PROVE RunsOK'
  BY Zenon
<1> USE EngineAssumption
    DEF IInv, RunsOK, EnginePcs, globals, runVars, launchVars, msgVars, clientVars, replyVars, engineVars
<1>1. ASSUME NEW e \in Runs, boot_fail(e), UNCHANGED clientVars PROVE RunsOK'
  BY Zenon, <1>1 DEF boot_fail, TellReady
<1>2. ASSUME NEW e \in Runs, boot_port(e), UNCHANGED clientVars PROVE RunsOK'
  BY Zenon, <1>2 DEF boot_port
<1>3. ASSUME NEW e \in Runs, boot_ready(e), UNCHANGED clientVars PROVE RunsOK'
  BY <1>3 DEF boot_ready, boot_flags, TellReady
<1>4. ASSUME NEW e \in Runs, engine_wait(e), UNCHANGED clientVars PROVE RunsOK'
  <2>1. epc[e] = "loop" /\ \E x \in {"free", "drain"} : epc' = [epc EXCEPT ![e] = x]
    BY Zenon, <1>4 DEF engine_wait
  <2>2. ctrl_c' \in [Runs -> BOOLEAN] /\ port_sig' \in [Runs -> BOOLEAN]
    BY Zenon, <1>4 DEF engine_wait
  <2>3. g_request_port \in 0 .. gen /\ (g_request_port # 0 => g_request_port \in Runs)
    BY Zenon, RequestPort DEF GlobalsOK
  <2> QED
    BY Zenon, <1>4, <2>1, <2>2, <2>3 DEF engine_wait
<1>5. ASSUME NEW e \in Runs, engine_dispatch(e), UNCHANGED clientVars PROVE RunsOK'
  <2>1. epc[e] = "drain" /\ epc' = [epc EXCEPT ![e] = "drain"]
    BY Zenon, <1>5 DEF engine_dispatch, after_reply
  <2>2. g_request_port \in Runs
    BY Zenon, <1>5, RequestPort DEF engine_dispatch
  <2>3. /\ queue[g_request_port] \in Seq(Tasks) /\ queue[g_request_port] # <<>>
        /\ queue' = [queue EXCEPT ![g_request_port] = Tail(queue[g_request_port])]
    BY Zenon, <1>5, <2>2 DEF engine_dispatch
  <2>4. queue' \in [Runs -> Seq(Tasks)]
    BY <2>2, <2>3
  <2> QED
    BY Zenon, <1>5, <2>1, <2>2, <2>4 DEF engine_dispatch
<1>6. ASSUME NEW e \in Runs, engine_drained(e), UNCHANGED clientVars PROVE RunsOK'
  <2>1. epc[e] = "drain" /\ epc' = [epc EXCEPT ![e] = "loop"]
    BY Zenon, <1>6 DEF engine_drained
  <2>2. g_request_port \in 0 .. gen /\ (g_request_port # 0 => g_request_port \in Runs)
    BY Zenon, RequestPort DEF GlobalsOK
  <2> QED
    BY Zenon, <1>6, <2>1, <2>2 DEF engine_drained
<1>7. ASSUME NEW e \in Runs, engine_free(e), UNCHANGED clientVars PROVE RunsOK'
  <2>1. epc[e] = "free" /\ epc' = [epc EXCEPT ![e] = "clear"]
    BY Zenon, <1>7 DEF engine_free
  <2>2. g_request_port \in 0 .. gen /\ (g_request_port # 0 => g_request_port \in Runs)
    BY Zenon, RequestPort DEF GlobalsOK
  <2>3. port' \in [Runs -> {"none", "open", "freed"}]
    BY Zenon, <1>7, <2>2 DEF engine_free
  <2>4. queue' \in [Runs -> Seq(Tasks)]
    <3>1. <<>> \in Seq(Tasks)
      OBVIOUS
    <3>2. queue' = queue \/ (g_request_port \in Runs /\ queue' = [queue EXCEPT ![g_request_port] = <<>>])
      BY Zenon, <1>7, <2>2 DEF engine_free
    <3> QED
      BY Zenon, <3>1, <3>2
  <2> QED
    BY Zenon, <1>7, <2>1, <2>2, <2>3, <2>4 DEF engine_free
<1>8. ASSUME NEW e \in Runs, engine_clear(e), UNCHANGED clientVars PROVE RunsOK'
  BY Zenon, <1>8 DEF engine_clear, cleared_port
<1>9. ASSUME NEW e \in Runs, engine_stopped(e), UNCHANGED clientVars PROVE RunsOK'
  BY <1>9 DEF engine_stopped, TellStopped
<1>10. ASSUME NEW e \in Runs, UserBreak(e), UNCHANGED clientVars PROVE RunsOK'
  BY Zenon, <1>10 DEF UserBreak, Live
<1>11. ASSUME NEW t \in Launchers, NetstackEngine_Start(t), UNCHANGED clientVars PROVE RunsOK'
  BY Zenon, <1>11 DEF NetstackEngine_Start, Calling
<1>12. ASSUME NEW t \in Launchers, NetstackEngine_Stop(t), UNCHANGED clientVars PROVE RunsOK'
  <2>1. g_engine_task # 0 => g_engine_task \in Runs
    BY DEF GlobalsOK, Runs
  <2> QED
    BY Zenon, <1>12, <2>1 DEF NetstackEngine_Stop
<1>13. ASSUME NEW t \in Launchers, start_publish(t), UNCHANGED clientVars PROVE RunsOK'
  BY Zenon, <1>13 DEF start_publish, Goes
<1>14. ASSUME NEW t \in Launchers, start_create(t), UNCHANGED clientVars PROVE RunsOK'
  <2>1. CASE gen' = gen + 1
    <3>1. gen + 1 \in Runs /\ epc' = [epc EXCEPT ![gen + 1] = "boot"]
      BY <1>14, <2>1 DEF start_create, GlobalsOK, Runs
    <3>2. g_request_port # gen + 1
      BY DEF GlobalsOK
    <3>3. g_request_port \in 0 .. gen /\ (g_request_port # 0 => g_request_port \in Runs)
      BY Zenon, RequestPort DEF GlobalsOK
    <3> QED
      BY Zenon, <1>14, <2>1, <3>1, <3>2, <3>3 DEF start_create
  <2>2. CASE gen' = gen
    BY <1>14, <2>2 DEF start_create, GlobalsOK
  <2> QED
    BY Zenon, <1>14, <2>1, <2>2 DEF start_create
<1>15. ASSUME NEW t \in Launchers, start_wait(t), UNCHANGED clientVars PROVE RunsOK'
  BY Zenon, <1>15 DEF start_wait, Goes
<1>16. ASSUME NEW t \in Launchers, stop_put(t), UNCHANGED clientVars PROVE RunsOK'
  <2>1. g_request_port \in 0 .. gen /\ t \in Tasks
    BY Zenon DEF GlobalsOK, Tasks
  <2>2. queue' \in [Runs -> Seq(Tasks)] /\ port_sig' \in [Runs -> BOOLEAN]
    BY Zenon, <1>16, <2>1, PutMsgType DEF stop_put
  <2> QED
    BY Zenon, <1>16, <2>2 DEF stop_put
<1>17. ASSUME NEW t \in Launchers, stop_reply(t), UNCHANGED clientVars PROVE RunsOK'
  BY Zenon, <1>17 DEF stop_reply, Goes, GetReply
<1>18. ASSUME NEW t \in Launchers, stop_wait(t), UNCHANGED clientVars PROVE RunsOK'
  BY Zenon, <1>18 DEF stop_wait, Goes, stopped_seen
<1>19. ASSUME netstack_client_init PROVE RunsOK'
  BY Zenon, <1>19 DEF netstack_client_init, ensure_engine_port, FindPort
<1>20. ASSUME netstack_client_shutdown PROVE RunsOK'
  BY Zenon, <1>20 DEF netstack_client_shutdown
<1>21. ASSUME shutdown_clear PROVE RunsOK'
  BY Zenon, <1>21 DEF shutdown_clear
<1>22. ASSUME NEW c \in Clients, call_engine(c) PROVE RunsOK'
  BY Zenon, <1>22 DEF call_engine, ensure_engine_port, FindPort
<1>23. ASSUME NEW c \in Clients, call_slot(c) PROVE RunsOK'
  BY Zenon, <1>23 DEF call_slot
<1>24. ASSUME NEW c \in Clients, call_put(c) PROVE RunsOK'
  <2>1. engine[c] \in 0 .. gen /\ c \in Tasks
    BY Zenon DEF TasksOK, Tasks
  <2>2. queue' \in [Runs -> Seq(Tasks)] /\ port_sig' \in [Runs -> BOOLEAN]
    BY Zenon, <1>24, <2>1, PutMsgType DEF call_put
  <2> QED
    BY Zenon, <1>24, <2>2 DEF call_put
<1>25. ASSUME NEW c \in Clients, call_return(c) PROVE RunsOK'
  BY Zenon, <1>25 DEF call_return, GetReply
<1>26. CASE UNCHANGED vars
  BY Zenon, <1>26 DEF vars, engineVars
<1> QED
  BY Zenon, <1>1, <1>2, <1>3, <1>4, <1>5, <1>6, <1>7, <1>8, <1>9, <1>10, <1>11, <1>12, 
     <1>13, <1>14, <1>15, <1>16, <1>17, <1>18, <1>19, <1>20, <1>21, <1>22, <1>23, 
     <1>24, <1>25, <1>26
     DEF Next, engine_step, launcher_step, client_step

(* ensure_engine_port finds the port of a run that has been created. *)
LEMMA FoundPort ==
  ASSUME IInv, NEW x \in ensure_engine_port PROVE x \in 0 .. gen
<1>1. CASE g_engine_port # 0
  BY Zenon, <1>1 DEF ensure_engine_port, IInv, TasksOK
<1>2. CASE g_engine_port = 0
  <2>1. x = 0 \/ (x \in Runs /\ port[x] = "open")
    BY Zenon, <1>2 DEF ensure_engine_port, FindPort
  <2>2. CASE x = 0
    BY <2>2 DEF IInv, GlobalsOK
  <2>3. CASE x \in Runs /\ port[x] = "open"
    BY SMTT(30), <2>3, Created DEF IInv, Ports
  <2> QED
    BY Zenon, <2>1, <2>2, <2>3
<1> QED
  BY Zenon, <1>1, <1>2

LEMMA NextTasks == IInv /\ [Next]_vars => TasksOK'
<1> SUFFICES ASSUME IInv, [Next]_vars PROVE TasksOK'
  BY Zenon
<1> USE DEF IInv, TasksOK, LauncherPcs, globals, runVars, launchVars, msgVars, clientVars, replyVars, engineVars
<1>1. ASSUME NEW e \in Runs, boot_fail(e), UNCHANGED clientVars PROVE TasksOK'
  BY Zenon, <1>1 DEF boot_fail
<1>2. ASSUME NEW e \in Runs, boot_port(e), UNCHANGED clientVars PROVE TasksOK'
  BY Zenon, <1>2 DEF boot_port
<1>3. ASSUME NEW e \in Runs, boot_ready(e), UNCHANGED clientVars PROVE TasksOK'
  BY Zenon, <1>3 DEF boot_ready, boot_flags, TellReady
<1>4. ASSUME NEW e \in Runs, engine_wait(e), UNCHANGED clientVars PROVE TasksOK'
  BY Zenon, <1>4 DEF engine_wait
<1>5. ASSUME NEW e \in Runs, engine_dispatch(e), UNCHANGED clientVars PROVE TasksOK'
  <2>1. g_request_port \in Runs
    BY Zenon, <1>5, RequestPort DEF engine_dispatch
  <2>2. Head(queue[g_request_port]) \in Tasks
    BY <1>5, <2>1 DEF engine_dispatch, RunsOK
  <2> QED
    BY Zenon, <1>5, <2>2 DEF engine_dispatch
<1>6. ASSUME NEW e \in Runs, engine_drained(e), UNCHANGED clientVars PROVE TasksOK'
  BY Zenon, <1>6 DEF engine_drained
<1>7. ASSUME NEW e \in Runs, engine_free(e), UNCHANGED clientVars PROVE TasksOK'
  <2>1. g_request_port # 0 => Elements(queue[g_request_port]) \subseteq Tasks
    BY RequestPort DEF Elements, RunsOK
  <2> QED
    BY Zenon, <1>7, <2>1 DEF engine_free
<1>8. ASSUME NEW e \in Runs, engine_clear(e), UNCHANGED clientVars PROVE TasksOK'
  BY Zenon, <1>8 DEF engine_clear, cleared_port
<1>9. ASSUME NEW e \in Runs, engine_stopped(e), UNCHANGED clientVars PROVE TasksOK'
  BY Zenon, <1>9 DEF engine_stopped, TellStopped
<1>10. ASSUME NEW e \in Runs, UserBreak(e), UNCHANGED clientVars PROVE TasksOK'
  BY Zenon, <1>10 DEF UserBreak, Live
<1>11. ASSUME NEW t \in Launchers, NetstackEngine_Start(t), UNCHANGED clientVars PROVE TasksOK'
  BY Zenon, <1>11 DEF NetstackEngine_Start, Calling
<1>12. ASSUME NEW t \in Launchers, NetstackEngine_Stop(t), UNCHANGED clientVars PROVE TasksOK'
  BY Zenon, <1>12 DEF NetstackEngine_Stop, Calling
<1>13. ASSUME NEW t \in Launchers, start_publish(t), UNCHANGED clientVars PROVE TasksOK'
  BY Zenon, <1>13 DEF start_publish, Goes
<1>14. ASSUME NEW t \in Launchers, start_create(t), UNCHANGED clientVars PROVE TasksOK'
  <2>1. CASE gen' = gen + 1
    <3>1. 0 .. gen \subseteq 0 .. gen'
      BY <1>14, <2>1 DEF GlobalsOK
    <3> QED
      BY Zenon, <1>14, <2>1, <3>1 DEF start_create, Goes
  <2>2. CASE gen' = gen
    BY Zenon, <1>14, <2>2 DEF start_create, Goes
  <2> QED
    BY Zenon, <1>14, <2>1, <2>2 DEF start_create
<1>15. ASSUME NEW t \in Launchers, start_wait(t), UNCHANGED clientVars PROVE TasksOK'
  BY Zenon, <1>15 DEF start_wait, Goes
<1>16. ASSUME NEW t \in Launchers, stop_put(t), UNCHANGED clientVars PROVE TasksOK'
  <2>1. g_request_port \in 0 .. gen /\ t \in Tasks
    BY Zenon DEF GlobalsOK, Tasks
  <2>2. lost' \subseteq Tasks
    BY Zenon, <1>16, <2>1, PutMsgType DEF stop_put
  <2> QED
    BY Zenon, <1>16, <2>2 DEF stop_put, Goes
<1>17. ASSUME NEW t \in Launchers, stop_reply(t), UNCHANGED clientVars PROVE TasksOK'
  BY Zenon, <1>17 DEF stop_reply, Goes, GetReply
<1>18. ASSUME NEW t \in Launchers, stop_wait(t), UNCHANGED clientVars PROVE TasksOK'
  BY Zenon, <1>18 DEF stop_wait, Goes, stopped_seen
<1>19. ASSUME netstack_client_init PROVE TasksOK'
  <2>1. \A x \in ensure_engine_port : x \in 0 .. gen
    BY Zenon, FoundPort
  <2> QED
    BY Zenon, <1>19, <2>1 DEF netstack_client_init
<1>20. ASSUME netstack_client_shutdown PROVE TasksOK'
  <2>1. lost' \subseteq Tasks /\ replied' \subseteq Tasks
    BY Zenon, <1>20 DEF netstack_client_shutdown, Tasks
  <2>2. g_reply_slots' \in [Slots -> Clients \cup {None}] /\ closing' \in BOOLEAN
    BY Zenon, <1>20 DEF netstack_client_shutdown
  <2> QED
    BY Zenon, <1>20, <2>1, <2>2 DEF netstack_client_shutdown
<1>21. ASSUME shutdown_clear PROVE TasksOK'
  <2>1. 0 \in 0 .. gen
    BY DEF GlobalsOK
  <2> QED
    BY Zenon, <1>21, <2>1 DEF shutdown_clear
<1>22. ASSUME NEW c \in Clients, call_engine(c) PROVE TasksOK'
  <2>1. \A x \in ensure_engine_port : x \in 0 .. gen
    BY Zenon, FoundPort
  <2> QED
    BY Zenon, <1>22, <2>1 DEF call_engine
<1>23. ASSUME NEW c \in Clients, call_slot(c) PROVE TasksOK'
  <2>1. g_reply_slots' \in [Slots -> Clients \cup {None}]
    BY Zenon, <1>23 DEF call_slot
  <2>2. cpc' \in [Clients -> {"idle", "slot", "put", "wait"}]
    BY Zenon, <1>23 DEF call_slot
  <2> QED
    BY Zenon, <1>23, <2>1, <2>2 DEF call_slot
<1>24. ASSUME NEW c \in Clients, call_put(c) PROVE TasksOK'
  <2>1. engine[c] \in 0 .. gen /\ c \in Tasks
    BY Zenon DEF Tasks
  <2>2. lost' \subseteq Tasks
    BY Zenon, <1>24, <2>1, PutMsgType DEF call_put
  <2> QED
    BY Zenon, <1>24, <2>2 DEF call_put
<1>25. ASSUME NEW c \in Clients, call_return(c) PROVE TasksOK'
  BY Zenon, <1>25 DEF call_return, GetReply
<1>26. CASE UNCHANGED vars
  BY SMTT(30), <1>26 DEF vars, engineVars
<1> QED
  BY Zenon, <1>1, <1>2, <1>3, <1>4, <1>5, <1>6, <1>7, <1>8, <1>9, <1>10, <1>11, <1>12, 
     <1>13, <1>14, <1>15, <1>16, <1>17, <1>18, <1>19, <1>20, <1>21, <1>22, <1>23, 
     <1>24, <1>25, <1>26
     DEF Next, engine_step, launcher_step, client_step

LEMMA NextPorts == IInv /\ [Next]_vars => Ports'
<1> SUFFICES ASSUME IInv, [Next]_vars PROVE Ports'
  BY Zenon
<1> USE EngineAssumption, SocketIpcAssumption
    DEF IInv, GlobalsOK, RunsOK, TasksOK, Ports, EnginePcs, Live,
        Runs, globals, runVars, launchVars, msgVars, clientVars, replyVars, engineVars
<1>1. ASSUME NEW e \in Runs, boot_fail(e), UNCHANGED clientVars PROVE Ports'
  BY Zenon, <1>1 DEF boot_fail, TellReady
<1>2. ASSUME NEW e \in Runs, boot_port(e), UNCHANGED clientVars PROVE Ports'
  BY Zenon, <1>2 DEF boot_port
<1>3. ASSUME NEW e \in Runs, boot_ready(e), UNCHANGED clientVars PROVE Ports'
  BY Zenon, <1>3 DEF boot_ready, boot_flags, TellReady
<1>4. ASSUME NEW e \in Runs, engine_wait(e), UNCHANGED clientVars PROVE Ports'
  BY ZenonT(60), <1>4 DEF engine_wait
<1>5. ASSUME NEW e \in Runs, engine_dispatch(e), UNCHANGED clientVars PROVE Ports'
  BY Zenon, <1>5 DEF engine_dispatch, after_reply
<1>6. ASSUME NEW e \in Runs, engine_drained(e), UNCHANGED clientVars PROVE Ports'
  BY Zenon, <1>6 DEF engine_drained
<1>7. ASSUME NEW e \in Runs, engine_free(e), UNCHANGED clientVars PROVE Ports'
  BY Zenon, <1>7 DEF engine_free
<1>8. ASSUME NEW e \in Runs, engine_clear(e), UNCHANGED clientVars PROVE Ports'
  BY Zenon, <1>8 DEF engine_clear, cleared_port
<1>9. ASSUME NEW e \in Runs, engine_stopped(e), UNCHANGED clientVars PROVE Ports'
  BY Zenon, <1>9 DEF engine_stopped, TellStopped
<1>10. ASSUME NEW e \in Runs, UserBreak(e), UNCHANGED clientVars PROVE Ports'
  BY Zenon, <1>10 DEF UserBreak, Live
<1>11. ASSUME NEW t \in Launchers, NetstackEngine_Start(t), UNCHANGED clientVars PROVE Ports'
  BY Zenon, <1>11 DEF NetstackEngine_Start, Calling
<1>12. ASSUME NEW t \in Launchers, NetstackEngine_Stop(t), UNCHANGED clientVars PROVE Ports'
  BY <1>12 DEF NetstackEngine_Stop, Calling
<1>13. ASSUME NEW t \in Launchers, start_publish(t), UNCHANGED clientVars PROVE Ports'
  <2>1. g_launcher_task' # None
    BY Zenon, <1>13 DEF start_publish, Tasks
  <2> QED
    BY Zenon, <1>13, <2>1 DEF start_publish
<1>14. ASSUME NEW t \in Launchers, start_create(t), UNCHANGED clientVars PROVE Ports'
  <2>1. g_launcher_task # None
    BY Zenon, <1>14 DEF start_create, Goes
  <2>2. CASE gen' = gen + 1
    <3>1. gen + 1 \in Runs /\ epc' = [epc EXCEPT ![gen + 1] = "boot"] /\ epc[gen + 1] = "none"
      BY <1>14, <2>2 DEF start_create
    <3>2. ASSUME NEW d \in Runs PROVE d > gen' => epc'[d] = "none"
      BY <2>2, <3>1
    <3>3. port' = port /\ queue' = queue /\ g_launcher_task' = g_launcher_task
      BY Zenon, <1>14 DEF start_create
    <3> QED
      BY Zenon, <2>1, <3>1, <3>2, <3>3
  <2>3. CASE gen' = gen
    BY <1>14, <2>1, <2>3 DEF start_create
  <2> QED
    BY Zenon, <1>14, <2>2, <2>3 DEF start_create
<1>15. ASSUME NEW t \in Launchers, start_wait(t), UNCHANGED clientVars PROVE Ports'
  BY Zenon, <1>15 DEF start_wait, Goes
<1>16. ASSUME NEW t \in Launchers, stop_put(t), UNCHANGED clientVars PROVE Ports'
  BY ZenonT(60), <1>16 DEF stop_put, Goes, PutMsg
<1>17. ASSUME NEW t \in Launchers, stop_reply(t), UNCHANGED clientVars PROVE Ports'
  BY Zenon, <1>17 DEF stop_reply, Goes, GetReply
<1>18. ASSUME NEW t \in Launchers, stop_wait(t), UNCHANGED clientVars PROVE Ports'
  BY Zenon, <1>18 DEF stop_wait, Goes, stopped_seen
<1>19. ASSUME netstack_client_init PROVE Ports'
  BY Zenon, <1>19 DEF netstack_client_init, ensure_engine_port, FindPort
<1>20. ASSUME netstack_client_shutdown PROVE Ports'
  BY Zenon, <1>20 DEF netstack_client_shutdown
<1>21. ASSUME shutdown_clear PROVE Ports'
  BY Zenon, <1>21 DEF shutdown_clear
<1>22. ASSUME NEW c \in Clients, call_engine(c) PROVE Ports'
  BY Zenon, <1>22 DEF call_engine, ensure_engine_port, FindPort
<1>23. ASSUME NEW c \in Clients, call_slot(c) PROVE Ports'
  BY Zenon, <1>23 DEF call_slot
<1>24. ASSUME NEW c \in Clients, call_put(c) PROVE Ports'
  BY Zenon, <1>24 DEF call_put, PutMsg
<1>25. ASSUME NEW c \in Clients, call_return(c) PROVE Ports'
  BY Zenon, <1>25 DEF call_return, GetReply
<1>26. CASE UNCHANGED vars
  BY Zenon, <1>26 DEF vars, engineVars
<1> QED
  BY Zenon, <1>1, <1>2, <1>3, <1>4, <1>5, <1>6, <1>7, <1>8, <1>9, <1>10, <1>11, <1>12, 
     <1>13, <1>14, <1>15, <1>16, <1>17, <1>18, <1>19, <1>20, <1>21, <1>22, <1>23, 
     <1>24, <1>25, <1>26
     DEF Next, engine_step, launcher_step, client_step

(* Start and Stop are called by tasks that make no call, and the other way *)
(* round.                                                                  *)
LEMMA NextOneCall == IInv /\ [Next]_vars => OneCall'
<1> SUFFICES ASSUME IInv, [Next]_vars PROVE OneCall'
  BY Zenon
<1> USE DEF IInv, TasksOK, OneCall, Calling,
            globals, runVars, launchVars, msgVars, clientVars, replyVars, engineVars
<1>1. ASSUME NEW e \in Runs, boot_fail(e), UNCHANGED clientVars PROVE OneCall'
  BY Zenon, <1>1 DEF boot_fail
<1>2. ASSUME NEW e \in Runs, boot_port(e), UNCHANGED clientVars PROVE OneCall'
  BY Zenon, <1>2 DEF boot_port
<1>3. ASSUME NEW e \in Runs, boot_ready(e), UNCHANGED clientVars PROVE OneCall'
  BY Zenon, <1>3 DEF boot_ready
<1>4. ASSUME NEW e \in Runs, engine_wait(e), UNCHANGED clientVars PROVE OneCall'
  BY Zenon, <1>4 DEF engine_wait
<1>5. ASSUME NEW e \in Runs, engine_dispatch(e), UNCHANGED clientVars PROVE OneCall'
  BY Zenon, <1>5 DEF engine_dispatch
<1>6. ASSUME NEW e \in Runs, engine_drained(e), UNCHANGED clientVars PROVE OneCall'
  BY Zenon, <1>6 DEF engine_drained
<1>7. ASSUME NEW e \in Runs, engine_free(e), UNCHANGED clientVars PROVE OneCall'
  BY Zenon, <1>7 DEF engine_free
<1>8. ASSUME NEW e \in Runs, engine_clear(e), UNCHANGED clientVars PROVE OneCall'
  BY Zenon, <1>8 DEF engine_clear
<1>9. ASSUME NEW e \in Runs, engine_stopped(e), UNCHANGED clientVars PROVE OneCall'
  BY Zenon, <1>9 DEF engine_stopped
<1>10. ASSUME NEW e \in Runs, UserBreak(e), UNCHANGED clientVars PROVE OneCall'
  BY Zenon, <1>10 DEF UserBreak
<1>11. ASSUME NEW t \in Launchers, NetstackEngine_Start(t), Free(t), UNCHANGED clientVars PROVE OneCall'
  BY Zenon, <1>11 DEF NetstackEngine_Start, Free
<1>12. ASSUME NEW t \in Launchers, NetstackEngine_Stop(t), Free(t), UNCHANGED clientVars PROVE OneCall'
  BY Zenon, <1>12 DEF NetstackEngine_Stop, Free
<1>13. ASSUME NEW t \in Launchers, start_publish(t), UNCHANGED clientVars PROVE OneCall'
  BY Zenon, <1>13 DEF start_publish, Goes
<1>14. ASSUME NEW t \in Launchers, start_create(t), UNCHANGED clientVars PROVE OneCall'
  BY Zenon, <1>14 DEF start_create, Goes
<1>15. ASSUME NEW t \in Launchers, start_wait(t), UNCHANGED clientVars PROVE OneCall'
  BY Zenon, <1>15 DEF start_wait, Goes
<1>16. ASSUME NEW t \in Launchers, stop_put(t), UNCHANGED clientVars PROVE OneCall'
  BY Zenon, <1>16 DEF stop_put, Goes
<1>17. ASSUME NEW t \in Launchers, stop_reply(t), UNCHANGED clientVars PROVE OneCall'
  BY Zenon, <1>17 DEF stop_reply, Goes
<1>18. ASSUME NEW t \in Launchers, stop_wait(t), UNCHANGED clientVars PROVE OneCall'
  BY Zenon, <1>18 DEF stop_wait, Goes
<1>19. ASSUME netstack_client_init PROVE OneCall'
  BY Zenon, <1>19 DEF netstack_client_init
<1>20. ASSUME netstack_client_shutdown PROVE OneCall'
  BY Zenon, <1>20 DEF netstack_client_shutdown
<1>21. ASSUME shutdown_clear PROVE OneCall'
  BY Zenon, <1>21 DEF shutdown_clear
<1>22. ASSUME NEW c \in Clients, call_engine(c) PROVE OneCall'
  BY Zenon, <1>22 DEF call_engine, Free
<1>23. ASSUME NEW c \in Clients, call_slot(c) PROVE OneCall'
  BY Zenon, <1>23 DEF call_slot
<1>24. ASSUME NEW c \in Clients, call_put(c) PROVE OneCall'
  BY Zenon, <1>24 DEF call_put
<1>25. ASSUME NEW c \in Clients, call_return(c) PROVE OneCall'
  BY Zenon, <1>25 DEF call_return
<1>26. CASE UNCHANGED vars
  BY Zenon, <1>26 DEF vars
<1> QED
  BY Zenon, <1>1, <1>2, <1>3, <1>4, <1>5, <1>6, <1>7, <1>8, <1>9, <1>10, <1>11, <1>12,
     <1>13, <1>14, <1>15, <1>16, <1>17, <1>18, <1>19, <1>20, <1>21, <1>22, <1>23,
     <1>24, <1>25, <1>26
     DEF Next, engine_step, launcher_step, client_step

LEMMA NextSignal == IInv /\ [Next]_vars => SignalPending'
<1> SUFFICES ASSUME IInv, [Next]_vars PROVE SignalPending'
  BY Zenon
<1> USE EngineAssumption, SocketIpcAssumption
    DEF IInv, GlobalsOK, RunsOK, Ports, SignalPending, EnginePcs,
        Runs, globals, runVars, launchVars, msgVars, clientVars, replyVars, engineVars
<1>1. ASSUME NEW e \in Runs, boot_fail(e), UNCHANGED clientVars PROVE SignalPending'
  BY <1>1 DEF boot_fail, TellReady
<1>2. ASSUME NEW e \in Runs, boot_port(e), UNCHANGED clientVars PROVE SignalPending'
  BY Zenon, <1>2 DEF boot_port
<1>3. ASSUME NEW e \in Runs, boot_ready(e), UNCHANGED clientVars PROVE SignalPending'
  BY Zenon, <1>3 DEF boot_ready, boot_flags, TellReady
<1>4. ASSUME NEW e \in Runs, engine_wait(e), UNCHANGED clientVars PROVE SignalPending'
  BY <1>4 DEF engine_wait
<1>5. ASSUME NEW e \in Runs, engine_dispatch(e), UNCHANGED clientVars PROVE SignalPending'
  BY Zenon, <1>5 DEF engine_dispatch, after_reply
<1>6. ASSUME NEW e \in Runs, engine_drained(e), UNCHANGED clientVars PROVE SignalPending'
  BY Zenon, <1>6 DEF engine_drained
<1>7. ASSUME NEW e \in Runs, engine_free(e), UNCHANGED clientVars PROVE SignalPending'
  BY Zenon, <1>7 DEF engine_free
<1>8. ASSUME NEW e \in Runs, engine_clear(e), UNCHANGED clientVars PROVE SignalPending'
  BY <1>8 DEF engine_clear, cleared_port
<1>9. ASSUME NEW e \in Runs, engine_stopped(e), UNCHANGED clientVars PROVE SignalPending'
  BY Zenon, <1>9 DEF engine_stopped, TellStopped
<1>10. ASSUME NEW e \in Runs, UserBreak(e), UNCHANGED clientVars PROVE SignalPending'
  BY Zenon, <1>10 DEF UserBreak, Live
<1>11. ASSUME NEW t \in Launchers, NetstackEngine_Start(t), UNCHANGED clientVars PROVE SignalPending'
  BY Zenon, <1>11 DEF NetstackEngine_Start, Calling
<1>12. ASSUME NEW t \in Launchers, NetstackEngine_Stop(t), UNCHANGED clientVars PROVE SignalPending'
  BY Zenon, <1>12 DEF NetstackEngine_Stop, Calling
<1>13. ASSUME NEW t \in Launchers, start_publish(t), UNCHANGED clientVars PROVE SignalPending'
  BY Zenon, <1>13 DEF start_publish, Goes
<1>14. ASSUME NEW t \in Launchers, start_create(t), UNCHANGED clientVars PROVE SignalPending'
  BY SMTT(30), <1>14 DEF start_create, Goes
<1>15. ASSUME NEW t \in Launchers, start_wait(t), UNCHANGED clientVars PROVE SignalPending'
  BY Zenon, <1>15 DEF start_wait, Goes
<1>16. ASSUME NEW t \in Launchers, stop_put(t), UNCHANGED clientVars PROVE SignalPending'
  BY Zenon, <1>16 DEF stop_put, Goes, PutMsg
<1>17. ASSUME NEW t \in Launchers, stop_reply(t), UNCHANGED clientVars PROVE SignalPending'
  BY Zenon, <1>17 DEF stop_reply, Goes, GetReply
<1>18. ASSUME NEW t \in Launchers, stop_wait(t), UNCHANGED clientVars PROVE SignalPending'
  BY Zenon, <1>18 DEF stop_wait, Goes, stopped_seen
<1>19. ASSUME netstack_client_init PROVE SignalPending'
  BY Zenon, <1>19 DEF netstack_client_init, ensure_engine_port, FindPort
<1>20. ASSUME netstack_client_shutdown PROVE SignalPending'
  BY Zenon, <1>20 DEF netstack_client_shutdown
<1>21. ASSUME shutdown_clear PROVE SignalPending'
  BY Zenon, <1>21 DEF shutdown_clear
<1>22. ASSUME NEW c \in Clients, call_engine(c) PROVE SignalPending'
  BY Zenon, <1>22 DEF call_engine, ensure_engine_port, FindPort
<1>23. ASSUME NEW c \in Clients, call_slot(c) PROVE SignalPending'
  BY Zenon, <1>23 DEF call_slot
<1>24. ASSUME NEW c \in Clients, call_put(c) PROVE SignalPending'
  BY Zenon, <1>24 DEF call_put, PutMsg
<1>25. ASSUME NEW c \in Clients, call_return(c) PROVE SignalPending'
  BY Zenon, <1>25 DEF call_return, GetReply
<1>26. CASE UNCHANGED vars
  BY Zenon, <1>26 DEF vars, engineVars
<1> QED
  BY Zenon, <1>1, <1>2, <1>3, <1>4, <1>5, <1>6, <1>7, <1>8, <1>9, <1>10, <1>11, <1>12, 
     <1>13, <1>14, <1>15, <1>16, <1>17, <1>18, <1>19, <1>20, <1>21, <1>22, <1>23, 
     <1>24, <1>25, <1>26
     DEF Next, engine_step, launcher_step, client_step

-----------------------------------------------------------------------------
(* Where the requests are. *)

(* A step that moves no message, and changes who waits for one no more. *)
LEMMA SamePlaces ==
  ASSUME Places, queue' = queue, replied' = replied, lost \subseteq lost',
         \A u \in Tasks : Waiting(u)' <=> Waiting(u)
  PROVE  Places'
<1>1. \A u \in Tasks : Has(u)' <=> Has(u)
  BY Zenon DEF Has
<1> QED
  BY <1>1 DEF Places

(* PutMsg by a task that was not waiting and now is. *)
LEMMA PutPlaces ==
  ASSUME IInv, NEW t \in Tasks, NEW e \in 0 .. gen, ~ Waiting(t), PutMsg(e, t),
         replied' = replied, Waiting(t)', \A u \in Tasks \ {t} : Waiting(u)' <=> Waiting(u)
  PROVE  Places'
<1>1. ~ Has(t) /\ t \notin replied
  BY Zenon DEF IInv, Places
<1>2. CASE ~ (e # 0 /\ port[e] = "open")
  <2>1. queue' = queue /\ lost' = lost \cup {t}
    BY Zenon, <1>2 DEF PutMsg
  <2>2. \A u \in Tasks : Has(u)' <=> Has(u)
    BY Zenon, <2>1 DEF Has
  <2> QED
    BY <1>1, <2>1, <2>2 DEF Places, IInv
<1>3. CASE e # 0 /\ port[e] = "open"
  <2>1. e \in Runs /\ queue \in [Runs -> Seq(Tasks)]
    BY <1>3, EngineAssumption DEF IInv, GlobalsOK, RunsOK, Runs
  <2>2. PICK n \in Nat : n = Len(queue[e])
    BY <2>1
  <2>3. queue' = [queue EXCEPT ![e] = Append(queue[e], t)] /\ lost' = lost
    BY Zenon, <1>3 DEF PutMsg
  <2>4. /\ DOMAIN queue[e] = 1 .. n /\ DOMAIN queue'[e] = 1 .. n + 1
        /\ queue'[e][n + 1] = t /\ \A i \in 1 .. n : queue'[e][i] = queue[e][i]
        /\ \A d \in Runs \ {e} : queue'[d] = queue[d]
    BY <2>1, <2>2, <2>3
  <2>5. 1 .. n + 1 = (1 .. n) \cup {n + 1} /\ n + 1 \notin 1 .. n
    OBVIOUS
  <2>6. ASSUME NEW d \in Runs, NEW i \in DOMAIN queue'[d]
        PROVE  \/ d = e /\ i = n + 1 /\ queue'[d][i] = t
               \/ i \in DOMAIN queue[d] /\ queue'[d][i] = queue[d][i] /\ queue[d][i] # t
    BY Zenon, <1>1, <2>4, <2>5, <2>6 DEF Has
  <2>7. ASSUME NEW d \in Runs, NEW i \in DOMAIN queue[d]
        PROVE  i \in DOMAIN queue'[d] /\ queue'[d][i] = queue[d][i]
    BY Zenon, <2>4, <2>5
  <2>8. Has(t)' /\ \A u \in Tasks \ {t} : Has(u)' <=> Has(u)
    <3>1. Has(t)'
      BY Zenon, <2>1, <2>4, <2>5 DEF Has
    <3>2. ASSUME NEW u \in Tasks \ {t} PROVE (Has(u)' => Has(u)) /\ (Has(u) => Has(u)')
      BY <2>6, <2>7 DEF Has
    <3> QED
      BY Zenon, <3>1, <3>2
  <2>9. ASSUME NEW u \in Tasks, NEW d \in Runs, NEW f \in Runs,
               NEW i \in DOMAIN queue'[d], NEW j \in DOMAIN queue'[f],
               queue'[d][i] = u, queue'[f][j] = u
        PROVE  d = f /\ i = j
    <3>1. CASE u = t
      BY SMTT(30), <2>6, <2>9, <3>1
    <3>2. CASE u # t
      BY SMTT(30), <2>6, <2>9, <3>2 DEF IInv, Places
    <3> QED
      BY Zenon, <3>1, <3>2
  <2> QED
    BY <1>1, <2>3, <2>8, <2>9 DEF IInv, Places
<1> QED
  BY Zenon, <1>2, <1>3

(* GetMsg and ReplyMsg by the engine. *)
LEMMA DispatchPlaces ==
  ASSUME IInv, NEW e \in Runs, engine_dispatch(e), UNCHANGED clientVars
  PROVE  Places'
<1> DEFINE p == g_request_port
<1>1. p \in Runs /\ queue \in [Runs -> Seq(Tasks)] /\ queue[p] # <<>>
  BY Zenon, RequestPort DEF engine_dispatch, IInv, RunsOK
<1>2. /\ queue' = [queue EXCEPT ![p] = Tail(queue[p])]
      /\ replied' = replied \cup ({Head(queue[p])} \ lost) /\ lost' = lost
  BY Zenon DEF engine_dispatch
<1>3. \A u \in Tasks : Waiting(u)' <=> Waiting(u)
  BY Zenon DEF Waiting, IsShutdown, engine_dispatch, launchVars, clientVars
<1> HIDE DEF p
<1>4. PICK n \in Nat : n = Len(queue[p]) - 1
  <2>1. queue[p] \in Seq(Tasks) /\ queue[p] # <<>>
    BY Zenon, <1>1
  <2>2. Len(queue[p]) \in Nat \ {0}
    BY Zenon, <2>1, EmptySeq
  <2>3. Len(queue[p]) - 1 \in Nat
    BY <2>2
  <2> QED
    BY Zenon, <2>3
<1>h. PICK h \in Tasks : h = Head(queue[p])
  BY <1>1
<1>5. /\ DOMAIN queue[p] = 1 .. n + 1 /\ DOMAIN queue'[p] = 1 .. n
      /\ queue[p][1] = h /\ \A i \in 1 .. n : queue'[p][i] = queue[p][i + 1]
      /\ \A d \in Runs \ {p} : queue'[d] = queue[d]
  BY <1>1, <1>2, <1>4, <1>h
<1>6. /\ \A i \in 1 .. n : i + 1 \in 1 .. n + 1 /\ i + 1 # 1
      /\ \A i \in 1 .. n + 1 : i = 1 \/ (i - 1 \in 1 .. n /\ i - 1 + 1 = i)
      /\ \A i, j \in 1 .. n : i + 1 = j + 1 => i = j
      /\ 1 \in 1 .. n + 1
  OBVIOUS
<1> DEFINE was(d, i) == IF d = p THEN i + 1 ELSE i
<1>7. ASSUME NEW d \in Runs, NEW i \in DOMAIN queue'[d]
      PROVE  /\ was(d, i) \in DOMAIN queue[d] /\ queue'[d][i] = queue[d][was(d, i)]
             /\ queue'[d][i] # h
  <2>1. was(d, i) \in DOMAIN queue[d] /\ queue'[d][i] = queue[d][was(d, i)]
    BY Zenon, <1>5, <1>6, <1>7
  <2>2. d = p => was(d, i) # 1
    BY Zenon, <1>5, <1>6, <1>7
  <2> HIDE DEF was
  <2>3. ASSUME queue'[d][i] = h PROVE FALSE
    <3>1. queue[d][was(d, i)] = h /\ queue[p][1] = h /\ 1 \in DOMAIN queue[p]
      BY Zenon, <1>5, <1>6, <2>1, <2>3
    <3>2. Places
      BY Zenon DEF IInv
    <3>3. d = p /\ was(d, i) = 1
      BY SMTT(30), <1>1, <2>1, <3>1, <3>2 DEF Places
    <3> QED
      BY Zenon, <2>2, <3>3
  <2> QED
    BY Zenon, <2>1, <2>3
<1>8. ASSUME NEW u \in Tasks \ {h} PROVE Has(u)' <=> Has(u)
  <2>1. ASSUME NEW d \in Runs, NEW i \in DOMAIN queue[d], queue[d][i] = u
        PROVE  \E j \in DOMAIN queue'[d] : queue'[d][j] = u
    <3>1. CASE d # p
      BY Zenon, <1>5, <2>1, <3>1
    <3>2. CASE d = p
      <4>1. i \in 1 .. n + 1 /\ i # 1
        BY Zenon, <1>5, <2>1, <3>2
      <4>2. i - 1 \in 1 .. n /\ i - 1 + 1 = i
        BY Zenon, <1>6, <4>1
      <4>3. queue'[p][i - 1] = queue[p][i]
        BY Zenon, <1>5, <4>2
      <4> QED
        BY Zenon, <1>5, <2>1, <3>2, <4>2, <4>3
    <3> QED
      BY Zenon, <3>1, <3>2
  <2> HIDE DEF was
  <2> QED
    BY <1>7, <2>1 DEF Has
<1>9. ~ Has(h)' /\ Has(h)
  <2>1. Has(h)
    BY Zenon, <1>1, <1>5, <1>6 DEF Has
  <2>2. \A d \in Runs : \A i \in DOMAIN queue'[d] : queue'[d][i] # h
    BY Zenon, <1>7
  <2> QED
    BY Zenon, <2>1, <2>2 DEF Has
<1>10. ASSUME NEW u \in Tasks, NEW d \in Runs, NEW f \in Runs,
              NEW i \in DOMAIN queue'[d], NEW j \in DOMAIN queue'[f],
              queue'[d][i] = u, queue'[f][j] = u
       PROVE  d = f /\ i = j
  <2>1. d = f /\ was(d, i) = was(f, j)
    <3> HIDE DEF was
    <3>1. Places
      BY Zenon DEF IInv
    <3>2. was(d, i) \in DOMAIN queue[d] /\ queue[d][was(d, i)] = u
      BY Zenon, <1>7, <1>10
    <3>3. was(f, j) \in DOMAIN queue[f] /\ queue[f][was(f, j)] = u
      BY Zenon, <1>7, <1>10
    <3> QED
      BY Zenon, <3>1, <3>2, <3>3 DEF Places
  <2> QED
    BY SMTT(30), <1>5, <1>6, <1>10, <2>1
<1>11. ASSUME NEW u \in Tasks
       PROVE  /\ Has(u)' => Waiting(u)'
              /\ u \in replied' => Waiting(u)' /\ ~ Has(u)'
              /\ Waiting(u)' => u \in lost' \/ u \in replied' \/ Has(u)'
  <2>1. CASE u = h
    BY Zenon, <1>2, <1>3, <1>9, <1>h, <2>1 DEF IInv, Places
  <2>2. CASE u # h
    BY Zenon, <1>2, <1>3, <1>8, <1>h, <2>2 DEF IInv, Places
  <2> QED
    BY Zenon, <2>1, <2>2
<1> HIDE DEF was
<1> QED
  BY Zenon, <1>10, <1>11 DEF Places

(* The port goes, and what was on it is lost. *)
LEMMA FreePlaces ==
  ASSUME IInv, NEW e \in Runs, engine_free(e), UNCHANGED clientVars
  PROVE  Places'
<1>1. \A u \in Tasks : Waiting(u)' <=> Waiting(u)
  BY Zenon DEF Waiting, IsShutdown, engine_free, launchVars, clientVars
<1>2. CASE g_request_port = 0
  BY Zenon, <1>1, <1>2, SamePlaces DEF engine_free, IInv
<1>3. CASE g_request_port # 0
  <2> DEFINE p == g_request_port
  <2>1. p \in Runs /\ queue \in [Runs -> Seq(Tasks)]
    BY Zenon, <1>3, RequestPort DEF IInv, RunsOK
  <2>2. /\ queue' = [queue EXCEPT ![p] = <<>>] /\ replied' = replied
        /\ lost' = lost \cup Elements(queue[p])
    BY Zenon, <1>3 DEF engine_free
  <2> HIDE DEF p
  <2>3. DOMAIN queue'[p] = {} /\ \A d \in Runs \ {p} : queue'[d] = queue[d]
    BY <2>1, <2>2
  <2>4. \A u \in Tasks : (Has(u)' => Has(u)) /\ (Has(u) => Has(u)' \/ u \in lost')
    BY <2>1, <2>2, <2>3 DEF Has, Elements
  <2>5. ASSUME NEW u \in Tasks, NEW d \in Runs, NEW f \in Runs,
               NEW i \in DOMAIN queue'[d], NEW j \in DOMAIN queue'[f],
               queue'[d][i] = u, queue'[f][j] = u
        PROVE  d = f /\ i = j
    BY <2>3, <2>5 DEF IInv, Places
  <2> QED
    BY <1>1, <2>2, <2>4, <2>5 DEF IInv, Places
<1> QED
  BY Zenon, <1>2, <1>3

(* A reply fetched by its task. *)
LEMMA ReplyPlaces ==
  ASSUME IInv, NEW t \in Tasks, GetReply(t), queue' = queue, lost' = lost,
         ~ Waiting(t)', \A u \in Tasks \ {t} : Waiting(u)' <=> Waiting(u)
  PROVE  Places'
<1>1. \A u \in Tasks : Has(u)' <=> Has(u)
  BY SMTT(30) DEF Has
<1> QED
  BY <1>1 DEF GetReply, IInv, Places

LEMMA NextPlaces ==
  ASSUME IInv, [Next]_vars PROVE Places'
<1> USE DEF IInv, TasksOK, Waiting, IsShutdown, globals, runVars, launchVars, msgVars, clientVars, replyVars, engineVars
<1>1. ASSUME NEW e \in Runs, boot_fail(e), UNCHANGED clientVars PROVE Places'
  <2>1. \A u \in Tasks : Waiting(u)' <=> Waiting(u)
    BY Zenon, <1>1 DEF boot_fail, TellReady
  <2> QED
    BY Zenon, <1>1, <2>1, SamePlaces DEF boot_fail, TellReady
<1>2. ASSUME NEW e \in Runs, boot_port(e), UNCHANGED clientVars PROVE Places'
  <2>1. \A u \in Tasks : Waiting(u)' <=> Waiting(u)
    BY Zenon, <1>2 DEF boot_port
  <2> QED
    BY Zenon, <1>2, <2>1, SamePlaces DEF boot_port
<1>3. ASSUME NEW e \in Runs, boot_ready(e), UNCHANGED clientVars PROVE Places'
  <2>1. \A u \in Tasks : Waiting(u)' <=> Waiting(u)
    BY SMTT(30), <1>3 DEF boot_ready, boot_flags, TellReady
  <2> QED
    BY Zenon, <1>3, <2>1, SamePlaces DEF boot_ready, boot_flags, TellReady
<1>4. ASSUME NEW e \in Runs, engine_wait(e), UNCHANGED clientVars PROVE Places'
  <2>1. \A u \in Tasks : Waiting(u)' <=> Waiting(u)
    BY Zenon, <1>4 DEF engine_wait
  <2> QED
    BY Zenon, <1>4, <2>1, SamePlaces DEF engine_wait
<1>5. ASSUME NEW e \in Runs, engine_dispatch(e), UNCHANGED clientVars PROVE Places'
  BY SMTT(30), <1>5, DispatchPlaces
<1>6. ASSUME NEW e \in Runs, engine_drained(e), UNCHANGED clientVars PROVE Places'
  <2>1. \A u \in Tasks : Waiting(u)' <=> Waiting(u)
    BY Zenon, <1>6 DEF engine_drained
  <2> QED
    BY Zenon, <1>6, <2>1, SamePlaces DEF engine_drained
<1>7. ASSUME NEW e \in Runs, engine_free(e), UNCHANGED clientVars PROVE Places'
  BY SMTT(30), <1>7, FreePlaces
<1>8. ASSUME NEW e \in Runs, engine_clear(e), UNCHANGED clientVars PROVE Places'
  <2>1. \A u \in Tasks : Waiting(u)' <=> Waiting(u)
    BY Zenon, <1>8 DEF engine_clear, cleared_port
  <2> QED
    BY Zenon, <1>8, <2>1, SamePlaces DEF engine_clear, cleared_port
<1>9. ASSUME NEW e \in Runs, engine_stopped(e), UNCHANGED clientVars PROVE Places'
  <2>1. \A u \in Tasks : Waiting(u)' <=> Waiting(u)
    BY Zenon, <1>9 DEF engine_stopped, TellStopped
  <2> QED
    BY Zenon, <1>9, <2>1, SamePlaces DEF engine_stopped, TellStopped
<1>10. ASSUME NEW e \in Runs, UserBreak(e), UNCHANGED clientVars PROVE Places'
  <2>1. \A u \in Tasks : Waiting(u)' <=> Waiting(u)
    BY Zenon, <1>10 DEF UserBreak, Live
  <2> QED
    BY Zenon, <1>10, <2>1, SamePlaces DEF UserBreak, Live
<1>11. ASSUME NEW t \in Launchers, NetstackEngine_Start(t), UNCHANGED clientVars PROVE Places'
  <2>1. \A u \in Tasks : Waiting(u)' <=> Waiting(u)
    BY Zenon, <1>11 DEF NetstackEngine_Start, Calling
  <2> QED
    BY Zenon, <1>11, <2>1, SamePlaces DEF NetstackEngine_Start, Calling
<1>12. ASSUME NEW t \in Launchers, NetstackEngine_Stop(t), UNCHANGED clientVars PROVE Places'
  <2>1. \A u \in Tasks : Waiting(u)' <=> Waiting(u)
    BY Zenon, <1>12 DEF NetstackEngine_Stop, Calling
  <2> QED
    BY Zenon, <1>12, <2>1, SamePlaces DEF NetstackEngine_Stop, Calling
<1>13. ASSUME NEW t \in Launchers, start_publish(t), UNCHANGED clientVars PROVE Places'
  <2>1. \A u \in Tasks : Waiting(u)' <=> Waiting(u)
    BY Zenon, <1>13 DEF start_publish, Goes
  <2> QED
    BY Zenon, <1>13, <2>1, SamePlaces DEF start_publish, Goes
<1>14. ASSUME NEW t \in Launchers, start_create(t), UNCHANGED clientVars PROVE Places'
  <2>1. \A u \in Tasks : Waiting(u)' <=> Waiting(u)
    BY Zenon, <1>14 DEF start_create, Goes
  <2> QED
    BY Zenon, <1>14, <2>1, SamePlaces DEF start_create, Goes
<1>15. ASSUME NEW t \in Launchers, start_wait(t), UNCHANGED clientVars PROVE Places'
  <2>1. \A u \in Tasks : Waiting(u)' <=> Waiting(u)
    BY Zenon, <1>15 DEF start_wait, Goes
  <2> QED
    BY Zenon, <1>15, <2>1, SamePlaces DEF start_wait, Goes
<1>16. ASSUME NEW t \in Launchers, stop_put(t), UNCHANGED clientVars PROVE Places'
  <2>1. t \in Tasks /\ (t \in Clients => cpc[t] = "idle") /\ g_request_port \in 0 .. gen
    BY Zenon, <1>16 DEF Tasks, GlobalsOK, OneCall, Calling, stop_put, Goes
  <2>2. ~ Waiting(t) /\ Waiting(t)' /\ \A u \in Tasks \ {t} : Waiting(u)' <=> Waiting(u)
    BY Zenon, <1>16, <2>1 DEF stop_put, Goes
  <2> QED
    BY Zenon, <1>16, <2>1, <2>2, PutPlaces DEF stop_put
<1>17. ASSUME NEW t \in Launchers, stop_reply(t), UNCHANGED clientVars PROVE Places'
  <2>1. t \in Tasks /\ (t \in Clients => cpc[t] = "idle")
    BY Zenon, <1>17 DEF Tasks, OneCall, Calling, stop_reply, Goes
  <2>2. ~ Waiting(t)' /\ \A u \in Tasks \ {t} : Waiting(u)' <=> Waiting(u)
    BY Zenon, <1>17, <2>1 DEF stop_reply, Goes
  <2> QED
    BY Zenon, <1>17, <2>1, <2>2, ReplyPlaces DEF stop_reply
<1>18. ASSUME NEW t \in Launchers, stop_wait(t), UNCHANGED clientVars PROVE Places'
  <2>1. \A u \in Tasks : Waiting(u)' <=> Waiting(u)
    BY Zenon, <1>18 DEF stop_wait, Goes, stopped_seen
  <2> QED
    BY Zenon, <1>18, <2>1, SamePlaces DEF stop_wait, Goes, stopped_seen
<1>19. ASSUME netstack_client_init PROVE Places'
  <2>1. \A u \in Tasks : Waiting(u)' <=> Waiting(u)
    BY Zenon, <1>19 DEF netstack_client_init, ensure_engine_port, FindPort
  <2> QED
    BY Zenon, <1>19, <2>1, SamePlaces DEF netstack_client_init, ensure_engine_port, FindPort
<1>20. ASSUME netstack_client_shutdown PROVE Places'
  <2>1. \A u \in Tasks : (Waiting(u)' <=> Waiting(u)) /\ (Has(u)' <=> Has(u))
    BY Zenon, <1>20 DEF netstack_client_shutdown, Has
  <2>2. /\ queue' = queue /\ lost \subseteq lost' /\ replied' \subseteq replied
        /\ \A u \in Tasks : u \in replied /\ u \notin replied' => u \in lost'
    BY Zenon, <1>20 DEF netstack_client_shutdown
  <2> HIDE DEF Waiting
  <2> QED
    BY <2>1, <2>2 DEF Places
<1>21. ASSUME shutdown_clear PROVE Places'
  <2>1. \A u \in Tasks : Waiting(u)' <=> Waiting(u)
    BY Zenon, <1>21 DEF shutdown_clear
  <2> QED
    BY Zenon, <1>21, <2>1, SamePlaces DEF shutdown_clear
<1>22. ASSUME NEW c \in Clients, call_engine(c) PROVE Places'
  <2>1. PICK x \in {"idle", "slot"} : cpc' = [cpc EXCEPT ![c] = x] /\ cpc[c] = "idle" /\ lpc' = lpc
    BY Zenon, <1>22 DEF call_engine, Free
  <2>2. \A u \in Tasks : Waiting(u)' <=> Waiting(u)
    BY Zenon, <2>1
  <2> QED
    BY Zenon, <1>22, <2>2, SamePlaces DEF call_engine
<1>23. ASSUME NEW c \in Clients, call_slot(c) PROVE Places'
  <2>1. \A u \in Tasks : Waiting(u)' <=> Waiting(u)
    BY SMTT(30), <1>23 DEF call_slot
  <2> QED
    BY Zenon, <1>23, <2>1, SamePlaces DEF call_slot
<1>24. ASSUME NEW c \in Clients, call_put(c) PROVE Places'
  <2>1. c \in Tasks /\ (c \in Launchers => ~ Calling(c)) /\ engine[c] \in 0 .. gen
    BY Zenon, <1>24 DEF Tasks, OneCall, call_put
  <2>2. ~ Waiting(c) /\ Waiting(c)' /\ \A u \in Tasks \ {c} : Waiting(u)' <=> Waiting(u)
    BY SMTT(30), <1>24, <2>1 DEF call_put, Calling
  <2> QED
    BY Zenon, <1>24, <2>1, <2>2, PutPlaces DEF call_put
<1>25. ASSUME NEW c \in Clients, call_return(c) PROVE Places'
  <2>1. c \in Tasks /\ (c \in Launchers => ~ Calling(c))
    BY Zenon, <1>25 DEF Tasks, OneCall, call_return
  <2>2. ~ Waiting(c)' /\ \A u \in Tasks \ {c} : Waiting(u)' <=> Waiting(u)
    BY Zenon, <1>25, <2>1 DEF call_return, Calling
  <2> QED
    BY Zenon, <1>25, <2>1, <2>2, ReplyPlaces DEF call_return
<1>26. CASE UNCHANGED vars
  <2>1. \A u \in Tasks : Waiting(u)' <=> Waiting(u)
    BY Zenon, <1>26 DEF vars
  <2> QED
    BY Zenon, <1>26, <2>1, SamePlaces DEF vars
<1> QED
  BY Zenon, <1>1, <1>2, <1>3, <1>4, <1>5, <1>6, <1>7, <1>8, <1>9, <1>10, <1>11, <1>12, 
     <1>13, <1>14, <1>15, <1>16, <1>17, <1>18, <1>19, <1>20, <1>21, <1>22, <1>23, 
     <1>24, <1>25, <1>26
     DEF Next, engine_step, launcher_step, client_step

-----------------------------------------------------------------------------
LEMMA InitIInv == Init => IInv
<1> SUFFICES ASSUME Init PROVE IInv
  BY Zenon
<1> USE EngineAssumption, SocketIpcAssumption DEF Init, EngineInit
<1>0. 0 \in 0 .. gen /\ <<>> \in Seq(Tasks)
  OBVIOUS
<1>1. GlobalsOK /\ RunsOK /\ TasksOK
  <2>1. GlobalsOK
    <3>1. gen \in 0 .. MAX_RUNS /\ g_engine_task \in 0 .. gen /\ g_request_port \in 0 .. gen
      BY <1>0
    <3> QED
      BY Zenon, <3>1 DEF GlobalsOK
  <2>2. RunsOK
    BY Zenon, <1>0 DEF RunsOK, EnginePcs
  <2>3. TasksOK
    BY Zenon, <1>0 DEF TasksOK, LauncherPcs
  <2> QED
    BY Zenon, <2>1, <2>2, <2>3
<1>2. Ports /\ SignalPending
  BY Zenon DEF Ports, SignalPending, Runs, Live
<1>3. \A t \in Tasks : ~ Has(t) /\ ~ Waiting(t)
  BY DEF Has, Waiting, IsShutdown
<1>4. \A d \in Runs : DOMAIN queue[d] = {}
  OBVIOUS
<1>5. Places
  BY Zenon, <1>3, <1>4 DEF Places
<1>6. OneCall
  BY Zenon DEF OneCall
<1> HIDE EngineAssumption, SocketIpcAssumption DEF Init, EngineInit
<1> QED
  BY ONLY <1>1, <1>2, <1>5, <1>6 DEF IInv

LEMMA PlacesAreOne == Places => OnePlace
<1>1. \A t \in Tasks : \A x \in Queued(t) :
        \E e \in Runs : \E i \in DOMAIN queue[e] : x = <<e, i>> /\ queue[e][i] = t
  <2> SUFFICES ASSUME NEW t \in Tasks, NEW x \in Queued(t)
               PROVE  \E e \in Runs : \E i \in DOMAIN queue[e] : x = <<e, i>> /\ queue[e][i] = t
    BY Zenon
  <2>1. PICK e \in Runs : x \in {e} \X {i \in DOMAIN queue[e] : queue[e][i] = t}
    BY Zenon DEF Queued
  <2>2. PICK i \in DOMAIN queue[e] : x = <<e, i>> /\ queue[e][i] = t
    BY <2>1
  <2> QED
    BY Zenon, <2>2
<1>2. \A t \in Tasks : \A e \in Runs : \A i \in DOMAIN queue[e] :
        queue[e][i] = t => <<e, i>> \in Queued(t)
  BY DEF Queued
<1>3. ASSUME NEW t \in Tasks PROVE Has(t) <=> Queued(t) # {}
  <2>1. ASSUME Has(t) PROVE Queued(t) # {}
    BY Zenon, <1>2, <2>1 DEF Has
  <2>2. ASSUME NEW x \in Queued(t) PROVE Has(t)
    BY Zenon, <1>1, <2>2 DEF Has
  <2> QED
    BY Zenon, <2>1, <2>2
<1>4. ASSUME Places, NEW t \in Tasks, NEW x \in Queued(t), NEW y \in Queued(t) PROVE x = y
  BY <1>1, <1>4 DEF Places
<1> QED
  BY Zenon, <1>3, <1>4 DEF Places, OnePlace

(* The invariant is inductive. *)
LEMMA NextIInv == IInv /\ [Next]_vars => IInv'
BY Zenon, NextGlobals, NextRuns, NextTasks, NextPorts, NextOneCall, NextSignal, NextPlaces DEF IInv

LEMMA SpecIInv == Spec => []IInv
BY InitIInv, NextIInv, PTL DEF Spec

(* For any number of clients and launchers, which may be the same tasks,   *)
(* of runs and of reply ports, whatever starts, stops, breaks and client   *)
(* shutdowns happen in between: each request is in one place until its     *)
(* call returns, and no reply is left for the next call.                   *)
THEOREM IpcSafe == Spec => []OnePlace
<1>1. IInv => OnePlace
  BY Zenon, PlacesAreOne DEF IInv
<1> QED
  BY <1>1, SpecIInv, PTL

(* In the same generality, the engine does not wait with requests on its   *)
(* port and no signal pending.                                             *)
THEOREM IpcWakeups == Spec => []SignalPending
<1>1. IInv => SignalPending
  BY Zenon DEF IInv
<1> QED
  BY <1>1, SpecIInv, PTL

(* The globals, ports and program counters keep their types, and a         *)
(* g_request_port that is not NULL is the port of a run that has not got   *)
(* past its tear-down, however many launchers race.                        *)
THEOREM IpcTypes == Spec => []TypeOK
<1>1. IInv => TypeOK
  BY Zenon DEF IInv, GlobalsOK, RunsOK, TasksOK, TypeOK
<1> QED
  BY <1>1, SpecIInv, PTL

-----------------------------------------------------------------------------
(* The engine of launchers that take turns and a user who sends no break.  *)

Turns == \A t, u \in Launchers : Calling(t) /\ Calling(u) => t = u

(* Between Stop and Start there is no engine. *)
Off ==
    /\ g_engine_task = 0 /\ g_request_port = 0 /\ ~ g_engine_ready
    /\ Live = {}
    /\ ready_sig = {} /\ stopped_sig = {}
    /\ \A t \in Launchers : /\ lpc[t] \in {"ok", "failed", "publish", "create"}
                            /\ lpc[t] = "create" => g_launcher_task = t

(* From Start's CreateTask to its return: the run has not told the         *)
(* launcher yet, has failed, or serves.                                    *)
Booting ==
    /\ g_engine_task = gen /\ gen # 0 /\ g_launcher_task \in Launchers
    /\ lpc[g_launcher_task] = "start"
    /\ stopped_sig = {} /\ ~ ctrl_c[gen]
    /\ \/ /\ ready_sig = {} /\ ~ g_engine_ready
          /\ \/ epc[gen] = "boot" /\ g_request_port = 0
             \/ epc[gen] = "ready" /\ g_request_port = gen /\ port[gen] = "open"
       \/ /\ ready_sig = {g_launcher_task}
          /\ \/ epc[gen] = "dead" /\ g_request_port = 0 /\ ~ g_engine_ready
             \/ /\ epc[gen] \in {"loop", "drain"} /\ g_request_port = gen /\ port[gen] = "open"
                /\ g_engine_ready /\ ~ g_engine_shutdown

(* The run serves its port, and nobody has made it end. *)
Serving ==
    /\ g_engine_task = gen /\ gen # 0 /\ g_launcher_task \in Launchers
    /\ epc[gen] \in {"loop", "drain"} /\ g_request_port = gen /\ port[gen] = "open"
    /\ g_engine_ready /\ ~ g_engine_shutdown /\ ~ ctrl_c[gen]
    /\ ready_sig = {} /\ stopped_sig = {}
    /\ \A t \in Launchers : /\ lpc[t] \in {"ok", "failed", "put", "reply"}
                            /\ lpc[t] = "reply" => t \notin replied

(* A Stop has told the run to end, and waits for it. *)
Ending ==
    /\ g_engine_task = gen /\ gen # 0 /\ g_launcher_task \in Launchers
    /\ ready_sig = {}
    /\ \A t \in Launchers : lpc[t] \in {"ok", "failed", "reply", "stop"}
    /\ \E t \in Launchers : Calling(t)
    /\ \/ /\ epc[gen] \in {"loop", "drain"}
          /\ g_request_port = gen /\ stopped_sig = {}
          /\ IF g_engine_shutdown THEN gen \in told ELSE ctrl_c[gen]
       \/ /\ epc[gen] \in {"free", "clear"} /\ gen \in told
          /\ g_request_port = gen /\ stopped_sig = {}
       \/ /\ epc[gen] = "stopped" /\ gen \in told
          /\ g_request_port = 0 /\ ~ g_engine_ready /\ stopped_sig = {}
       \/ /\ epc[gen] = "dead"
          /\ g_request_port = 0 /\ ~ g_engine_ready /\ stopped_sig = {g_launcher_task}

(* Only the last run created is alive, and only its port is open. *)
LastRun ==
    \A e \in Runs :
       /\ e # gen => epc[e] \in {"none", "dead"}
       /\ e > gen => ~ ctrl_c[e]
       /\ port[e] = "open" => e = gen /\ epc[e] \in {"ready", "loop", "drain", "free"}

Phases == LastRun /\ (Off \/ Booting \/ Serving \/ Ending)

(* A run that is alive is the last one, and its phase is known. *)
LEMMA Alive ==
  ASSUME IInv, Phases, NEW e \in Runs, epc[e] \notin {"none", "dead"}
  PROVE  e = gen /\ LastRun /\ (Booting \/ Serving \/ Ending)
BY Zenon DEF Phases, LastRun, Off, Live

(* What the phases do not look at. *)
LEMMA SamePhases ==
  ASSUME Phases, UNCHANGED <<globals, gen, told, epc, port, ctrl_c, launchVars>>,
         replied' \subseteq replied
  PROVE  Phases'
BY Zenon DEF Phases, LastRun, Off, Booting, Serving, Ending, Live, Calling, globals, launchVars

(* The steps of the engine. *)
LEMMA EnginePhases ==
  ASSUME IInv, Phases, Turns, NEW e \in Runs, engine_step(e)
  PROVE  Phases'
<1> USE DEF globals, history, runVars, launchVars, msgVars
<1>t. /\ gen \in Nat /\ epc \in [Runs -> EnginePcs] /\ lpc \in [Launchers -> LauncherPcs]
      /\ port \in [Runs -> {"none", "open", "freed"}] /\ ctrl_c \in [Runs -> BOOLEAN]
      /\ g_engine_ready \in BOOLEAN /\ g_engine_shutdown \in BOOLEAN
  BY EngineAssumption DEF IInv, GlobalsOK, RunsOK, TasksOK
<1>a. epc[e] \notin {"none", "dead"} => e = gen /\ gen \in Runs /\ LastRun /\ (Booting \/ Serving \/ Ending)
  BY Zenon, Alive
<1>1. CASE boot_fail(e)
  <2>1. e = gen /\ gen \in Runs /\ LastRun /\ Booting
    BY Zenon, <1>1, <1>a DEF boot_fail, Serving, Ending
  <2>2. LastRun'
    BY Zenon, <1>1, <1>t, <2>1 DEF boot_fail, LastRun
  <2>3. Booting'
    BY Zenon, <1>1, <1>t, <2>1 DEF boot_fail, Booting, TellReady
  <2> QED
    BY Zenon, <2>2, <2>3 DEF Phases
<1>2. CASE boot_port(e)
  <2>1. e = gen /\ gen \in Runs /\ LastRun /\ Booting
    BY Zenon, <1>2, <1>a DEF boot_port, Serving, Ending
  <2>2. LastRun'
    BY Zenon, <1>2, <1>t, <2>1 DEF boot_port, LastRun
  <2>3. Booting'
    BY Zenon, <1>2, <1>t, <2>1 DEF boot_port, Booting
  <2> QED
    BY Zenon, <2>2, <2>3 DEF Phases
<1>3. CASE boot_ready(e)
  <2>1. e = gen /\ gen \in Runs /\ LastRun /\ Booting
    BY Zenon, <1>3, <1>a DEF boot_ready, Serving, Ending
  <2>2. LastRun'
    BY Zenon, <1>3, <1>t, <2>1 DEF boot_ready, LastRun
  <2>3. Booting'
    BY Zenon, <1>3, <1>t, <2>1 DEF boot_ready, boot_flags, Booting, TellReady
  <2> QED
    BY Zenon, <2>2, <2>3 DEF Phases
<1>4. CASE engine_wait(e)
  <2>1. e = gen /\ gen \in Runs /\ LastRun /\ (Booting \/ Serving \/ Ending)
    BY Zenon, <1>4, <1>a DEF engine_wait
  <2>2. LastRun'
    BY Zenon, <1>4, <1>t, <2>1 DEF engine_wait, LastRun
  <2>3. CASE Booting
    <3>1. ~ g_engine_shutdown /\ ~ ctrl_c[e]
      BY Zenon, <1>4, <2>1, <2>3 DEF engine_wait, Booting
    <3>2. epc'[gen] = "drain" /\ ~ ctrl_c'[gen]
      BY Zenon, <1>4, <1>t, <2>1, <3>1 DEF engine_wait
    <3>3. Booting'
      BY Zenon, <1>4, <2>1, <2>3, <3>2 DEF engine_wait, Booting
    <3> QED
      BY Zenon, <2>2, <3>3 DEF Phases
  <2>4. CASE Serving
    <3>1. ~ g_engine_shutdown /\ ~ ctrl_c[e]
      BY Zenon, <2>1, <2>4 DEF Serving
    <3>2. epc'[gen] = "drain" /\ ~ ctrl_c'[gen]
      BY Zenon, <1>4, <1>t, <2>1, <3>1 DEF engine_wait
    <3>3. Serving'
      BY Zenon, <1>4, <2>1, <2>4, <3>2 DEF engine_wait, Serving
    <3> QED
      BY Zenon, <2>2, <3>3 DEF Phases
  <2>5. CASE Ending
    <3>1. IF g_engine_shutdown THEN gen \in told ELSE ctrl_c[gen]
      BY Zenon, <1>4, <2>1, <2>5 DEF engine_wait, Ending
    <3>2. epc'[gen] = "free" /\ gen \in told'
      BY Zenon, <1>4, <1>t, <2>1, <3>1 DEF engine_wait
    <3>3. g_request_port = gen /\ stopped_sig = {}
      BY Zenon, <1>4, <2>1, <2>5 DEF engine_wait, Ending
    <3>4. Ending'
      BY Zenon, <1>4, <2>5, <3>2, <3>3 DEF engine_wait, Ending, Calling
    <3> QED
      BY Zenon, <2>2, <3>4 DEF Phases
  <2> QED
    BY Zenon, <2>1, <2>3, <2>4, <2>5
<1>5. CASE engine_dispatch(e)
  <2>1. e = gen /\ gen \in Runs /\ LastRun /\ (Booting \/ Serving \/ Ending)
    BY Zenon, <1>5, <1>a DEF engine_dispatch
  <2> DEFINE h == Head(queue[g_request_port])
  <2>2. /\ epc[gen] = "drain" /\ epc' = epc
        /\ g_engine_shutdown' = (g_engine_shutdown \/ IsShutdown(h))
        /\ told' = IF IsShutdown(h) THEN told \cup {gen} ELSE told
        /\ replied' = replied \cup ({h} \ lost)
        /\ UNCHANGED <<g_engine_task, g_launcher_task, g_request_port, g_engine_ready, gen,
                       port, ctrl_c, launchVars>>
    BY Zenon, <1>5, <1>t, <2>1 DEF engine_dispatch, after_reply
  <2> HIDE DEF h
  <2>3. LastRun'
    BY Zenon, <2>1, <2>2 DEF LastRun
  <2>4. CASE Booting
    <3>1. ~ IsShutdown(h)
      BY Zenon, <2>4 DEF Booting, IsShutdown, Turns, Calling
    <3>2. Booting'
      BY Zenon, <2>2, <2>4, <3>1 DEF Booting
    <3> QED
      BY Zenon, <2>3, <3>2 DEF Phases
  <2>5. CASE Serving /\ IsShutdown(h)
    <3>1. h \in Launchers /\ lpc[h] = "reply" /\ Calling(h)
      BY Zenon, <2>5 DEF IsShutdown, Calling
    <3>2. \A t \in Launchers : lpc[t] \in {"ok", "failed", "reply", "stop"}
      BY Zenon, <3>1 DEF Turns, Calling
    <3>3. Ending'
      BY Zenon, <2>2, <2>5, <3>1, <3>2 DEF Serving, Ending, Calling
    <3> QED
      BY Zenon, <2>3, <3>3 DEF Phases
  <2>6. CASE Serving /\ ~ IsShutdown(h)
    <3>1. \A t \in Launchers : lpc[t] = "reply" => t # h
      BY Zenon, <2>6 DEF IsShutdown
    <3>2. Serving'
      BY Zenon, <2>2, <2>6, <3>1 DEF Serving
    <3> QED
      BY Zenon, <2>3, <3>2 DEF Phases
  <2>7. CASE Ending
    <3>1. IF g_engine_shutdown' THEN gen \in told' ELSE ctrl_c[gen]
      BY Zenon, <2>2, <2>7 DEF Ending
    <3>2. Ending'
      BY Zenon, <2>2, <2>7, <3>1 DEF Ending, Calling
    <3> QED
      BY Zenon, <2>3, <3>2 DEF Phases
  <2> QED
    BY Zenon, <2>1, <2>4, <2>5, <2>6, <2>7
<1>6. CASE engine_drained(e)
  <2>1. e = gen /\ gen \in Runs /\ LastRun /\ (Booting \/ Serving \/ Ending)
    BY Zenon, <1>6, <1>a DEF engine_drained
  <2>2. LastRun'
    BY Zenon, <1>6, <1>t, <2>1 DEF engine_drained, LastRun
  <2>3. epc[gen] = "drain" /\ epc'[gen] = "loop"
    BY Zenon, <1>6, <1>t, <2>1 DEF engine_drained
  <2>4. CASE Booting
    BY Zenon, <1>6, <2>2, <2>3, <2>4 DEF engine_drained, Booting, Phases
  <2>5. CASE Serving
    BY Zenon, <1>6, <2>2, <2>3, <2>5 DEF engine_drained, Serving, Phases
  <2>6. CASE Ending
    BY Zenon, <1>6, <2>2, <2>3, <2>6 DEF engine_drained, Ending, Calling, Phases
  <2> QED
    BY Zenon, <2>1, <2>4, <2>5, <2>6
<1>7. CASE engine_free(e)
  <2>1. e = gen /\ gen \in Runs /\ LastRun /\ Ending /\ epc[gen] = "free" /\ epc'[gen] = "clear"
    BY Zenon, <1>7, <1>a, <1>t DEF engine_free, Booting, Serving
  <2>2. g_request_port = gen /\ gen # 0 /\ port' = [port EXCEPT ![gen] = "freed"]
    BY Zenon, <1>7, <2>1 DEF engine_free, Ending
  <2>3. LastRun'
    BY Zenon, <1>7, <1>t, <2>1, <2>2 DEF engine_free, LastRun
  <2>4. Ending'
    BY Zenon, <1>7, <2>1 DEF engine_free, Ending, Calling
  <2> QED
    BY Zenon, <2>3, <2>4 DEF Phases
<1>8. CASE engine_clear(e)
  <2>1. e = gen /\ gen \in Runs /\ LastRun /\ Ending /\ epc[gen] = "clear" /\ epc'[gen] = "stopped"
    BY Zenon, <1>8, <1>a, <1>t DEF engine_clear, Booting, Serving
  <2>2. LastRun'
    BY Zenon, <1>8, <1>t, <2>1 DEF engine_clear, LastRun
  <2>3. Ending'
    BY Zenon, <1>8, <2>1 DEF engine_clear, cleared_port, Ending, Calling
  <2> QED
    BY Zenon, <2>2, <2>3 DEF Phases
<1>9. CASE engine_stopped(e)
  <2>1. e = gen /\ gen \in Runs /\ LastRun /\ Ending /\ epc[gen] = "stopped" /\ epc'[gen] = "dead"
    BY Zenon, <1>9, <1>a, <1>t DEF engine_stopped, Booting, Serving
  <2>2. LastRun'
    BY Zenon, <1>9, <1>t, <2>1 DEF engine_stopped, LastRun
  <2>3. Ending'
    BY Zenon, <1>9, <2>1 DEF engine_stopped, TellStopped, Ending, Calling
  <2> QED
    BY Zenon, <2>2, <2>3 DEF Phases
<1> QED
  BY Zenon, <1>1, <1>2, <1>3, <1>4, <1>5, <1>6, <1>7, <1>8, <1>9 DEF engine_step

(* The steps of a launcher, when launchers take turns. *)
LEMMA LauncherPhases ==
  ASSUME IInv, Phases, Turns, Turns', NEW t \in Launchers,
         NetstackEngine_Start(t) \/ NetstackEngine_Stop(t) \/ launcher_step(t)
  PROVE  Phases'
<1> USE DEF globals, history, runVars, launchVars, msgVars, Goes
<1>t. /\ gen \in Nat /\ epc \in [Runs -> EnginePcs] /\ lpc \in [Launchers -> LauncherPcs]
      /\ port \in [Runs -> {"none", "open", "freed"}] /\ ctrl_c \in [Runs -> BOOLEAN]
      /\ gen # 0 => gen \in Runs
  BY SMTT(30), Created, EngineAssumption DEF IInv, GlobalsOK, RunsOK, TasksOK, Runs
<1>p. LastRun /\ (Off \/ Booting \/ Serving \/ Ending)
  BY Zenon DEF Phases
<1>o. Off => lpc[t] \in {"ok", "failed", "publish", "create"}
  BY Zenon DEF Off
<1>s. Serving => lpc[t] \in {"ok", "failed", "put", "reply"}
  BY Zenon DEF Serving
<1>e. Ending => lpc[t] \in {"ok", "failed", "reply", "stop"}
  BY Zenon DEF Ending
<1>1. CASE NetstackEngine_Start(t)
  <2>1. /\ ~ Calling(t) /\ UNCHANGED <<globals, gen, told, epc, port, ctrl_c, replied, ready_sig, stopped_sig>>
        /\ lpc'[t] = IF g_engine_task # 0 THEN "failed" ELSE "publish"
        /\ \A u \in Launchers \ {t} : lpc'[u] = lpc[u]
    BY Zenon, <1>1, <1>t DEF NetstackEngine_Start
  <2>2. LastRun'
    BY Zenon, <1>p, <2>1 DEF LastRun
  <2>3. CASE Off
    BY Zenon, <2>1, <2>2, <2>3 DEF Off, Live, Phases
  <2>4. CASE Booting
    <3>1. t # g_launcher_task
      BY Zenon, <2>1, <2>4 DEF Booting, Calling
    <3>2. Booting'
      BY Zenon, <2>1, <2>4, <3>1 DEF Booting
    <3> QED
      BY Zenon, <2>2, <3>2 DEF Phases
  <2>5. CASE Serving
    BY Zenon, <2>1, <2>2, <2>5 DEF Serving, Phases
  <2>6. CASE Ending
    <3>1. \E u \in Launchers : Calling(u)'
      BY Zenon, <2>1, <2>6 DEF Ending, Calling
    <3>2. \A u \in Launchers : lpc'[u] \in {"ok", "failed", "reply", "stop"}
      BY Zenon, <2>1, <2>6 DEF Ending
    <3>3. Ending'
      BY Zenon, <2>1, <2>6, <3>1, <3>2 DEF Ending
    <3> QED
      BY Zenon, <2>2, <3>3 DEF Phases
  <2> QED
    BY Zenon, <1>p, <2>3, <2>4, <2>5, <2>6
<1>2. CASE NetstackEngine_Stop(t)
  <2>1. /\ ~ Calling(t) /\ UNCHANGED <<globals, gen, told, epc, port, replied, ready_sig, stopped_sig>>
        /\ lpc'[t] \in {"ok", "put", "stop"}
        /\ \A u \in Launchers \ {t} : lpc'[u] = lpc[u]
        /\ g_engine_task = 0 <=> lpc'[t] = "ok"
        /\ lpc'[t] # "stop" => ctrl_c' = ctrl_c
        /\ lpc'[t] = "stop" => ctrl_c' = [ctrl_c EXCEPT ![g_engine_task] = TRUE]
    BY Zenon, <1>2, <1>t DEF NetstackEngine_Stop
  <2>2. LastRun'
    <3>1. g_engine_task \in {0, gen}
      BY Zenon, <1>p DEF Off, Booting, Serving, Ending
    <3> QED
      BY <1>p, <1>t, <2>1, <3>1 DEF LastRun
  <2>3. CASE Off
    BY Zenon, <2>1, <2>2, <2>3 DEF Off, Live, Phases
  <2>4. CASE Booting
    <3>1. Calling(g_launcher_task) /\ t # g_launcher_task /\ g_launcher_task \in Launchers /\ g_engine_task # 0
      BY Zenon, <2>1, <2>4 DEF Booting, Calling
    <3>2. Calling(g_launcher_task)' /\ Calling(t)' /\ g_launcher_task' = g_launcher_task
      BY Zenon, <2>1, <3>1 DEF Calling
    <3> QED
      BY Zenon, <3>1, <3>2 DEF Turns, Calling
  <2>5. CASE Serving /\ lpc'[t] # "stop"
    BY Zenon, <2>1, <2>2, <2>5 DEF Serving, Phases
  <2>6. CASE Serving /\ lpc'[t] = "stop"
    <3>1. Calling(t)'
      BY Zenon, <2>6 DEF Calling
    <3>2. \A u \in Launchers : lpc'[u] \in {"ok", "failed", "stop"}
      BY Zenon, <2>1, <2>6 DEF Turns, Serving, Calling
    <3>3. ctrl_c'[gen] /\ g_engine_task = gen /\ gen # 0
      BY Zenon, <1>t, <2>1, <2>6 DEF Serving
    <3>4. Ending'
      BY Zenon, <2>1, <2>6, <3>1, <3>2, <3>3 DEF Serving, Ending
    <3> QED
      BY Zenon, <2>2, <3>4 DEF Phases
  <2>7. CASE Ending
    <3>1. PICK u \in Launchers : Calling(u)
      BY Zenon, <2>7 DEF Ending
    <3>2. u # t /\ Calling(u)' /\ Calling(t)'
      BY Zenon, <2>1, <2>7, <3>1 DEF Ending, Calling
    <3> QED
      BY Zenon, <3>1, <3>2 DEF Turns, Calling
  <2> QED
    BY Zenon, <1>p, <2>3, <2>4, <2>5, <2>6, <2>7
<1>3. CASE start_publish(t)
  <2>1. /\ lpc[t] = "publish" /\ lpc'[t] \in {"create", "failed"} /\ g_launcher_task' = t
        /\ \A u \in Launchers \ {t} : lpc'[u] = lpc[u] /\ ~ Calling(u)
        /\ (~ g_engine_ready => ~ g_engine_ready') /\ ready_sig' \subseteq ready_sig /\ stopped_sig' \subseteq stopped_sig
        /\ UNCHANGED <<g_engine_task, g_request_port, g_engine_shutdown, gen, told, runVars>>
    BY <1>3, <1>t DEF start_publish, Turns, Calling
  <2>2. LastRun'
    BY Zenon, <1>p, <2>1 DEF LastRun
  <2>3. Off
    <3>1. ~ Booting
      BY Zenon, <2>1 DEF Booting, Calling
    <3>2. ~ Serving
      BY Zenon, <1>s, <2>1
    <3>3. ~ Ending
      BY Zenon, <1>e, <2>1
    <3> QED
      BY Zenon, <1>p, <3>1, <3>2, <3>3
  <2>a. ~ g_engine_ready /\ ready_sig = {} /\ stopped_sig = {}
    BY <2>3, Zenon DEF Off
  <2>4. ~ g_engine_ready' /\ ready_sig' = {} /\ stopped_sig' = {}
    BY Zenon, <2>1, <2>a
  <2>5. \A u \in Launchers : /\ lpc'[u] \in {"ok", "failed", "publish", "create"}
                             /\ lpc'[u] = "create" => g_launcher_task' = u
    BY Zenon, <2>1, <2>3 DEF Off, Calling
  <2>6. Off'
    BY Zenon, <2>1, <2>3, <2>4, <2>5 DEF Off, Live
  <2> QED
    BY Zenon, <2>2, <2>6 DEF Phases
<1>4. CASE start_create(t)
  <2>1. /\ lpc[t] = "create" /\ lpc'[t] \in {"start", "failed"}
        /\ \A u \in Launchers \ {t} : lpc'[u] = lpc[u] /\ ~ Calling(u)
        /\ UNCHANGED <<g_launcher_task, g_request_port, g_engine_ready, g_engine_shutdown, told, port, ctrl_c,
                       ready_sig, stopped_sig>>
    BY Zenon, <1>4, <1>t DEF start_create, Turns, Calling
  <2>2. Off
    <3>1. ~ Booting
      BY Zenon, <2>1 DEF Booting, Calling
    <3>2. ~ Serving
      BY Zenon, <1>s, <2>1
    <3>3. ~ Ending
      BY Zenon, <1>e, <2>1
    <3> QED
      BY Zenon, <1>p, <3>1, <3>2, <3>3
  <2>3. CASE lpc'[t] = "failed"
    <3>1. UNCHANGED <<gen, epc>> /\ g_engine_task' = 0
      BY Zenon, <1>4, <1>t, <2>3 DEF start_create
    <3>2. LastRun' /\ Off'
      BY Zenon, <1>p, <2>1, <2>2, <2>3, <3>1 DEF LastRun, Off, Live, Calling
    <3> QED
      BY Zenon, <3>2 DEF Phases
  <2>4. CASE lpc'[t] = "start"
    <3>1. /\ gen' = gen + 1 /\ gen + 1 \in Runs /\ gen + 1 # 0 /\ g_engine_task' = gen + 1
          /\ epc' = [epc EXCEPT ![gen + 1] = "boot"]
      BY <1>4, <1>t, <2>4, EngineAssumption DEF start_create, Runs
    <3>2. LastRun' /\ ~ ctrl_c'[gen']
      BY <1>p, <1>t, <2>1, <2>2, <3>1 DEF LastRun, Off, Live, Runs
    <3>3. Booting'
      BY Zenon, <1>t, <2>1, <2>2, <2>4, <3>1, <3>2 DEF Off, Booting
    <3> QED
      BY Zenon, <3>2, <3>3 DEF Phases
  <2> QED
    BY Zenon, <2>1, <2>3, <2>4
<1>5. CASE start_wait(t)
  <2>1. /\ t \in ready_sig /\ lpc[t] = "start" /\ lpc'[t] = (IF g_engine_ready THEN "ok" ELSE "failed")
        /\ \A u \in Launchers \ {t} : lpc'[u] = lpc[u] /\ ~ Calling(u)
        /\ ready_sig' = ready_sig \ {t} /\ g_engine_task' = IF g_engine_ready THEN g_engine_task ELSE 0
        /\ UNCHANGED <<g_launcher_task, g_request_port, g_engine_ready, g_engine_shutdown, gen, told, runVars,
                       stopped_sig>>
    BY Zenon, <1>5, <1>t DEF start_wait, Turns, Calling
  <2>2. Booting /\ ready_sig = {t}
    BY Zenon, <1>p, <2>1 DEF Off, Booting, Serving, Ending
  <2>3. LastRun'
    BY Zenon, <1>p, <2>1 DEF LastRun
  <2>4. \A u \in Launchers : lpc'[u] \in {"ok", "failed"}
    BY Zenon, <1>t, <2>1 DEF Calling, LauncherPcs
  <2>5. CASE g_engine_ready
    <3>1. Serving'
      BY Zenon, <2>1, <2>2, <2>4, <2>5 DEF Booting, Serving
    <3> QED
      BY Zenon, <2>3, <3>1 DEF Phases
  <2>6. CASE ~ g_engine_ready
    <3>1. Live' = {}
      BY Zenon, <1>p, <2>1, <2>2, <2>6 DEF Booting, LastRun, Live
    <3>2. Off'
      BY Zenon, <2>1, <2>2, <2>4, <2>6, <3>1 DEF Booting, Off
    <3> QED
      BY Zenon, <2>3, <3>2 DEF Phases
  <2> QED
    BY Zenon, <2>5, <2>6
<1>6. CASE stop_put(t)
  <2>1. /\ lpc[t] = "put" /\ lpc'[t] = "reply"
        /\ \A u \in Launchers \ {t} : lpc'[u] = lpc[u] /\ ~ Calling(u)
        /\ UNCHANGED <<globals, gen, told, epc, port, ctrl_c, ready_sig, stopped_sig, replied>>
    BY Zenon, <1>6, <1>t DEF stop_put, Turns, Calling
  <2>2. LastRun'
    BY Zenon, <1>p, <2>1 DEF LastRun
  <2>3. Serving
    <3>1. ~ Off
      BY Zenon, <1>o, <2>1
    <3>2. ~ Booting
      BY Zenon, <2>1 DEF Booting, Calling
    <3>3. ~ Ending
      BY Zenon, <1>e, <2>1
    <3> QED
      BY Zenon, <1>p, <3>1, <3>2, <3>3
  <2>4. t \notin replied
    <3>1. t \notin Clients \/ cpc[t] = "idle"
      BY Zenon, <2>1 DEF IInv, OneCall, Calling
    <3>2. ~ Waiting(t)
      BY Zenon, <2>1, <3>1 DEF Waiting, IsShutdown
    <3>3. t \in Tasks
      BY Zenon DEF Tasks
    <3> QED
      BY Zenon, <3>2, <3>3 DEF IInv, Places
  <2>5. Serving'
    BY Zenon, <2>1, <2>3, <2>4 DEF Serving
  <2> QED
    BY Zenon, <2>2, <2>5 DEF Phases
<1>7. CASE stop_reply(t)
  <2>1. /\ lpc[t] = "reply" /\ lpc'[t] = "stop" /\ t \in replied
        /\ \A u \in Launchers \ {t} : lpc'[u] = lpc[u] /\ ~ Calling(u)
        /\ UNCHANGED <<globals, gen, told, runVars, ready_sig, stopped_sig>>
    BY Zenon, <1>7, <1>t DEF stop_reply, GetReply, Turns, Calling
  <2>2. LastRun'
    BY Zenon, <1>p, <2>1 DEF LastRun
  <2>3. Ending
    <3>1. ~ Off
      BY Zenon, <1>o, <2>1
    <3>2. ~ Booting
      BY Zenon, <2>1 DEF Booting, Calling
    <3>3. ~ Serving
      BY Zenon, <2>1 DEF Serving
    <3> QED
      BY Zenon, <1>p, <3>1, <3>2, <3>3
  <2>4. Ending'
    BY Zenon, <2>1, <2>3 DEF Ending, Calling
  <2> QED
    BY Zenon, <2>2, <2>4 DEF Phases
<1>8. CASE stop_wait(t)
  <2>1. /\ lpc[t] = "stop" /\ lpc'[t] = "ok" /\ t \in stopped_sig
        /\ \A u \in Launchers \ {t} : lpc'[u] = lpc[u] /\ ~ Calling(u)
        /\ g_engine_task' = 0 /\ stopped_sig' = stopped_sig \ {t}
        /\ UNCHANGED <<g_launcher_task, g_request_port, g_engine_ready, gen, told, runVars, ready_sig>>
    BY Zenon, <1>8, <1>t DEF stop_wait, stopped_seen, Turns, Calling
  <2>2. LastRun'
    BY Zenon, <1>p, <2>1 DEF LastRun
  <2>3. Ending /\ epc[gen] = "dead" /\ stopped_sig = {t}
    BY Zenon, <1>p, <2>1 DEF Off, Booting, Serving, Ending
  <2>4. Live' = {}
    BY Zenon, <1>p, <2>1, <2>3 DEF LastRun, Live
  <2>5. \A u \in Launchers : lpc'[u] \in {"ok", "failed"}
    BY Zenon, <1>t, <2>1 DEF Calling, LauncherPcs
  <2>6. Off'
    BY Zenon, <2>1, <2>3, <2>4, <2>5 DEF Ending, Off
  <2> QED
    BY Zenon, <2>2, <2>6 DEF Phases
<1> QED
  BY Zenon, <1>1, <1>2, <1>3, <1>4, <1>5, <1>6, <1>7, <1>8 DEF launcher_step

(* The steps of the clients are not seen in the phases. *)
LEMMA ClientPhases ==
  ASSUME Phases,
         \/ netstack_client_init \/ netstack_client_shutdown \/ shutdown_clear
         \/ \E c \in Clients : call_engine(c) \/ client_step(c)
  PROVE  Phases'
<1>1. UNCHANGED <<globals, gen, told, epc, port, ctrl_c, launchVars>> /\ replied' \subseteq replied
  BY Zenon DEF netstack_client_init, netstack_client_shutdown, shutdown_clear, call_engine, client_step, call_slot,
         call_put, call_return, GetReply, engineVars, history, runVars, msgVars
<1> QED
  BY Zenon, <1>1, SamePhases

(* A step without a break of the user leads from phase to phase. *)
LEMMA NextPhases ==
  ASSUME IInv, Phases, Turns, Turns', [Next]_vars, ~ broke'
  PROVE  Phases'
<1>1. CASE UNCHANGED vars
  BY Zenon, <1>1, SamePhases DEF vars, engineVars, history, runVars, msgVars
<1>2. CASE \E e \in Runs : engine_step(e)
  BY Zenon, <1>2, EnginePhases
<1>3. CASE \E e \in Runs : UserBreak(e)
  BY Zenon, <1>3 DEF UserBreak
<1>4. CASE \E t \in Launchers : NetstackEngine_Start(t) \/ NetstackEngine_Stop(t) \/ launcher_step(t)
  BY Zenon, <1>4, LauncherPhases
<1>5. CASE \/ netstack_client_init \/ netstack_client_shutdown \/ shutdown_clear
           \/ \E c \in Clients : call_engine(c) \/ client_step(c)
  BY Zenon, <1>5, ClientPhases
<1> QED
  BY Zenon, <1>1, <1>2, <1>3, <1>4, <1>5 DEF Next

(* With one launcher and no break of the user, an engine that ends has     *)
(* been told to: the run goes through its phases (Off, Booting, Serving,   *)
(* Ending) one at a time, so that neither the shutdown flag, a break nor a *)
(* signal of an earlier run is there for this one (engine_main.c:104, 110, *)
(* 147-158, 194-209).                                                      *)
THEOREM EndsCorrect ==
  ASSUME NEW L, Launchers = {L}
  PROVE  Spec => []EndsWhenTold
<1>1. Turns /\ Turns'
  BY Zenon DEF Turns, Calling
<1>2. Init => broke \/ Phases
  BY EngineAssumption DEF Init, EngineInit, Phases, LastRun, Off, Live, Runs
<1>3. IInv /\ (broke \/ Phases) /\ [Next]_vars => (broke \/ Phases)'
  <2>1. broke /\ [Next]_vars => broke'
    BY Zenon DEF Next, vars, engineVars, clientVars, history, engine_step, boot_fail, boot_port, boot_ready, engine_wait,
           engine_dispatch, engine_drained, engine_free, engine_clear, engine_stopped, UserBreak,
           NetstackEngine_Start, NetstackEngine_Stop, launcher_step, start_publish, start_create, start_wait,
           stop_put, stop_reply, stop_wait, netstack_client_init, netstack_client_shutdown, shutdown_clear,
           call_engine, client_step, call_slot, call_put, call_return
  <2> QED
    BY Zenon, <1>1, <2>1, NextPhases
<1>4. broke \/ Phases => EndsWhenTold
  BY Zenon DEF EndsWhenTold, Phases, LastRun, Off, Booting, Serving, Ending, Live
<1> QED
  BY <1>2, <1>3, <1>4, SpecIInv, PTL DEF Spec

-----------------------------------------------------------------------------
(* The library. *)

(* Its types, and the count of openers. *)
LibTypes ==
    /\ ~ broke
    /\ lib \in {"in", "out"} /\ DELEXP \in BOOLEAN /\ g_engine_started \in BOOLEAN
    /\ opened \subseteq Clients /\ IsFiniteSet(opened) /\ lib_OpenCnt = Cardinality(opened)
    /\ bpc \in [Clients -> {"app", "start", "call", "expunge", "stop", "delete"}]

InCall(t) == cpc[t] # "idle" \/ bpc[t] \in {"start", "call"}

(* In a first call whose Start has not failed. *)
InStart(t) == bpc[t] = "start" /\ lpc[t] # "failed"

(* Which task may be where: callers have the library open, Start is called *)
(* from ensure_engine and Stop from Expunge.                               *)
Where ==
    \A t \in Clients :
       /\ InCall(t) => t \in opened
       /\ cpc[t] # "idle" => bpc[t] = "app"
       /\ lpc[t] \in {"publish", "create", "start"} => bpc[t] = "start"
       /\ lpc[t] \in {"put", "reply", "stop"} => bpc[t] = "delete"
       /\ Expunging(t) => t \notin opened

(* Who keeps out of whose way. *)
Alone ==
    /\ \A t, u \in Clients : Expunging(t) /\ Expunging(u) => t = u
    /\ \A t, u \in Clients : InStart(t) /\ InStart(u) => t = u
    /\ \A t, u \in Clients : ~ (InCall(t) /\ Expunging(u))
    /\ \A t \in Clients : Expunging(t) /\ opened # {} => Stranded(t) /\ Live = {} /\ ~ DELEXP
    /\ closing => \E t \in Clients : bpc[t] = "stop"
    /\ lib = "out" => opened = {} /\ g_engine_task = 0 /\ \A t \in Clients : ~ Expunging(t)

(* What g_engine_started and the cached port say of the engine. *)
Cached ==
    /\ g_engine_started => \A t \in Clients : ~ InStart(t)
    /\ g_engine_started /\ lib = "in" /\ (\A t \in Clients : ~ Expunging(t)) =>
          g_engine_port = gen /\ g_engine_task # 0
    /\ ~ g_engine_started =>
          /\ g_engine_port = 0
          /\ \A t \in Clients : cpc[t] = "idle" /\ bpc[t] # "call"
          /\ g_engine_task = 0 \/ \E t \in Clients : InStart(t)
    /\ g_engine_port # 0 =>
          /\ g_engine_port = gen /\ g_reply_sem_init /\ g_engine_task # 0
          /\ \A t \in Clients : bpc[t] # "delete" /\ (bpc[t] = "stop" => closing)

(* What the return of Start and Stop says of it, and where requests go. *)
Returns ==
    \A t \in Clients :
       /\ bpc[t] = "start" /\ lpc[t] = "ok" => g_engine_task # 0
       /\ bpc[t] = "delete" /\ ~ Calling(t) => g_engine_task = 0
       /\ lpc[t] = "reply" /\ t \notin replied =>
             epc[gen] \in {"loop", "drain"} /\ ~ g_engine_shutdown /\ ~ ctrl_c[gen]
       /\ cpc[t] # "idle" => engine[t] = gen /\ gen # 0

(* Reply ports. *)
ReplyPorts ==
    /\ \A i, j \in Slots : g_reply_slots[i] = g_reply_slots[j] /\ g_reply_slots[i] # None => i = j
    /\ \A c \in Clients : cpc[c] \in {"put", "wait"} => \E i \in Slots : g_reply_slots[i] = c

Lib ==
    /\ LibTypes /\ Where /\ Alone /\ Cached /\ Returns
    /\ ReplyPorts /\ lost = {}

LInv == IInv /\ Phases /\ Lib

(* What follows of the tasks and of the engine.  A Start that gets past    *)
(* its test runs alone, an Expunge too, and while a call is on the engine  *)
(* serves.                                                                 *)
LEMMA LibFacts ==
  ASSUME Launchers = Clients, LInv
  PROVE  /\ \A t \in Clients : Calling(t) => bpc[t] \in {"start", "delete"}
         /\ Turns
         /\ \A t \in Clients : InStart(t) =>
               /\ ~ g_engine_started /\ g_engine_port = 0
               /\ \A u \in Clients : cpc[u] = "idle" /\ bpc[u] # "call" /\ ~ Expunging(u) /\ (Calling(u) => u = t)
         /\ \A t \in Clients : Expunging(t) =>
               \A u \in Clients : ~ InCall(u) /\ (Calling(u) => u = t) /\ (Expunging(u) => u = t)
         /\ \A t \in Clients : cpc[t] # "idle" \/ bpc[t] = "call" =>
               /\ Serving /\ g_engine_port = gen /\ g_engine_started /\ lib = "in"
               /\ \A u \in Clients : ~ Calling(u) /\ ~ Expunging(u)
         /\ g_engine_task = 0 <=> Off
         /\ lib = "out" => Off /\ opened = {} /\ \A t \in Clients : Away(t)
<1> USE DEF LInv, Lib
<1>1. \A t \in Clients : Calling(t) => bpc[t] \in {"start", "delete"}
  BY Zenon DEF Where, Calling, IInv, TasksOK, LauncherPcs
<1>c. \A t \in Clients : Calling(t) => InStart(t) \/ bpc[t] = "delete"
  BY Zenon, <1>1 DEF InStart, Calling
<1>d. \A t \in Clients : (InStart(t) => InCall(t)) /\ (bpc[t] = "delete" => Expunging(t))
  BY Zenon DEF InStart, InCall, Expunging
<1>2. Turns
  BY Zenon, <1>c, <1>d DEF Turns, Alone
<1>3. \A t, u \in Clients : InStart(t) =>
         /\ ~ g_engine_started /\ g_engine_port = 0
         /\ cpc[u] = "idle" /\ bpc[u] # "call" /\ ~ Expunging(u) /\ (Calling(u) => u = t)
  BY Zenon, <1>1 DEF Cached, Alone, InCall, InStart, Expunging, Calling
<1>4. \A t, u \in Clients : Expunging(t) =>
         ~ InCall(u) /\ (Calling(u) => u = t) /\ (Expunging(u) => u = t)
  BY Zenon, <1>1 DEF Alone, InCall, Expunging
<1>5. g_engine_task = 0 <=> Off
  BY Zenon DEF Phases, Off, Booting, Serving, Ending
<1>6. ASSUME NEW t \in Clients, cpc[t] # "idle" \/ bpc[t] = "call"
      PROVE  /\ Serving /\ g_engine_port = gen /\ g_engine_started /\ lib = "in"
             /\ \A u \in Clients : ~ Calling(u) /\ ~ Expunging(u)
  <2>1. g_engine_started
    BY Zenon, <1>6 DEF Cached
  <2>2. t \in opened /\ InCall(t)
    BY Zenon, <1>6 DEF Where, InCall
  <2>3. lib = "in"
    BY Zenon, <2>2 DEF Alone, LibTypes
  <2>4. \A u \in Clients : ~ Expunging(u) /\ ~ InStart(u)
    BY Zenon, <2>1, <2>2, <1>4 DEF Cached
  <2>5. \A u \in Clients : ~ Calling(u)
    BY Zenon, <2>4, <1>1 DEF Expunging, InStart, Calling
  <2>6. g_engine_port = gen /\ g_engine_task # 0
    BY Zenon, <2>1, <2>3, <2>4 DEF Cached
  <2>7. ~ Booting /\ ~ Ending
    BY Zenon, <2>5 DEF Booting, Ending, Calling
  <2> QED
    BY Zenon, <2>1, <2>3, <2>4, <2>5, <2>6, <2>7, <1>5 DEF Phases
<1>7. ASSUME lib = "out"
      PROVE  Off /\ opened = {} /\ \A t \in Clients : Away(t)
  <2>1. opened = {} /\ g_engine_task = 0 /\ \A t \in Clients : ~ Expunging(t)
    BY Zenon, <1>7 DEF Alone
  <2>2. \A t \in Clients : ~ InCall(t)
    BY Zenon, <2>1 DEF Where
  <2>3. \A t \in Clients : bpc[t] = "app" /\ cpc[t] = "idle"
    BY Zenon, <2>1, <2>2 DEF InCall, Expunging, LibTypes
  <2>4. \A t \in Clients : ~ Calling(t)
    BY Zenon, <2>3, <1>1
  <2> QED
    BY Zenon, <1>5, <2>1, <2>3, <2>4 DEF Away, Free
<1> QED
  BY Zenon, <1>1, <1>2, <1>3, <1>4, <1>5, <1>6, <1>7

(* Loading the library: nobody is in it, and there is no engine. *)
LEMMA LoadLInv ==
  ASSUME Launchers = Clients, LInv, bsd_Init
  PROVE  LInv'
<1> USE DEF history, runVars, launchVars, msgVars
<1>1. Off /\ opened = {} /\ \A t \in Clients : bpc[t] = "app" /\ cpc[t] = "idle" /\ ~ Calling(t)
  BY Zenon, LibFacts DEF bsd_Init, Away, Free
<1>2. IInv /\ Phases /\ Lib
  BY Zenon DEF LInv
<1>3. IInv'
  <2>0. GlobalsOK /\ TasksOK /\ 0 \in 0 .. gen
    BY <1>2, EngineAssumption DEF IInv, GlobalsOK
  <2>1. GlobalsOK'
    BY Zenon, <2>0 DEF bsd_Init, GlobalsOK
  <2>2. RunsOK'
    BY Zenon, <1>2 DEF bsd_Init, IInv, RunsOK
  <2>3. TasksOK'
    BY Zenon, <2>0 DEF bsd_Init, TasksOK
  <2>4. Ports'
    <3>1. Live' = {} /\ \A t \in Launchers : lpc'[t] # "create"
      BY Zenon, <1>1 DEF bsd_Init, Off, Live, Calling
    <3> QED
      BY Zenon, <1>2, <3>1 DEF bsd_Init, IInv, Ports
  <2>5. OneCall'
    BY Zenon, <1>1 DEF bsd_Init, OneCall, Calling
  <2>6. SignalPending'
    BY SMTT(30), EngineAssumption DEF bsd_Init, SignalPending, Runs
  <2>7. Places'
    BY SMTT(30), <1>2 DEF bsd_Init, IInv, Places, Has, Waiting, IsShutdown, Tasks
  <2> QED
    BY Zenon, <2>1, <2>2, <2>3, <2>4, <2>5, <2>6, <2>7 DEF IInv
<1>4. Phases'
  <2>1. LastRun'
    BY Zenon, <1>2 DEF bsd_Init, Phases, LastRun
  <2>2. \A t \in Launchers : lpc'[t] \in {"ok", "failed"}
    BY Zenon, <1>1 DEF bsd_Init, Calling
  <2>3. Off'
    BY Zenon, <1>1, <2>2 DEF bsd_Init, Off, Live
  <2> QED
    BY Zenon, <2>1, <2>3 DEF Phases
<1>5. LibTypes'
  BY Zenon, <1>1, <1>2, FS_EmptySet DEF bsd_Init, Lib, LibTypes
<1>6. Where' /\ Alone'
  BY Zenon, <1>1, <1>2 DEF bsd_Init, Lib, Where, Alone, InCall, InStart, Expunging, Stranded, StopsForeign, Live
<1>7. Cached' /\ Returns'
  BY Zenon, <1>1 DEF bsd_Init, Cached, Returns, Expunging, Calling, InStart
<1>8. ReplyPorts' /\ lost' = {}
  BY Zenon, <1>1, <1>2 DEF bsd_Init, Lib, ReplyPorts
<1> QED
  BY Zenon, <1>3, <1>4, <1>5, <1>6, <1>7, <1>8 DEF LInv, Lib

(* What Open, Close and the test of Expunge do not change. *)
LEMMA SameReturns ==
  ASSUME Lib, UNCHANGED vars,
         \A t \in Clients : bpc'[t] # bpc[t] => bpc[t] = "app" /\ bpc'[t] = "expunge"
  PROVE  Returns' /\ ReplyPorts' /\ lost' = {}
<1> USE DEF vars, engineVars, clientVars, globals, history, runVars, launchVars, msgVars, replyVars
<1>1. Returns'
  BY Zenon DEF Lib, Returns, Calling
<1>2. ReplyPorts' /\ lost' = {}
  BY Zenon DEF Lib, ReplyPorts
<1> QED
  BY Zenon, <1>1, <1>2

LEMMA OpenLib ==
  ASSUME Launchers = Clients, LInv, NEW t \in Clients, mgr_Open(t), ~ overlap'
  PROVE  Lib'
<1> USE DEF vars, engineVars, clientVars, globals, history, runVars, launchVars, msgVars, replyVars
<1>1. IInv /\ Phases /\ Lib /\ LibTypes /\ Where /\ Alone /\ Cached
  BY Zenon DEF LInv, Lib
<1>2. LibTypes'
  <2>1. lib_OpenCnt' = Cardinality(opened') /\ IsFiniteSet(opened')
    BY Zenon, <1>1, FS_AddElement DEF mgr_Open, LibTypes
  <2> QED
    BY Zenon, <1>1, <2>1 DEF mgr_Open, LibTypes
<1>3. Where'
  BY Zenon, <1>1 DEF mgr_Open, Where, InCall, Expunging, Away
<1>4. Alone'
  <2>1. \A u \in Clients : Expunging(u) => Stranded(u) /\ Live = {}
    BY Zenon DEF mgr_Open, AtWork
  <2> QED
    BY Zenon, <1>1, <2>1 DEF mgr_Open, Alone, InCall, Expunging, Stranded, StopsForeign, Live, InStart
<1>5. Cached'
  BY Zenon, <1>1 DEF mgr_Open, Cached, Expunging, InStart
<1>6. UNCHANGED <<vars, bpc>>
  BY Zenon DEF mgr_Open
<1>7. Returns' /\ ReplyPorts' /\ lost' = {}
  BY Zenon, <1>1, <1>6, SameReturns
<1> QED
  BY Zenon, <1>2, <1>3, <1>4, <1>5, <1>7 DEF Lib

LEMMA CloseLib ==
  ASSUME Launchers = Clients, LInv, NEW t \in Clients, mgr_Close(t)
  PROVE  Lib'
<1> USE DEF vars, engineVars, clientVars, globals, history, runVars, launchVars, msgVars, replyVars
<1>1. IInv /\ Phases /\ Lib /\ LibTypes /\ Where /\ Alone /\ Cached
  BY Zenon DEF LInv, Lib
<1>2. t \in opened /\ ~ InCall(t) /\ bpc[t] = "app" /\ lib = "in"
  BY Zenon, <1>1 DEF mgr_Close, Away, Free, InCall, Alone, LibTypes, InStart
<1>3. lib_OpenCnt' = Cardinality(opened') /\ IsFiniteSet(opened')
  BY Zenon, <1>1, <1>2, FS_RemoveElement DEF mgr_Close, LibTypes
<1>4. LibTypes'
  BY Zenon, <1>1, <1>3 DEF mgr_Close, LibTypes
<1>5. \A u \in Clients : u # t => bpc'[u] = bpc[u]
  BY Zenon, <1>1 DEF mgr_Close, LibTypes
<1>6. CASE bpc'[t] = bpc[t]
  <2>1. bpc' = bpc
    BY Zenon, <1>1, <1>6 DEF mgr_Close, LibTypes
  <2>2. Where'
    BY Zenon, <1>1, <1>2, <2>1 DEF mgr_Close, Where, InCall, Expunging
  <2>3. Alone'
    BY SMTT(30), <1>1, <2>1 DEF mgr_Close, Alone, InCall, Expunging, Stranded, StopsForeign, Live, InStart
  <2>4. Cached'
    BY Zenon, <1>1, <2>1 DEF mgr_Close, Cached, Expunging, InStart
  <2>5. UNCHANGED <<vars, bpc>>
    BY Zenon, <2>1 DEF mgr_Close
  <2>6. Returns' /\ ReplyPorts' /\ lost' = {}
    BY Zenon, <1>1, <2>5, SameReturns
  <2> QED
    BY Zenon, <1>4, <2>2, <2>3, <2>4, <2>6 DEF Lib
<1>7. CASE bpc'[t] # bpc[t]
  <2>1. bpc'[t] = "expunge" /\ DELEXP /\ lib_OpenCnt' = 0
    BY Zenon, <1>1, <1>7 DEF mgr_Close, LibTypes, last_close
  <2>2. opened' = {}
    BY Zenon, <1>3, <2>1, FS_EmptySet
  <2>3. \A u \in Clients : ~ InCall(u)
    BY Zenon, <1>1, <1>2, <2>2 DEF mgr_Close, Where
  <2>4. \A u \in Clients : ~ Expunging(u)
    BY Zenon, <1>1, <1>2, <2>1 DEF Alone, InStart
  <2>5. Where'
    BY Zenon, <1>1, <1>2, <1>5, <2>1, <2>2, <2>3 DEF mgr_Close, Where, InCall, Expunging
  <2>6. Alone'
    <3>1. \A u \in Clients : Expunging(u)' => u = t
      BY Zenon, <1>5, <2>4 DEF Expunging
    <3>2. \A u \in Clients : ~ InCall(u)'
      BY Zenon, <1>5, <2>1, <2>3 DEF mgr_Close, InCall
    <3>3. \A u \in Clients : InStart(u)' => InStart(u)
      BY Zenon, <1>5, <2>1 DEF mgr_Close, InStart
    <3>4. lib' = "in" /\ ~ closing'
      <4>1. lib' = "in" /\ closing' = closing
        BY Zenon DEF mgr_Close
      <4>2. ~ closing
        BY Zenon, <1>1, <2>4 DEF Alone, Expunging
      <4> QED
        BY Zenon, <4>1, <4>2
    <3>5. \A u, v \in Clients : InStart(u)' /\ InStart(v)' => u = v
      BY Zenon, <1>1, <3>3 DEF Alone
    <3> QED
      BY Zenon, <2>2, <3>1, <3>2, <3>4, <3>5 DEF Alone
  <2>7. Cached'
    BY Zenon, <1>1, <1>2, <1>5, <2>1 DEF mgr_Close, Cached, Expunging, InStart
  <2>8. UNCHANGED vars
    BY Zenon DEF mgr_Close
  <2>9. \A u \in Clients : bpc'[u] # bpc[u] => bpc[u] = "app" /\ bpc'[u] = "expunge"
    BY Zenon, <1>2, <1>5, <2>1
  <2>10. Returns' /\ ReplyPorts' /\ lost' = {}
    BY Zenon, <1>1, <2>8, <2>9, SameReturns
  <2> QED
    BY Zenon, <1>4, <2>5, <2>6, <2>7, <2>10 DEF Lib
<1> QED
  BY Zenon, <1>6, <1>7

LEMMA ExpungeLib ==
  ASSUME Launchers = Clients, LInv, NEW t \in Clients, mgr_Expunge(t), ~ overlap'
  PROVE  Lib'
<1> USE DEF vars, engineVars, clientVars, globals, history, runVars, launchVars, msgVars, replyVars
<1>1. IInv /\ Phases /\ Lib /\ LibTypes /\ Where /\ Alone /\ Cached
  BY Zenon DEF LInv, Lib
<1>2. bpc[t] = "app" /\ lib = "in" /\ \A u \in Clients : ~ Expunging(u)
  BY Zenon, <1>1 DEF mgr_Expunge, Away
<1>3. LibTypes'
  BY Zenon, <1>1 DEF mgr_Expunge, LibTypes, in_use
<1>5. \A u \in Clients : u # t => bpc'[u] = bpc[u]
  BY Zenon, <1>1 DEF mgr_Expunge, LibTypes
<1>6. CASE in_use
  <2>1. bpc' = bpc
    BY Zenon, <1>1, <1>6 DEF mgr_Expunge, LibTypes
  <2>2. Where'
    BY Zenon, <1>1, <2>1 DEF mgr_Expunge, Where, InCall, Expunging
  <2>3. Alone'
    BY Zenon, <1>1, <1>2, <2>1 DEF mgr_Expunge, Alone, InCall, Expunging, InStart
  <2>4. Cached'
    BY Zenon, <1>1, <2>1 DEF mgr_Expunge, Cached, Expunging, InStart
  <2>5. UNCHANGED <<vars, bpc>>
    BY Zenon, <2>1 DEF mgr_Expunge
  <2>6. Returns' /\ ReplyPorts' /\ lost' = {}
    BY Zenon, <1>1, <2>5, SameReturns
  <2> QED
    BY Zenon, <1>3, <2>2, <2>3, <2>4, <2>6 DEF Lib
<1>7. CASE ~ in_use
  <2>1. bpc'[t] = "expunge"
    BY Zenon, <1>1, <1>7 DEF mgr_Expunge, LibTypes
  <2>2. opened = {}
    BY <1>1, <1>7, FS_EmptySet, FS_CardinalityType DEF in_use, LibTypes
  <2>3. \A u \in Clients : ~ InCall(u)
    BY Zenon, <1>1, <2>2 DEF Where
  <2>5. Where'
    BY Zenon, <1>1, <1>5, <2>1, <2>2, <2>3, <1>2 DEF mgr_Expunge, Where, InCall, Expunging
  <2>6. Alone'
    <3>1. \A u \in Clients : Expunging(u)' => u = t
      BY Zenon, <1>2, <1>5 DEF Expunging
    <3>2. \A u \in Clients : ~ InCall(u)'
      BY Zenon, <1>5, <2>1, <2>3 DEF mgr_Expunge, InCall
    <3>3. \A u \in Clients : InStart(u)' => InStart(u)
      BY Zenon, <1>5, <2>1 DEF mgr_Expunge, InStart
    <3>4. opened' = {} /\ lib' = "in" /\ ~ closing'
      <4>1. opened' = opened /\ lib' = lib /\ closing' = closing
        BY Zenon DEF mgr_Expunge
      <4>2. ~ closing
        BY Zenon, <1>1, <1>2 DEF Alone, Expunging
      <4> QED
        BY Zenon, <1>2, <2>2, <4>1, <4>2
    <3>5. \A u, v \in Clients : InStart(u)' /\ InStart(v)' => u = v
      BY Zenon, <1>1, <3>3 DEF Alone
    <3> QED
      BY Zenon, <3>1, <3>2, <3>4, <3>5 DEF Alone
  <2>7. Cached'
    BY Zenon, <1>1, <1>2, <1>5, <2>1 DEF mgr_Expunge, Cached, Expunging, InStart
  <2>8. UNCHANGED vars
    BY Zenon DEF mgr_Expunge
  <2>9. \A u \in Clients : bpc'[u] # bpc[u] => bpc[u] = "app" /\ bpc'[u] = "expunge"
    BY Zenon, <1>2, <1>5, <2>1
  <2>10. Returns' /\ ReplyPorts' /\ lost' = {}
    BY Zenon, <1>1, <2>8, <2>9, SameReturns
  <2> QED
    BY Zenon, <1>3, <2>5, <2>6, <2>7, <2>10 DEF Lib
<1> QED
  BY Zenon, <1>6, <1>7

(* The first steps of an expunge, when nobody has the library open. *)
LEMMA ExpungeClientLib ==
  ASSUME Launchers = Clients, LInv, NEW t \in Clients, expunge_client(t)
  PROVE  Lib'
<1> USE DEF engineVars, clientVars, globals, history, runVars, launchVars, msgVars, replyVars, countVars
<1>1. IInv /\ Phases /\ Lib /\ LibTypes /\ Where /\ Alone /\ Cached /\ Returns
  BY Zenon DEF LInv, Lib
<1>2. /\ bpc[t] = "expunge" /\ bpc'[t] = "stop" /\ \A u \in Clients : u # t => bpc'[u] = bpc[u]
      /\ Expunging(t)
  BY Zenon, <1>1 DEF expunge_client, Moves, LibTypes, Expunging
<1>3. opened = {} /\ lib = "in" /\ ~ closing
  BY Zenon, <1>1, <1>2 DEF Alone, Stranded, LibTypes, expunge_client, netstack_client_shutdown, InStart
<1>4. \A u \in Clients : cpc[u] = "idle" /\ (Expunging(u) => u = t) /\ bpc[u] \notin {"start", "call"}
  BY Zenon, <1>2, LibFacts DEF InCall
<1>5. /\ replied' = replied /\ lost' = {}
      /\ g_engine_port # 0 => closing'
      /\ UNCHANGED <<globals, gen, epc, port, ctrl_c, launchVars, g_engine_port, g_reply_sem_init, cpc, engine>>
  BY Zenon, <1>1, <1>4 DEF expunge_client, netstack_client_shutdown, Cached, Lib, InStart
<1>6. LibTypes'
  BY Zenon, <1>1 DEF expunge_client, Moves, netstack_client_shutdown, LibTypes
<1>7. Where'
  BY Zenon, <1>1, <1>2, <1>4, <1>5 DEF expunge_client, Where, InCall, Expunging
<1>8. Alone'
  BY Zenon, <1>1, <1>2, <1>3, <1>4, <1>5 DEF expunge_client, Alone, InCall, Expunging, InStart
<1>9. Cached'
  BY Zenon, <1>1, <1>2, <1>4, <1>5 DEF expunge_client, Cached, Expunging, InStart
<1>10. Returns'
  BY Zenon, <1>1, <1>2, <1>5 DEF Returns, Calling
<1>11. ReplyPorts'
  <2>1. g_reply_slots' = g_reply_slots \/ g_reply_slots' = [i \in Slots |-> None]
    BY Zenon DEF expunge_client, netstack_client_shutdown
  <2> QED
    BY <1>1, <1>4, <1>5, <2>1 DEF Lib, ReplyPorts
<1> QED
  BY Zenon, <1>5, <1>6, <1>7, <1>8, <1>9, <1>10, <1>11 DEF Lib

LEMMA ExpungeStopLib ==
  ASSUME Launchers = Clients, LInv, NEW t \in Clients, expunge_stop(t)
  PROVE  Lib'
<1> USE DEF engineVars, clientVars, globals, history, runVars, launchVars, msgVars, replyVars, countVars
<1>1. IInv /\ Phases /\ Lib /\ LibTypes /\ Where /\ Alone /\ Cached /\ Returns
  BY Zenon DEF LInv, Lib
<1>2. /\ bpc[t] = "stop" /\ bpc'[t] = "delete" /\ \A u \in Clients : u # t => bpc'[u] = bpc[u]
      /\ Expunging(t)
  BY Zenon, <1>1 DEF expunge_stop, Moves, LibTypes, Expunging
<1>3. opened = {} /\ lib = "in" /\ ~ closing /\ g_engine_port = 0
  BY Zenon, <1>1, <1>2 DEF Alone, Stranded, LibTypes, expunge_stop, Cached, InStart
<1>4. \A u \in Clients : /\ cpc[u] = "idle" /\ (Expunging(u) => u = t) /\ bpc[u] \notin {"start", "call"}
                         /\ ~ Calling(u)
  BY Zenon, <1>1, <1>2, LibFacts DEF InCall
<1>5. /\ \A u \in Clients : u # t => lpc'[u] = lpc[u]
      /\ lpc'[t] \in {"ok", "put", "stop"} /\ (lpc'[t] = "ok" <=> g_engine_task = 0)
      /\ UNCHANGED <<globals, gen, epc, port, replied, lost, clientVars, countVars, g_engine_started>>
  BY Zenon, <1>1 DEF expunge_stop, NetstackEngine_Stop, IInv, TasksOK
<1>6. LibTypes'
  BY Zenon, <1>1 DEF expunge_stop, Moves, NetstackEngine_Stop, LibTypes
<1>7. Where'
  BY Zenon, <1>1, <1>2, <1>4, <1>5 DEF Where, InCall, Expunging
<1>8. Alone'
  BY Zenon, <1>1, <1>2, <1>3, <1>4, <1>5 DEF Alone, InCall, Expunging, InStart
<1>9. Cached'
  BY Zenon, <1>1, <1>2, <1>3, <1>4, <1>5 DEF Cached, Expunging, InStart
<1>10. Returns'
  BY Zenon, <1>1, <1>2, <1>4, <1>5 DEF Returns, Calling
<1>11. ReplyPorts' /\ lost' = {}
  BY Zenon, <1>1, <1>5 DEF Lib, ReplyPorts
<1> QED
  BY Zenon, <1>6, <1>7, <1>8, <1>9, <1>10, <1>11 DEF Lib

(* The last one: Stop has returned, so there is no engine. *)
LEMMA ExpungeDeleteLib ==
  ASSUME Launchers = Clients, LInv, NEW t \in Clients, expunge_delete(t)
  PROVE  Lib'
<1> USE DEF vars, engineVars, clientVars, globals, history, runVars, launchVars, msgVars, replyVars
<1>1. IInv /\ Phases /\ Lib /\ LibTypes /\ Where /\ Alone /\ Cached /\ Returns
  BY Zenon DEF LInv, Lib
<1>2. /\ bpc[t] = "delete" /\ bpc'[t] = "app" /\ \A u \in Clients : u # t => bpc'[u] = bpc[u]
      /\ Expunging(t) /\ ~ Calling(t)
  BY Zenon, <1>1 DEF expunge_delete, Moves, LibTypes, Expunging
<1>3. opened = {} /\ g_engine_task = 0 /\ g_engine_port = 0
  BY Zenon, <1>1, <1>2 DEF Alone, Stranded, StopsForeign, Calling, Cached, Returns, InStart
<1>4. \A u \in Clients : /\ cpc[u] = "idle" /\ (Expunging(u) => u = t) /\ bpc[u] \notin {"start", "call"}
                         /\ ~ Calling(u)
  BY Zenon, <1>1, <1>2, LibFacts DEF InCall
<1>5. LibTypes'
  BY Zenon, <1>1 DEF expunge_delete, Moves, LibTypes
<1>6. Where'
  BY Zenon, <1>1, <1>2, <1>4 DEF expunge_delete, Where, InCall, Expunging, Calling
<1>7. Alone'
  BY Zenon, <1>1, <1>2, <1>3, <1>4 DEF expunge_delete, Alone, InCall, Expunging, InStart
<1>8. Cached'
  BY Zenon, <1>1, <1>2, <1>3, <1>4 DEF expunge_delete, Cached, Expunging, InStart
<1>9. Returns'
  BY Zenon, <1>1, <1>2, <1>4 DEF expunge_delete, Returns, Calling
<1>10. ReplyPorts' /\ lost' = {}
  BY Zenon, <1>1 DEF expunge_delete, Lib, ReplyPorts
<1> QED
  BY Zenon, <1>5, <1>6, <1>7, <1>8, <1>9, <1>10 DEF Lib

(* ensure_engine_port, when a port is cached or none is to be found. *)
LEMMA CallPort ==
  ASSUME LInv, NEW t \in Clients, call_engine(t), g_engine_port # 0 \/ Live = {}
  PROVE  /\ g_engine_port' = g_engine_port /\ engine'[t] = g_engine_port
         /\ cpc'[t] = IF g_engine_port = 0 THEN "idle" ELSE "slot"
         /\ \A u \in Clients : u # t => cpc'[u] = cpc[u] /\ engine'[u] = engine[u]
<1>1. ensure_engine_port = {g_engine_port}
  <2>1. CASE g_engine_port # 0
    BY Zenon, <2>1 DEF ensure_engine_port
  <2>2. CASE g_engine_port = 0
    <3>1. \A e \in Runs : port[e] # "open"
      BY Zenon, <2>2 DEF LInv, Phases, LastRun, Live
    <3>2. FindPort = {0}
      BY Zenon, <3>1 DEF FindPort
    <3> QED
      BY Zenon, <2>2, <3>2 DEF ensure_engine_port
  <2> QED
    BY Zenon, <2>1, <2>2
<1>2. cpc \in [Clients -> {"idle", "slot", "put", "wait"}] /\ engine \in [Clients -> 0 .. gen]
  BY Zenon DEF LInv, IInv, TasksOK
<1> QED
  BY Zenon, <1>1, <1>2 DEF call_engine

(* A call once the engine is started. *)
LEMMA CallLib ==
  ASSUME Launchers = Clients, LInv, NEW t \in Clients, call_engine(t), t \in opened, g_engine_started,
         g_engine_port # 0 \/ Live = {}, g_engine_port # 0 => \A u \in Clients : ~ Expunging(u),
         bpc[t] \in {"app", "call"}, bpc' = [bpc EXCEPT ![t] = "app"],
         UNCHANGED <<countVars, g_engine_started>>
  PROVE  Lib'
<1> USE DEF engineVars, globals, history, runVars, launchVars, msgVars, replyVars, countVars
<1>1. IInv /\ Phases /\ Lib /\ LibTypes /\ Where /\ Alone /\ Cached /\ Returns
  BY Zenon DEF LInv, Lib
<1>2. /\ g_engine_port' = g_engine_port /\ engine'[t] = g_engine_port
      /\ cpc'[t] = IF g_engine_port = 0 THEN "idle" ELSE "slot"
      /\ \A u \in Clients : u # t => cpc'[u] = cpc[u] /\ engine'[u] = engine[u]
  BY Zenon, CallPort
<1>3. UNCHANGED <<engineVars, replyVars, closing>> /\ cpc[t] = "idle"
  BY Zenon DEF call_engine, Free
<1>4. bpc'[t] = "app" /\ \A u \in Clients : u # t => bpc'[u] = bpc[u]
  BY Zenon, <1>1 DEF LibTypes
<1>5. g_engine_port # 0 => g_engine_port = gen
  BY Zenon, <1>1 DEF Cached, InStart
<1>6. LibTypes'
  BY Zenon, <1>1, <1>3 DEF LibTypes
<1>7. Where'
  BY Zenon, <1>1, <1>2, <1>3, <1>4 DEF Where, InCall, Expunging
<1>8. Alone'
  <2>1. \A u \in Clients : Expunging(u)' <=> Expunging(u)
    BY Zenon, <1>4 DEF Expunging
  <2>2. \A u, v \in Clients : ~ (InCall(u)' /\ Expunging(v))
    BY Zenon, <1>1, <1>2, <1>3, <1>4 DEF Alone, InCall, InStart
  <2>3. \A u \in Clients : Expunging(u) => (Stranded(u)' <=> Stranded(u))
    BY Zenon, <1>3, <1>4 DEF Stranded, StopsForeign, Expunging
  <2>4. \A u, v \in Clients : InStart(u)' /\ InStart(v)' => u = v
    BY Zenon, <1>1, <1>3, <1>4 DEF Alone, InStart
  <2>5. closing' => \E u \in Clients : bpc'[u] = "stop"
    BY Zenon, <1>1, <1>3, <1>4 DEF Alone, InStart
  <2> QED
    BY Zenon, <1>1, <1>3, <2>1, <2>2, <2>3, <2>4, <2>5 DEF Alone, Live, InStart
<1>9. Cached'
  BY Zenon, <1>1, <1>2, <1>3, <1>4 DEF Cached, Expunging, InStart
<1>10. Returns'
  BY Zenon, <1>1, <1>2, <1>3, <1>4, <1>5 DEF Returns, Calling
<1>11. ReplyPorts' /\ lost' = {}
  BY Zenon, <1>1, <1>2, <1>3 DEF Lib, ReplyPorts
<1> QED
  BY Zenon, <1>6, <1>7, <1>8, <1>9, <1>10, <1>11 DEF Lib

(* A bs_* call that finds the engine started. *)
LEMMA StartedCallLib ==
  ASSUME Launchers = Clients, LInv, NEW t \in Clients, Away(t), t \in opened, g_engine_started,
         call_engine(t), UNCHANGED <<bpc, countVars, g_engine_started>>
  PROVE  Lib'
<1>1. Phases /\ LibTypes /\ Alone /\ Cached
  BY Zenon DEF LInv, Lib
<1>2. bpc[t] = "app" /\ bpc' = [bpc EXCEPT ![t] = "app"]
  BY Zenon, <1>1 DEF Away, LibTypes
<1>3. lib = "in"
  BY Zenon, <1>1 DEF Alone, LibTypes, InStart
<1>4. CASE \A u \in Clients : ~ Expunging(u)
  <2>1. g_engine_port = gen /\ g_engine_task # 0
    BY Zenon, <1>1, <1>3, <1>4 DEF Cached, InStart
  <2>2. gen # 0
    BY Zenon, <1>1, <2>1 DEF Phases, Off, Booting, Serving, Ending
  <2> QED
    BY Zenon, <1>2, <1>4, <2>1, <2>2, CallLib
<1>5. CASE \E u \in Clients : Expunging(u)
  <2>1. Live = {} /\ \E u \in Clients : bpc[u] = "delete"
    BY Zenon, <1>1, <1>5 DEF Alone, Stranded, InStart
  <2>2. g_engine_port = 0
    BY Zenon, <1>1, <2>1 DEF Cached, InStart
  <2> QED
    BY Zenon, <1>2, <2>1, <2>2, CallLib
<1> QED
  BY Zenon, <1>4, <1>5

(* The call proper after ensure_engine has started it. *)
LEMMA RpcLib ==
  ASSUME Launchers = Clients, LInv, NEW t \in Clients, bs_rpc(t)
  PROVE  Lib'
<1>1. Phases /\ LibTypes /\ Where
  BY Zenon DEF LInv, Lib
<1>2. bpc[t] = "call" /\ call_engine(t) /\ bpc' = [bpc EXCEPT ![t] = "app"]
  BY Zenon DEF bs_rpc, Moves
<1>3. t \in opened
  BY Zenon, <1>1, <1>2 DEF Where, InCall
<1>4. Serving /\ g_engine_port = gen /\ g_engine_started /\ \A u \in Clients : ~ Expunging(u)
  BY Zenon, <1>2, LibFacts
<1>5. g_engine_port # 0
  BY Zenon, <1>4 DEF Serving
<1> QED
  BY Zenon, <1>2, <1>3, <1>4, <1>5, CallLib DEF bs_rpc

(* A bs_* call that finds it not started.  Start either fails, because     *)
(* another task's has got as far as its store, or is to create one, and no *)
(* other task is between the test and the store.                           *)
LEMMA FirstCallLib ==
  ASSUME Launchers = Clients, LInv, NEW t \in Clients, Away(t), t \in opened, ~ g_engine_started,
         g_engine_task = 0 => \A u \in Clients : ~ Calling(u), NetstackEngine_Start(t),
         bpc' = [bpc EXCEPT ![t] = "start"], UNCHANGED <<clientVars, countVars, g_engine_started>>
  PROVE  Lib'
<1> USE DEF engineVars, clientVars, globals, history, runVars, launchVars, msgVars, replyVars, countVars
<1>1. IInv /\ Phases /\ Lib /\ LibTypes /\ Where /\ Alone /\ Cached /\ Returns
  BY Zenon DEF LInv, Lib
<1>2. g_engine_task = 0 => Off /\ \A u \in Clients : ~ InStart(u)
  <2>1. g_engine_task = 0 => \A u \in Clients : bpc[u] = "start" => lpc[u] = "failed"
    BY Zenon, <1>1 DEF Returns, Calling
  <2> QED
    BY Zenon, <2>1, LibFacts DEF InStart
<1>3. /\ lpc'[t] = IF g_engine_task = 0 THEN "publish" ELSE "failed"
      /\ \A u \in Clients : u # t => lpc'[u] = lpc[u]
      /\ UNCHANGED <<globals, gen, history, runVars, msgVars>>
  BY Zenon, <1>1 DEF NetstackEngine_Start, IInv, TasksOK
<1>4. /\ bpc[t] = "app" /\ bpc'[t] = "start" /\ \A u \in Clients : u # t => bpc'[u] = bpc[u]
      /\ cpc[t] = "idle" /\ lib = "in"
  BY Zenon, <1>1 DEF LibTypes, Away, Free, Alone
<1>5. \A u \in Clients : ~ Expunging(u)
  <2>1. CASE g_engine_task = 0
    <3>1. \A u \in Clients : lpc[u] # "stop"
      BY Zenon, <1>2, <2>1 DEF Off
    <3> QED
      BY Zenon, <1>1, <3>1 DEF Alone, Stranded, StopsForeign
  <2>2. CASE g_engine_task # 0
    BY Zenon, <1>1, <2>2, LibFacts DEF Cached
  <2> QED
    BY Zenon, <2>1, <2>2
<1>i. /\ \A u \in Clients : u # t => (InStart(u)' <=> InStart(u))
      /\ InStart(t)' <=> g_engine_task = 0
      /\ ~ InStart(t)
  BY Zenon, <1>3, <1>4 DEF InStart
<1>6. LibTypes'
  BY Zenon, <1>1, <1>3 DEF LibTypes
<1>7. Where'
  BY Zenon, <1>1, <1>3, <1>4 DEF Where, InCall, Expunging
<1>8. Alone'
  <2>1. \A u, v \in Clients : InStart(u)' /\ InStart(v)' => u = v
    BY Zenon, <1>1, <1>2, <1>i DEF Alone
  <2>2. \A u \in Clients : ~ Expunging(u)'
    BY Zenon, <1>4, <1>5 DEF Expunging
  <2> QED
    BY Zenon, <1>1, <1>4, <2>1, <2>2 DEF Alone
<1>9. Cached'
  BY Zenon, <1>1, <1>3, <1>4, <1>i DEF Cached
<1>10. Returns'
  BY Zenon, <1>1, <1>3, <1>4 DEF Returns, Calling
<1>11. ReplyPorts' /\ lost' = {}
  BY Zenon, <1>1, <1>3 DEF Lib, ReplyPorts
<1> QED
  BY Zenon, <1>6, <1>7, <1>8, <1>9, <1>10, <1>11 DEF Lib

(* When Start has returned, netstack_client_init finds the port. *)
LEMMA EnsureLib ==
  ASSUME Launchers = Clients, LInv, NEW t \in Clients, ensure_engine(t)
  PROVE  Lib'
<1> USE DEF engineVars, globals, history, runVars, launchVars, msgVars, replyVars, countVars
<1>1. IInv /\ Phases /\ Lib /\ LibTypes /\ Where /\ Alone /\ Cached /\ Returns
  BY Zenon DEF LInv, Lib
<1>2. bpc[t] = "start" /\ lpc[t] \in {"ok", "failed"}
  BY Zenon DEF ensure_engine, Moves, Calling
<1>3. t \in opened /\ \A u \in Clients : ~ Expunging(u)
  BY Zenon, <1>1, <1>2 DEF Where, InCall, Alone
<1>4. ASSUME NEW b \in {"call", "app"}, bpc' = [bpc EXCEPT ![t] = b]
      PROVE  bpc'[t] = b /\ \A u \in Clients : u # t => bpc'[u] = bpc[u]
  BY Zenon, <1>1, <1>4 DEF LibTypes
<1>5. CASE lpc[t] = "failed"
  <2>1. ~ started(t)
    BY Zenon, <1>5 DEF started
  <2>2. /\ UNCHANGED vars /\ UNCHANGED countVars /\ g_engine_started' = g_engine_started
        /\ bpc' = [bpc EXCEPT ![t] = "app"]
    BY Zenon, <1>1, <1>5, <2>1 DEF ensure_engine, Moves, LibTypes
  <2>3. bpc'[t] = "app" /\ \A u \in Clients : u # t => bpc'[u] = bpc[u]
    BY Zenon, <1>4, <2>2
  <2>4. LibTypes' /\ Where'
    <3>1. LibTypes'
      BY Zenon, <1>1, <2>2 DEF LibTypes, vars
    <3>2. Where'
      BY Zenon, <1>1, <1>2, <1>3, <2>2, <2>3 DEF Where, InCall, Expunging, vars, clientVars
    <3> QED
      BY Zenon, <3>1, <3>2
  <2>i. \A u \in Clients : (InStart(u)' <=> InStart(u)) /\ ~ Expunging(u)' /\ bpc'[u] \notin {"delete", "stop"}
    BY Zenon, <1>2, <1>3, <1>5, <2>2, <2>3 DEF InStart, Expunging, vars
  <2>5. Alone'
    BY Zenon, <1>1, <1>2, <2>2, <2>3, <2>i DEF Alone, InCall, Expunging, vars, clientVars
  <2>6. Cached'
    BY Zenon, <1>1, <1>3, <2>2, <2>3, <2>i DEF Cached, vars, clientVars
  <2>7. Returns'
    BY Zenon, <1>1, <2>2, <2>3 DEF Returns, Calling, vars, clientVars
  <2>8. ReplyPorts' /\ lost' = {}
    BY Zenon, <1>1, <2>2 DEF Lib, ReplyPorts, vars, clientVars
  <2> QED
    BY Zenon, <2>4, <2>5, <2>6, <2>7, <2>8 DEF Lib
<1>6. CASE lpc[t] = "ok"
  <2>0. /\ ~ g_engine_started /\ g_engine_port = 0
        /\ \A u \in Clients : cpc[u] = "idle" /\ bpc[u] # "call" /\ (Calling(u) => u = t)
        /\ \A u \in Clients : InStart(u) => u = t
    <3>1. InStart(t)
      BY Zenon, <1>2, <1>6 DEF InStart
    <3> QED
      BY Zenon, <1>1, <3>1, LibFacts DEF Alone
  <2>1. g_engine_task # 0 /\ \A u \in Clients : ~ Calling(u)
    BY Zenon, <1>1, <1>2, <1>6, <2>0 DEF Returns, Calling
  <2>2. Serving
    <3>1. ~ Off /\ ~ Booting /\ ~ Ending
      BY Zenon, <2>1 DEF Off, Booting, Ending, Calling
    <3> QED
      BY Zenon, <1>1, <3>1 DEF Phases
  <2>3. gen \in Runs /\ port[gen] = "open" /\ gen # 0 /\ \A e \in Runs : port[e] = "open" => e = gen
    BY <1>1, <2>2, EngineAssumption DEF Serving, Phases, LastRun, IInv, GlobalsOK, Runs
  <2>4. {e \in Runs : port[e] = "open"} = {gen}
    BY Zenon, <2>3
  <2>5. ensure_engine_port = {gen}
    BY Zenon, <2>0, <2>4 DEF ensure_engine_port, FindPort
  <2>6. g_engine_port' = gen /\ g_reply_sem_init' = TRUE /\ UNCHANGED <<engineVars, g_reply_slots, closing, cpc, engine>>
    BY Zenon, <1>6, <2>5 DEF ensure_engine, netstack_client_init
  <2>7. started(t)
    BY Zenon, <1>6, <2>3, <2>6 DEF started
  <2>8. g_engine_started' = TRUE /\ UNCHANGED countVars /\ bpc' = [bpc EXCEPT ![t] = "call"]
    BY Zenon, <2>7 DEF ensure_engine, Moves
  <2>9. bpc'[t] = "call" /\ \A u \in Clients : u # t => bpc'[u] = bpc[u]
    BY Zenon, <1>4, <2>8
  <2>10. LibTypes'
    BY Zenon, <1>1, <2>6, <2>8 DEF LibTypes
  <2>11. Where'
    BY Zenon, <1>1, <1>2, <1>3, <1>6, <2>0, <2>6, <2>8, <2>9 DEF Where, InCall, Expunging
  <2>12. Alone'
    BY Zenon, <1>1, <1>3, <2>0, <2>6, <2>8, <2>9 DEF Alone, InCall, Expunging, InStart
  <2>13. Cached'
    <3>1. \A u \in Clients : ~ InStart(u)'
      BY Zenon, <2>0, <2>6, <2>9 DEF InStart
    <3>2. \A u \in Clients : bpc'[u] \notin {"delete", "stop"}
      BY Zenon, <1>3, <2>9 DEF Expunging
    <3> QED
      BY Zenon, <1>1, <2>0, <2>1, <2>6, <2>8, <2>9, <3>1, <3>2 DEF Cached
  <2>14. Returns'
    BY Zenon, <1>1, <2>0, <2>6, <2>9 DEF Returns, Calling
  <2>15. ReplyPorts' /\ lost' = {}
    BY Zenon, <1>1, <2>6 DEF Lib, ReplyPorts
  <2> QED
    BY Zenon, <2>10, <2>11, <2>12, <2>13, <2>14, <2>15 DEF Lib
<1> QED
  BY Zenon, <1>2, <1>5, <1>6

(* The first free slot is a free slot. *)
LEMMA FirstIsOne ==
  ASSUME NEW S \in SUBSET Slots, S # {}
  PROVE  FirstOf(S) \in S
<1>1. S \subseteq Nat
  BY SocketIpcAssumption DEF Slots
<1>2. PICK x \in S : \A y \in S : ~ (<<y, x>> \in OpToRel(<, Nat))
  BY Zenon, <1>1, WFMin, NatLessThanWellFounded
<1>3. ASSUME NEW y \in S
      PROVE  x <= y
  <2>1. <<y, x>> \in Nat \X Nat
    BY Zenon, <1>1
  <2>2. y < x => <<y, x>> \in OpToRel(<, Nat)
    BY Zenon, <2>1 DEF OpToRel
  <2>3. ~ (y < x) /\ x \in Nat /\ y \in Nat
    BY Zenon, <1>1, <1>2, <2>2
  <2> QED
    BY <2>3
<1> QED
  BY Zenon, <1>3 DEF FirstOf

(* The steps of netstack_ipc_call: the engine serves the port that the     *)
(* call was given.                                                         *)
LEMMA ClientLib ==
  ASSUME Launchers = Clients, LInv, NEW t \in Clients, client_step(t), UNCHANGED rest
  PROVE  Lib'
<1> USE DEF engineVars, globals, history, runVars, launchVars, msgVars, replyVars, countVars, rest
<1>1. IInv /\ Phases /\ Lib /\ LibTypes /\ Where /\ Alone /\ Cached /\ Returns /\ ReplyPorts
  BY Zenon DEF LInv, Lib
<1>2. cpc[t] # "idle"
  BY Zenon DEF client_step, call_slot, call_put, call_return
<1>3. /\ Serving /\ g_engine_port = gen /\ g_engine_started /\ lib = "in"
      /\ \A u \in Clients : ~ Calling(u) /\ ~ Expunging(u)
  BY Zenon, <1>2, LibFacts
<1>4. engine[t] = gen /\ gen # 0 /\ port[gen] = "open"
  BY Zenon, <1>1, <1>2, <1>3 DEF Returns, Serving
<1>5. cpc \in [Clients -> {"idle", "slot", "put", "wait"}]
  BY Zenon, <1>1 DEF IInv, TasksOK
<1>6. /\ UNCHANGED <<globals, gen, history, epc, port, ctrl_c, launchVars, g_engine_port, closing, engine>>
      /\ lost' = {}
      /\ \A u \in Clients : u # t => cpc'[u] = cpc[u]
      /\ g_reply_sem_init => g_reply_sem_init'
  <2>1. CASE call_slot(t)
    BY Zenon, <1>1, <1>5, <2>1 DEF call_slot, Lib
  <2>2. CASE call_put(t)
    BY Zenon, <1>1, <1>4, <1>5, <2>2 DEF call_put, PutMsg, Lib
  <2>3. CASE call_return(t)
    BY Zenon, <1>1, <1>5, <2>3 DEF call_return, Lib
  <2> QED
    BY Zenon, <2>1, <2>2, <2>3 DEF client_step
<1>7. LibTypes'
  BY Zenon, <1>1, <1>6 DEF LibTypes
<1>8. Where'
  BY Zenon, <1>1, <1>2, <1>6 DEF Where, InCall, Expunging
<1>9. Alone'
  BY Zenon, <1>1, <1>3, <1>6 DEF Alone, InCall, Expunging, InStart
<1>10. Cached'
  BY Zenon, <1>1, <1>3, <1>6 DEF Cached, Expunging, InStart
<1>11. Returns'
  BY Zenon, <1>1, <1>2, <1>3, <1>4, <1>6 DEF Returns, Calling
<1>12. ReplyPorts'
  <2>1. CASE g_reply_slots' = g_reply_slots /\ (Owned(t) # {} \/ cpc'[t] = "idle")
    <3>1. Owned(t) # {} => \E i \in Slots : g_reply_slots[i] = t
      BY Zenon DEF Owned
    <3> QED
      BY Zenon, <1>1, <1>6, <2>1, <3>1 DEF ReplyPorts
  <2>2. CASE /\ Owned(t) = {} /\ FreeSlots # {}
             /\ g_reply_slots' = [g_reply_slots EXCEPT ![FirstOf(FreeSlots)] = t]
    <3>1. Owned(t) = {} /\ FreeSlots # {} /\ g_reply_slots' = [g_reply_slots EXCEPT ![FirstOf(FreeSlots)] = t]
      BY Zenon, <2>2
    <3> DEFINE f == FirstOf(FreeSlots)
    <3>2. f \in Slots /\ g_reply_slots[f] = None
      BY Zenon, <3>1, FirstIsOne DEF FreeSlots, Owned
    <3> HIDE DEF f
    <3>3. g_reply_slots'[f] = t /\ \A i \in Slots : i # f => g_reply_slots'[i] = g_reply_slots[i]
      BY Zenon, <1>1, <3>1, <3>2 DEF f, IInv, TasksOK
    <3>4. \A i \in Slots : g_reply_slots[i] # t
      BY Zenon, <3>1 DEF Owned
    <3>5. None \notin Clients
      BY Zenon, EngineAssumption DEF Tasks
    <3> QED
      BY SMTT(30), <1>1, <1>6, <3>2, <3>3, <3>4, <3>5 DEF ReplyPorts
  <2>3. CASE call_put(t) \/ call_return(t)
    <3>1. g_reply_slots' = g_reply_slots /\ (cpc'[t] \in {"put", "wait"} => cpc[t] = "put")
      BY Zenon, <1>5, <2>3 DEF call_put, call_return
    <3> QED
      BY Zenon, <1>1, <1>6, <3>1 DEF ReplyPorts
  <2>4. CASE call_slot(t)
    BY Zenon, <1>5, <2>1, <2>2, <2>4 DEF call_slot
  <2> QED
    BY Zenon, <2>3, <2>4 DEF client_step
<1> QED
  BY Zenon, <1>6, <1>7, <1>8, <1>9, <1>10, <1>11, <1>12 DEF Lib

(* The steps of a Start. *)
LEMMA StartLib ==
  ASSUME Launchers = Clients, LInv, NEW t \in Clients,
         start_publish(t) \/ start_create(t) \/ start_wait(t), UNCHANGED <<clientVars, rest>>
  PROVE  Lib'
<1> USE DEF engineVars, clientVars, globals, history, runVars, launchVars, msgVars, replyVars, countVars, rest, Goes
<1>1. IInv /\ Phases /\ Lib /\ LibTypes /\ Where /\ Alone /\ Cached /\ Returns /\ ReplyPorts
  BY Zenon DEF LInv, Lib
<1>2. lpc[t] \in {"publish", "create", "start"} /\ bpc[t] = "start"
  BY Zenon, <1>1 DEF start_publish, start_create, start_wait, Where
<1>3. /\ ~ g_engine_started /\ g_engine_port = 0
      /\ \A u \in Clients : cpc[u] = "idle" /\ bpc[u] # "call" /\ ~ Expunging(u) /\ (Calling(u) => u = t)
      /\ \A u \in Clients : InStart(u) => u = t
  <2>1. InStart(t)
    BY Zenon, <1>2 DEF InStart
  <2> QED
    BY Zenon, <1>1, <2>1, LibFacts DEF Alone
<1>4. lib = "in"
  BY Zenon, <1>1, <1>2 DEF Alone, Where, InCall, LibTypes, InStart
<1>5. /\ \A u \in Clients : u # t => lpc'[u] = lpc[u]
      /\ lpc'[t] \in {"create", "start", "ok", "failed"}
      /\ lost' = {} /\ broke' = broke
  BY Zenon, <1>1 DEF start_publish, start_create, start_wait, IInv, TasksOK, Lib
<1>6. /\ lpc'[t] = "failed" => g_engine_task' = 0
      /\ lpc'[t] = "ok" => g_engine_task' # 0
  <2>1. CASE start_publish(t)
    <3>1. Off
      <4>1. ~ Booting
        BY Zenon, <1>1, <1>3, <2>1 DEF start_publish, Booting, Calling
      <4>2. ~ Serving
        BY Zenon, <2>1 DEF start_publish, Serving
      <4>3. ~ Ending
        BY Zenon, <2>1 DEF start_publish, Ending
      <4> QED
        BY Zenon, <1>1, <4>1, <4>2, <4>3 DEF Phases
    <3> QED
      BY Zenon, <1>1, <2>1, <3>1 DEF start_publish, Off, IInv, TasksOK
  <2>2. CASE start_create(t)
    BY Zenon, <1>1, <2>2 DEF start_create, IInv, TasksOK
  <2>3. CASE start_wait(t)
    <3>1. Booting
      BY Zenon, <1>1, <2>3 DEF start_wait, Phases, Off, Serving, Ending
    <3> QED
      BY Zenon, <1>1, <2>3, <3>1 DEF start_wait, Booting, IInv, TasksOK
  <2> QED
    BY Zenon, <2>1, <2>2, <2>3
<1>7. LibTypes'
  BY Zenon, <1>1, <1>5 DEF LibTypes
<1>8. Where'
  BY Zenon, <1>1, <1>2, <1>5 DEF Where, InCall, Expunging
<1>i. /\ \A u \in Clients : InStart(u)' => u = t
      /\ InStart(t)' \/ g_engine_task' = 0
  BY Zenon, <1>2, <1>3, <1>5, <1>6 DEF InStart
<1>9. Alone'
  BY Zenon, <1>1, <1>3, <1>4, <1>i DEF Alone, InCall, Expunging
<1>10. Cached'
  BY Zenon, <1>1, <1>2, <1>3, <1>i DEF Cached
<1>11. Returns'
  <2>1. \A u \in Clients : bpc[u] = "start" /\ lpc'[u] = "ok" => u = t
    BY Zenon, <1>i DEF InStart
  <2>2. \A u \in Clients : u # t => lpc[u] # "reply" /\ lpc'[u] # "reply"
    BY Zenon, <1>3, <1>5 DEF Calling
  <2> QED
    BY Zenon, <1>1, <1>2, <1>3, <1>5, <1>6, <2>1, <2>2 DEF Returns, Calling, Expunging
<1>12. ReplyPorts'
  BY Zenon, <1>1 DEF ReplyPorts
<1> QED
  BY Zenon, <1>5, <1>7, <1>8, <1>9, <1>10, <1>11, <1>12 DEF Lib

(* The steps of a Stop. *)
LEMMA StopLib ==
  ASSUME Launchers = Clients, LInv, NEW t \in Clients,
         stop_put(t) \/ stop_reply(t) \/ stop_wait(t), UNCHANGED <<clientVars, rest>>
  PROVE  Lib'
<1> USE DEF engineVars, clientVars, globals, history, runVars, launchVars, msgVars, replyVars, countVars, rest, Goes
<1>1. IInv /\ Phases /\ Lib /\ LibTypes /\ Where /\ Alone /\ Cached /\ Returns /\ ReplyPorts
  BY Zenon DEF LInv, Lib
<1>2. lpc[t] \in {"put", "reply", "stop"} /\ bpc[t] = "delete" /\ Expunging(t)
  BY Zenon, <1>1 DEF stop_put, stop_reply, stop_wait, Where, Expunging
<1>3. \A u \in Clients : ~ InCall(u) /\ (Calling(u) => u = t) /\ (Expunging(u) => u = t)
  BY Zenon, <1>2, LibFacts
<1>4. g_engine_port = 0
  BY Zenon, <1>1, <1>2 DEF Cached, InStart
<1>5. lib = "in" /\ ~ closing
  BY Zenon, <1>1, <1>2, <1>3 DEF Alone, LibTypes, Expunging, InStart
<1>p. lpc[t] = "put" => Serving
  <2>1. ASSUME lpc[t] = "put"
        PROVE  ~ Off /\ ~ Booting /\ ~ Ending
    BY Zenon, <1>1, <1>3, <2>1 DEF Off, Booting, Ending, Calling
  <2> QED
    BY Zenon, <1>1, <2>1 DEF Phases
<1>6. /\ \A u \in Clients : u # t => lpc'[u] = lpc[u]
      /\ lpc'[t] \in {"reply", "stop", "ok"}
      /\ lpc'[t] = "reply" => lpc[t] = "put"
      /\ lpc'[t] = "ok" => g_engine_task' = 0
      /\ lpc'[t] # "ok" => g_engine_task' = g_engine_task
      /\ UNCHANGED <<gen, epc, broke, g_engine_shutdown, ctrl_c, g_launcher_task>>
  BY Zenon, <1>1 DEF stop_put, stop_reply, stop_wait, IInv, TasksOK
<1>7. lost' = {}
  <2>1. CASE stop_put(t)
    <3>1. Serving
      BY Zenon, <1>p, <2>1 DEF stop_put
    <3> QED
      BY Zenon, <1>1, <2>1, <3>1 DEF stop_put, PutMsg, Serving, Lib
  <2>2. CASE stop_reply(t) \/ stop_wait(t)
    BY Zenon, <1>1, <2>2 DEF stop_reply, stop_wait, Lib
  <2> QED
    BY Zenon, <2>1, <2>2
<1>8. LibTypes'
  BY Zenon, <1>1, <1>6 DEF LibTypes
<1>9. Where'
  BY Zenon, <1>1, <1>2, <1>6 DEF Where, InCall, Expunging
<1>10. Alone'
  <2>1. opened # {} => Stranded(t)' /\ Live' = {} /\ ~ DELEXP'
    <3>1. ASSUME opened # {}
          PROVE  lpc[t] = "stop" /\ g_launcher_task # t /\ Live = {} /\ ~ DELEXP
      BY Zenon, <1>1, <1>2, <3>1 DEF Alone, Stranded, StopsForeign, InStart
    <3>2. opened # {} => lpc'[t] # "ok"
      <4>1. SUFFICES ASSUME opened # {}, stop_wait(t) PROVE FALSE
        BY Zenon, <1>1, <3>1 DEF stop_put, stop_reply, stop_wait, IInv, TasksOK
      <4>2. Ending
        BY Zenon, <1>1, <3>1, <4>1 DEF Phases, Off, Booting, Serving, stop_wait, stopped_seen
      <4> QED
        BY Zenon, <3>1, <4>1, <4>2 DEF Ending, stop_wait, stopped_seen
    <3>3. opened # {} => lpc'[t] = "stop"
      BY Zenon, <1>6, <3>1, <3>2
    <3> QED
      BY Zenon, <1>2, <1>6, <3>1, <3>3 DEF Stranded, StopsForeign, Live
  <2> QED
    BY Zenon, <1>1, <1>3, <1>5, <1>6, <2>1 DEF Alone, InCall, Expunging, InStart
<1>11. Cached'
  BY Zenon, <1>1, <1>2, <1>4, <1>6 DEF Cached, Expunging, InStart
<1>12. Returns'
  <2>1. \A u \in Clients : cpc[u] = "idle" /\ bpc[u] # "start" /\ (bpc[u] = "delete" => u = t)
    BY Zenon, <1>3 DEF InCall, Expunging
  <2>2. \A u \in Clients : u # t => lpc'[u] \in {"ok", "failed"}
    BY Zenon, <1>3, <1>6 DEF Calling
  <2>3. lpc'[t] = "reply" => epc[gen] \in {"loop", "drain"} /\ ~ g_engine_shutdown /\ ~ ctrl_c[gen]
    BY Zenon, <1>6, <1>p DEF Serving
  <2> QED
    BY Zenon, <1>1, <1>6, <2>1, <2>2, <2>3 DEF Returns, Calling
<1>13. ReplyPorts'
  BY Zenon, <1>1 DEF ReplyPorts
<1> QED
  BY Zenon, <1>7, <1>8, <1>9, <1>10, <1>11, <1>12, <1>13 DEF Lib

(* The end of client_shutdown. *)
LEMMA ClearLib ==
  ASSUME Launchers = Clients, LInv, shutdown_clear, UNCHANGED rest
  PROVE  Lib'
<1> USE DEF engineVars, globals, history, runVars, launchVars, msgVars, replyVars, countVars, rest
<1>1. IInv /\ Phases /\ Lib /\ LibTypes /\ Where /\ Alone /\ Cached /\ Returns /\ ReplyPorts
  BY Zenon DEF LInv, Lib
<1>2. PICK t \in Clients : bpc[t] = "stop"
  BY Zenon, <1>1 DEF shutdown_clear, Alone, InStart
<1>3. LibTypes' /\ Where'
  BY Zenon, <1>1 DEF shutdown_clear, LibTypes, Where, InCall, Expunging
<1>4. Alone'
  BY Zenon, <1>1 DEF shutdown_clear, Alone, InCall, Expunging, Stranded, StopsForeign, Live, InStart
<1>5. Cached'
  BY Zenon, <1>1, <1>2 DEF shutdown_clear, Cached, Expunging, InStart
<1>6. Returns'
  BY Zenon, <1>1 DEF shutdown_clear, Returns, Calling
<1>7. ReplyPorts' /\ lost' = {}
  BY Zenon, <1>1 DEF shutdown_clear, Lib, ReplyPorts
<1> QED
  BY Zenon, <1>3, <1>4, <1>5, <1>6, <1>7 DEF Lib

(* When the run frees its port, there is nothing on it: the request of the *)
(* Stop has been answered, and nobody else is in a call.                   *)
LEMMA NothingLeft ==
  ASSUME Launchers = Clients, LInv, gen \in Runs, epc[gen] = "free", Ending
  PROVE  Elements(queue[gen]) = {}
<1>1. SUFFICES ASSUME NEW i \in DOMAIN queue[gen] PROVE FALSE
  BY Zenon DEF Elements
<1> DEFINE u == queue[gen][i]
<1>2. queue[gen] \in Seq(Tasks) /\ Places /\ Returns /\ lost = {}
  BY Zenon DEF LInv, Lib, IInv, RunsOK
<1>3. u \in Tasks /\ Has(u)
  BY SMTT(30), <1>1, <1>2 DEF Has
<1> HIDE DEF u
<1>4. Waiting(u) /\ u \notin replied
  BY Zenon, <1>2, <1>3 DEF Places
<1>5. PICK t \in Clients : Calling(t) /\ lpc[t] \in {"reply", "stop"}
  BY Zenon DEF Ending, Calling
<1>6. Expunging(t)
  BY Zenon, <1>5 DEF LInv, Lib, Where, Expunging
<1>7. \A v \in Clients : cpc[v] = "idle"
  BY Zenon, <1>6, LibFacts DEF InCall
<1>8. u \in Clients /\ lpc[u] = "reply"
  BY Zenon, <1>4, <1>7 DEF Waiting, IsShutdown
<1> QED
  BY Zenon, <1>2, <1>4, <1>8 DEF Returns

(* The steps of the engine. *)
LEMMA EngineLib ==
  ASSUME Launchers = Clients, LInv, NEW e \in Runs, engine_step(e), UNCHANGED <<clientVars, rest>>
  PROVE  Lib'
<1> USE DEF clientVars, globals, history, runVars, launchVars, msgVars, replyVars, countVars, rest
<1>1. IInv /\ Phases /\ Lib /\ LibTypes /\ Where /\ Alone /\ Cached /\ Returns /\ ReplyPorts /\ Turns
  BY Zenon, LibFacts DEF LInv, Lib
<1>2. epc[e] \notin {"none", "dead"}
  BY Zenon DEF engine_step, boot_fail, boot_port, boot_ready, engine_wait, engine_dispatch, engine_drained, engine_free,
         engine_clear, engine_stopped
<1>3. e = gen /\ gen \in Runs /\ LastRun /\ (Booting \/ Serving \/ Ending) /\ Live # {}
  BY Zenon, <1>1, <1>2, Alive DEF Live
<1>4. UNCHANGED <<g_engine_task, g_launcher_task, gen, broke, lpc>>
  BY Zenon DEF engine_step, boot_fail, boot_port, boot_ready, engine_wait, engine_dispatch, engine_drained, engine_free,
         engine_clear, engine_stopped
<1>t. epc \in [Runs -> EnginePcs] /\ ctrl_c \in [Runs -> BOOLEAN]
  BY Zenon, <1>1 DEF IInv, RunsOK
<1>5. lost' = {}
  <2>1. CASE engine_free(e)
    <3>1. Ending /\ epc[gen] = "free"
      BY Zenon, <1>3, <2>1 DEF engine_free, Booting, Serving
    <3>2. g_request_port = gen /\ Elements(queue[gen]) = {}
      BY Zenon, <1>3, <3>1, NothingLeft DEF Ending
    <3> QED
      BY Zenon, <1>1, <2>1, <3>2 DEF engine_free, Lib
  <2>2. CASE ~ engine_free(e)
    BY Zenon, <1>1, <2>2 DEF engine_step, boot_fail, boot_port, boot_ready, engine_wait, engine_dispatch, engine_drained,
                      engine_clear, engine_stopped, Lib
  <2> QED
    BY Zenon, <2>1, <2>2
<1>6. ASSUME NEW t \in Clients, lpc[t] = "reply", t \notin replied'
      PROVE  epc'[gen] \in {"loop", "drain"} /\ ~ g_engine_shutdown' /\ ~ ctrl_c'[gen]
  <2>1. replied \subseteq replied'
    BY Zenon DEF engine_step, boot_fail, boot_port, boot_ready, engine_wait, engine_dispatch, engine_drained, engine_free,
           engine_clear, engine_stopped
  <2>2. epc[gen] \in {"loop", "drain"} /\ ~ g_engine_shutdown /\ ~ ctrl_c[gen]
    BY Zenon, <1>1, <1>6, <2>1 DEF Returns
  <2>3. CASE engine_wait(e)
    BY Zenon, <1>3, <1>t, <2>2, <2>3 DEF engine_wait
  <2>4. CASE engine_dispatch(e)
    <3> DEFINE h == Head(queue[g_request_port])
    <3>1. h \in replied'
      BY Zenon, <1>1, <2>4 DEF engine_dispatch, Lib
    <3>2. ~ IsShutdown(h)
      <4>1. h # t
        BY Zenon, <1>6, <3>1
      <4> HIDE DEF h
      <4> QED
        BY Zenon, <1>1, <1>6, <4>1 DEF IsShutdown, Turns, Calling
    <3> QED
      BY Zenon, <1>3, <1>t, <2>2, <2>4, <3>2 DEF engine_dispatch, after_reply
  <2>5. CASE engine_drained(e)
    BY Zenon, <1>3, <1>t, <2>2, <2>5 DEF engine_drained
  <2> QED
    BY Zenon, <1>3, <2>2, <2>3, <2>4, <2>5 DEF engine_step, boot_fail, boot_port, boot_ready, engine_free, engine_clear,
                                       engine_stopped
<1>7. LibTypes' /\ Where'
  BY Zenon, <1>1, <1>4 DEF LibTypes, Where, InCall, Expunging
<1>8. Alone'
  BY Zenon, <1>1, <1>3, <1>4 DEF Alone, InCall, Expunging, InStart
<1>9. Cached'
  BY Zenon, <1>1, <1>4 DEF Cached, Expunging, InStart
<1>10. Returns'
  BY Zenon, <1>1, <1>4, <1>6 DEF Returns, Calling
<1>11. ReplyPorts'
  BY Zenon, <1>1 DEF ReplyPorts
<1> QED
  BY Zenon, <1>5, <1>7, <1>8, <1>9, <1>10, <1>11 DEF Lib

-----------------------------------------------------------------------------
(* All steps of the library but its loading are steps of SocketIpc. *)
LEMMA LibIsNext ==
  ASSUME Launchers = Clients, LInv, LibNext, ~ bsd_Init
  PROVE  [Next]_vars
<1>1. Where
  BY Zenon DEF LInv, Lib
<1>2. ASSUME NEW t \in Clients, mgr_Open(t) \/ mgr_Close(t) \/ mgr_Expunge(t) \/ expunge_delete(t)
      PROVE  UNCHANGED vars
  BY Zenon, <1>2 DEF mgr_Open, mgr_Close, mgr_Expunge, expunge_delete
<1>3. ASSUME NEW t \in Clients, bs_call(t) \/ bs_rpc(t)
      PROVE  Next
  BY Zenon, <1>3 DEF bs_call, bs_rpc, Away, Next
<1>4. ASSUME NEW t \in Clients, expunge_client(t)
      PROVE  Next
  BY Zenon, <1>4 DEF expunge_client, Next
<1>5. ASSUME NEW t \in Clients, expunge_stop(t)
      PROVE  Next
  <2>1. Free(t)
    BY Zenon, <1>1, <1>5 DEF expunge_stop, Moves, Where, Free, NetstackEngine_Stop
  <2> QED
    BY Zenon, <1>5, <2>1 DEF expunge_stop, Next
<1>6. ASSUME NEW t \in Clients, ensure_engine(t)
      PROVE  [Next]_vars
  BY Zenon, <1>6 DEF ensure_engine, Next
<1>7. ASSUME NEW t \in Clients, client_step(t) \/ (launcher_step(t) /\ UNCHANGED <<clientVars, rest>>)
      PROVE  Next
  BY Zenon, <1>7 DEF Next
<1>8. ASSUME \/ shutdown_clear
             \/ \E e \in Runs : (engine_step(e) \/ UserBreak(e)) /\ UNCHANGED <<clientVars, rest>>
      PROVE  Next
  BY Zenon, <1>8 DEF Next
<1> QED
  BY Zenon, <1>2, <1>3, <1>4, <1>5, <1>6, <1>7, <1>8 DEF LibNext, lib_step

LEMMA LibStep ==
  ASSUME Launchers = Clients, LInv, LibNext, Orderly', ~ bsd_Init
  PROVE  Lib'
<1>1. ASSUME NEW t \in Clients, bs_call(t)
      PROVE  Lib'
  <2>1. CASE g_engine_started
    BY Zenon, <1>1, <2>1, StartedCallLib DEF bs_call
  <2>2. CASE ~ g_engine_started
    <3>1. g_engine_task = 0 => \A u \in Clients : ~ Calling(u)
      BY Zenon, <1>1, <2>2 DEF bs_call, Orderly
    <3> QED
      BY Zenon, <1>1, <2>2, <3>1, FirstCallLib DEF bs_call
  <2> QED
    BY Zenon, <2>1, <2>2
<1>2. ASSUME NEW t \in Clients, lib_step(t)
      PROVE  Lib'
  BY Zenon, <1>2, ExpungeClientLib, ExpungeStopLib, ExpungeDeleteLib, EnsureLib, RpcLib DEF lib_step
<1>3. ASSUME NEW t \in Clients, launcher_step(t), UNCHANGED <<clientVars, rest>>
      PROVE  Lib'
  BY Zenon, <1>3, StartLib, StopLib DEF launcher_step
<1>4. ~ overlap' /\ \A e \in Runs : ~ UserBreak(e)
  BY Zenon DEF Orderly, UserBreak
<1> QED
  BY Zenon, <1>1, <1>2, <1>3, <1>4, OpenLib, CloseLib, ExpungeLib, ClientLib, ClearLib, EngineLib DEF LibNext

(* LInv is inductive, as long as order is kept. *)
LEMMA NextLInv ==
  ASSUME Launchers = Clients
  PROVE  LInv /\ [LibNext]_libVars /\ Orderly' => LInv'
<1>1. ASSUME LInv, UNCHANGED libVars
      PROVE  LInv'
  <2> USE DEF libVars, vars, engineVars, clientVars, globals, history, runVars, launchVars, msgVars, replyVars,
              countVars
  <2>1. IInv'
    BY Zenon, <1>1, NextIInv DEF LInv
  <2>2. Phases'
    BY Zenon, <1>1, SamePhases DEF LInv
  <2>3. LibTypes' /\ Where'
    BY Zenon, <1>1 DEF LInv, Lib, LibTypes, Where, InCall, Expunging
  <2>4. Alone'
    BY Zenon, <1>1 DEF LInv, Lib, Alone, InCall, Expunging, Stranded, StopsForeign, Live, InStart
  <2>5. Cached' /\ Returns'
    BY Zenon, <1>1 DEF LInv, Lib, Cached, Returns, Expunging, Calling, InStart
  <2>6. ReplyPorts' /\ lost' = {}
    BY Zenon, <1>1 DEF LInv, Lib, ReplyPorts
  <2> QED
    BY Zenon, <2>1, <2>2, <2>3, <2>4, <2>5, <2>6 DEF LInv, Lib
<1>2. ASSUME LInv, LibNext, Orderly', ~ bsd_Init
      PROVE  LInv'
  <2>1. Lib' /\ [Next]_vars
    BY Zenon, <1>2, LibStep, LibIsNext
  <2>2. IInv'
    BY Zenon, <1>2, <2>1, NextIInv DEF LInv
  <2>3. Turns'
    <3>1. \A t \in Clients : Calling(t)' => bpc'[t] \in {"start", "delete"}
      BY Zenon, <2>1, <2>2 DEF Lib, Where, Calling, IInv, TasksOK, LauncherPcs
    <3>2. \A t \in Clients : Calling(t)' => InStart(t)' \/ bpc'[t] = "delete"
      BY Zenon, <3>1 DEF InStart, Calling
    <3> QED
      <4>1. \A t \in Clients : (InStart(t)' => InCall(t)') /\ (bpc'[t] = "delete" => Expunging(t)')
        BY Zenon DEF InStart, InCall, Expunging
      <4> QED
        BY Zenon, <2>1, <3>2, <4>1 DEF Turns, Lib, Alone
  <2>4. ~ broke'
    BY Zenon, <2>1 DEF Lib, LibTypes
  <2>5. Phases'
    BY Zenon, <1>2, <2>1, <2>3, <2>4, LibFacts, NextPhases DEF LInv
  <2> QED
    BY Zenon, <2>1, <2>2, <2>5 DEF LInv
<1> QED
  BY Zenon, <1>1, <1>2, LoadLInv

(* Order once lost stays lost. *)
LEMMA OrderLost == [LibNext]_libVars /\ Orderly' => Orderly
<1> USE DEF rest, engineVars, clientVars, globals, history, runVars, launchVars, msgVars, replyVars, countVars
<1>0. SUFFICES ASSUME [LibNext]_libVars, ~ broke', ~ overlap' PROVE Orderly
  BY Zenon DEF Orderly
<1>s. broke' = broke /\ overlap' = overlap => Orderly
  <2>1. SUFFICES ASSUME broke' = broke, overlap' = overlap PROVE ~ broke /\ ~ overlap
    BY Zenon DEF Orderly
  <2> QED
    BY Zenon, <1>0, <2>1
<1>1. ASSUME NEW e \in Runs, engine_step(e) \/ UserBreak(e), UNCHANGED <<clientVars, rest>>
      PROVE  Orderly
  <2>1. ~ UserBreak(e)
    BY Zenon, <1>0 DEF UserBreak
  <2>2. broke' = broke /\ overlap' = overlap
    BY Zenon, <1>1, <2>1 DEF engine_step, boot_fail, boot_port, boot_ready, engine_wait, engine_dispatch,
         engine_drained, engine_free, engine_clear, engine_stopped
  <2> QED
    BY Zenon, <1>s, <2>2
<1>2. ASSUME NEW t \in Clients, launcher_step(t), UNCHANGED <<clientVars, rest>>
      PROVE  Orderly
  <2>1. broke' = broke /\ overlap' = overlap
    BY Zenon, <1>2 DEF launcher_step, start_publish, start_create, start_wait, stop_put, stop_reply, stop_wait
  <2> QED
    BY Zenon, <1>s, <2>1
<1>3. ASSUME NEW t \in Clients, client_step(t), UNCHANGED rest
      PROVE  Orderly
  <2>1. broke' = broke /\ overlap' = overlap
    BY Zenon, <1>3 DEF client_step, call_slot, call_put, call_return
  <2> QED
    BY Zenon, <1>s, <2>1
<1>4. ASSUME NEW t \in Clients, lib_step(t)
      PROVE  Orderly
  <2>1. overlap' = overlap
    BY Zenon, <1>4 DEF lib_step, expunge_client, expunge_stop, expunge_delete, ensure_engine, bs_rpc
  <2>2. broke' = broke
    BY Zenon, <1>4 DEF lib_step, expunge_client, expunge_stop, expunge_delete, ensure_engine, bs_rpc,
         netstack_client_shutdown, NetstackEngine_Stop, netstack_client_init, call_engine, vars
  <2> QED
    BY Zenon, <1>s, <2>1, <2>2
<1>5. ASSUME broke' = broke, overlap => overlap'
      PROVE  Orderly
  <2>1. ~ broke
    BY Zenon, <1>0, <1>5
  <2>2. ~ overlap
    BY Zenon, <1>0, <1>5
  <2> QED
    BY Zenon, <2>1, <2>2 DEF Orderly
<1>6. ASSUME NEW t \in Clients, mgr_Open(t) \/ mgr_Close(t) \/ mgr_Expunge(t)
      PROVE  Orderly
  <2>1. broke' = broke
    BY Zenon, <1>6 DEF mgr_Open, mgr_Close, mgr_Expunge, vars
  <2>2. overlap => overlap'
    BY <1>6 DEF mgr_Open, mgr_Close, mgr_Expunge
  <2> QED
    BY Zenon, <1>5, <2>1, <2>2
<1>7. ASSUME NEW t \in Clients, bs_call(t)
      PROVE  Orderly
  <2>1. broke' = broke
    BY Zenon, <1>7 DEF bs_call, call_engine, NetstackEngine_Start
  <2>2. overlap => overlap'
    BY <1>7 DEF bs_call
  <2> QED
    BY Zenon, <1>5, <2>1, <2>2
<1>8. CASE bsd_Init \/ (shutdown_clear /\ UNCHANGED rest) \/ UNCHANGED libVars
  <2>1. broke' = broke /\ overlap' = overlap
    BY Zenon, <1>8 DEF bsd_Init, shutdown_clear, libVars, vars
  <2> QED
    BY Zenon, <1>s, <2>1
<1> QED
  BY Zenon, <1>0, <1>1, <1>2, <1>3, <1>4, <1>6, <1>7, <1>8 DEF LibNext

LEMMA SpecLInv ==
  ASSUME Launchers = Clients
  PROVE  LibSpec => [](Orderly => LInv)
<1>1. LibInit => LInv
  <2>1. LibInit => IInv
    BY Zenon, InitIInv DEF LibInit
  <2>2. LibInit => Phases
    BY EngineAssumption DEF LibInit, Init, EngineInit, Phases, LastRun, Off, Live, Runs
  <2>3. LibInit => LibTypes
    BY Zenon, FS_EmptySet DEF LibInit, Init, EngineInit, LibTypes
  <2>4. LibInit => Where /\ Alone
    BY Zenon DEF LibInit, Init, EngineInit, Where, Alone, InCall, Expunging, InStart
  <2>5. LibInit => Cached /\ Returns
    BY Zenon DEF LibInit, Init, EngineInit, Cached, Returns, InStart
  <2>6. LibInit => ReplyPorts /\ lost = {}
    BY Zenon DEF LibInit, Init, EngineInit, ReplyPorts
  <2> QED
    BY Zenon, <2>1, <2>2, <2>3, <2>4, <2>5, <2>6 DEF LInv, Lib
<1>2. (Orderly => LInv) /\ [LibNext]_libVars => (Orderly => LInv)'
  BY Zenon, NextLInv, OrderLost
<1> QED
  BY <1>1, <1>2, PTL DEF LibSpec

(* In order, there is never more than one engine under the library, and    *)
(* none but past its last signal when Stop or a failed Start has returned  *)
(* (engine_main.c:134, 166, 207).  First calls may overlap, except between *)
(* Start's test and its store; the race run shows what happens there.      *)
THEOREM LibSoleEngine ==
  ASSUME Launchers = Clients
  PROVE  LibSpec => []SoleEngine
<1>1. LInv => OneEngine
  BY Zenon DEF LInv, Phases, LastRun, Off, Booting, Serving, Ending, Live, OneEngine
<1>2. (Orderly => LInv) => SoleEngine
  BY Zenon, <1>1 DEF SoleEngine
<1> QED
  BY <1>2, SpecLInv, PTL

(* In order, no request and no reply is lost: a Stop comes from Expunge,   *)
(* when nobody is in a call, and its own request is answered before the    *)
(* port is freed (engine_main.c:110-123, bsdsocket_library.c:307-326).     *)
THEOREM LibAllAnswered ==
  ASSUME Launchers = Clients
  PROVE  LibSpec => []AllAnswered
<1>1. (Orderly => LInv) => AllAnswered
  BY Zenon DEF LInv, Lib, NothingLost, AllAnswered
<1> QED
  BY <1>1, SpecLInv, PTL

(* In order, a task that waits for a reply has a reply port, and only one, *)
(* however few the table has (socket_ipc.c:60-95).                         *)
THEOREM LibOwnReplyPort ==
  ASSUME Launchers = Clients
  PROVE  LibSpec => []OwnReplyPort
<1>1. LInv => ReplyPortHeld
  <2>1. None \notin Clients
    BY Zenon, EngineAssumption DEF Tasks
  <2> QED
    BY SMTT(30), <2>1 DEF LInv, Lib, ReplyPorts, ReplyPortHeld
<1>2. (Orderly => LInv) => OwnReplyPort
  BY Zenon, <1>1 DEF OwnReplyPort
<1> QED
  BY <1>2, SpecLInv, PTL

(* In order, the code is unloaded only when nobody has the library open or *)
(* is in it, and no engine runs but past its last signal                   *)
(* (bsdsocket_library.c:307-326).                                          *)
THEOREM LibCodeLoaded ==
  ASSUME Launchers = Clients
  PROVE  LibSpec => []CodeLoaded
<1>1. (Orderly => LInv) => CodeLoaded
  BY Zenon, LibFacts DEF CodeLoaded, Off
<1> QED
  BY <1>1, SpecLInv, PTL

(* In order, g_engine_started is not stale: until an expunge begins, the   *)
(* engine runs and the cached port is its port (bsdsocket_library.c:251-   *)
(* 262).                                                                   *)
THEOREM LibStartedRuns ==
  ASSUME Launchers = Clients
  PROVE  LibSpec => []StartedRuns
<1>1. ASSUME LInv, g_engine_started, lib = "in", \A t \in Clients : ~ Expunging(t)
      PROVE  Serving /\ g_engine_port = gen
  <2>1. g_engine_port = gen /\ g_engine_task # 0 /\ \A t \in Clients : ~ InStart(t)
    BY Zenon, <1>1 DEF LInv, Lib, Cached
  <2>2. \A t \in Clients : ~ Calling(t)
    BY Zenon, <1>1, <2>1, LibFacts DEF Expunging, InStart, Calling
  <2>3. ~ Off /\ ~ Booting /\ ~ Ending
    BY Zenon, <2>1, <2>2 DEF Off, Booting, Ending, Calling
  <2> QED
    BY Zenon, <1>1, <2>1, <2>3 DEF LInv, Phases
<1>2. (Orderly => LInv) => StartedRuns
  BY Zenon, <1>1 DEF StartedRuns, Serving, NetstackEngine_IsRunning
<1> QED
  BY <1>2, SpecLInv, PTL

=============================================================================
