------------------------------ MODULE Launcher ------------------------------
(***************************************************************************)
(* Starting and stopping the server (server/launcher.py): the launcher     *)
(* starts the engines, waits until all answer, starts the router, which    *)
(* has every engine load its model (router/frontend.py, load_model of      *)
(* engine/server.py), then Prometheus, and waits for all to end.           *)
(*                                                                         *)
(* Any process may die at any time; nobody starts one again.  A load that  *)
(* the router has given up goes on in the engine; the operator may ask for *)
(* one more, as the router's warning says (frontend.py:119-121).           *)
(***************************************************************************)
EXTENDS Naturals, FiniteSets

CONSTANTS NumEngines  \* --num_engine_instances

VARIABLES
  at,      \* the launcher's position, or how it ended
  process, \* process[p]: "none", "starting", "ready", "stopping" or "dead"
  config,  \* the engine the router configures, 0 before the first
  load,    \* load[i][by]: where the load of engine i asked for by `by` is
  loaded,  \* loaded[i]: the parts that engine i has
  partial  \* engines where a load raised after the model was there

vars == <<at, process, config, load, loaded, partial>>

Engines == 1 .. NumEngines
Router == 0
Prometheus == NumEngines + 1
Process == 0 .. NumEngines + 1
By == {"startup", "operator"}
Alive(p) == process[p] \in {"starting", "ready"}

NoLoads == [by \in By |-> "none"]

Init ==
  /\ at = "engines"
  /\ process = [p \in Process |-> "none"]
  /\ config = 0
  /\ load = [i \in Engines |-> NoLoads]
  /\ loaded = [i \in Engines |-> {}]
  /\ partial = {}

others == <<config, load, loaded, partial>>
-----------------------------------------------------------------------------
(* main                                                                    *)

(* Popen.terminate: SIGTERM to those that run. *)
Terminated(ps) ==
  [p \in Process |-> IF p \in ps /\ Alive(p) THEN "stopping" ELSE process[p]]

Exit(how, ps) == at' = how /\ process' = Terminated(ps) /\ UNCHANGED others

Go(to, ps) ==
  /\ at' = to
  /\ process' = [p \in Process |-> IF p \in ps THEN "starting" ELSE process[p]]
  /\ UNCHANGED others

NotLaunched == {i \in Engines : process[i] = "none"}

LaunchEngine ==
  /\ at = "engines"
  /\ \/ NotLaunched = {} /\ Go("wait engines", {})
     \/ /\ NotLaunched # {}
        /\ LET i == CHOOSE i \in NotLaunched : \A j \in NotLaunched : i <= j IN
             Go("engines", {i}) \/ Exit("exited", Engines)

(* wait_for_server_ready: every engine answers in one round of questions,  *)
(* or the time is up.                                                      *)
EnginesReady ==
  /\ at = "wait engines"
  /\ \/ (\A i \in Engines : process[i] = "ready") /\ Go("router", {})
     \/ Exit("exited", Engines)

(* Popen may raise: the handler knows nothing of a router. *)
LaunchRouter ==
  /\ at = "router"
  /\ Go("wait router", {Router}) \/ Exit("failed", Engines)

RouterTimeoutKeeping == Engines \* mutant: the router is not terminated
RouterTimeout == Engines \union {Router}

RouterReady ==
  /\ at = "wait router"
  /\ \/ process[Router] = "ready" /\ Go("prometheus", {})
     \/ Exit("exited", RouterTimeout)

(* start_prometheus: not asked for or not to be had, started, or it raises. *)
StartPrometheus ==
  /\ at = "prometheus"
  /\ \/ Go("running", {}) \/ Go("running", {Prometheus})
     \/ Exit("failed", Engines)

(* The last try: proc.wait() of each. *)
AllGone ==
  /\ at = "running" /\ \A p \in Process : ~Alive(p)
  /\ Exit("exited", {})

(* Ctrl-C; before the last try no handler is there. *)
Interrupt ==
  \/ at = "running" /\ Exit("exited", Process)
  \/ at \notin {"running", "exited", "failed", "interrupted"} /\ Exit("interrupted", {})

Main == \/ LaunchEngine \/ EnginesReady \/ LaunchRouter \/ RouterReady
        \/ StartPrometheus \/ AllGone
-----------------------------------------------------------------------------
(* The processes                                                           *)

Boot(p) ==
  /\ p # Router /\ process[p] = "starting"
  /\ process' = [process EXCEPT ![p] = "ready"]
  /\ UNCHANGED <<at, others>>

(* What an engine has ends with it. *)
Dies(p) ==
  /\ process' = [process EXCEPT ![p] = "dead"]
  /\ load' = [i \in Engines |-> IF i = p THEN NoLoads ELSE load[i]]
  /\ loaded' = [i \in Engines |-> IF i = p THEN {} ELSE loaded[i]]
  /\ partial' = partial \ {p}
  /\ UNCHANGED <<at, config>>

Die(p) == Alive(p) /\ Dies(p)
Stop(p) == process[p] = "stopping" /\ Dies(p)
-----------------------------------------------------------------------------
(* The router's startup event                                              *)

Asked(i, by) == [load EXCEPT ![i][by] = "asked"]

(* POST /config_server to one engine after the other; whatever comes of    *)
(* it, an error or nothing, is only logged.  After the last the scheduler  *)
(* starts and the router answers.                                          *)
Configure ==
  /\ process[Router] = "starting"
  /\ \/ /\ config < NumEngines
        /\ config' = config + 1
        /\ load' = IF process[config + 1] = "ready" THEN Asked(config + 1, "startup")
                   ELSE load
        /\ UNCHANGED process
     \/ /\ config = NumEngines
        /\ process' = [process EXCEPT ![Router] = "ready"]
        /\ UNCHANGED <<config, load>>
  /\ UNCHANGED <<at, loaded, partial>>

(* Bound: for one engine. *)
Operator(i) ==
  /\ process[i] = "ready" /\ \A j \in Engines : load[j]["operator"] = "none"
  /\ load' = Asked(i, "operator")
  /\ UNCHANGED <<at, process, config, loaded, partial>>
-----------------------------------------------------------------------------
(* load_model                                                              *)

Parts == {"tokenizer", "model", "cache", "decoder"}

LoadedTokenizer(i) == "tokenizer" \in loaded[i] \* mutant: the wrong part is asked for
Loaded(i) == "model" \in loaded[i]

(* A load goes on to its next part, or is over, with HTTP 200. *)
Step(i, by, to, parts) ==
  /\ load' = [load EXCEPT ![i][by] = to]
  /\ loaded' = [loaded EXCEPT ![i] = @ \union parts]
  /\ UNCHANGED <<at, process, config, partial>>

Begin(i, by) ==
  /\ load[i][by] = "asked"
  /\ IF Loaded(i) THEN Step(i, by, "200", {}) ELSE Step(i, by, "tokenizer", {})

LoadPart(i, by) ==
  \/ load[i][by] = "tokenizer" /\ Step(i, by, "model", {"tokenizer"})
  \/ load[i][by] = "model" /\ Step(i, by, "cache", {"model"})
  \/ load[i][by] = "cache" /\ Step(i, by, "decoder", {"cache"})
  \/ load[i][by] = "decoder" /\ Step(i, by, "200", {"decoder"})

(* Anything may raise: a name, a download, the memory. *)
Raise(i, by) ==
  /\ load[i][by] \in Parts
  /\ load' = [load EXCEPT ![i][by] = "500"]
  /\ partial' = IF load[i][by] \in {"cache", "decoder"} THEN partial \union {i} ELSE partial
  /\ UNCHANGED <<at, process, config, loaded>>

Load(i, by) == process[i] = "ready" /\ (Begin(i, by) \/ LoadPart(i, by))
-----------------------------------------------------------------------------
Next ==
  \/ Main \/ Interrupt \/ Configure
  \/ \E p \in Process : Boot(p) \/ Die(p) \/ Stop(p)
  \/ \E i \in Engines : \/ Operator(i)
                        \/ \E by \in By : \/ Load(i, by)
                                          \/ process[i] = "ready" /\ Raise(i, by)

(* The waits of the launcher have a time-out, and SIGTERM ends a process. *)
Fairness == WF_vars(Main) /\ \A p \in Process : WF_vars(Stop(p))

Spec == Init /\ [][Next]_vars /\ Fairness
-----------------------------------------------------------------------------
Running == {p \in Process : process[p] \in {"starting", "ready", "stopping"}}

(* The launcher comes to its last wait or gives up, and when it gives up   *)
(* or is told to stop nothing of what it started stays behind: not the     *)
(* router when it is not ready in time, not the engines that had come up   *)
(* when a later one did not.  An exception between the start of the router *)
(* and the last wait leaves the router (launcher.py:337), an interrupt     *)
(* before that wait leaves all.                                            *)
NothingLeftRunning ==
  /\ at = "engines" ~> at \in {"running", "exited", "failed", "interrupted"}
  /\ at = "exited" ~> Running = {}
  /\ at = "failed" ~> Running \subseteq {Router}

(* An engine that said it is configured is so once its loads have ended,   *)
(* whatever the order of two of them and however many raised, unless one   *)
(* raised after the model was there: the next load then changes nothing    *)
(* and succeeds.                                                           *)
ConfiguredIsUsable ==
  \A i \in Engines \ partial :
    /\ \E by \in By : load[i][by] = "200"
    /\ \A by \in By : load[i][by] \in {"none", "200", "500"}
    => loaded[i] = Parts
=============================================================================
