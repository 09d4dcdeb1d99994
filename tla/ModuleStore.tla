---------------------------- MODULE ModuleStore -----------------------------
(***************************************************************************)
(* The HTTP server that serves module files to the userbot                 *)
(* (module_store.py), the lifespans that start and stop it and load_module *)
(* (server.py).  build_http_app enters the lifespan for the application,   *)
(* and FastMCP enters it again for every MCP session; all of them share    *)
(* the one _runner.                                                        *)
(***************************************************************************)
EXTENDS Naturals, FiniteSets

CONSTANTS App,        \* the lifespan of the application
          Session,    \* lifespans of MCP sessions
          Task,       \* load_module calls
          Owner,      \* the lifespan each call belongs to
          Name,       \* the module name each call is given
          Code,       \* sources
          None,
          LastPort,   \* ports 1 (server_port + 1) to LastPort (+ 100) are tried
          MayBeBusy,  \* ports another program may hold
          Cancellable, \* may a call be cancelled while it starts the server?
          MaxRunners  \* bound on the runners made

Lifespan == {App} \cup Session
Actor    == Lifespan \cup Task
Port     == 1 .. LastPort
Names    == {Name[t] : t \in Task}

ASSUME StoreAssumption ==
    /\ App \notin Session /\ Lifespan \cap Task = {}
    /\ Owner \in [Task -> Lifespan]
    /\ None \notin Code
    /\ LastPort \in Nat \ {0} /\ MayBeBusy \subseteq Port
    /\ Cancellable \in BOOLEAN /\ MaxRunners \in Nat

VARIABLES https,     \* is module_base_url an https URL (of port 1)?
          runner,    \* _runner: None (0) or the number of an AppRunner
          bound,     \* _bound_port; 0 is None
          ready,     \* runners set up and not cleaned up
          serving,   \* the sites that listen
          made,      \* AppRunners made so far
          pc,        \* of each lifespan and call: its await
          mine,      \* the runner it sets up or cleans up
          port,      \* its port in the loop of start_server
          files,     \* modules_dir
          saved,     \* the source each call is about
          loaded,    \* the source the userbot loaded for it (history)
          disturbed  \* a stop began while another actor started or stopped the
                     \* server, or a start was cancelled (history)

server == <<runner, bound, ready, serving, made>>
start  == <<mine, port>>
store  == <<https, files, saved, loaded>>
vars   == <<server, pc, start, store, disturbed>>

Init ==
    /\ https \in BOOLEAN /\ disturbed = FALSE
    /\ runner = 0 /\ bound = 0 /\ ready = {} /\ serving = {} /\ made = 0
    /\ pc = [a \in Actor |-> "off"]
    /\ mine = [a \in Actor |-> 0] /\ port = [a \in Actor |-> 1]
    /\ files \in [Names -> Code \cup {None}]
    /\ saved = [t \in Task |-> None] /\ loaded = [t \in Task |-> None]

Goto(a, where) == pc' = [pc EXCEPT ![a] = where]

Sites(r) == {s \in serving : s.runner = r}

(* Who is starting or stopping the server.                                 *)
Busy == {a \in Actor : pc[a] \in {"setup", "binding", "undoing", "stopping"}}

-----------------------------------------------------------------------------
(* start_server has returned: a lifespan yields, a call sends .dlm or is   *)
(* refused for its URL.                                                    *)
Started(a) ==
    \/ a \in Lifespan /\ Goto(a, "on")
    \/ a \in Task /\ https /\ Goto(a, "waiting")
    \/ a \in Task /\ ~https /\ Goto(a, "refused")

(* Mutant: a server that runs is not noticed.                              *)
StartServer_Again(a) ==
    /\ made < MaxRunners
    /\ made' = made + 1 /\ runner' = made'
    /\ mine' = [mine EXCEPT ![a] = made']
    /\ Goto(a, "setup")
    /\ UNCHANGED <<bound, ready, serving, port>>

(* start_server: _runner is set before it is set up and bound.             *)
StartServer(a) ==
    \/ runner # 0 /\ Started(a) /\ UNCHANGED <<server, start>>
    \/ /\ runner = 0 /\ made < MaxRunners
       /\ made' = made + 1 /\ runner' = made'
       /\ mine' = [mine EXCEPT ![a] = made']
       /\ Goto(a, "setup")
       /\ UNCHANGED <<bound, ready, serving, port>>

(* The application starts first; sessions come and go while it is up.      *)
StartLifespan(l) ==
    /\ pc[l] = "off" /\ (l # App => pc[App] = "on")
    /\ StartServer(l)
    /\ UNCHANGED <<store, disturbed>>

(* Mutant: the file is not overwritten.                                    *)
StartLoad_KeepsFile(t, code) ==
    /\ pc[t] = "off" /\ pc[Owner[t]] = "on"
    /\ code # None
    /\ files' = [files EXCEPT ![Name[t]] = IF @ = None THEN code ELSE @]
    /\ saved' = [saved EXCEPT ![t] = code]
    /\ loaded' = [loaded EXCEPT ![t] = None]
    /\ StartServer(t)
    /\ UNCHANGED <<https, disturbed>>

(* load_module with a source writes the file; without, it must exist.      *)
StartLoad(t, code) ==
    /\ pc[t] = "off" /\ pc[Owner[t]] = "on"
    /\ \/ code # None /\ files' = [files EXCEPT ![Name[t]] = code]
       \/ code = None /\ files[Name[t]] # None /\ UNCHANGED files
    /\ saved' = [saved EXCEPT ![t] = files'[Name[t]]]
    /\ loaded' = [loaded EXCEPT ![t] = None]
    /\ StartServer(t)
    /\ UNCHANGED <<https, disturbed>>

SetUp(a) ==
    /\ pc[a] = "setup"
    /\ ready' = ready \cup {mine[a]}
    /\ port' = [port EXCEPT ![a] = 1]
    /\ Goto(a, "binding")
    /\ UNCHANGED <<runner, bound, serving, made, mine, store, disturbed>>

Listening(n) == \E s \in serving : s.port = n

(* Mutant of PortBusy: the loop goes one port too far.                     *)
PortBusy_TooFar(a) ==
    /\ pc[a] = "binding" /\ runner \in ready
    /\ port[a] \in MayBeBusy
    /\ port' = [port EXCEPT ![a] = port[a] + 1]
    /\ UNCHANGED <<server, pc, mine, store, disturbed>>

(* TCPSite takes whatever _runner is now; one that is not set up raises.   *)
Bind(a) ==
    /\ pc[a] = "binding" /\ runner \in ready /\ ~Listening(port[a])
    /\ serving' = serving \cup {[runner |-> runner, port |-> port[a]]}
    /\ bound' = port[a]
    /\ Started(a)
    /\ UNCHANGED <<runner, ready, made, start, store, disturbed>>

PortBusy(a) ==
    /\ pc[a] = "binding" /\ runner \in ready
    /\ port[a] \in MayBeBusy \/ Listening(port[a])
    /\ \/ /\ port[a] < LastPort /\ port' = [port EXCEPT ![a] = port[a] + 1]
          /\ UNCHANGED <<ready, serving, pc, mine>>
       \/ /\ port[a] = LastPort
          /\ mine' = [mine EXCEPT ![a] = runner]
          /\ ready' = ready \ {runner} /\ serving' = serving \ Sites(runner)
          /\ Goto(a, "undoing") /\ UNCHANGED port
    /\ UNCHANGED <<runner, bound, made, store, disturbed>>

BindRaises(a) ==
    /\ pc[a] = "binding" /\ runner \notin ready
    /\ Goto(a, "off")
    /\ UNCHANGED <<server, start, store, disturbed>>

(* Mutant: _runner is not reset.                                           *)
Undo_KeepsRunner(a) ==
    /\ pc[a] = "undoing"
    /\ Started(a)
    /\ UNCHANGED <<server, start, store, disturbed>>

(* No port was free: the runner is cleaned up and the caller goes on.      *)
Undo(a) ==
    /\ pc[a] = "undoing"
    /\ runner' = 0
    /\ Started(a)
    /\ UNCHANGED <<bound, ready, serving, made, start, store, disturbed>>

(* A call is cancelled while the server starts: _runner stays.             *)
CancelStart(t) ==
    /\ Cancellable /\ pc[t] \in {"setup", "binding"}
    /\ Goto(t, "off")
    /\ disturbed' = TRUE
    /\ UNCHANGED <<server, start, store>>

-----------------------------------------------------------------------------
(* The userbot fetches the URL: the front end asks port 1.                 *)
UserbotFetches(t) ==
    /\ pc[t] = "waiting" /\ loaded[t] = None
    /\ Listening(1)
    /\ loaded' = [loaded EXCEPT ![t] = files[Name[t]]]
    /\ UNCHANGED <<server, pc, start, https, files, saved, disturbed>>

(* Its answer, or the ceiling of the call.                                 *)
EndLoad(t) ==
    /\ pc[t] \in {"waiting", "refused"}
    /\ Goto(t, "off")
    /\ saved' = [saved EXCEPT ![t] = None] /\ loaded' = [loaded EXCEPT ![t] = None]
    /\ UNCHANGED <<server, start, https, files, disturbed>>

(* A lifespan ends when its own calls are over, the application's last.    *)
MayStop(l) ==
    /\ pc[l] = "on"
    /\ \A t \in Task : Owner[t] = l => pc[t] = "off"
    /\ l = App => \A s \in Session : pc[s] = "off"

(* stop_server: the sites close, then the globals are reset.               *)
BeginStop(l) ==
    /\ MayStop(l) /\ runner # 0
    /\ mine' = [mine EXCEPT ![l] = runner]
    /\ ready' = ready \ {runner} /\ serving' = serving \ Sites(runner)
    /\ Goto(l, "stopping")
    /\ disturbed' = (disturbed \/ Busy # {})
    /\ UNCHANGED <<runner, bound, made, port, store>>

StopNothing(l) ==
    /\ MayStop(l) /\ runner = 0
    /\ Goto(l, "off")
    /\ UNCHANGED <<server, start, store, disturbed>>

(* Mutant: the port is not forgotten.                                      *)
FinishStop_KeepsPort(l) ==
    /\ pc[l] = "stopping"
    /\ runner' = 0
    /\ Goto(l, "off")
    /\ UNCHANGED <<bound, ready, serving, made, start, store, disturbed>>

FinishStop(l) ==
    /\ pc[l] = "stopping"
    /\ runner' = 0 /\ bound' = 0
    /\ Goto(l, "off")
    /\ UNCHANGED <<ready, serving, made, start, store, disturbed>>

Next ==
    \/ \E l \in Lifespan :
        StartLifespan(l) \/ BeginStop(l) \/ StopNothing(l) \/ FinishStop(l)
    \/ \E t \in Task :
        \/ \E code \in Code \cup {None} : StartLoad(t, code)
        \/ CancelStart(t) \/ UserbotFetches(t) \/ EndLoad(t)
    \/ \E a \in Actor : SetUp(a) \/ Bind(a) \/ PortBusy(a) \/ BindRaises(a) \/ Undo(a)

Spec == Init /\ [][Next]_vars

-----------------------------------------------------------------------------
TypeOK ==
    /\ https \in BOOLEAN /\ disturbed \in BOOLEAN
    /\ runner \in 0 .. made /\ made \in 0 .. MaxRunners
    /\ bound \in {0} \cup Port
    /\ ready \subseteq 1 .. made
    /\ serving \subseteq [runner : 1 .. made, port : Port]
    /\ pc \in [Actor -> {"off", "setup", "binding", "undoing", "on", "waiting",
                         "refused", "stopping"}]
    /\ mine \in [Actor -> 0 .. made] /\ port \in [Actor -> Port]
    /\ files \in [Names -> Code \cup {None}]
    /\ saved \in [Task -> Code \cup {None}] /\ loaded \in [Task -> Code \cup {None}]

(* Between stops, get_bound_port is "the actual port the server is         *)
(* listening on": nothing listens elsewhere, and something listens there.  *)
(* The lifespans of any number of sessions may share the server, as long   *)
(* as a stop overlaps no start and no other stop.                          *)
BoundIsActual ==
    ~disturbed /\ (\A l \in Lifespan : pc[l] # "stopping") =>
        {s.port : s \in serving} = (IF bound = 0 THEN {} ELSE {bound})

(* In the same runs, there is one module server at a time and stop_server  *)
(* can stop it.                                                            *)
NoStrayServer == ~disturbed => \A s \in serving : s.runner = runner

(* What stop_server is for, whatever overlaps: a server that listens can   *)
(* be stopped.                                                             *)
AlwaysStoppable == \A s \in serving : s.runner = runner

(* While the userbot is told to fetch, the store that call started or      *)
(* found is still up (load_module: "the local module store serves them and *)
(* the userbot downloads from that URL").                                  *)
ServedWhileLoading ==
    [][\A t \in Task : pc[t] = "waiting" /\ pc'[t] = "waiting" /\ serving # {}
           => serving' # {}]_vars

(* What the userbot loads is what the call saved (load_module: "saves the  *)
(* text to modules/<name>.py (overwrites) and loads it").                  *)
SavedIsLoaded ==
    \A t \in Task : loaded[t] # None => loaded[t] = saved[t]

(* In the same runs, behind every _runner is a server that listens, or     *)
(* somebody who is starting or stopping it: a call that finds one may rely *)
(* on it.                                                                  *)
RunnerIsAlive ==
    ~disturbed /\ runner # 0 /\ Sites(runner) = {} => \E a \in Busy : mine[a] = runner

(* A call is not refused for its URL (README: "MCP and userbot on the same *)
(* box: nothing to do (default)").                                         *)
NeverRefused == \A t \in Task : pc[t] # "refused"
=============================================================================
