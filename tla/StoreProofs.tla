----------------------------- MODULE StoreProofs ----------------------------
(***************************************************************************)
(* Theorems about ModuleStore, for any number of sessions and loads, any   *)
(* ports and sources, with other programs on the ports and cancelled       *)
(* calls.                                                                  *)
(***************************************************************************)
EXTENDS ModuleStore, TLAPS

Starting == {"setup", "binding", "undoing"}

(* What TypeOK needs: who sets a runner up has made one, and only          *)
(* lifespans stop the server.                                              *)
Roles ==
    /\ \A a \in Actor : pc[a] = "setup" => mine[a] # 0
    /\ \A t \in Task : pc[t] # "stopping"

(* While nothing is disturbed at most one actor starts or stops the server:*)
(* the others find _runner set and go on.  Nothing listens meanwhile.      *)
OneAtATime ==
    /\ \A a, b \in Busy : a = b
    /\ \A a \in Busy :
         /\ runner # 0 /\ mine[a] = runner /\ serving = {}
         /\ pc[a] \in Starting => bound = 0
         /\ pc[a] = "binding" => runner \in ready

(* When nobody does, the globals and the sites agree.                      *)
Settled ==
    Busy = {} =>
        /\ runner = 0 => bound = 0 /\ serving = {}
        /\ runner # 0 => bound # 0 /\ serving = {[runner |-> runner, port |-> bound]}

Quiet == OneAtATime /\ Settled

IInv == TypeOK /\ Roles /\ (~disturbed => Quiet)

DistinctNames == \A t, u \in Task : Name[t] = Name[u] => t = u

(* A call keeps its file until it ends, and the userbot loads only while   *)
(* the call waits for it.                                                  *)
OwnFile ==
    \A t \in Task :
        /\ pc[t] # "off" => saved[t] = files[Name[t]]
        /\ loaded[t] # None => pc[t] = "waiting" /\ loaded[t] = saved[t]

-----------------------------------------------------------------------------
(* What the constants give every step.                                     *)
LEMMA Actors ==
    /\ App \in Lifespan /\ Session \subseteq Lifespan
    /\ Lifespan \subseteq Actor /\ Task \subseteq Actor
    /\ \A a \in Actor : a \in Lifespan <=> a \notin Task
    /\ LastPort \in Nat /\ LastPort >= 1 /\ MaxRunners \in Nat
    /\ \A t \in Task : Name[t] \in Names
BY StoreAssumption DEF StoreAssumption, Actor, Lifespan, Names

(* Who has got through start_server waits, is on or is refused.            *)
Passed(a) ==
    \E where \in {"on", "waiting", "refused"} :
        pc' = [pc EXCEPT ![a] = where] /\ (where = "waiting" => a \in Task)

LEMMA StartedPasses ==
    ASSUME NEW a, Started(a)
    PROVE  Passed(a)
BY DEF Started, Goto, Passed

(* start_server finds a runner, or makes one.                              *)
Makes(a) ==
    /\ runner = 0 /\ made < MaxRunners
    /\ made' = made + 1 /\ runner' = made'
    /\ mine' = [mine EXCEPT ![a] = made']
    /\ pc' = [pc EXCEPT ![a] = "setup"]
    /\ UNCHANGED <<bound, ready, serving, port>>

LEMMA StartServerOutcome ==
    ASSUME NEW a, StartServer(a)
    PROVE  \/ runner # 0 /\ Passed(a) /\ UNCHANGED <<server, start>>
           \/ Makes(a)
BY StartedPasses DEF StartServer, Makes, Goto

-----------------------------------------------------------------------------
(* Type correctness of ModuleStore.  The conjuncts are of the variables    *)
(* that some steps change together.                                        *)
ServerType ==
    /\ runner \in 0 .. made /\ made \in 0 .. MaxRunners
    /\ bound \in {0} \cup Port
    /\ ready \subseteq 1 .. made
    /\ serving \subseteq [runner : 1 .. made, port : Port]

PC == {"off", "setup", "binding", "undoing", "on", "waiting", "refused", "stopping"}

ActorType ==
    /\ pc \in [Actor -> PC]
    /\ mine \in [Actor -> 0 .. made] /\ port \in [Actor -> Port]

FileType ==
    /\ files \in [Names -> Code \cup {None}]
    /\ saved \in [Task -> Code \cup {None}] /\ loaded \in [Task -> Code \cup {None}]

LEMMA TypeParts ==
    TypeOK <=> https \in BOOLEAN /\ disturbed \in BOOLEAN
                /\ ServerType /\ ActorType /\ FileType
BY DEF TypeOK, ServerType, ActorType, FileType, PC

LEMMA TypeInit == Init => TypeOK /\ Roles
<1> SUFFICES ASSUME Init PROVE TypeOK /\ Roles
    OBVIOUS
<1>1. https \in BOOLEAN /\ disturbed \in BOOLEAN
    BY DEF Init
<1>2. ServerType
    BY Actors DEF Init, ServerType
<1>3. ActorType
    BY Actors DEF Init, ActorType, PC, Port
<1>4. FileType
    BY DEF Init, FileType
<1>5. Roles
    BY Actors DEF Init, Roles
<1> QED BY <1>1, <1>2, <1>3, <1>4, <1>5, TypeParts

LEMMA MakesTypes ==
    ASSUME ServerType, ActorType, Roles, NEW a \in Actor, Makes(a)
    PROVE  ServerType' /\ ActorType' /\ Roles'
<1> USE DEF Makes
<1>1. made \in Nat /\ made + 1 <= MaxRunners /\ made' = made + 1
    BY Actors DEF ServerType
<1>2. 1 .. made \subseteq 1 .. made' /\ 0 .. made \subseteq 0 .. made'
    BY <1>1
<1>3. ServerType'
    <2>1. runner' \in 0 .. made' /\ made' \in 0 .. MaxRunners
        BY <1>1, Actors
    <2>2. serving \subseteq [runner : 1 .. made', port : Port]
        BY <1>2 DEF ServerType
    <2> QED BY <1>2, <2>1, <2>2 DEF ServerType
<1>4. ActorType'
    BY <1>1, <1>2 DEF ActorType, PC
<1>5. Roles'
    BY <1>1, Actors DEF ActorType, Roles
<1> QED BY <1>3, <1>4, <1>5

LEMMA PassedTypes ==
    ASSUME ActorType, Roles, NEW a \in Actor, Passed(a),
           UNCHANGED <<mine, port, made>>
    PROVE  ActorType' /\ Roles'
BY DEF Passed, ActorType, Roles, PC

LEMMA TypeStep ==
    ASSUME TypeOK, Roles, [Next]_vars
    PROVE  TypeOK' /\ Roles'
<1> DEFINE Goal == /\ https' \in BOOLEAN /\ disturbed' \in BOOLEAN
                   /\ ServerType' /\ ActorType' /\ FileType' /\ Roles'
<1>0. https \in BOOLEAN /\ disturbed \in BOOLEAN /\ ServerType /\ ActorType /\ FileType
    BY TypeParts
<1>1. ASSUME NEW l \in Lifespan, StartLifespan(l) PROVE Goal
    <2>1. l \in Actor /\ UNCHANGED <<https, disturbed, files, saved, loaded>>
        BY <1>1, Actors DEF StartLifespan, store
    <2>2. CASE Makes(l)
        BY <1>0, <2>1, <2>2, MakesTypes DEF FileType
    <2>3. CASE Passed(l) /\ UNCHANGED <<server, start>>
        BY <1>0, <2>1, <2>3, PassedTypes DEF server, start, ServerType, FileType
    <2> QED BY <1>1, <2>2, <2>3, StartServerOutcome DEF StartLifespan
<1>2. ASSUME NEW t \in Task, NEW code \in Code \cup {None}, StartLoad(t, code)
      PROVE  Goal
    <2>1. t \in Actor /\ UNCHANGED <<https, disturbed>>
        BY <1>2, Actors DEF StartLoad
    <2>2. FileType'
        <3>1. files' \in [Names -> Code \cup {None}]
            BY <1>0, <1>2 DEF StartLoad, FileType
        <3>2. files'[Name[t]] \in Code \cup {None}
            BY <3>1, Actors
        <3> QED BY <1>0, <1>2, <3>1, <3>2 DEF StartLoad, FileType
    <2>3. CASE Makes(t)
        BY <1>0, <2>1, <2>2, <2>3, MakesTypes
    <2>4. CASE Passed(t) /\ UNCHANGED <<server, start>>
        BY <1>0, <2>1, <2>2, <2>4, PassedTypes DEF server, start, ServerType
    <2> QED BY <1>2, <2>3, <2>4, StartServerOutcome DEF StartLoad
<1>3. ASSUME NEW t \in Task, CancelStart(t) PROVE Goal
    BY <1>0, <1>3, Actors DEF CancelStart, Goto, server, start, store, ServerType,
                              ActorType, FileType, Roles, PC
<1>4. ASSUME NEW t \in Task, UserbotFetches(t) PROVE Goal
    BY <1>0, <1>4, Actors DEF UserbotFetches, server, start, ServerType, ActorType,
                              FileType, Roles
<1>5. ASSUME NEW t \in Task, EndLoad(t) PROVE Goal
    BY <1>0, <1>5, Actors DEF EndLoad, Goto, server, start, ServerType, ActorType,
                              FileType, Roles, PC
<1>6. ASSUME NEW l \in Lifespan, BeginStop(l) PROVE Goal
    <2>1. ServerType' /\ FileType' /\ https' = https
        BY <1>0, <1>6 DEF BeginStop, ServerType, FileType, store
    <2>2. ActorType' /\ Roles'
        BY <1>0, <1>6, Actors DEF BeginStop, Goto, ActorType, ServerType, Roles, PC
    <2>3. disturbed' \in BOOLEAN
        BY <1>6 DEF BeginStop
    <2> QED BY <1>0, <2>1, <2>2, <2>3
<1>7. ASSUME NEW l \in Lifespan, StopNothing(l) PROVE Goal
    BY <1>0, <1>7, Actors DEF StopNothing, Goto, server, start, store, ServerType,
                              ActorType, FileType, Roles, PC
<1>8. ASSUME NEW l \in Lifespan, FinishStop(l) PROVE Goal
    <2>1. ServerType'
        BY <1>0, <1>8 DEF FinishStop, ServerType
    <2> QED BY <1>0, <1>8, <2>1, Actors
            DEF FinishStop, Goto, start, store, ActorType, FileType, Roles, PC
<1>9. ASSUME NEW a \in Actor, SetUp(a) PROVE Goal
    <2>1. mine[a] \in 1 .. made
        BY <1>0, <1>9 DEF SetUp, ActorType, ServerType, Roles
    <2>2. ServerType' /\ FileType'
        BY <1>0, <1>9, <2>1 DEF SetUp, ServerType, FileType, store
    <2>3. ActorType' /\ Roles'
        BY <1>0, <1>9, Actors DEF SetUp, Goto, ActorType, Roles, PC, Port
    <2> QED BY <1>0, <1>9, <2>2, <2>3 DEF SetUp, store
<1>10. ASSUME NEW a \in Actor, Bind(a) PROVE Goal
    <2>1. ServerType'
        BY <1>0, <1>10 DEF Bind, ServerType, ActorType
    <2>2. ActorType' /\ Roles'
        BY <1>0, <1>10, StartedPasses, PassedTypes DEF Bind, start
    <2> QED BY <1>0, <1>10, <2>1, <2>2 DEF Bind, store, FileType
<1>11. ASSUME NEW a \in Actor, PortBusy(a) PROVE Goal
    <2>1. ServerType' /\ FileType' /\ https' = https /\ disturbed' = disturbed
        BY <1>0, <1>11 DEF PortBusy, ServerType, FileType, store
    <2>2. ActorType'
        BY <1>0, <1>11, Actors DEF PortBusy, Goto, ActorType, ServerType, PC, Port
    <2>3. Roles'
        BY <1>0, <1>11, Actors DEF PortBusy, Goto, ActorType, Roles, PC
    <2> QED BY <1>0, <2>1, <2>2, <2>3
<1>12. ASSUME NEW a \in Actor, BindRaises(a) PROVE Goal
    BY <1>0, <1>12, Actors DEF BindRaises, Goto, server, start, store, ServerType,
                               ActorType, FileType, Roles, PC
<1>13. ASSUME NEW a \in Actor, Undo(a) PROVE Goal
    <2>1. ServerType'
        BY <1>0, <1>13 DEF Undo, ServerType
    <2>2. ActorType' /\ Roles'
        BY <1>0, <1>13, StartedPasses, PassedTypes DEF Undo, start
    <2> QED BY <1>0, <1>13, <2>1, <2>2 DEF Undo, store, FileType
<1>14. ASSUME UNCHANGED vars PROVE Goal
    <2>1. ServerType' /\ ActorType'
        BY <1>0, <1>14 DEF vars, server, start, ServerType, ActorType
    <2>2. FileType' /\ Roles'
        BY <1>0, <1>14 DEF vars, server, start, store, FileType, Roles
    <2> QED BY <1>0, <1>14, <2>1, <2>2 DEF vars, store
<1> HIDE DEF Goal
<1>15. Goal
    BY <1>1, <1>2, <1>3, <1>4, <1>5, <1>6, <1>7, <1>8, <1>9, <1>10, <1>11, <1>12,
       <1>13, <1>14 DEF Next
<1> QED BY <1>15 DEF Goal, TypeOK, ServerType, ActorType, FileType, PC

(* The module store keeps its types: every site is of a runner that was    *)
(* made, on one of the ports that may be tried (start_server).             *)
THEOREM TypeCorrect == Spec => []TypeOK
<1>1. TypeOK /\ Roles /\ [Next]_vars => (TypeOK /\ Roles)'
    BY TypeStep
<1> QED BY <1>1, TypeInit, PTL DEF Spec

-----------------------------------------------------------------------------
(* How a step changes who is busy.                                         *)
LEMMA BusyMove ==
    ASSUME ActorType, NEW a \in Actor, NEW where, pc' = [pc EXCEPT ![a] = where]
    PROVE  /\ where \in {"setup", "binding", "undoing", "stopping"}
                => Busy' = Busy \cup {a}
           /\ where \notin {"setup", "binding", "undoing", "stopping"}
                => Busy' = Busy \ {a}
           /\ \A b \in Actor : b # a => pc'[b] = pc[b]
           /\ pc'[a] = where
BY DEF ActorType, Busy

(* Who only comes or goes past a server that stays as it is disturbs       *)
(* nobody.                                                                 *)
LEMMA PassingKeepsQuiet ==
    ASSUME ActorType, Quiet, NEW a \in Actor, a \notin Busy,
           NEW where \in PC \ {"setup", "binding", "undoing", "stopping"},
           pc' = [pc EXCEPT ![a] = where],
           UNCHANGED <<runner, bound, ready, serving, mine>>
    PROVE  Quiet'
<1>1. Busy' = Busy
    <2>1. Busy' = Busy \ {a}
        BY BusyMove
    <2> QED BY <2>1
<1>2. \A b \in Busy : pc'[b] = pc[b]
    BY BusyMove DEF Busy
<1>3. OneAtATime'
    BY <1>1, <1>2 DEF Quiet, OneAtATime
<1>4. Settled'
    BY <1>1 DEF Quiet, Settled
<1> QED BY <1>3, <1>4 DEF Quiet

(* The busy one gets on with it.                                           *)
LEMMA AloneInBusy ==
    ASSUME Quiet, NEW a \in Busy
    PROVE  /\ Busy = {a} /\ runner # 0 /\ mine[a] = runner /\ serving = {}
           /\ pc[a] \in Starting => bound = 0
           /\ pc[a] = "binding" => runner \in ready
BY DEF Quiet, OneAtATime

LEMMA MakesQuiet ==
    ASSUME ServerType, ActorType, Quiet, NEW a \in Actor, Makes(a)
    PROVE  Quiet'
<1>1. runner = 0 /\ Busy = {}
    BY DEF Makes, Quiet, OneAtATime
<1>2. bound = 0 /\ serving = {}
    BY <1>1 DEF Quiet, Settled
<1>3. Busy' = {a} /\ pc'[a] = "setup"
    BY <1>1, BusyMove DEF Makes
<1>4. runner' # 0 /\ mine'[a] = runner' /\ serving' = {} /\ bound' = 0
    BY <1>2 DEF Makes, ServerType, ActorType
<1> QED BY <1>3, <1>4 DEF Quiet, OneAtATime, Settled

LEMMA QuietStep ==
    ASSUME TypeOK, Roles, ~disturbed => Quiet, [Next]_vars
    PROVE  ~disturbed' => Quiet'
<1> SUFFICES ASSUME ~disturbed' PROVE Quiet'
    OBVIOUS
<1>0. ServerType /\ ActorType
    BY TypeParts
<1>t. disturbed' = disturbed \/ (\E l \in Lifespan : BeginStop(l) /\ Busy = {})
    BY DEF Next, StartLifespan, StartLoad, CancelStart, UserbotFetches, EndLoad,
           BeginStop, StopNothing, FinishStop, SetUp, Bind, PortBusy, BindRaises, Undo,
           vars
<1>q. Quiet
    BY <1>t, TypeParts DEF BeginStop
<1>1. ASSUME NEW a \in Actor, pc[a] = "off", StartServer(a) PROVE Quiet'
    <2>1. a \notin Busy
        BY <1>1 DEF Busy
    <2>2. CASE Makes(a)
        BY <1>0, <1>q, <2>2, MakesQuiet
    <2>3. CASE Passed(a) /\ UNCHANGED <<server, start>>
        BY <1>0, <1>q, <2>1, <2>3, PassingKeepsQuiet DEF Passed, server, start, PC
    <2> QED BY <1>1, <2>2, <2>3, StartServerOutcome
<1>2. ASSUME NEW t \in Task, CancelStart(t) PROVE Quiet'
    BY <1>2 DEF CancelStart
<1>3. ASSUME NEW t \in Task, UserbotFetches(t) PROVE Quiet'
    BY <1>3, <1>q DEF UserbotFetches, server, start, Quiet, OneAtATime, Settled, Busy
<1>4. ASSUME NEW t \in Task, EndLoad(t) PROVE Quiet'
    <2>1. t \in Actor /\ t \notin Busy
        BY <1>4, Actors DEF EndLoad, Busy
    <2> QED BY <1>0, <1>q, <1>4, <2>1, PassingKeepsQuiet
            DEF EndLoad, Goto, server, start, PC
<1>5. ASSUME NEW l \in Lifespan, BeginStop(l) PROVE Quiet'
    <2>1. Busy = {} /\ runner # 0
        BY <1>5 DEF BeginStop
    <2>2. serving = {[runner |-> runner, port |-> bound]}
        BY <1>q, <2>1 DEF Quiet, Settled
    <2>3. serving' = {}
        BY <1>5, <2>2 DEF BeginStop, Sites
    <2>4. Busy' = {l} /\ pc'[l] = "stopping"
        BY <1>0, <1>5, <2>1, BusyMove, Actors DEF BeginStop, Goto
    <2>5. runner' = runner /\ mine'[l] = runner
        BY <1>0, <1>5, Actors DEF BeginStop, ActorType
    <2> QED BY <2>1, <2>3, <2>4, <2>5 DEF Quiet, OneAtATime, Settled, Starting
<1>6. ASSUME NEW l \in Lifespan, StopNothing(l) PROVE Quiet'
    <2>1. l \in Actor /\ l \notin Busy
        BY <1>6, Actors DEF StopNothing, MayStop, Busy
    <2> QED BY <1>0, <1>q, <1>6, <2>1, PassingKeepsQuiet
            DEF StopNothing, Goto, server, start, PC
<1>7. ASSUME NEW l \in Lifespan, FinishStop(l) PROVE Quiet'
    <2>1. l \in Actor /\ l \in Busy
        BY <1>7, Actors DEF FinishStop, Busy
    <2>2. Busy' = {} /\ serving' = {} /\ runner' = 0 /\ bound' = 0
        BY <1>0, <1>q, <1>7, <2>1, AloneInBusy, BusyMove DEF FinishStop, Goto
    <2> QED BY <2>2 DEF Quiet, OneAtATime, Settled
<1>8. ASSUME NEW a \in Actor, SetUp(a) PROVE Quiet'
    <2>1. a \in Busy /\ pc[a] \in Starting
        BY <1>8 DEF SetUp, Busy, Starting
    <2>2. /\ Busy' = {a} /\ serving' = {} /\ bound' = 0 /\ runner' # 0
          /\ mine'[a] = runner' /\ runner' \in ready'
        BY <1>0, <1>q, <1>8, <2>1, AloneInBusy, BusyMove DEF SetUp, Goto
    <2> QED BY <2>2 DEF Quiet, OneAtATime, Settled
<1>9. ASSUME NEW a \in Actor, Bind(a) PROVE Quiet'
    <2>1. a \in Busy /\ pc[a] \in Starting
        BY <1>9 DEF Bind, Busy, Starting
    <2>2. Busy' = {}
        BY <1>0, <1>q, <1>9, <2>1, AloneInBusy, BusyMove, StartedPasses DEF Bind, Passed
    <2>3. /\ runner' = runner /\ runner # 0 /\ bound' = port[a] /\ port[a] # 0
          /\ serving' = {[runner |-> runner, port |-> port[a]]}
        BY <1>0, <1>q, <1>9, <2>1, AloneInBusy, Actors DEF Bind, ActorType, Port
    <2> QED BY <2>2, <2>3 DEF Quiet, OneAtATime, Settled
<1>10. ASSUME NEW a \in Actor, PortBusy(a) PROVE Quiet'
    <2>1. a \in Busy /\ pc[a] \in Starting
        BY <1>10 DEF PortBusy, Busy, Starting
    <2>2. CASE UNCHANGED <<runner, bound, ready, serving, pc, mine>>
        BY <1>q, <2>2 DEF Quiet, OneAtATime, Settled, Busy
    <2>3. CASE pc' = [pc EXCEPT ![a] = "undoing"] /\ mine' = [mine EXCEPT ![a] = runner]
               /\ serving' = serving \ Sites(runner) /\ UNCHANGED <<runner, bound>>
        <3>1. /\ Busy' = {a} /\ pc'[a] = "undoing" /\ serving' = {} /\ bound' = 0
              /\ runner' # 0 /\ mine'[a] = runner'
            BY <1>0, <1>q, <2>1, <2>3, AloneInBusy, BusyMove DEF ActorType
        <3> QED BY <3>1 DEF Quiet, OneAtATime, Settled
    <2> QED BY <1>10, <2>2, <2>3 DEF PortBusy, Goto
<1>11. ASSUME NEW a \in Actor, BindRaises(a) PROVE Quiet'
    <2>1. a \in Busy
        BY <1>11 DEF BindRaises, Busy
    <2> QED BY <1>q, <1>11, <2>1, AloneInBusy DEF BindRaises
<1>12. ASSUME NEW a \in Actor, Undo(a) PROVE Quiet'
    <2>1. a \in Busy /\ pc[a] \in Starting
        BY <1>12 DEF Undo, Busy, Starting
    <2>2. Busy' = {}
        BY <1>0, <1>q, <1>12, <2>1, AloneInBusy, BusyMove, StartedPasses DEF Undo, Passed
    <2>3. runner' = 0 /\ bound' = 0 /\ serving' = {}
        BY <1>q, <1>12, <2>1, AloneInBusy DEF Undo
    <2> QED BY <2>2, <2>3 DEF Quiet, OneAtATime, Settled
<1>13. CASE UNCHANGED vars
    BY <1>q, <1>13 DEF vars, server, start, Quiet, OneAtATime, Settled, Busy
<1> QED BY <1>1, <1>2, <1>3, <1>4, <1>5, <1>6, <1>7, <1>8, <1>9, <1>10, <1>11,
           <1>12, <1>13, Actors DEF Next, StartLifespan, StartLoad

LEMMA InvInit == Init => IInv
<1> SUFFICES ASSUME Init PROVE Quiet
    BY TypeInit DEF IInv
<1>1. Busy = {}
    BY DEF Init, Busy
<1> QED BY <1>1 DEF Init, Quiet, OneAtATime, Settled

LEMMA InvStep == IInv /\ [Next]_vars => IInv'
BY TypeStep, QuietStep DEF IInv

LEMMA Inductive == Spec => []IInv
BY InvInit, InvStep, PTL DEF Spec

(* Between stops, get_bound_port is the port the server listens on, and    *)
(* nothing listens elsewhere, as long as no stop has overlapped a start or *)
(* another stop and no start was cancelled (start_server, stop_server).    *)
THEOREM PortIsActual == Spec => []BoundIsActual
<1>1. IInv => BoundIsActual
    <2> SUFFICES ASSUME IInv, ~disturbed, \A l \in Lifespan : pc[l] # "stopping"
                 PROVE  {s.port : s \in serving} = (IF bound = 0 THEN {} ELSE {bound})
        BY DEF BoundIsActual
    <2>1. CASE Busy = {}
        <3>1. CASE runner = 0
            BY <2>1, <3>1 DEF IInv, Quiet, Settled
        <3>2. CASE runner # 0
            <4>1. bound # 0 /\ serving = {[runner |-> runner, port |-> bound]}
                BY <2>1, <3>2 DEF IInv, Quiet, Settled
            <4>2. {s.port : s \in {[runner |-> runner, port |-> bound]}} = {bound}
                OBVIOUS
            <4> QED BY <4>1, <4>2
        <3> QED BY <3>1, <3>2
    <2>2. CASE Busy # {}
        <3>1. PICK a \in Busy : pc[a] \in Starting
            BY <2>2, Actors DEF Busy, Starting, IInv, Roles
        <3> QED BY <3>1, AloneInBusy DEF IInv
    <2> QED BY <2>1, <2>2
<1> QED BY <1>1, Inductive, PTL

(* In the same histories there is one module server, which stop_server can *)
(* stop.                                                                   *)
THEOREM OneServer == Spec => []NoStrayServer
<1>1. IInv => NoStrayServer
    BY DEF IInv, Quiet, OneAtATime, Settled, NoStrayServer
<1> QED BY <1>1, Inductive, PTL

(* In the same histories, a call that finds a _runner may rely on it: it   *)
(* listens, or somebody is starting or stopping it.                        *)
THEOREM RunnerBacked == Spec => []RunnerIsAlive
<1>1. IInv => RunnerIsAlive
    <2> SUFFICES ASSUME IInv, ~disturbed, runner # 0, Sites(runner) = {}
                 PROVE  \E a \in Busy : mine[a] = runner
        BY DEF RunnerIsAlive
    <2>1. Busy # {}
        <3> SUFFICES ASSUME Busy = {} PROVE FALSE
            OBVIOUS
        <3>1. serving = {[runner |-> runner, port |-> bound]}
            BY DEF IInv, Quiet, Settled
        <3>2. [runner |-> runner, port |-> bound] \in Sites(runner)
            BY <3>1 DEF Sites
        <3> QED BY <3>2
    <2> QED BY <2>1 DEF IInv, Quiet, OneAtATime
<1> QED BY <1>1, Inductive, PTL

-----------------------------------------------------------------------------
(* A call that waits for no file yet may move, the files as they are.      *)
LEMMA MoveKeepsFile ==
    ASSUME ActorType, OwnFile, NEW a \in Actor, pc[a] \notin {"off", "waiting"},
           NEW where, pc' = [pc EXCEPT ![a] = where], UNCHANGED store
    PROVE  OwnFile'
<1> SUFFICES ASSUME NEW t \in Task
             PROVE  /\ pc'[t] # "off" => saved[t] = files[Name[t]]
                    /\ loaded[t] # None => pc'[t] = "waiting" /\ loaded[t] = saved[t]
    BY DEF OwnFile, store
<1>1. t \in Actor
    BY Actors
<1>2. CASE t = a
    BY <1>1, <1>2 DEF OwnFile, ActorType
<1>3. CASE t # a
    BY <1>1, <1>3 DEF OwnFile, ActorType
<1> QED BY <1>2, <1>3

LEMMA OwnFileStep ==
    ASSUME DistinctNames, TypeOK, Roles, OwnFile, [Next]_vars
    PROVE  OwnFile'
<1>0. ActorType /\ FileType
    BY TypeParts
<1>1. ASSUME NEW l \in Lifespan, StartLifespan(l) PROVE OwnFile'
    <2>1. \A t \in Task : pc'[t] = pc[t]
        BY <1>0, <1>1, StartServerOutcome, Actors
           DEF StartLifespan, Makes, Passed, ActorType
    <2> QED BY <1>1, <2>1 DEF StartLifespan, store, OwnFile
<1>2. ASSUME NEW t \in Task, NEW code \in Code \cup {None}, StartLoad(t, code)
      PROVE  OwnFile'
    <2>1. \A u \in Task : u # t => /\ pc'[u] = pc[u] /\ saved'[u] = saved[u]
                                   /\ loaded'[u] = loaded[u]
        BY <1>0, <1>2, StartServerOutcome, Actors
           DEF StartLoad, Makes, Passed, ActorType, FileType
    <2>2. \A u \in Task : u # t => files'[Name[u]] = files[Name[u]]
        BY <1>0, <1>2, Actors DEF StartLoad, FileType, DistinctNames
    <2>3. saved'[t] = files'[Name[t]] /\ loaded'[t] = None
        BY <1>0, <1>2 DEF StartLoad, FileType
    <2> QED BY <2>1, <2>2, <2>3 DEF OwnFile
<1>3. ASSUME NEW t \in Task, CancelStart(t) PROVE OwnFile'
    BY <1>0, <1>3, Actors DEF CancelStart, Goto, store, OwnFile, ActorType
<1>4. ASSUME NEW t \in Task, UserbotFetches(t) PROVE OwnFile'
    BY <1>0, <1>4 DEF UserbotFetches, OwnFile, FileType
<1>5. ASSUME NEW t \in Task, EndLoad(t) PROVE OwnFile'
    BY <1>0, <1>5, Actors DEF EndLoad, Goto, OwnFile, ActorType, FileType
<1>6. ASSUME NEW l \in Lifespan, BeginStop(l) \/ StopNothing(l) \/ FinishStop(l)
      PROVE  OwnFile'
    BY <1>0, <1>6, Actors
       DEF BeginStop, StopNothing, FinishStop, Goto, store, OwnFile, ActorType
<1>7. ASSUME NEW a \in Actor, SetUp(a) \/ BindRaises(a) PROVE OwnFile'
    BY <1>0, <1>7, MoveKeepsFile DEF SetUp, BindRaises, Goto
<1>8. ASSUME NEW a \in Actor, Bind(a) \/ Undo(a) PROVE OwnFile'
    <2>1. Passed(a) /\ pc[a] \in {"binding", "undoing"} /\ UNCHANGED store
        BY <1>8, StartedPasses DEF Bind, Undo
    <2> QED BY <1>0, <2>1 DEF Passed, store, OwnFile, ActorType
<1>9. ASSUME NEW a \in Actor, PortBusy(a) PROVE OwnFile'
    <2>1. CASE UNCHANGED pc
        BY <1>9, <2>1 DEF PortBusy, store, OwnFile
    <2>2. CASE Goto(a, "undoing")
        BY <1>0, <1>9, <2>2, MoveKeepsFile DEF PortBusy, Goto
    <2> QED BY <1>9, <2>1, <2>2 DEF PortBusy
<1>10. CASE UNCHANGED vars
    BY <1>10 DEF vars, store, OwnFile
<1> QED BY <1>1, <1>2, <1>3, <1>4, <1>5, <1>6, <1>7, <1>8, <1>9, <1>10 DEF Next

(* What the userbot loads is what the call saved, where no two calls are   *)
(* given one name, whatever the sessions and the server do (load_module:   *)
(* "saves the text to modules/<name>.py (overwrites) and loads it").       *)
THEOREM SavedSourceLoads ==
    ASSUME DistinctNames PROVE Spec => []SavedIsLoaded
<1>1. Init => OwnFile
    BY DEF Init, OwnFile, Actor
<1>2. TypeOK /\ Roles /\ OwnFile /\ [Next]_vars => (TypeOK /\ Roles /\ OwnFile)'
    BY TypeStep, OwnFileStep
<1>3. OwnFile => SavedIsLoaded
    BY DEF OwnFile, SavedIsLoaded
<1> QED BY TypeInit, <1>1, <1>2, <1>3, PTL DEF Spec
=============================================================================
