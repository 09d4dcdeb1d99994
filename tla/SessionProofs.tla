--------------------------- MODULE SessionProofs ---------------------------
(***************************************************************************)
(* Theorems about the connections Connection opens: as long as reconnects  *)
(* do not overlap, and until an MCP session ends beside others, the server *)
(* has one open at a time, under the lock, and so keeps the promise of     *)
(* ExclusiveSession.  Calls may be cancelled.                              *)
(***************************************************************************)
EXTENDS ConnectionProofs

(* The client a call has disconnected to reject, recover or replace it.    *)
Disconnecting == Rejecting \cup {"relock", "cleanup", "reconnect"}

NoneLive == \A c \in Client : ~Live(c)

(* Only _client is ever open, and not while a call replaces it or the      *)
(* process goes down.                                                      *)
OnlyClientLive == \A c \in Client : Live(c) => c = client

ClosedWhileReplaced == \A t \in Task : pc[t] \in Disconnecting => NoneLive

OneReconnect ==
    \A s, t \in Task : pc[s] = "reconnect" /\ pc[t] = "reconnect" => s = t

ClosedWhenDown == proc # "run" => NoneLive

Connected == OnlyClientLive /\ ClosedWhileReplaced /\ OneReconnect /\ ClosedWhenDown

SInv == IInv /\ Connected

-----------------------------------------------------------------------------
(* What the invariant says of one state.                                   *)
LEMMA InvFacts ==
    ASSUME SInv
    PROVE  /\ TypeOK /\ ended = 0
           /\ client = NoClient => NoneLive
           /\ \A t \in Task : pc[t] \in Opening => flock = "server" /\ connectLock = t
           /\ \A t \in Task : pc[t] \in Pooling \cup {"sleep"} => NoneLive
           /\ \A t \in Task : pc[t] \in Using => client # NoClient /\ flock = "server"
           /\ flock # "server" => NoneLive
<1>1. TypeOK /\ ended = 0 /\ ClientNeedsLock /\ LockedSection /\ UsersHaveClient
    BY DEF SInv, IInv
<1>2. client = NoClient => NoneLive
    BY ConnectionAssumption DEF SInv, Connected, OnlyClientLive, NoneLive
<1>3. flock # "server" => client = NoClient
    BY <1>1 DEF ClientNeedsLock
<1>4. \A t \in Task : pc[t] \in Opening => flock = "server" /\ connectLock = t
    BY <1>1 DEF LockedSection
<1>5. \A t \in Task : pc[t] \in Pooling \cup {"sleep"} => NoneLive
    BY <1>1, <1>2 DEF LockedSection
<1>6. \A t \in Task : pc[t] \in Using => client # NoClient /\ flock = "server"
    BY <1>1, <1>3 DEF UsersHaveClient
<1> QED BY <1>1, <1>2, <1>3, <1>4, <1>5, <1>6

(* Disconnecting _client leaves nothing open.                              *)
LEMMA CloseLeavesNone ==
    ASSUME SInv, CloseClient
    PROVE  NoneLive'
<1>1. TypeOK /\ OnlyClientLive
    BY DEF SInv, IInv, Connected
<1>2. CASE client = NoClient
    BY <1>1, <1>2, ConnectionAssumption DEF CloseClient, OnlyClientLive, NoneLive, Live
<1>3. CASE client # NoClient
    BY <1>1, <1>3 DEF CloseClient, OnlyClientLive, NoneLive, Live, TypeOK
<1> QED BY <1>2, <1>3

(* A step that opens nothing and leaves _client alone, and whose calls go  *)
(* on to nothing that replaces a client, keeps the invariant.              *)
LEMMA QuietStep ==
    ASSUME SInv, UNCHANGED <<client, proc>>,
           \A c \in Client : Live(c)' => Live(c),
           \A t \in Task : pc'[t] \in Disconnecting => pc[t] \in Disconnecting,
           \A t \in Task : pc'[t] = "reconnect" => pc[t] = "reconnect"
    PROVE  Connected'
<1>1. OnlyClientLive'
    BY DEF SInv, Connected, OnlyClientLive
<1>2. ClosedWhileReplaced'
    BY DEF SInv, Connected, ClosedWhileReplaced, NoneLive
<1>3. OneReconnect'
    BY DEF SInv, Connected, OneReconnect
<1>4. ClosedWhenDown'
    BY DEF SInv, Connected, ClosedWhenDown, NoneLive
<1> QED BY <1>1, <1>2, <1>3, <1>4 DEF Connected

(* So does one after which nothing is open.                                *)
LEMMA ClosedStep ==
    ASSUME NoneLive', OneReconnect'
    PROVE  Connected'
BY DEF Connected, OnlyClientLive, ClosedWhileReplaced, ClosedWhenDown, NoneLive

(* One call goes elsewhere: what its location was stands for the rest.     *)
LEMMA OneMoves ==
    ASSUME TypeOK, NEW t \in Task, NEW where \in PC, Goto(t, where),
           where \notin Disconnecting
    PROVE  /\ \A s \in Task : pc'[s] \in Disconnecting => pc[s] \in Disconnecting
           /\ \A s \in Task : pc'[s] = "reconnect" => pc[s] = "reconnect"
           /\ \A s \in Task : pc'[s] = "reconnect" => s # t
BY DEF TypeOK, Goto, Disconnecting

LEMMA OneReturns ==
    ASSUME TypeOK, NEW t \in Task, Return(t)
    PROVE  /\ \A s \in Task : pc'[s] \in Disconnecting => pc[s] \in Disconnecting
           /\ \A s \in Task : pc'[s] = "reconnect" => pc[s] = "reconnect"
           /\ \A s \in Task : pc'[s] = "reconnect" => s # t
BY OneMoves DEF Return, PC, Disconnecting, Rejecting

(* A client is opened when none is, by the only call that replaces one.    *)
LEMMA OpenStep ==
    ASSUME SInv, NoneLive, NEW c \in Client,
           client' = c, status' = [status EXCEPT ![c] = "up"], proc' = "run",
           \A s \in Task : pc'[s] \notin Disconnecting
    PROVE  Connected'
<1>1. OnlyClientLive'
    BY DEF SInv, IInv, TypeOK, NoneLive, OnlyClientLive, Live
<1>2. ClosedWhileReplaced'
    BY DEF ClosedWhileReplaced
<1>3. OneReconnect' /\ ClosedWhenDown'
    BY DEF OneReconnect, ClosedWhenDown, Disconnecting
<1> QED BY <1>1, <1>2, <1>3 DEF Connected

(* The steps of _connect_locked, in which no other call replaces a client. *)
LEMMA OpeningStep ==
    ASSUME SInv, NEW t \in Task, pc[t] \in Opening, Step(t)
    PROVE  Connected'
<1>1. /\ TypeOK
      /\ connectLock = t /\ t # NoTask
      /\ OneReconnect
    BY InvFacts, ConnectionAssumption DEF SInv, Connected
<1>2. \A s \in Task : s # t => pc[s] \notin Opening \cup Using
    BY <1>1, InvFacts DEF SInv, IInv, UsersHaveClient
<1>3. proc = "run"
    BY Locations DEF SInv, IInv, UsersHaveClient
<1>4. pc[t] # "reconnect" /\ \A s \in Task : s # t => pc[s] # "reconnect"
    BY <1>2, Locations DEF Using
<1>5. \/ PoolConnects(t) \/ PoolFails(t)
      \/ Authorized(t) \/ Unauthorized(t) \/ Reject(t) \/ CheckRaises(t)
      \/ KillStaleSession(t) \/ RetryConnect(t) \/ CleanUp(t)
    BY DEF Step, ReuseClient, RefuseLocked, BeginConnect, ReportRefusal, ResolveOk,
       ResolveFails, Send, FinishPoll, FetchEnds, FetchGivesUp, BeginReset,
       ResetConnects, ResetFails, Opening, Pooling, Checking, Rejecting
<1>a. ASSUME NEW where \in PC, Goto(t, where), where # "reconnect" PROVE OneReconnect'
    BY <1>a, <1>1, <1>4 DEF OneReconnect, Goto, TypeOK
<1>b. ASSUME Abandon(t), UNCHANGED <<status, proc>>, NoneLive PROVE Connected'
  <2>1. NoneLive'
      BY <1>b DEF NoneLive, Live
  <2>2. OneReconnect'
      BY <1>a, <1>b DEF Abandon, Return, PC
  <2> QED BY <2>1, <2>2, ClosedStep
<1>6. CASE PoolConnects(t)
  <2>1. NoneLive
      BY <1>6, InvFacts DEF PoolConnects
  <2>2. PICK c \in Client : client' = c /\ status' = [status EXCEPT ![c] = "up"]
      BY <1>6 DEF PoolConnects
  <2>3. pc'[t] \notin Disconnecting /\ \A s \in Task : s # t => pc'[s] = pc[s]
      BY <1>6, <1>1 DEF PoolConnects, Goto, TypeOK, Disconnecting, Rejecting
  <2>4. \A s \in Task : s # t => pc[s] \notin Disconnecting
      BY <1>2 DEF Disconnecting, Opening, Using
  <2>5. proc' = "run"
      BY <1>6, <1>3 DEF PoolConnects, process
  <2> QED BY <2>1, <2>2, <2>3, <2>4, <2>5, OpenStep
<1>7. CASE PoolFails(t)
  <2>1. NoneLive
      BY <1>7, InvFacts DEF PoolFails
  <2> QED BY <1>7, <2>1, <1>b DEF PoolFails, process
<1>8. CASE Authorized(t)
  <2>1. Goto(t, "resolve") /\ UNCHANGED <<client, status, proc>>
      BY <1>8 DEF Authorized, process
  <2>2. "resolve" \in PC \ Disconnecting
      BY DEF PC, Using, Disconnecting, Rejecting
  <2> QED BY <1>1, <2>1, <2>2, OneMoves, QuietStep DEF Live
<1>9. CASE Unauthorized(t)
  <2>1. NoneLive'
      BY <1>9, CloseLeavesNone DEF Unauthorized
  <2>2. OneReconnect'
      BY <1>9, <1>a DEF Unauthorized, PC, Opening, Rejecting
  <2> QED BY <2>1, <2>2, ClosedStep
<1>10. CASE Reject(t)
  <2>1. NoneLive
      BY <1>10 DEF Reject, SInv, Connected, ClosedWhileReplaced, Disconnecting
  <2> QED BY <1>10, <2>1, <1>b DEF Reject, process
<1>11. CASE CheckRaises(t)
  <2>1. NoneLive'
      BY <1>11, CloseLeavesNone DEF CheckRaises
  <2>2. OneReconnect'
      BY <1>11, <1>a DEF CheckRaises, PC, Opening
  <2> QED BY <2>1, <2>2, ClosedStep
<1>12. CASE KillStaleSession(t)
  <2>1. NoneLive'
      BY <1>12 DEF KillStaleSession, SInv, Connected, ClosedWhileReplaced,
                   Disconnecting, NoneLive, Live
  <2>2. OneReconnect'
      BY <1>12, <1>a DEF KillStaleSession, PC, Opening
  <2> QED BY <2>1, <2>2, ClosedStep
<1>13. CASE RetryConnect(t)
  <2>1. Goto(t, "pool2") /\ UNCHANGED <<client, status, proc>>
      BY <1>13 DEF RetryConnect, server, process
  <2>2. "pool2" \in PC \ Disconnecting
      BY DEF PC, Opening, Pooling, Disconnecting, Rejecting
  <2> QED BY <1>1, <2>1, <2>2, OneMoves, QuietStep DEF Live
<1>14. CASE CleanUp(t)
  <2>1. NoneLive
      BY <1>14 DEF CleanUp, SInv, Connected, ClosedWhileReplaced, Disconnecting
  <2> QED BY <1>14, <2>1, <1>b DEF CleanUp, process
<1> QED BY <1>5, <1>6, <1>7, <1>8, <1>9, <1>10, <1>11, <1>12, <1>13, <1>14

(* Reconnects do not overlap: they wait for each other, or there is one    *)
(* call.                                                                   *)
OneAtATime == OverlappingResets => \A s, t \in Task : s = t

(* The steps of a call outside _connect_locked.                            *)
LEMMA UsingStep ==
    ASSUME OneAtATime, SInv, NEW t \in Task, pc[t] \notin Opening, Step(t)
    PROVE  Connected'
<1>1. TypeOK /\ OneReconnect
    BY InvFacts DEF SInv, Connected
<1>2. \/ ReuseClient(t) \/ RefuseLocked(t) \/ BeginConnect(t) \/ ReportRefusal(t)
      \/ ResolveOk(t) \/ ResolveFails(t) \/ Send(t) \/ FinishPoll(t)
      \/ FetchEnds(t) \/ FetchGivesUp(t) \/ ResetFails(t)
      \/ BeginReset(t) \/ ResetConnects(t)
    BY DEF Step, PoolConnects, PoolFails, Authorized, Unauthorized, Reject, CheckRaises,
       KillStaleSession, RetryConnect, CleanUp, Opening, Pooling, Checking, Rejecting
<1>3. CASE BeginReset(t)
  <2>1. NoneLive'
      BY <1>3, CloseLeavesNone DEF BeginReset
  <2>2. \A s \in Task : s # t => pc[s] # "reconnect"
      BY <1>3 DEF BeginReset, MayReset, OneAtATime
  <2>3. OneReconnect'
      BY <1>1, <1>3, <2>2 DEF BeginReset, Goto, OneReconnect, TypeOK
  <2> QED BY <2>1, <2>3, ClosedStep
<1>4. CASE ResetConnects(t)
  <2>1. pc[t] = "reconnect" /\ pc[t] \in Using
      BY <1>4 DEF ResetConnects, Using
  <2>2. NoneLive
      BY <2>1 DEF SInv, Connected, ClosedWhileReplaced, Disconnecting
  <2>3. connectLock = NoTask /\ proc = "run"
      BY <2>1, Locations DEF SInv, IInv, UsersHaveClient
  <2>4. \A s \in Task : s # t => pc[s] \notin Disconnecting
    <3>1. \A s \in Task : pc[s] \notin Opening
        BY <2>3, InvFacts, ConnectionAssumption
    <3>2. \A s \in Task : s # t => pc[s] # "reconnect"
        BY <1>1, <2>1 DEF OneReconnect
    <3> QED BY <3>1, <3>2 DEF Disconnecting, Opening
  <2>5. PICK c \in Client : client' = c /\ status' = [status EXCEPT ![c] = "up"]
      BY <1>4 DEF ResetConnects
  <2>6. pc'[t] \notin Disconnecting /\ \A s \in Task : s # t => pc'[s] = pc[s]
      BY <1>4, <1>1 DEF ResetConnects, Goto, TypeOK, Disconnecting, Rejecting
  <2>7. proc' = "run"
      BY <1>4, <2>3 DEF ResetConnects, process
  <2> QED BY <2>2, <2>4, <2>5, <2>6, <2>7, OpenStep
<1>5. CASE ~BeginReset(t) /\ ~ResetConnects(t)
  <2>1. UNCHANGED <<client, status, proc>>
      BY <1>2, <1>5 DEF ReuseClient, RefuseLocked, BeginConnect, ReportRefusal, ResolveOk,
         ResolveFails, Send, FinishPoll, FetchEnds, FetchGivesUp, ResetFails, server,
         process
  <2>2. Return(t) \/ \E where \in {"resolve", "refused", "pool1", "send", "fetch", "poll"} :
                         Goto(t, where)
      BY <1>2, <1>5 DEF ReuseClient, RefuseLocked, BeginConnect, ReportRefusal, ResolveOk,
         ResolveFails, Send, FinishPoll, FetchEnds, FetchGivesUp, ResetFails, AfterResolve
  <2>3. {"resolve", "refused", "pool1", "send", "fetch", "poll"} \subseteq PC \ Disconnecting
      BY DEF PC, Opening, Pooling, Using, Disconnecting, Rejecting
  <2> QED BY <1>1, <2>1, <2>2, <2>3, OneMoves, OneReturns, QuietStep DEF Live
<1> QED BY <1>3, <1>4, <1>5

-----------------------------------------------------------------------------
LEMMA SessionInit == Init => SInv
<1> SUFFICES ASSUME Init PROVE SInv
    OBVIOUS
<1>1. IInv
    BY LockInit
<1>2. NoneLive
    BY DEF Init, NoneLive, Live
<1>3. OneReconnect
    BY DEF Init, OneReconnect
<1> QED BY <1>1, <1>2, <1>3 DEF SInv, Connected, OnlyClientLive, ClosedWhileReplaced,
                                ClosedWhenDown, NoneLive

LEMMA SessionStep ==
    ASSUME OneAtATime, SInv, [Next]_vars, ended' = 0
    PROVE  SInv'
<1>1. TypeOK /\ TypeOK'
    BY TypeStep DEF SInv, IInv
<1>2. IInv'
    BY LockStep DEF SInv
<1> SUFFICES Connected'
    BY <1>2 DEF SInv
<1>3. ASSUME NEW t \in Task, NEW k \in Kind, StartCall(t, k) PROVE Connected'
  <2>1. "acquire" \in PC \ Disconnecting
      BY DEF PC, Disconnecting, Rejecting
  <2>2. Goto(t, "acquire") /\ UNCHANGED <<client, status, proc>>
      BY <1>3 DEF StartCall, process
  <2> QED BY <1>1, <2>1, <2>2, OneMoves, QuietStep DEF Live
<1>4. ASSUME NEW t \in Task, Cancel(t) PROVE Connected'
  <2>1. Return(t) /\ UNCHANGED <<client, status, proc>>
      BY <1>4 DEF Cancel, process
  <2> QED BY <1>1, <2>1, OneReturns, QuietStep DEF Live
<1>5. ASSUME NEW t \in Task, Step(t) PROVE Connected'
    BY <1>5, OpeningStep, UsingStep
<1>6. CASE Process
  <2>1. ASSUME NoneLive', UNCHANGED pc PROVE Connected'
    <3>1. OneReconnect'
        BY <2>1 DEF SInv, Connected, OneReconnect
    <3> QED BY <2>1, <3>1, ClosedStep
  <2>2. CASE BeginShutdown
    <3>1. NoneLive'
        BY <2>2, CloseLeavesNone DEF BeginShutdown
    <3> QED BY <2>1, <2>2, <3>1 DEF BeginShutdown, tasks
  <2>3. CASE FinishShutdown \/ Boot
    <3>1. NoneLive /\ UNCHANGED <<status, pc>>
        BY <2>3 DEF FinishShutdown, Boot, server, tasks, SInv, Connected, ClosedWhenDown
    <3> QED BY <2>1, <3>1 DEF NoneLive, Live
  <2>4. CASE Exit \/ Crash
    <3>1. Die
        BY <2>4 DEF Exit, Crash
    <3>2. NoneLive' /\ OneReconnect'
        BY <3>1 DEF Die, NoneLive, Live, OneReconnect
    <3> QED BY <3>2, ClosedStep
  <2>5. ~BeginSessionEnd /\ ~FinishSessionEnd
      BY DEF BeginSessionEnd, FinishSessionEnd, SInv, IInv, UsersHaveClient
  <2> QED BY <1>6, <2>2, <2>3, <2>4, <2>5 DEF Process
<1>7. CASE World
  <2>1. UNCHANGED <<client, proc, pc>>
      BY <1>7 DEF World, NetChanges, GoesStale, OtherStarts, OtherEnds, server, tasks,
                  process
  <2>2. \A c \in Client : Live(c)' => Live(c)
      BY <1>1, <1>7 DEF World, NetChanges, GoesStale, OtherStarts, OtherEnds, server,
                        TypeOK, Live
  <2> QED BY <2>1, <2>2, QuietStep
<1>8. CASE UNCHANGED vars
    BY <1>8, QuietStep DEF vars, server, tasks, process, Live
<1> QED BY <1>3, <1>4, <1>5, <1>6, <1>7, <1>8 DEF Next

(* The invariant of the whole specification: a session that ends beside    *)
(* others breaks what it says, and a process that dies restores it.        *)
UntilSessionEnd == TypeOK /\ (ended = 0 => SInv)

LEMMA UntilInit == Init => UntilSessionEnd
BY SessionInit, TypeInit DEF UntilSessionEnd

LEMMA UntilStep ==
    ASSUME OneAtATime, UntilSessionEnd, [Next]_vars
    PROVE  UntilSessionEnd'
<1>1. TypeOK /\ TypeOK'
    BY TypeStep DEF UntilSessionEnd
<1>2. ASSUME ended = 0, ended' = 0 PROVE SInv'
    BY <1>2, SessionStep DEF UntilSessionEnd
<1>3. ASSUME ended # 0, ended' = 0 PROVE SInv'
  <2>1. Die
      BY <1>1, <1>3, OnlyDyingForgets
  <2>2. IInv'
      BY <1>1, <1>3, <2>1, DieFreesLocks DEF IInv
  <2>3. NoneLive' /\ OneReconnect'
      BY <2>1 DEF Die, NoneLive, Live, OneReconnect
  <2> QED BY <2>2, <2>3, ClosedStep DEF SInv
<1> QED BY <1>1, <1>2, <1>3 DEF UntilSessionEnd

(* Where no session ends beside others, the invariant always holds.        *)
LEMMA NoneEnds ==
    ASSUME SessionEnds = 0, UntilSessionEnd
    PROVE  SInv
<1>1. ended = 0
    BY DEF UntilSessionEnd, TypeOK
<1> QED BY <1>1 DEF UntilSessionEnd

(* Whatever calls connect, reconnect one after the other, fail or are      *)
(* cancelled, the server writes the session through one client at a time.  *)
THEOREM OneConnection ==
    ASSUME SessionEnds = 0, OneAtATime
    PROVE  Spec => []OneLiveClient
<1>1. UntilSessionEnd => OneLiveClient
    BY NoneEnds DEF SInv, Connected, OnlyClientLive, OneLiveClient
<1>2. UntilSessionEnd /\ [Next]_vars => UntilSessionEnd'
    BY UntilStep
<1> QED BY <1>1, <1>2, UntilInit, PTL DEF Spec

(* No other process has the lock of the session file while the server has  *)
(* a connection open.                                                      *)
THEOREM WritersExcluded ==
    ASSUME SessionEnds = 0, OneAtATime
    PROVE  Spec => []NoConcurrentWriters
<1>1. UntilSessionEnd => NoConcurrentWriters
    BY NoneEnds, InvFacts DEF NoConcurrentWriters, NoneLive
<1>2. UntilSessionEnd /\ [Next]_vars => UntilSessionEnd'
    BY UntilStep
<1> QED BY <1>1, <1>2, UntilInit, PTL DEF Spec

(* The only step that removes a journal of this machine's session file is  *)
(* _kill_stale_session, under the lock and with nothing open.              *)
LEMMA JournalRemoved ==
    ASSUME SInv, [Next]_vars, journal, ~journal'
    PROVE  flock = "server" /\ NoneLive
<1>1. \E t \in Task : KillStaleSession(t)
  <2>1. ASSUME NEW t \in Task, Step(t) PROVE KillStaleSession(t)
      BY <2>1 DEF Step, ReuseClient, RefuseLocked, BeginConnect, ReportRefusal,
         PoolConnects, PoolFails, Authorized, Unauthorized, Reject, CheckRaises,
         RetryConnect, CleanUp, ResolveOk, ResolveFails, Send, FinishPoll, FetchEnds,
         FetchGivesUp, BeginReset, ResetConnects, ResetFails, world
  <2>2. ASSUME NEW t \in Task PROVE ~Cancel(t) /\ \A k \in Kind : ~StartCall(t, k)
      BY DEF Cancel, StartCall, world
  <2>3. ~Process
      BY DEF Process, BeginShutdown, FinishShutdown, Exit, Crash, Boot,
         BeginSessionEnd, FinishSessionEnd, world
  <2>4. ~World
      BY DEF World, NetChanges, GoesStale, OtherStarts, OtherEnds, world
  <2>5. ~UNCHANGED vars
      BY DEF vars, world
  <2> QED BY <2>1, <2>2, <2>3, <2>4, <2>5 DEF Next
<1>2. PICK t \in Task : pc[t] = "relock"
    BY <1>1 DEF KillStaleSession
<1>3. flock = "server"
    BY <1>2, InvFacts DEF Opening
<1>4. NoneLive
    BY <1>2 DEF SInv, Connected, ClosedWhileReplaced, Disconnecting
<1> QED BY <1>3, <1>4

(* _kill_stale_session deletes only what a dead writer left.               *)
THEOREM JournalOfTheDead ==
    ASSUME SessionEnds = 0, OneAtATime
    PROVE  Spec => KillOnlyStale
<1> DEFINE Removal == journal /\ ~journal' =>
                          flock = "server" /\ \A c \in Client : ~Live(c)
<1>1. UntilSessionEnd /\ [Next]_vars => UntilSessionEnd'
    BY UntilStep
<1>2. UntilSessionEnd /\ [Next]_vars => [Removal]_vars
    BY NoneEnds, JournalRemoved DEF NoneLive
<1> QED BY <1>1, <1>2, UntilInit, PTL DEF Spec, KillOnlyStale

-----------------------------------------------------------------------------
(* The server implements ExclusiveSession.  What a step is of the abstract *)
(* one follows from what it does to the lock and to what is open.          *)
LEMMA KeepsSession ==
    ASSUME UNCHANGED <<flock, status>>
    PROVE  [Session!Next]_(Session!vars)
BY DEF Session!vars, Live

LEMMA OpensSession ==
    ASSUME flock = "server", UNCHANGED flock, NoneLive, ~NoneLive'
    PROVE  [Session!Next]_(Session!vars)
<1>1. ~(\E c \in Client : Live(c))
    BY DEF NoneLive
<1>2. (\E c \in Client : Live(c))' = TRUE
    BY DEF NoneLive
<1>3. Session!ServerOpens
    BY <1>1, <1>2 DEF Session!ServerOpens
<1> QED BY <1>3 DEF Session!Next

LEMMA ClosesSession ==
    ASSUME UNCHANGED flock, NoneLive'
    PROVE  [Session!Next]_(Session!vars)
<1>1. (\E c \in Client : Live(c))' = FALSE
    BY DEF NoneLive
<1>2. CASE NoneLive
  <2>1. (\E c \in Client : Live(c)) = FALSE
      BY <1>2 DEF NoneLive
  <2> QED BY <1>1, <2>1 DEF Session!vars
<1>3. CASE ~NoneLive
  <2>1. \E c \in Client : Live(c)
      BY <1>3 DEF NoneLive
  <2>2. Session!ServerCloses
      BY <1>1, <2>1 DEF Session!ServerCloses
  <2> QED BY <2>2 DEF Session!Next
<1> QED BY <1>2, <1>3

LEMMA GivesSession ==
    ASSUME ReleaseFlock, NoneLive, NoneLive'
    PROVE  [Session!Next]_(Session!vars)
<1>1. (\E c \in Client : Live(c)) = FALSE
    BY DEF NoneLive
<1>2. (\E c \in Client : Live(c))' = FALSE
    BY DEF NoneLive
<1>3. CASE flock = "server"
  <2>1. flock' = "free"
      BY <1>3 DEF ReleaseFlock
  <2>2. Session!ServerGives
      BY <1>1, <1>2, <1>3, <2>1 DEF Session!ServerGives
  <2> QED BY <2>2 DEF Session!Next
<1>4. CASE flock # "server"
  <2>1. UNCHANGED flock
      BY <1>4 DEF ReleaseFlock
  <2> QED BY <2>1, ClosesSession
<1> QED BY <1>3, <1>4

LEMMA DiesWithSession ==
    ASSUME SInv, Die
    PROVE  [Session!Next]_(Session!vars)
<1>1. NoneLive' /\ ReleaseFlock
    BY DEF Die, NoneLive, Live
<1>2. CASE flock = "server"
  <2>1. flock' = "free"
      BY <1>1, <1>2 DEF ReleaseFlock
  <2>2. (\E c \in Client : Live(c))' = FALSE
      BY <1>1 DEF NoneLive
  <2>3. Session!ServerDies
      BY <1>2, <2>1, <2>2 DEF Session!ServerDies
  <2> QED BY <2>3 DEF Session!Next
<1>3. CASE flock # "server"
  <2>1. NoneLive
      BY <1>3, InvFacts
  <2> QED BY <1>1, <2>1, GivesSession
<1> QED BY <1>2, <1>3

LEMMA TaskImplements ==
    ASSUME SInv, NEW t \in Task, Step(t)
    PROVE  [Session!Next]_(Session!vars)
<1>1. TypeOK
    BY InvFacts
<1>2. \/ BeginConnect(t)
      \/ PoolConnects(t) \/ ResetConnects(t)
      \/ Unauthorized(t) \/ CheckRaises(t) \/ BeginReset(t)
      \/ PoolFails(t) \/ Reject(t) \/ CleanUp(t)
      \/ UNCHANGED <<flock, status>>
    BY DEF Step, ReuseClient, RefuseLocked, ReportRefusal, Authorized, KillStaleSession,
       RetryConnect, ResolveOk, ResolveFails, Send, FinishPoll, FetchEnds, FetchGivesUp,
       ResetFails, server
<1>3. CASE BeginConnect(t)
  <2>1. flock = "free" /\ flock' = "server" /\ UNCHANGED status
      BY <1>3 DEF BeginConnect
  <2>2. Session!ServerTakes
      BY <2>1 DEF Session!ServerTakes, Live
  <2> QED BY <2>2 DEF Session!Next
<1>4. CASE PoolConnects(t) \/ ResetConnects(t)
  <2>1. flock = "server" /\ UNCHANGED flock
      BY <1>4, InvFacts DEF PoolConnects, ResetConnects, Opening, Using
  <2>2. NoneLive
    <3>1. CASE PoolConnects(t)
        BY <3>1, InvFacts DEF PoolConnects
    <3>2. CASE ResetConnects(t)
        BY <3>2 DEF ResetConnects, SInv, Connected, ClosedWhileReplaced, Disconnecting
    <3> QED BY <1>4, <3>1, <3>2
  <2>3. PICK c \in Client : status' = [status EXCEPT ![c] = "up"]
      BY <1>4 DEF PoolConnects, ResetConnects
  <2>4. ~NoneLive'
      BY <1>1, <2>3 DEF NoneLive, Live, TypeOK
  <2> QED BY <2>1, <2>2, <2>4, OpensSession
<1>5. CASE Unauthorized(t) \/ CheckRaises(t) \/ BeginReset(t)
  <2>1. CloseClient /\ UNCHANGED flock
      BY <1>5 DEF Unauthorized, CheckRaises, BeginReset
  <2> QED BY <2>1, CloseLeavesNone, ClosesSession
<1>6. CASE PoolFails(t) \/ Reject(t) \/ CleanUp(t)
  <2>1. ReleaseFlock /\ UNCHANGED status
      BY <1>6 DEF PoolFails, Reject, CleanUp, Abandon
  <2>2. NoneLive
    <3>1. CASE PoolFails(t)
        BY <3>1, InvFacts DEF PoolFails
    <3>2. CASE Reject(t) \/ CleanUp(t)
        BY <3>2 DEF Reject, CleanUp, SInv, Connected, ClosedWhileReplaced, Disconnecting
    <3> QED BY <1>6, <3>1, <3>2
  <2>3. NoneLive'
      BY <2>1, <2>2 DEF NoneLive, Live
  <2> QED BY <2>1, <2>2, <2>3, GivesSession
<1> QED BY <1>2, <1>3, <1>4, <1>5, <1>6, KeepsSession

LEMMA StepImplements ==
    ASSUME SInv, [Next]_vars, ended' = 0
    PROVE  [Session!Next]_(Session!vars)
<1>1. ASSUME NEW t \in Task, Cancel(t) \/ \E k \in Kind : StartCall(t, k)
      PROVE  [Session!Next]_(Session!vars)
    BY <1>1, KeepsSession DEF Cancel, StartCall
<1>2. CASE Process
  <2>1. CASE BeginShutdown
    <3>1. CloseClient /\ UNCHANGED flock
        BY <2>1 DEF BeginShutdown
    <3> QED BY <3>1, CloseLeavesNone, ClosesSession
  <2>2. CASE FinishShutdown
    <3>1. ReleaseFlock /\ UNCHANGED status
        BY <2>2 DEF FinishShutdown, DropClient
    <3>2. NoneLive
        BY <2>2 DEF FinishShutdown, SInv, Connected, ClosedWhenDown
    <3>3. NoneLive'
        BY <3>1, <3>2 DEF NoneLive, Live
    <3> QED BY <3>1, <3>2, <3>3, GivesSession
  <2>3. CASE Exit \/ Crash
      BY <2>3, DiesWithSession DEF Exit, Crash
  <2>4. CASE Boot
      BY <2>4, KeepsSession DEF Boot, server
  <2>5. ~BeginSessionEnd /\ ~FinishSessionEnd
      BY DEF BeginSessionEnd, FinishSessionEnd, SInv, IInv, UsersHaveClient
  <2> QED BY <1>2, <2>1, <2>2, <2>3, <2>4, <2>5 DEF Process
<1>3. CASE World
  <2>1. CASE NetChanges
      BY <2>1, KeepsSession DEF NetChanges, server
  <2>2. ASSUME NEW c \in Client, GoesStale(c) PROVE UNCHANGED Session!vars
    <3>1. Live(c) /\ UNCHANGED flock
        BY <2>2 DEF GoesStale, Live
    <3>2. (\E d \in Client : Live(d)) = TRUE
        BY <3>1
    <3>3. Live(c)'
        BY <2>2, InvFacts DEF GoesStale, Live, TypeOK
    <3>4. (\E d \in Client : Live(d))' = TRUE
        BY <3>3
    <3> QED BY <3>1, <3>2, <3>4 DEF Session!vars
  <2>3. CASE OtherStarts
    <3>1. Session!OtherTakes
        BY <2>3 DEF OtherStarts, Session!OtherTakes, Live
    <3> QED BY <3>1 DEF Session!Next
  <2>4. CASE OtherEnds
    <3>1. Session!OtherGives
        BY <2>4 DEF OtherEnds, Session!OtherGives, Live
    <3> QED BY <3>1 DEF Session!Next
  <2> QED BY <1>3, <2>1, <2>2, <2>3, <2>4 DEF World
<1>4. ASSUME NEW t \in Task, Step(t) PROVE [Session!Next]_(Session!vars)
    BY <1>4, TaskImplements
<1>5. CASE UNCHANGED vars
    BY <1>5, KeepsSession DEF vars, server
<1> QED BY <1>1, <1>2, <1>3, <1>4, <1>5 DEF Next

(* The server takes the session file when nobody has it, opens connections *)
(* only under the lock, one at a time, and gives it up with none open:     *)
(* what _acquire_session_lock promises other writers of the file.          *)
THEOREM SessionImplemented ==
    ASSUME SessionEnds = 0, OneAtATime
    PROVE  Spec => ImplementsExclusiveSession
<1>1. UntilSessionEnd /\ [Next]_vars => UntilSessionEnd'
    BY UntilStep
<1>2. UntilSessionEnd /\ [Next]_vars => [Session!Next]_(Session!vars)
  <2> SUFFICES ASSUME UntilSessionEnd, [Next]_vars PROVE [Session!Next]_(Session!vars)
      OBVIOUS
  <2>1. SInv
      BY NoneEnds
  <2>2. ended' = 0
      BY UntilStep DEF UntilSessionEnd, TypeOK
  <2> QED BY <2>1, <2>2, StepImplements
<1>3. Init => Session!Init
    BY DEF Init, Session!Init, Live
<1> QED BY <1>1, <1>2, <1>3, UntilInit, PTL
       DEF Spec, ImplementsExclusiveSession, Session!Spec

(* What a step keeps while no session has ended beside others.             *)
StepsHeld ==
    ended = 0 =>
        /\ journal /\ ~journal' => flock = "server" /\ \A c \in Client : ~Live(c)
        /\ ended' = 0 => [Session!Next]_(Session!vars)

(* All four promises hold from the start of a process to the first MCP     *)
(* session that ends beside others: until then one connection is open at a *)
(* time, no other process writes the session file, _kill_stale_session     *)
(* removes the journal of the dead only, and each step is one of           *)
(* ExclusiveSession; and again from the next start on.                     *)
THEOREM SessionHeldUntilEnd ==
    ASSUME OneAtATime
    PROVE  Spec => /\ [](ended = 0 => OneLiveClient /\ NoConcurrentWriters)
                   /\ [][StepsHeld]_vars
<1>1. UntilSessionEnd /\ [Next]_vars => UntilSessionEnd'
    BY UntilStep
<1>2. UntilSessionEnd => (ended = 0 => OneLiveClient /\ NoConcurrentWriters)
  <2> SUFFICES ASSUME UntilSessionEnd, ended = 0
               PROVE  OneLiveClient /\ NoConcurrentWriters
      OBVIOUS
  <2>1. SInv
      BY DEF UntilSessionEnd
  <2>2. OneLiveClient
      BY <2>1 DEF SInv, Connected, OnlyClientLive, OneLiveClient
  <2>3. NoConcurrentWriters
      BY <2>1, InvFacts DEF NoConcurrentWriters, NoneLive
  <2> QED BY <2>2, <2>3
<1>3. UntilSessionEnd /\ [Next]_vars => [StepsHeld]_vars
  <2> SUFFICES ASSUME UntilSessionEnd, [Next]_vars, ended = 0
               PROVE  StepsHeld
      BY DEF StepsHeld
  <2>1. SInv
      BY DEF UntilSessionEnd
  <2>2. journal /\ ~journal' => flock = "server" /\ \A c \in Client : ~Live(c)
      BY <2>1, JournalRemoved DEF NoneLive
  <2>3. ended' = 0 => [Session!Next]_(Session!vars)
      BY <2>1, StepImplements
  <2> QED BY <2>2, <2>3 DEF StepsHeld
<1> QED BY <1>1, <1>2, <1>3, UntilInit, PTL DEF Spec
=============================================================================
