-------------------------- MODULE ConnectionProofs --------------------------
(***************************************************************************)
(* Theorems about Connection, for any number of calls and clients.         *)
(***************************************************************************)
EXTENDS Connection, TLAPS

(* _connect_lock is held by exactly the call that is inside                *)
(* _connect_locked, which holds the file lock all along, and has no client *)
(* while it is in the pool or asleep.                                      *)
LockedSection ==
    \A t \in Task :
        /\ pc[t] \in Opening <=> connectLock = t
        /\ pc[t] \in Opening => flock = "server"
        /\ pc[t] \in Pooling \cup {"sleep"} => client = NoClient
        /\ pc[t] \in Checking \cup Rejecting \cup {"relock", "cleanup"}
             => client # NoClient

(* A call that uses a client does so while _client is set and nobody is    *)
(* connecting, and only a running server has calls.                        *)
UsersHaveClient ==
    /\ proc # "ending"
    /\ \A t \in Task :
        /\ pc[t] \in Using => client # NoClient /\ connectLock = NoTask
        /\ pc[t] # "idle" => proc = "run"

(* The protocol of the locks, until a session ends beside others, which is *)
(* what breaks it.                                                         *)
IInv ==
    /\ TypeOK /\ ended = 0
    /\ ClientNeedsLock /\ LockedSection /\ UsersHaveClient

Protocol == TypeOK /\ (ended = 0 => IInv)

(* Without cancellation: a client nobody is still checking has been found  *)
(* good, and the file lock is never kept for nothing.                      *)
CheckedClient ==
    client # NoClient /\ connectLock = NoTask => authorized /\ ~journal

LockIsUsed ==
    flock = "server" => client # NoClient \/ connectLock # NoTask

NCInv == IInv /\ CheckedClient /\ LockIsUsed

CheckedProtocol == TypeOK /\ (ended = 0 => NCInv)

-----------------------------------------------------------------------------
(* What the locations are, for the steps that only compare them.           *)
LEMMA Locations ==
    /\ Opening \subseteq PC /\ Using \subseteq PC
    /\ Opening \cap Using = {}
    /\ "idle" \notin Opening \cup Using
    /\ "acquire" \notin Opening \cup Using
    /\ "refused" \notin Opening \cup Using
BY DEF Opening, Using, PC, Pooling, Checking, Rejecting

(* The state has its type in the initial states and after every step.      *)
LEMMA TypeInit == Init => TypeOK
<1> SUFFICES ASSUME Init PROVE TypeOK
    OBVIOUS
<1>1. /\ status \in [Client -> {"closed", "up", "stale"}]
      /\ pc \in [Task -> PC]
      /\ call \in [Task -> Kind \cup {"none"}]
      /\ mine \in [Task -> Client \cup {NoClient}]
    BY DEF Init, PC
<1>2. resets \in [Task -> 0 .. Attempts]
  <2>1. 0 \in 0 .. Attempts
      BY ConnectionAssumption
  <2> QED BY <2>1 DEF Init
<1>3. ended \in 0 .. SessionEnds
    BY ConnectionAssumption DEF Init
<1> QED BY <1>1, <1>2, <1>3 DEF Init, TypeOK

(* A dead process leaves well-typed variables behind.                      *)
LEMMA TypeDie ==
    ASSUME TypeOK, Die,
           net' \in BOOLEAN, authorized' \in BOOLEAN, journal' \in BOOLEAN
    PROVE  TypeOK'
<1>1. /\ status' \in [Client -> {"closed", "up", "stale"}]
      /\ pc' \in [Task -> PC]
      /\ call' \in [Task -> Kind \cup {"none"}]
      /\ mine' \in [Task -> Client \cup {NoClient}]
    BY DEF Die, PC
<1>2. resets' \in [Task -> 0 .. Attempts]
  <2>1. 0 \in 0 .. Attempts
      BY ConnectionAssumption
  <2> QED BY <2>1 DEF Die
<1>3. ended' \in 0 .. SessionEnds
    BY ConnectionAssumption DEF Die
<1> QED BY <1>1, <1>2, <1>3 DEF Die, ReleaseFlock, TypeOK

LEMMA TypeStep == TypeOK /\ [Next]_vars => TypeOK'
<1> SUFFICES ASSUME TypeOK, [Next]_vars PROVE TypeOK'
    OBVIOUS
<1> USE ConnectionAssumption DEF TypeOK, process, ReleaseFlock
<1>1. ASSUME NEW t \in Task, NEW k \in Kind, StartCall(t, k) PROVE TypeOK'
    BY <1>1 DEF StartCall, Goto, PC, world
<1>2. ASSUME NEW t \in Task, Cancel(t) PROVE TypeOK'
    BY <1>2 DEF Cancel, Return, Goto, PC, world
<1>3. ASSUME NEW t \in Task, Step(t) PROVE TypeOK'
  <2>1. CASE ReuseClient(t)
      BY <2>1 DEF ReuseClient, Goto, PC, server, world, Using
  <2>2. CASE RefuseLocked(t)
      BY <2>2 DEF RefuseLocked, Goto, PC, server, world
  <2>3. CASE BeginConnect(t)
      BY <2>3 DEF BeginConnect, Goto, PC, Opening, Pooling, world
  <2>4. CASE ReportRefusal(t)
      BY <2>4 DEF ReportRefusal, Return, Goto, PC, server, world
  <2>5. CASE PoolConnects(t)
      BY <2>5 DEF PoolConnects, Goto, PC, Opening, Checking, world
  <2>6. CASE PoolFails(t)
      BY <2>6 DEF PoolFails, Abandon, Return, Goto, PC, world
  <2>7. CASE Authorized(t)
      BY <2>7 DEF Authorized, Goto, PC, Using, world
  <2>8. CASE Unauthorized(t)
      BY <2>8 DEF Unauthorized, CloseClient, Goto, PC, Opening, Rejecting, world
  <2>9. CASE Reject(t)
      BY <2>9 DEF Reject, Abandon, Return, Goto, PC, world
  <2>10. CASE CheckRaises(t)
      BY <2>10 DEF CheckRaises, CloseClient, Goto, PC, Opening, world
  <2>11. CASE KillStaleSession(t)
      BY <2>11 DEF KillStaleSession, Goto, PC, Opening
  <2>12. CASE RetryConnect(t)
      BY <2>12 DEF RetryConnect, Goto, PC, Opening, Pooling, server, world
  <2>13. CASE CleanUp(t)
      BY <2>13 DEF CleanUp, Abandon, Return, Goto, PC, world
  <2>14. CASE ResolveOk(t)
    <3>1. cached' \in BOOLEAN
        BY <2>14 DEF ResolveOk
    <3>2. CASE Return(t)
        BY <2>14, <3>1, <3>2 DEF ResolveOk, Return, Goto, PC, world
    <3>3. CASE /\ Goto(t, "send") \/ Goto(t, "fetch")
               /\ UNCHANGED <<call, mine, resets>>
        BY <2>14, <3>1, <3>3 DEF ResolveOk, Goto, PC, Using, world
    <3> QED BY <2>14, <3>2, <3>3 DEF ResolveOk, AfterResolve
  <2>15. CASE ResolveFails(t)
      BY <2>15 DEF ResolveFails, Return, Goto, PC, server, world
  <2>16. CASE Send(t)
      BY <2>16 DEF Send, Return, Goto, PC, Using, server, world
  <2>17. CASE FinishPoll(t)
      BY <2>17 DEF FinishPoll, Return, Goto, PC, server, world
  <2>18. CASE FetchEnds(t)
      BY <2>18 DEF FetchEnds, Return, Goto, PC, server, world
  <2>19. CASE FetchGivesUp(t)
      BY <2>19 DEF FetchGivesUp, Return, Goto, PC, server, world
  <2>20. CASE BeginReset(t)
    <3>1. resets' \in [Task -> 0 .. Attempts]
        BY <2>20 DEF BeginReset
    <3>2. status' \in [Client -> {"closed", "up", "stale"}]
        BY <2>20 DEF BeginReset, CloseClient
    <3> QED BY <2>20, <3>1, <3>2 DEF BeginReset, Goto, PC, Using, world
  <2>21. CASE ResetConnects(t)
    <3>1. PICK c \in Client :
             /\ client' = c
             /\ status' = [status EXCEPT ![c] = "up"]
             /\ mine' = IF call[t] = "command" THEN [mine EXCEPT ![t] = c] ELSE mine
        BY <2>21 DEF ResetConnects
    <3>2. mine' \in [Task -> Client \cup {NoClient}]
        BY <3>1
    <3>3. pc' \in [Task -> PC]
        BY <2>21 DEF ResetConnects, Goto, PC, Using
    <3> QED BY <2>21, <3>1, <3>2, <3>3 DEF ResetConnects, world
  <2>22. CASE ResetFails(t)
      BY <2>22 DEF ResetFails, Return, Goto, PC, server, world
  <2> QED
      BY <1>3, <2>1, <2>2, <2>3, <2>4, <2>5, <2>6, <2>7, <2>8, <2>9, <2>10, <2>11,
         <2>12, <2>13, <2>14, <2>15, <2>16, <2>17, <2>18, <2>19, <2>20, <2>21,
         <2>22 DEF Step
<1>4. CASE Process
  <2>1. CASE BeginShutdown
      BY <2>1 DEF BeginShutdown, CloseClient, tasks, world
  <2>2. CASE FinishShutdown
      BY <2>2 DEF FinishShutdown, DropClient, tasks, world
  <2>3. CASE Exit
      BY <2>3, TypeDie DEF Exit, world
  <2>4. CASE Crash
    <3>1. journal' \in BOOLEAN
        BY <2>4 DEF Crash
    <3> QED BY <2>4, <3>1, TypeDie DEF Crash
  <2>5. CASE Boot
      BY <2>5 DEF Boot, server, tasks, world
  <2>6. CASE BeginSessionEnd
    <3>1. ended' \in 0 .. SessionEnds
        BY <2>6 DEF BeginSessionEnd
    <3>2. status' \in [Client -> {"closed", "up", "stale"}]
        BY <2>6 DEF BeginSessionEnd, CloseClient
    <3> QED BY <2>6, <3>1, <3>2 DEF BeginSessionEnd, DropClient, tasks, world
  <2>7. CASE FinishSessionEnd
      BY <2>7 DEF FinishSessionEnd, DropClient, tasks, world
  <2> QED BY <1>4, <2>1, <2>2, <2>3, <2>4, <2>5, <2>6, <2>7 DEF Process
<1>5. CASE World
  <2>1. CASE NetChanges
      BY <2>1 DEF NetChanges, server, tasks
  <2>2. ASSUME NEW c \in Client, GoesStale(c) PROVE TypeOK'
      BY <2>2 DEF GoesStale, tasks, world
  <2>3. CASE OtherStarts
      BY <2>3 DEF OtherStarts, tasks, world
  <2>4. CASE OtherEnds
    <3>1. authorized' \in BOOLEAN /\ journal' \in BOOLEAN
        BY <2>4 DEF OtherEnds
    <3> QED BY <2>4, <3>1 DEF OtherEnds, tasks
  <2> QED BY <1>5, <2>1, <2>2, <2>3, <2>4 DEF World
<1>6. CASE UNCHANGED vars
    BY <1>6 DEF vars, server, tasks, world
<1> QED BY <1>1, <1>2, <1>3, <1>4, <1>5, <1>6 DEF Next

(* Type correctness of the connection's state.                             *)
THEOREM TypeCorrect == Spec => []TypeOK
BY TypeInit, TypeStep, PTL DEF Spec

-----------------------------------------------------------------------------
(* The inductive invariant of the lock protocol.                           *)
LEMMA LockInit == Init => IInv
<1> SUFFICES ASSUME Init PROVE IInv
    OBVIOUS
<1>1. TypeOK
    BY TypeInit
<1>2. ClientNeedsLock
    BY DEF Init, ClientNeedsLock
<1>3. LockedSection
    BY ConnectionAssumption DEF Init, LockedSection, Opening, Pooling, Checking, Rejecting
<1>4. UsersHaveClient
    BY DEF Init, UsersHaveClient, Using
<1> QED BY <1>1, <1>2, <1>3, <1>4 DEF IInv, Init

(* A call that moves inside one part of its life, with the locks and the   *)
(* client untouched, keeps the protocol.                                   *)
LEMMA MoveKeepsLocks ==
    ASSUME IInv, NEW t \in Task, NEW where \in PC,
           Goto(t, where), pc[t] # "idle",
           UNCHANGED <<client, connectLock, flock, proc>>,
           where \in Opening <=> pc[t] \in Opening,
           where \in Using => pc[t] \in Using,
           where \in Pooling \cup {"sleep"} => pc[t] \in Pooling \cup {"sleep"},
           where \in Checking \cup Rejecting \cup {"relock", "cleanup"}
             => pc[t] \in Checking \cup Rejecting \cup {"relock", "cleanup"}
    PROVE  ClientNeedsLock' /\ LockedSection' /\ UsersHaveClient'
BY DEF IInv, TypeOK, Goto, ClientNeedsLock, LockedSection, UsersHaveClient

(* So does a call that ends outside the locked section.                    *)
LEMMA ReturnKeepsLocks ==
    ASSUME IInv, NEW t \in Task, Return(t), pc[t] \notin Opening,
           UNCHANGED <<client, connectLock, flock, proc>>
    PROVE  ClientNeedsLock' /\ LockedSection' /\ UsersHaveClient'
BY Locations DEF IInv, TypeOK, Return, Goto, ClientNeedsLock, LockedSection,
                 UsersHaveClient, Opening, Pooling, Checking, Rejecting

(* An exception that leaves _connect_locked gives both locks back, when no *)
(* other call has a client.                                                *)
LEMMA AbandonKeepsLocks ==
    ASSUME IInv, NEW t \in Task, Abandon(t), pc[t] \in Opening, UNCHANGED proc
    PROVE  ClientNeedsLock' /\ LockedSection' /\ UsersHaveClient'
<1>1. \A s \in Task : s # t => pc[s] \notin Opening \cup Using
    BY ConnectionAssumption DEF IInv, TypeOK, LockedSection, UsersHaveClient
<1>2. \A s \in Task : pc'[s] \notin Opening \cup Using
    BY <1>1, Locations DEF Abandon, Return, Goto, IInv, TypeOK
<1>3. ClientNeedsLock'
    BY DEF Abandon, ClientNeedsLock
<1>4. LockedSection'
    BY <1>2, ConnectionAssumption
       DEF Abandon, LockedSection, Opening, Pooling, Checking, Rejecting
<1>5. UsersHaveClient'
    BY <1>2 DEF Abandon, Return, Goto, UsersHaveClient, IInv, TypeOK
<1> QED BY <1>3, <1>4, <1>5

(* A dead process holds nothing.                                           *)
LEMMA DieFreesLocks ==
    ASSUME Die
    PROVE  ClientNeedsLock' /\ LockedSection' /\ UsersHaveClient'
<1>1. \A s \in Task : pc'[s] = "idle"
    BY DEF Die
<1> QED
    BY <1>1, ConnectionAssumption
       DEF Die, ClientNeedsLock, LockedSection, UsersHaveClient,
           Opening, Using, Pooling, Checking, Rejecting

LEMMA LockStep == IInv /\ [Next]_vars /\ ended' = 0 => IInv'
<1> SUFFICES ASSUME IInv, [Next]_vars, ended' = 0
             PROVE  ClientNeedsLock' /\ LockedSection' /\ UsersHaveClient'
    BY TypeStep DEF IInv
<1> USE DEF process
<1> DEFINE Goal == ClientNeedsLock' /\ LockedSection' /\ UsersHaveClient'
<1>t. TypeOK /\ ended = 0 /\ ClientNeedsLock /\ LockedSection /\ UsersHaveClient
    BY DEF IInv
<1>1. ASSUME NEW t \in Task, NEW k \in Kind, StartCall(t, k) PROVE Goal
    BY <1>1, <1>t, Locations
       DEF StartCall, Goto, TypeOK, ClientNeedsLock, LockedSection, UsersHaveClient,
           Opening, Using, Pooling, Checking, Rejecting
<1>2. ASSUME NEW t \in Task, Cancel(t) PROVE Goal
  <2>1. pc'[t] = "idle" /\ \A s \in Task : s # t => pc'[s] = pc[s]
      BY <1>2, <1>t DEF Cancel, Return, Goto, TypeOK
  <2>2. ClientNeedsLock'
      BY <1>2, <1>t DEF Cancel, ClientNeedsLock
  <2>3. LockedSection'
      BY <1>2, <1>t, <2>1, ConnectionAssumption
         DEF Cancel, LockedSection, TypeOK, Opening, Pooling, Checking, Rejecting
  <2>4. UsersHaveClient'
      BY <1>2, <1>t, <2>1, ConnectionAssumption DEF Cancel, UsersHaveClient, Using
  <2> QED BY <2>2, <2>3, <2>4
<1>3. ASSUME NEW t \in Task, Step(t) PROVE Goal
  <2>1. CASE ReuseClient(t)
      BY <2>1, <1>t
         DEF ReuseClient, Goto, server, TypeOK, ClientNeedsLock, LockedSection,
             UsersHaveClient, Opening, Using, Pooling, Checking, Rejecting
  <2>2. CASE RefuseLocked(t)
      BY <2>2, MoveKeepsLocks, Locations
         DEF RefuseLocked, server, PC, Opening, Using, Pooling, Checking, Rejecting
  <2>3. CASE BeginConnect(t)
    <3>1. \A s \in Task : pc[s] \notin Opening \cup Using
        BY <2>3, <1>t, ConnectionAssumption DEF BeginConnect, LockedSection, UsersHaveClient
    <3>2. pc'[t] = "pool1" /\ \A s \in Task : s # t => pc'[s] = pc[s]
        BY <2>3, <1>t DEF BeginConnect, Goto, TypeOK
    <3>3. ClientNeedsLock'
        BY <2>3 DEF BeginConnect, ClientNeedsLock
    <3>4. LockedSection'
        BY <2>3, <3>1, <3>2
           DEF BeginConnect, LockedSection, Opening, Pooling, Checking, Rejecting
    <3>5. UsersHaveClient'
        BY <2>3, <1>t, <3>1, <3>2 DEF BeginConnect, UsersHaveClient, Using
    <3> QED BY <3>3, <3>4, <3>5
  <2>4. CASE ReportRefusal(t)
      BY <2>4, ReturnKeepsLocks, Locations DEF ReportRefusal, server
  <2>5. CASE PoolConnects(t)
    <3>1. /\ client' # NoClient /\ pc[t] \in Pooling /\ pc[t] \in Opening
          /\ UNCHANGED <<connectLock, flock, proc>>
        BY <2>5, ConnectionAssumption DEF PoolConnects, Opening
    <3>2. pc'[t] \in Checking /\ \A s \in Task : s # t => pc'[s] = pc[s]
        BY <2>5, <1>t DEF PoolConnects, Goto, TypeOK, Checking
    <3>3. \A s \in Task : s # t => pc[s] \notin Opening \cup Using
        BY <3>1, <1>t, ConnectionAssumption DEF TypeOK, LockedSection, UsersHaveClient
    <3>4. ClientNeedsLock'
        BY <3>1, <1>t DEF ClientNeedsLock, LockedSection
    <3>5. LockedSection'
        BY <3>1, <3>2, <3>3, <1>t
           DEF LockedSection, Opening, Pooling, Checking, Rejecting
    <3>6. UsersHaveClient'
        BY <3>1, <3>2, <3>3, <1>t
           DEF UsersHaveClient, Opening, Using, Pooling, Checking, Rejecting
    <3> QED BY <3>4, <3>5, <3>6
  <2>6. CASE PoolFails(t)
      BY <2>6, AbandonKeepsLocks DEF PoolFails, Opening
  <2>7. CASE Authorized(t)
    <3>1. /\ pc[t] \in Checking /\ pc[t] \in Opening /\ client # NoClient
          /\ connectLock' = NoTask /\ UNCHANGED <<client, flock, proc>>
        BY <2>7, <1>t DEF Authorized, LockedSection, Opening
    <3>2. pc'[t] = "resolve" /\ \A s \in Task : s # t => pc'[s] = pc[s]
        BY <2>7, <1>t DEF Authorized, Goto, TypeOK
    <3>3. \A s \in Task : s # t => pc[s] \notin Opening \cup Using
        BY <3>1, <1>t, ConnectionAssumption DEF TypeOK, LockedSection, UsersHaveClient
    <3>4. ClientNeedsLock'
        BY <3>1, <1>t DEF ClientNeedsLock
    <3>5. LockedSection'
        BY <3>1, <3>2, <3>3, ConnectionAssumption
           DEF LockedSection, Opening, Pooling, Checking, Rejecting
    <3>6. UsersHaveClient'
        BY <3>1, <3>2, <3>3, <1>t
           DEF UsersHaveClient, Using, Checking
    <3> QED BY <3>4, <3>5, <3>6
  <2>8. CASE Unauthorized(t)
    <3> DEFINE where == IF pc[t] = "auth1" THEN "unauth1" ELSE "unauth2"
    <3>1. Goto(t, where) /\ pc[t] \in Checking
          /\ UNCHANGED <<client, connectLock, flock, proc>>
        BY <2>8 DEF Unauthorized
    <3>2. where \in Rejecting
        BY DEF Rejecting
    <3> HIDE DEF where
    <3> QED BY <3>1, <3>2, MoveKeepsLocks
            DEF PC, Opening, Using, Pooling, Checking, Rejecting
  <2>9. CASE Reject(t)
      BY <2>9, AbandonKeepsLocks DEF Reject, Opening
  <2>10. CASE CheckRaises(t)
    <3>1. PICK where \in {"relock", "cleanup"} : Goto(t, where)
        BY <2>10 DEF CheckRaises
    <3>2. /\ pc[t] \in Checking \cup Rejecting
          /\ UNCHANGED <<client, connectLock, flock, proc>>
        BY <2>10 DEF CheckRaises, Checking, Rejecting
    <3> QED BY <3>1, <3>2, MoveKeepsLocks
            DEF PC, Opening, Using, Pooling, Checking, Rejecting
  <2>11. CASE KillStaleSession(t)
    <3>1. /\ pc[t] = "relock" /\ pc[t] \in Opening /\ client' = NoClient
          /\ UNCHANGED <<connectLock, flock, proc>>
        BY <2>11 DEF KillStaleSession, Opening
    <3>2. pc'[t] = "sleep" /\ \A s \in Task : s # t => pc'[s] = pc[s]
        BY <2>11, <1>t DEF KillStaleSession, Goto, TypeOK
    <3>3. \A s \in Task : s # t => pc[s] \notin Opening \cup Using
        BY <3>1, <1>t, ConnectionAssumption DEF TypeOK, LockedSection, UsersHaveClient
    <3>4. ClientNeedsLock'
        BY <3>1 DEF ClientNeedsLock
    <3>5. LockedSection'
        BY <3>1, <3>2, <3>3, <1>t
           DEF LockedSection, Opening, Pooling, Checking, Rejecting
    <3>6. UsersHaveClient'
        BY <3>1, <3>2, <3>3, <1>t DEF UsersHaveClient, Using
    <3> QED BY <3>4, <3>5, <3>6
  <2>12. CASE RetryConnect(t)
      BY <2>12, MoveKeepsLocks
         DEF RetryConnect, server, PC, Opening, Using, Pooling, Checking, Rejecting
  <2>13. CASE CleanUp(t)
      BY <2>13, AbandonKeepsLocks DEF CleanUp, Opening
  <2>14. CASE ResolveOk(t)
    <3>1. pc[t] = "resolve" /\ UNCHANGED <<client, connectLock, flock, proc>>
        BY <2>14 DEF ResolveOk
    <3>2. Return(t) \/ \E where \in {"send", "fetch"} : Goto(t, where)
        BY <2>14 DEF ResolveOk, AfterResolve
    <3> QED BY <3>1, <3>2, ReturnKeepsLocks, MoveKeepsLocks
            DEF PC, Opening, Using, Pooling, Checking, Rejecting
  <2>15. CASE ResolveFails(t)
      BY <2>15, ReturnKeepsLocks
         DEF ResolveFails, server, Opening, Pooling, Checking, Rejecting
  <2>16. CASE Send(t)
    <3>1. pc[t] = "send" /\ UNCHANGED <<client, connectLock, flock, proc>>
        BY <2>16 DEF Send, server
    <3>2. Return(t) \/ Goto(t, "poll")
        BY <2>16 DEF Send
    <3> QED BY <3>1, <3>2, ReturnKeepsLocks, MoveKeepsLocks
            DEF PC, Opening, Using, Pooling, Checking, Rejecting
  <2>17. CASE FinishPoll(t)
      BY <2>17, ReturnKeepsLocks
         DEF FinishPoll, server, Opening, Pooling, Checking, Rejecting
  <2>18. CASE FetchEnds(t)
      BY <2>18, ReturnKeepsLocks
         DEF FetchEnds, server, Opening, Pooling, Checking, Rejecting
  <2>19. CASE FetchGivesUp(t)
      BY <2>19, ReturnKeepsLocks
         DEF FetchGivesUp, server, Opening, Pooling, Checking, Rejecting
  <2>20. CASE BeginReset(t)
      BY <2>20, MoveKeepsLocks
         DEF BeginReset, PC, Opening, Using, Pooling, Checking, Rejecting
  <2>21. CASE ResetConnects(t)
    <3>1. /\ client' # NoClient /\ pc[t] \in Using
          /\ UNCHANGED <<connectLock, flock, proc>>
        BY <2>21, ConnectionAssumption DEF ResetConnects, Using
    <3>2. pc'[t] \in {"poll", "fetch"} /\ \A s \in Task : s # t => pc'[s] = pc[s]
        BY <2>21, <1>t DEF ResetConnects, Goto, TypeOK
    <3>3. \A s \in Task : pc[s] \notin Opening
        BY <3>1, <1>t, ConnectionAssumption DEF TypeOK, LockedSection, UsersHaveClient
    <3>4. ClientNeedsLock'
        BY <3>1, <1>t DEF ClientNeedsLock, UsersHaveClient
    <3>5. LockedSection'
        BY <3>1, <3>2, <3>3, <1>t
           DEF LockedSection, Opening, Pooling, Checking, Rejecting
    <3>6. UsersHaveClient'
        BY <3>1, <3>2, <1>t DEF UsersHaveClient, Using
    <3> QED BY <3>4, <3>5, <3>6
  <2>22. CASE ResetFails(t)
      BY <2>22, ReturnKeepsLocks
         DEF ResetFails, server, Opening, Pooling, Checking, Rejecting
  <2> QED
      BY <1>3, <2>1, <2>2, <2>3, <2>4, <2>5, <2>6, <2>7, <2>8, <2>9, <2>10, <2>11,
         <2>12, <2>13, <2>14, <2>15, <2>16, <2>17, <2>18, <2>19, <2>20, <2>21,
         <2>22 DEF Step
<1>4. CASE Process
  <2>0. \/ UNCHANGED <<client, connectLock, flock, pc>> /\ proc' = "run"
        \/ UNCHANGED <<client, connectLock, flock, pc>> /\ BeginShutdown
        \/ FinishShutdown
        \/ Die
    <3>1. ~BeginSessionEnd
        BY DEF BeginSessionEnd, IInv
    <3>2. ~FinishSessionEnd
        BY DEF FinishSessionEnd, IInv, UsersHaveClient
    <3> QED
        BY <1>4, <3>1, <3>2 DEF Process, BeginShutdown, Exit, Crash, Boot, server, tasks
  <2>1. CASE UNCHANGED <<client, connectLock, flock, pc>> /\ proc' = "run"
      BY <2>1, <1>t DEF ClientNeedsLock, LockedSection, UsersHaveClient
  <2>2. CASE UNCHANGED <<client, connectLock, flock, pc>> /\ BeginShutdown
      BY <2>2, <1>t DEF BeginShutdown, ClientNeedsLock, LockedSection, UsersHaveClient, Using
  <2>3. CASE FinishShutdown
    <3>1. \A s \in Task : pc[s] = "idle" /\ pc'[s] = "idle"
        BY <2>3, <1>t DEF FinishShutdown, UsersHaveClient, tasks
    <3> QED
        BY <2>3, <3>1, <1>t
           DEF FinishShutdown, DropClient, ClientNeedsLock, LockedSection, UsersHaveClient,
               Opening, Using, Pooling, Checking, Rejecting
  <2>4. CASE Die
      BY <2>4, DieFreesLocks
  <2> QED BY <2>0, <2>1, <2>2, <2>3, <2>4
<1>5. CASE World
  <2>1. /\ UNCHANGED <<client, connectLock, pc, proc>>
        /\ flock = "server" <=> flock' = "server"
      BY <1>5 DEF World, NetChanges, GoesStale, OtherStarts, OtherEnds, server, tasks
  <2> QED BY <2>1, <1>t DEF ClientNeedsLock, LockedSection, UsersHaveClient
<1>6. CASE UNCHANGED vars
    BY <1>6, <1>t DEF vars, server, tasks, ClientNeedsLock, LockedSection, UsersHaveClient
<1> QED BY <1>1, <1>2, <1>3, <1>4, <1>5, <1>6 DEF Next

(* Only a process that dies forgets that a session has ended.              *)
LEMMA OnlyDyingForgets ==
    ASSUME TypeOK, [Next]_vars, ended # 0, ended' = 0
    PROVE  Die
<1> USE DEF process
<1>1. ASSUME NEW t \in Task, NEW k \in Kind PROVE ~StartCall(t, k)
    BY DEF StartCall
<1>2. ASSUME NEW t \in Task PROVE ~Cancel(t)
    BY DEF Cancel
<1>3. ASSUME NEW t \in Task PROVE ~Step(t)
    BY DEF Step, ReuseClient, RefuseLocked, BeginConnect, ReportRefusal, PoolConnects,
       PoolFails, Authorized, Unauthorized, Reject, CheckRaises, KillStaleSession,
       RetryConnect, CleanUp, ResolveOk, ResolveFails, Send, FinishPoll, FetchEnds,
       FetchGivesUp, BeginReset, ResetConnects, ResetFails
<1>4. ~World
    BY DEF World, NetChanges, GoesStale, OtherStarts, OtherEnds
<1>5. ~UNCHANGED vars
    BY DEF vars
<1>6. Process
    BY <1>1, <1>2, <1>3, <1>4, <1>5 DEF Next
<1>7. ~BeginSessionEnd
    BY DEF BeginSessionEnd, TypeOK
<1> QED
    BY <1>6, <1>7 DEF Process, BeginShutdown, FinishShutdown, Exit, Crash, Boot,
       FinishSessionEnd

LEMMA ProtocolInit == Init => Protocol
BY LockInit, TypeInit DEF Protocol

LEMMA ProtocolStep == Protocol /\ [Next]_vars => Protocol'
<1> SUFFICES ASSUME Protocol, [Next]_vars PROVE Protocol'
    OBVIOUS
<1>1. TypeOK'
    BY TypeStep DEF Protocol
<1>2. CASE ended = 0
    BY <1>1, <1>2, LockStep DEF Protocol
<1>3. CASE ended # 0
    BY <1>1, <1>3, OnlyDyingForgets, DieFreesLocks DEF Protocol, IInv
<1> QED BY <1>2, <1>3

(* Until a session ends beside others, the server never has a client       *)
(* without the lock on the session file.                                   *)
THEOREM LockHeld == Spec => []ClientNeedsLock
<1>1. Protocol => ClientNeedsLock
    BY DEF Protocol, IInv, ClientNeedsLock
<1> QED BY ProtocolInit, ProtocolStep, <1>1, PTL DEF Spec

(* Two calls are never inside _connect_locked together, and no call uses   *)
(* the client while another is, until a session ends beside others.        *)
THEOREM ConnectsAlone == Spec => []SingleFlight
<1>1. Protocol => SingleFlight
    BY ConnectionAssumption
       DEF Protocol, IInv, TypeOK, LockedSection, UsersHaveClient, SingleFlight
<1> QED BY ProtocolInit, ProtocolStep, <1>1, PTL DEF Spec

-----------------------------------------------------------------------------
(* What cancellation breaks: without it, a call that connects either       *)
(* leaves a client that was found good or gives the file lock back.        *)
LEMMA CheckedInit == Init => NCInv
BY LockInit DEF Init, NCInv, CheckedClient, LockIsUsed

LEMMA CheckedStep ==
    ASSUME Cancellable = FALSE, NCInv, [Next]_vars, ended' = 0
    PROVE  NCInv'
<1> DEFINE Goal == CheckedClient' /\ LockIsUsed'
<1> SUFFICES Goal
    BY LockStep DEF NCInv
<1>i. IInv /\ CheckedClient /\ LockIsUsed
    BY DEF NCInv
<1>n. NoTask \notin Task /\ NoClient \notin Client
    BY ConnectionAssumption
<1>s. ASSUME UNCHANGED <<client, connectLock, flock, authorized, journal>> PROVE Goal
    BY <1>s, <1>i DEF CheckedClient, LockIsUsed
<1>a. ASSUME NEW t \in Task, Abandon(t) PROVE Goal
    BY <1>a DEF Abandon, ReleaseFlock, CheckedClient, LockIsUsed
<1>1. ASSUME NEW t \in Task, NEW k \in Kind, StartCall(t, k) PROVE Goal
    BY <1>1, <1>s DEF StartCall, world
<1>2. ASSUME NEW t \in Task, Step(t) PROVE Goal
  <2>1. \/ UNCHANGED <<client, connectLock, flock, authorized, journal>>
        \/ Abandon(t)
        \/ BeginConnect(t) \/ PoolConnects(t) \/ Authorized(t)
        \/ KillStaleSession(t) \/ ResetConnects(t)
      BY <1>2 DEF Step, ReuseClient, RefuseLocked, ReportRefusal, PoolFails, Unauthorized,
         Reject, CheckRaises, RetryConnect, CleanUp, ResolveOk, ResolveFails, Send,
         FinishPoll, FetchEnds, FetchGivesUp, BeginReset, ResetFails, server, world
  <2>2. CASE BeginConnect(t)
      BY <2>2, <1>n DEF BeginConnect, CheckedClient, LockIsUsed
  <2>3. CASE PoolConnects(t)
    <3>1. connectLock = t /\ connectLock' = t
        BY <2>3, <1>i DEF PoolConnects, IInv, LockedSection, Opening
    <3> QED BY <3>1, <1>n DEF CheckedClient, LockIsUsed
  <2>4. CASE Authorized(t)
    <3>1. client' # NoClient /\ authorized' /\ ~journal'
        BY <2>4, <1>i DEF Authorized, CheckAnswers, IInv, LockedSection, world
    <3> QED BY <3>1 DEF CheckedClient, LockIsUsed
  <2>5. CASE KillStaleSession(t)
    <3>1. connectLock = t /\ connectLock' = t
        BY <2>5, <1>i DEF KillStaleSession, IInv, LockedSection, Opening
    <3> QED BY <3>1, <1>n DEF CheckedClient, LockIsUsed
  <2>6. CASE ResetConnects(t)
    <3>1. client # NoClient /\ connectLock = NoTask
        BY <2>6, <1>i DEF ResetConnects, IInv, UsersHaveClient, Using
    <3>2. client' # NoClient /\ UNCHANGED <<authorized, journal>>
        BY <2>6, <1>n DEF ResetConnects, world
    <3> QED BY <3>1, <3>2, <1>i DEF CheckedClient, LockIsUsed
  <2> QED BY <2>1, <2>2, <2>3, <2>4, <2>5, <2>6, <1>s, <1>a
<1>3. ASSUME NEW t \in Task, Cancel(t) PROVE Goal
    BY <1>3 DEF Cancel
<1>4. CASE Process
  <2>1. \/ UNCHANGED <<client, connectLock, flock, authorized, journal>>
        \/ client' = NoClient /\ flock' # "server"
    <3>1. ~BeginSessionEnd
        BY <1>i DEF BeginSessionEnd, IInv
    <3> QED
        BY <1>4, <3>1 DEF Process, BeginShutdown, FinishShutdown, Exit, Crash, Die, Boot,
           FinishSessionEnd, DropClient, ReleaseFlock, server, world
  <2>2. CASE client' = NoClient /\ flock' # "server"
      BY <2>2 DEF CheckedClient, LockIsUsed
  <2> QED BY <2>1, <2>2, <1>s
<1>5. CASE World
  <2>1. \/ UNCHANGED <<client, connectLock, flock, authorized, journal>>
        \/ OtherStarts
        \/ OtherEnds
      BY <1>5 DEF World, NetChanges, GoesStale, server, world
  <2>2. CASE OtherStarts \/ OtherEnds
    <3>1. client = NoClient /\ client' = NoClient /\ flock' # "server"
        BY <2>2, <1>i DEF OtherStarts, OtherEnds, IInv, ClientNeedsLock
    <3> QED BY <3>1 DEF CheckedClient, LockIsUsed
  <2> QED BY <2>1, <2>2, <1>s
<1>6. CASE UNCHANGED vars
    BY <1>6, <1>s DEF vars, server, world
<1> QED BY <1>1, <1>2, <1>3, <1>4, <1>5, <1>6 DEF Next

LEMMA CheckedProtocolStep ==
    ASSUME Cancellable = FALSE, CheckedProtocol, [Next]_vars
    PROVE  CheckedProtocol'
<1>1. TypeOK'
    BY TypeStep DEF CheckedProtocol
<1>2. CASE ended = 0
    BY <1>1, <1>2, CheckedStep DEF CheckedProtocol
<1>3. ASSUME ended # 0, ended' = 0 PROVE NCInv'
  <2>1. Die
      BY <1>3, OnlyDyingForgets DEF CheckedProtocol
  <2>2. CheckedClient' /\ LockIsUsed'
      BY <2>1 DEF Die, ReleaseFlock, CheckedClient, LockIsUsed
  <2> QED BY <1>1, <1>3, <2>1, <2>2, DieFreesLocks DEF NCInv, IInv
<1> QED BY <1>1, <1>2, <1>3 DEF CheckedProtocol

(* Without cancellation every request is made on a session that was found  *)
(* logged in and that no stale journal locks.                              *)
THEOREM SessionChecked ==
    ASSUME Cancellable = FALSE
    PROVE  Spec => []UseNeedsGoodSession
<1>1. CheckedProtocol /\ [Next]_vars => CheckedProtocol'
    BY CheckedProtocolStep
<1>2. CheckedProtocol => UseNeedsGoodSession
    BY DEF CheckedProtocol, NCInv, IInv, UsersHaveClient, CheckedClient,
           UseNeedsGoodSession
<1>3. Init => CheckedProtocol
    BY CheckedInit, TypeInit DEF CheckedProtocol
<1> QED BY <1>1, <1>2, <1>3, PTL DEF Spec

(* Without cancellation a call is refused only when another process has    *)
(* the session: the server never locks itself out.                         *)
THEOREM RefusalHonest ==
    ASSUME Cancellable = FALSE
    PROVE  Spec => RefusalMeansOtherProcess
<1> DEFINE Honest == \A t \in Task :
                         ended = 0 /\ pc[t] = "acquire" /\ pc'[t] = "refused"
                           => flock = "other"
<1>1. CheckedProtocol /\ [Next]_vars => CheckedProtocol'
    BY CheckedProtocolStep
<1>0. Init => CheckedProtocol
    BY CheckedInit, TypeInit DEF CheckedProtocol
<1>2. CheckedProtocol /\ [Next]_vars => [Honest]_vars
  <2> SUFFICES ASSUME CheckedProtocol, [Next]_vars, NEW t \in Task, ended = 0,
                      pc[t] = "acquire", pc'[t] = "refused"
               PROVE  flock = "other"
      OBVIOUS
  <2>1. TypeOK /\ NCInv
      BY DEF CheckedProtocol
  <2>2. RefuseLocked(t)
    <3>1. PICK s \in Task : Step(s) \/ Cancel(s) \/ \E k \in Kind : StartCall(s, k)
      <4>1. ~Process
          BY DEF Process, BeginShutdown, FinishShutdown, Exit, Crash, Die, Boot,
             BeginSessionEnd, FinishSessionEnd, tasks
      <4>2. ~World
          BY DEF World, NetChanges, GoesStale, OtherStarts, OtherEnds, tasks
      <4>3. ~UNCHANGED vars
          BY DEF vars, tasks
      <4> QED BY <4>1, <4>2, <4>3 DEF Next
    <3>2. ~Cancel(s) /\ ~\E k \in Kind : StartCall(s, k)
        BY <2>1 DEF Cancel, StartCall, Return, Goto, TypeOK
    <3>3. ASSUME NEW where \in PC \ {"refused"}, Goto(s, where) PROVE FALSE
        BY <3>3, <2>1 DEF Goto, TypeOK
    <3>4. ~Return(s)
        BY <3>3 DEF Return, PC
    <3>5. RefuseLocked(s)
      <4>1. ASSUME pc[s] \in Using PROVE ~Step(s)
          BY <4>1, <3>3, <3>4 DEF Step, ReuseClient, RefuseLocked, BeginConnect,
             ReportRefusal, PoolConnects, PoolFails, Authorized, Unauthorized, Reject,
             CheckRaises, KillStaleSession, RetryConnect, CleanUp, ResolveOk,
             ResolveFails, Send, FinishPoll, FetchEnds, FetchGivesUp, BeginReset,
             ResetConnects, ResetFails, AfterResolve, PC, Using, Opening, Pooling,
             Checking, Rejecting
      <4>2. ASSUME pc[s] \notin Using, ~RefuseLocked(s) PROVE ~Step(s)
          BY <4>2, <3>3, <3>4 DEF Step, ReuseClient, BeginConnect,
             ReportRefusal, PoolConnects, PoolFails, Authorized, Unauthorized, Reject,
             CheckRaises, KillStaleSession, RetryConnect, CleanUp, ResolveOk,
             ResolveFails, Send, FinishPoll, FetchEnds, FetchGivesUp, BeginReset,
             ResetConnects, ResetFails, Abandon, PC, Using, Opening, Pooling,
             Checking, Rejecting
      <4> QED BY <3>1, <3>2, <4>1, <4>2
    <3>6. s = t
        BY <3>5, <2>1 DEF RefuseLocked, Goto, TypeOK
    <3> QED BY <3>5, <3>6
  <2>3. flock # "server"
      BY <2>1, <2>2 DEF RefuseLocked, NCInv, LockIsUsed
  <2> QED BY <2>1, <2>2, <2>3 DEF RefuseLocked, TypeOK
<1> QED BY <1>0, <1>1, <1>2, PTL DEF Spec, RefusalMeansOtherProcess
=============================================================================
