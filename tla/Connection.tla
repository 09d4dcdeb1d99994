----------------------------- MODULE Connection -----------------------------
(***************************************************************************)
(* The shared Telegram connection of heroku_mcp (telegram.py): one         *)
(* module-level client, opened lazily by the first tool call under an      *)
(* asyncio lock and a file lock, reused by every later call, and replaced  *)
(* by _reset_client when the connection goes stale.                        *)
(*                                                                         *)
(* A task is one MCP tool call (or the lifespan's warm-up) on the event    *)
(* loop.  A step of a task is the code it runs between two awaits; the     *)
(* awaits are the values of pc.                                            *)
(***************************************************************************)
EXTENDS Naturals, FiniteSets

CONSTANTS Task,          \* tool calls that may be in flight at once
          Client,        \* identities of TelegramClient objects, reused when closed
          NoTask,        \* nobody holds _connect_lock
          NoClient,      \* None
          Kind,          \* the kinds of call the instance makes
          Attempts,      \* attempts of _call_with_recovery
          Cancellable,   \* may the MCP client cancel a call in flight?
          SavedMessages, \* her_chat_id = "me"
          OverlappingResets, \* may two calls reconnect at a time?
          SessionEnds    \* MCP sessions that end beside the calls of others, per process

ASSUME ConnectionAssumption ==
    /\ NoTask \notin Task
    /\ NoClient \notin Client
    /\ Kind \subseteq {"command", "history", "warmup", "switch"}
    /\ Attempts \in Nat \ {0}
    /\ Cancellable \in BOOLEAN
    /\ SavedMessages \in BOOLEAN /\ OverlappingResets \in BOOLEAN
    /\ SessionEnds \in Nat

VARIABLES client,      \* _client
          status,      \* of each client object: closed, up, or stale (open but useless)
          connectLock, \* the task that holds _connect_lock
          flock,       \* whose process holds the lock file; "server" is _session_lock_fd
          cached,      \* _resolved_entity is not None
          pc,          \* the await each task is suspended at
          call,        \* the kind of its call
          mine,        \* its local variable `client`
          resets,      \* the reconnects its call has asked for
          proc,        \* the server process; "ending": a session is in shutdown
          ended,       \* sessions that have ended beside others in this process
          net,         \* some proxy (or the direct route) reaches Telegram
          authorized,  \* the session file is logged in
          journal      \* a dead writer left an SQLite journal that locks the session

server == <<client, status, connectLock, flock, cached>>
tasks  == <<pc, call, mine, resets>>
world  == <<net, authorized, journal>>
process == <<proc, ended>>
vars   == <<server, tasks, process, world>>

Pooling   == {"pool1", "pool2"}                      \* in _connect_pool
Checking  == {"auth1", "auth2"}                      \* in is_user_authorized
Rejecting == {"unauth1", "unauth2"}                  \* disconnecting an unauthorized client
Opening   == Pooling \cup Checking \cup Rejecting
               \cup {"relock", "sleep", "cleanup"}   \* inside _connect_locked
Using     == {"resolve", "send", "poll", "fetch", "reconnect"}
PC        == {"idle", "acquire", "refused"} \cup Opening \cup Using

Live(c)  == status[c] # "closed"
Fresh(c) == ~Live(c) /\ c # client /\ \A t \in Task : mine[t] # c
Works(t) == mine[t] # NoClient /\ status[mine[t]] = "up"

(* A new object: any identity that no variable holds any more.             *)
NewClient == CHOOSE c \in Client : Fresh(c)

CloseClient == status' = IF client = NoClient THEN status
                         ELSE [status EXCEPT ![client] = "closed"]

ReleaseFlock == flock' = IF flock = "server" THEN "free" ELSE flock

Goto(t, where) == pc' = [pc EXCEPT ![t] = where]

(* The call returns or raises: its frame is gone. *)
Return(t) ==
    /\ Goto(t, "idle")
    /\ call'   = [call EXCEPT ![t] = "none"]
    /\ mine'   = [mine EXCEPT ![t] = NoClient]
    /\ resets' = [resets EXCEPT ![t] = 0]

Init ==
    /\ client = NoClient
    /\ status = [c \in Client |-> "closed"]
    /\ connectLock = NoTask
    /\ flock = "free"
    /\ cached = FALSE
    /\ pc = [t \in Task |-> "idle"]
    /\ call = [t \in Task |-> "none"]
    /\ mine = [t \in Task |-> NoClient]
    /\ resets = [t \in Task |-> 0]
    /\ proc = "run" /\ ended = 0
    /\ net \in BOOLEAN
    /\ authorized \in BOOLEAN
    /\ journal \in BOOLEAN

-----------------------------------------------------------------------------
(* A tool call starts.  switch_chat drops the entity cache before it does  *)
(* anything else; with "me" it would need no client at all.                *)
StartCall(t, k) ==
    /\ proc \in {"run", "ending"} /\ pc[t] = "idle"
    /\ k = "switch" => ~SavedMessages
    /\ call' = [call EXCEPT ![t] = k]
    /\ cached' = (cached /\ k # "switch")
    /\ Goto(t, "acquire")
    /\ UNCHANGED <<client, status, connectLock, flock, mine, resets, process, world>>

(* get_client: the three ways through the section under _connect_lock that *)
(* do not await inside it, or start to connect.                            *)
ReuseClient(t) ==
    /\ pc[t] = "acquire" /\ connectLock = NoTask /\ client # NoClient
    /\ mine' = [mine EXCEPT ![t] = client]
    /\ Goto(t, "resolve")
    /\ UNCHANGED <<server, call, resets, process, world>>

RefuseLocked(t) ==
    /\ pc[t] = "acquire" /\ connectLock = NoTask /\ client = NoClient
    /\ flock # "free"
    /\ Goto(t, "refused")
    /\ UNCHANGED <<server, call, mine, resets, process, world>>

(* Mutant: _connect_lock is not held across the connect.                   *)
BeginConnect_Unlocked(t) ==
    /\ pc[t] = "acquire" /\ connectLock = NoTask /\ client = NoClient
    /\ flock' = "server"
    /\ Goto(t, "pool1")
    /\ UNCHANGED <<client, status, connectLock, cached, call, mine, resets, process, world>>

BeginConnect(t) ==
    /\ pc[t] = "acquire" /\ connectLock = NoTask /\ client = NoClient
    /\ flock = "free"
    /\ flock' = "server"
    /\ connectLock' = t
    /\ Goto(t, "pool1")
    /\ UNCHANGED <<client, status, cached, call, mine, resets, process, world>>

ReportRefusal(t) ==
    /\ pc[t] = "refused"
    /\ Return(t)
    /\ UNCHANGED <<server, process, world>>

(* Mutants of Abandon: the client, the file lock or _connect_lock survives *)
(* the exception.                                                          *)
Abandon_KeepsClient(t) ==
    /\ ReleaseFlock /\ connectLock' = NoTask /\ Return(t)
    /\ UNCHANGED client

Abandon_KeepsFlock(t) ==
    /\ client' = NoClient /\ connectLock' = NoTask /\ Return(t)
    /\ UNCHANGED flock

Abandon_KeepsConnectLock(t) ==
    /\ client' = NoClient /\ ReleaseFlock /\ Return(t)
    /\ UNCHANGED connectLock

(* The exception leaves _connect_locked: no client, no file lock.          *)
Abandon(t) ==
    /\ client' = NoClient
    /\ ReleaseFlock
    /\ connectLock' = NoTask
    /\ Return(t)

PoolConnects(t) ==
    /\ pc[t] \in Pooling /\ net
    /\ \E c \in Client :
         /\ Fresh(c) /\ c = NewClient
         /\ client' = c
         /\ status' = [status EXCEPT ![c] = "up"]
    /\ Goto(t, IF pc[t] = "pool1" THEN "auth1" ELSE "auth2")
    /\ UNCHANGED <<connectLock, flock, cached, call, mine, resets, process, world>>

PoolFails(t) ==
    /\ pc[t] \in Pooling /\ ~net
    /\ Abandon(t)
    /\ UNCHANGED <<status, cached, process, world>>

CheckAnswers == client # NoClient /\ status[client] = "up" /\ ~journal

(* Mutant: the answer of is_user_authorized is ignored.                    *)
Authorized_Unchecked(t) ==
    /\ pc[t] \in Checking /\ CheckAnswers
    /\ connectLock' = NoTask
    /\ mine' = [mine EXCEPT ![t] = client]
    /\ Goto(t, "resolve")
    /\ UNCHANGED <<client, status, flock, cached, call, resets, process, world>>

(* is_user_authorized returns True: get_client hands out the client.       *)
Authorized(t) ==
    /\ pc[t] \in Checking /\ CheckAnswers /\ authorized
    /\ connectLock' = NoTask
    /\ mine' = [mine EXCEPT ![t] = client]
    /\ Goto(t, "resolve")
    /\ UNCHANGED <<client, status, flock, cached, call, resets, process, world>>

(* It returns False: the client is disconnected ...                        *)
Unauthorized(t) ==
    /\ pc[t] \in Checking /\ CheckAnswers /\ ~authorized
    /\ CloseClient
    /\ Goto(t, IF pc[t] = "auth1" THEN "unauth1" ELSE "unauth2")
    /\ UNCHANGED <<client, connectLock, flock, cached, call, mine, resets, process, world>>

(* ... and dropped, and the call is told to run generate_session.py.       *)
Reject(t) ==
    /\ pc[t] \in Rejecting
    /\ Abandon(t)
    /\ UNCHANGED <<status, cached, process, world>>

(* Mutant: the journal is removed under a client that is still open.       *)
CheckRaises_NoDisconnect(t) ==
    /\ pc[t] \in {"auth1", "unauth1"} /\ journal
    /\ Goto(t, "relock")
    /\ UNCHANGED <<server, call, mine, resets, process, world>>

(* It raises, or the disconnect above does, or _client is None because a   *)
(* session has ended meanwhile.  On the first pass an error    *)
(* that names a locked database goes to the stale-journal recovery, every  *)
(* other error to the outer except; both disconnect the client first.      *)
CheckRaises(t) ==
    /\ pc[t] \in Checking => ~CheckAnswers
    /\ \/ /\ pc[t] \in {"auth1", "unauth1"} /\ journal
          /\ Goto(t, "relock")
       \/ /\ pc[t] \in Checking \cup Rejecting
          /\ pc[t] \in {"auth1", "unauth1"} => ~journal
          /\ Goto(t, "cleanup")
    /\ CloseClient
    /\ UNCHANGED <<client, connectLock, flock, cached, call, mine, resets, process, world>>

KillStaleSession(t) ==
    /\ pc[t] = "relock"
    /\ client' = NoClient
    /\ journal' = FALSE
    /\ Goto(t, "sleep")
    /\ UNCHANGED <<status, connectLock, flock, cached, call, mine, resets, process,
                   net, authorized>>

RetryConnect(t) ==
    /\ pc[t] = "sleep"
    /\ Goto(t, "pool2")
    /\ UNCHANGED <<server, call, mine, resets, process, world>>

CleanUp(t) ==
    /\ pc[t] = "cleanup"
    /\ Abandon(t)
    /\ UNCHANGED <<status, cached, process, world>>

-----------------------------------------------------------------------------
(* What a call does once it has a client.  The names of the awaits:        *)
(* resolve - get_entity or get_me; send - send_message; poll - the settle  *)
(* window; fetch - get_messages under _call_with_recovery.                 *)
AfterResolve(t) ==
    CASE call[t] = "command" -> Goto(t, "send") /\ UNCHANGED <<call, mine, resets>>
      [] call[t] = "history" -> Goto(t, "fetch") /\ UNCHANGED <<call, mine, resets>>
      [] OTHER -> Return(t)

(* A cached entity costs no request; Saved Messages are never cached and   *)
(* cost a get_me, except to ensure_watcher, which does not ask who we are. *)
ResolveOk(t) ==
    /\ pc[t] = "resolve"
    /\ \/ cached /\ UNCHANGED cached
       \/ ~cached /\ SavedMessages /\ UNCHANGED cached
            /\ (call[t] = "warmup" \/ Works(t))
       \/ ~cached /\ ~SavedMessages /\ cached' = TRUE /\ Works(t)
    /\ AfterResolve(t)
    /\ UNCHANGED <<client, status, connectLock, flock, process, world>>

ResolveFails(t) ==
    /\ pc[t] = "resolve" /\ ~cached
    /\ Return(t)
    /\ UNCHANGED <<server, process, world>>

(* send_message is outside every recovery: any error ends the call.        *)
Send(t) ==
    /\ pc[t] = "send"
    /\ \/ Works(t) /\ Goto(t, "poll") /\ UNCHANGED <<call, mine, resets>>
       \/ Return(t)
    /\ UNCHANGED <<server, process, world>>

(* The settle window closes (answer, or the deadline), whatever the state  *)
(* of the connection.                                                      *)
FinishPoll(t) ==
    /\ pc[t] = "poll"
    /\ Return(t)
    /\ UNCHANGED <<server, process, world>>

(* get_messages answers, or raises an error no reconnect would help.       *)
FetchEnds(t) ==
    /\ pc[t] = "fetch" /\ Works(t)
    /\ Return(t)
    /\ UNCHANGED <<server, process, world>>

FetchGivesUp(t) ==
    /\ pc[t] = "fetch" /\ ~Works(t) /\ resets[t] = Attempts - 1
    /\ Return(t)
    /\ UNCHANGED <<server, process, world>>

MayReset(t) ==
    ~Works(t) /\ (OverlappingResets \/ \A s \in Task : pc[s] # "reconnect")

(* Mutants of BeginReset: no limit; no disconnect.                         *)
BeginReset_Unbounded(t) ==
    /\ MayReset(t) /\ pc[t] \in {"poll", "fetch"}
    /\ CloseClient
    /\ resets' = [resets EXCEPT ![t] = @ + 1]
    /\ Goto(t, "reconnect")
    /\ UNCHANGED <<client, connectLock, flock, cached, call, mine, process, world>>

BeginReset_NoDisconnect(t) ==
    /\ MayReset(t)
    /\ \/ pc[t] = "poll" /\ resets[t] = 0
       \/ pc[t] = "fetch" /\ resets[t] < Attempts - 1
    /\ resets' = [resets EXCEPT ![t] = @ + 1]
    /\ Goto(t, "reconnect")
    /\ UNCHANGED <<server, call, mine, process, world>>

(* A transient error reconnects: once per command, between two attempts of *)
(* a history fetch.  _reset_client takes no lock: it disconnects whatever  *)
(* _client is now and opens another.  Its two awaits are one here, because *)
(* it reads nothing between them.                                          *)
BeginReset(t) ==
    /\ MayReset(t)
    /\ \/ pc[t] = "poll" /\ resets[t] = 0
       \/ pc[t] = "fetch" /\ resets[t] < Attempts - 1
    /\ CloseClient
    /\ resets' = [resets EXCEPT ![t] = @ + 1]
    /\ Goto(t, "reconnect")
    /\ UNCHANGED <<client, connectLock, flock, cached, call, mine, process, world>>

(* The pool connected.  send_command takes the new _client; the lambda of  *)
(* get_history keeps the client object it closed over.                     *)
ResetConnects(t) ==
    /\ pc[t] = "reconnect" /\ net
    /\ \E c \in Client :
         /\ Fresh(c) /\ c = NewClient
         /\ client' = c
         /\ status' = [status EXCEPT ![c] = "up"]
         /\ mine' = IF call[t] = "command" THEN [mine EXCEPT ![t] = c] ELSE mine
    /\ cached' = FALSE
    /\ Goto(t, IF call[t] = "command" THEN "poll" ELSE "fetch")
    /\ UNCHANGED <<connectLock, flock, call, resets, process, world>>

(* It did not: the error leaves the tool, and _client stays the object     *)
(* that was disconnected.                                                  *)
ResetFails(t) ==
    /\ pc[t] = "reconnect" /\ ~net
    /\ Return(t)
    /\ UNCHANGED <<server, process, world>>

(* The MCP client cancels the call.  CancelledError is no Exception: the   *)
(* `except Exception` clauses of _connect_locked do not see it, and only   *)
(* `async with _connect_lock` is unwound.                                  *)
Cancel(t) ==
    /\ Cancellable /\ pc[t] \notin {"idle", "refused"}
    /\ Return(t)
    /\ connectLock' = IF connectLock = t THEN NoTask ELSE connectLock
    /\ UNCHANGED <<client, status, flock, cached, process, world>>

-----------------------------------------------------------------------------
(* Mutant: shutdown forgets to disconnect.                                 *)
BeginShutdown_NoDisconnect ==
    /\ proc = "run" /\ \A t \in Task : pc[t] = "idle"
    /\ proc' = "stopping"
    /\ UNCHANGED <<server, ended, tasks, world>>

(* The process.  The application's lifespan ends once the calls are over.  *)
BeginShutdown ==
    /\ proc = "run" /\ \A t \in Task : pc[t] = "idle"
    /\ proc' = "stopping"
    /\ CloseClient
    /\ UNCHANGED <<client, connectLock, flock, cached, ended, tasks, world>>

(* Mutant: the file lock stays.                                            *)
DropClient_KeepsFlock ==
    /\ client' = NoClient
    /\ cached' = FALSE
    /\ UNCHANGED flock

(* shutdown, after its await.                                              *)
DropClient ==
    /\ client' = NoClient
    /\ cached' = FALSE
    /\ ReleaseFlock

FinishShutdown ==
    /\ proc = "stopping"
    /\ proc' = "exiting"
    /\ DropClient
    /\ UNCHANGED <<status, connectLock, ended, tasks, world>>

(* An MCP session ends: FastMCP leaves the lifespan it entered for it, and *)
(* shutdown takes the client and the file lock from the calls of all the   *)
(* other sessions, whatever they are at.  Without a client nothing awaits. *)
BeginSessionEnd ==
    /\ proc = "run" /\ ended < SessionEnds
    /\ ended' = ended + 1
    /\ \/ /\ client # NoClient
          /\ CloseClient
          /\ proc' = "ending"
          /\ UNCHANGED <<client, flock, cached>>
       \/ /\ client = NoClient
          /\ DropClient
          /\ UNCHANGED <<status, proc>>
    /\ UNCHANGED <<connectLock, tasks, world>>

FinishSessionEnd ==
    /\ proc = "ending"
    /\ proc' = "run"
    /\ DropClient
    /\ UNCHANGED <<status, connectLock, ended, tasks, world>>

(* The process is gone: the system closes its sockets and its lock file.   *)
Die ==
    /\ proc' = "off" /\ ended' = 0
    /\ client' = NoClient
    /\ status' = [c \in Client |-> "closed"]
    /\ connectLock' = NoTask
    /\ ReleaseFlock
    /\ cached' = FALSE
    /\ pc' = [t \in Task |-> "idle"]
    /\ call' = [t \in Task |-> "none"]
    /\ mine' = [t \in Task |-> NoClient]
    /\ resets' = [t \in Task |-> 0]

Exit ==
    /\ proc = "exiting"
    /\ Die
    /\ UNCHANGED world

(* A crash in the middle of a write leaves the journal behind.             *)
Crash ==
    /\ proc # "off"
    /\ Die
    /\ journal' \in {journal, journal \/ (\E c \in Client : Live(c))}
    /\ UNCHANGED <<net, authorized>>

Boot ==
    /\ proc = "off"
    /\ proc' = "run"
    /\ UNCHANGED <<server, ended, tasks, world>>

-----------------------------------------------------------------------------
(* The world: the network, and the other process that writes the session   *)
(* file under the same lock (generate_session.py, or a second server).     *)
NetChanges ==
    /\ net' = ~net
    /\ UNCHANGED <<server, tasks, process, authorized, journal>>

GoesStale(c) ==
    /\ ~net /\ status[c] = "up"
    /\ status' = [status EXCEPT ![c] = "stale"]
    /\ UNCHANGED <<client, connectLock, flock, cached, tasks, process, world>>

OtherStarts ==
    /\ flock = "free"
    /\ flock' = "other"
    /\ UNCHANGED <<client, status, connectLock, cached, tasks, process, world>>

OtherEnds ==
    /\ flock = "other"
    /\ flock' = "free"
    /\ authorized' \in {authorized, TRUE}
    /\ journal' \in {journal, TRUE}
    /\ UNCHANGED <<client, status, connectLock, cached, tasks, process, net>>

Step(t) ==
    \/ ReuseClient(t) \/ RefuseLocked(t) \/ BeginConnect(t) \/ ReportRefusal(t)
    \/ PoolConnects(t) \/ PoolFails(t)
    \/ Authorized(t) \/ Unauthorized(t) \/ Reject(t) \/ CheckRaises(t)
    \/ KillStaleSession(t) \/ RetryConnect(t) \/ CleanUp(t)
    \/ ResolveOk(t) \/ ResolveFails(t) \/ Send(t) \/ FinishPoll(t)
    \/ FetchEnds(t) \/ FetchGivesUp(t)
    \/ BeginReset(t) \/ ResetConnects(t) \/ ResetFails(t)

Process ==
    \/ BeginShutdown \/ FinishShutdown \/ Exit \/ Crash \/ Boot
    \/ BeginSessionEnd \/ FinishSessionEnd

World == NetChanges \/ (\E c \in Client : GoesStale(c)) \/ OtherStarts \/ OtherEnds

Next ==
    \/ \E t \in Task : Step(t) \/ Cancel(t) \/ \E k \in Kind : StartCall(t, k)
    \/ Process
    \/ World

Spec == Init /\ [][Next]_vars

(* asyncio runs a task that is ready, and _connect_lock is FIFO, so a task *)
(* that waits for it gets it: strong fairness where it is contended.       *)
(* Where reconnects are kept apart, each gets its turn.                    *)
Acquire(t) == ReuseClient(t) \/ RefuseLocked(t) \/ BeginConnect(t)

Fairness ==
    \A t \in Task : WF_vars(Step(t)) /\ SF_vars(Acquire(t)) /\ SF_vars(BeginReset(t))

FairSpec == Spec /\ Fairness

-----------------------------------------------------------------------------
TypeOK ==
    /\ client \in Client \cup {NoClient}
    /\ status \in [Client -> {"closed", "up", "stale"}]
    /\ connectLock \in Task \cup {NoTask}
    /\ flock \in {"free", "server", "other"}
    /\ cached \in BOOLEAN
    /\ pc \in [Task -> PC]
    /\ call \in [Task -> Kind \cup {"none"}]
    /\ mine \in [Task -> Client \cup {NoClient}]
    /\ resets \in [Task -> 0 .. Attempts]
    /\ proc \in {"run", "ending", "stopping", "exiting", "off"}
    /\ ended \in 0 .. SessionEnds
    /\ net \in BOOLEAN /\ authorized \in BOOLEAN /\ journal \in BOOLEAN

(* The file lock is held for as long as the server has a client, whatever  *)
(* calls connect, fail, reconnect or are cancelled in between              *)
(* (_connect_locked, _reset_client: "keeps the session lock held"), until  *)
(* a session ends beside others.                                           *)
ClientNeedsLock == ended = 0 => (client # NoClient => flock = "server")

(* No other process writes the session while the server has a connection   *)
(* open, whatever sessions end (_acquire_session_lock: "to prevent         *)
(* concurrent writers"; _reset_client: "keeps the session lock held").     *)
NoConcurrentWriters == flock = "other" => \A c \in Client : ~Live(c)

(* Single flight: one call at a time is inside _connect_locked, and none   *)
(* uses or replaces the client meanwhile (the comment above _connect_lock).*)
SingleFlight ==
    \A s, t \in Task :
        ended = 0 /\ pc[s] \in Opening /\ s # t => pc[t] \notin Opening \cup Using

(* No request is made on a session that was not found logged in, or on one *)
(* a dead writer left locked: the check and the stale-journal recovery of  *)
(* _connect_locked come before every use.  Without cancellation.           *)
UseNeedsGoodSession ==
    \A t \in Task : ended = 0 /\ pc[t] \in Using => authorized /\ ~journal

(* The server writes the session through one client at a time: a replaced  *)
(* client has been disconnected (_reset_client: "drop the client and       *)
(* rebuild a fresh connection").                                           *)
OneLiveClient == \A c, d \in Client : Live(c) /\ Live(d) => c = d

(* _kill_stale_session deletes only what a dead writer left: it runs under *)
(* the file lock and with no connection of this process open.              *)
KillOnlyStale ==
    [][journal /\ ~journal' => flock = "server" /\ \A c \in Client : ~Live(c)]_vars

(* A call is refused only because another process holds the session (the   *)
(* comment and the message in _connect_locked).                            *)
RefusalMeansOtherProcess ==
    [][\A t \in Task : ended = 0 /\ pc[t] = "acquire" /\ pc'[t] = "refused"
           => flock = "other"]_vars

(* A command that has already reconnected keeps polling because "the event *)
(* handler may still deliver the response" (the comment in its recovery):  *)
(* its handler is on a connection nobody has disconnected.                 *)
HandlerMayDeliver ==
    \A t \in Task :
        pc[t] = "poll" /\ resets[t] > 0 => mine[t] # NoClient /\ Live(mine[t])

(* A retry of _call_with_recovery runs on the connection the reconnect     *)
(* made: it does not fail while _client works.                             *)
RetryUsesNewClient ==
    \A t \in Task : pc[t] = "fetch" /\ client # NoClient /\ status[client] = "up"
                       => Works(t)

(* The server keeps the promise of ExclusiveSession with every connection  *)
(* it has open, not only the one in _client: it never gives up the lock,   *)
(* alive, with a connection still open.                                    *)
Session == INSTANCE ExclusiveSession
             WITH owner <- flock, open <- \E c \in Client : Live(c)

ImplementsExclusiveSession == Session!Spec

(* Every call comes back: it is answered, refused or raises.               *)
EveryCallAnswered == \A t \in Task : pc[t] # "idle" ~> pc[t] = "idle"

(* "No server restart is needed": once the session is logged in, the       *)
(* network is there and no other process has the session, a server that    *)
(* is called again has a client, and keeps one.                            *)
Healthy == net /\ authorized /\ flock # "other" /\ proc = "run"

NoRestartNeeded == <>[]Healthy => <>[](client # NoClient)

(* A connection that went stale is re-established once the network is back *)
(* and calls keep coming (the comment above _TRANSIENT_MSG_RE).            *)
StaleIsReplaced ==
    <>[]Healthy => []<>(client # NoClient /\ status[client] = "up")

(* Calls keep coming: an assumption on the callers, for the properties     *)
(* that speak of the next call.                                            *)
CallsKeepComing == \A t \in Task : WF_vars(\E k \in Kind : StartCall(t, k))

BusySpec == FairSpec /\ CallsKeepComing
=============================================================================
