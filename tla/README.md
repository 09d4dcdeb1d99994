# heroku-mcp in TLA+

heroku-mcp is an MCP server that drives a Telegram userbot ("Heroku"): an MCP
client calls a tool, the server posts a command to a chat over its own Telethon
session, watches the chat until the answer has settled, and returns it. This
directory holds TLA+ modules of the server's stateful parts and its conversions,
TLC configurations that check them on small instances, and TLAPS proofs about
each of them: the connection, the settle window, the proxy pool, the target chat,
the module store, the tools and the conversions.

Paths below are relative to `src/` of the repository; `telegram.py`,
`server.py`, `config.py`, `proxy.py`, `rich.py` and `module_store.py` are in
`src/heroku_mcp/`.

## The system

One asyncio event loop runs everything. Code between two awaits is atomic; at an
await every other call may run. All state is module-level and in memory, except
the session file, its lock file and the module files.

| Component | State | Operations | Speaks to |
|---|---|---|---|
| Connection (`telegram.py`) | `_client`, `_connect_lock`, `_session_lock_fd`, the session file | `get_client`, `_connect_locked`, `_reset_client`, `_call_with_recovery`, `shutdown` | every tool, the lifespan, `generate_session.py` through the lock file |
| Proxy pool (`telegram.py`) | `_proxy_pool`, `_pool_index`, `_pool_loaded` | `_load_proxy_pool`, `_connect_pool`, `_connect_with_retries` | called by the connection; fetches a URL |
| Settle window (`telegram.py`) | the locals of one `send_command` | post, events, polls, settle test, one reconnect | Telegram, the userbot |
| Target chat (`telegram.py`, `server.py`) | `her_chat_id`, `her_topic_id`, `_resolved_entity` | `_resolve_entity`, `set_target_chat` | every command and history |
| Module store (`module_store.py`, `server.py`) | `_runner`, `_bound_port`, `modules_dir` | `start_server`, `stop_server`, `load_module` | lifespans, the userbot's `.dlm` |
| Lifespan (`server.py`) | - | warm-up, start and stop of the store, `shutdown` | entered for the application and by FastMCP for each MCP session |
| Tools (`server.py`) | the locals of each call | `restart_userbot`, `evaluate`, `list_modules`, raw commands | `send_command`, the userbot |
| HTTP edge (`server.py`, `config.py`) | - | `Guard`, token, allowed hosts | MCP clients |
| Configuration, links (`config.py`) | `settings` | parsing and validation at import; module URLs | all |
| Proxy specs (`proxy.py`) | - | `parse_proxy`, `parse_proxy_list` | the pool |
| Rich messages (`rich.py`) | - | `message_text` | the settle window, `.help` |
| Scripts | the session file | `generate_session.py`, `check_proxies.py` | Telegram |

What is hard: calls that interleave on the shared client, entity, pool and
store; cancellation in the middle of a connect; a second process on the session
file and a crash that leaves a journal; connections that go stale while calls
hold on to them; sessions that end beside the calls of others; events that are
lost or overtaken by polls; deadlines that pass during a request; answers that
belong to somebody else's command.

What makes each part correct, in one sentence:

* Connection: only a server that holds the file lock writes the session, through
  one client at a time, and every call comes back.
* Pool: a connect finds a candidate that works if there is one.
* Settle window: the newest text that has been quiet long enough is returned,
  whatever is lost, in bounded time.
* Target chat: a request goes to the chat and topic named last, with an entity
  of the connection it uses.
* Module store: one server, known by its port, that is up while a load needs it
  and serves what that load saved.
* Tools: what a tool returns was an answer to its own command, and a restart is
  confirmed only by a userbot that answered.
* Conversions: what is written (a proxy, a link, a rich message, a listing, a
  bind address) is what comes out, in each of the forms the docs allow.

## Modules

| Module | Models | Uses |
|---|---|---|
| `Connection` | the client, its locks and the calls that use them | implements `ExclusiveSession` |
| `SettleWindow` | one `send_command` | implements `Answer` |
| `TargetChat` | where requests go | `ChatLink` |
| `ProxyPool` | connects over the proxies | `ProxySpec` |
| `ModuleStore` | the module server and `load_module` | |
| `CommandTools` | the tools that talk to the userbot, over what `Answer` promises | |
| `Conversions` | the pure functions, one call at a time | `ProxySpec`, `RichText`, `HttpEdge` |

A module `MC...` holds the instances for TLC; `ConnectionProofs`, `SessionProofs`,
`SettleProofs`, `PoolProofs`, `ChatProofs`, `StoreProofs`, `ToolsProofs` and
`ConversionProofs` hold proofs.
Definitions named `Action_Something` are mutants: what a plausible bug would make
of `Action`. No specification uses them.

### Connection, ExclusiveSession

A task is a tool call, and `pc` the await it is suspended at: `acquire` (for
`_connect_lock`), `pool1`, `auth1`, `sleep`, `pool2`, `auth2`, `unauth1`,
`unauth2`, `cleanup` (inside `_connect_locked`), `resolve`, `send`, `poll`,
`fetch`, `reconnect`. A call is a `command`, a `history`, the `warmup` of the
lifespan or a `switch`. `client` is `_client`, `mine` the local variable of each
call, `status` says of each client object whether it is connected, and whether
that connection still works. `flock` is who holds the lock file: `"server"` is
the descriptor in `_session_lock_fd`, and because `flock` is per descriptor the
server's own second attempt is refused too. `net`, `authorized` and `journal`
are the world: a route to Telegram, the login, and the journal of a dead writer.
The cycle over the proxies is one step that succeeds or fails; `ProxyPool` opens
it. The process starts, stops and crashes (`Boot`, `BeginShutdown`,
`FinishShutdown`, `Exit`, `Crash`), and `OtherStarts`/`OtherEnds` are
`generate_session.py`.

FastMCP enters the lifespan for each MCP session, so the end of one session runs
`shutdown` beside the calls of the others (`BeginSessionEnd`,
`FinishSessionEnd`). `ended` counts such ends in this process; most safety
properties are promises up to the first one (`ended = 0`), and `conn_unlocked`
shows why.

`ExclusiveSession` says in five lines what the lock is for: one owner, and a
connection only under the lock. `Connection` implements it with
`owner <- flock` and `open <- some client is connected`.

### ProxyPool, ProxySpec

One `_connect_pool` per task: load, try the candidates, fall back. `pool`,
`index` and `loaded` are shared, `size` and `offset` are a cycle's own. A fetch
answers one of `Lists` (of lines as they stand in the list) or fails. `good` is
what works at the moment and changes freely; the variables marked *history*
remember what the properties compare. The pool holds lines, as the code's does:
`parse_proxy_list` has filtered those of the list, nobody has looked at the
`proxy` setting, and a candidate that does not parse raises (`"ValueError"`).
`Overlapping` says whether two connects may be under way together: get_client's
lock keeps those of calls apart, a reconnect runs beside it.

`ProxySpec` is `parse_proxy`: what a line says, its `Form`, against the
parameters Telethon is given.

### SettleWindow, Answer

One `send_command` in ticks of half a second, the timeout of its `wait_for`. The
userbot follows a `Script` of edits and posts at moments of its own choosing;
each makes an event, which may be lost (`Lossy`), and is visible to polls. The
window is `last`, `lastAt`, `seen` and `fut` (`settled_fut` is done). A request
of a poll takes up to `MaxPoll` ticks and shows the chat at some moment since it
was asked. `InOrder` says that an answer does not overtake the event of what it
shows, which holds for one connection's stream of updates in order.

`Answer` is what a caller may rely on without any clock: the call follows texts
that appeared since the command, takes none twice and none that is not there, and
is over for good when it returns. `SettleWindow` implements it with
`taken <- seen` and `answer <- last`.

### CommandTools

Several tools at a time in one chat. A window takes what `_in_scope` and
`_accept` let through: every text of the account from the id of its command on,
but for the text of the command; `Take` picks any of them, as `Answer` allows.
The userbot answers with a new message or by editing the command (`Edited`), in
stages, late, also after a restart, or never; it stops and boots. Each tool is
its own command; `restart_userbot` goes on from the answer to `.restart -f`
through its sleep (`booting`) and up to `Tries` times `.help` with a pause
between. `crossed` remembers that another call sent a command while this one
waited, `owed` that commands were unanswered when it was sent, `since` the boot
of the userbot when the restart was asked for.

### TargetChat, ChatLink

The chat and topic in the settings, `_resolved_entity`, and calls that resolve,
ask who they are (Saved Messages), send, poll or fetch, and reconnect. An entity
remembers the chat and the connection it was resolved on; `live` are the
connections not disconnected. `named` and `latest` are the pairs that the
configuration and the switches have named.

`ChatLink` is `parse_chat_link` and the two rules of precedence around it. The
properties speak of the pair somebody meant; `ConfigWays` and `SwitchWays` are
the documented ways of writing it down, and each of them is tried.

### ModuleStore

Lifespans and `load_module` calls are actors that run `start_server`; lifespans
run `stop_server`. `_runner` is a number, 0 for None; `ready` are the runners
set up, `serving` the sites that listen. Another program may hold a port at any
time. The userbot reaches the store through the front end of `module_base_url`,
which forwards to the first port. That FastMCP enters the lifespan for each MCP
session is the SDK's behaviour (mcp 1.x, `Server.run`); the header of
`tests/test_lifespan.py` describes it.

### Conversions: ProxySpec, RichText, HttpEdge

The initial states are the inputs and each has one step, the call; the
properties compare the output with a definition that does not follow the code.
`RichText` renders a tree of blocks to atoms (words, numerals, marks, blanks),
decides whether it has content, and reads a listing from it. The trees are those
of `Depth`, which says of each how deep it nests: a tree contains only trees that
nest less deep, so what the code computes by recursion (`_text`, `_block`) is a
recursive function (`TextOf`, `BlockText`), whose body is an operator of its own
(`NodeText`, `OneBlock`). A word is no number, because a list writes numbers of
its own between the words of a message: `WordsAreKept` speaks of words only. `HttpEdge` is the decision
of `Guard` and of the host check behind it over a bind address, a token,
`allowed_hosts` and a request, and the host in a module's URL. What the listener
is reached under is the environment's (`ReachedAs`: asyncio binds `::` for IPv6
alone).

## Runs

Passing runs:

| Run | Instance | Shows |
|---|---|---|
| `conn_one` | 1 call of any kind at a time, cancellable, Saved Messages, 3 clients | `KillOnlyStale`, `ImplementsExclusiveSession` |
| `conn_live` | 2 calls of any kind, reconnects one at a time, no cancellation, 4 clients | `TypeOK`, `ClientNeedsLock`, `SingleFlight`, `UseNeedsGoodSession`, `OneLiveClient`, `RefusalMeansOtherProcess`, `EveryCallAnswered` |
| `conn_sessions` | 1 call, 2 sessions that end beside it, 5 clients; calls keep coming | `EveryCallAnswered`, `NoRestartNeeded` |
| `pool_single` | 2 tasks that connect one after the other (`Overlapping = FALSE`), 4 connects, 3 proxies, lists of different lengths with junk and comments, a good and a bad `proxy` setting | `TypeOK`, `FindsLiveCandidate`, `KeepsRotating`, `RefetchAfterFailure`, `OnlyBadSettingFails` |
| `settle` | an echo and two edits, lost events, failing polls, one reconnect | `TypeOK`, `QuietBeforeSettle`, `PollsAreSafetyNet`, `BoundedOverrun`, `NoRegress`, `ImplementsAnswer`, `CallReturns` |
| `chat_serial` | 2 calls, a private and a public chat and a chat by its negative id, every documented link; switches wait for the others, reconnects for each other | `TypeOK`, `CacheIsCurrent`, `FollowsLatest` |
| `tools` | a restart with its verification beside another tool, one restart of the userbot, cancellation | `TypeOK`, `AnswersOwn`, `BackMeansAlive`, `EveryToolReturns` |
| `store` | 1 application, 2 sessions, 2 loads, busy ports, cancellation | `TypeOK`, `BoundIsActual`, `NoStrayServer`, `RunnerIsAlive`, `SavedIsLoaded` |
| `conversions` | 28,000 inputs and outputs | `ProxyAsWritten`, `WordsAreKept`, `WordsSettle`, `ModulesAreListed`, `ServesItsClients` |

Where a property holds only in part of a run, a variable says which: `ended` in
Connection (a session has ended beside others), `failed` in SettleWindow (a
request of a poll has failed: it has shown nothing, and the settle test follows
all the same), `disturbed` in ModuleStore (a stop overlapped a start or another
stop, or a start was cancelled), `crossed` and `owed` in CommandTools.

Runs that end in a counterexample, each a statement of the repository that the
code does not keep, and findings in `PROJECT.json`:

| Run | Statement | What happens |
|---|---|---|
| `conn_cancel` | "another process is using the session" (`telegram.py:237`) | a cancelled connect keeps the file lock with no client; the server refuses itself from then on |
| `conn_unlocked` | "to prevent concurrent writers" (`telegram.py:89`) | the end of one session gives up the file lock while a call of another connects; a second process then writes beside it |
| `chat_race` | "all commands are sent to" (`server.py:330`) | a superseded resolution is cached after the switch |

Further disagreements TLC shows with the configurations named; they are kept for
study and are not among the project's runs. A configuration with several
properties is checked with one of them at a time, since TLC stops at the first
violation:

| Configuration | Property | Statement | What happens |
|---|---|---|---|
| `MCConnectionRetry` | `RetryUsesNewClient` | "reconnects and retries once" (`tests/test_transient_recovery.py:14-15`) | the retries of `get_history` run on the client that was disconnected |
| `MCConnectionOverlap` | `OneLiveClient` | "drop the client and rebuild a fresh connection" (`telegram.py:320`) | two reconnects together leave two clients connected |
| `MCConnectionStale` | `StaleIsReplaced` | the connection "must be re-established" (`telegram.py:22-24`) | a stale connection met by `send_message` is never replaced |
| `MCConnectionOverlap` | `HandlerMayDeliver` | "the event handler may still deliver the response" (`telegram.py:581-582`) | another call's reconnect has disconnected it |
| `MCSettleOrder` | `NoRegress` | "must not regress the state machine" (`telegram.py:507-508`) | an older text not seen before replaces a newer one |
| `MCSettleAck` | `ContentWins` | "the last content-bearing text wins" (`GLOSSARY.md:43`) | an ack accepted after content replaces it |
| `MCSettleFlood` | `QuietBeforeSettle` | "without a newer one" (`telegram.py:481-482`) | a slow poll makes the window drop the newer event |
| `MCSettleCeiling` | `WaitIsCeiling` | "Max seconds to wait overall" (`telegram.py:480`) | a poll under way is waited for |
| `MCCommandToolsBeside` | `AnswersOwnAlways` | "wait for its answer to settle" (`telegram.py:476`) | a tool returns what was answered to another's command |
| `MCCommandToolsBeside` | `BackMeansAliveAlways` | "userbot is back" (`server.py:248`) | of two restarts at a time, one takes the other's `.help` for the proof |
| `MCCommandToolsBeside` | `BackMeansRestarted` | "report the final restart status" (`server.py:233`) | a userbot that never went down confirms the restart |
| `MCTargetChatMixed` | `PairsAreNamed` | "all commands are sent to" (`server.py:330`) | the old chat with the new topic |
| `MCTargetChatReset` | `EntityFitsConnection` | "force re-resolution" (`telegram.py:336`) | a command polls a new connection with an old entity |
| `MCTargetChatOverlap` | `CacheIsCurrent` | the same | an old entity is cached after a second reconnect |
| `MCProxyPoolOverlap` | `NoIndexError` | "falls back to the old single-proxy path" (`telegram.py:155`) | `IndexError` when the list shrinks under a cycle |
| `MCProxyPoolFailed` | `FailedProxyLast` | "the failed proxy is retried last" (`telegram.py:326`) | after a refetch the primary proxy is first again |
| `MCProxyPoolFailed` | `RefetchAfterFailure` | "list URL fetched at least once" (`telegram.py:47`) | a failed fetch with no primary proxy is never repeated |
| `MCProxyPoolOverlap` | `FindsLiveCandidate` | "in order until one connects" (`telegram.py:153`) | overlapping cycles leave a live candidate out |
| `MCModuleStoreSessions` | `ServedWhileLoading` | "the local module store serves them" (`server.py:162`) | the end of one session stops the store of all |
| `MCModuleStoreSessions` | `AlwaysStoppable` | "the actual port the server is listening on" (`module_store.py:61`) | a server listens that the globals have forgotten |
| `MCModuleStoreSame` | `SavedIsLoaded` | "saves the text ... and loads it" (`server.py:164-165`) | the other call's source is loaded |
| `MCModuleStoreDefault` | `NeverRefused` | "nothing to do (default)" (`README.md:142`) | without an https base URL every load is refused |
| `MCConversionsQuoted` | `ProxyAsWritten` | - | a user or password of a `tg://socks` link that `quote()` escapes (`proxy.py:148-155`) stays escaped: `urlsplit` does not undo it (`proxy.py:101`) |
| `MCConversionsWildcard` | `UrlReachesStore` | "that is what the userbot can reach" (`config.py:185-186`) | bound to `::`, the store listens on IPv6 alone, and the URL names the outbound IPv4 address |

Smaller ones, met while modelling and visible in the definitions named: a link
that begins with `T.me/` and names no topic raises `IndexError`, where
`config.py:51` promises `ValueError` (`ParseChatLink`); a URI or a
`tg://socks` link may name port 0, a `tg://proxy` link may not (`ParseSocksUri`); the title of a table is not rendered
(`BlockText`); an ack in a numbered list counts as content, because of the
number (`WordsSettle`); `X-Api-Key` is not looked at beside any other
`Authorization` (`SuppliedToken`); a module whose name has two words is not
listed (`MatchLine`).

The properties of the passing runs hold because of the restriction the run
names; a counterexample shows that the restriction is needed: `MCConnectionOverlap`
for the reconnects of `conn_live`, `conn_cancel` for its want of cancellation,
`conn_unlocked` for `ended = 0`, `MCProxyPoolOverlap` for `pool_single`,
`chat_race` and `MCTargetChatOverlap` for `chat_serial`, `MCModuleStoreSessions`
for `store`, `MCSettleFlood` for the `MaxPoll` and `MCSettleOrder` for the
script of `settle`, `MCCommandToolsBeside` for the histories of `tools`. Some of
the restrictions of `conn_live` are lifted by proofs: `SessionChecked` and
`RefusalHonest` hold for reconnects that overlap, `OneConnection` for calls that
are cancelled, and each for any number of calls.

### Bounds

* Two calls are enough for every race here: each needs one call at an await and
  one that changes what it read. A client object may be reused when nothing
  holds it any more, so the number of clients that the calls and `_client` can
  hold at a time, and one more, bounds nothing: 3 for one call, 4 for two, 5
  where sessions end under a call (`conn_sessions`).
* `Attempts = 3` of a history and the three legacy attempts are the code's own
  numbers. `Tries = 2` in `tools` is one less than the code's three: a first
  attempt, a pause, and a retry after it.
* Four connects cover a failure, the refetch, a success and the reconnect after
  it; lists of different lengths let the pool shrink.
* `settle` is scaled down: in ticks, the code's polls every 3 s are 6 and the
  default quiet is 4; the run has `PollEvery = 3`, `Quiet = 3` and `Wait = 11`,
  which keeps a poll longer than a tick and leaves room for three of them:
  `PollsAreSafetyNet` allows a missed text one round of five ticks, and a second
  one for a text taken meanwhile. The other instances have the code's numbers.
  Three script steps let a text be overtaken in both directions.
* `tools` has one call by each of two tasks and two answers of the userbot: an
  answer to each, two stages of one, or a late one to a call that was cancelled.
* Two ports stand for the hundred that are tried; three runners allow a start, a
  restart and one that overlaps it.
* `conversions`: secrets of up to three atoms with `MinSecret = 2`, ports around
  65535, messages of two blocks with lists in lists and details in details,
  listings of up to three modules in four layouts, requests with up to two
  headers to servers bound to each kind of address. The functions look at no
  more than two neighbours of anything, so a longer input repeats a shorter one.
* `CHECK_DEADLOCK FALSE` is used where a system may stop: the module store after
  its last lifespan (and at the bound on runners), the tools at the bound on
  calls, a conversion that has returned.

### Fairness

`FairSpec` of Connection: every step of a call that can run is run (weak
fairness: the event loop starves nobody and every network operation ends, in an
answer, an error or a timeout), and a call that waits for `_connect_lock` gets it
in the end (strong fairness: asyncio's lock is first in, first out). Where an
instance keeps reconnects apart, each call that wants one gets its turn (strong
fairness of `BeginReset`). Cancelling, crashes, the ends of sessions and the
network have no fairness. `BusySpec` adds that calls keep coming: an assumption
on MCP clients, used only where a property speaks of the next call. `FairSpec`
of SettleWindow: the loop runs what is ready and time passes. `FairSpec` of
CommandTools: a tool goes on when its `send_command` or its sleep is over, which
`CallReturns` of SettleWindow justifies; the userbot has no fairness at all.

## Proofs

39 theorems, for every value of the constants. A hypothesis of a theorem (in its
ASSUME) is a restriction the passing run has too; for each there is a
counterexample without it, named below. From the assumptions on the constants
(`ConnectionAssumption`, `SettleAssumption`, `PoolAssumption`, `SpecAssumption`,
`TargetAssumption`, `LinkAssumption`, `StoreAssumption`, `ToolsAssumption`,
`InputAssumption`, `RichAssumption`) and
nothing else. Each inductive invariant was checked by TLC on the run's instance
before it was proved.

### Connection: `ConnectionProofs`, `SessionProofs`

For any sets of tasks and clients, any kinds of call, any number of attempts and
of sessions that end, and for reconnects that overlap:

* `TypeCorrect`: `Spec => []TypeOK`
* `LockHeld`: `Spec => []ClientNeedsLock`
* `ConnectsAlone`: `Spec => []SingleFlight`
* `SessionChecked` and `RefusalHonest`: `UseNeedsGoodSession` and
  `RefusalMeansOtherProcess`, assuming `Cancellable = FALSE`

None of them is inductive alone. `IInv` adds that a call inside
`_connect_locked` is the one that holds `_connect_lock`, that it holds the file
lock, and that a call that uses a client is running beside a `_client` that is
not None: a client outlives its users because only the shutdown of the
application (which waits for the calls) and the call that connects set it to
None. That is why a reconnect may assign `_client` without the lock and still
find the file lock held. The end of one session among several breaks just this,
so the invariant of the whole specification is `Protocol`: `IInv` for as long as
`ended = 0`. It is inductive because only a process that dies sets `ended` back
(`OnlyDyingForgets`), and then nothing is left to be wrong (`DieFreesLocks`).
`NCInv` adds, without cancellation, that a client no call is checking has been
found good, and that the file lock is never kept without a client or a connect;
the second part is what cancellation breaks (`conn_cancel`); `CheckedProtocol`
is to it what `Protocol` is to `IInv`.

`SessionProofs` goes on to the connections themselves. Calls may be cancelled at
any await; no session ends beside others (`SessionEnds = 0`; otherwise
`conn_unlocked`), and reconnects wait for each other or there is one call
(`OneAtATime`; otherwise `MCConnectionOverlap`):

* `OneConnection`: `[]OneLiveClient`
* `WritersExcluded`: `[]NoConcurrentWriters`, the statement `conn_unlocked` refutes
* `JournalOfTheDead`: `KillOnlyStale`, an action property
* `SessionImplemented`: `ImplementsExclusiveSession`, each step mapped to a step
  of `ExclusiveSession` or a stutter
* `SessionHeldUntilEnd`: without `SessionEnds = 0`, all of this from the start of a
  process to the first session that ends beside others

`SInv` is `IInv` and `Connected`: only `_client` is ever open, nothing is open
while a call rejects, recovers or replaces a client or the process goes down,
and one call reconnects. "At most one client is open" alone is not inductive: a
call that rejects a client, cleans up after it or replaces it awaits with the old
one in a local variable, and it is `ClosedWhileReplaced` that says it was
disconnected before the new one opens. `UntilSessionEnd` is to `SInv` what
`Protocol` is to `IInv`.

### Settle window: `SettleProofs`

For any script of the userbot, any times, with events lost or late, failing polls
and a reconnect:

* `TypeCorrect`: `Spec => []TypeOK`, by itself inductive once a poll is shown to
  accept only texts of steps that have been done (`WindowFollows`)
* `OverrunBounded`: `Spec => []BoundedOverrun`, from `Timing`, which bounds the
  end of each await by the requests made since the deadline was last tested
* `AnswerImplemented`: `Spec => ImplementsAnswer`, each step mapped to a step of
  `Answer` or a stutter

Three more are about a userbot that answers by editing the command (`EditsOnly`:
it posts at most the echo), over a connection whose answers do not overtake its
updates (`InOrder`). With posts beside edits a poll may go back to a post never
seen (`MCSettleOrder`).

* `OnlyForward`: `NoRegress`. The invariant is `Ahead` (the window is ahead of
  all it has seen and behind every event still to come) and `PollSeesWindow`:
  while a poll is out, either the future is done, or the window has not moved
  since the request left, so what the request shows is no older. That the
  future doubles as this memory is what makes `_accept` safe against a poll
  that was asked before the last event.
* `SettlesQuiet`: `QuietBeforeSettle`, if a poll is shorter than half of `quiet`
  (`2 * MaxPoll < Quiet`; otherwise `MCSettleFlood`). `TakenLately` dates the
  text behind a future that is done, so a poll that settles has found it not
  done, has looked at the command, and has missed only what is newer than its
  request (`PollShowsOlder`, `UnaskedIsNew`).
* `PollsCatchUp`: `PollsAreSafetyNet`. `NextPollComes` says, for a text that was
  missed, when the next poll begins and each of its requests ends, counted from
  its last chance (`Since`); `PollLeaves` dates what a poll leaves for the next
  one; `RoundsCounted` counts the texts taken meanwhile. The bound has to grow
  with them: a wake-up starts the wait over without a poll (`telegram.py:550-553`,
  the `continue`), so late events of older texts postpone the poll that would
  show the newest. TLC refuted a bound that did not count them, with a script of
  five edits and late events.

### Proxy pool: `PoolProofs`

* `ListIsFiltered`: what `parse_proxy_list` returns is the lines `parse_proxy`
  accepts, all of them, for every list. The loop is a CHOOSE of the function its
  iterations make; that there is one and what it collects goes by a least
  counterexample (`WFMin` of the library), the form of induction the provers can
  use.
* `TypeCorrect` and `BadSettingFails`: `TypeOK` and `OnlyBadSettingFails`, for
  connects that overlap too. `PoolOrigin` is why: every candidate comes from a
  filtered list or is the setting, and a setting that does not parse is the first
  candidate, so nothing else is ever tried.
* For connects one at a time (`~Overlapping`; otherwise `MCProxyPoolOverlap`):
  `NeverPastEnd` (`NoIndexError`) and `LiveCandidateFound`
  (`FindsLiveCandidate`), from `InOrder`, which ties a cycle's `n`, offset and
  position to the pool and the index, and `Passed`: no candidate before the
  offset was good throughout. The lemmas on slots are the arithmetic behind it:
  every position of the pool is at one offset of a cycle, and at one only
  (`SlotOnto`, `SlotOnce`).
* `ListRefetched`: `RefetchAfterFailure`, if the settings have a proxy (otherwise
  `MCProxyPoolFailed`).
* `RotationKept`: `KeepsRotating`, if no list names a proxy twice. With one that
  does, TLC finds the failed proxy tried early again, under its second entry.

### Target chat: `ChatProofs`

* `TypeCorrect`: `TypeOK`, for any overlap.
* `CacheCurrent`: `CacheIsCurrent`, if switches wait for other calls and
  reconnects for each other (otherwise `chat_race`, `MCTargetChatOverlap`).
* `SwitchHolds` (`SwitchSticks`) and `LatestFollowed` (`FollowsLatest`), if
  switches wait, reconnects that overlap included.

They rest on `ConfigIsRead` and `SwitchIsRead`: each documented way of writing a
chat and a topic is read as that pair. `Settings` (the settings are the pair
named last) holds always, `InStep` carries it to what calls have read and asked
for, `OneConnection` to the connection the cached entity is from.

### Module store: `StoreProofs`

* `TypeCorrect`: `TypeOK`
* `PortIsActual`, `OneServer`, `RunnerBacked`: `BoundIsActual`, `NoStrayServer`,
  `RunnerIsAlive`, for any number of sessions and loads, as long as nothing is
  `disturbed` (otherwise `MCModuleStoreSessions`). `Quiet` is the invariant: at
  most one actor starts or stops the server, and the globals and the sites agree
  whenever none does. `start_server` has no lock; that it sets `_runner` before
  its first await is what keeps a second start out.
* `SavedSourceLoads`: `SavedIsLoaded`, if no two calls are given one name
  (otherwise `MCModuleStoreSame`), disturbed or not.

### Tools: `ToolsProofs`

* `TypeCorrect`: `TypeOK`
* `OwnAnswers` and `BackIsAlive`: `AnswersOwn` and `BackMeansAlive`, for any number
  of calls, attempts and restarts of the userbot. The invariant `OwnWindow` says of
  a window that nobody's command has crossed that its command is the newest, that
  no other is unanswered unless one was `owed` when it was sent, and that all it
  may take answers it. The properties speak of such windows only
  (otherwise `MCCommandToolsBeside`).

### Conversions: `ConversionProofs`

Each function is called once, so `IInv` only ties an output to its input; what
there is to prove is the functions.

* `ProxyRead`: `ProxyAsWritten`, if no line is `Misread`. That names the lines
  the code gets wrong, and no other: a `tg://socks` link whose user has a "+", a
  URI with an escaped one (`MCConversionsQuoted`), and either with port 0.
* `ClientsServed`: `ServesItsClients`, for any settings and requests. `LastOf`
  and `SuppliedToken` show that the header a client sends is the one compared
  (`ShownIsSupplied`) and that nothing else passes (`SuppliedIsShown`);
  `HostKnown` that an address the listener is reached under is one `_host_bases`
  names, case by case over the bind host (`AddressKnown`).
* `MessageKeepsWords`: `WordsAreKept`, for any words and messages that nest to any
  depth: what is joined, stripped and left out as empty loses no word.
* `WordsEndTheWindow`: `WordsSettle`, an equivalence. The direction that is easy
  to miss is that emoji alone never settle: it needs that joining, numbering and
  a divider add no letter or digit except where a list numbers an item that shows
  something (`ItemShows`, `NoItem`).

The last two are inductions over data. They are done without an operator as a
parameter: what is to hold is a set, and a least counterexample does the rest.
`SequencesIn` is the induction over sequences, one element more at a time
(`More`); with it go the lemmas on `FlattenSeq` (a CHOOSE of the function its
fold makes: `FlatExists`, `FlatOnce`), `Join`, `NonEmpty`, `Strip` and `Only`.
`Recursion` gives the recursive functions of `RichText` and `Conversions` their
defining equations: a definition that looks at smaller depths only (`Contracts`)
has a solution (`Solves`), extended from the depths below n to n + 1. `Downward`
is the induction over depth, in which each block is shown to keep its words
(`Keeps`, `BlockKeeps`) and to settle (`Settles`, `BlockSettles`), one step per
kind of block.

### Only model-checked

Liveness (`EveryCallAnswered`, `NoRestartNeeded`, `CallReturns`,
`EveryToolReturns`): fairness and ENABLED are out of the prover's reach. And
`ModulesAreListed`: what a listing lists is given with it by the instance
(`Listings`, laid out by hand as the userbot lays it out), and a theorem would need
a grammar of listings that the repository does not have.

## Abstractions

* A cycle over the proxies is atomic in Connection; TargetChat and SettleWindow
  see a reconnect as one await.
* `_try_resolve`, `get_dialogs` and the second try are one request in TargetChat;
  the text of errors is reduced to transient or not.
* Topics filter events in `_in_topic`; SettleWindow has one chat and one topic,
  and all its messages are the userbot's. CommandTools has one chat too.
* CommandTools keeps what a text answers, not the text: two answers are
  different texts.
* A line of a proxy list, a segment of a link, a word of a message are values of
  their own; a `%` escape is an atom. Case in links is kept where the code's
  treatment differs (`T.me/`). Tokens are ASCII, as HTTP headers are, and
  requests carry no `Origin`.
* Logging and the wording of results are left out.
* A file lock that cannot be opened for another reason than a holder is left out.

## Not modelled

* Reading `.env` and `config.yaml`, coercion of values and warnings
  (`config.py`): done once at import, with no state afterwards but the values
  the other modules take as constants or choose freely.
* The dialogue of `generate_session.py` (codes, passwords): input and output. Its
  lock and its effect on the session are `OtherStarts` and `OtherEnds`.
* `check_proxies.py`: connects to each proxy once and prints; no state is kept
  or shared.
* The blocking `urlopen` (its length), and the message of a lock file that
  cannot be opened: see the hazards in `PROJECT.json`.

## What could follow

All components of the inventory that keep state are modelled, and every safety
property of the passing runs is proved but for `ModulesAreListed`. What could
follow: the properties of the settle window for a userbot that posts as well as
edits, where `NoRegress` needs a weaker statement; and `CommandTools` as several
`Answer`s at a time, each window mapped to one of its own.
