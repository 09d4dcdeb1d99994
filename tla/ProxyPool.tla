----------------------------- MODULE ProxyPool ------------------------------
(***************************************************************************)
(* The proxy pool (telegram.py: _load_proxy_pool, _connect_pool,           *)
(* _connect_with_retries): a connect tries the candidates in turn from     *)
(* _pool_index on, then the proxy of the settings three times.             *)
(*                                                                         *)
(* _reset_client does not hold _connect_lock, so calls may cycle together, *)
(* if Overlapping; they share the pool and its index, and keep their n and *)
(* offset.                                                                 *)
(***************************************************************************)
EXTENDS ProxySpec, Functions

CONSTANTS Task,       \* calls that connect
          Lists,      \* what the list URL may answer: sequences of lines
          Primaries,  \* what settings.proxy may be, or None
          Direct,     \* no proxy
          None,
          Attempts,   \* attempts of _connect_with_retries
          MaxCycles,  \* bound on the connects
          Overlapping \* may two calls connect at a time?

ASSUME PoolAssumption ==
    /\ Lists \subseteq Seq(DOMAIN Form)
    /\ Primaries \subseteq DOMAIN Form \cup {None}
    /\ \A p \in Primaries \ {None} : Form[p].is # "blank"
    /\ Direct \notin DOMAIN Form /\ None \notin DOMAIN Form \cup {Direct}
    /\ Attempts \in Nat \ {0} /\ MaxCycles \in Nat /\ Overlapping \in BOOLEAN

Proxy == {line \in DOMAIN Form : Form[line].is \in {"link", "uri"} /\ Acceptable(line)}
Route == Proxy \cup {Direct}

VARIABLES primary,              \* settings.proxy
          pool, index, loaded,  \* _proxy_pool, _pool_index, _pool_loaded
          good,                 \* what a connect reaches Telegram through, now
          pc, size, offset,     \* of each call: its await, n and offset
          position, spec,       \* idx and spec of its client
          attempt,              \* attempt of _connect_with_retries
          cycles,               \* connects so far
          via,                  \* spec of the connection made last (history)
          gaveUp,               \* the last connect ran out of candidates (history)
          asked, after,         \* this one fetched the list; followed such a one (history)
          broken,               \* the spec it replaces (history)
          tried, steady         \* candidates it tried; its candidates good throughout (history)

shared   == <<pool, index, loaded>>
locals   == <<size, offset, position, spec, attempt>>
begun    == <<asked, after, broken>>
vars     == <<primary, shared, good, pc, locals, cycles, via, gaveUp, begun, tried, steady>>

Init ==
    /\ primary \in Primaries
    /\ pool = <<>> /\ index = 0 /\ loaded = FALSE
    /\ good \in SUBSET Route
    /\ pc = [t \in Task |-> "idle"]
    /\ size = [t \in Task |-> 0] /\ offset = [t \in Task |-> 0]
    /\ position = [t \in Task |-> 0] /\ spec = [t \in Task |-> None]
    /\ attempt = [t \in Task |-> 0]
    /\ cycles = 0 /\ via = None /\ gaveUp = FALSE
    /\ asked = [t \in Task |-> FALSE] /\ after = [t \in Task |-> FALSE]
    /\ broken = [t \in Task |-> None]
    /\ tried = [t \in Task |-> {}] /\ steady = [t \in Task |-> {}]

-----------------------------------------------------------------------------
(* The primary proxy comes first unless the list has it.                   *)
WithPrimary(list) ==
    IF primary = None \/ primary \in Range(list) THEN list ELSE <<primary>> \o list

(* _load_proxy_pool: a fetch that fails counts as an empty list.           *)
LoadPool(t) ==
    /\ asked' = [asked EXCEPT ![t] = ~loaded]
    /\ \/ loaded /\ UNCHANGED shared
       \/ /\ ~loaded
          /\ loaded' = TRUE /\ index' = 0
          /\ \E list \in Lists \cup {<<>>} : pool' = WithPrimary(ParseProxyList(list))

(* One iteration, up to the await: the index and the pool are those of the *)
(* moment, n is the one the loop started with.  A candidate that does not  *)
(* parse raises (_build_client, and _load_proxy_pool for the first one).   *)
Try(t, n, k) ==
    LET idx == (index' + k) % n
    IN  /\ size' = [size EXCEPT ![t] = n] /\ offset' = [offset EXCEPT ![t] = k]
        /\ position' = [position EXCEPT ![t] = idx]
        /\ UNCHANGED attempt
        /\ \/ /\ idx < Len(pool')
              /\ spec' = [spec EXCEPT ![t] = pool'[idx + 1]]
              /\ tried' = [tried EXCEPT ![t] =
                             (IF k = 0 THEN {} ELSE tried[t]) \cup {pool'[idx + 1]}]
              /\ pc' = [pc EXCEPT ![t] = IF Acceptable(pool'[idx + 1]) THEN "connecting"
                                         ELSE "ValueError"]
           \/ /\ idx >= Len(pool')
              /\ pc' = [pc EXCEPT ![t] = "IndexError"]
              /\ UNCHANGED <<spec, tried>>

FallBack(t) ==
    /\ pc' = [pc EXCEPT ![t] = "legacy"]
    /\ spec' = [spec EXCEPT ![t] = IF primary = None THEN Direct ELSE primary]
    /\ attempt' = [attempt EXCEPT ![t] = 1]
    /\ gaveUp' = TRUE
    /\ UNCHANGED <<size, offset, position, tried>>

Connecting == {"connecting", "dropping", "legacy"}

StartCycle(t) ==
    /\ pc[t] \in {"idle", "ValueError"} /\ cycles < MaxCycles
    /\ Overlapping \/ \A s \in Task : pc[s] \notin Connecting
    /\ cycles' = cycles + 1
    /\ LoadPool(t)
    /\ after' = [after EXCEPT ![t] = gaveUp]
    /\ broken' = [broken EXCEPT ![t] = via]
    /\ steady' = [steady EXCEPT ![t] = good \cap Range(pool')]
    /\ IF pool' = <<>> THEN FallBack(t)
                       ELSE Try(t, Len(pool'), 0) /\ UNCHANGED gaveUp
    /\ UNCHANGED <<primary, good, via>>

(* The connect is over, and its locals are gone.                           *)
End(t) ==
    /\ pc' = [pc EXCEPT ![t] = "idle"]
    /\ size' = [size EXCEPT ![t] = 0] /\ offset' = [offset EXCEPT ![t] = 0]
    /\ position' = [position EXCEPT ![t] = 0] /\ spec' = [spec EXCEPT ![t] = None]
    /\ attempt' = [attempt EXCEPT ![t] = 0]
    /\ asked' = [asked EXCEPT ![t] = FALSE] /\ after' = [after EXCEPT ![t] = FALSE]
    /\ broken' = [broken EXCEPT ![t] = None]
    /\ tried' = [tried EXCEPT ![t] = {}] /\ steady' = [steady EXCEPT ![t] = {}]
    /\ UNCHANGED <<primary, good, cycles>>

Done(t) == End(t) /\ via' = spec[t]

(* Mutants of CandidateConnects: the index stays; it does not wrap.        *)
CandidateConnects_KeepsIndex(t) ==
    /\ pc[t] = "connecting" /\ spec[t] \in good
    /\ index' = position[t]
    /\ gaveUp' = FALSE
    /\ Done(t)
    /\ UNCHANGED <<pool, loaded>>

CandidateConnects_NoWrap(t) ==
    /\ pc[t] = "connecting" /\ spec[t] \in good
    /\ index' = position[t] + 1
    /\ gaveUp' = FALSE
    /\ Done(t)
    /\ UNCHANGED <<pool, loaded>>

CandidateConnects(t) ==
    /\ pc[t] = "connecting" /\ spec[t] \in good
    /\ index' = (position[t] + 1) % size[t]
    /\ gaveUp' = FALSE
    /\ Done(t)
    /\ UNCHANGED <<pool, loaded>>

(* It fails or runs into proxy_check_timeout, and is disconnected.         *)
CandidateFails(t) ==
    /\ pc[t] = "connecting" /\ spec[t] \notin good
    /\ pc' = [pc EXCEPT ![t] = "dropping"]
    /\ UNCHANGED <<primary, shared, good, locals, cycles, via, gaveUp, begun, tried, steady>>

NextCandidate(t) ==
    /\ pc[t] = "dropping" /\ offset[t] + 1 < size[t]
    /\ UNCHANGED shared
    /\ Try(t, size[t], offset[t] + 1)
    /\ UNCHANGED <<primary, good, cycles, via, gaveUp, begun, steady>>

(* Mutants of GiveUpPool: the last candidate is left out; the list is kept.*)
GiveUpPool_Early(t) ==
    /\ pc[t] = "dropping" /\ offset[t] + 2 >= size[t]
    /\ loaded' = FALSE
    /\ FallBack(t)
    /\ UNCHANGED <<primary, pool, index, good, cycles, via, begun, steady>>

GiveUpPool_KeepsList(t) ==
    /\ pc[t] = "dropping" /\ offset[t] + 1 >= size[t]
    /\ FallBack(t)
    /\ UNCHANGED <<primary, shared, good, cycles, via, begun, steady>>

(* "All pool candidates failed": the next connect fetches the list.        *)
GiveUpPool(t) ==
    /\ pc[t] = "dropping" /\ offset[t] + 1 >= size[t]
    /\ loaded' = FALSE
    /\ FallBack(t)
    /\ UNCHANGED <<primary, pool, index, good, cycles, via, begun, steady>>

LegacyConnects(t) ==
    /\ pc[t] = "legacy" /\ spec[t] \in good
    /\ Done(t)
    /\ UNCHANGED <<shared, gaveUp>>

(* Two seconds and another attempt.                                        *)
LegacyFails(t) ==
    /\ pc[t] = "legacy" /\ spec[t] \notin good /\ attempt[t] < Attempts
    /\ attempt' = [attempt EXCEPT ![t] = attempt[t] + 1]
    /\ UNCHANGED <<primary, shared, good, pc, size, offset, position, spec, cycles, via,
                   gaveUp, begun, tried, steady>>

LegacyGivesUp(t) ==
    /\ pc[t] = "legacy" /\ spec[t] \notin good /\ attempt[t] = Attempts
    /\ End(t)
    /\ UNCHANGED <<shared, via, gaveUp>>

(* Proxies come and go.                                                    *)
NetChanges ==
    /\ good' \in SUBSET Route
    /\ steady' = [t \in Task |-> steady[t] \cap good']
    /\ UNCHANGED <<primary, shared, pc, locals, cycles, via, gaveUp, begun, tried>>

Next ==
    \/ \E t \in Task :
        \/ StartCycle(t)
        \/ CandidateConnects(t) \/ CandidateFails(t) \/ NextCandidate(t) \/ GiveUpPool(t)
        \/ LegacyConnects(t) \/ LegacyFails(t) \/ LegacyGivesUp(t)
    \/ NetChanges

Spec == Init /\ [][Next]_vars

-----------------------------------------------------------------------------
TypeOK ==
    /\ primary \in Primaries
    /\ pool \in Seq(Proxy \cup Primaries) /\ loaded \in BOOLEAN
    /\ index \in Nat /\ (~Overlapping /\ pool # <<>> => index < Len(pool))
    /\ good \subseteq Route
    /\ pc \in [Task -> {"idle", "connecting", "dropping", "legacy", "IndexError", "ValueError"}]
    /\ size \in [Task -> Nat] /\ offset \in [Task -> Nat] /\ position \in [Task -> Nat]
    /\ spec \in [Task -> Route \cup Primaries \cup {None}] /\ attempt \in [Task -> 0 .. Attempts]
    /\ cycles \in 0 .. MaxCycles /\ via \in Route \cup {None} /\ gaveUp \in BOOLEAN
    /\ asked \in [Task -> BOOLEAN] /\ after \in [Task -> BOOLEAN]
    /\ broken \in [Task -> Route \cup {None}]
    /\ tried \in [Task -> SUBSET (Proxy \cup Primaries)] /\ steady \in [Task -> SUBSET Proxy]

(* A connect falls back only when every candidate failed: one that worked  *)
(* all the while has been tried and taken (_connect_pool: "trying pool     *)
(* candidates in order until one connects").                               *)
FindsLiveCandidate == \A t \in Task : pc[t] = "legacy" => steady[t] = {}

Others(t) == Range(pool) \ {broken[t]}

(* A reconnect tries the proxy it replaces after all the others            *)
(* (_reset_client: "the failed proxy is retried last on the next cycle").  *)
FailedProxyLast ==
    \A t \in Task :
        pc[t] = "connecting" /\ spec[t] = broken[t] => Others(t) \subseteq tried[t]

(* ... as long as the list is not fetched in between.                      *)
KeepsRotating ==
    \A t \in Task :
        pc[t] = "connecting" /\ spec[t] = broken[t] /\ ~asked[t]
            => Others(t) \subseteq tried[t]

(* A connect after one that ran out of candidates fetches the list (README:*)
(* "the list is re-fetched on the next reconnect").                        *)
RefetchAfterFailure ==
    \A t \in Task : pc[t] # "idle" /\ after[t] => asked[t]

(* A proxy of the settings that does not parse stops every connect, before *)
(* any is made (parse_proxy: "The caller should fail fast instead of       *)
(* silently connecting without a proxy"); nothing else does                *)
(* (parse_proxy_list: "a dirty public list doesn't kill the pool").        *)
OnlyBadSettingFails ==
    IF primary = None \/ primary \in Proxy
    THEN \A t \in Task : pc[t] # "ValueError"
    ELSE via = None /\ \A t \in Task : pc[t] \in {"idle", "ValueError"}

(* A cycle never runs past the end of the pool.                            *)
NoIndexError == \A t \in Task : pc[t] # "IndexError"
=============================================================================
