---------------------------- MODULE QVerisTools ----------------------------
(***************************************************************************)
(* The qveris_search and qveris_execute agent tools built by               *)
(* createQverisTools (src/unnamed/part_006).  One tool set owns one        *)
(* session-scoped search cache (makeSearchCache); every tool call runs      *)
(* its execute handler, which may await one fetch guarded by an            *)
(* AbortController whose setTimeout fires controller.abort().  Calls are    *)
(* interleaved at their awaits.                                            *)
(*                                                                         *)
(* Time is a tick; cache entries and in-flight requests carry their age,   *)
(* capped just past the bound the code compares with (TTL + 1 for          *)
(* `Date.now() > expiresAt`, the timeout for the timer), so the state      *)
(* space is finite while every comparison the code makes keeps its value.  *)
(* A query, a payload and a tool id are model values: a search answer is   *)
(* identified by the (query, limit) the request sent.  The cache key       *)
(* `${query}:${normalizedLimit}` is injective (the limit is an integer      *)
(* with no colon), so it is modelled as the pair.                           *)
(***************************************************************************)
EXTENDS Naturals

CONSTANTS
    Calls,          \* tool calls the agent issues against one tool set
    Queries,        \* `query` arguments of qveris_search
    Limits,         \* `limit` arguments (None: omitted)
    SearchLimit,    \* resolveSearchLimit(config)
    TTL,            \* DEFAULT_SEARCH_CACHE_TTL_MS, in ticks
    SearchTimeout,  \* resolveSearchTimeoutSeconds(config), in ticks
    ExecTimeout,    \* resolveExecuteTimeoutSeconds(config), in ticks
    Overrides,      \* `timeout_seconds` arguments of qveris_execute, in ticks
    None

VARIABLES
    cache,    \* the Map of makeSearchCache: key -> [for, age] or None
    pc,       \* per call: "idle", the await it is at (Pending) or "done"
    req,      \* per call: the request in flight (tool, key, sent, timeout)
    elapsed,  \* per call: ticks since its request started, capped at timeout
    fired,    \* per call: its setTimeout callback has called abort()
    result    \* per call: what its execute handler returned

vars == <<cache, pc, req, elapsed, fired, result>>

----
(* Arguments and the errors a request can throw                           *)
----

\* Math.min(Math.max(1, limit ?? searchLimit), 100)
NormalizeLimit(l) ==
    LET v == IF l = None THEN SearchLimit ELSE l
        lo == IF v < 1 THEN 1 ELSE v
    IN  IF lo > 100 THEN 100 ELSE lo

\* cacheKey `${query}:${normalizedLimit}` (line 397)
CacheKey(q, l) == <<q, NormalizeLimit(l)>>

Keys == {CacheKey(q, l) : q \in Queries, l \in Limits}

\* An error a fetch can reject with.  `cls` is the prototype chain the
\* `instanceof` tests see; `msg` abstracts the message to what the regex
\* /\((\d{3})\)/ tells apart: "status" is the "... failed (<status>): ..."
\* message the tools throw for !res.ok, "digits" any other message holding
\* three digits in parentheses, "plain" one without.
Err(cls, name, msg) == [cls |-> cls, name |-> name, msg |-> msg]

\* controller.abort() rejects fetch with a DOMException (undici) or with a
\* plain Error named AbortError (node-fetch style polyfills): both builds.
AbortErrors == {Err(c, "AbortError", "plain") : c \in {"DOMException", "Error"}}

\* Mutant: only a DOMException counts as an abort.
classifyQverisError_domOnly(err) ==
    CASE err.cls = "DOMException" /\ err.name = "AbortError" -> "timeout"
      [] err.cls \in {"Error", "DOMException"} /\ err.msg \in {"status", "digits"} -> "http_error"
      [] OTHER -> "network_error"

\* classifyQverisError: the error_type it returns for a caught error.
classifyQverisError(err) ==
    CASE err.cls = "DOMException" /\ err.name = "AbortError" -> "timeout"
      [] err.cls \in {"Error", "DOMException"} /\ err.name = "AbortError" -> "timeout"
      [] err.cls \in {"Error", "DOMException"} /\ err.msg \in {"status", "digits"} -> "http_error"
      [] OTHER -> "network_error"

\* The request awaits fetch, then the body: res.json() when res.ok, or
\* res.text() for the error detail when not.
Pending == {"fetch", "text", "body"}

\* The thrown `QVeris ... failed (<status>): <detail>` of a !res.ok reply.
StatusError == Err("Error", "Error", "status")

Result(kind, for) == [kind |-> kind, for |-> for]

TypeOK ==
    /\ cache \in [Keys -> {None} \cup [for : Queries \X Nat, age : 0..TTL + 1]]
    /\ pc \in [Calls -> {"idle", "done"} \cup Pending]
    /\ \A c \in Calls : pc[c] \in Pending =>
           req[c].tool \in {"search", "execute"} /\ req[c].timeout \in Nat \ {0}
    /\ elapsed \in [Calls -> Nat]
    /\ fired \in [Calls -> BOOLEAN]
    /\ \A c \in Calls : pc[c] = "done" <=> result[c] # None

----
(* Handlers                                                                *)
----

Init ==
    /\ cache = [k \in Keys |-> None]
    /\ pc = [c \in Calls |-> "idle"]
    /\ req = [c \in Calls |-> None]
    /\ elapsed = [c \in Calls |-> 0]
    /\ fired = [c \in Calls |-> FALSE]
    /\ result = [c \in Calls |-> None]

\* searchCache.read: an entry past expiresAt is deleted and misses.
Fresh(k) == cache[k] # None /\ cache[k].age <= TTL

\* searchTool.execute up to its first await: build the key, read the cache
\* and return a hit, or start qverisSearch with its timer armed.
StartSearch(c, q, l) ==
    LET k == CacheKey(q, l) IN
    /\ pc[c] = "idle"
    /\ req' = [req EXCEPT ![c] = [tool |-> "search", key |-> k,
                                  sent |-> <<q, NormalizeLimit(l)>>,
                                  timeout |-> SearchTimeout]]
    /\ IF Fresh(k)
         THEN /\ pc' = [pc EXCEPT ![c] = "done"]
              /\ result' = [result EXCEPT ![c] = Result("cached", cache[k].for)]
              /\ UNCHANGED cache
         ELSE /\ cache' = IF cache[k] # None
                            THEN [cache EXCEPT ![k] = None] ELSE cache
              /\ pc' = [pc EXCEPT ![c] = "fetch"]
              /\ UNCHANGED result
    /\ UNCHANGED <<elapsed, fired>>

\* Mutant: the override is passed on without the configured default.
ExecTimeoutOf_overrideOnly(override) == override

\* timeoutOverride ?? executeTimeoutSeconds
ExecTimeoutOf(override) == IF override = None THEN ExecTimeout ELSE override

\* executeTool.execute up to its first await: JSON.parse(params_to_tool)
\* failing returns json_parse_error; otherwise qverisExecute starts with
\* timeout_seconds ?? executeTimeoutSeconds.
StartExecute(c, validJson, override) ==
    /\ pc[c] = "idle"
    /\ IF ~validJson
         THEN /\ pc' = [pc EXCEPT ![c] = "done"]
              /\ result' = [result EXCEPT ![c] = Result("json_parse_error", None)]
              /\ UNCHANGED req
         ELSE /\ pc' = [pc EXCEPT ![c] = "fetch"]
              /\ req' = [req EXCEPT ![c] = [tool |-> "execute", key |-> None,
                             sent |-> None,
                             timeout |-> ExecTimeoutOf(override)]]
              /\ UNCHANGED result
    /\ UNCHANGED <<cache, elapsed, fired>>

\* fetch settles before the timer fired: it rejects (TypeError "fetch
\* failed": `finally` clears the timer and the handler classifies it), or
\* resolves and the request goes on to read the body.
Headers(c) ==
    /\ pc[c] = "fetch"
    /\ ~fired[c]
    /\ \/ /\ pc' = [pc EXCEPT ![c] = "done"]
          /\ result' = [result EXCEPT ![c] =
                Result(classifyQverisError(Err("Error", "TypeError", "plain")), None)]
       \/ /\ pc' = [pc EXCEPT ![c] = "body"]
          /\ UNCHANGED result
       \/ /\ pc' = [pc EXCEPT ![c] = "text"]
          /\ UNCHANGED result
    /\ UNCHANGED <<cache, req, elapsed, fired>>

\* Mutant: the cache is written before the outcome is checked.
ReadBody_cacheErrors(c) ==
    /\ pc[c] \in {"text", "body"}
    /\ ~fired[c]
    /\ pc' = [pc EXCEPT ![c] = "done"]
    /\ cache' = IF req[c].tool = "search"
                  THEN [cache EXCEPT ![req[c].key] = [for |-> req[c].sent, age |-> 0]]
                  ELSE cache
    /\ \/ result' = [result EXCEPT ![c] = Result("payload", req[c].sent)]
       \/ \E m \in {"plain", "digits"} :
            result' = [result EXCEPT ![c] =
                Result(classifyQverisError(Err("Error", "SyntaxError", m)), None)]
    /\ UNCHANGED <<req, elapsed, fired>>

\* The body read settles before the timer fired and `finally` clears it.
\* res.text() (resolved or rejected, .catch(() => "")) leads to the thrown
\* status error; res.json() resolves with the answer, which a search writes
\* to the cache with a fresh TTL, or rejects with a SyntaxError quoting the
\* body.  Errors are classified and returned, never cached.
ReadBody(c) ==
    /\ pc[c] \in {"text", "body"}
    /\ ~fired[c]
    /\ pc' = [pc EXCEPT ![c] = "done"]
    /\ \/ /\ pc[c] = "text"
          /\ result' = [result EXCEPT ![c] = Result(classifyQverisError(StatusError), None)]
          /\ UNCHANGED cache
       \/ /\ pc[c] = "body"
          /\ result' = [result EXCEPT ![c] = Result("payload", req[c].sent)]
          /\ cache' = IF req[c].tool = "search"
                        THEN [cache EXCEPT ![req[c].key] = [for |-> req[c].sent, age |-> 0]]
                        ELSE cache
       \/ /\ pc[c] = "body"
          /\ \E m \in {"plain", "digits"} :
                result' = [result EXCEPT ![c] =
                    Result(classifyQverisError(Err("Error", "SyntaxError", m)), None)]
          /\ UNCHANGED cache
    /\ UNCHANGED <<req, elapsed, fired>>

\* Mutant: fetch is not given controller.signal, so abort() settles nothing.
TimerFire_noSignal(c) ==
    /\ pc[c] \in Pending
    /\ ~fired[c]
    /\ elapsed[c] = req[c].timeout
    /\ fired' = [fired EXCEPT ![c] = TRUE]
    /\ UNCHANGED <<cache, pc, req, elapsed, result>>

\* The setTimeout callback runs controller.abort(): the pending fetch or
\* res.json() rejects with an AbortError, which the handler classifies; a
\* pending res.text() rejects too, but its .catch(() => "") swallows the
\* abort and the handler throws the status error with res.statusText.
TimerFire(c) ==
    /\ pc[c] \in Pending
    /\ ~fired[c]
    /\ elapsed[c] = req[c].timeout
    /\ fired' = [fired EXCEPT ![c] = TRUE]
    /\ pc' = [pc EXCEPT ![c] = "done"]
    /\ \/ /\ pc[c] = "text"
          /\ result' = [result EXCEPT ![c] = Result(classifyQverisError(StatusError), None)]
       \/ /\ pc[c] \in {"fetch", "body"}
          /\ \E err \in AbortErrors :
                result' = [result EXCEPT ![c] = Result(classifyQverisError(err), None)]
    /\ UNCHANGED <<cache, req, elapsed>>

\* Wall-clock time passes: cache entries and in-flight requests age.  A
\* timer may fire late, so time passes whatever the timers' state.
Tick ==
    /\ cache' = [k \in Keys |-> IF cache[k] = None \/ cache[k].age > TTL
                                  THEN cache[k]
                                  ELSE [cache[k] EXCEPT !.age = @ + 1]]
    /\ elapsed' = [c \in Calls |-> IF pc[c] \in Pending /\ elapsed[c] < req[c].timeout
                                     THEN elapsed[c] + 1 ELSE elapsed[c]]
    /\ UNCHANGED <<pc, req, fired, result>>

Next ==
    \/ \E c \in Calls, q \in Queries, l \in Limits : StartSearch(c, q, l)
    \/ \E c \in Calls, v \in BOOLEAN, o \in Overrides : StartExecute(c, v, o)
    \/ \E c \in Calls : Headers(c) \/ ReadBody(c) \/ TimerFire(c)
    \/ Tick

\* Time always advances and the event loop eventually runs a due setTimeout
\* callback; nothing obliges the QVeris API to answer.
Fairness == WF_vars(Tick) /\ \A c \in Calls : WF_vars(TimerFire(c))

Spec == Init /\ [][Next]_vars /\ Fairness

----
(* Properties                                                              *)
----

\* A call returns error_type "timeout" only when its own timer aborted its
\* request, and an aborted call is never reported as a network error,
\* whichever error class the fetch build rejects with (the AbortController
\* of qverisSearch/qverisExecute and the two AbortError branches of
\* classifyQverisError).  An abort that lands while res.text() reads an
\* error reply is swallowed by its .catch and surfaces as the HTTP error.
AbortReportedAsTimeout ==
    \A c \in Calls : pc[c] = "done" =>
        /\ result[c].kind = "timeout" => fired[c]
        /\ fired[c] => result[c].kind \in {"timeout", "http_error"}

\* Every cache entry is a payload a search call returned for that key: a
\* failed, timed-out or classified-error search never fills the cache, so
\* a retry of the same search reaches the API again.
CacheHoldsReturnedPayloads ==
    \A k \in Keys : cache[k] # None =>
        \E c \in Calls : /\ result[c] = Result("payload", cache[k].for)
                        /\ req[c].key = k

\* Every tool call that awaits the API eventually returns, even if the API
\* never answers: the setTimeout armed before fetch aborts it.
EveryCallReturns == \A c \in Calls : pc[c] \in Pending ~> pc[c] = "done"

=============================================================================
