------------------------------- MODULE Server -------------------------------
(***************************************************************************)
(* The serve loop and the query handlers it spawns, composed with the      *)
(* blocklist that a reload swaps, the cache, the resolver, the uncloaker   *)
(* and the query log, each reduced to what it promises in its own module.  *)
(*                                                                         *)
(* The handlers are coroutines of one thread: a step runs from one         *)
(* co_await to the next.  A list is the set of the names it matches.       *)
(***************************************************************************)
EXTENDS Naturals, FiniteSets, Sequences

CONSTANTS
    Queries,        \* the datagrams that arrive, each handled once
    Names,          \* names asked for
    Target,         \* the canonical name of a name, or NoTarget
    NoTarget,
    Crossing,       \* the names whose chain leaves their registrable domain
    Lists,          \* the blocklists the operator may install
    MaxReloads

ASSUME ServerAssumption ==
    /\ NoTarget \notin UNION Lists
    /\ \A n \in Names : Target[n] # n
    /\ Crossing \subseteq {n \in Names : Target[n] # NoTarget}
    /\ MaxReloads \in Nat

VARIABLES
    g_blocklist,    \* the installed list
    pin,            \* uncloak_blocklist_pin: the list of the uncloaker
    reloads,        \* reloads so far
    cache,          \* the keys that have a live entry
    query,          \* of each query [kind, name], or NoQuery
    arrival,        \* the list installed when it arrived
    bl_snapshot,    \* the list its handler was given
    pc,             \* where its handler is
    response,       \* the response the handler holds
    reply,          \* what was sent to the client; "none" before
    log,            \* the actions logged for it
    stopped         \* ctx.stop was called

lists == <<g_blocklist, pin, reloads>>
asked == <<query, arrival, bl_snapshot>>
vars == <<lists, cache, asked, pc, response, reply, log, stopped>>

\* A query does not parse, has not one question of a type that is forwarded,
\* asks for an address, or for something else.
Kinds == {"malformed", "refuse", "address", "other"}
NoQuery == [kind |-> "none", name |-> NoTarget]

Goto(q, l) == pc' = [pc EXCEPT ![q] = l]
log_record(q, action) == log' = [log EXCEPT ![q] = Append(@, action)]
Respond(q, r) == response' = [response EXCEPT ![q] = r] /\ Goto(q, "send")
-----------------------------------------------------------------------------
\* serve: one turn of the loop.  The handler is spawned with the list of now.
Receive(q) ==
    /\ pc[q] = "idle"
    /\ \E k \in Kinds, n \in Names : query' = [query EXCEPT ![q] = [kind |-> k, name |-> n]]
    /\ arrival' = [arrival EXCEPT ![q] = g_blocklist]
    /\ bl_snapshot' = [bl_snapshot EXCEPT ![q] = g_blocklist]
    /\ Goto(q, "spawned")
    /\ UNCHANGED <<lists, cache, response, reply, log>>

\* Seeded fault: the handler reads the list when it runs.
BlockedNow(q) == query[q].name \in g_blocklist

Blocked(q) == query[q].name \in bl_snapshot[q]

\* handle, up to its first co_await.
Handle(q) ==
    /\ pc[q] = "spawned"
    /\ CASE query[q].kind = "malformed" -> Goto(q, "done") /\ UNCHANGED <<response, log>>
         [] query[q].kind = "refuse" -> Respond(q, "refused") /\ log_record(q, "Refuse")
         [] OTHER ->
              IF Blocked(q) THEN Respond(q, "block") /\ log_record(q, "Block")
              ELSE IF query[q] \in cache
              THEN /\ response' = [response EXCEPT ![q] = "cached"]
                   /\ Goto(q, "jitter") /\ UNCHANGED log
              ELSE Goto(q, "forward") /\ UNCHANGED <<response, log>>
    /\ UNCHANGED <<lists, cache, asked, reply>>

\* apply_jitter returns: the copy made by lookup is sent.
Jitter(q) ==
    /\ pc[q] = "jitter"
    /\ Goto(q, "send")
    /\ UNCHANGED <<lists, cache, asked, response, reply, log>>

\* Seeded fault: what is forwarded is cached before the uncloaker has seen it.
CachesEarly(q) == TRUE

CachesAtOnce(q) == query[q].kind = "other"

\* try_cache_insert: when the response parses and has a TTL above zero.
try_cache_insert(q) == cache' = cache \/ cache' = cache \cup {query[q]}

\* forward_with_source returns; only address queries are uncloaked.
Forward(q) ==
    /\ pc[q] = "forward"
    /\ IF CachesAtOnce(q) THEN try_cache_insert(q) ELSE UNCHANGED cache
    /\ IF query[q].kind = "address"
       THEN Goto(q, "uncloak") /\ UNCHANGED <<response, log>>
       ELSE Respond(q, "upstream") /\ log_record(q, "Allow")
    /\ UNCHANGED <<lists, asked, reply>>

\* Seeded fault: the exception leaves the handler.
CatchNot(q) == Goto(q, "done") /\ UNCHANGED <<response, log>>

Catch(q) == Respond(q, "servfail") /\ log_record(q, "ServFail")
ForwardThrows(q) ==
    /\ pc[q] = "forward"
    /\ Catch(q)
    /\ UNCHANGED <<lists, cache, asked, reply>>

\* uncloak returns.
UncloakBlocked(q) ==
    /\ pc[q] = "uncloak"
    /\ Target[query[q].name] \in pin
    /\ Respond(q, "block")
    /\ log_record(q, "Uncloak")
    /\ UNCHANGED <<lists, cache, asked, reply>>

\* Seeded fault: nothing is logged.
LogAbortedNot(q) == UNCHANGED log

LogAborted(q) == log_record(q, "ServFail")
UncloakAborted(q) ==
    /\ pc[q] = "uncloak"
    /\ Respond(q, "servfail")
    /\ LogAborted(q)
    /\ UNCHANGED <<lists, cache, asked, reply>>

UncloakClean(q) ==
    /\ pc[q] = "uncloak"
    /\ Target[query[q].name] \notin pin
    /\ try_cache_insert(q)
    /\ Respond(q, "upstream")
    /\ log_record(q, IF query[q].name \in Crossing THEN "Suspicious" ELSE "Allow")
    /\ UNCHANGED <<lists, asked, reply>>

\* Seeded fault: every answer is logged after it was sent.
LogsAfterSendAlways(q) == TRUE

LogsAfterSend(q) == response[q] = "cached"

\* async_send_to returns; a cached answer is logged only now.
Sent(q) ==
    /\ pc[q] = "send"
    /\ reply' = [reply EXCEPT ![q] = response[q]]
    /\ IF LogsAfterSend(q) THEN log_record(q, "Cached") ELSE UNCHANGED log
    /\ Goto(q, "done")
    /\ UNCHANGED <<lists, cache, asked, response>>

\* It throws: "handler error".
SendFails(q) ==
    /\ pc[q] = "send"
    /\ Goto(q, "failed")
    /\ UNCHANGED <<lists, cache, asked, response, reply, log>>

-----------------------------------------------------------------------------
\* on_reload, as far as the list goes (HotReload has the rest).
Reload ==
    /\ reloads < MaxReloads
    /\ reloads' = reloads + 1
    /\ g_blocklist' \in Lists
    /\ UNCHANGED <<pin, cache, asked, pc, response, reply, log>>

\* An entry expires or is evicted (DnsCache has the rest).
Forget ==
    /\ \E e \in cache : cache' = cache \ {e}
    /\ UNCHANGED <<lists, asked, pc, response, reply, log>>

\* Server::stop, SIGINT or SIGTERM: no handler runs any more.
Stop == stopped' = TRUE /\ UNCHANGED <<lists, cache, asked, pc, response, reply, log>>

\* run stores the list before it pins it for the uncloaker.
Init ==
    /\ g_blocklist \in Lists /\ pin = g_blocklist /\ reloads = 0
    /\ cache = {}
    /\ query = [q \in Queries |-> NoQuery]
    /\ arrival = [q \in Queries |-> {}]
    /\ bl_snapshot = [q \in Queries |-> {}]
    /\ pc = [q \in Queries |-> "idle"]
    /\ response = [q \in Queries |-> "none"]
    /\ reply = [q \in Queries |-> "none"]
    /\ log = [q \in Queries |-> <<>>]
    /\ stopped = FALSE

HandlerStep(q) ==
    Handle(q) \/ Jitter(q) \/ Forward(q) \/ ForwardThrows(q) \/ UncloakBlocked(q)
        \/ UncloakAborted(q) \/ UncloakClean(q) \/ Sent(q) \/ SendFails(q)

Next ==
    /\ ~stopped
    /\ \/ \E q \in Queries : (Receive(q) \/ HandlerStep(q)) /\ UNCHANGED stopped
       \/ (Reload \/ Forget) /\ UNCHANGED stopped
       \/ Stop

Spec == Init /\ [][Next]_vars

\* The io_context resumes a handler whose operation has completed.
FairSpec == Spec /\ \A q \in Queries : WF_vars(~stopped /\ HandlerStep(q) /\ UNCHANGED stopped)
-----------------------------------------------------------------------------
\* The handlers' state has its type; a handler logs one line at most.
TypeOK ==
    /\ g_blocklist \in Lists /\ pin \in Lists /\ reloads \in 0..MaxReloads
    /\ cache \subseteq [kind : {"address", "other"}, name : Names]
    /\ query \in [Queries -> {NoQuery} \cup [kind : Kinds, name : Names]]
    /\ bl_snapshot \in [Queries -> Lists \cup {{}}]
    /\ pc \in [Queries -> {"idle", "spawned", "jitter", "forward", "uncloak", "send", "done", "failed"}]
    /\ response \in [Queries -> {"none", "refused", "block", "cached", "upstream", "servfail"}]
    /\ reply \in [Queries -> {"none", "refused", "block", "cached", "upstream", "servfail"}]
    /\ \A q \in Queries : Len(log[q]) <= 1
    /\ stopped \in BOOLEAN

Answered(q) == reply[q] \in {"cached", "upstream"}

\* features/07: "In-flight queries ... complete using the OLD blocklist; queries
\* that arrive after the signal use the new one", for the name asked for: it is
\* the list of the moment of arrival that decides, whatever reloads come between
\* the receive, the spawned handler and its later steps, and whatever is cached.
ArrivalListDecides ==
    \A q \in Queries :
        /\ Answered(q) => query[q].name \notin arrival[q]
        /\ log[q] = <<"Block">> => query[q].name \in arrival[q]

\* Nothing the uncloaker would block is ever cached as an address answer, so a
\* cached address answer, which is not uncloaked again, is as good as a fresh
\* one with respect to the list the uncloaker has.
CachedIsUncloaked ==
    \A e \in cache : e.kind = "address" => Target[e.name] \notin pin

\* features/08: the log has one line for each query that was answered, and it
\* says what was answered; no path through handle, exceptions included, logs
\* another.
AnsweredIsLogged ==
    LET actions(r) == CASE r = "refused" -> {"Refuse"} [] r = "block" -> {"Block", "Uncloak"}
                        [] r = "cached" -> {"Cached"} [] r = "servfail" -> {"ServFail"}
                        [] r = "upstream" -> {"Allow", "Suspicious"}
    IN  \A q \in Queries :
            reply[q] # "none" => Len(log[q]) = 1 /\ log[q][1] \in actions(reply[q])

\* Every query that parses is answered, unless the send fails or the server is
\* stopped: failures of the upstream become SERVFAIL and not silence.
EveryQueryAnswered ==
    \A q \in Queries :
        (pc[q] = "spawned" /\ query[q].kind # "malformed") ~>
            (reply[q] # "none" \/ pc[q] = "failed" \/ stopped)

\* features/07: hot reload "never produces a 'but the cache still has the old
\* answer' surprise.  The block check is always authoritative."
CacheObeysReload ==
    \A q \in Queries : (reply[q] = "cached" /\ query[q].kind = "address") =>
                           Target[query[q].name] \notin arrival[q]

\* features/07: "queries that arrive after the signal use the new one".
UncloakObeysReload ==
    \A q \in Queries : (reply[q] = "upstream" /\ query[q].kind = "address") =>
                           Target[query[q].name] \notin arrival[q]

\* features/08: "Every branch in `handle()` (refuse, block, cached, ...) emits
\* exactly one `log_record(...)` call", for the queries that parse.
LoggedOnce ==
    \A q \in Queries : (pc[q] \in {"done", "failed"} /\ query[q].kind # "malformed") =>
                           Len(log[q]) = 1
=============================================================================
