---------------------------- MODULE ServerProofs ----------------------------
(***************************************************************************)
(* The safety properties of Server for any queries, names, blocklists and  *)
(* reloads.                                                                *)
(***************************************************************************)
EXTENDS Server, TLAPS

Working == {"idle", "spawned", "jitter", "forward", "uncloak"}

\* A response r that is ready to be sent goes with the line x logged for it:
\* none yet for a cached one.
Matches(q, r, x) ==
    /\ r \in {"refused", "block", "cached", "upstream", "servfail"}
    /\ r = "refused" => x = <<"Refuse">>
    /\ r = "block" => x = <<"Uncloak">> \/ (x = <<"Block">> /\ query[q].name \in bl_snapshot[q])
    /\ r = "cached" => x = <<>> /\ query[q].name \notin bl_snapshot[q]
    /\ r = "upstream" => x \in {<<"Allow">>, <<"Suspicious">>} /\ query[q].name \notin bl_snapshot[q]
    /\ r = "servfail" => x = <<"ServFail">>

\* The same once it is sent.
Sound(q, r, x) ==
    IF r = "cached" THEN x = <<"Cached">> /\ query[q].name \notin bl_snapshot[q]
    ELSE Matches(q, r, x)

\* What is known of a query at each place of its handler.
Known(q) ==
    /\ arrival[q] = bl_snapshot[q]
    /\ pc[q] # "idle" => query[q] \in [kind : Kinds, name : Names]
    /\ pc[q] \in Working => log[q] = <<>> /\ reply[q] = "none"
    /\ pc[q] \in {"jitter", "forward", "uncloak"} =>
        query[q].name \notin bl_snapshot[q] /\ query[q].kind \in {"address", "other"}
    /\ pc[q] = "jitter" => response[q] = "cached"
    /\ pc[q] = "uncloak" => query[q].kind = "address"
    /\ pc[q] \in {"send", "failed"} => reply[q] = "none" /\ Matches(q, response[q], log[q])
    /\ pc[q] = "done" => \/ reply[q] = "none" /\ log[q] = <<>>
                         \/ reply[q] # "none" /\ Sound(q, reply[q], log[q])

\* TypeOK without the length of the logs, which Known implies.
Typed ==
    /\ g_blocklist \in Lists /\ pin \in Lists /\ reloads \in 0..MaxReloads
    /\ cache \subseteq [kind : {"address", "other"}, name : Names]
    /\ query \in [Queries -> {NoQuery} \cup [kind : Kinds, name : Names]]
    /\ bl_snapshot \in [Queries -> Lists \cup {{}}]
    /\ arrival \in [Queries -> Lists \cup {{}}]
    /\ pc \in [Queries -> Working \cup {"send", "done", "failed"}]
    /\ response \in [Queries -> {"none", "refused", "block", "cached", "upstream", "servfail"}]
    /\ reply \in [Queries -> {"none", "refused", "block", "cached", "upstream", "servfail"}]
    /\ log \in [Queries -> Seq({"Refuse", "Block", "Cached", "ServFail", "Uncloak",
                                "Allow", "Suspicious"})]
    /\ stopped \in BOOLEAN

IInv == Typed /\ (\A q \in Queries : Known(q)) /\ CachedIsUncloaked

Own(q) == <<query[q], arrival[q], bl_snapshot[q], pc[q], response[q], reply[q], log[q]>>

\* What is known of a query stays known while its handler does nothing.
LEMMA OthersKeep ==
    ASSUME NEW q \in Queries, Known(q), UNCHANGED Own(q)
    PROVE  Known(q)'
  BY DEF Known, Own, Matches, Sound

\* The first line logged is the only one.
LEMMA LogFirst ==
    ASSUME Typed, NEW q \in Queries, log[q] = <<>>,
           NEW x \in {"Refuse", "Block", "Cached", "ServFail", "Uncloak", "Allow", "Suspicious"},
           log_record(q, x)
    PROVE  /\ log' = [log EXCEPT ![q] = <<x>>]
           /\ log' \in [Queries -> Seq({"Refuse", "Block", "Cached", "ServFail", "Uncloak",
                                        "Allow", "Suspicious"})]
<1>1. Append(<<>>, x) = <<x>>
  OBVIOUS
<1>2. log' = [log EXCEPT ![q] = <<x>>]
  BY <1>1 DEF log_record
<1> QED BY <1>2 DEF Typed

\* The invariant holds before the first query.
LEMMA InitEstablishes == Init => IInv
<1> SUFFICES ASSUME Init PROVE IInv
  OBVIOUS
<1>1. Typed
  <2>1. <<>> \in Seq({"Refuse", "Block", "Cached", "ServFail", "Uncloak", "Allow", "Suspicious"})
    OBVIOUS
  <2>2. reloads \in 0..MaxReloads
    BY ServerAssumption DEF Init
  <2> QED BY <2>1, <2>2 DEF Init, Typed, Working
<1>2. (\A q \in Queries : Known(q)) /\ CachedIsUncloaked
  BY DEF Init, Known, CachedIsUncloaked, Working
<1> QED BY <1>1, <1>2 DEF IInv

\* A step of one handler that keeps the types and the cache's promise, and leaves
\* the other queries alone, keeps the invariant if it keeps what is known of its
\* own query.
LEMMA HandlerKeeps ==
    ASSUME IInv, NEW q \in Queries, Typed', CachedIsUncloaked', Known(q)',
           \A d \in Queries \ {q} : UNCHANGED Own(d)
    PROVE  IInv'
  BY OthersKeep DEF IInv

\* A response made and logged in one step: the query has had neither before, and
\* the line is the response's.
LEMMA RespondKeeps ==
    ASSUME IInv, NEW q \in Queries, pc[q] \in Working \ {"idle"},
           NEW r, NEW x \in {"Refuse", "Block", "ServFail", "Uncloak", "Allow", "Suspicious"},
           Respond(q, r), log_record(q, x), Matches(q, r, <<x>>), CachedIsUncloaked',
           cache' \subseteq [kind : {"address", "other"}, name : Names],
           UNCHANGED <<lists, asked, reply, stopped>>
    PROVE  IInv'
<1>1. Known(q) /\ Typed /\ log[q] = <<>> /\ reply[q] = "none"
  BY DEF IInv, Known
<1>2. log' = [log EXCEPT ![q] = <<x>>] /\ Typed'
  BY <1>1, LogFirst DEF Typed, Respond, Goto, lists, asked, Matches, Working
<1>3. Known(q)'
  <2>1. pc'[q] = "send" /\ response'[q] = r /\ log'[q] = <<x>> /\ reply'[q] = "none"
    BY <1>1, <1>2 DEF Typed, Respond, Goto
  <2>2. Matches(q, r, <<x>>)'
    BY DEF Matches, asked
  <2> QED BY <1>1, <2>1, <2>2 DEF Known, asked, Working
<1>4. \A d \in Queries \ {q} : UNCHANGED Own(d)
  BY <1>1, <1>2 DEF Typed, Own, Respond, Goto, asked
<1> QED BY <1>2, <1>3, <1>4, HandlerKeeps

\* The same, where nothing is cached.
LEMMA RespondOnlyKeeps ==
    ASSUME IInv, NEW q \in Queries, pc[q] \in Working \ {"idle"},
           NEW r, NEW x \in {"Refuse", "Block", "ServFail", "Uncloak", "Allow", "Suspicious"},
           Respond(q, r), log_record(q, x), Matches(q, r, <<x>>),
           UNCHANGED <<lists, cache, asked, reply, stopped>>
    PROVE  IInv'
<1>1. CachedIsUncloaked' /\ cache' \subseteq [kind : {"address", "other"}, name : Names]
  BY DEF IInv, Typed, CachedIsUncloaked, lists
<1> QED BY <1>1, RespondKeeps

\* A handler goes on without a response being sent or a line being logged.
LEMMA MoveKeeps ==
    ASSUME IInv, NEW q \in Queries, NEW l \in {"jitter", "forward", "uncloak", "send", "done", "failed"},
           Goto(q, l),
           response' = response \/ response' = [response EXCEPT ![q] = "cached"],
           UNCHANGED <<lists, cache, asked, reply, log, stopped>>,
           Known(q)'
    PROVE  IInv'
<1>1. Typed'
  BY DEF IInv, Typed, Goto, lists, asked, Working
<1>2. CachedIsUncloaked'
  BY DEF IInv, CachedIsUncloaked, lists
<1>3. \A d \in Queries \ {q} : UNCHANGED Own(d)
  BY DEF IInv, Typed, Own, Goto, asked
<1> QED BY <1>1, <1>2, <1>3, HandlerKeeps

\* serve: the handler is given the list of the moment of arrival.
LEMMA ReceiveKeeps ==
    ASSUME IInv, NEW q \in Queries, Receive(q), UNCHANGED stopped
    PROVE  IInv'
<1>1. Typed'
  BY DEF Receive, IInv, Typed, Goto, lists, Working
<1>2. CachedIsUncloaked'
  BY DEF Receive, IInv, CachedIsUncloaked, lists
<1>3. Known(q)'
  BY DEF Receive, IInv, Typed, Known, Goto, Working
<1>4. \A d \in Queries \ {q} : UNCHANGED Own(d)
  BY DEF Receive, Own, Goto, IInv, Typed
<1> QED BY <1>1, <1>2, <1>3, <1>4, HandlerKeeps

\* handle up to its first co_await.
LEMMA HandleKeeps ==
    ASSUME IInv, NEW q \in Queries, Handle(q), UNCHANGED stopped
    PROVE  IInv'
<1>1. Known(q) /\ Typed /\ pc[q] = "spawned" /\ log[q] = <<>> /\ reply[q] = "none"
  BY DEF IInv, Handle, Known, Working
<1>2. UNCHANGED <<lists, cache, asked, reply>>
  BY DEF Handle
<1>3. CASE query[q].kind = "malformed"
  <2>1. Goto(q, "done") /\ UNCHANGED <<response, log>>
    BY <1>3 DEF Handle
  <2>2. Known(q)'
    BY <1>1, <1>2, <2>1 DEF Typed, Known, Goto, asked, Working
  <2> QED BY <1>2, <2>1, <2>2, MoveKeeps
<1>4. CASE query[q].kind = "refuse"
  <2>1. Respond(q, "refused") /\ log_record(q, "Refuse")
    BY <1>4 DEF Handle
  <2> QED BY <1>1, <1>2, <2>1, RespondOnlyKeeps DEF Matches, Working
<1>5. CASE query[q].kind \notin {"malformed", "refuse"}
  <2>1. query[q].kind \in {"address", "other"}
    BY <1>1, <1>5 DEF Known, Kinds
  <2>2. CASE Blocked(q)
    <3>1. Respond(q, "block") /\ log_record(q, "Block")
      BY <1>5, <2>2 DEF Handle
    <3> QED BY <1>1, <1>2, <2>2, <3>1, RespondOnlyKeeps DEF Matches, Blocked, Working
  <2>3. CASE ~Blocked(q) /\ query[q] \in cache
    <3>1. /\ response' = [response EXCEPT ![q] = "cached"]
          /\ Goto(q, "jitter") /\ UNCHANGED log
      BY <1>5, <2>3 DEF Handle
    <3>2. Known(q)'
      BY <1>1, <1>2, <2>1, <2>3, <3>1 DEF Typed, Known, Goto, asked, Working, Blocked
    <3> QED BY <1>2, <3>1, <3>2, MoveKeeps
  <2>4. CASE ~Blocked(q) /\ query[q] \notin cache
    <3>1. Goto(q, "forward") /\ UNCHANGED <<response, log>>
      BY <1>5, <2>4 DEF Handle
    <3>2. Known(q)'
      BY <1>1, <1>2, <2>1, <2>4, <3>1 DEF Typed, Known, Goto, asked, Working, Blocked
    <3> QED BY <1>2, <3>1, <3>2, MoveKeeps
  <2> QED BY <2>2, <2>3, <2>4
<1> QED BY <1>3, <1>4, <1>5

\* apply_jitter, and a send that throws.
LEMMA JitterKeeps ==
    ASSUME IInv, NEW q \in Queries, Jitter(q) \/ SendFails(q), UNCHANGED stopped
    PROVE  IInv'
<1>1. CASE Jitter(q)
  <2>1. Known(q)'
    BY <1>1 DEF Jitter, IInv, Typed, Known, Matches, Goto, asked, Working
  <2> QED BY <1>1, <2>1, MoveKeeps DEF Jitter
<1>2. CASE SendFails(q)
  <2>1. Known(q)'
    BY <1>2 DEF SendFails, IInv, Typed, Known, Matches, Goto, asked, Working
  <2> QED BY <1>2, <2>1, MoveKeeps DEF SendFails
<1> QED BY <1>1, <1>2

\* try_cache_insert adds nothing, or the key of a query that is no address query
\* or whose target the uncloaker has let pass.
LEMMA InsertKeeps ==
    ASSUME IInv, NEW q \in Queries, pc[q] \in {"forward", "uncloak"}, try_cache_insert(q),
           query[q].kind = "other" \/ Target[query[q].name] \notin pin,
           UNCHANGED pin
    PROVE  /\ CachedIsUncloaked'
           /\ cache' \subseteq [kind : {"address", "other"}, name : Names]
<1>1. query[q] \in [kind : {"address", "other"}, name : Names]
  BY DEF IInv, Known, Kinds
<1> QED BY <1>1 DEF IInv, Typed, try_cache_insert, CachedIsUncloaked

\* What comes after forward_with_source has returned or thrown.
LEMMA ForwardKeeps ==
    ASSUME IInv, NEW q \in Queries, Forward(q) \/ ForwardThrows(q), UNCHANGED stopped
    PROVE  IInv'
<1>1. Known(q) /\ pc[q] = "forward" /\ query[q].kind \in {"address", "other"}
      /\ query[q].name \notin bl_snapshot[q]
  BY DEF IInv, Known, Forward, ForwardThrows
<1>2. CASE ForwardThrows(q)
  BY <1>1, <1>2, RespondOnlyKeeps DEF ForwardThrows, Catch, Matches, Working
<1>3. CASE Forward(q) /\ query[q].kind = "address"
  <2>1. Goto(q, "uncloak") /\ UNCHANGED <<response, log, lists, cache, asked, reply>>
    BY <1>3 DEF Forward, CachesAtOnce
  <2>2. Known(q)'
    BY <1>1, <1>3, <2>1 DEF IInv, Typed, Known, Goto, asked, Working
  <2> QED BY <2>1, <2>2, MoveKeeps
<1>4. CASE Forward(q) /\ query[q].kind = "other"
  <2>1. /\ try_cache_insert(q) /\ Respond(q, "upstream") /\ log_record(q, "Allow")
        /\ UNCHANGED <<lists, asked, reply>>
    BY <1>4 DEF Forward, CachesAtOnce
  <2>2. CachedIsUncloaked' /\ cache' \subseteq [kind : {"address", "other"}, name : Names]
    BY <1>1, <1>4, <2>1, InsertKeeps DEF lists
  <2>3. Matches(q, "upstream", <<"Allow">>)
    BY <1>1 DEF Matches
  <2> QED BY <1>1, <2>1, <2>2, <2>3, RespondKeeps DEF Working
<1> QED BY <1>1, <1>2, <1>3, <1>4

\* The three ways uncloak returns.
LEMMA UncloakKeeps ==
    ASSUME IInv, NEW q \in Queries,
           UncloakBlocked(q) \/ UncloakAborted(q) \/ UncloakClean(q), UNCHANGED stopped
    PROVE  IInv'
<1>1. pc[q] = "uncloak" /\ query[q].name \notin bl_snapshot[q]
  BY DEF IInv, Known, UncloakBlocked, UncloakAborted, UncloakClean
<1>2. CASE UncloakBlocked(q)
  BY <1>1, <1>2, RespondOnlyKeeps DEF UncloakBlocked, Matches, Working
<1>3. CASE UncloakAborted(q)
  BY <1>1, <1>3, RespondOnlyKeeps DEF UncloakAborted, LogAborted, Matches, Working
<1>4. CASE UncloakClean(q)
  <2>1. PICK x \in {"Allow", "Suspicious"} : log_record(q, x)
    BY <1>4 DEF UncloakClean
  <2>2. CachedIsUncloaked' /\ cache' \subseteq [kind : {"address", "other"}, name : Names]
    BY <1>1, <1>4, InsertKeeps DEF UncloakClean, lists
  <2>3. Matches(q, "upstream", <<x>>)
    BY <1>1, <2>1 DEF Matches
  <2> QED BY <1>1, <1>4, <2>1, <2>2, <2>3, RespondKeeps DEF UncloakClean, Working
<1> QED BY <1>2, <1>3, <1>4

\* The response leaves; a cached one is logged only now.
LEMMA SentKeeps ==
    ASSUME IInv, NEW q \in Queries, Sent(q), UNCHANGED stopped
    PROVE  IInv'
<1>1. Typed /\ Known(q) /\ pc[q] = "send" /\ Matches(q, response[q], log[q])
  BY DEF IInv, Known, Sent
<1>2. /\ reply' = [reply EXCEPT ![q] = response[q]] /\ pc' = [pc EXCEPT ![q] = "done"]
      /\ UNCHANGED <<lists, cache, asked, response>>
  BY DEF Sent, Goto
<1>3. \/ response[q] = "cached" /\ log' = [log EXCEPT ![q] = <<"Cached">>]
      \/ response[q] # "cached" /\ UNCHANGED log
  BY <1>1, LogFirst DEF Sent, LogsAfterSend, Matches
<1>4. Typed'
  <2>1. log' \in [Queries -> Seq({"Refuse", "Block", "Cached", "ServFail", "Uncloak",
                                  "Allow", "Suspicious"})]
    BY <1>1, LogFirst DEF Sent, LogsAfterSend, Matches, Typed
  <2> QED BY <1>1, <1>2, <2>1 DEF Typed, lists, asked, Working
<1>5. Known(q)'
  <2>1. pc'[q] = "done" /\ reply'[q] = response[q] /\ reply'[q] # "none"
    BY <1>1, <1>2 DEF Typed, Matches
  <2>2. UNCHANGED <<query[q], bl_snapshot[q]>>
    BY <1>2 DEF asked
  <2>3. CASE response[q] = "cached"
    <3>1. log'[q] = <<"Cached">> /\ query[q].name \notin bl_snapshot[q]
      BY <1>1, <1>3, <2>3 DEF Typed, Matches
    <3>2. Sound(q, reply[q], log[q])'
      BY <2>1, <2>2, <2>3, <3>1 DEF Sound
    <3> QED BY <1>1, <1>2, <2>1, <3>2 DEF Known, asked, Working
  <2>4. CASE response[q] # "cached"
    <3>1. Matches(q, reply[q], log[q])'
      BY <1>1, <1>3, <2>1, <2>2, <2>4 DEF Matches
    <3>2. Sound(q, reply[q], log[q])'
      BY <2>1, <2>4, <3>1 DEF Sound
    <3> QED BY <1>1, <1>2, <2>1, <3>2 DEF Known, asked, Working
  <2> QED BY <2>3, <2>4
<1>6. CachedIsUncloaked' /\ \A d \in Queries \ {q} : UNCHANGED Own(d)
  BY <1>1, <1>2, <1>3 DEF IInv, Typed, CachedIsUncloaked, Own, lists, asked
<1> QED BY <1>4, <1>5, <1>6, HandlerKeeps

\* Every step keeps the invariant; reloads and the cache's own steps leave every
\* handler, and the list the uncloaker has pinned, as they are.
LEMMA StepKeeps == IInv /\ [Next]_vars => IInv'
<1> SUFFICES ASSUME IInv, [Next]_vars PROVE IInv'
  OBVIOUS
<1>1. CASE Reload \/ Forget \/ Stop \/ UNCHANGED vars
  <2>1. UNCHANGED <<asked, pc, response, reply, log, pin>>
    BY <1>1 DEF Reload, Forget, Stop, vars, lists
  <2>2. \A q \in Queries : Known(q)'
    <3>1. \A q \in Queries : UNCHANGED Own(q)
      BY <2>1 DEF Own, asked
    <3> QED BY <3>1, OthersKeep DEF IInv
  <2>3. cache' \subseteq cache
    BY <1>1 DEF Reload, Forget, Stop, vars
  <2>4. CachedIsUncloaked'
    BY <2>1, <2>3 DEF IInv, CachedIsUncloaked
  <2>5. g_blocklist' \in Lists /\ reloads' \in 0..MaxReloads
    BY <1>1, ServerAssumption DEF Reload, Forget, Stop, vars, lists, IInv, Typed
  <2>6. stopped' \in BOOLEAN
    BY DEF Next, vars, IInv, Typed, Stop
  <2> QED BY <2>1, <2>2, <2>3, <2>4, <2>5, <2>6 DEF IInv, Typed, asked
<1>2. ASSUME NEW q \in Queries, Receive(q) \/ HandlerStep(q), UNCHANGED stopped PROVE IInv'
  BY <1>2, ReceiveKeeps, HandleKeeps, JitterKeeps, ForwardKeeps, UncloakKeeps, SentKeeps
  DEF HandlerStep
<1> QED BY <1>1, <1>2 DEF Next

\* The invariant holds in every reachable state.
LEMMA Invariance == Spec => []IInv
  BY InitEstablishes, StepKeeps, PTL DEF Spec

-----------------------------------------------------------------------------
\* Every variable keeps its type, and no path through handle logs two lines.
THEOREM TypeCorrect == Spec => []TypeOK
<1>1. IInv => TypeOK
  <2> SUFFICES ASSUME IInv PROVE TypeOK
    OBVIOUS
  <2>1. ASSUME NEW q \in Queries PROVE Len(log[q]) <= 1
    <3>1. log[q] = <<>> \/ \E x : log[q] = <<x>>
      BY DEF IInv, Typed, Known, Working, Matches, Sound
    <3>2. CASE log[q] = <<>>
      BY <3>2
    <3>3. CASE \E x : log[q] = <<x>>
      <4>1. PICK x : log[q] = <<x>>
        BY <3>3
      <4>2. Len(log[q]) = 1
        BY <4>1
      <4> QED BY <4>2
    <3> QED BY <3>1, <3>2, <3>3
  <2> QED BY <2>1 DEF IInv, Typed, TypeOK, Working
<1> QED BY <1>1, Invariance, PTL

\* The list installed when a query arrived decides, whatever reloads interleave
\* with the receive, the spawned handler and its later steps.
THEOREM ArrivalDecides == Spec => []ArrivalListDecides
<1>1. IInv => ArrivalListDecides
  <2> SUFFICES ASSUME IInv, NEW q \in Queries
               PROVE  /\ Answered(q) => query[q].name \notin arrival[q]
                      /\ log[q] = <<"Block">> => query[q].name \in arrival[q]
    BY DEF ArrivalListDecides
  <2>1. Known(q) /\ pc[q] \in Working \cup {"send", "done", "failed"}
    BY DEF IInv, Typed
  <2>2. ASSUME NEW r, Matches(q, r, log[q]), log[q] = <<"Block">> PROVE query[q].name \in arrival[q]
    BY <2>1, <2>2 DEF Known, Matches
  <2>3. ASSUME NEW r, Sound(q, r, log[q]), log[q] = <<"Block">> PROVE query[q].name \in arrival[q]
    BY <2>2, <2>3 DEF Sound
  <2>4. log[q] = <<"Block">> => query[q].name \in arrival[q]
    BY <2>1, <2>2, <2>3 DEF Known
  <2>5. Answered(q) => query[q].name \notin arrival[q]
    BY <2>1 DEF Known, Working, Answered, Sound, Matches
  <2> QED BY <2>4, <2>5
<1> QED BY <1>1, Invariance, PTL

\* No address answer whose target the uncloaker's list has is ever cached.
THEOREM CacheIsUncloaked == Spec => []CachedIsUncloaked
<1>1. IInv => CachedIsUncloaked
  BY DEF IInv
<1> QED BY <1>1, Invariance, PTL

\* Every query that was answered has exactly one log line, the answer's.
THEOREM AnswersAreLogged == Spec => []AnsweredIsLogged
<1>1. IInv => AnsweredIsLogged
  <2> SUFFICES ASSUME IInv, NEW q \in Queries, reply[q] # "none"
               PROVE  /\ Len(log[q]) = 1
                      /\ log[q][1] \in
                           CASE reply[q] = "refused" -> {"Refuse"}
                             [] reply[q] = "block" -> {"Block", "Uncloak"}
                             [] reply[q] = "cached" -> {"Cached"}
                             [] reply[q] = "servfail" -> {"ServFail"}
                             [] reply[q] = "upstream" -> {"Allow", "Suspicious"}
    BY DEF AnsweredIsLogged
  <2>1. Sound(q, reply[q], log[q])
    BY DEF IInv, Typed, Known, Working
  <2>2. \A x : Len(<<x>>) = 1 /\ <<x>>[1] = x
    OBVIOUS
  <2>3. CASE reply[q] = "refused"
    BY <2>1, <2>2, <2>3 DEF Sound, Matches
  <2>4. CASE reply[q] = "block"
    BY <2>1, <2>2, <2>4 DEF Sound, Matches
  <2>5. CASE reply[q] = "cached"
    BY <2>1, <2>2, <2>5 DEF Sound
  <2>6. CASE reply[q] = "servfail"
    BY <2>1, <2>2, <2>6 DEF Sound, Matches
  <2>7. CASE reply[q] = "upstream"
    BY <2>1, <2>2, <2>7 DEF Sound, Matches
  <2> QED BY <2>1, <2>3, <2>4, <2>5, <2>6, <2>7 DEF Sound, Matches
<1> QED BY <1>1, Invariance, PTL
=============================================================================
