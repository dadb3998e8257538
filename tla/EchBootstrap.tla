---------------------------- MODULE EchBootstrap ----------------------------
(***************************************************************************)
(* bootstrap_ech_config: ask the bootstrap resolvers, one after the other, *)
(* for the HTTPS record of the upstream's name over plain UDP, and take    *)
(* the ECHConfigList out of the first answer that has one.  Start-up and   *)
(* every reload run one; those of two reloads may overlap.                 *)
(*                                                                         *)
(* One thread runs queued handlers in order.  What is kept of that order   *)
(* is whether the queued handler of a fetch's timer is ahead of the        *)
(* completion of its operation.  Cancelling a socket reaches only an       *)
(* operation that is still pending, and an operation that can be done in   *)
(* the call that starts it has its completion queued at once.              *)
(*                                                                         *)
(* Sockets are connected, so only the server asked can be heard; but ports *)
(* are few, and a late reply to an earlier query may reach the fetch that  *)
(* now has the port.  A random 16-bit id is taken to be a fresh one.  A    *)
(* timer handler still queued when its fetch has returned holds that       *)
(* fetch's socket, on which nothing is pending: it is left out.            *)
(***************************************************************************)
EXTENDS Naturals, Sequences

CONSTANTS Boots,        \* runs of bootstrap_ech_config
          Hosts, Host,  \* Host[b]: the servername b asks for
          Servers,      \* how many bootstrap servers the config names
          Ports,        \* ephemeral ports
          Answers,      \* Answers[h]: answer sections a server may send for h
          MaxSkips,     \* bound on the datagrams a fetch skips
          None

ASSUME EchBootstrapAssumption ==
    /\ Host \in [Boots -> Hosts]
    /\ Servers \in Nat \ {0} /\ MaxSkips \in Nat
    /\ None \notin Ports

VARIABLES
    pc,       \* "idle", "open", "send", "receive" or "done"
    i,        \* the server b asks (from 1)
    our_id,
    port,     \* the port of the fetch's socket, or None
    op,       \* "none", "pending", "ok", "failed" or "aborted"
    got,      \* the datagram of a receive that is "ok"
    timer,    \* "off", "armed", or "queued" (its handler is to run)
    ahead,    \* the queued timer handler runs before the operation's
    result,   \* the ECHConfigList found: {[bytes, host, server]}, or {}
    sent,     \* queries that left a socket: [server, port, id, host]
    skips,    \* history: datagrams the current fetch has skipped
    heard     \* history: heard[b][s] is what happened while b asked s

socket == <<our_id, port, op, got, timer, ahead>>
vars == <<pc, i, socket, result, sent, skips, heard>>
-----------------------------------------------------------------------------
kQTypeHttps == 65
kSvcParamKeyEch == 5

\* An RDATA is [priority, target, params]; target is "plain" or does not get
\* skipped ("pointer", "cut"), a parameter is [key, fits, value].
FirstIn(S) == CHOOSE k \in S : \A j \in S : k <= j
svcb_extract_ech(rdata) ==
    LET stops == {k \in DOMAIN rdata.params :
                     ~rdata.params[k].fits \/ rdata.params[k].key = kSvcParamKeyEch}
        p == rdata.params[FirstIn(stops)]
    IN  IF rdata.priority = 0 \/ rdata.target # "plain" \/ stops = {} \/ ~p.fits
        THEN None ELSE p.value

\* What a reply with our id is good for: the first HTTPS record decides.
Extracted(d) ==
    LET https == {k \in DOMAIN d.answers : d.answers[k].type = kQTypeHttps}
    IN  IF d.rcode # 0 \/ https = {} THEN None
        ELSE svcb_extract_ech(d.answers[FirstIn(https)].rdata)

\* What can arrive: a reply to a query sent to this server from this port,
\* whoever sent it, or something too short or that does not parse; k of the
\* datagrams to skip, a bounded number, have come already.
Garbage == [kind |-> "garbage"]
Reply(q, rcode, answers) ==
    [kind |-> "reply", id |-> q.id, host |-> q.host, rcode |-> rcode, answers |-> answers]
Foreign(b, d) == d.kind = "garbage" \/ d.id # our_id[b]
Arriving(b, k) ==
    LET asked == {q \in sent : q.server = i[b] /\ q.port = port[b]}
        all == {Garbage} \cup {Reply(q, 3, <<>>) : q \in asked}
                         \cup UNION {{Reply(q, 0, a) : a \in Answers[q.host]} : q \in asked}
    IN  {d \in all : Foreign(b, d) => k < MaxSkips}

IsOurs(b, d) == d.kind = "reply" /\ d.id = our_id[b]

Hear(b, what) == heard' = [heard EXCEPT ![b][i[b]] = @ \cup {what}]
HearDatagram(b, d) ==
    IF Foreign(b, d) THEN UNCHANGED heard
    ELSE Hear(b, IF Extracted(d) = None THEN "useless" ELSE "usable")
-----------------------------------------------------------------------------
\* An operation starts: it is pending, or done at once and its completion is
\* queued behind a timer handler that is queued already.
StartOp(b, o, tm) ==
    /\ pc' = [pc EXCEPT ![b] = o]
    /\ timer' = [timer EXCEPT ![b] = tm]
    /\ ahead' = [ahead EXCEPT ![b] = (tm = "queued")]
Pend(b) == op' = [op EXCEPT ![b] = "pending"] /\ got' = [got EXCEPT ![b] = None]
Arrive(b, d) == op' = [op EXCEPT ![b] = "ok"] /\ got' = [got EXCEPT ![b] = d]

StartReceive(b, k) ==
    /\ StartOp(b, "receive", timer[b])
    /\ \/ Pend(b) /\ UNCHANGED heard
       \/ \E d \in Arriving(b, k) : Arrive(b, d) /\ HearDatagram(b, d)

Begin(b) ==
    /\ pc[b] = "idle"
    /\ pc' = [pc EXCEPT ![b] = "open"]
    /\ UNCHANGED <<i, socket, result, sent, skips, heard>>

\* Seeded fault: every query has the same transaction id.
FreshIdFixed(b) == <<CHOOSE d \in Boots : TRUE, 1>>

\* The 16 random bits a fetch draws; those of two fetches are taken to differ.
FreshId(b) == <<b, i[b]>>

\* The query leaves its socket.
SendQuery(b, p) ==
    sent' = sent \cup {[server |-> i[b], port |-> p, id |-> FreshId(b), host |-> Host[b]]}

\* Seeded fault: the wait is started without a time.
ArmedNot == "off"

\* timer.expires_after and async_wait.
Armed == "armed"

\* fetch_https_rr_rdata up to its first co_await.
Open(b) ==
    /\ pc[b] = "open"
    /\ \E p \in Ports \ {port[d] : d \in Boots} : port' = [port EXCEPT ![b] = p]
    /\ our_id' = [our_id EXCEPT ![b] = FreshId(b)]
    /\ StartOp(b, "send", Armed)
    /\ \/ Pend(b) /\ UNCHANGED sent
       \/ Arrive(b, None) /\ SendQuery(b, port'[b])
    /\ skips' = [skips EXCEPT ![b] = 0]
    /\ UNCHANGED <<i, result, heard>>
-----------------------------------------------------------------------------
\* The fetch returns, so its socket and timer are gone; what was found is
\* returned, or else the next server is asked.
Leave(b) ==
    /\ our_id' = [our_id EXCEPT ![b] = None] /\ port' = [port EXCEPT ![b] = None]
    /\ op' = [op EXCEPT ![b] = "none"] /\ got' = [got EXCEPT ![b] = None]
    /\ timer' = [timer EXCEPT ![b] = "off"] /\ ahead' = [ahead EXCEPT ![b] = FALSE]
    /\ UNCHANGED <<sent, skips>>

Found(b, bytes) ==
    /\ Leave(b)
    /\ result' = [result EXCEPT ![b] = {[bytes |-> bytes, host |-> got[b].host, server |-> i[b]]}]
    /\ pc' = [pc EXCEPT ![b] = "done"]
    /\ UNCHANGED <<i, heard>>

\* Seeded fault: a record without ech= ends the walk.
MoreServersUnlessAnswered(b) == i[b] < Servers /\ "useless" \notin heard[b][i[b]]

MoreServers(b) == i[b] < Servers
NextServer(b) ==
    /\ Leave(b)
    /\ IF MoreServers(b)
       THEN i' = [i EXCEPT ![b] = @ + 1] /\ pc' = [pc EXCEPT ![b] = "open"]
       ELSE pc' = [pc EXCEPT ![b] = "done"] /\ UNCHANGED i
    /\ UNCHANGED result

\* The name does not encode, or open, bind or connect fails.
OpenFails(b) == pc[b] = "open" /\ NextServer(b) /\ Hear(b, "error")

\* The network: the handler of a timer that has expired runs before the
\* sockets are looked at again.
Completable(b) == op[b] = "pending" /\ timer[b] # "queued"
Sent(b) ==
    /\ pc[b] = "send" /\ Completable(b)
    /\ Arrive(b, None) /\ SendQuery(b, port[b])
    /\ UNCHANGED <<pc, i, our_id, port, timer, ahead, result, skips, heard>>

Receive(b, d) ==
    /\ pc[b] = "receive" /\ Completable(b)
    /\ Arrive(b, d) /\ HearDatagram(b, d)
    /\ UNCHANGED <<pc, i, our_id, port, timer, ahead, result, sent, skips>>

SocketError(b) ==
    /\ Completable(b)
    /\ op' = [op EXCEPT ![b] = "failed"] /\ Hear(b, "error")
    /\ UNCHANGED <<pc, i, our_id, port, got, timer, ahead, result, sent, skips>>

TimerExpires(b) ==
    /\ timer[b] = "armed"
    /\ timer' = [timer EXCEPT ![b] = "queued"]
    /\ ahead' = [ahead EXCEPT ![b] = (op[b] = "pending")]
    /\ Hear(b, "timeout")
    /\ UNCHANGED <<pc, i, our_id, port, op, got, result, sent, skips>>
-----------------------------------------------------------------------------
\* sock->cancel()
TimerHandler(b) ==
    /\ timer[b] = "queued" /\ (op[b] = "pending" \/ ahead[b])
    /\ timer' = [timer EXCEPT ![b] = "off"]
    /\ op' = IF op[b] = "pending" THEN [op EXCEPT ![b] = "aborted"] ELSE op
    /\ UNCHANGED <<pc, i, our_id, port, got, ahead, result, sent, skips, heard>>

Resumable(b) == op[b] \notin {"none", "pending"} /\ ~(timer[b] = "queued" /\ ahead[b])

AfterSend(b) ==
    /\ pc[b] = "send" /\ op[b] = "ok" /\ Resumable(b)
    /\ StartReceive(b, 0)
    /\ UNCHANGED <<i, our_id, port, result, sent, skips>>

Fails(b) ==
    /\ op[b] \in {"failed", "aborted"} /\ Resumable(b)
    /\ NextServer(b) /\ UNCHANGED heard

\* Seeded fault: a datagram that is not ours is taken for a failure.
SkipGivesUp(b) == NextServer(b) /\ UNCHANGED heard

\* continue
Skip(b) ==
    /\ skips' = [skips EXCEPT ![b] = @ + 1]
    /\ StartReceive(b, skips[b] + 1)
    /\ UNCHANGED <<i, our_id, port, result, sent>>

\* The loop's body after a receive.
AfterReceive(b) ==
    /\ pc[b] = "receive" /\ op[b] = "ok" /\ Resumable(b)
    /\ IF ~IsOurs(b, got[b]) THEN Skip(b)
       ELSE IF Extracted(got[b]) = None THEN NextServer(b) /\ UNCHANGED heard
       ELSE Found(b, Extracted(got[b]))
-----------------------------------------------------------------------------
Init ==
    /\ pc = [b \in Boots |-> "idle"] /\ i = [b \in Boots |-> 1]
    /\ our_id = [b \in Boots |-> None] /\ port = [b \in Boots |-> None]
    /\ op = [b \in Boots |-> "none"] /\ got = [b \in Boots |-> None]
    /\ timer = [b \in Boots |-> "off"] /\ ahead = [b \in Boots |-> FALSE]
    /\ result = [b \in Boots |-> {}] /\ sent = {}
    /\ skips = [b \in Boots |-> 0]
    /\ heard = [b \in Boots |-> [s \in 1..Servers |-> {}]]

HandlerStep(b) ==
    Open(b) \/ OpenFails(b) \/ TimerHandler(b) \/ AfterSend(b) \/ Fails(b) \/ AfterReceive(b)
NetworkStep(b) == Sent(b) \/ (\E d \in Arriving(b, skips[b]) : Receive(b, d)) \/ SocketError(b)

Next == \E b \in Boots : Begin(b) \/ HandlerStep(b) \/ NetworkStep(b) \/ TimerExpires(b)

Spec == Init /\ [][Next]_vars

\* Time passes and queued handlers run; the network owes nothing.
FairSpec == Spec /\ \A b \in Boots : WF_vars(TimerExpires(b)) /\ WF_vars(HandlerStep(b))
-----------------------------------------------------------------------------
\* The state of every bootstrap has its type.
TypeOK ==
    /\ pc \in [Boots -> {"idle", "open", "send", "receive", "done"}]
    /\ i \in [Boots -> 1..Servers]
    /\ our_id \in [Boots -> (Boots \X (1..Servers)) \cup {None}] /\ port \in [Boots -> Ports \cup {None}]
    /\ op \in [Boots -> {"none", "pending", "ok", "failed", "aborted"}]
    /\ timer \in [Boots -> {"off", "armed", "queued"}] /\ ahead \in [Boots -> BOOLEAN]
    /\ skips \in [Boots -> 0..MaxSkips]
    /\ heard \in [Boots -> [1..Servers ->
                      SUBSET {"error", "timeout", "useless", "usable"}]]

\* The ECHConfigList a bootstrap returns was sent for the name it asked for, by
\* the server it was asking at that moment: not by a late reply to an earlier
\* fetch, of this or of another reload, whose port it has come to use.
FetchedIsOwn ==
    \A b \in Boots : \A r \in result[b] : r.host = Host[b] /\ r.server = i[b]

\* A server is given up only after an error, a timeout or an answer of its own
\* that has no ech=, and never once its usable answer has arrived; datagrams
\* that are not ours are no reason ("a single forged packet must not make us
\* abandon a live bootstrap server").  So nothing is returned only when every
\* server had such a reason.
GivesUpForAReason ==
    \A b \in Boots, s \in 1..Servers :
        LET givenUp == s < i[b] \/ (pc[b] = "done" /\ result[b] = {})
        IN  /\ givenUp => /\ heard[b][s] \cap {"error", "timeout", "useless"} # {}
                          /\ "usable" \notin heard[b][s]
            /\ s > i[b] => heard[b][s] = {}

\* A bootstrap ends, whatever its servers do or fail to do, as long as it has
\* no datagram to skip.
BootstrapReturns ==
    \A b \in Boots : pc[b] = "open" ~> (pc[b] = "done" \/ skips[b] > 0)

\* ech_bootstrap.cpp: "Read until a reply whose txid matches our query arrives,
\* or the timer cancels the socket."
BootstrapEnds == \A b \in Boots : pc[b] = "open" ~> pc[b] = "done"

\* ech_bootstrap.hpp: "Returns the first non-empty result, or nullopt if every
\* server fails."
ResultNotEmpty == \A b \in Boots : \A r \in result[b] : r.bytes # <<>>

\* ech_bootstrap.hpp: "Returns the raw rdata of the first ServiceMode HTTPS
\* answer": an answer of the server that has one with an ech= is of use.
ServiceModeIsFound ==
    \A b \in Boots :
        (pc[b] = "receive" /\ op[b] = "ok" /\ IsOurs(b, got[b]) /\ got[b].rcode = 0) =>
            \A k \in DOMAIN got[b].answers :
                (/\ got[b].answers[k].type = kQTypeHttps
                 /\ svcb_extract_ech(got[b].answers[k].rdata) # None)
                    => Extracted(got[b]) # None
=============================================================================
