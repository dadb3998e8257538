------------------------------ MODULE Resolver ------------------------------
(***************************************************************************)
(* Resolver::forward: one query walked over the adapters, the primary with *)
(* retries, each fallback once, every reply checked for the transaction id *)
(* and the echoed question; and the UDP adapter's try_once underneath.     *)
(*                                                                         *)
(* Forward calls are coroutines of one thread, so a step runs from one     *)
(* co_await to the next.  Every UDP attempt has a socket of its own, but   *)
(* ports are few: a late, repeated or wrong reply to an earlier query may  *)
(* reach the socket that now has the port.  A TLS adapter's attempt is one *)
(* step here; TlsAttempt has its insides.                                  *)
(***************************************************************************)
EXTENDS Naturals, Sequences, FiniteSets

CONSTANTS Calls,                \* forward calls
          Questions, Asked,     \* Asked[c] is the question of call c
          Servers,              \* how many servers the config names
          retries_on_primary,
          Ids, Ports,           \* transaction ids and ephemeral ports
          None

ASSUME ResolverAssumption ==
    /\ retries_on_primary \in Nat
    /\ Servers \in Nat \ {0}
    /\ Asked \in [Calls -> Questions]

VARIABLES
    protocol,   \* "udp", or "tls" for DoT and DoH: all the adapters are alike
    pc,         \* "new", "try", "send", "receive", "returned" or "threw"
    i, a,       \* forward's loop counters: adapter (from 1) and attempt
    our_id,
    port,       \* the port of the attempt's socket, or None
    sent,       \* queries that left a socket: [server, port, id, question]
    result,     \* result[c]: the reply forward returned, or None
    timeouts,   \* timeouts[n] of adapter n
    tries       \* history: tries[c][n] attempts of c on adapter n

vars == <<protocol, pc, i, a, our_id, port, sent, result, timeouts, tries>>

\* build_from_config makes one adapter for each server.
Adapters == 1..Servers

\* Seeded fault: one attempt too many.
AttemptsExtra(n) == IF n = 1 THEN 2 + retries_on_primary ELSE 1

Attempts(n) == IF n = 1 THEN 1 + retries_on_primary ELSE 1

\* What can come back: a message, one too short for a header, or not even an id.
Reply == [size: {"full"}, id: Ids, question: Questions]
         \cup [size: {"short"}, id: Ids] \cup [size: {"tiny"}]

-----------------------------------------------------------------------------
Start(c) ==
    /\ pc[c] = "new"
    /\ \E id \in Ids : our_id' = [our_id EXCEPT ![c] = id]
    /\ pc' = [pc EXCEPT ![c] = "try"]
    /\ UNCHANGED <<i, a, port, sent, result, timeouts, tries>>

\* Seeded fault: a reply that is turned down does not use up the attempt.
NextAttemptSame(n, k) == k

NextAttempt(n, k) == k + 1

\* The attempt gave nothing usable: go on with the loops, or throw.
GoOn(c) ==
    LET k == NextAttempt(i[c], a[c])
    IN  /\ \/ /\ k < Attempts(i[c])
              /\ a' = [a EXCEPT ![c] = k]
              /\ pc' = [pc EXCEPT ![c] = "try"] /\ UNCHANGED i
           \/ /\ k >= Attempts(i[c]) /\ i[c] < Servers
              /\ a' = [a EXCEPT ![c] = 0] /\ i' = [i EXCEPT ![c] = @ + 1]
              /\ pc' = [pc EXCEPT ![c] = "try"]
           \/ /\ k >= Attempts(i[c]) /\ i[c] = Servers
              /\ pc' = [pc EXCEPT ![c] = "threw"] /\ UNCHANGED <<i, a>>
        /\ UNCHANGED result

\* Seeded fault: only the id is compared.
reply_matches_request_id(q, r) == TRUE

reply_matches_request(q, r) == r.question = q

Accepted(c, r) ==
    r.size = "full" /\ r.id = our_id[c] /\ reply_matches_request(Asked[c], r)

\* try_once returned the reply r of server s, or nullopt (r = None).
Judge(c, s, r) ==
    /\ tries' = [tries EXCEPT ![c][i[c]] = @ + 1]
    /\ port' = [port EXCEPT ![c] = None]
    /\ \/ /\ r = None
          /\ timeouts' = [timeouts EXCEPT ![i[c]] = @ + 1]
          /\ GoOn(c)
       \/ /\ r # None /\ ~Accepted(c, r)
          /\ GoOn(c) /\ UNCHANGED timeouts
       \/ /\ r # None /\ Accepted(c, r)
          /\ result' = [result EXCEPT ![c] =
                [question |-> r.question, upstream |-> i[c], sender |-> s]]
          /\ pc' = [pc EXCEPT ![c] = "returned"]
          /\ UNCHANGED <<i, a, timeouts>>

\* An exception out of try_once leaves forward's loops.
Throw(c) ==
    /\ pc' = [pc EXCEPT ![c] = "threw"]
    /\ port' = [port EXCEPT ![c] = None]
    /\ tries' = [tries EXCEPT ![c][i[c]] = @ + 1]
    /\ UNCHANGED <<i, a, our_id, sent, result, timeouts>>

-----------------------------------------------------------------------------
\* UDP: open and bind a fresh socket, start the send.
UdpOpen(c) ==
    /\ pc[c] = "try" /\ protocol = "udp"
    /\ \E p \in Ports \ {port[d] : d \in Calls} :
        /\ port' = [port EXCEPT ![c] = p]
        /\ pc' = [pc EXCEPT ![c] = "send"]
    /\ UNCHANGED <<i, a, our_id, sent, result, timeouts, tries>>

\* open or bind throws, for want of a descriptor or a port.
UdpOpenError(c) == pc[c] = "try" /\ protocol = "udp" /\ Throw(c)

UdpSend(c) ==
    /\ pc[c] = "send"
    /\ sent' = sent \cup {[server |-> i[c], port |-> port[c], id |-> our_id[c],
                           question |-> Asked[c]]}
    /\ pc' = [pc EXCEPT ![c] = "receive"]
    /\ UNCHANGED <<i, a, our_id, port, result, timeouts, tries>>

UdpSendError(c) == pc[c] = "send" /\ Throw(c)

FromServer(c, s) == s = i[c]

\* The receive completes with something a queried server sends to this port.
UdpReceive(c, q, r) ==
    /\ pc[c] = "receive" /\ q \in sent /\ q.port = port[c]
    /\ Judge(c, q.server, IF FromServer(c, q.server) /\ r.size # "tiny" THEN r ELSE None)
    /\ UNCHANGED <<our_id, sent>>

\* Seeded fault: the timer is not armed.
UdpTimeoutNever(c) == FALSE

\* The receive fails: the timer cancelled it, or the socket reports an error.
UdpTimeout(c) ==
    /\ pc[c] = "receive"
    /\ Judge(c, None, None)
    /\ UNCHANGED <<our_id, sent>>

\* DoT or DoH: the connection's own reply, or nullopt.
TlsTry(c) ==
    /\ pc[c] = "try" /\ protocol = "tls"
    /\ \E r \in {x \in Reply : x.size # "tiny"} \cup {None} : Judge(c, i[c], r)
    /\ UNCHANGED <<our_id, sent>>

-----------------------------------------------------------------------------
Init ==
    /\ protocol \in {"udp", "tls"}
    /\ pc = [c \in Calls |-> "new"]
    /\ i = [c \in Calls |-> 1] /\ a = [c \in Calls |-> 0]
    /\ our_id = [c \in Calls |-> None] /\ port = [c \in Calls |-> None]
    /\ sent = {} /\ result = [c \in Calls |-> None]
    /\ timeouts = [n \in Adapters |-> 0]
    /\ tries = [c \in Calls |-> [n \in Adapters |-> 0]]

\* Steps that happen unless the process dies: a coroutine that can run runs,
\* sends complete, timers fire.
CallStep(c) ==
    \/ Start(c) \/ UdpOpen(c) \/ UdpSend(c) \/ UdpTimeout(c) \/ TlsTry(c)

Next ==
    /\ UNCHANGED protocol
    /\ \E c \in Calls :
        \/ CallStep(c)
        \/ \E q \in sent, r \in Reply : UdpReceive(c, q, r)
        \/ UdpOpenError(c) \/ UdpSendError(c)

Spec == Init /\ [][Next]_vars

FairSpec == Spec /\ \A c \in Calls : WF_vars(CallStep(c) /\ UNCHANGED protocol)
-----------------------------------------------------------------------------
\* The state of every forward call has its type; the attempt counter of the
\* primary stays within its retries.
TypeOK ==
    /\ protocol \in {"udp", "tls"}
    /\ pc \in [Calls -> {"new", "try", "send", "receive", "returned", "threw"}]
    /\ i \in [Calls -> Adapters] /\ a \in [Calls -> 0..retries_on_primary]
    /\ our_id \in [Calls -> Ids \cup {None}] /\ port \in [Calls -> Ports \cup {None}]
    /\ sent \subseteq [server: Adapters, port: Ports, id: Ids, question: Questions]
    /\ result \in [Calls -> [question: Questions, upstream: Adapters,
                             sender: Adapters] \cup {None}]
    /\ timeouts \in [Adapters -> Nat] /\ tries \in [Calls -> [Adapters -> Nat]]

\* The answer forward returns is to the question its own client asked, and
\* comes from the adapter whose label it carries, even when ids collide and a
\* late answer to another query reaches a reused port.
AnswerIsOwn ==
    \A c \in Calls : result[c] # None =>
        result[c].question = Asked[c] /\ result[c].sender = result[c].upstream

\* Adapters are used in order: the primary gets its 1 + retries_on_primary
\* attempts and every fallback its one before the next adapter is asked, and
\* none of them ever gets more.
FallbackOrder ==
    \A c \in Calls, n \in Adapters :
        /\ tries[c][n] <= Attempts(n)
        /\ n < i[c] => tries[c][n] = Attempts(n)
        /\ n > i[c] => tries[c][n] = 0

\* A forward call ends, with an answer or an exception, whatever the servers
\* do: stay silent, or send replies that do not match.
ForwardReturns == \A c \in Calls : pc[c] = "try" ~> pc[c] \in {"returned", "threw"}

\* resolver.hpp: forward throws "if every Adapter is exhausted", since try_once
\* gives nullopt "on transport / framing / TLS failure" and "the Resolver picks
\* the next Adapter on nullopt".
ThrowsOnlyWhenExhausted ==
    \A c \in Calls : pc[c] = "threw" =>
        \A n \in Adapters : tries[c][n] = Attempts(n)
=============================================================================
