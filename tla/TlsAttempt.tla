----------------------------- MODULE TlsAttempt -----------------------------
(***************************************************************************)
(* try_once of a TLS adapter (DoT, and DoH through post_https_oneshot):    *)
(* connect, handshake with at most one ECH retry, write, read, read, all   *)
(* under one timer; and the ECH configuration that concurrent attempts,    *)
(* their retries and reloads share.                                        *)
(*                                                                         *)
(* One thread runs queued handlers in order.  What is kept of that order   *)
(* is which of an attempt's two handlers, its timer's and its operation's, *)
(* is ahead.  Cancelling a socket reaches only an operation that is still  *)
(* pending.  An operation may get its first part done in the call that     *)
(* starts it; that part's completion is then queued like any other.        *)
(***************************************************************************)
EXTENDS Naturals, Sequences

CONSTANTS Tries,             \* attempts of one adapter
          Outers,            \* outer server names
          Immediate,         \* attempts whose operations may get a first part done at once
          MaxVersion,        \* bound: ECH keys of the server are 0..MaxVersion
          MaxSwaps,          \* bound on swap_ech_config calls
          None

ASSUME TlsAttemptAssumption ==
    Immediate \subseteq Tries /\ MaxVersion \in Nat /\ MaxSwaps \in Nat

VARIABLES
    pc,        \* the operation attempt t awaits, or "idle", "done"
    op,        \* "none", "pending", "partial", "ok", "failed", "refused", "aborted"
    timer,     \* "off", "armed", or "queued" (its handler is to run)
    ahead,     \* the queued timer handler runs before the operation's
    old,       \* a handler of the first connection's timer is still queued
    attempt,   \* loop counter: 0, or 1 after an ECH retry
    used,      \* the ECH snapshot the connection was configured with
    given,     \* the retry_configs of the first connection
    reply,     \* whether try_once returned a reply
    ech,       \* the adapter's EchConfig: [bytes, outer]
    swapped,   \* history: what swap_ech_config stored last
    swaps,
    server     \* the version of the server's ECH key

tryVars == <<pc, op, timer, ahead, old, attempt, used, given, reply>>
vars == <<tryVars, ech, swapped, swaps, server>>

Snapshot == [bytes: (0..MaxVersion) \cup {None}, outer: Outers]
NoReply == "nullopt"

After == [connect |-> "handshake", handshake |-> "write", write |-> "read_head",
          read_head |-> "read_body"]

\* Seeded fault: a second retry is allowed.
MayRetryAgain(t) == attempt[t] < 2

MayRetry(t) == attempt[t] = 0

-----------------------------------------------------------------------------
\* Start operation o; tm is what the timer is by then.
StartOp(t, o, tm) ==
    /\ pc' = [pc EXCEPT ![t] = o]
    /\ timer' = [timer EXCEPT ![t] = tm]
    /\ \E s \in {"pending"} \cup (IF t \in Immediate THEN {"partial"} ELSE {}) :
        op' = [op EXCEPT ![t] = s]
    /\ ahead' = [ahead EXCEPT ![t] = (tm = "queued")]

\* Seeded fault: the snapshot is taken once, before the loop.
LoadedOnce(t, holder) == IF used[t] = None THEN holder ELSE used[t]

\* configure_ssl_for_connection: cfg.ech.load()
Loaded(t, holder) == holder

\* One turn of the loop: a new stream, a new wait on the timer, configure and
\* connect.
Turn(t, holder, tm) ==
    /\ used' = [used EXCEPT ![t] = Loaded(t, holder)]
    /\ StartOp(t, "connect", tm)

\* try_once returns: its timer and its other locals are gone.
Return(t, r) ==
    /\ reply' = [reply EXCEPT ![t] = r]
    /\ pc' = [pc EXCEPT ![t] = "done"] /\ op' = [op EXCEPT ![t] = "none"]
    /\ timer' = [timer EXCEPT ![t] = "off"] /\ ahead' = [ahead EXCEPT ![t] = FALSE]
    /\ old' = [old EXCEPT ![t] = FALSE] /\ attempt' = [attempt EXCEPT ![t] = 0]
    /\ used' = [used EXCEPT ![t] = None] /\ given' = [given EXCEPT ![t] = None]

Begin(t) ==
    /\ pc[t] = "idle"
    /\ Turn(t, ech, "armed")
    /\ UNCHANGED <<old, attempt, given, reply, ech, swapped, swaps, server>>

\* configure_ssl_for_connection fails.
BeginFails(t) ==
    /\ pc[t] = "idle"
    /\ Return(t, NoReply)
    /\ UNCHANGED <<ech, swapped, swaps, server>>

-----------------------------------------------------------------------------
\* The network: the handler of a timer that has expired runs before the
\* sockets are looked at again.
Complete(t, outcome) ==
    /\ op[t] = "pending" /\ timer[t] # "queued"
    /\ op' = [op EXCEPT ![t] = outcome]
    /\ UNCHANGED <<pc, timer, ahead, old, attempt, used, given, reply, ech, swapped,
                   swaps, server>>

Refusable(t) == pc[t] = "handshake" /\ used[t].bytes \notin {None, server}

NetworkStep(t) ==
    \/ ~Refusable(t) /\ Complete(t, "ok")
    \/ Complete(t, "failed")
    \* The server rejects ECH and sends retry_configs.
    \/ /\ Refusable(t) /\ op[t] = "pending" /\ timer[t] # "queued"
       /\ op' = [op EXCEPT ![t] = "refused"]
       /\ given' = IF MayRetry(t) THEN [given EXCEPT ![t] = server] ELSE given
       /\ UNCHANGED <<pc, timer, ahead, old, attempt, used, reply, ech, swapped, swaps, server>>

TimerExpires(t) ==
    /\ timer[t] = "armed"
    /\ timer' = [timer EXCEPT ![t] = "queued"]
    /\ ahead' = [ahead EXCEPT ![t] = (op[t] = "pending")]
    /\ UNCHANGED <<pc, op, old, attempt, used, given, reply, ech, swapped, swaps, server>>

\* stream->lowest_layer().cancel()
Cancelled(t) == IF op[t] = "pending" THEN [op EXCEPT ![t] = "aborted"] ELSE op

TimerHandler(t) ==
    /\ timer[t] = "queued" /\ (op[t] = "pending" \/ ahead[t])
    /\ timer' = [timer EXCEPT ![t] = "off"]
    /\ op' = Cancelled(t)
    /\ UNCHANGED <<pc, ahead, old, attempt, used, given, reply, ech, swapped, swaps, server>>

\* Seeded fault: the handler refers to the stream variable, not to its stream.
OldCancelsNew(t) == Cancelled(t)

\* The old handler holds the old stream, which has no operation left.
OldCancels(t) == op

OldTimerHandler(t) ==
    /\ old[t]
    /\ old' = [old EXCEPT ![t] = FALSE]
    /\ op' = OldCancels(t)
    /\ UNCHANGED <<pc, timer, ahead, attempt, used, given, reply, ech, swapped, swaps, server>>

-----------------------------------------------------------------------------
Resumable(t) == op[t] # "none" /\ op[t] # "pending" /\ ~(timer[t] = "queued" /\ ahead[t])

\* The first part is done: the operation goes on.
Continue(t) ==
    /\ op[t] = "partial" /\ Resumable(t)
    /\ op' = [op EXCEPT ![t] = "pending"]
    /\ UNCHANGED <<pc, timer, ahead, old, attempt, used, given, reply, ech, swapped, swaps, server>>

Proceed(t) ==
    /\ op[t] = "ok" /\ Resumable(t) /\ pc[t] # "read_body"
    /\ StartOp(t, After[pc[t]], timer[t])
    /\ UNCHANGED <<old, attempt, used, given, reply, ech, swapped, swaps, server>>

Succeed(t) ==
    /\ op[t] = "ok" /\ Resumable(t) /\ pc[t] = "read_body"
    /\ Return(t, "reply")
    /\ UNCHANGED <<ech, swapped, swaps, server>>

\* Seeded fault: the whole snapshot is written back, as it was loaded.
RetrySnapshotStale(t) == [used[t] EXCEPT !.bytes = given[t]]

\* EchConfig::update: only the bytes are replaced.
RetrySnapshot(t) == [ech EXCEPT !.bytes = given[t]]

\* Seeded fault: the second connection has no timer.
RearmedNot == "off"

\* timer.expires_after and async_wait.
Rearmed == "armed"

\* maybe_apply_ech_retry, then the loop's second turn.  A handler of the first
\* timer that is queued already can no longer be cancelled.
EchRetry(t) ==
    /\ op[t] = "refused" /\ Resumable(t) /\ MayRetry(t)
    /\ ech' = RetrySnapshot(t)
    /\ attempt' = [attempt EXCEPT ![t] = @ + 1]
    /\ old' = [old EXCEPT ![t] = (timer[t] = "queued")]
    /\ Turn(t, ech', Rearmed)
    /\ UNCHANGED <<given, reply, swapped, swaps, server>>

\* The same, but OpenSSL does not take the new list.
EchRetryFails(t) ==
    /\ op[t] = "refused" /\ Resumable(t) /\ MayRetry(t)
    /\ ech' = RetrySnapshot(t)
    /\ Return(t, NoReply)
    /\ UNCHANGED <<swapped, swaps, server>>

\* Any other exception: nullopt.
Fail(t) ==
    /\ op[t] \in {"failed", "aborted", "refused"} /\ Resumable(t)
    /\ op[t] = "refused" => ~MayRetry(t)
    /\ Return(t, NoReply)
    /\ UNCHANGED <<ech, swapped, swaps, server>>

-----------------------------------------------------------------------------
\* Control::swap_ech_config; no bytes means ECH is off.
SwapEch(s) ==
    /\ swaps < MaxSwaps
    /\ ech' = s /\ swapped' = s /\ swaps' = swaps + 1
    /\ UNCHANGED <<tryVars, server>>

RotateKey ==
    /\ server < MaxVersion /\ server' = server + 1
    /\ UNCHANGED <<tryVars, ech, swapped, swaps>>

Init ==
    /\ pc = [t \in Tries |-> "idle"] /\ op = [t \in Tries |-> "none"]
    /\ timer = [t \in Tries |-> "off"] /\ ahead = [t \in Tries |-> FALSE]
    /\ old = [t \in Tries |-> FALSE] /\ attempt = [t \in Tries |-> 0]
    /\ used = [t \in Tries |-> None] /\ given = [t \in Tries |-> None]
    /\ reply = [t \in Tries |-> None]
    /\ ech \in Snapshot /\ ech.bytes \in {None, 0}
    /\ swapped = ech /\ swaps = 0 /\ server = 0

HandlerStep(t) ==
    \/ TimerHandler(t) \/ OldTimerHandler(t) \/ Continue(t) \/ Proceed(t) \/ Succeed(t)
    \/ EchRetry(t) \/ EchRetryFails(t) \/ Fail(t)

Next ==
    \/ \E t \in Tries : Begin(t) \/ BeginFails(t) \/ NetworkStep(t)
    \/ \E t \in Tries : TimerExpires(t) \/ HandlerStep(t)
    \/ \E s \in Snapshot : SwapEch(s)
    \/ RotateKey

Spec == Init /\ [][Next]_vars

\* Time passes and queued handlers run; the network owes nothing.
FairSpec ==
    Spec /\ \A t \in Tries : WF_vars(TimerExpires(t)) /\ WF_vars(HandlerStep(t))
-----------------------------------------------------------------------------
\* The state of every attempt has its type; no attempt connects a third time.
TypeOK ==
    /\ pc \in [Tries -> {"idle", "connect", "handshake", "write", "read_head",
                         "read_body", "done"}]
    /\ op \in [Tries -> {"none", "pending", "partial", "ok", "failed", "refused", "aborted"}]
    /\ timer \in [Tries -> {"off", "armed", "queued"}]
    /\ ahead \in [Tries -> BOOLEAN] /\ old \in [Tries -> BOOLEAN]
    /\ attempt \in [Tries -> {0, 1}]
    /\ used \in [Tries -> Snapshot \cup {None}]
    /\ given \in [Tries -> (0..MaxVersion) \cup {None}]
    /\ reply \in [Tries -> {None, NoReply, "reply"}]
    /\ ech \in Snapshot /\ swapped \in Snapshot
    /\ swaps \in 0..MaxSwaps /\ server \in 0..MaxVersion

\* The outer name in force is always the one the last reload stored: an ECH
\* retry that began under the previous configuration does not bring the old
\* name back, and two retries do not undo each other.
OuterIsOfLastSwap == ech.outer = swapped.outer

\* The second handshake uses the retry_configs this attempt was given, not the
\* configuration that was just refused.
SecondTryUsesRetryConfig ==
    \A t \in Tries : (attempt[t] = 1 /\ pc[t] \notin {"idle", "done"})
        => used[t].bytes = given[t]

\* An operation is aborted only by its own connection's timer: the handler left
\* over from the first connection does not cut the second one short.
AbortIsOwnTimeout ==
    [][\A t \in Tries :
         (op[t] # "aborted" /\ op'[t] = "aborted") => timer[t] = "queued"]_vars

\* An attempt that waits for the network is under a timer that has not had its
\* say, through connect, handshake, ECH retry, write and reads: a server that
\* falls silent anywhere cannot keep it.  (That is so where no operation gets a
\* first part done at once; for the others see AttemptEnds.)
NeverUnwatched == \A t \in Tries \ Immediate : op[t] = "pending" => timer[t] # "off"

\* resolver.hpp: try_once awaits a "reply or `nullopt` on transport / framing / TLS
\* failure"; features/09: "Arm a timeout that cancels the socket when fired".  Every
\* attempt ends even if the server never says another word.
AttemptEnds == \A t \in Tries : pc[t] = "connect" ~> pc[t] = "done"

\* resolver.hpp: an empty list handed to swap_ech_config "disables ECH on every
\* Adapter that has TLS", and swap_ech_config "is the only writer": it stays off
\* until the next swap.
DisableSticks == swapped.bytes = None => ech.bytes = None
=============================================================================
