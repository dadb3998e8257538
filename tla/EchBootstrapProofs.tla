------------------------- MODULE EchBootstrapProofs -------------------------
(***************************************************************************)
(* The safety properties of EchBootstrap for any number of bootstraps,     *)
(* servers, ports, answers and skipped datagrams.                          *)
(***************************************************************************)
EXTENDS EchBootstrap, TLAPS

Busy == {"send", "receive"}
Events == {"error", "timeout", "useless", "usable"}

\* The id of a query tells whose it is, and so which name it asks for.
SentIsTold ==
    \A q \in sent : \E x \in Boots, n \in 1..Servers : q.id = <<x, n>> /\ q.host = Host[x]

\* A datagram that is there to be read is a query's reply or garbage; one that is
\* not ours is within the bound, one that is has been heard.
Waiting(b, d) ==
    /\ \/ d.kind = "garbage"
       \/ d.kind = "reply" /\ \E x \in Boots, n \in 1..Servers : d.id = <<x, n>> /\ d.host = Host[x]
    /\ Foreign(b, d) => skips[b] < MaxSkips
    /\ ~Foreign(b, d) =>
        (IF Extracted(d) = None THEN "useless" ELSE "usable") \in heard[b][i[b]]

\* A fetch has an id, an operation and perhaps a timer only while it lasts.
Fetching(b) ==
    /\ pc[b] \notin Busy => op[b] = "none" /\ timer[b] = "off"
    /\ pc[b] \in Busy => op[b] # "none" /\ our_id[b] = <<b, i[b]>>
    /\ pc[b] = "send" => skips[b] = 0
    /\ (pc[b] = "receive" /\ op[b] = "ok") => Waiting(b, got[b])
    /\ result[b] # {} => pc[b] = "done"
    /\ \A r \in result[b] : r.host = Host[b] /\ r.server = i[b]

Reason(e) == e \cap {"error", "timeout", "useless"} # {}

\* What has been heard, server by server: those before i have given a reason to
\* go on and nothing usable, those behind it have not been asked; and a usable
\* answer of server i is either at hand or returned.
Heard(b) ==
    /\ \A s \in 1..Servers :
        /\ s < i[b] => Reason(heard[b][s]) /\ "usable" \notin heard[b][s]
        /\ s > i[b] => heard[b][s] = {}
    /\ pc[b] \in {"idle", "open"} => heard[b][i[b]] = {}
    /\ "usable" \in heard[b][i[b]] =>
        \/ /\ pc[b] = "receive" /\ op[b] = "ok" /\ ~Foreign(b, got[b])
           /\ Extracted(got[b]) # None
        \/ pc[b] = "done" /\ result[b] # {}
    /\ op[b] = "failed" => "error" \in heard[b][i[b]]
    /\ (timer[b] = "queued" \/ op[b] = "aborted") => "timeout" \in heard[b][i[b]]
    /\ (pc[b] = "done" /\ result[b] = {}) => i[b] = Servers /\ Reason(heard[b][i[b]])

\* What was received and what was found need no type but that they are functions.
Typed ==
    /\ TypeOK
    /\ got = [b \in Boots |-> got[b]] /\ result = [b \in Boots |-> result[b]]

IInv == Typed /\ SentIsTold /\ \A b \in Boots : Fetching(b) /\ Heard(b)

Own(b) == <<pc[b], i[b], our_id[b], port[b], op[b], got[b], timer[b], ahead[b],
            result[b], skips[b], heard[b]>>

\* The invariant holds before the first bootstrap.
LEMMA InitEstablishes == Init => IInv
<1> SUFFICES ASSUME Init PROVE IInv
  OBVIOUS
<1>1. Typed
  BY EchBootstrapAssumption DEF Init, Typed, TypeOK
<1>2. SentIsTold
  BY DEF Init, SentIsTold
<1>3. ASSUME NEW b \in Boots PROVE Fetching(b) /\ Heard(b)
  BY EchBootstrapAssumption DEF Init, Fetching, Heard, Busy
<1> QED BY <1>1, <1>2, <1>3 DEF IInv

\* A bootstrap that does nothing keeps what is known of it.
LEMMA OthersKeep ==
    ASSUME NEW b \in Boots, Fetching(b), Heard(b), UNCHANGED Own(b)
    PROVE  Fetching(b)' /\ Heard(b)'
<1>1. Fetching(b)'
  BY DEF Fetching, Own, Busy, Waiting, Foreign
<1>2. Heard(b)'
  BY DEF Heard, Own, Reason, Foreign
<1> QED BY <1>1, <1>2

\* A step of one bootstrap keeps the invariant if it keeps what is known of it.
LEMMA StepOfOne ==
    ASSUME IInv, NEW b \in Boots, Typed', SentIsTold', Fetching(b)', Heard(b)',
           \A d \in Boots \ {b} : UNCHANGED Own(d)
    PROVE  IInv'
  BY OthersKeep DEF IInv

\* One event more is heard, of the server that is being asked.
LEMMA HearAdds ==
    ASSUME Typed, NEW b \in Boots, NEW w \in Events, Hear(b, w)
    PROVE  /\ heard' \in [Boots -> [1..Servers -> SUBSET Events]]
           /\ heard'[b][i[b]] = heard[b][i[b]] \cup {w}
           /\ \A s \in (1..Servers) \ {i[b]} : heard'[b][s] = heard[b][s]
           /\ \A d \in Boots \ {b} : heard'[d] = heard[d]
<1>1. i[b] \in 1..Servers /\ heard[b] \in [1..Servers -> SUBSET Events]
  BY DEF Typed, TypeOK, Events
<1>2. [heard[b] EXCEPT ![i[b]] = heard[b][i[b]] \cup {w}] \in [1..Servers -> SUBSET Events]
  BY <1>1
<1>3. heard' = [heard EXCEPT ![b] = [heard[b] EXCEPT ![i[b]] = heard[b][i[b]] \cup {w}]]
  BY DEF Hear
<1> QED BY <1>1, <1>2, <1>3 DEF Typed, TypeOK, Events

\* Whatever arrives can be traced to a query or is garbage.
LEMMA ArrivingIsTold ==
    ASSUME IInv, NEW b \in Boots, NEW k, NEW d \in Arriving(b, k)
    PROVE  /\ \/ d.kind = "garbage"
              \/ d.kind = "reply"
                 /\ \E x \in Boots, n \in 1..Servers : d.id = <<x, n>> /\ d.host = Host[x]
           /\ Foreign(b, d) => k < MaxSkips
<1>1. Foreign(b, d) => k < MaxSkips
  BY DEF Arriving
<1>2. d = Garbage \/ \E q \in sent, rc \in {0, 3} : \E a : d = Reply(q, rc, a)
  BY DEF Arriving
<1>3. CASE d = Garbage
  BY <1>1, <1>3 DEF Garbage
<1>4. CASE \E q \in sent, rc \in {0, 3} : \E a : d = Reply(q, rc, a)
  BY <1>1, <1>4 DEF Reply, IInv, SentIsTold
<1> QED BY <1>2, <1>3, <1>4

\* The fetch is over and the walk goes on or ends: the server it leaves has given
\* a reason and nothing usable.
LEMMA NextServerKeeps ==
    ASSUME IInv, NEW b \in Boots, pc[b] # "done", NextServer(b),
           heard' \in [Boots -> [1..Servers -> SUBSET Events]],
           Reason(heard'[b][i[b]]), "usable" \notin heard'[b][i[b]],
           \A s \in (1..Servers) \ {i[b]} : heard'[b][s] = heard[b][s],
           \A d \in Boots \ {b} : heard'[d] = heard[d]
    PROVE  IInv'
<1>1. /\ i[b] \in 1..Servers /\ result[b] = {} /\ Fetching(b) /\ Heard(b)
      /\ Typed /\ Servers \in Nat
  BY EchBootstrapAssumption DEF IInv, Typed, TypeOK, Fetching
<1>2. /\ our_id' = [our_id EXCEPT ![b] = None] /\ port' = [port EXCEPT ![b] = None]
      /\ op' = [op EXCEPT ![b] = "none"] /\ got' = [got EXCEPT ![b] = None]
      /\ timer' = [timer EXCEPT ![b] = "off"] /\ ahead' = [ahead EXCEPT ![b] = FALSE]
      /\ UNCHANGED <<sent, skips, result>>
  BY DEF NextServer, Leave
<1>3. SentIsTold'
  BY <1>2 DEF IInv, SentIsTold
<1>4. \/ /\ i[b] < Servers /\ i' = [i EXCEPT ![b] = i[b] + 1] /\ pc' = [pc EXCEPT ![b] = "open"]
      \/ /\ i[b] = Servers /\ i' = i /\ pc' = [pc EXCEPT ![b] = "done"]
  BY <1>1 DEF NextServer, MoreServers
<1>5. i' \in [Boots -> 1..Servers]
  <2>1. i[b] < Servers => i[b] + 1 \in 1..Servers
    BY <1>1
  <2>2. i \in [Boots -> 1..Servers]
    BY <1>1 DEF Typed, TypeOK
  <2> QED BY <1>4, <2>1, <2>2
<1>6. Typed'
  <2>1. /\ pc' \in [Boots -> {"idle", "open", "send", "receive", "done"}]
    BY <1>1, <1>4 DEF Typed, TypeOK
  <2>2. /\ our_id' \in [Boots -> (Boots \X (1..Servers)) \cup {None}]
        /\ port' \in [Boots -> Ports \cup {None}]
    BY <1>1, <1>2 DEF Typed, TypeOK
  <2>3. /\ op' \in [Boots -> {"none", "pending", "ok", "failed", "aborted"}]
        /\ timer' \in [Boots -> {"off", "armed", "queued"}] /\ ahead' \in [Boots -> BOOLEAN]
        /\ skips' \in [Boots -> 0..MaxSkips]
    BY <1>1, <1>2 DEF Typed, TypeOK
  <2>4. got' = [d \in Boots |-> got'[d]] /\ result' = [d \in Boots |-> result'[d]]
    BY <1>1, <1>2 DEF Typed
  <2> QED BY <1>5, <2>1, <2>2, <2>3, <2>4 DEF Typed, TypeOK, Events
<1>7. \A d \in Boots \ {b} : UNCHANGED Own(d)
  BY <1>1, <1>2, <1>4 DEF Typed, TypeOK, Own
<1>8. Fetching(b)'
  BY <1>1, <1>2, <1>4 DEF Typed, TypeOK, Fetching, Busy
<1>9. Heard(b)'
  <2>1. op'[b] = "none" /\ timer'[b] = "off" /\ result'[b] = {}
    BY <1>1, <1>2 DEF Typed, TypeOK
  <2>2. CASE i[b] < Servers /\ i'[b] = i[b] + 1 /\ pc'[b] = "open"
    <3>1. \A s \in 1..Servers : s < i'[b] => Reason(heard'[b][s]) /\ "usable" \notin heard'[b][s]
      BY <1>1, <2>2 DEF Heard
    <3>2. \A s \in 1..Servers : s >= i'[b] => heard'[b][s] = {}
      BY <1>1, <2>2 DEF Heard
    <3>3. i'[b] \in 1..Servers /\ heard'[b][i'[b]] = {}
      BY <1>1, <2>2, <3>2
    <3> QED BY <2>1, <2>2, <3>1, <3>2, <3>3 DEF Heard, Reason
  <2>3. CASE i[b] = Servers /\ i'[b] = i[b] /\ pc'[b] = "done"
    <3>1. \A s \in 1..Servers : s < i'[b] => Reason(heard'[b][s]) /\ "usable" \notin heard'[b][s]
      BY <1>1, <2>3 DEF Heard
    <3>2. \A s \in 1..Servers : ~(s > i'[b])
      BY <1>1, <2>3
    <3> QED BY <2>1, <2>3, <3>1, <3>2 DEF Heard, Reason
  <2> QED BY <1>1, <1>4, <2>2, <2>3 DEF Typed, TypeOK
<1> QED BY <1>3, <1>6, <1>7, <1>8, <1>9, StepOfOne

\* The fetch fails at once.
LEMMA OpenFailsKeeps ==
    ASSUME IInv, NEW b \in Boots, OpenFails(b)
    PROVE  IInv'
<1>1. Typed /\ pc[b] = "open" /\ heard[b][i[b]] = {} /\ Hear(b, "error") /\ "error" \in Events
  BY DEF IInv, OpenFails, Heard, Events
<1>2. /\ heard' \in [Boots -> [1..Servers -> SUBSET Events]]
      /\ heard'[b][i[b]] = {"error"}
      /\ \A s \in (1..Servers) \ {i[b]} : heard'[b][s] = heard[b][s]
      /\ \A d \in Boots \ {b} : heard'[d] = heard[d]
  BY <1>1, HearAdds
<1>3. Reason(heard'[b][i[b]]) /\ "usable" \notin heard'[b][i[b]]
  BY <1>2 DEF Reason
<1> QED BY <1>1, <1>2, <1>3, NextServerKeeps DEF OpenFails

\* The fetch fails later, by an error or by its timer; it has been heard.
LEMMA FailsKeeps ==
    ASSUME IInv, NEW b \in Boots, Fails(b)
    PROVE  IInv'
<1>1. Typed /\ Fetching(b) /\ Heard(b) /\ op[b] \in {"failed", "aborted"} /\ UNCHANGED heard
  BY DEF IInv, Fails
<1>2. pc[b] # "done"
  BY <1>1 DEF Fetching, Busy
<1>3. Reason(heard[b][i[b]]) /\ "usable" \notin heard[b][i[b]]
  BY <1>1, <1>2 DEF Heard, Reason
<1>4. heard' \in [Boots -> [1..Servers -> SUBSET Events]]
  BY <1>1 DEF Typed, TypeOK, Events
<1> QED BY <1>1, <1>2, <1>3, <1>4, NextServerKeeps DEF Fails

\* run or on_reload starts a bootstrap.
LEMMA BeginKeeps ==
    ASSUME IInv, NEW b \in Boots, Begin(b)
    PROVE  IInv'
<1>1. /\ pc[b] = "idle" /\ pc' = [pc EXCEPT ![b] = "open"]
      /\ UNCHANGED <<i, our_id, port, op, got, timer, ahead, result, sent, skips, heard>>
  BY DEF Begin, socket
<1>2. Typed' /\ SentIsTold'
  BY <1>1 DEF IInv, Typed, TypeOK, SentIsTold
<1>3. Fetching(b)' /\ Heard(b)'
  <2>1. Fetching(b)'
    BY <1>1 DEF IInv, Typed, TypeOK, Fetching, Busy
  <2>2. Heard(b)'
    BY <1>1 DEF IInv, Typed, TypeOK, Fetching, Heard, Busy, Reason
  <2> QED BY <2>1, <2>2
<1>4. \A d \in Boots \ {b} : UNCHANGED Own(d)
  BY <1>1 DEF IInv, Typed, TypeOK, Own
<1> QED BY <1>2, <1>3, <1>4, StepOfOne

\* A query leaves with the id of its bootstrap and fetch.
LEMMA SendQueryKeeps ==
    ASSUME IInv, NEW b \in Boots, NEW p, SendQuery(b, p)
    PROVE  SentIsTold'
<1>1. i[b] \in 1..Servers
  BY DEF IInv, Typed, TypeOK
<1> QED BY <1>1 DEF IInv, SentIsTold, SendQuery, FreshId

\* A socket is opened, the timer armed, the send started.
LEMMA OpenKeeps ==
    ASSUME IInv, NEW b \in Boots, Open(b)
    PROVE  IInv'
<1>1. PICK p \in Ports : port' = [port EXCEPT ![b] = p]
  BY DEF Open
<1>2. /\ pc[b] = "open" /\ pc' = [pc EXCEPT ![b] = "send"]
      /\ our_id' = [our_id EXCEPT ![b] = <<b, i[b]>>]
      /\ timer' = [timer EXCEPT ![b] = "armed"] /\ \E v \in BOOLEAN : ahead' = [ahead EXCEPT ![b] = v]
      /\ \E o \in {"pending", "ok"} : op' = [op EXCEPT ![b] = o]
      /\ got' = [got EXCEPT ![b] = None]
      /\ UNCHANGED sent \/ SendQuery(b, port'[b])
      /\ skips' = [skips EXCEPT ![b] = 0]
      /\ UNCHANGED <<i, result, heard>>
  BY DEF Open, FreshId, StartOp, Armed, Pend, Arrive
<1>3. SentIsTold'
  BY <1>2, SendQueryKeeps DEF IInv, SentIsTold
<1>4. Typed'
  <2>1. Typed /\ <<b, i[b]>> \in Boots \X (1..Servers) /\ 0 \in 0..MaxSkips
    BY EchBootstrapAssumption DEF IInv, Typed, TypeOK
  <2>2. /\ our_id' \in [Boots -> (Boots \X (1..Servers)) \cup {None}]
        /\ port' \in [Boots -> Ports \cup {None}] /\ skips' \in [Boots -> 0..MaxSkips]
    BY <1>1, <1>2, <2>1 DEF Typed, TypeOK
  <2>3. /\ op' \in [Boots -> {"none", "pending", "ok", "failed", "aborted"}]
        /\ timer' \in [Boots -> {"off", "armed", "queued"}] /\ ahead' \in [Boots -> BOOLEAN]
        /\ pc' \in [Boots -> {"idle", "open", "send", "receive", "done"}]
    BY <1>2, <2>1 DEF Typed, TypeOK
  <2>4. got' = [d \in Boots |-> got'[d]]
    BY <1>2, <2>1 DEF Typed
  <2> QED BY <1>2, <2>1, <2>2, <2>3, <2>4 DEF Typed, TypeOK
<1>5. Fetching(b)' /\ Heard(b)'
  <2>1. Fetching(b)'
    <3>1. /\ pc'[b] = "send" /\ op'[b] # "none" /\ our_id'[b] = <<b, i[b]>>
          /\ skips'[b] = 0 /\ result' = result /\ i' = i
      BY <1>2 DEF IInv, Typed, TypeOK
    <3>2. pc[b] = "open" /\ Fetching(b)
      BY <1>2 DEF IInv
    <3>3. result[b] = {}
      BY <3>2 DEF Fetching
    <3> QED BY <3>1, <3>3 DEF Fetching, Busy
  <2>2. Heard(b)'
    BY <1>2 DEF IInv, Typed, TypeOK, Fetching, Heard, Busy, Reason
  <2> QED BY <2>1, <2>2
<1>6. \A d \in Boots \ {b} : UNCHANGED Own(d)
  BY <1>1, <1>2 DEF IInv, Typed, TypeOK, Own
<1> QED BY <1>3, <1>4, <1>5, <1>6, StepOfOne

\* The send completes.
LEMMA SentKeeps ==
    ASSUME IInv, NEW b \in Boots, Sent(b)
    PROVE  IInv'
<1>1. /\ pc[b] = "send" /\ op[b] = "pending" /\ op' = [op EXCEPT ![b] = "ok"]
      /\ got' = [got EXCEPT ![b] = None] /\ SendQuery(b, port[b])
      /\ UNCHANGED <<pc, i, our_id, port, timer, ahead, result, skips, heard>>
  BY DEF Sent, Completable, Arrive
<1>2. SentIsTold'
  BY <1>1, SendQueryKeeps
<1>3. Typed'
  BY <1>1 DEF IInv, Typed, TypeOK
<1>4. Fetching(b)' /\ Heard(b)'
  <2>1. Fetching(b)'
    BY <1>1 DEF IInv, Typed, TypeOK, Fetching, Busy
  <2>2. Heard(b)'
    <3>1. Heard(b) /\ op'[b] = "ok"
      BY <1>1 DEF IInv, Typed, TypeOK
    <3>2. "usable" \notin heard[b][i[b]]
      BY <1>1, <3>1 DEF Heard
    <3> QED BY <1>1, <3>1, <3>2 DEF Heard, Reason
  <2> QED BY <2>1, <2>2
<1>5. \A d \in Boots \ {b} : UNCHANGED Own(d)
  BY <1>1 DEF IInv, Typed, TypeOK, Own
<1> QED BY <1>2, <1>3, <1>4, <1>5, StepOfOne

\* The socket reports an error.
LEMMA ErrorKeeps ==
    ASSUME IInv, NEW b \in Boots, SocketError(b)
    PROVE  IInv'
<1>1. /\ op[b] = "pending" /\ op' = [op EXCEPT ![b] = "failed"] /\ Hear(b, "error")
      /\ UNCHANGED <<pc, i, our_id, port, got, timer, ahead, result, sent, skips>>
  BY DEF SocketError, Completable
<1>2. /\ heard' \in [Boots -> [1..Servers -> SUBSET Events]]
      /\ heard'[b][i[b]] = heard[b][i[b]] \cup {"error"}
      /\ \A s \in (1..Servers) \ {i[b]} : heard'[b][s] = heard[b][s]
      /\ \A d \in Boots \ {b} : heard'[d] = heard[d]
  BY <1>1, HearAdds DEF IInv, Events
<1>3. Typed' /\ SentIsTold'
  BY <1>1, <1>2 DEF IInv, Typed, TypeOK, SentIsTold, Events
<1>4. pc[b] \in Busy
  BY <1>1 DEF IInv, Fetching
<1>5. Fetching(b)'
  BY <1>1, <1>4 DEF IInv, Typed, TypeOK, Fetching, Busy
<1>6. Heard(b)'
  <2>1. Heard(b) /\ i[b] \in 1..Servers /\ Servers \in Nat
    BY EchBootstrapAssumption DEF IInv, Typed, TypeOK
  <2>2. \A s \in 1..Servers : s < i[b] \/ s > i[b] => heard'[b][s] = heard[b][s]
    BY <1>2, <2>1
  <2>3. "usable" \notin heard'[b][i[b]] /\ "error" \in heard'[b][i[b]]
    BY <1>1, <1>2, <1>4, <2>1 DEF Heard, Busy
  <2>4. "timeout" \in heard[b][i[b]] => "timeout" \in heard'[b][i[b]]
    BY <1>2
  <2>5. op'[b] = "failed"
    BY <1>1 DEF IInv, Typed, TypeOK
  <2> QED BY <1>1, <1>4, <2>1, <2>2, <2>3, <2>4, <2>5 DEF Heard, Busy
<1>7. \A d \in Boots \ {b} : UNCHANGED Own(d)
  BY <1>1, <1>2 DEF IInv, Typed, TypeOK, Own
<1> QED BY <1>3, <1>5, <1>6, <1>7, StepOfOne

\* The timer expires, and its handler is queued.
LEMMA ExpiresKeeps ==
    ASSUME IInv, NEW b \in Boots, TimerExpires(b)
    PROVE  IInv'
<1>1. /\ timer[b] = "armed" /\ timer' = [timer EXCEPT ![b] = "queued"]
      /\ ahead' = [ahead EXCEPT ![b] = (op[b] = "pending")] /\ Hear(b, "timeout")
      /\ UNCHANGED <<pc, i, our_id, port, op, got, result, sent, skips>>
  BY DEF TimerExpires
<1>2. /\ heard' \in [Boots -> [1..Servers -> SUBSET Events]]
      /\ heard'[b][i[b]] = heard[b][i[b]] \cup {"timeout"}
      /\ \A s \in (1..Servers) \ {i[b]} : heard'[b][s] = heard[b][s]
      /\ \A d \in Boots \ {b} : heard'[d] = heard[d]
  BY <1>1, HearAdds DEF IInv, Events
<1>3. Typed' /\ SentIsTold'
  BY <1>1, <1>2 DEF IInv, Typed, TypeOK, SentIsTold, Events
<1>4. pc[b] \in Busy
  BY <1>1 DEF IInv, Fetching
<1>5. Fetching(b)'
  <2>1. Fetching(b)
    BY DEF IInv
  <2>2. Waiting(b, got[b]) => Waiting(b, got[b])'
    BY <1>1, <1>2 DEF Waiting, Foreign
  <2> QED BY <1>1, <1>4, <2>1, <2>2 DEF Fetching, Busy
<1>6. Heard(b)'
  <2>1. Heard(b) /\ i[b] \in 1..Servers /\ Servers \in Nat
    BY EchBootstrapAssumption DEF IInv, Typed, TypeOK
  <2>2. \A s \in 1..Servers : s < i[b] \/ s > i[b] => heard'[b][s] = heard[b][s]
    BY <1>2, <2>1
  <2>3. /\ "timeout" \in heard'[b][i[b]]
        /\ "error" \in heard[b][i[b]] => "error" \in heard'[b][i[b]]
        /\ "usable" \in heard'[b][i[b]] => "usable" \in heard[b][i[b]]
    BY <1>2
  <2> QED BY <1>1, <1>4, <2>1, <2>2, <2>3 DEF Heard, Busy, Reason, Foreign
<1>7. \A d \in Boots \ {b} : UNCHANGED Own(d)
  BY <1>1, <1>2 DEF IInv, Typed, TypeOK, Own
<1> QED BY <1>3, <1>5, <1>6, <1>7, StepOfOne

\* The handler cancels the socket: it aborts a pending operation, and leaves one
\* that is complete as it is.
LEMMA HandlerKeeps ==
    ASSUME IInv, NEW b \in Boots, TimerHandler(b)
    PROVE  IInv'
<1>1. /\ timer[b] = "queued" /\ timer' = [timer EXCEPT ![b] = "off"]
      /\ op' = IF op[b] = "pending" THEN [op EXCEPT ![b] = "aborted"] ELSE op
      /\ UNCHANGED <<pc, i, our_id, port, got, ahead, result, sent, skips, heard>>
  BY DEF TimerHandler
<1>2. Typed' /\ SentIsTold'
  BY <1>1 DEF IInv, Typed, TypeOK, SentIsTold
<1>3. pc[b] \in Busy /\ op[b] # "none" /\ Fetching(b) /\ Heard(b)
  BY <1>1 DEF IInv, Fetching
<1>4. op'[b] = IF op[b] = "pending" THEN "aborted" ELSE op[b]
  BY <1>1 DEF IInv, Typed, TypeOK
<1>5. Fetching(b)'
  BY <1>1, <1>3, <1>4 DEF Fetching, Busy, Waiting, Foreign
<1>6. Heard(b)'
  BY <1>1, <1>3, <1>4, SMTT(40) DEF Heard, Busy, Reason, Foreign
<1>7. \A d \in Boots \ {b} : UNCHANGED Own(d)
  BY <1>1 DEF IInv, Typed, TypeOK, Own
<1> QED BY <1>2, <1>5, <1>6, <1>7, StepOfOne

\* A datagram is there to be read: what it is good for is heard.
LEMMA DatagramIsHeard ==
    ASSUME IInv, NEW b \in Boots, NEW d, HearDatagram(b, d)
    PROVE  /\ heard' \in [Boots -> [1..Servers -> SUBSET Events]]
           /\ heard[b][i[b]] \subseteq heard'[b][i[b]]
           /\ ~Foreign(b, d) =>
                (IF Extracted(d) = None THEN "useless" ELSE "usable") \in heard'[b][i[b]]
           /\ ("usable" \in heard'[b][i[b]] /\ "usable" \notin heard[b][i[b]])
                => ~Foreign(b, d) /\ Extracted(d) # None
           /\ \A s \in (1..Servers) \ {i[b]} : heard'[b][s] = heard[b][s]
           /\ \A e \in Boots \ {b} : heard'[e] = heard[e]
<1>1. CASE Foreign(b, d)
  BY <1>1 DEF HearDatagram, IInv, Typed, TypeOK, Events
<1>2. CASE ~Foreign(b, d)
  <2>1. PICK w \in Events : w = (IF Extracted(d) = None THEN "useless" ELSE "usable")
    BY DEF Events
  <2>2. Hear(b, w)
    BY <1>2, <2>1 DEF HearDatagram
  <2>3. /\ heard' \in [Boots -> [1..Servers -> SUBSET Events]]
        /\ heard'[b][i[b]] = heard[b][i[b]] \cup {w}
        /\ \A s \in (1..Servers) \ {i[b]} : heard'[b][s] = heard[b][s]
        /\ \A e \in Boots \ {b} : heard'[e] = heard[e]
    BY <2>2, HearAdds DEF IInv
  <2> QED BY <1>2, <2>1, <2>3
<1> QED BY <1>1, <1>2

\* A receive waits, or has a datagram: nothing usable has been heard before.
LEMMA ListenKeeps ==
    ASSUME IInv, NEW b \in Boots, pc[b] \in Busy, "usable" \notin heard[b][i[b]],
           pc' = [pc EXCEPT ![b] = "receive"], timer' = [timer EXCEPT ![b] = timer[b]],
           NEW v \in BOOLEAN, ahead' = [ahead EXCEPT ![b] = v],
           NEW k \in 0..MaxSkips, skips' = [skips EXCEPT ![b] = k],
           UNCHANGED <<i, our_id, port, result, sent>>,
           \/ Pend(b) /\ UNCHANGED heard
           \/ \E d \in Arriving(b, k) : Arrive(b, d) /\ HearDatagram(b, d)
    PROVE  IInv'
<1>1. /\ Typed /\ Fetching(b) /\ Heard(b) /\ i[b] \in 1..Servers /\ Servers \in Nat
      /\ result[b] = {} /\ timer' = timer
  BY EchBootstrapAssumption DEF IInv, Typed, TypeOK, Fetching, Busy
<1>2. /\ \E o \in {"pending", "ok"} : op' = [op EXCEPT ![b] = o]
      /\ \E d : got' = [got EXCEPT ![b] = d]
  BY DEF Pend, Arrive
<1>3. /\ heard' \in [Boots -> [1..Servers -> SUBSET Events]]
      /\ heard[b][i[b]] \subseteq heard'[b][i[b]]
      /\ \A s \in (1..Servers) \ {i[b]} : heard'[b][s] = heard[b][s]
      /\ \A e \in Boots \ {b} : heard'[e] = heard[e]
  <2>1. CASE UNCHANGED heard
    BY <1>1, <2>1 DEF Typed, TypeOK, Events
  <2>2. CASE \E d : HearDatagram(b, d)
    BY <2>2, DatagramIsHeard
  <2> QED BY <2>1, <2>2
<1>4. Typed' /\ SentIsTold'
  <2>1. /\ op' \in [Boots -> {"none", "pending", "ok", "failed", "aborted"}]
        /\ skips' \in [Boots -> 0..MaxSkips] /\ ahead' \in [Boots -> BOOLEAN]
        /\ pc' \in [Boots -> {"idle", "open", "send", "receive", "done"}]
    BY <1>1, <1>2 DEF Typed, TypeOK
  <2>2. got' = [e \in Boots |-> got'[e]]
    BY <1>1, <1>2 DEF Typed
  <2>3. SentIsTold'
    BY DEF IInv, SentIsTold
  <2> QED BY <1>1, <1>3, <2>1, <2>2, <2>3 DEF Typed, TypeOK, Events
<1>5. \A e \in Boots \ {b} : UNCHANGED Own(e)
  BY <1>1, <1>2, <1>3 DEF Typed, TypeOK, Own
<1>6. pc'[b] = "receive" /\ op'[b] \in {"pending", "ok"} /\ skips'[b] = k
  BY <1>1, <1>2 DEF Typed, TypeOK
<1>7. op'[b] = "ok" =>
        /\ Waiting(b, got[b])'
        /\ "usable" \in heard'[b][i[b]] => ~Foreign(b, got[b])' /\ Extracted(got'[b]) # None
  <2> SUFFICES ASSUME op'[b] = "ok"
               PROVE  /\ Waiting(b, got[b])'
                      /\ "usable" \in heard'[b][i[b]] =>
                            ~Foreign(b, got[b])' /\ Extracted(got'[b]) # None
    OBVIOUS
  <2>1. ~Pend(b)
    BY <1>1 DEF Pend, Typed, TypeOK
  <2>2. PICK d \in Arriving(b, k) : Arrive(b, d) /\ HearDatagram(b, d)
    BY <2>1
  <2>3. got'[b] = d
    BY <1>1, <2>2 DEF Arrive, Typed
  <2>4. Foreign(b, got[b])' <=> Foreign(b, d)
    BY <2>3 DEF Foreign
  <2>5. /\ \/ d.kind = "garbage"
           \/ d.kind = "reply"
              /\ \E x \in Boots, n \in 1..Servers : d.id = <<x, n>> /\ d.host = Host[x]
        /\ Foreign(b, d) => k < MaxSkips
    BY <2>2, ArrivingIsTold
  <2>6. /\ ~Foreign(b, d) =>
              (IF Extracted(d) = None THEN "useless" ELSE "usable") \in heard'[b][i[b]]
        /\ "usable" \in heard'[b][i[b]] => ~Foreign(b, d) /\ Extracted(d) # None
    BY <2>2, DatagramIsHeard
  <2>7. Waiting(b, got[b])'
    BY <1>6, <2>3, <2>4, <2>5, <2>6 DEF Waiting
  <2> QED BY <2>3, <2>4, <2>6, <2>7
<1>8. Fetching(b)'
  BY <1>1, <1>6, <1>7 DEF Fetching, Busy
<1>9. Heard(b)'
  <2>1. \A s \in 1..Servers : s < i[b] \/ s > i[b] => heard'[b][s] = heard[b][s]
    BY <1>1, <1>3
  <2>2. op'[b] = "pending" => "usable" \notin heard'[b][i[b]]
    BY <1>1 DEF Pend, Arrive, Typed, TypeOK
  <2>3. timer'[b] = "queued" => "timeout" \in heard'[b][i[b]]
    BY <1>1, <1>3 DEF Heard
  <2> QED BY <1>1, <1>6, <1>7, <2>1, <2>2, <2>3 DEF Heard, Reason
<1> QED BY <1>4, <1>5, <1>8, <1>9, StepOfOne

\* The receive starts; it waits, completes at once, or completes later.
LEMMA ReceiveKeeps ==
    ASSUME IInv, NEW b \in Boots,
           AfterSend(b) \/ \E d \in Arriving(b, skips[b]) : Receive(b, d)
    PROVE  IInv'
<1>1. Typed /\ Fetching(b) /\ Heard(b)
  BY DEF IInv
<1>2. CASE AfterSend(b)
  <2>1. pc[b] = "send" /\ skips[b] = 0 /\ "usable" \notin heard[b][i[b]]
    BY <1>1, <1>2 DEF AfterSend, Fetching, Heard
  <2>2. /\ 0 \in 0..MaxSkips /\ skips' = [skips EXCEPT ![b] = 0]
        /\ UNCHANGED <<i, our_id, port, result, sent>>
    BY <1>1, <1>2, <2>1, EchBootstrapAssumption DEF AfterSend, Typed, TypeOK
  <2>3. /\ pc' = [pc EXCEPT ![b] = "receive"] /\ timer' = [timer EXCEPT ![b] = timer[b]]
        /\ \E v \in BOOLEAN : ahead' = [ahead EXCEPT ![b] = v]
        /\ \/ Pend(b) /\ UNCHANGED heard
           \/ \E d \in Arriving(b, 0) : Arrive(b, d) /\ HearDatagram(b, d)
    BY <1>2 DEF AfterSend, StartReceive, StartOp
  <2> QED BY <2>1, <2>2, <2>3, ListenKeeps DEF Busy
<1>3. CASE \E d \in Arriving(b, skips[b]) : Receive(b, d)
  <2>1. pc[b] = "receive" /\ op[b] = "pending" /\ UNCHANGED <<i, our_id, port, result, sent>>
    BY <1>3 DEF Receive, Completable
  <2>2. "usable" \notin heard[b][i[b]]
    BY <1>1, <2>1 DEF Heard
  <2>3. /\ pc' = [pc EXCEPT ![b] = "receive"] /\ timer' = [timer EXCEPT ![b] = timer[b]]
        /\ ahead[b] \in BOOLEAN /\ ahead' = [ahead EXCEPT ![b] = ahead[b]]
        /\ skips[b] \in 0..MaxSkips /\ skips' = [skips EXCEPT ![b] = skips[b]]
    BY <1>1, <1>3, <2>1 DEF Receive, Typed, TypeOK
  <2>4. \E d \in Arriving(b, skips[b]) : Arrive(b, d) /\ HearDatagram(b, d)
    BY <1>3 DEF Receive
  <2> QED BY <2>1, <2>2, <2>3, <2>4, ListenKeeps DEF Busy
<1> QED BY <1>2, <1>3

\* The loop's body: a datagram that is not ours is skipped; ours is left with
\* nothing and the walk goes on, or its bytes are returned.
LEMMA AfterReceiveKeeps ==
    ASSUME IInv, NEW b \in Boots, AfterReceive(b)
    PROVE  IInv'
<1>1. /\ Typed /\ Fetching(b) /\ Heard(b) /\ pc[b] = "receive" /\ op[b] = "ok"
      /\ Waiting(b, got[b]) /\ our_id[b] = <<b, i[b]>>
  BY DEF IInv, AfterReceive, Fetching, Busy
<1>2. IsOurs(b, got[b]) <=> ~Foreign(b, got[b])
  BY <1>1 DEF IsOurs, Foreign, Waiting
<1>3. CASE ~IsOurs(b, got[b])
  <2>1. Skip(b)
    BY <1>3 DEF AfterReceive
  <2>2. "usable" \notin heard[b][i[b]]
    BY <1>1, <1>2, <1>3 DEF Heard
  <2>3. skips[b] + 1 \in 0..MaxSkips
    <3>1. skips[b] < MaxSkips /\ skips[b] \in 0..MaxSkips
      BY <1>1, <1>2, <1>3 DEF Waiting, Typed, TypeOK
    <3> QED BY <3>1, EchBootstrapAssumption
  <2>4. /\ skips' = [skips EXCEPT ![b] = skips[b] + 1]
        /\ UNCHANGED <<i, our_id, port, result, sent>>
        /\ pc' = [pc EXCEPT ![b] = "receive"] /\ timer' = [timer EXCEPT ![b] = timer[b]]
        /\ \E v \in BOOLEAN : ahead' = [ahead EXCEPT ![b] = v]
        /\ \/ Pend(b) /\ UNCHANGED heard
           \/ \E d \in Arriving(b, skips[b] + 1) : Arrive(b, d) /\ HearDatagram(b, d)
    BY <2>1 DEF Skip, StartReceive, StartOp
  <2> QED BY <1>1, <2>2, <2>3, <2>4, ListenKeeps DEF Busy
<1>4. CASE IsOurs(b, got[b]) /\ Extracted(got[b]) = None
  <2>1. NextServer(b) /\ UNCHANGED heard
    BY <1>4 DEF AfterReceive
  <2>2. Reason(heard[b][i[b]]) /\ "usable" \notin heard[b][i[b]]
    BY <1>1, <1>2, <1>4 DEF Waiting, Heard, Reason
  <2>3. heard' \in [Boots -> [1..Servers -> SUBSET Events]]
    BY <1>1, <2>1 DEF Typed, TypeOK, Events
  <2> QED BY <1>1, <2>1, <2>2, <2>3, NextServerKeeps
<1>5. CASE IsOurs(b, got[b]) /\ Extracted(got[b]) # None
  <2>1. Found(b, Extracted(got[b]))
    BY <1>5 DEF AfterReceive
  <2>2. /\ pc' = [pc EXCEPT ![b] = "done"] /\ UNCHANGED <<i, heard, sent, skips>>
        /\ our_id' = [our_id EXCEPT ![b] = None] /\ port' = [port EXCEPT ![b] = None]
        /\ op' = [op EXCEPT ![b] = "none"] /\ got' = [got EXCEPT ![b] = None]
        /\ timer' = [timer EXCEPT ![b] = "off"] /\ ahead' = [ahead EXCEPT ![b] = FALSE]
        /\ result' = [result EXCEPT ![b] =
              {[bytes |-> Extracted(got[b]), host |-> got[b].host, server |-> i[b]]}]
    BY <2>1 DEF Found, Leave
  <2>3. got[b].host = Host[b]
    <3>1. got[b].kind = "reply" /\ got[b].id = <<b, i[b]>>
      BY <1>1, <1>5 DEF IsOurs
    <3>2. PICK x \in Boots, n \in 1..Servers : got[b].id = <<x, n>> /\ got[b].host = Host[x]
      BY <1>1, <3>1 DEF Waiting
    <3>3. x = b
      BY <3>1, <3>2
    <3> QED BY <3>2, <3>3
  <2>4. Typed' /\ SentIsTold'
    <3>1. /\ our_id' \in [Boots -> (Boots \X (1..Servers)) \cup {None}]
          /\ port' \in [Boots -> Ports \cup {None}]
      BY <1>1, <2>2 DEF Typed, TypeOK
    <3>2. /\ op' \in [Boots -> {"none", "pending", "ok", "failed", "aborted"}]
          /\ timer' \in [Boots -> {"off", "armed", "queued"}] /\ ahead' \in [Boots -> BOOLEAN]
          /\ pc' \in [Boots -> {"idle", "open", "send", "receive", "done"}]
      BY <1>1, <2>2 DEF Typed, TypeOK
    <3>3. got' = [e \in Boots |-> got'[e]] /\ result' = [e \in Boots |-> result'[e]]
      BY <1>1, <2>2 DEF Typed
    <3>4. SentIsTold'
      BY <2>2 DEF IInv, SentIsTold
    <3> QED BY <1>1, <2>2, <3>1, <3>2, <3>3, <3>4 DEF Typed, TypeOK
  <2>5. /\ pc'[b] = "done" /\ op'[b] = "none" /\ timer'[b] = "off"
        /\ result'[b] = {[bytes |-> Extracted(got[b]), host |-> Host[b], server |-> i[b]]}
    BY <1>1, <2>2, <2>3 DEF Typed, TypeOK
  <2>6. Fetching(b)'
    BY <2>2, <2>5, SMTT(40) DEF Fetching, Busy
  <2>7. Heard(b)'
    BY <1>1, <2>2, <2>5 DEF Heard, Reason
  <2>8. \A e \in Boots \ {b} : UNCHANGED Own(e)
    BY <1>1, <2>2 DEF Typed, TypeOK, Own
  <2> QED BY <2>4, <2>6, <2>7, <2>8, StepOfOne
<1> QED BY <1>3, <1>4, <1>5

\* The invariant holds in every reachable state.
LEMMA Invariance == Spec => []IInv
<1>1. IInv /\ UNCHANGED vars => IInv'
  <2> SUFFICES ASSUME IInv, UNCHANGED vars PROVE IInv'
    OBVIOUS
  <2>1. Typed' /\ SentIsTold'
    BY DEF IInv, Typed, TypeOK, SentIsTold, vars, socket
  <2>2. \A b \in Boots : UNCHANGED Own(b)
    BY DEF Own, vars, socket
  <2> QED BY <2>1, <2>2, OthersKeep DEF IInv
<1>2. IInv /\ [Next]_vars => IInv'
  BY <1>1, BeginKeeps, OpenKeeps, OpenFailsKeeps, HandlerKeeps, ReceiveKeeps, FailsKeeps,
     AfterReceiveKeeps, SentKeeps, ErrorKeeps, ExpiresKeeps
  DEF Next, HandlerStep, NetworkStep
<1> QED BY <1>2, InitEstablishes, PTL DEF Spec

-----------------------------------------------------------------------------
\* Every variable keeps its type; no fetch skips more than the network sends.
THEOREM TypeCorrect == Spec => []TypeOK
<1>1. IInv => TypeOK
  BY DEF IInv, Typed
<1> QED BY <1>1, Invariance, PTL

\* What a bootstrap returns was sent for the name it asked for by the server it
\* was asking, however replies are delayed and ports reused.
THEOREM FetchesAreOwn == Spec => []FetchedIsOwn
<1>1. IInv => FetchedIsOwn
  BY DEF IInv, Fetching, FetchedIsOwn
<1> QED BY <1>1, Invariance, PTL

\* No server is given up without an error, a timeout or a useless answer of its
\* own, nor once its usable answer has arrived, however many datagrams that are
\* not ours come in between.
THEOREM GivesUpRightly == Spec => []GivesUpForAReason
<1>1. IInv => GivesUpForAReason
  <2> SUFFICES ASSUME IInv, NEW b \in Boots, NEW s \in 1..Servers
               PROVE  /\ (s < i[b] \/ (pc[b] = "done" /\ result[b] = {})) =>
                            Reason(heard[b][s]) /\ "usable" \notin heard[b][s]
                      /\ s > i[b] => heard[b][s] = {}
    BY DEF GivesUpForAReason, Reason
  <2>1. Heard(b) /\ i[b] \in 1..Servers /\ Servers \in Nat
    BY EchBootstrapAssumption DEF IInv, Typed, TypeOK
  <2>2. CASE s # i[b] \/ ~(pc[b] = "done" /\ result[b] = {})
    BY <2>1, <2>2 DEF Heard
  <2>3. CASE s = i[b] /\ pc[b] = "done" /\ result[b] = {}
    BY <2>1, <2>3 DEF Heard
  <2> QED BY <2>2, <2>3
<1> QED BY <1>1, Invariance, PTL
=============================================================================
