-------------------------- MODULE TransportProofs --------------------------
(***************************************************************************)
(* What passes between the forwarder and an upstream over TLS.  First the  *)
(* attempts of an adapter (TlsAttempt), for any number of attempts, outer  *)
(* names, key rotations and swaps.  Then the bytes: the framing of DoT, the*)
(* head and the body of a DoH reply (Framing), and the padding of a query  *)
(* (EdnsPadding), for every message and every split of the stream.  Last   *)
(* the TTLs of a response: how long the cache may keep it, and where it    *)
(* rewrites them (CacheTtl).                                               *)
(***************************************************************************)
EXTENDS MCAlgorithms, TlsAttempt, WellFoundedInduction, TLAPS

\* While an attempt is under way the connection in use was configured with
\* what its first connection was given, if it is the second.
Configured ==
    \A t \in Tries :
        /\ pc[t] = "idle" => attempt[t] = 0
        /\ pc[t] \in {"idle", "done"} => op[t] = "none"
        /\ (attempt[t] = 1 /\ pc[t] # "done") => used[t].bytes = given[t]

\* Where every operation begins by waiting, a timer handler that is ahead has
\* an operation to cancel, so the timer is off only after an abort.
Watched ==
    \A t \in Tries \ Immediate :
        /\ op[t] # "partial"
        /\ (timer[t] = "queued" /\ ahead[t]) => op[t] = "pending"
        /\ op[t] \notin {"none", "aborted"} => timer[t] # "off"

IInv == TypeOK /\ OuterIsOfLastSwap /\ Configured /\ Watched

\* The invariant holds before the first attempt.
LEMMA InitEstablishes == Init => IInv
  BY TlsAttemptAssumption DEF Init, IInv, TypeOK, OuterIsOfLastSwap, Configured, Watched, Snapshot

\* No step of an attempt, of a swap or of the server takes a variable out of its
\* type; the loop counter is incremented only by a retry that finds it 0.
LEMMA StepType == IInv /\ [Next]_vars => TypeOK'
<1> SUFFICES ASSUME IInv, [Next]_vars PROVE TypeOK'
  OBVIOUS
<1> USE TlsAttemptAssumption DEF IInv, TypeOK, Snapshot
<1>1. ASSUME NEW t \in Tries, Begin(t) PROVE TypeOK'
  BY <1>1 DEF Begin, Turn, Loaded, StartOp
<1>2. ASSUME NEW t \in Tries, BeginFails(t) PROVE TypeOK'
  BY <1>2 DEF BeginFails, Return, NoReply
<1>3. ASSUME NEW t \in Tries, NetworkStep(t) PROVE TypeOK'
  BY <1>3 DEF NetworkStep, Complete, MayRetry
<1>4. ASSUME NEW t \in Tries, TimerExpires(t) PROVE TypeOK'
  BY <1>4 DEF TimerExpires
<1>5. ASSUME NEW t \in Tries, TimerHandler(t) PROVE TypeOK'
  BY <1>5 DEF TimerHandler, Cancelled
<1>6. ASSUME NEW t \in Tries, OldTimerHandler(t) PROVE TypeOK'
  BY <1>6 DEF OldTimerHandler, OldCancels
<1>7. ASSUME NEW t \in Tries, Continue(t) PROVE TypeOK'
  BY <1>7 DEF Continue
<1>8. ASSUME NEW t \in Tries, Proceed(t) PROVE TypeOK'
  BY <1>8 DEF Proceed, StartOp, After, Resumable, Configured
<1>9. ASSUME NEW t \in Tries, Succeed(t) PROVE TypeOK'
  BY <1>9 DEF Succeed, Return
<1>10. ASSUME NEW t \in Tries, EchRetry(t) PROVE TypeOK'
  BY <1>10 DEF EchRetry, RetrySnapshot, Turn, Loaded, StartOp, Rearmed, MayRetry
<1>11. ASSUME NEW t \in Tries, EchRetryFails(t) PROVE TypeOK'
  BY <1>11 DEF EchRetryFails, RetrySnapshot, Return, NoReply
<1>12. ASSUME NEW t \in Tries, Fail(t) PROVE TypeOK'
  BY <1>12 DEF Fail, Return, NoReply
<1>13. ASSUME NEW s \in Snapshot, SwapEch(s) PROVE TypeOK'
  BY <1>13 DEF SwapEch, tryVars
<1>14. CASE RotateKey
  BY <1>14 DEF RotateKey, tryVars
<1>15. CASE UNCHANGED vars
  BY <1>15 DEF vars, tryVars
<1> QED
  BY <1>1, <1>2, <1>3, <1>4, <1>5, <1>6, <1>7, <1>8, <1>9, <1>10, <1>11, <1>12, <1>13,
     <1>14, <1>15, Zenon DEF Next, HandlerStep

\* EchConfig::update keeps the outer name, swap_ech_config sets it, and nothing else
\* writes the shared configuration.
LEMMA StepOuter == IInv /\ [Next]_vars => OuterIsOfLastSwap'
<1> SUFFICES ASSUME IInv, [Next]_vars PROVE OuterIsOfLastSwap'
  OBVIOUS
<1>1. ASSUME NEW t \in Tries, EchRetry(t) \/ EchRetryFails(t) PROVE OuterIsOfLastSwap'
  BY <1>1 DEF EchRetry, EchRetryFails, RetrySnapshot, IInv, OuterIsOfLastSwap, TypeOK, Snapshot
<1>2. ASSUME NEW s \in Snapshot, SwapEch(s) PROVE OuterIsOfLastSwap'
  BY <1>2 DEF SwapEch, OuterIsOfLastSwap
<1>3. CASE UNCHANGED <<ech, swapped>>
  BY <1>3 DEF IInv, OuterIsOfLastSwap
<1>4. ASSUME NEW t \in Tries,
             \/ Begin(t) \/ BeginFails(t) \/ NetworkStep(t) \/ TimerExpires(t) \/ TimerHandler(t)
             \/ OldTimerHandler(t) \/ Continue(t) \/ Proceed(t) \/ Succeed(t) \/ Fail(t)
      PROVE  UNCHANGED <<ech, swapped>>
  BY <1>4, Zenon DEF Begin, BeginFails, NetworkStep, Complete, TimerExpires, TimerHandler,
              OldTimerHandler, Continue, Proceed, Succeed, Fail
<1> QED
  BY <1>1, <1>2, <1>3, <1>4 DEF Next, HandlerStep, RotateKey, vars

\* A second connection is configured from the list its own retry has just stored,
\* in the same step, so no other writer comes between.
LEMMA StepConfigured == IInv /\ [Next]_vars => Configured'
<1> SUFFICES ASSUME IInv, [Next]_vars PROVE Configured'
  OBVIOUS
<1> USE DEF IInv, TypeOK, Configured
<1>1. ASSUME NEW t \in Tries, Begin(t) PROVE Configured'
  BY <1>1 DEF Begin, Turn, Loaded, StartOp
<1>2. ASSUME NEW t \in Tries, BeginFails(t) \/ Succeed(t) \/ EchRetryFails(t) \/ Fail(t)
      PROVE  Configured'
  BY <1>2 DEF BeginFails, Succeed, EchRetryFails, Fail, Return
<1>3. ASSUME NEW t \in Tries, NetworkStep(t) PROVE Configured'
  BY <1>3 DEF NetworkStep, Complete, MayRetry
<1>4. ASSUME NEW t \in Tries, TimerExpires(t) \/ OldTimerHandler(t) \/ Continue(t)
      PROVE  Configured'
  BY <1>4 DEF TimerExpires, OldTimerHandler, OldCancels, Continue
<1>5. ASSUME NEW t \in Tries, TimerHandler(t) PROVE Configured'
  BY <1>5 DEF TimerHandler, Cancelled
<1>6. ASSUME NEW t \in Tries, Proceed(t) PROVE Configured'
  BY <1>6 DEF Proceed, StartOp, After
<1>7. ASSUME NEW t \in Tries, EchRetry(t) PROVE Configured'
  BY <1>7 DEF EchRetry, RetrySnapshot, Turn, Loaded, StartOp, MayRetry, Snapshot
<1>8. CASE UNCHANGED tryVars
  BY <1>8 DEF tryVars
<1> QED
  BY <1>1, <1>2, <1>3, <1>4, <1>5, <1>6, <1>7, <1>8, Zenon DEF Next, HandlerStep, SwapEch, RotateKey, vars

\* A timer that is armed with every connection goes off only by aborting.
LEMMA StepWatched == IInv /\ [Next]_vars => Watched'
<1> SUFFICES ASSUME IInv, [Next]_vars PROVE Watched'
  OBVIOUS
<1> USE TlsAttemptAssumption DEF IInv, TypeOK, Watched
<1>1. ASSUME NEW t \in Tries, Begin(t) PROVE Watched'
  BY <1>1 DEF Begin, Turn, StartOp
<1>2. ASSUME NEW t \in Tries, BeginFails(t) \/ Succeed(t) \/ EchRetryFails(t) \/ Fail(t)
      PROVE  Watched'
  BY <1>2 DEF BeginFails, Succeed, EchRetryFails, Fail, Return
<1>3. ASSUME NEW t \in Tries, NetworkStep(t) PROVE Watched'
  BY <1>3 DEF NetworkStep, Complete
<1>4. ASSUME NEW t \in Tries, TimerExpires(t) \/ OldTimerHandler(t) PROVE Watched'
  <2>1. CASE TimerExpires(t)
    BY <2>1, Zenon DEF TimerExpires
  <2>2. CASE OldTimerHandler(t)
    BY <2>2 DEF OldTimerHandler, OldCancels
  <2> QED BY <1>4, <2>1, <2>2
<1>5. ASSUME NEW t \in Tries, TimerHandler(t) \/ Continue(t) PROVE Watched'
  BY <1>5 DEF TimerHandler, Cancelled, Continue
<1>6. ASSUME NEW t \in Tries, Proceed(t) PROVE Watched'
  BY <1>6 DEF Proceed, StartOp
<1>7. ASSUME NEW t \in Tries, EchRetry(t) PROVE Watched'
  BY <1>7 DEF EchRetry, Turn, StartOp, Rearmed
<1>8. CASE UNCHANGED tryVars
  BY <1>8 DEF tryVars
<1> QED
  BY <1>1, <1>2, <1>3, <1>4, <1>5, <1>6, <1>7, <1>8 DEF Next, HandlerStep, SwapEch, RotateKey, vars

\* The invariant holds in every reachable state.
LEMMA Invariance == Spec => []IInv
<1>1. IInv /\ [Next]_vars => IInv'
  BY StepType, StepOuter, StepConfigured, StepWatched DEF IInv
<1> QED BY <1>1, InitEstablishes, PTL DEF Spec

-----------------------------------------------------------------------------
\* Every variable keeps its type; in particular the loop of try_once never takes
\* a third turn, so an ECH retry is never retried.
THEOREM TypeCorrect == Spec => []TypeOK
<1>1. IInv => TypeOK
  BY DEF IInv
<1> QED BY <1>1, Invariance, PTL

\* Whatever retries of whatever attempts EchConfig::update interleaves with swaps,
\* the outer name is that of the last swap.
THEOREM OuterNameKept == Spec => []OuterIsOfLastSwap
<1>1. IInv => OuterIsOfLastSwap
  BY DEF IInv
<1> QED BY <1>1, Invariance, PTL

\* The second handshake is configured with the retry_configs of the first, also
\* when other attempts and reloads replaced the shared configuration between.
THEOREM RetryUsesWhatWasGiven == Spec => []SecondTryUsesRetryConfig
<1>1. IInv => SecondTryUsesRetryConfig
  BY DEF IInv, TypeOK, Configured, SecondTryUsesRetryConfig
<1> QED BY <1>1, Invariance, PTL

\* No attempt whose operations begin by waiting is ever left waiting without a
\* timer, across the ECH retry and all five operations.
THEOREM WaitsAreTimed == Spec => []NeverUnwatched
<1>1. IInv => NeverUnwatched
  BY DEF IInv, Watched, NeverUnwatched
<1> QED BY <1>1, Invariance, PTL

\* Only the handler of the current connection's timer aborts an operation: the
\* handler of the first connection's timer, still queued, cancels nothing.
THEOREM AbortsAreTimeouts == Spec => AbortIsOwnTimeout
<1> DEFINE A == \A t \in Tries : (op[t] # "aborted" /\ op'[t] = "aborted") => timer[t] = "queued"
<1>1. IInv /\ [Next]_vars => [A]_vars
  <2> SUFFICES ASSUME IInv, Next PROVE A
    BY DEF vars, tryVars
  <2> USE DEF IInv, TypeOK
  <2>1. ASSUME NEW t \in Tries, Begin(t) PROVE A
    BY <2>1 DEF Begin, Turn, StartOp
  <2>2. ASSUME NEW t \in Tries, BeginFails(t) \/ Succeed(t) \/ EchRetryFails(t) \/ Fail(t) PROVE A
    BY <2>2 DEF BeginFails, Succeed, EchRetryFails, Fail, Return
  <2>3. ASSUME NEW t \in Tries, NetworkStep(t) \/ TimerExpires(t) PROVE A
    BY <2>3 DEF NetworkStep, Complete, TimerExpires
  <2>4. ASSUME NEW t \in Tries, TimerHandler(t) \/ OldTimerHandler(t) \/ Continue(t) PROVE A
    BY <2>4 DEF TimerHandler, OldTimerHandler, OldCancels, Cancelled, Continue
  <2>5. ASSUME NEW t \in Tries, Proceed(t) \/ EchRetry(t) PROVE A
    BY <2>5 DEF Proceed, EchRetry, Turn, StartOp
  <2>6. CASE UNCHANGED tryVars
    BY <2>6 DEF tryVars
  <2> QED
    BY <2>1, <2>2, <2>3, <2>4, <2>5, <2>6 DEF Next, HandlerStep, SwapEch, RotateKey
<1> QED BY <1>1, Invariance, PTL DEF Spec, AbortIsOwnTimeout
-----------------------------------------------------------------------------
(* Induction over the naturals, in the form of sets, and what it is for: a *)
(* least element, and that a recursive function is what it is defined by.  *)

\* Every set of naturals that is not empty has a least element.
LEMMA NatWellOrdered ==
    ASSUME NEW S \in SUBSET Nat, S # {}
    PROVE  \E x \in S : \A y \in S : x <= y
<1> DEFINE R == {ss \in Nat \X Nat : ss[1] < ss[2]}
<1>1. IsWellFoundedOn(R, Nat)
  BY NatLessThanWellFounded DEF OpToRel
<1>2. PICK x \in S : \A y \in S : ~(<<y, x>> \in R)
  BY <1>1, WFMin, Zenon
<1>3. ASSUME NEW y \in S PROVE x <= y
  <2>1. x \in Nat /\ y \in Nat /\ (y < x => <<y, x>> \in R)
    OBVIOUS
  <2> HIDE DEF R
  <2> QED BY <1>2, <2>1
<1> QED BY <1>3

\* The least element of a set of naturals.
LEMMA MinIsLeast ==
    ASSUME NEW S \in SUBSET Nat, S # {}
    PROVE  Min(S) \in S /\ \A y \in S : Min(S) <= y
  BY NatWellOrdered, Zenon DEF Min

\* A set that has first, and with each number the next one, has them all.
LEMMA RangeInduction ==
    ASSUME NEW first \in Nat, NEW last \in Nat, NEW S, first \in S,
           \A n \in (first + 1)..last : n - 1 \in S => n \in S
    PROVE  \A n \in first..last : n \in S
<1> DEFINE missing == {n \in first..last : n \notin S}
<1> SUFFICES ASSUME missing # {} PROVE FALSE
  OBVIOUS
<1>1. missing \in SUBSET Nat
  OBVIOUS
<1>2. PICK x \in missing : \A y \in missing : x <= y
  <2> HIDE DEF missing
  <2> QED BY <1>1, NatWellOrdered
<1>3. x \in (first + 1)..last /\ x - 1 \in first..last /\ ~(x <= x - 1)
  OBVIOUS
<1>4. x - 1 \in S
  BY <1>2, <1>3
<1> QED BY <1>3, <1>4

\* Some function on first..last is base at first and, after it, the step taken
\* there from the value before.
HasIndexedSolution(X, base, step, first, last) ==
    \E f \in [first..last -> X] :
        \A n \in first..last : f[n] = IF n = first THEN base ELSE step[n][f[n - 1]]

\* What a function defined by recursion on its argument needs to exist.
LEMMA IndexedRecursionExists ==
    ASSUME NEW X, NEW base \in X, NEW first \in Nat, NEW last \in Nat, first <= last,
           NEW step \in [(first + 1)..last -> [X -> X]]
    PROVE  HasIndexedSolution(X, base, step, first, last)
<1> DEFINE Ok(f, n) == \A k \in first..n : f[k] = IF k = first THEN base ELSE step[k][f[k - 1]]
           S == {n \in first..last : \E f \in [first..n -> X] : Ok(f, n)}
<1>1. first \in S
  <2> DEFINE f == [k \in first..first |-> base]
  <2>1. f \in [first..first -> X] /\ Ok(f, first)
    OBVIOUS
  <2>2. first \in first..last
    OBVIOUS
  <2> HIDE DEF f, Ok
  <2> QED BY <2>1, <2>2
<1>2. ASSUME NEW n \in (first + 1)..last, n - 1 \in S PROVE n \in S
  <2>1. PICK f \in [first..(n - 1) -> X] : Ok(f, n - 1)
    BY <1>2, Zenon
  <2>2. n - 1 \in first..(n - 1) /\ \A k \in first..n : k # n => k \in first..(n - 1)
    BY <1>2
  <2> DEFINE g == [k \in first..n |-> IF k = n THEN step[n][f[n - 1]] ELSE f[k]]
  <2>3. g \in [first..n -> X]
    BY <2>2
  <2>4. ASSUME NEW k \in first..n PROVE g[k] = IF k = first THEN base ELSE step[k][g[k - 1]]
    <3>1. CASE k = n
      <4>1. n - 1 \in first..n /\ n - 1 # n /\ k # first
        BY <1>2, <3>1
      <4> QED BY <3>1, <4>1
    <3>2. CASE k # n /\ k # first
      <4>1. k \in first..(n - 1) /\ k - 1 \in first..n /\ k - 1 # n
        BY <1>2, <3>2
      <4>2. g[k] = f[k] /\ g[k - 1] = f[k - 1]
        BY <3>2, <4>1
      <4> HIDE DEF g
      <4> QED BY <2>1, <3>2, <4>1, <4>2
    <3>3. CASE k # n /\ k = first
      <4>1. k \in first..(n - 1)
        BY <1>2, <3>3
      <4>2. g[k] = f[k]
        BY <3>3
      <4> HIDE DEF g
      <4> QED BY <2>1, <3>3, <4>1, <4>2
    <3> QED BY <3>1, <3>2, <3>3, Zenon
  <2>5. Ok(g, n)
    BY <2>4
  <2>6. n \in first..last
    BY <1>2
  <2> HIDE DEF g, Ok
  <2> QED BY <2>3, <2>5, <2>6
<1>3. \A n \in first..last : n \in S
  <2> HIDE DEF S
  <2> QED BY <1>1, <1>2, RangeInduction, Zenon
<1>4. last \in S
  BY <1>3
<1> QED BY <1>4 DEF HasIndexedSolution

\* What is below the least element is below all.
LEMMA BelowMin ==
    ASSUME NEW S \in SUBSET Nat, S # {}, NEW t \in Nat
    PROVE  t <= Min(S) <=> \A x \in S : t <= x
<1>1. PICK k \in Nat : k = Min(S) /\ k \in S /\ \A y \in S : k <= y
  BY MinIsLeast, Zenon
<1>2. \A x \in S : x \in Nat
  OBVIOUS
<1>3. t <= k <=> \A x \in S : t <= x
  BY <1>1, <1>2
<1> QED BY <1>1, <1>3
-----------------------------------------------------------------------------
(* What comes off a TLS stream.                                            *)

\* The two length bytes say how long the message is.
LEMMA LengthBytes ==
    ASSUME NEW n \in Nat
    PROVE  n \div kByte \in Nat /\ n % kByte \in Nat /\ kByte * (n \div kByte) + (n % kByte) = n
<1>1. ASSUME NEW N \in Nat \ {0}
      PROVE  n \div N \in Nat /\ n % N \in Nat /\ N * (n \div N) + (n % N) = n
  OBVIOUS
<1>2. kByte \in Nat \ {0}
  BY DEF kByte
<1> QED BY <1>1, <1>2, Zenon

\* What dot_read_framed makes of a stream that begins with the two bytes of
\* the length n.
LEMMA ReadsFrame ==
    ASSUME NEW stream \in Seq(Nat), NEW n \in Nat \ {0},
           Len(stream) >= 2 => stream[1] = n \div kByte /\ stream[2] = n % kByte
    PROVE  dot_read_framed(stream) =
             IF Len(stream) < 2 + n THEN Nothing ELSE Some(SubSeq(stream, 3, n + 2))
<1> DEFINE len == ReadExactly(stream, 0, 2)
           msg_len == kByte * len.value[1] + len.value[2]
<1>1. dot_read_framed(stream) =
        IF ~len.ok \/ msg_len = 0 THEN Nothing ELSE ReadExactly(stream, 2, msg_len)
  BY Zenon DEF dot_read_framed
<1>2. CASE Len(stream) < 2
  <2>1. len = Nothing /\ Len(stream) < 2 + n
    BY <1>2 DEF ReadExactly
  <2>2. len.ok = FALSE
    <3> HIDE DEF len
    <3> QED BY <2>1 DEF Nothing
  <2> QED BY <1>1, <2>1, <2>2, Zenon
<1>3. CASE Len(stream) >= 2
  <2>1. len = Some(SubSeq(stream, 1, 2))
    BY <1>3 DEF ReadExactly
  <2>2. len.ok = TRUE /\ len.value = SubSeq(stream, 1, 2)
    <3> HIDE DEF len
    <3> QED BY <2>1 DEF Some
  <2>3. SubSeq(stream, 1, 2)[1] = stream[1] /\ SubSeq(stream, 1, 2)[2] = stream[2]
    BY <1>3
  <2>4. msg_len = kByte * (n \div kByte) + (n % kByte)
    BY <1>3, <2>2, <2>3, Zenon
  <2>5. msg_len = n
    BY <2>4, LengthBytes, Zenon
  <2>6. dot_read_framed(stream) = ReadExactly(stream, 2, n)
    <3> HIDE DEF len, msg_len
    <3>1. n # 0
      OBVIOUS
    <3> QED BY <1>1, <2>2, <2>5, <3>1, Zenon
  <2>7. 2 + n > Len(stream) <=> Len(stream) < 2 + n
    OBVIOUS
  <2>8. 2 + 1 = 3 /\ 2 + n = n + 2
    OBVIOUS
  <2> QED BY <2>6, <2>7, <2>8, Zenon DEF ReadExactly
<1> QED BY <1>2, <1>3

\* A message of 1 to 65535 bytes comes off the stream as dot_frame put it on:
\* whatever follows it, and not before its last byte is there.
THEOREM FrameIsReadBack ==
    ASSUME NEW msg \in Seq(Nat), msg # <<>>, ~(Len(msg) > kMaxFrame)
    PROVE  LET frame == dot_frame(msg).value
           IN  /\ \A more \in Seq(Nat) : dot_read_framed(frame \o more) = Some(msg)
               /\ \A k \in 0..(Len(frame) - 1) : dot_read_framed(SubSeq(frame, 1, k)) = Nothing
<1> DEFINE frame == dot_frame(msg).value
<1>1. PICK n \in Nat \ {0} : n = Len(msg)
  <2>1. Len(msg) \in Nat /\ Len(msg) # 0
    OBVIOUS
  <2> QED BY <2>1
<1>2. PICK head \in Seq(Nat) : /\ head = <<n \div kByte, n % kByte>> /\ Len(head) = 2
                               /\ head[1] = n \div kByte /\ head[2] = n % kByte
  <2>1. PICK high \in Nat, low \in Nat : high = n \div kByte /\ low = n % kByte
    BY LengthBytes, Zenon
  <2>2. /\ <<high, low>> \in Seq(Nat) /\ Len(<<high, low>>) = 2
        /\ <<high, low>>[1] = high /\ <<high, low>>[2] = low
    OBVIOUS
  <2> QED BY <2>1, <2>2, Zenon
<1>3. frame = head \o msg
  <2>1. dot_frame(msg) = Some(head \o msg)
    BY <1>1, <1>2, Zenon DEF dot_frame
  <2>2. \A v : Some(v).value = v
    BY DEF Some
  <2> QED BY <2>1, <2>2, Zenon
<1> HIDE DEF frame
<1>4. frame \in Seq(Nat) /\ Len(frame) = n + 2
  BY <1>1, <1>2, <1>3
<1>5. frame[1] = n \div kByte /\ frame[2] = n % kByte
  BY <1>1, <1>2, <1>3
<1>6. ASSUME NEW more \in Seq(Nat) PROVE dot_read_framed(frame \o more) = Some(msg)
  <2> DEFINE stream == frame \o more
  <2>1. stream \in Seq(Nat) /\ Len(stream) >= n + 2
    BY <1>4
  <2>2. stream[1] = n \div kByte /\ stream[2] = n % kByte
    BY <1>4, <1>5
  <2>3. SubSeq(stream, 3, n + 2) = msg
    <3>1. /\ SubSeq(stream, 3, n + 2) \in Seq(Nat) /\ Len(SubSeq(stream, 3, n + 2)) = n
          /\ \A i \in 1..n : SubSeq(stream, 3, n + 2)[i] = stream[i + 2]
      <4> HIDE DEF stream
      <4> QED BY <1>1, <2>1
    <3>2. \A i \in 1..n : stream[i + 2] = frame[i + 2]
      BY <1>4
    <3>3. \A i \in 1..n : frame[i + 2] = msg[i]
      BY <1>1, <1>2, <1>3
    <3>4. ASSUME NEW s \in Seq(Nat), NEW r \in Seq(Nat), Len(s) = Len(r),
                 \A i \in 1..Len(s) : s[i] = r[i]
          PROVE  s = r
      <4>1. DOMAIN s = 1..Len(s) /\ DOMAIN r = 1..Len(r)
        OBVIOUS
      <4>2. s = [i \in DOMAIN s |-> s[i]] /\ r = [i \in DOMAIN r |-> r[i]]
        OBVIOUS
      <4> QED BY <3>4, <4>1, <4>2, Zenon
    <3> HIDE DEF stream
    <3>5. \A i \in 1..n : SubSeq(stream, 3, n + 2)[i] = msg[i]
      BY <3>1, <3>2, <3>3, Zenon
    <3> QED BY <1>1, <3>1, <3>4, <3>5, Zenon
  <2> HIDE DEF stream
  <2>4. dot_read_framed(stream) = Some(SubSeq(stream, 3, n + 2))
    <3>1. ~(Len(stream) < 2 + n)
      BY <2>1
    <3> QED BY <2>1, <2>2, <3>1, ReadsFrame, Zenon
  <2> QED BY <2>3, <2>4, Zenon DEF stream
<1>7. ASSUME NEW k \in 0..(Len(frame) - 1) PROVE dot_read_framed(SubSeq(frame, 1, k)) = Nothing
  <2> DEFINE stream == SubSeq(frame, 1, k)
  <2>1. k \in Nat /\ k < n + 2 /\ k <= Len(frame)
    BY <1>4
  <2>2. stream \in Seq(Nat) /\ Len(stream) = k /\ \A i \in 1..k : stream[i] = frame[i]
    BY <1>4, <2>1
  <2> HIDE DEF stream
  <2>3. Len(stream) >= 2 => stream[1] = n \div kByte /\ stream[2] = n % kByte
    BY <1>5, <2>1, <2>2
  <2>4. Len(stream) < 2 + n
    BY <2>1, <2>2
  <2> QED BY <2>2, <2>3, <2>4, ReadsFrame, Zenon DEF stream
<1> QED BY <1>6, <1>7, Zenon DEF frame

\* Header lines as post_https_oneshot meets them, and heads made of them.
Fields == {l \in [colon: BOOLEAN, name: {"Content-Length", "content-type", ""},
                  number: Nat \cup {NaN},
                  text: {"", "application/dns-message", "Application/DNS-Message"}] :
             l.name = "content-type" => l.text # ""}
IsHead(lines) ==
    /\ lines # <<>> /\ lines[1] \in [spaces: 0..2, status: Nat]
    /\ \A k \in 2..Len(lines) : lines[k] \in Fields

\* The lines with a name, counted in the head and among its header lines.
Named(lines, name) == {k \in 2..Len(lines) : lines[k].name = name}
Lowered(lines) == [k \in DOMAIN Tail(lines) |-> [Tail(lines)[k] EXCEPT !.name = to_lower(@)]]

\* A reply of DoH is the content up to the length the head states, or nothing.
GoodHead(lines) ==
    /\ lines[1] = StatusLine(2, 200) /\ Named(lines, "Content-Length") # {}
    /\ \A k \in 2..Len(lines) : lines[k].colon
    /\ Named(lines, "content-type") # {} =>
         lines[Min(Named(lines, "content-type"))].text = "application/dns-message"

\* Names are compared in lower case.
LEMMA LowerNames ==
    \A name \in {"Content-Length", "content-type", ""} :
        /\ to_lower(name) = "content-length" <=> name = "Content-Length"
        /\ to_lower(name) = "content-type" <=> name = "content-type"
<1>1. /\ "Content-Length" # "content-type" /\ "Content-Length" # "Content-Type"
      /\ "content-type" # "Content-Type" /\ "content-type" # "content-length"
      /\ "Content-Length" # "content-length"
  OBVIOUS
<1>2. /\ "" # "Content-Length" /\ "" # "Content-Type"
      /\ "" # "content-type" /\ "" # "content-length"
  OBVIOUS
<1>3. to_lower("Content-Length") = "content-length"
  BY Zenon DEF to_lower
<1>4. to_lower("content-type") = "content-type"
  BY <1>1 DEF to_lower
<1>5. to_lower("") = ""
  BY <1>2 DEF to_lower
<1> QED BY <1>1, <1>2, <1>3, <1>4, <1>5, Zenon

\* parse_response_head lower-cases the names and leaves the values.
LEMMA HeadersAre ==
    ASSUME NEW X, NEW lines \in Seq(X), IsHead(lines)
    PROVE  /\ DOMAIN Lowered(lines) = 1..(Len(lines) - 1)
           /\ \A k \in 1..(Len(lines) - 1) :
                /\ k + 1 \in 2..Len(lines)
                /\ Lowered(lines)[k].name = to_lower(lines[k + 1].name)
                /\ Lowered(lines)[k].number = lines[k + 1].number
                /\ Lowered(lines)[k].text = lines[k + 1].text
<1>1. lines # <<>> /\ \A k \in 2..Len(lines) : lines[k] \in Fields
  BY Zenon DEF IsHead
<1>2. DOMAIN Tail(lines) = 1..(Len(lines) - 1)
  BY <1>1
<1>3. \A k \in 1..(Len(lines) - 1) : k + 1 \in 2..Len(lines) /\ Tail(lines)[k] = lines[k + 1]
  BY <1>1
<1>4. ASSUME NEW l \in Fields, NEW v
      PROVE  /\ [l EXCEPT !.name = v].name = v /\ [l EXCEPT !.name = v].number = l.number
             /\ [l EXCEPT !.name = v].text = l.text
  <2>1. DOMAIN l = {"colon", "name", "number", "text"}
    BY Zenon DEF Fields
  <2>2. "name" # "number" /\ "name" # "text"
    OBVIOUS
  <2> QED BY <2>1, <2>2, Zenon
<1>5. \A k \in 1..(Len(lines) - 1) :
        Lowered(lines)[k] = [lines[k + 1] EXCEPT !.name = to_lower(lines[k + 1].name)]
  BY <1>2, <1>3, Zenon DEF Lowered
<1>6. DOMAIN Lowered(lines) = 1..(Len(lines) - 1)
  BY <1>2, Zenon DEF Lowered
<1>7. ASSUME NEW k \in 1..(Len(lines) - 1)
      PROVE  /\ Lowered(lines)[k].name = to_lower(lines[k + 1].name)
             /\ Lowered(lines)[k].number = lines[k + 1].number
             /\ Lowered(lines)[k].text = lines[k + 1].text
  <2>1. lines[k + 1] \in Fields
    BY <1>1, <1>3, Zenon
  <2>2. PICK h : h = Lowered(lines)[k]
    OBVIOUS
  <2>3. h = [lines[k + 1] EXCEPT !.name = to_lower(lines[k + 1].name)]
    BY <1>5, <2>2, Zenon
  <2>4. h.name = to_lower(lines[k + 1].name) /\ h.number = lines[k + 1].number
        /\ h.text = lines[k + 1].text
    BY <1>4, <2>1, <2>3, Zenon
  <2> QED BY <2>2, <2>4, Zenon
<1> QED BY <1>3, <1>6, <1>7, Zenon

FirstNamed(lines, name, low) ==
    LET value == header_value(Lowered(lines), low)
        first == lines[Min(Named(lines, name))]
    IN  /\ value.ok \in BOOLEAN
        /\ value.ok <=> Named(lines, name) # {}
        /\ value.ok => value.value.number = first.number /\ value.value.text = first.text

\* header_value gives the first header line of that name.
LEMMA HeaderFound ==
    ASSUME NEW X, NEW lines \in Seq(X), IsHead(lines), NEW name, NEW low,
           \A k \in 2..Len(lines) : to_lower(lines[k].name) = low <=> lines[k].name = name
    PROVE  FirstNamed(lines, name, low)
<1> DEFINE headers == Lowered(lines)
           value == header_value(headers, low)
           found == {k \in DOMAIN headers : headers[k].name = low}
           named == Named(lines, name)
<1>1. /\ DOMAIN headers = 1..(Len(lines) - 1)
      /\ \A k \in 1..(Len(lines) - 1) :
                /\ k + 1 \in 2..Len(lines)
                /\ headers[k].name = to_lower(lines[k + 1].name)
                /\ headers[k].number = lines[k + 1].number
                /\ headers[k].text = lines[k + 1].text
  BY HeadersAre, Zenon
<1>2. value = IF found = {} THEN Nothing ELSE Some(headers[Min(found)])
  BY Zenon DEF header_value
<1>3. Nothing.ok = FALSE /\ \A v : Some(v).ok = TRUE /\ Some(v).value = v
  BY DEF Nothing, Some
<1> HIDE DEF headers
<1>4. \A k \in 1..(Len(lines) - 1) : k \in found <=> k + 1 \in named
  BY <1>1, Zenon DEF Named
<1>5. found \in SUBSET Nat /\ \A k \in found : k \in 1..(Len(lines) - 1)
  BY <1>1
<1>6. named \in SUBSET Nat /\ \A k \in named : k - 1 \in 1..(Len(lines) - 1) /\ k = (k - 1) + 1
  BY DEF Named
<1> HIDE DEF found, value, named
<1>7. found = {} <=> named = {}
  BY <1>4, <1>5, <1>6, Zenon
<1>8. CASE named = {}
  <2>1. value.ok = FALSE
    BY <1>2, <1>3, <1>7, <1>8, Zenon
  <2> QED BY <1>8, <2>1, Zenon DEF value, headers, named, FirstNamed
<1>9. CASE named # {}
  <2>1. PICK a \in Nat : a = Min(found) /\ a \in found /\ \A k \in found : a <= k
    BY <1>5, <1>7, <1>9, MinIsLeast, Zenon
  <2>2. PICK b \in Nat : b = Min(named) /\ b \in named /\ \A k \in named : b <= k
    BY <1>6, <1>9, MinIsLeast, Zenon
  <2>3. a \in 1..(Len(lines) - 1) /\ b - 1 \in 1..(Len(lines) - 1) /\ b = (b - 1) + 1
    BY <1>5, <1>6, <2>1, <2>2, Zenon
  <2>4. a + 1 \in named /\ b - 1 \in found
    BY <1>4, <2>1, <2>2, <2>3, Zenon
  <2>5. b <= a + 1 /\ a <= b - 1
    BY <2>1, <2>2, <2>4, Zenon
  <2>6. b = a + 1
    BY <2>5
  <2>7. value = Some(headers[a])
    BY <1>2, <1>7, <1>9, <2>1, Zenon
  <2>8. value.ok = TRUE /\ value.value = headers[a]
    BY <1>3, <2>7, Zenon
  <2>9. headers[a].number = lines[b].number /\ headers[a].text = lines[b].text
    BY <1>1, <2>3, <2>6, Zenon
  <2> QED BY <1>9, <2>2, <2>8, <2>9, Zenon DEF value, headers, named, FirstNamed
<1> QED BY <1>8, <1>9, Zenon

\* What came with the head and what is read after it make up the content.
LEMMA ContentJoined ==
    ASSUME NEW Y, NEW content \in Seq(Y), NEW already \in 0..Len(content), NEW n \in Nat,
           n <= Len(content), already < n
    PROVE  SubSeq(content, 1, already) \o SubSeq(content, already + 1, n) = SubSeq(content, 1, n)
<1> DEFINE a == SubSeq(content, 1, already)
           b == SubSeq(content, already + 1, n)
           c == SubSeq(content, 1, n)
<1>1. a \in Seq(Y) /\ Len(a) = already /\ \A i \in 1..already : a[i] = content[i]
  OBVIOUS
<1>2. b \in Seq(Y) /\ Len(b) = n - already /\ \A i \in 1..(n - already) : b[i] = content[already + i]
  OBVIOUS
<1>3. c \in Seq(Y) /\ Len(c) = n /\ \A i \in 1..n : c[i] = content[i]
  OBVIOUS
<1> HIDE DEF a, b, c
<1>4. a \o b \in Seq(Y) /\ Len(a \o b) = n
  <2>1. ASSUME NEW s \in Seq(Y), NEW t \in Seq(Y)
        PROVE  s \o t \in Seq(Y) /\ Len(s \o t) = Len(s) + Len(t)
    OBVIOUS
  <2>2. already + (n - already) = n
    OBVIOUS
  <2> QED BY <1>1, <1>2, <2>1, <2>2, Zenon
<1>5. ASSUME NEW i \in 1..n PROVE (a \o b)[i] = c[i]
  <2>1. ASSUME NEW s \in Seq(Y), NEW t \in Seq(Y), NEW j \in 1..(Len(s) + Len(t))
        PROVE  (s \o t)[j] = IF j <= Len(s) THEN s[j] ELSE t[j - Len(s)]
    OBVIOUS
  <2>2. i \in 1..(Len(a) + Len(b))
    <3>1. already + (n - already) = n
      OBVIOUS
    <3> QED BY <1>1, <1>2, <3>1, Zenon
  <2>3. (a \o b)[i] = IF i <= already THEN a[i] ELSE b[i - already]
    BY <1>1, <1>2, <2>1, <2>2, Zenon
  <2>4. CASE i <= already
    <3>1. i \in 1..already
      BY <2>4
    <3> QED BY <1>1, <1>3, <2>3, <2>4, <3>1, Zenon
  <2>5. CASE ~(i <= already)
    <3>1. i - already \in 1..(n - already) /\ already + (i - already) = i
      BY <2>5
    <3> QED BY <1>2, <1>3, <2>3, <2>5, <3>1, Zenon
  <2> QED BY <2>4, <2>5, Zenon
<1>6. a \o b = c
  <2>1. ASSUME NEW s \in Seq(Y), NEW t \in Seq(Y), Len(s) = Len(t),
               \A i \in 1..Len(s) : s[i] = t[i]
        PROVE  s = t
    BY <2>1
  <2> QED BY <1>3, <1>4, <1>5, <2>1, Zenon
<1> QED BY <1>6 DEF a, b, c

\* The body of a response whose head states n bytes, already of which (or more)
\* came with the head: nothing when the stream ends before them.
BodyRead(content, already, n) ==
    LET copy == Copied(already, n)
        rest == ReadExactly(content, already, n - copy)
    IN  IF copy < n /\ ~rest.ok THEN Nothing
        ELSE Some(SubSeq(content, 1, copy) \o (IF copy < n THEN rest.value ELSE <<>>))

\* It is the content up to n, however much of it came with the head.
LEMMA BodyIsPrefix ==
    ASSUME NEW Y, NEW content \in Seq(Y), NEW already \in 0..Len(content), NEW n \in Nat
    PROVE  BodyRead(content, already, n) =
             IF n <= Len(content) THEN Some(SubSeq(content, 1, n)) ELSE Nothing
<1> DEFINE copy == Copied(already, n)
           rest == ReadExactly(content, already, n - copy)
<1>1. BodyRead(content, already, n) =
        IF copy < n /\ ~rest.ok THEN Nothing
        ELSE Some(SubSeq(content, 1, copy) \o (IF copy < n THEN rest.value ELSE <<>>))
  BY Zenon DEF BodyRead
<1>2. copy = IF already < n THEN already ELSE n
  <2>1. {already, n} \in SUBSET Nat /\ {already, n} # {} /\ already \in Nat
    OBVIOUS
  <2>2. PICK k \in Nat : k = copy /\ k \in {already, n} /\ \A y \in {already, n} : k <= y
    BY <2>1, MinIsLeast, Zenon DEF Copied
  <2>3. k = IF already < n THEN already ELSE n
    BY <2>1, <2>2
  <2> QED BY <2>2, <2>3
<1>3. Nothing.ok = FALSE /\ \A v : Some(v).ok = TRUE /\ Some(v).value = v
  BY DEF Nothing, Some
<1> HIDE DEF copy, rest
<1>4. CASE already < n
  <2>1. copy = already /\ copy < n
    BY <1>2, <1>4
  <2>2. rest = IF n > Len(content) THEN Nothing ELSE Some(SubSeq(content, already + 1, n))
    <3>1. already + (n - already) = n
      OBVIOUS
    <3> QED BY <2>1, <3>1, Zenon DEF rest, ReadExactly
  <2>3. CASE n > Len(content)
    <3>1. ~(n <= Len(content))
      BY <2>3
    <3> QED BY <1>1, <1>3, <2>1, <2>2, <2>3, <3>1, Zenon
  <2>4. CASE n <= Len(content)
    <3>1. ~(n > Len(content))
      BY <2>4
    <3>2. rest.ok = TRUE /\ rest.value = SubSeq(content, already + 1, n)
      BY <1>3, <2>2, <3>1, Zenon
    <3>3. BodyRead(content, already, n)
            = Some(SubSeq(content, 1, already) \o SubSeq(content, already + 1, n))
      BY <1>1, <2>1, <3>2, Zenon
    <3> QED BY <1>4, <2>4, <3>3, ContentJoined, Zenon
  <2> QED BY <2>3, <2>4
<1>5. CASE ~(already < n)
  <2>1. copy = n /\ ~(copy < n) /\ n <= Len(content)
    BY <1>2, <1>5
  <2>2. SubSeq(content, 1, n) \o <<>> = SubSeq(content, 1, n)
    <3>1. SubSeq(content, 1, n) \in Seq(Y)
      BY <2>1
    <3>2. ASSUME NEW s \in Seq(Y) PROVE s \o <<>> = s
      OBVIOUS
    <3> QED BY <3>1, <3>2, Zenon
  <2> QED BY <1>1, <2>1, <2>2, Zenon
<1> QED BY <1>4, <1>5

\* A DNS-over-HTTPS reply is the content up to the length its first
\* Content-Length states, or nothing, however the stream is cut into reads.
THEOREM ReplyIsContent ==
    ASSUME NEW X, NEW lines \in Seq(X), IsHead(lines), NEW Y, NEW content \in Seq(Y),
           NEW already \in 0..Len(content), Len(lines) + already <= kHeadBuffer
    PROVE  LET stated == lines[Min(Named(lines, "Content-Length"))].number
           IN  DohReply(lines, content, already) =
                 IF ~GoodHead(lines) THEN Nothing
                 ELSE IF stated \notin 0..Min({Len(content), kMaxBody}) THEN Nothing
                 ELSE Some(SubSeq(content, 1, stated))
<1> DEFINE lengths == Named(lines, "Content-Length")
           types == Named(lines, "content-type")
           stated == lines[Min(lengths)].number
           head == parse_response_head(lines)
           length == header_value(head.value.headers, "content-length")
           type == header_value(head.value.headers, "content-type")
           n == length.value.number
           copy == Copied(already, n)
           rest == ReadExactly(content, already, n - copy)
           resp == ReadResponse(lines, content, already)
           answer == DohReply(lines, content, already)
           malformed == \/ Tail(lines) = <<>>
                        \/ lines[1].spaces < 2 \/ lines[1].status \notin 100..999
                        \/ \E k \in DOMAIN Tail(lines) : ~Tail(lines)[k].colon
<1>1. /\ lines # <<>> /\ lines[1] \in [spaces: 0..2, status: Nat]
      /\ \A k \in 2..Len(lines) : lines[k] \in Fields
  BY Zenon DEF IsHead
<1>2. Nothing.ok = FALSE /\ \A v : Some(v).ok = TRUE /\ Some(v).value = v
  BY DEF Nothing, Some
<1>3. answer = IF ~resp.ok THEN Nothing
               ELSE IF resp.value.status # 200
                       \/ resp.value.content_type \notin {"", "application/dns-message"}
               THEN Nothing ELSE Some(resp.value.body)
  BY Zenon DEF DohReply
<1>4. resp = IF Len(lines) + already > kHeadBuffer \/ ~head.ok THEN Nothing
             ELSE IF ~length.ok THEN Nothing
             ELSE IF n = NaN \/ n > kMaxBody THEN Nothing
             ELSE IF copy < n /\ ~rest.ok THEN Nothing
             ELSE Some([status |-> head.value.status,
                        content_type |-> IF type.ok THEN type.value.text ELSE "",
                        body |-> SubSeq(content, 1, copy)
                                   \o (IF copy < n THEN rest.value ELSE <<>>)])
  BY Zenon DEF ReadResponse
<1>5. head = IF malformed THEN Nothing
             ELSE Some([status |-> lines[1].status, headers |-> Lowered(lines)])
  BY Zenon DEF parse_response_head, Lowered
<1>6. Tail(lines) = <<>> => lengths = {}
  <2>1. Len(lines) \in Nat /\ Len(Tail(lines)) = Len(lines) - 1 /\ Len(<<>>) = 0
    BY <1>1
  <2>2. ASSUME NEW k \in Nat, k - 1 = 0 PROVE 2..k = {}
    BY <2>2
  <2>3. Tail(lines) = <<>> => 2..Len(lines) = {}
    BY <2>1, <2>2, Zenon
  <2> QED BY <2>3, Zenon DEF Named
<1>7. (\E k \in DOMAIN Tail(lines) : ~Tail(lines)[k].colon)
        <=> ~(\A k \in 2..Len(lines) : lines[k].colon)
  <2>1. /\ \A k \in DOMAIN Tail(lines) : k + 1 \in 2..Len(lines) /\ Tail(lines)[k] = lines[k + 1]
        /\ \A k \in 2..Len(lines) : k - 1 \in DOMAIN Tail(lines) /\ (k - 1) + 1 = k
    BY <1>1
  <2> QED BY <2>1, Zenon
<1>8. ~(Len(lines) + already > kHeadBuffer)
  BY FramingAssumption
<1>9. GoodHead(lines) <=> /\ lines[1] = StatusLine(2, 200) /\ lengths # {}
                          /\ \A k \in 2..Len(lines) : lines[k].colon
                          /\ types # {} => lines[Min(types)].text = "application/dns-message"
  BY Zenon DEF GoodHead
<1>10. lines[1] = StatusLine(2, 200) <=> lines[1].spaces = 2 /\ lines[1].status = 200
  <2>1. ASSUME NEW l \in [spaces: 0..2, status: Nat]
        PROVE  l = StatusLine(2, 200) <=> l.spaces = 2 /\ l.status = 200
    BY DEF StatusLine
  <2> QED BY <1>1, <2>1, Zenon
<1>11. lines[1].spaces \in 0..2 /\ lines[1].status \in Nat
  BY <1>1, Zenon
<1> HIDE DEF answer, resp, head, malformed, lengths, types
<1>12. CASE malformed
  <2>1. ~GoodHead(lines)
    <3>1. ASSUME lines[1] = StatusLine(2, 200)
          PROVE  ~(lines[1].spaces < 2) /\ lines[1].status \in 100..999
      <4>1. PICK spaces, status : spaces = lines[1].spaces /\ status = lines[1].status
        BY Zenon
      <4>2. spaces = 2 /\ status = 200
        BY <1>10, <3>1, <4>1, Zenon
      <4>3. ~(spaces < 2) /\ status \in 100..999
        BY <4>2
      <4> QED BY <4>1, <4>3, Zenon
    <3>2. Tail(lines) = <<>> \/ lines[1] # StatusLine(2, 200)
          \/ ~(\A k \in 2..Len(lines) : lines[k].colon)
      BY <1>7, <1>12, <3>1, ZenonT(40) DEF malformed
    <3> HIDE DEF GoodHead
    <3> QED BY <1>6, <1>9, <3>2, Zenon
  <2>2. resp = Nothing
    BY <1>2, <1>4, <1>5, <1>12, Zenon
  <2>3. answer = Nothing
    BY <1>2, <1>3, <2>2, Zenon
  <2> QED BY <2>1, <2>3, Zenon DEF answer
<1>13. CASE ~malformed
  <2>1. head.ok = TRUE /\ head.value = [status |-> lines[1].status, headers |-> Lowered(lines)]
    BY <1>2, <1>5, <1>13, Zenon
  <2>2. head.value.status = lines[1].status /\ head.value.headers = Lowered(lines)
    BY <2>1
  <2>3. \A k \in 2..Len(lines) : lines[k].name \in {"Content-Length", "content-type", ""}
    BY <1>1, Zenon DEF Fields
  <2>4. /\ length.ok \in BOOLEAN /\ (length.ok <=> lengths # {})
        /\ length.ok => n = stated
    <3>1. \A k \in 2..Len(lines) :
             to_lower(lines[k].name) = "content-length" <=> lines[k].name = "Content-Length"
      BY <2>3, LowerNames, Zenon
    <3>2. FirstNamed(lines, "Content-Length", "content-length")
      BY <3>1, HeaderFound, Zenon
    <3> QED BY <2>2, <3>2, Zenon DEF FirstNamed, lengths
  <2>5. /\ type.ok \in BOOLEAN /\ (type.ok <=> types # {})
        /\ type.ok => type.value.text = lines[Min(types)].text
    <3>1. \A k \in 2..Len(lines) :
             to_lower(lines[k].name) = "content-type" <=> lines[k].name = "content-type"
      BY <2>3, LowerNames, Zenon
    <3>2. FirstNamed(lines, "content-type", "content-type")
      BY <3>1, HeaderFound, Zenon
    <3> QED BY <2>2, <3>2, Zenon DEF FirstNamed, types
  <2>6. \A k \in 2..Len(lines) : lines[k].number \in Nat \cup {NaN}
                                 /\ (lines[k].name = "content-type" => lines[k].text # "")
    BY <1>1, Zenon DEF Fields
  <2>7. types # {} => lines[Min(types)].text # ""
    <3>1. types \in SUBSET Nat
      BY DEF types, Named
    <3>2. types # {} => Min(types) \in types
      BY <3>1, MinIsLeast, Zenon
    <3> QED BY <2>6, <3>2, Zenon DEF types, Named
  <2>8. lengths # {} => stated \in Nat \cup {NaN}
    <3>1. lengths \in SUBSET Nat
      BY DEF lengths, Named
    <3>2. lengths # {} => Min(lengths) \in lengths
      BY <3>1, MinIsLeast, Zenon
    <3> QED BY <2>6, <3>2, Zenon DEF lengths, Named
  <2> DEFINE ctype == IF type.ok THEN type.value.text ELSE ""
             text == SubSeq(content, 1, copy) \o (IF copy < n THEN rest.value ELSE <<>>)
  <2>9. ctype \in {"", "application/dns-message"}
          <=> (types # {} => lines[Min(types)].text = "application/dns-message")
    BY <2>5, <2>7, Zenon
  <2>10. CASE lengths = {}
    <3>1. resp = Nothing
      BY <1>4, <2>1, <1>8, <2>4, <2>10, Zenon
    <3>2. answer = Nothing /\ ~GoodHead(lines)
      BY <1>2, <1>3, <1>9, <2>10, <3>1, Zenon
    <3> QED BY <3>2, Zenon DEF answer
  <2>11. CASE lengths # {}
    <3>1. length.ok /\ n = stated /\ stated \in Nat \cup {NaN}
      BY <2>4, <2>8, <2>11, Zenon
    <3> HIDE DEF length, type, n, copy, rest, stated
    <3>2. resp = IF n = NaN \/ n > kMaxBody THEN Nothing
                 ELSE IF copy < n /\ ~rest.ok THEN Nothing
                 ELSE Some([status |-> lines[1].status, content_type |-> ctype, body |-> text])
      BY <1>4, <1>8, <2>1, <2>2, <3>1, Zenon
    <3>3. GoodHead(lines) <=> lines[1].status = 200 /\ ctype \in {"", "application/dns-message"}
      <4>1. lines[1].spaces = 2 /\ \A k \in 2..Len(lines) : lines[k].colon
        <5>1. ~(lines[1].spaces < 2)
          BY <1>13, Zenon DEF malformed
        <5>2. lines[1].spaces = 2
          BY <5>1, <1>11
        <5> QED BY <1>7, <1>13, <5>2, Zenon DEF malformed
      <4> QED BY <1>9, <1>10, <2>9, <2>11, <4>1, Zenon
    <3>4. answer = IF ~resp.ok \/ ~GoodHead(lines) THEN Nothing ELSE Some(text)
      <4>1. resp.ok => resp.value.status = lines[1].status /\ resp.value.content_type = ctype
                       /\ resp.value.body = text
        <5> HIDE DEF ctype, text
        <5>1. \A v : v = [status |-> lines[1].status, content_type |-> ctype, body |-> text] =>
                 v.status = lines[1].status /\ v.content_type = ctype /\ v.body = text
          OBVIOUS
        <5> QED BY <1>2, <3>2, <5>1, Zenon
      <4> HIDE DEF ctype, text
      <4> QED BY <1>3, <3>3, <4>1, Zenon
    <3>5. BodyRead(content, already, n) =
            IF copy < n /\ ~rest.ok THEN Nothing ELSE Some(text)
      BY Zenon DEF BodyRead, copy, rest
    <3> HIDE DEF ctype, text
    <3>6. CASE n = NaN \/ n > kMaxBody
      <4>1. answer = Nothing
        BY <1>2, <3>2, <3>4, <3>6, Zenon
      <4>2. stated \notin 0..Min({Len(content), kMaxBody})
        <5>1. PICK lim \in Nat : lim = Min({Len(content), kMaxBody}) /\ lim <= kMaxBody
          <6>1. Len(content) \in Nat /\ {Len(content), kMaxBody} \in SUBSET Nat
            BY FramingAssumption
          <6> QED BY <6>1, MinIsLeast, Zenon
        <5>2. stated \notin 0..lim
          BY <3>1, <3>6, <5>1, FramingAssumption DEF NaN
        <5> QED BY <5>1, <5>2, Zenon
      <4> QED BY <4>1, <4>2, Zenon DEF answer, stated, lengths
    <3>7. CASE ~(n = NaN \/ n > kMaxBody)
      <4>1. n \in Nat /\ n <= kMaxBody
        BY <3>1, <3>7, FramingAssumption
      <4>2. stated \in 0..Min({Len(content), kMaxBody}) <=> n <= Len(content)
        <5>1. PICK lim \in Nat : lim = Min({Len(content), kMaxBody})
                                 /\ lim \in {Len(content), kMaxBody} /\ lim <= Len(content)
          <6>1. Len(content) \in Nat /\ {Len(content), kMaxBody} \in SUBSET Nat
            BY FramingAssumption
          <6> QED BY <6>1, MinIsLeast, Zenon
        <5>2. n \in 0..lim <=> n <= Len(content)
          BY <4>1, <5>1, FramingAssumption
        <5> QED BY <3>1, <5>1, <5>2, Zenon
      <4>3. (IF copy < n /\ ~rest.ok THEN Nothing ELSE Some(text)) =
              IF n <= Len(content) THEN Some(SubSeq(content, 1, n)) ELSE Nothing
        BY <3>5, <4>1, BodyIsPrefix, Zenon
      <4>4. CASE copy < n /\ ~rest.ok
        <5>1. ~(n <= Len(content))
          BY <1>2, <4>3, <4>4, Zenon
        <5>2. answer = Nothing
          BY <1>2, <3>2, <3>4, <3>7, <4>4, Zenon
        <5> QED BY <4>2, <5>1, <5>2, Zenon DEF answer, stated, lengths
      <4>5. CASE ~(copy < n /\ ~rest.ok)
        <5>1. n <= Len(content) /\ text = SubSeq(content, 1, n)
          BY <1>2, <4>3, <4>5, Zenon
        <5>2. resp.ok = TRUE
          BY <1>2, <3>2, <3>7, <4>5, Zenon
        <5>3. answer = IF ~GoodHead(lines) THEN Nothing ELSE Some(SubSeq(content, 1, stated))
          BY <3>1, <3>4, <5>1, <5>2, Zenon
        <5> QED BY <4>2, <5>1, <5>3, Zenon DEF answer, stated, lengths
      <4> QED BY <4>4, <4>5, Zenon
    <3> QED BY <3>6, <3>7, Zenon
  <2> QED BY <2>10, <2>11, Zenon
<1> QED BY <1>12, <1>13, Zenon
-----------------------------------------------------------------------------
(* Padding.                                                                *)

PadRecord == [type: {"A", "OPT"}, rdlen: 0..kU16Max]
\* ARCOUNT is a 16-bit field too.
PadQuery == {q \in [parses: BOOLEAN, size: Nat, additional: Seq(PadRecord), trailing: Nat] :
            Len(q.additional) <= kU16Max}

Multiple(t, block) == \E k \in 1..t : t = k * block

\* round_up gives the first multiple of the block that is not below n.
LEMMA RoundUp ==
    ASSUME NEW n \in Nat, NEW block \in Nat \ {0}
    PROVE  /\ round_up(n, block) \in n..(n + block - 1)
           /\ \E k \in Nat : round_up(n, block) = k * block
<1> DEFINE top == n + block - 1
<1>1. PICK k \in Int : k = top \div block
  OBVIOUS
<1>2. block * k <= top /\ top < block * k + block
  BY <1>1
<1>3. k >= 0
  BY <1>1
<1>4. round_up(n, block) = k * block
  BY <1>1 DEF round_up
<1>5. PICK r \in Int : r = k * block /\ r = block * k
  OBVIOUS
<1>6. round_up(n, block) \in n..(n + block - 1)
  BY <1>2, <1>4, <1>5
<1> QED BY <1>3, <1>4, <1>6

\* A number that fits the field survives the cast to uint16_t.
LEMMA CastKeeps ==
    ASSUME NEW n \in 0..kU16Max
    PROVE  Cast16(n) = n
  BY EdnsPaddingAssumption DEF Cast16

\* The size pad_query chooses, named.
LEMMA PadTarget ==
    ASSUME NEW n \in Nat \ {0}, NEW block \in Nat \ {0}
    PROVE  \E t \in Nat :
             t = round_up(n, block) /\ n <= t /\ t < n + block /\ Multiple(t, block)
<1>1. PICK k \in Nat : round_up(n, block) = k * block
  BY RoundUp, Zenon
<1>2. PICK t \in Nat : t = round_up(n, block) /\ n <= t /\ t < n + block
  BY RoundUp
<1>3. t = k * block /\ t >= 1
  BY <1>1, <1>2
<1>4. k >= 1
  BY <1>3
<1>5. k <= t
  BY <1>3, <1>4
<1>6. Multiple(t, block)
  BY <1>3, <1>4, <1>5 DEF Multiple
<1> QED BY <1>2, <1>6

\* scan_opt finds no OPT record, one that is not last, or one with a 16-bit length.
LEMMA ScanOpt ==
    ASSUME NEW q \in PadQuery
    PROVE  /\ scan_opt(q).state \in {"None", "Last", "NotLast"}
           /\ scan_opt(q).state = "Last" => scan_opt(q).rdlen \in 0..kU16Max
<1> DEFINE opts == {k \in DOMAIN q.additional : q.additional[k].type = "OPT"}
           first == CHOOSE k \in opts : \A j \in opts : k <= j
<1>1. q.additional \in Seq(PadRecord)
  BY DEF PadQuery
<1>2. CASE opts = {}
  BY <1>2 DEF scan_opt
<1>3. CASE opts # {}
  <2>1. Len(q.additional) \in DOMAIN q.additional
    BY <1>1, <1>3
  <2>2. q.additional[Len(q.additional)].rdlen \in 0..kU16Max
    <3>1. q.additional[Len(q.additional)] \in PadRecord
      BY <1>1, <2>1
    <3> QED BY <3>1 DEF PadRecord
  <2> QED BY <1>3, <2>2, Zenon DEF scan_opt
<1> QED BY <1>2, <1>3

\* Every query that ends with its last record is padded well to every block
\* that fits: its length fields and ARCOUNT say what is there, the OPT record
\* is where a parser looks for it, the size is the next multiple of the block;
\* and a query is left alone only for a reason pad_query's comment gives.
THEOREM PaddingIsWellFormed == \A q \in PadQuery, block_size \in Nat : WellPadded(q, block_size)
<1> SUFFICES ASSUME NEW q \in PadQuery, NEW block_size \in FittingBlocks, q.trailing = 0
             PROVE  WellPadded(q, block_size)
  BY DEF WellPadded
<1>1. block_size \in Nat \ {0} /\ block_size + 3 <= kU16Max /\ kU16Max \in Nat
  BY EdnsPaddingAssumption DEF FittingBlocks, kPaddingOptionHead
<1>2. q.size \in Nat /\ Len(q.additional) \in 0..kU16Max
  BY DEF PadQuery
<1>3. CASE ~q.parses \/ scan_opt(q).state = "NotLast"
  BY <1>3 DEF WellPadded, pad_query, Unchanged
<1>4. CASE q.parses /\ scan_opt(q).state = "Last"
  <2>1. PICK rdlen \in 0..kU16Max : rdlen = scan_opt(q).rdlen
    BY <1>4, ScanOpt
  <2>2. PICK t \in Nat : /\ t = round_up(q.size + 4, block_size)
                         /\ q.size + 4 <= t /\ t < q.size + 4 + block_size
                         /\ Multiple(t, block_size)
    <3>1. q.size + 4 \in Nat \ {0}
      BY <1>2
    <3> QED BY <1>1, <3>1, PadTarget, Zenon
  <2>3. PICK pad \in Nat : pad = t - (q.size + 4) /\ pad < block_size
    BY <1>1, <1>2, <2>2
  <2>4. pad_query(q, block_size) = ExtendOpt(q, rdlen, block_size)
    BY <1>1, <1>4, <2>1 DEF pad_query
  <2>5. CASE rdlen + 4 + pad > kU16Max
    <3>1. pad_query(q, block_size) = Unchanged
      BY <2>2, <2>3, <2>4, <2>5 DEF ExtendOpt, kPaddingOptionHead
    <3>2. rdlen + 4 + block_size > kU16Max
      BY <1>1, <2>1, <2>3, <2>5
    <3> QED BY <1>4, <2>1, <3>1, <3>2 DEF WellPadded, Unchanged, kPaddingOptionHead
  <2>6. CASE rdlen + 4 + pad <= kU16Max
    <3>1. Cast16(rdlen + 4 + pad) = rdlen + 4 + pad /\ Cast16(pad) = pad
      BY <1>1, <2>1, <2>3, <2>6, CastKeeps
    <3>2. PICK p : /\ p = pad_query(q, block_size) /\ p.padded /\ p.size = t
                   /\ p.arcount = Len(q.additional) /\ p.begins = q.size - rdlen - 11
                   /\ p.rdlen = rdlen + 4 + pad /\ p.rdata = rdlen + 4 + pad
                   /\ p.optlen = pad /\ p.zeros = pad
      <4>1. ~(rdlen + 4 + pad > kU16Max)
        BY <1>1, <2>1, <2>3, <2>6
      <4>2. q.size + kPaddingOptionHead = q.size + 4 /\ kPaddingOptionHead = 4 /\ kOptRrSkeleton = 11
        BY DEF kPaddingOptionHead, kOptRrSkeleton
      <4>3. PICK p : p = [padded |-> TRUE, size |-> t, arcount |-> Len(q.additional),
                          begins |-> q.size - rdlen - 11, rdlen |-> rdlen + 4 + pad,
                          rdata |-> rdlen + 4 + pad, optlen |-> pad, zeros |-> pad]
        BY Zenon
      <4>4. pad_query(q, block_size) = p
        BY <2>2, <2>3, <2>4, <3>1, <4>1, <4>2, <4>3, ZenonT(40) DEF ExtendOpt
      <4>5. p.padded /\ p.size = t /\ p.arcount = Len(q.additional) /\ p.begins = q.size - rdlen - 11
        BY <4>3
      <4>6. p.rdlen = rdlen + 4 + pad /\ p.rdata = rdlen + 4 + pad /\ p.optlen = pad /\ p.zeros = pad
        BY <4>3
      <4> QED BY <4>4, <4>5, <4>6, Zenon
    <3>3. Readable(q, p)
      <4>1. rdlen \in Nat /\ rdlen + 4 + pad >= 4 + pad
        BY <1>1
      <4>2. (q.size - rdlen - 11) + 11 + (rdlen + 4 + pad) = t
        <5>1. PICK z \in Nat : z = q.size
          BY <1>2
        <5>2. pad = t - (z + 4)
          BY <2>3, <5>1
        <5>3. (z - rdlen - 11) + 11 + (rdlen + 4 + pad) = t
          BY <4>1, <5>2
        <5> QED BY <5>1, <5>3
      <4> QED BY <1>4, <3>2, <4>1, <4>2 DEF Readable, kPaddingOptionHead, kOptRrSkeleton
    <3>4. JustPadded(q, block_size, p)
      <4>1. Multiple(p.size, block_size)
        BY <2>2, <3>2
      <4>2. t - block_size < q.size + 11 + 4
        BY <1>1, <1>2, <2>2
      <4> QED BY <3>2, <4>1, <4>2 DEF JustPadded, Multiple, kPaddingOptionHead, kOptRrSkeleton
    <3> QED BY <3>2, <3>3, <3>4 DEF WellPadded
  <2> QED BY <1>1, <2>1, <2>3, <2>5, <2>6
<1>5. CASE q.parses /\ scan_opt(q).state = "None"
  <2>1. PICK t \in Nat : /\ t = round_up(q.size + 15, block_size)
                         /\ q.size + 15 <= t /\ t < q.size + 15 + block_size
                         /\ Multiple(t, block_size)
    <3>1. q.size + 15 \in Nat \ {0}
      BY <1>2
    <3> QED BY <1>1, <3>1, PadTarget, Zenon
  <2>2. PICK pad \in Nat : pad = t - (q.size + 15) /\ pad < block_size
    BY <1>1, <1>2, <2>1
  <2>3. q.size + 11 + 4 = q.size + 15
    BY <1>2
  <2>4. pad_query(q, block_size) = AddOpt(q, block_size)
    BY <1>1, <1>5 DEF pad_query
  <2>5. CASE Len(q.additional) = kU16Max
    <3>1. ~pad_query(q, block_size).padded
      <4>1. pad_query(q, block_size) = Unchanged
        BY <2>4, <2>5, Zenon DEF AddOpt
      <4> QED BY <4>1 DEF Unchanged
    <3> QED BY <2>5, <3>1, Zenon DEF WellPadded
  <2>6. CASE Len(q.additional) # kU16Max
    <3>1. /\ Cast16(4 + pad) = 4 + pad /\ Cast16(pad) = pad
          /\ Cast16(Len(q.additional) + 1) = Len(q.additional) + 1
      BY <1>1, <1>2, <2>2, <2>6, CastKeeps
    <3>2. PICK p : /\ p = pad_query(q, block_size) /\ p.padded /\ p.size = t
                   /\ p.arcount = Len(q.additional) + 1 /\ p.begins = q.size
                   /\ p.rdlen = 4 + pad /\ p.rdata = 4 + pad
                   /\ p.optlen = pad /\ p.zeros = pad
      <4>1. q.size + kOptRrSkeleton + kPaddingOptionHead = q.size + 15 /\ kPaddingOptionHead = 4
        BY <2>3 DEF kPaddingOptionHead, kOptRrSkeleton
      <4>2. PICK p : p = [padded |-> TRUE, size |-> t, arcount |-> Len(q.additional) + 1,
                          begins |-> q.size, rdlen |-> 4 + pad, rdata |-> 4 + pad,
                          optlen |-> pad, zeros |-> pad]
        BY Zenon
      <4>3. pad_query(q, block_size) = p
        <5>1. AddOpt(q, block_size) = [padded |-> TRUE, size |-> t, arcount |-> Cast16(Len(q.additional) + 1),
                                       begins |-> q.size, rdlen |-> Cast16(4 + pad), rdata |-> 4 + pad,
                                       optlen |-> Cast16(pad), zeros |-> pad]
          BY <2>1, <2>2, <2>6, <4>1, ZenonT(40) DEF AddOpt
        <5> QED BY <2>4, <3>1, <4>2, <5>1, Zenon
      <4>4. p.padded /\ p.size = t /\ p.arcount = Len(q.additional) + 1 /\ p.begins = q.size
        BY <4>2
      <4>5. p.rdlen = 4 + pad /\ p.rdata = 4 + pad /\ p.optlen = pad /\ p.zeros = pad
        BY <4>2
      <4> QED BY <4>3, <4>4, <4>5, Zenon
    <3>3. Readable(q, p)
      BY <1>2, <2>1, <2>2, <3>2, SMTT(40) DEF Readable, kPaddingOptionHead, kOptRrSkeleton
    <3>4. JustPadded(q, block_size, p)
      <4>1. Multiple(p.size, block_size)
        BY <2>1, <3>2
      <4>2. t - block_size < q.size + 11 + 4
        BY <1>1, <1>2, <2>1
      <4> QED BY <3>2, <4>1, <4>2 DEF JustPadded, Multiple, kPaddingOptionHead, kOptRrSkeleton
    <3> QED BY <3>2, <3>3, <3>4, Zenon DEF WellPadded
  <2> QED BY <2>5, <2>6
<1> QED BY <1>3, <1>4, <1>5, ScanOpt DEF PadQuery

\* The size of a query is a number.
LEMMA SizeIsNat ==
    ASSUME NEW additional \in Seq(PadRecord), NEW trailing \in Nat
    PROVE  SizeOf(additional, trailing) \in Nat
<1> DEFINE N == Len(additional)
           def(f) == [k \in 0..N |-> IF k = 0 THEN 17 ELSE f[k - 1] + 11 + additional[k].rdlen]
           size == CHOOSE f : f = def(f)
           step == [k \in (0 + 1)..N |-> [v \in Nat |-> v + 11 + additional[k].rdlen]]
<1>1. N \in Nat /\ 0 <= N /\ 0 \in Nat /\ N \in 0..N
  OBVIOUS
<1>2. ASSUME NEW k \in 1..N PROVE additional[k].rdlen \in Nat
  <2>1. additional[k] \in PadRecord
    OBVIOUS
  <2>2. \A r \in PadRecord : r.rdlen \in Nat
    BY DEF PadRecord
  <2> QED BY <2>1, <2>2, Zenon
<1>3. step \in [(0 + 1)..N -> [Nat -> Nat]]
  BY <1>2
<1>4. PICK f \in [0..N -> Nat] : \A n \in 0..N : f[n] = IF n = 0 THEN 17 ELSE step[n][f[n - 1]]
  <2> HIDE DEF step, N
  <2>1. HasIndexedSolution(Nat, 17, step, 0, N)
    BY <1>1, <1>3, IndexedRecursionExists, Zenon
  <2> QED BY <2>1, Zenon DEF HasIndexedSolution
<1>5. \A n \in 0..N : f[n] = IF n = 0 THEN 17 ELSE f[n - 1] + 11 + additional[n].rdlen
  <2>1. \A n \in 0..N : n # 0 => n \in (0 + 1)..N /\ f[n - 1] \in Nat
    BY <1>1
  <2>2. \A n \in (0 + 1)..N : \A v \in Nat : step[n][v] = v + 11 + additional[n].rdlen
    BY Zenon
  <2> HIDE DEF step, N
  <2> QED BY <1>4, <2>1, <2>2, Zenon
<1>6. f = def(f)
  BY <1>4, <1>5, Zenon
<1>7. size = def(size)
  BY <1>6, Zenon
<1>8. SizeOf(additional, trailing) = size[N] + trailing
  BY Zenon DEF SizeOf
<1>9. \A n \in 0..N : size[n] = IF n = 0 THEN 17 ELSE size[n - 1] + 11 + additional[n].rdlen
  <2> HIDE DEF size
  <2> QED BY <1>7, Zenon
<1> HIDE DEF size, N
<1> DEFINE S == {n \in 0..N : size[n] \in Nat}
<1>10. 0 \in S
  BY <1>1, <1>9
<1>11. ASSUME NEW n \in (0 + 1)..N, n - 1 \in S PROVE n \in S
  <2>1. n \in 0..N /\ n \in 1..N /\ n # 0 /\ size[n - 1] \in Nat
    BY <1>1, <1>11
  <2>2. PICK a \in Nat, b \in Nat : a = size[n - 1] /\ b = additional[n].rdlen
    BY <1>2, <2>1, Zenon
  <2>3. size[n] = a + 11 + b
    BY <1>9, <2>1, <2>2, Zenon
  <2>4. size[n] \in Nat
    BY <2>3
  <2> QED BY <2>1, <2>4
<1>12. N \in S
  <2> HIDE DEF S
  <2>1. \A n \in 0..N : n \in S
    BY <1>1, <1>10, <1>11, RangeInduction, Zenon
  <2> QED BY <1>1, <2>1, Zenon
<1> QED BY <1>8, <1>12
-----------------------------------------------------------------------------
(* How long a response may be kept.                                        *)

\* The records of a message that count.
LEMMA CountedRecords ==
    ASSUME NEW msg \in Message
    PROVE  /\ \A rr \in NotOpt(msg.answers) \cup NotOpt(msg.authority) : rr.ttl \in Nat
           /\ msg.authority \in Seq(ResourceRecord) /\ msg.answers \in Seq(ResourceRecord)
           /\ \A i \in DOMAIN msg.authority :
                 msg.authority[i].minimum \in Nat \/ msg.authority[i].minimum = NoMinimum
           /\ msg.authority = <<>> => NotOpt(msg.authority) = {}
           /\ msg.answers = <<>> => NotOpt(msg.answers) = {}
<1>1. ASSUME NEW S, NEW s \in Seq(S)
      PROVE  /\ \A i \in DOMAIN s : s[i] \in S
             /\ s = <<>> => DOMAIN s = {}
  OBVIOUS
<1>2. msg.authority \in Seq(ResourceRecord) /\ msg.answers \in Seq(ResourceRecord)
  BY Zenon DEF Message
<1>3. \A rr \in ResourceRecord : rr.ttl \in Nat /\ (rr.minimum \in Nat \/ rr.minimum = NoMinimum)
  BY Zenon DEF ResourceRecord
<1>4. /\ \A i \in DOMAIN msg.authority : msg.authority[i] \in ResourceRecord
      /\ \A i \in DOMAIN msg.answers : msg.answers[i] \in ResourceRecord
      /\ msg.authority = <<>> => DOMAIN msg.authority = {}
      /\ msg.answers = <<>> => DOMAIN msg.answers = {}
  BY <1>1, <1>2, Zenon
<1>5. \A rr \in NotOpt(msg.answers) \cup NotOpt(msg.authority) : rr \in ResourceRecord
  BY <1>4, Zenon DEF NotOpt, Rec
<1>6. /\ msg.authority = <<>> => NotOpt(msg.authority) = {}
      /\ msg.answers = <<>> => NotOpt(msg.answers) = {}
  BY <1>4, Zenon DEF NotOpt, Rec
<1> QED BY <1>2, <1>3, <1>4, <1>5, <1>6, Zenon

\* The record at i is the first SOA of the section.
FirstSoa(authority, i) ==
    authority[i].type = "SOA" /\ \A h \in 1..(i-1) : authority[h].type # "SOA"

\* FirstSoaMinimum holds the MINIMUM of the first SOA that is readable.
LEMMA SoaMinimum ==
    ASSUME NEW msg \in Message
    PROVE  LET F == FirstSoaMinimum(msg.authority)
           IN  /\ F \subseteq Nat
               /\ \A x \in F : \E i \in DOMAIN msg.authority :
                    /\ FirstSoa(msg.authority, i) /\ msg.authority[i].minimum # NoMinimum
                    /\ x = msg.authority[i].minimum
               /\ \A i \in DOMAIN msg.authority :
                    (FirstSoa(msg.authority, i) /\ msg.authority[i].minimum # NoMinimum)
                        => msg.authority[i].minimum \in F
<1> DEFINE aut == msg.authority
           soa == {i \in DOMAIN aut : aut[i].type = "SOA"}
           F == FirstSoaMinimum(aut)
<1>1. DOMAIN aut \subseteq Nat /\ \A i \in DOMAIN aut, h \in DOMAIN aut : h < i => h \in 1..(i-1)
  <2>1. ASSUME NEW S, NEW s \in Seq(S)
        PROVE  DOMAIN s \subseteq Nat /\ \A i \in DOMAIN s, h \in DOMAIN s : h < i => h \in 1..(i-1)
    OBVIOUS
  <2> QED BY <2>1, CountedRecords, Zenon
<1>2. \A i \in DOMAIN aut : aut[i].minimum \in Nat \/ aut[i].minimum = NoMinimum
  BY CountedRecords, Zenon
<1>3. F = IF soa = {} \/ aut[Min(soa)].minimum = NoMinimum THEN {} ELSE {aut[Min(soa)].minimum}
  BY Zenon DEF FirstSoaMinimum
<1> HIDE DEF F, aut
<1>4. soa \in SUBSET Nat
  BY <1>1, Zenon
<1>5. ASSUME soa # {}
      PROVE  Min(soa) \in soa /\ FirstSoa(aut, Min(soa))
  <2>1. Min(soa) \in soa /\ \A y \in soa : Min(soa) <= y
    <3> HIDE DEF soa
    <3> QED BY <1>4, <1>5, MinIsLeast
  <2>2. Min(soa) \in DOMAIN aut /\ aut[Min(soa)].type = "SOA"
    BY <2>1, Zenon
  <2>3. ASSUME NEW h \in 1..(Min(soa) - 1) PROVE aut[h].type # "SOA"
    <3>1. Min(soa) \in Nat
      BY <1>1, <2>2, Zenon
    <3>2. h \in DOMAIN aut /\ ~(Min(soa) <= h)
      <4>1. \A k \in DOMAIN aut : \A j \in 1..(k - 1) : j \in DOMAIN aut /\ ~(k <= j)
        <5>1. ASSUME NEW S, NEW s \in Seq(S)
              PROVE  \A k \in DOMAIN s : \A j \in 1..(k - 1) : j \in DOMAIN s /\ ~(k <= j)
          OBVIOUS
        <5> QED BY <5>1, CountedRecords, Zenon DEF aut
      <4> QED BY <2>2, <4>1, Zenon
    <3> QED BY <2>1, <3>2, Zenon
  <2> QED BY <2>1, <2>2, <2>3, Zenon DEF FirstSoa
<1>6. ASSUME NEW i \in DOMAIN aut, FirstSoa(aut, i) PROVE soa # {} /\ i = Min(soa)
  <2>1. i \in soa
    BY <1>6, Zenon DEF FirstSoa
  <2>2. Min(soa) \in soa /\ FirstSoa(aut, Min(soa)) /\ i \in Nat /\ Min(soa) \in Nat
    BY <1>1, <1>5, <2>1, Zenon
  <2>3. ~(i < Min(soa)) /\ ~(Min(soa) < i)
    BY <1>1, <1>6, <2>1, <2>2, Zenon DEF FirstSoa
  <2> HIDE DEF soa
  <2>4. \A a, b \in Nat : ~(a < b) /\ ~(b < a) => a = b
    OBVIOUS
  <2> QED BY <2>1, <2>2, <2>3, <2>4, Zenon
<1>7. F \subseteq Nat
  BY <1>2, <1>3, <1>5, Zenon
<1>8. ASSUME NEW x \in F
      PROVE  \E i \in DOMAIN aut : FirstSoa(aut, i) /\ aut[i].minimum # NoMinimum /\ x = aut[i].minimum
  BY <1>3, <1>5, <1>8, Zenon
<1>9. ASSUME NEW i \in DOMAIN aut, FirstSoa(aut, i), aut[i].minimum # NoMinimum
      PROVE  aut[i].minimum \in F
  BY <1>3, <1>6, <1>9, Zenon
<1> QED BY <1>7, <1>8, <1>9, Zenon DEF F, aut

\* compute_cache_ttl gives, of every message, the longest time that the TTLs,
\* the SOA MINIMUM and the ceiling allow.
THEOREM LongestTtl ==
    \A msg \in Message, t \in Nat \ {0} : t <= compute_cache_ttl(msg) <=> AllowedTtl(msg, t)
<1> SUFFICES ASSUME NEW msg \in Message, NEW t \in Nat \ {0}
             PROVE  t <= compute_cache_ttl(msg) <=> AllowedTtl(msg, t)
  OBVIOUS
<1> DEFINE R == NotOpt(msg.answers) \cup NotOpt(msg.authority)
           ttls == {rr.ttl : rr \in R}
           F == FirstSoaMinimum(msg.authority)
           N == IF IsNegative(msg) THEN F \cup {Ceiling} ELSE {}
           S == ttls \cup N
           failed == msg.rcode \in {kRcodeServFail, kRcodeNotImp}
           soaAllows == \A i \in DOMAIN msg.authority :
              (/\ msg.authority[i].type = "SOA" /\ msg.authority[i].minimum # NoMinimum
               /\ \A h \in 1..(i-1) : msg.authority[h].type # "SOA")
              => t <= msg.authority[i].minimum
           negative == msg.rcode = kRcodeNxDomain \/ msg.answers = <<>>
<1>1. compute_cache_ttl(msg) = IF failed \/ ttls = {} \/ 0 \in ttls THEN 0 ELSE Min(S)
  BY Zenon DEF compute_cache_ttl
<1>2. AllowedTtl(msg, t) <=> /\ ~failed /\ R # {} /\ \A rr \in R : t <= rr.ttl
                             /\ negative => t <= Ceiling /\ soaAllows
  BY Zenon DEF AllowedTtl
<1>3. soaAllows <=> \A x \in F : t <= x
  <2>1. /\ \A x \in F : \E i \in DOMAIN msg.authority :
             /\ FirstSoa(msg.authority, i) /\ msg.authority[i].minimum # NoMinimum
             /\ x = msg.authority[i].minimum
        /\ \A i \in DOMAIN msg.authority :
             (FirstSoa(msg.authority, i) /\ msg.authority[i].minimum # NoMinimum)
                 => msg.authority[i].minimum \in F
    BY SoaMinimum, Zenon
  <2> HIDE DEF F
  <2> QED BY <2>1, Zenon DEF FirstSoa
<1>4. R # {} => (negative <=> IsNegative(msg))
  BY CountedRecords, Zenon DEF IsNegative
<1>5. /\ \A rr \in R : rr.ttl \in Nat
      /\ F \in SUBSET Nat /\ Ceiling \in Nat
  BY CountedRecords, SoaMinimum, CacheTtlAssumption, Zenon
<1> HIDE DEF R, F, failed, soaAllows, negative
<1>6. ttls \in SUBSET Nat /\ N \in SUBSET Nat /\ (ttls = {} <=> R = {})
  BY <1>5, Zenon
<1>7. (\A x \in ttls : t <= x) <=> \A rr \in R : t <= rr.ttl
  BY Zenon
<1>8. (\A x \in N : t <= x) <=> (IsNegative(msg) => t <= Ceiling /\ \A x \in F : t <= x)
  BY Zenon
<1> HIDE DEF ttls, N
<1>9. ~(t <= 0) /\ t \in Nat
  OBVIOUS
<1>10. CASE failed \/ ttls = {} \/ 0 \in ttls
  BY <1>1, <1>2, <1>6, <1>7, <1>9, <1>10, Zenon
<1>11. CASE ~(failed \/ ttls = {} \/ 0 \in ttls)
  <2>1. S \in SUBSET Nat /\ S # {}
    BY <1>6, <1>11, Zenon
  <2>2. (\A x \in S : t <= x) <=> (\A x \in ttls : t <= x) /\ (\A x \in N : t <= x)
    BY Zenon
  <2> HIDE DEF S
  <2>3. t <= Min(S) <=> \A x \in S : t <= x
    BY <1>9, <2>1, BelowMin
  <2> QED BY <1>1, <1>2, <1>3, <1>4, <1>6, <1>7, <1>8, <1>11, <2>2, <2>3, Zenon
<1> QED BY <1>10, <1>11

-----------------------------------------------------------------------------
(* Where rewrite_ttls writes.                                              *)

\* Addresses and offsets count modulo the size of the address space.
LEMMA Wraps ==
    ASSUME NEW N \in Nat \ {0}, NEW x \in Int
    PROVE  /\ (0 <= x /\ x < N) => x % N = x
           /\ (-N <= x /\ x < 0) => x % N = x + N
<1>1. PICK q \in Int, r \in 0..(N - 1) : x = N * q + r /\ r = x % N
  OBVIOUS
<1>2. r < N /\ 0 <= r /\ r \in Int
  OBVIOUS
<1>3. ASSUME 0 <= x, x < N PROVE r = x
  <2>1. ~(q >= 1)
    <3> SUFFICES ASSUME q >= 1 PROVE FALSE
      OBVIOUS
    <3>1. N * q >= N
      OBVIOUS
    <3> QED BY <1>1, <1>2, <1>3, <3>1
  <2>2. ~(q <= -1)
    <3> SUFFICES ASSUME q <= -1 PROVE FALSE
      OBVIOUS
    <3>1. N * q <= -N
      OBVIOUS
    <3> QED BY <1>1, <1>2, <1>3, <3>1
  <2>3. q = 0
    BY <2>1, <2>2
  <2> QED BY <1>1, <2>3
<1>4. ASSUME -N <= x, x < 0 PROVE r = x + N
  <2>1. ~(q >= 0)
    <3> SUFFICES ASSUME q >= 0 PROVE FALSE
      OBVIOUS
    <3>1. N * q >= 0
      OBVIOUS
    <3> QED BY <1>1, <1>2, <1>4, <3>1
  <2>2. ~(q <= -2)
    <3> SUFFICES ASSUME q <= -2 PROVE FALSE
      OBVIOUS
    <3>1. N * q <= -2 * N
      OBVIOUS
    <3> QED BY <1>1, <1>2, <1>4, <3>1
  <2>3. q = -1
    BY <2>1, <2>2
  <2> QED BY <1>1, <2>3
<1> QED BY <1>1, <1>3, <1>4

\* The RDATA of every record lies in the message, behind its TTL and RDLENGTH.
OnWire(msg) == \A rr \in AllRecords(msg) : rr.pos \in kTtlBackOffset..msg.size

\* rewrite_ttls writes at the TTL fields of every message and nowhere else,
\* wherever the parsed buffer and the cached bytes lie.
THEOREM TtlFieldsOnly ==
    \A msg \in Message : OnWire(msg) =>
        \A parsedAt, base \in 0..(AddrSpace - msg.size) : OnlyTtlFields(msg, parsedAt, base)
<1> SUFFICES ASSUME NEW msg \in Message, OnWire(msg),
                    NEW parsedAt \in 0..(AddrSpace - msg.size),
                    NEW base \in 0..(AddrSpace - msg.size)
             PROVE  OnlyTtlFields(msg, parsedAt, base)
  OBVIOUS
<1> DEFINE Off(rr) == (parsedAt + rr.pos - base - kTtlBackOffset) % AddrSpace
           offsets == {Off(rr) : rr \in AllRecords(msg)}
           written == {off \in offsets : (off + kTtlSize) % AddrSpace <= msg.size}
<1>1. OnlyTtlFields(msg, parsedAt, base) <=>
        /\ Disjoint(parsedAt, base, msg.size) => written = {}
        /\ parsedAt = base => written = {TtlField(rr) : rr \in AllRecords(msg)}
  BY Zenon DEF OnlyTtlFields, WrittenOffsets, collect_ttl_offsets
<1>2. PICK size \in Nat, N \in Nat \ {0} : size = msg.size /\ N = AddrSpace
  BY CacheTtlAssumption, Zenon DEF Message
<1>3. ASSUME NEW rr \in AllRecords(msg)
      PROVE  /\ Disjoint(parsedAt, base, msg.size) => ~((Off(rr) + kTtlSize) % AddrSpace <= msg.size)
             /\ parsedAt = base => /\ Off(rr) = TtlField(rr)
                                   /\ (Off(rr) + kTtlSize) % AddrSpace <= msg.size
  <2>1. PICK pos \in Nat : pos = rr.pos /\ 6 <= pos /\ pos <= size
    <3>1. rr.pos \in 6..size
      BY <1>2, Zenon DEF OnWire, kTtlBackOffset
    <3> QED BY <3>1
  <2>2. PICK e \in Int : e = base - parsedAt /\ -(N - size) <= e /\ e <= N - size
    BY <1>2
  <2>3. parsedAt + pos - base - 6 = pos - 6 - e
    BY <1>2, <2>2
  <2>4. Off(rr) = (pos - 6 - e) % N
    BY <1>2, <2>1, <2>3 DEF kTtlBackOffset
  <2>5. Disjoint(parsedAt, base, msg.size) <=> (e % N >= size /\ N - (e % N) >= size)
    BY <1>2, <2>2, Zenon DEF Disjoint
  <2>6. CASE e >= 0
    <3>0. 0 <= e /\ e < N
      BY <1>2, <2>1, <2>2, <2>6
    <3>1. e % N = e
      BY <3>0, Wraps
    <3>2. ASSUME Disjoint(parsedAt, base, msg.size)
          PROVE  ~((Off(rr) + kTtlSize) % AddrSpace <= msg.size)
      <4>1. e >= size /\ N - e >= size
        BY <2>5, <3>1, <3>2, Zenon
      <4>2. pos - 6 - e \in Int /\ -N <= pos - 6 - e /\ pos - 6 - e < 0
        BY <1>2, <2>1, <2>2, <4>1
      <4>3. Off(rr) = (pos - 6 - e) + N
        BY <2>4, <4>2, Wraps, Zenon
      <4>4. PICK y \in Int : y = (pos - 6 - e) + N + 4 /\ 0 <= y /\ y < N /\ y > size
        BY <1>2, <2>1, <2>2, <4>1
      <4>5. y % N = y
        BY <4>4, Wraps
      <4>6. ~(y % N <= size)
        BY <4>4, <4>5
      <4> QED BY <1>2, <4>3, <4>4, <4>6, Zenon DEF kTtlSize
    <3>3. ASSUME parsedAt = base
          PROVE  Off(rr) = TtlField(rr) /\ (Off(rr) + kTtlSize) % AddrSpace <= msg.size
      <4>1. e = 0 /\ pos - 6 - e = pos - 6 /\ 0 <= pos - 6 /\ pos - 6 < N /\ pos - 6 \in Int
        BY <1>2, <2>1, <2>2, <3>3
      <4>2. Off(rr) = pos - 6
        BY <2>4, <4>1, Wraps
      <4>3. PICK y \in Int : y = (pos - 6) + 4 /\ 0 <= y /\ y < N /\ y <= size
        BY <1>2, <2>1, <2>2, <4>1
      <4>4. y % N = y
        BY <4>3, Wraps
      <4>5. TtlField(rr) = pos - 6
        BY <2>1 DEF TtlField
      <4>6. (Off(rr) + kTtlSize) % AddrSpace <= msg.size
        BY <1>2, <4>2, <4>3, <4>4, Zenon DEF kTtlSize
      <4> QED BY <4>2, <4>5, <4>6, Zenon
    <3> QED BY <3>2, <3>3
  <2>7. CASE e < 0
    <3>0. -N <= e /\ e < 0
      BY <1>2, <2>1, <2>2, <2>7
    <3>1. e % N = e + N
      BY <3>0, Wraps
    <3>2. ASSUME Disjoint(parsedAt, base, msg.size)
          PROVE  ~((Off(rr) + kTtlSize) % AddrSpace <= msg.size)
      <4>1. -e >= size
        BY <1>2, <2>2, <2>5, <3>1, <3>2
      <4>2. pos - 6 - e \in Int /\ 0 <= pos - 6 - e /\ pos - 6 - e < N
        BY <1>2, <2>1, <2>2, <2>7
      <4>3. Off(rr) = pos - 6 - e
        BY <2>4, <4>2, Wraps
      <4>4. PICK y \in Int : y = (pos - 6 - e) + 4 /\ 0 <= y /\ y < N /\ y > size
        BY <1>2, <2>1, <2>2, <4>1
      <4>5. y % N = y
        BY <4>4, Wraps
      <4>6. ~(y % N <= size)
        BY <4>4, <4>5
      <4> QED BY <1>2, <4>3, <4>4, <4>6, Zenon DEF kTtlSize
    <3>3. parsedAt # base
      BY <1>2, <2>2, <2>7
    <3> QED BY <3>2, <3>3
  <2> QED BY <2>6, <2>7
<1>4. Disjoint(parsedAt, base, msg.size) => written = {}
  BY <1>3, Zenon
<1>5. parsedAt = base => written = {TtlField(rr) : rr \in AllRecords(msg)}
  BY <1>3, Zenon
<1> QED BY <1>1, <1>4, <1>5, Zenon
-----------------------------------------------------------------------------
(* The inputs MCAlgorithms builds are of the kind the theorems are about.  *)

MessageInv == m \in Message /\ OnWire(m)
BodyInv == body \in Seq(Bytes) /\ Len(body) <= MaxBytes
PaddingInv == padding = NoQuery \/ (padding.query \in PadQuery /\ padding.block \in Nat)
ResponseInv == response = NoResponse \/
    (/\ response \in [lines: Seq(StatusLines \cup HeaderLines), content: Seq(Nat)]
     /\ IsHead(response.lines))
WireInv == MessageInv /\ BodyInv /\ PaddingInv /\ ResponseInv

\* A message grows by a record behind what it holds, into one of its sections.
Grown(msg, rr, n) ==
    {[msg EXCEPT !.answers = Append(@, rr), !.size = @ + FixedPart + n],
     [msg EXCEPT !.authority = Append(@, rr), !.size = @ + FixedPart + n],
     [msg EXCEPT !.additional = Append(@, rr), !.size = @ + FixedPart + n]}

\* It stays a message, with its records where they were.
LEMMA GrownIsMessage ==
    ASSUME NEW msg \in Message, OnWire(msg), NEW rr \in ResourceRecord,
           rr.pos = msg.size + FixedPart, NEW n \in Nat, NEW new \in Grown(msg, rr, n)
    PROVE  new \in Message /\ OnWire(new)
<1>1. /\ msg.rcode \in Nat /\ msg.size \in Nat /\ msg.answers \in Seq(ResourceRecord)
      /\ msg.authority \in Seq(ResourceRecord) /\ msg.additional \in Seq(ResourceRecord)
  BY Zenon DEF Message
<1>2. ASSUME NEW s \in Seq(ResourceRecord)
      PROVE  Append(s, rr) \in Seq(ResourceRecord) /\ Rec(Append(s, rr)) \subseteq Rec(s) \cup {rr}
  BY DEF Rec
<1>3. msg.size + FixedPart + n \in Nat /\ msg.size <= msg.size + FixedPart + n
      /\ msg.size + FixedPart \in kTtlBackOffset..(msg.size + FixedPart + n)
  BY <1>1 DEF FixedPart, kTtlBackOffset
<1>4. /\ new.size = msg.size + FixedPart + n /\ new.rcode = msg.rcode
      /\ \/ new.answers = Append(msg.answers, rr) /\ new.authority = msg.authority
            /\ new.additional = msg.additional
         \/ new.answers = msg.answers /\ new.authority = Append(msg.authority, rr)
            /\ new.additional = msg.additional
         \/ new.answers = msg.answers /\ new.authority = msg.authority
            /\ new.additional = Append(msg.additional, rr)
      /\ new \in Message
  <2>1. CASE new = [msg EXCEPT !.answers = Append(@, rr), !.size = @ + FixedPart + n]
    BY <1>1, <1>2, <1>3, <2>1, ZenonT(40) DEF Message
  <2>2. CASE new = [msg EXCEPT !.authority = Append(@, rr), !.size = @ + FixedPart + n]
    BY <1>1, <1>2, <1>3, <2>2, ZenonT(40) DEF Message
  <2>3. CASE new = [msg EXCEPT !.additional = Append(@, rr), !.size = @ + FixedPart + n]
    BY <1>1, <1>2, <1>3, <2>3, ZenonT(40) DEF Message
  <2> QED BY <2>1, <2>2, <2>3, Zenon DEF Grown
<1>5. AllRecords(new) \subseteq AllRecords(msg) \cup {rr}
  <2>1. /\ Rec(Append(msg.answers, rr)) \subseteq Rec(msg.answers) \cup {rr}
        /\ Rec(Append(msg.authority, rr)) \subseteq Rec(msg.authority) \cup {rr}
        /\ Rec(Append(msg.additional, rr)) \subseteq Rec(msg.additional) \cup {rr}
    BY <1>1, <1>2, Zenon
  <2>2. /\ Rec(new.answers) \subseteq Rec(msg.answers) \cup {rr}
        /\ Rec(new.authority) \subseteq Rec(msg.authority) \cup {rr}
        /\ Rec(new.additional) \subseteq Rec(msg.additional) \cup {rr}
    BY <1>4, <2>1, Zenon
  <2> QED BY <2>2, Zenon DEF AllRecords, NotOpt
<1>6. ASSUME NEW r \in AllRecords(new) PROVE r.pos \in kTtlBackOffset..new.size
  <2>1. CASE r = rr
    BY <1>3, <1>4, <2>1, Zenon
  <2>2. CASE r \in AllRecords(msg)
    <3>1. r.pos \in kTtlBackOffset..msg.size
      BY <2>2, Zenon DEF OnWire
    <3> QED BY <1>1, <1>3, <1>4, <3>1 DEF kTtlBackOffset
  <2> QED BY <1>5, <2>1, <2>2, Zenon
<1> QED BY <1>4, <1>6, Zenon DEF OnWire

\* What AddAnswer, AddAuthority and AddAdditional append is a record.
LEMMA RecordsAre ==
    ASSUME MessageInv, NEW type \in RrTypes, NEW ttl \in Nat, NEW minimum \in Nat \cup {NoMinimum}
    PROVE  /\ Record(type, ttl, minimum) \in ResourceRecord
           /\ Record(type, ttl, minimum).pos = m.size + FixedPart
<1>1. m.size \in Nat
  BY Zenon DEF MessageInv, Message
<1>2. m.size + FixedPart \in Nat
  BY <1>1 DEF FixedPart
<1> QED BY <1>2, Zenon DEF Record, ResourceRecord

\* Each step of GrowMessage appends one.
LEMMA MessageKept == MessageInv /\ GrowMessage => MessageInv'
<1> SUFFICES ASSUME MessageInv, GrowMessage PROVE MessageInv'
  OBVIOUS
<1>1. PICK type \in RrTypes, ttl \in Nat, minimum \in Nat \cup {NoMinimum}, n \in Nat :
        m' \in Grown(m, Record(type, ttl, minimum), n)
  <2>1. \A ttl \in Ttls : ttl \in Nat
    BY AlgorithmsAssumption
  <2>2. 0 \in Nat /\ 4 \in Nat /\ 22 \in Nat
    OBVIOUS
  <2>3. /\ "A" \in RrTypes /\ "SOA" \in RrTypes /\ "NS" \in RrTypes /\ "OPT" \in RrTypes
        /\ NoMinimum \in Nat \cup {NoMinimum}
    <3>1. "A" \in RrTypes /\ "SOA" \in RrTypes /\ "NS" \in RrTypes /\ "OPT" \in RrTypes
      BY Zenon DEF RrTypes
    <3>2. NoMinimum \in Nat \cup {NoMinimum}
      BY Zenon
    <3> QED BY <3>1, <3>2, Zenon
  <2>4. ASSUME NEW ttl \in Nat, NEW n \in Nat, AddAnswer(ttl, n)
        PROVE  m' \in Grown(m, Record("A", ttl, NoMinimum), n)
    BY <2>4, Zenon DEF AddAnswer, Grown
  <2>5. ASSUME NEW type \in RrTypes, NEW ttl \in Nat, NEW minimum \in Nat \cup {NoMinimum},
               NEW n \in Nat, AddAuthority(type, ttl, minimum, n)
        PROVE  m' \in Grown(m, Record(type, ttl, minimum), n)
    BY <2>5, Zenon DEF AddAuthority, Grown
  <2>6. ASSUME NEW type \in RrTypes, NEW ttl \in Nat, NEW n \in Nat, AddAdditional(type, ttl, n)
        PROVE  m' \in Grown(m, Record(type, ttl, NoMinimum), n)
    BY <2>6, Zenon DEF AddAdditional, Grown
  <2>7. CASE \E ttl \in Ttls, n \in {0, 4} : AddAnswer(ttl, n)
    <3>1. PICK ttl \in Nat, n \in Nat : AddAnswer(ttl, n)
      BY <2>1, <2>2, <2>7, Zenon
    <3> QED BY <2>3, <2>4, <3>1, Zenon
  <2>8. CASE \/ \E ttl \in Ttls, minimum \in Ttls \cup {NoMinimum} : AddAuthority("SOA", ttl, minimum, 22)
             \/ \E ttl \in Ttls : AddAuthority("NS", ttl, NoMinimum, 4)
    <3>1. PICK type \in RrTypes, ttl \in Nat, minimum \in Nat \cup {NoMinimum}, n \in Nat :
            AddAuthority(type, ttl, minimum, n)
      <4>1. CASE \E ttl \in Ttls, minimum \in Ttls \cup {NoMinimum} : AddAuthority("SOA", ttl, minimum, 22)
        <5>1. \A x \in Ttls \cup {NoMinimum} : x \in Nat \cup {NoMinimum}
          BY <2>1, Zenon
        <5> QED BY <2>1, <2>2, <2>3, <4>1, <5>1, Zenon
      <4>2. CASE \E ttl \in Ttls : AddAuthority("NS", ttl, NoMinimum, 4)
        BY <2>1, <2>2, <2>3, <4>2, Zenon
      <4> QED BY <2>8, <4>1, <4>2, Zenon
    <3>2. m' \in Grown(m, Record(type, ttl, minimum), n)
      BY <2>5, <3>1, Zenon
    <3> QED BY <3>2, Zenon
  <2>9. CASE \/ \E ttl \in Ttls, n \in {0, 4} : AddAdditional("A", ttl, n)
             \/ AddAdditional("OPT", 0, 0)
    <3>1. PICK type \in RrTypes, ttl \in Nat, n \in Nat : AddAdditional(type, ttl, n)
      BY <2>1, <2>2, <2>3, <2>9, Zenon
    <3>2. m' \in Grown(m, Record(type, ttl, NoMinimum), n)
      BY <2>6, <3>1, Zenon
    <3> QED BY <2>3, <3>2, Zenon
  <2> QED BY <2>7, <2>8, <2>9, Zenon DEF GrowMessage
<1>2. m \in Message /\ OnWire(m)
  BY Zenon DEF MessageInv
<1>3. m' \in Message /\ OnWire(m')
  BY <1>1, <1>2, RecordsAre, GrownIsMessage, Zenon
<1> QED BY <1>3, Zenon DEF MessageInv, OnWire

\* The bytes, the query and the response grow as they should.
LEMMA WireKept ==
    BodyInv /\ PaddingInv /\ ResponseInv /\ WireNext => BodyInv' /\ PaddingInv' /\ ResponseInv'
<1> SUFFICES ASSUME BodyInv, PaddingInv, ResponseInv, WireNext
             PROVE  BodyInv' /\ PaddingInv' /\ ResponseInv'
  OBVIOUS
<1>1. UNCHANGED body => BodyInv'
  BY Zenon DEF BodyInv
<1>2. UNCHANGED padding => PaddingInv'
  BY Zenon DEF PaddingInv
<1>3. UNCHANGED response => ResponseInv'
  BY Zenon DEF ResponseInv, IsHead
<1>4. CASE GrowBody
  <2>1. PICK b \in Bytes : body' = Append(body, b)
    BY <1>4, Zenon DEF GrowBody
  <2>2. body \in Seq(Bytes) /\ Len(body) < MaxBytes /\ MaxBytes \in Nat
    BY <1>4, AlgorithmsAssumption DEF GrowBody, BodyInv
  <2>3. body' \in Seq(Bytes) /\ Len(body') <= MaxBytes
    BY <2>1, <2>2
  <2>4. UNCHANGED <<padding, response>>
    BY <1>4, Zenon DEF GrowBody
  <2> QED BY <1>2, <1>3, <2>3, <2>4, Zenon DEF BodyInv
<1>5. CASE ChooseQuery
  <2>1. PICK parses \in BOOLEAN, additional \in AdditionalSections, trailing \in {0, 3},
             block \in 0..MaxBlock :
          padding' = [query |-> [parses |-> parses, size |-> SizeOf(additional, trailing),
                                 additional |-> additional, trailing |-> trailing],
                      block |-> block]
    BY <1>5, Zenon DEF ChooseQuery
  <2>2. additional \in Seq(PadRecord) /\ Len(additional) <= kU16Max
    <3>1. kU16Max \in Nat /\ kU16Max > 4
      BY EdnsPaddingAssumption DEF kPaddingOptionHead
    <3>2. RR("A", 4) \in PadRecord /\ \A n \in 0..kU16Max : RR("OPT", n) \in PadRecord
      BY <3>1 DEF RR, PadRecord
    <3>3. 0 \in 0..kU16Max /\ 4 \in 0..kU16Max /\ kU16Max \in 0..kU16Max
      BY <3>1
    <3>4. ASSUME NEW T, NEW a \in T, NEW b \in T
          PROVE  /\ <<>> \in Seq(T) /\ Len(<<>>) = 0
                 /\ <<a>> \in Seq(T) /\ Len(<<a>>) = 1
                 /\ <<a, b>> \in Seq(T) /\ Len(<<a, b>>) = 2
      OBVIOUS
    <3>5. ASSUME NEW T, NEW a \in T
          PROVE  /\ [k \in 1..kU16Max |-> a] \in Seq(T) /\ Len([k \in 1..kU16Max |-> a]) = kU16Max
      BY <3>1
    <3>6. 0 <= kU16Max /\ 1 <= kU16Max /\ 2 <= kU16Max /\ kU16Max <= kU16Max
      BY <3>1
    <3>7. CASE additional \in {<<>>, <<RR("A", 4)>>, [k \in 1..kU16Max |-> RR("A", 4)]}
      BY <3>2, <3>4, <3>5, <3>6, <3>7, Zenon
    <3>8. CASE additional \in {<<RR("OPT", n)>> : n \in 0..kU16Max}
      BY <3>2, <3>4, <3>6, <3>8, Zenon
    <3>9. CASE additional \in {<<RR("A", 4), RR("OPT", n)>> : n \in {0, kU16Max}}
      BY <3>2, <3>3, <3>4, <3>6, <3>9, Zenon
    <3>10. CASE additional \in {<<RR("OPT", 0), RR("A", 4)>>, <<RR("OPT", 0), RR("OPT", 4)>>}
      BY <3>2, <3>3, <3>4, <3>6, <3>10, Zenon
    <3> QED BY <3>7, <3>8, <3>9, <3>10, Zenon DEF AdditionalSections
  <2>3. trailing \in Nat /\ block \in Nat
    BY AlgorithmsAssumption
  <2>4. SizeOf(additional, trailing) \in Nat
    BY <2>2, <2>3, SizeIsNat, Zenon
  <2>5. PICK q : /\ q = [parses |-> parses, size |-> SizeOf(additional, trailing),
                        additional |-> additional, trailing |-> trailing]
                 /\ q \in PadQuery
    <3>1. ASSUME NEW p \in BOOLEAN, NEW s \in Nat, NEW a \in Seq(PadRecord), NEW t \in Nat,
                 Len(a) <= kU16Max
          PROVE  [parses |-> p, size |-> s, additional |-> a, trailing |-> t] \in PadQuery
      <4>1. PICK r : r = [parses |-> p, size |-> s, additional |-> a, trailing |-> t]
        BY Zenon
      <4>2. r \in [parses: BOOLEAN, size: Nat, additional: Seq(PadRecord), trailing: Nat]
        BY <4>1, Zenon
      <4>3. r.additional = a
        BY <4>1
      <4> QED BY <3>1, <4>1, <4>2, <4>3, Zenon DEF PadQuery
    <3> QED BY <2>2, <2>3, <2>4, <3>1, Zenon
  <2>6. padding'.query = q /\ padding'.block = block
    BY <2>1, <2>5, ZenonT(40)
  <2>7. UNCHANGED <<body, response>>
    BY <1>5, Zenon DEF ChooseQuery
  <2> QED BY <1>1, <1>3, <2>3, <2>5, <2>6, <2>7, Zenon DEF PaddingInv
<1>6. CASE ChooseResponse
  <2>1. PICK first \in StatusLines, n \in 0..3 :
          response' = [lines |-> <<first>>, content |-> [k \in 1..n |-> k]]
    BY <1>6, Zenon DEF ChooseResponse
  <2>2. ASSUME NEW T, NEW a \in T PROVE <<a>> \in Seq(T) /\ Len(<<a>>) = 1 /\ <<a>>[1] = a
    OBVIOUS
  <2>3. <<first>> \in Seq(StatusLines \cup HeaderLines)
    BY <2>2, Zenon
  <2>4. IsHead(<<first>>)
    <3>1. first \in [spaces: 0..2, status: Nat]
      BY DEF StatusLines, StatusLine
    <3>2. 2..1 = {} /\ Len(<<>>) = 0 /\ 0 # 1
      OBVIOUS
    <3> QED BY <2>2, <3>1, <3>2, Zenon DEF IsHead
  <2>5. [k \in 1..n |-> k] \in Seq(Nat)
    OBVIOUS
  <2>6. response'.lines = <<first>> /\ response'.content = [k \in 1..n |-> k]
    BY <2>1, Zenon
  <2>7. UNCHANGED <<body, padding>>
    BY <1>6, Zenon DEF ChooseResponse
  <2>8. response' \in [lines: Seq(StatusLines \cup HeaderLines), content: Seq(Nat)]
    BY <2>1, <2>3, <2>5, Zenon
  <2>9. ResponseInv'
    BY <2>4, <2>6, <2>8, Zenon DEF ResponseInv, IsHead
  <2> QED BY <1>1, <1>2, <2>7, <2>9, Zenon
<1>7. CASE AddLine
  <2>1. PICK l \in HeaderLines : response' = [response EXCEPT !.lines = Append(@, l)]
    BY <1>7, Zenon DEF AddLine
  <2>2. /\ response \in [lines: Seq(StatusLines \cup HeaderLines), content: Seq(Nat)]
        /\ IsHead(response.lines)
    BY <1>7, Zenon DEF AddLine, ResponseInv
  <2> DEFINE lines == response.lines
             more == Append(lines, l)
  <2>3. l \in Fields
    <3>1. ASSUME NEW c \in BOOLEAN, NEW name \in {"Content-Length", "content-type", ""},
                 NEW num \in Nat \cup {NaN},
                 NEW t \in {"", "application/dns-message", "Application/DNS-Message"},
                 name = "content-type" => t # ""
          PROVE  Line(c, name, num, t) \in Fields
      <4>1. PICK r : r = [colon |-> c, name |-> name, number |-> num, text |-> t]
        BY Zenon
      <4>2. r \in [colon: BOOLEAN, name: {"Content-Length", "content-type", ""}, number: Nat \cup {NaN},
                   text: {"", "application/dns-message", "Application/DNS-Message"}]
        BY <4>1, Zenon
      <4>3. r.name = name /\ r.text = t
        BY <4>1, Zenon
      <4> QED BY <3>1, <4>1, <4>2, <4>3, Zenon DEF Fields, Line
    <3>2. /\ "" # "content-type" /\ "Content-Length" # "content-type"
          /\ "application/dns-message" # "" /\ "Application/DNS-Message" # ""
      OBVIOUS
    <3>3. 0 \in Nat /\ 2 \in Nat /\ 3 \in Nat
      OBVIOUS
    <3>4. CASE l \in {Line(TRUE, "Content-Length", n, "") : n \in {NaN, 0, 2, 3}}
      BY <3>1, <3>2, <3>3, <3>4, Zenon
    <3>5. CASE l \in {Line(TRUE, "content-type", NaN, t) : t \in
                        {"application/dns-message", "Application/DNS-Message"}}
      BY <3>1, <3>2, <3>5, Zenon
    <3>6. CASE l \in {Line(FALSE, "", NaN, "")}
      BY <3>1, <3>2, <3>6, Zenon
    <3> QED BY <3>4, <3>5, <3>6, Zenon DEF HeaderLines
  <2>4. lines \in Seq(StatusLines \cup HeaderLines) /\ response.content \in Seq(Nat)
    BY <2>2, Zenon
  <2>5. response'.lines = more /\ response'.content = response.content
    BY <2>1, <2>2, ZenonT(40)
  <2>6. more \in Seq(StatusLines \cup HeaderLines)
    <3>1. ASSUME NEW T, NEW s \in Seq(T), NEW a \in T PROVE Append(s, a) \in Seq(T)
      OBVIOUS
    <3> QED BY <2>4, <3>1, Zenon
  <2>7. response' \in [lines: Seq(StatusLines \cup HeaderLines), content: Seq(Nat)]
    <3> HIDE DEF more
    <3>1. response' = [response EXCEPT !.lines = more]
      BY <2>1, Zenon DEF more
    <3> QED BY <2>2, <2>6, <3>1, ZenonT(40)
  <2>8. IsHead(more)
    <3>1. ASSUME NEW T, NEW s \in Seq(T), s # <<>>, NEW a
          PROVE  /\ Append(s, a) # <<>> /\ Append(s, a)[1] = s[1]
                 /\ \A k \in 2..Len(Append(s, a)) :
                      (k \in 2..Len(s) /\ Append(s, a)[k] = s[k]) \/ Append(s, a)[k] = a
      <4>1. /\ Len(s) \in Nat /\ Len(s) # 0 /\ Len(Append(s, a)) = Len(s) + 1
            /\ Append(s, a)[Len(s) + 1] = a
            /\ \A k \in 1..Len(s) : Append(s, a)[k] = s[k]
        BY <3>1
      <4>2. Append(s, a) # <<>>
        <5>1. Len(<<>>) = 0 /\ \A n \in Nat : n + 1 # 0
          OBVIOUS
        <5> QED BY <4>1, <5>1, Zenon
      <4>3. /\ 1 \in 1..Len(s) /\ \A k \in 2..(Len(s) + 1) : k \in 2..Len(s) \/ k = Len(s) + 1
            /\ \A k \in 2..Len(s) : k \in 1..Len(s)
        BY <4>1
      <4> QED BY <4>1, <4>2, <4>3, Zenon
    <3>2. lines # <<>> /\ lines[1] \in [spaces: 0..2, status: Nat]
          /\ \A k \in 2..Len(lines) : lines[k] \in Fields
      BY <2>2, Zenon DEF IsHead
    <3> HIDE DEF lines
    <3>3. /\ more # <<>> /\ more[1] = lines[1]
          /\ \A k \in 2..Len(more) : (k \in 2..Len(lines) /\ more[k] = lines[k]) \/ more[k] = l
      BY <2>4, <3>1, <3>2, Zenon
    <3> HIDE DEF more
    <3> QED BY <2>3, <3>2, <3>3, Zenon DEF IsHead
  <2>9. UNCHANGED <<body, padding>>
    BY <1>7, Zenon DEF AddLine
  <2>10. ResponseInv'
    <3> HIDE DEF more
    <3> QED BY <2>5, <2>7, <2>8, Zenon DEF ResponseInv, IsHead
  <2> QED BY <1>1, <1>2, <2>9, <2>10, Zenon
<1> QED BY <1>4, <1>5, <1>6, <1>7, Zenon DEF WireNext

\* WireInv is inductive.
LEMMA SentKept == WireInv /\ [AlgorithmsNext]_algorithmVars => WireInv'
<1> SUFFICES ASSUME WireInv, [AlgorithmsNext]_algorithmVars PROVE WireInv'
  OBVIOUS
<1>1. MessageInv /\ BodyInv /\ PaddingInv /\ ResponseInv
  BY Zenon DEF WireInv
<1>2. /\ UNCHANGED m => MessageInv'
      /\ UNCHANGED wireVars => BodyInv' /\ PaddingInv' /\ ResponseInv'
  BY <1>1, Zenon DEF MessageInv, BodyInv, PaddingInv, ResponseInv, wireVars
<1>3. CASE GrowMessage /\ UNCHANGED wireVars
  BY <1>1, <1>2, <1>3, MessageKept, Zenon DEF WireInv
<1>4. CASE WireNext /\ UNCHANGED m
  BY <1>1, <1>2, <1>4, WireKept, Zenon DEF WireInv
<1>5. CASE UNCHANGED <<m, wireVars>>
  BY <1>2, <1>5, Zenon DEF WireInv
<1> QED BY <1>3, <1>4, <1>5, Zenon DEF AlgorithmsNext, algorithmVars

\* A header, no bytes, no query and no response are inputs.
LEMMA FirstSent == AlgorithmsInit => WireInv
<1> SUFFICES ASSUME AlgorithmsInit PROVE WireInv
  OBVIOUS
<1>1. BodyInv
  <2>1. 0 <= MaxBytes
    <3>1. kMaxFrame \in Int
      <4>1. kByte \in Nat
        BY DEF kByte
      <4> QED BY <4>1 DEF kMaxFrame
    <3> QED BY <3>1, AlgorithmsAssumption
  <2>2. <<>> \in Seq(Bytes) /\ Len(<<>>) = 0
    OBVIOUS
  <2> QED BY <2>1, <2>2, Zenon DEF BodyInv, AlgorithmsInit, WireInit
<1>2. PaddingInv /\ ResponseInv
  BY Zenon DEF PaddingInv, ResponseInv, AlgorithmsInit, WireInit
<1>3. \A T : <<>> \in Seq(T) /\ Len(<<>>) = 0
  OBVIOUS
<1>4. MessageInv
  <2>1. PICK rcode \in {0, kRcodeServFail, kRcodeNxDomain, kRcodeNotImp} :
          m = [rcode |-> rcode, size |-> HeaderSize, answers |-> <<>>,
               authority |-> <<>>, additional |-> <<>>]
    BY Zenon DEF AlgorithmsInit
  <2>2. rcode \in Nat /\ HeaderSize \in Nat
    BY DEF kRcodeServFail, kRcodeNxDomain, kRcodeNotImp, HeaderSize
  <2>3. m \in Message
    BY <1>3, <2>1, <2>2, Zenon DEF Message
  <2>4. m.answers = <<>> /\ m.authority = <<>> /\ m.additional = <<>>
    BY <2>1
  <2>5. DOMAIN <<>> = {}
    OBVIOUS
  <2>6. AllRecords(m) = {}
    BY <2>4, <2>5, Zenon DEF AllRecords, NotOpt, Rec
  <2> QED BY <2>3, <2>6, Zenon DEF MessageInv, OnWire
<1> QED BY <1>1, <1>2, <1>4, Zenon DEF WireInv

\* MCAlgorithms sends and receives such messages only.
LEMMA SentAlways == AlgorithmsSpec => []WireInv
  BY FirstSent, SentKept, PTL DEF AlgorithmsSpec

\* compute_cache_ttl gives every response the longest time each rule allows.
THEOREM TtlIsLongest == AlgorithmsSpec => []TtlIsLongestAllowed
<1>1. WireInv => TtlIsLongestAllowed
  <2> SUFFICES ASSUME WireInv, NEW t \in 1..(Max(Ttls) + 1)
               PROVE  t <= compute_cache_ttl(m) <=> AllowedTtl(m, t)
    BY Zenon DEF TtlIsLongestAllowed
  <2>1. m \in Message
    BY Zenon DEF WireInv, MessageInv
  <2>2. t \in Nat \ {0}
    <3>1. Max(Ttls) \in Ttls
      <4>1. \E x \in Ttls : \A y \in Ttls : x >= y
        <5>1. \A x, y \in Nat : y <= x => x >= y
          OBVIOUS
        <5> QED BY <5>1, AlgorithmsAssumption, Zenon
      <4> QED BY <4>1, Zenon DEF Max
    <3>2. PICK k \in Nat : k = Max(Ttls)
      BY <3>1, AlgorithmsAssumption, Zenon
    <3>3. t \in 1..(k + 1)
      BY <3>2, Zenon
    <3> QED BY <3>3
  <2> QED BY <2>1, <2>2, LongestTtl, Zenon
<1> QED BY <1>1, SentAlways, PTL

\* rewrite_ttls writes at the TTL fields and nowhere else.
THEOREM RewritesTtlFields == AlgorithmsSpec => []RewriteOnlyTtlFields
<1>1. WireInv => RewriteOnlyTtlFields
  <2> SUFFICES ASSUME WireInv, NEW parsedAt \in {0, AddrSpace - m.size},
                      NEW base \in 0..(AddrSpace - m.size)
               PROVE  OnlyTtlFields(m, parsedAt, base)
    BY Zenon DEF RewriteOnlyTtlFields
  <2>1. m \in Message /\ OnWire(m)
    BY Zenon DEF WireInv, MessageInv
  <2>2. PICK size \in Nat, N \in Nat : size = m.size /\ N = AddrSpace
    BY <2>1, CacheTtlAssumption, Zenon DEF Message
  <2>3. parsedAt \in 0..(AddrSpace - m.size)
    BY <2>2
  <2> QED BY <2>1, <2>3, TtlFieldsOnly, Zenon
<1> QED BY <1>1, SentAlways, PTL

\* pad_query gives what the upstream can parse, of the size it should have.
THEOREM QueriesWellPadded == AlgorithmsSpec => []PaddedIsWellFormed
<1>1. WireInv => PaddedIsWellFormed
  BY PaddingIsWellFormed, Zenon DEF WireInv, PaddingInv, PaddedIsWellFormed
<1> QED BY <1>1, SentAlways, PTL

\* What comes off a TLS stream is the message that was put on it.
THEOREM RepliesWhole == AlgorithmsSpec => []RepliesAreWhole
<1>1. WireInv => RepliesAreWhole
  <2> SUFFICES ASSUME WireInv PROVE RepliesAreWhole
    OBVIOUS
  <2> DEFINE lines == response.lines
             content == response.content
             reads == {k \in 0..Len(content) : Len(lines) + k <= kHeadBuffer}
             lengths == {k \in 2..Len(lines) : lines[k].name = "Content-Length"}
             stated == lines[Min(lengths)].number
             types == {k \in 2..Len(lines) : lines[k].name = "content-type"}
             good == /\ lines[1] = StatusLine(2, 200) /\ lengths # {}
                     /\ \A k \in 2..Len(lines) : lines[k].colon
                     /\ types # {} => lines[Min(types)].text = "application/dns-message"
             frame == dot_frame(body).value
  <2>1. ASSUME response # NoResponse, NEW k \in reads
        PROVE  DohReply(lines, content, k) =
                IF ~good THEN Nothing
                ELSE IF stated \notin 0..Min({Len(content), kMaxBody}) THEN Nothing
                ELSE Some(SubSeq(content, 1, stated))
    <3>1. /\ lines \in Seq(StatusLines \cup HeaderLines) /\ content \in Seq(Nat)
          /\ IsHead(lines) /\ k \in 0..Len(content) /\ Len(lines) + k <= kHeadBuffer
      BY <2>1, Zenon DEF WireInv, ResponseInv
    <3>2. lengths = Named(lines, "Content-Length") /\ types = Named(lines, "content-type")
      BY Zenon DEF Named
    <3>3. good <=> GoodHead(lines)
      BY <3>2, Zenon DEF GoodHead
    <3>4. DohReply(lines, content, k) =
            IF ~GoodHead(lines) THEN Nothing
            ELSE IF stated \notin 0..Min({Len(content), kMaxBody}) THEN Nothing
            ELSE Some(SubSeq(content, 1, stated))
      BY <3>1, <3>2, ReplyIsContent, Zenon
    <3> HIDE DEF good, lines, content, stated
    <3> QED BY <3>3, <3>4, Zenon
  <2>2. ASSUME body # <<>>
        PROVE  /\ \A b \in Bytes : dot_read_framed(frame \o <<b>>) = Some(body)
               /\ \A k \in 0..(Len(frame) - 1) : dot_read_framed(SubSeq(frame, 1, k)) = Nothing
    <3>1. body \in Seq(Nat) /\ ~(Len(body) > kMaxFrame)
      <4>1. body \in Seq(Bytes) /\ Len(body) <= MaxBytes
        BY Zenon DEF WireInv, BodyInv
      <4>2. kMaxFrame \in Int
        <5>1. kByte \in Nat
          BY DEF kByte
        <5> QED BY <5>1 DEF kMaxFrame
      <4>3. body \in Seq(Nat)
        <5>1. ASSUME NEW A, NEW B, NEW s \in Seq(A), \A x \in A : x \in B PROVE s \in Seq(B)
          BY <5>1
        <5> QED BY <4>1, <5>1, AlgorithmsAssumption, Zenon
      <4> QED BY <4>1, <4>2, <4>3, AlgorithmsAssumption
    <3>2. \A b \in Bytes : <<b>> \in Seq(Nat)
      BY AlgorithmsAssumption
    <3> QED BY <2>2, <3>1, <3>2, FrameIsReadBack, Zenon
  <2> QED BY <2>1, <2>2, Zenon DEF RepliesAreWhole
<1> QED BY <1>1, SentAlways, PTL
=============================================================================
