--------------------------- MODULE ResolverProofs ---------------------------
(***************************************************************************)
(* The safety properties of Resolver for any number of calls, servers,     *)
(* retries, ids and ports.                                                 *)
(***************************************************************************)
EXTENDS Resolver, TLAPS

Running(c) == pc[c] \in {"new", "try", "send", "receive"}

\* The history agrees with forward's loop counters: the adapters before i have
\* had all their attempts, those behind it none, and adapter i, while the call
\* runs, as many as the counter says and one more to come.
Counted ==
    \A c \in Calls :
        /\ Running(c) => tries[c][i[c]] = a[c] /\ a[c] < Attempts(i[c])
        /\ tries[c][i[c]] <= Attempts(i[c])
        /\ \A n \in Adapters :
            /\ n < i[c] => tries[c][n] = Attempts(n)
            /\ n > i[c] => tries[c][n] = 0

\* A call has an id from its first step on, and a port while it uses the socket.
Equipped ==
    \A c \in Calls :
        /\ pc[c] \in {"try", "send", "receive"} => our_id[c] \in Ids
        /\ pc[c] \in {"send", "receive"} => port[c] \in Ports

IInv == TypeOK /\ Counted /\ Equipped /\ AnswerIsOwn

\* An adapter is given at least one attempt, and only the primary more.
LEMMA AttemptsBounds ==
    /\ \A n \in Adapters : Attempts(n) \in 1..(retries_on_primary + 1)
    /\ 1 \in Adapters
  BY ResolverAssumption DEF Attempts, Adapters

\* The invariant holds when no call has begun.
LEMMA InitEstablishes == Init => IInv
  BY ResolverAssumption, AttemptsBounds
  DEF Init, IInv, TypeOK, Counted, Equipped, AnswerIsOwn, Running, Adapters

\* One attempt more in the history, of one call on one adapter.
LEMMA OneMoreTry ==
    ASSUME TypeOK, NEW c \in Calls, tries' = [tries EXCEPT ![c][i[c]] = @ + 1]
    PROVE  /\ tries' \in [Calls -> [Adapters -> Nat]]
           /\ tries'[c][i[c]] = tries[c][i[c]] + 1
           /\ \A n \in Adapters \ {i[c]} : tries'[c][n] = tries[c][n]
           /\ \A d \in Calls \ {c} : tries'[d] = tries[d]
<1>1. tries' = [tries EXCEPT ![c] = [tries[c] EXCEPT ![i[c]] = tries[c][i[c]] + 1]]
  OBVIOUS
<1>2. tries[c] \in [Adapters -> Nat] /\ i[c] \in Adapters
  BY DEF TypeOK
<1>3. [tries[c] EXCEPT ![i[c]] = tries[c][i[c]] + 1] \in [Adapters -> Nat]
  BY <1>2
<1> QED BY <1>1, <1>2, <1>3 DEF TypeOK

\* GoOn leaves the counters of the call in step with an attempt more in the
\* history: it stays with the adapter, goes to the next one when this one's
\* attempts are used up, or ends the call with the last.
LEMMA GoOnCounts ==
    ASSUME IInv, NEW c \in Calls, Running(c), GoOn(c),
           tries' = [tries EXCEPT ![c][i[c]] = @ + 1]
    PROVE  /\ Counted'
           /\ i' \in [Calls -> Adapters] /\ a' \in [Calls -> 0..retries_on_primary]
           /\ pc' \in [Calls -> {"new", "try", "send", "receive", "returned", "threw"}]
           /\ pc'[c] \in {"try", "threw"} /\ \A d \in Calls \ {c} : pc'[d] = pc[d]
<1> DEFINE k == a[c] + 1
           at == i[c]
           CountedAt(d) ==
             /\ Running(d) => tries[d][i[d]] = a[d] /\ a[d] < Attempts(i[d])
             /\ tries[d][i[d]] <= Attempts(i[d])
             /\ \A n \in Adapters :
                 /\ n < i[d] => tries[d][n] = Attempts(n)
                 /\ n > i[d] => tries[d][n] = 0
<1> USE ResolverAssumption, AttemptsBounds
<1>1. /\ at \in 1..Servers /\ a[c] \in Nat /\ tries[c][at] = a[c] /\ k <= Attempts(at)
      /\ Attempts(at) \in 1..(retries_on_primary + 1)
      /\ \A n \in Adapters : (n < at => tries[c][n] = Attempts(n)) /\ (n > at => tries[c][n] = 0)
  <2>1. at \in 1..Servers /\ a[c] \in Nat /\ Attempts(at) \in 1..(retries_on_primary + 1)
    BY DEF IInv, TypeOK, Adapters
  <2>2. tries[c][at] = a[c] /\ a[c] < Attempts(at)
    BY DEF IInv, Counted
  <2>3. \A n \in Adapters : (n < at => tries[c][n] = Attempts(n)) /\ (n > at => tries[c][n] = 0)
    BY DEF IInv, Counted
  <2>4. k <= Attempts(at)
    BY <2>1, <2>2
  <2> QED BY <2>1, <2>2, <2>3, <2>4
<1>2. /\ tries'[c][at] = k /\ \A n \in Adapters \ {at} : tries'[c][n] = tries[c][n]
      /\ \A d \in Calls \ {c} : tries'[d] = tries[d]
  BY <1>1, OneMoreTry DEF IInv
<1>3. \A n : Attempts(n)' = Attempts(n)
  BY DEF Attempts
<1>4. /\ i' \in [Calls -> Adapters] /\ a' \in [Calls -> 0..retries_on_primary]
      /\ pc' \in [Calls -> {"new", "try", "send", "receive", "returned", "threw"}]
      /\ pc'[c] \in {"try", "threw"}
      /\ \A d \in Calls \ {c} : pc'[d] = pc[d] /\ i'[d] = i[d] /\ a'[d] = a[d]
  <2>1. CASE k < Attempts(at) /\ a' = [a EXCEPT ![c] = k] /\ UNCHANGED i
             /\ pc' = [pc EXCEPT ![c] = "try"]
    <3>1. k \in 0..retries_on_primary
      BY <1>1, <2>1
    <3> QED BY <2>1, <3>1 DEF IInv, TypeOK
  <2>2. CASE at < Servers /\ a' = [a EXCEPT ![c] = 0] /\ i' = [i EXCEPT ![c] = at + 1]
             /\ pc' = [pc EXCEPT ![c] = "try"]
    <3>1. at + 1 \in Adapters
      BY <1>1, <2>2 DEF Adapters
    <3> QED BY <2>2, <3>1 DEF IInv, TypeOK
  <2>3. CASE pc' = [pc EXCEPT ![c] = "threw"] /\ UNCHANGED <<i, a>>
    BY <2>3 DEF IInv, TypeOK
  <2> QED BY <2>1, <2>2, <2>3 DEF GoOn, NextAttempt
<1>5. CountedAt(c)'
  <2>1. CASE k < Attempts(at) /\ a'[c] = k /\ i'[c] = at
    BY <1>1, <1>2, <1>3, <2>1 DEF Adapters, Attempts
  <2>2. CASE k >= Attempts(at) /\ at < Servers /\ a'[c] = 0 /\ i'[c] = at + 1
    <3>1. at + 1 \in Adapters /\ tries'[c][at + 1] = 0
      BY <1>1, <1>2, <2>2 DEF Adapters
    <3>2. \A n \in Adapters : n < at + 1 => tries'[c][n] = Attempts(n)
      BY <1>1, <1>2, <2>2 DEF Adapters
    <3>3. \A n \in Adapters : n > at + 1 => tries'[c][n] = 0
      BY <1>1, <1>2, <2>2 DEF Adapters
    <3> QED BY <1>3, <2>2, <3>1, <3>2, <3>3
  <2>3. CASE k >= Attempts(at) /\ pc'[c] = "threw" /\ i'[c] = at
    BY <1>1, <1>2, <1>3, <2>3 DEF Adapters, Running
  <2> QED BY <2>1, <2>2, <2>3 DEF GoOn, NextAttempt, IInv, TypeOK
<1>6. ASSUME NEW d \in Calls \ {c} PROVE CountedAt(d)'
  <2>1. CountedAt(d)
    BY DEF IInv, Counted
  <2> QED BY <2>1, <1>2, <1>3, <1>4 DEF Running
<1>7. Counted'
  BY <1>5, <1>6 DEF Counted
<1> QED BY <1>4, <1>7

\* An attempt that ends the call leaves the history in step with the counters.
LEMMA LastTryCounts ==
    ASSUME IInv, NEW c \in Calls, Running(c), UNCHANGED <<i, a>>,
           tries' = [tries EXCEPT ![c][i[c]] = @ + 1],
           NEW x, x \notin {"new", "try", "send", "receive"}, pc' = [pc EXCEPT ![c] = x]
    PROVE  Counted'
<1>1. /\ i[c] \in Adapters /\ a[c] \in Nat /\ Attempts(i[c]) \in Nat
      /\ tries[c][i[c]] = a[c] /\ a[c] < Attempts(i[c])
  BY AttemptsBounds DEF IInv, TypeOK, Counted
<1>2. tries'[c][i[c]] <= Attempts(i[c])
  BY <1>1, OneMoreTry DEF IInv
<1>3. \A n : Attempts(n)' = Attempts(n)
  BY DEF Attempts
<1>4. \A n \in Adapters : (n < i[c] => tries'[c][n] = Attempts(n)) /\ (n > i[c] => tries'[c][n] = 0)
  <2>1. \A n \in Adapters : n < i[c] \/ n > i[c] => n # i[c]
    BY <1>1 DEF Adapters
  <2> QED BY <2>1, OneMoreTry DEF IInv, Counted
<1>5. pc'[c] = x /\ \A d \in Calls \ {c} : pc'[d] = pc[d] /\ tries'[d] = tries[d]
  BY OneMoreTry DEF IInv, TypeOK
<1> QED BY <1>2, <1>3, <1>4, <1>5 DEF IInv, Counted, Running

\* Whatever an attempt brought, forward's judgement of it keeps the invariant:
\* only a reply to the call's own question, from the adapter asked, is returned.
LEMMA JudgeKeeps ==
    ASSUME IInv, NEW c \in Calls, Running(c), pc[c] # "new", NEW s, NEW r, Judge(c, s, r),
           r # None => s = i[c],
           UNCHANGED <<protocol, our_id, sent>>
    PROVE  IInv'
<1> USE ResolverAssumption, AttemptsBounds
<1>1. CASE GoOn(c) /\ timeouts' \in [Adapters -> Nat]
  <2>1. Counted' /\ Equipped'
    BY <1>1, GoOnCounts DEF Judge, IInv, TypeOK, Equipped, Running
  <2>2. TypeOK'
    BY <1>1, GoOnCounts, OneMoreTry DEF Judge, IInv, TypeOK, GoOn
  <2>3. AnswerIsOwn'
    BY <1>1 DEF GoOn, IInv, AnswerIsOwn
  <2> QED BY <2>1, <2>2, <2>3 DEF IInv
<1>2. CASE r # None /\ Accepted(c, r) /\ ~GoOn(c)
  <2>1. /\ result' = [result EXCEPT ![c] =
                [question |-> r.question, upstream |-> i[c], sender |-> s]]
        /\ pc' = [pc EXCEPT ![c] = "returned"]
        /\ tries' = [tries EXCEPT ![c][i[c]] = @ + 1]
        /\ port' = [port EXCEPT ![c] = None]
        /\ UNCHANGED <<i, a, timeouts>>
        /\ s = i[c] /\ r.question = Asked[c]
    BY <1>2 DEF Judge, Accepted, reply_matches_request
  <2>2. TypeOK'
    BY <2>1, OneMoreTry DEF IInv, TypeOK
  <2>3. Counted'
    BY <2>1, LastTryCounts DEF Running
  <2>4. Equipped' /\ AnswerIsOwn'
    BY <2>1 DEF IInv, TypeOK, Equipped, AnswerIsOwn
  <2> QED BY <2>2, <2>3, <2>4 DEF IInv
<1>3. GoOn(c) => timeouts' \in [Adapters -> Nat]
  BY DEF Judge, IInv, TypeOK
<1> QED BY <1>1, <1>2, <1>3 DEF Judge

\* An exception out of try_once uses up the attempt and ends the call.
LEMMA ThrowKeeps ==
    ASSUME IInv, NEW c \in Calls, Running(c), Throw(c), UNCHANGED protocol
    PROVE  IInv'
<1>1. Counted'
  BY LastTryCounts DEF Throw, Running, IInv, TypeOK
<1>2. TypeOK'
  BY OneMoreTry DEF Throw, IInv, TypeOK
<1>3. Equipped' /\ AnswerIsOwn'
  BY DEF Throw, IInv, TypeOK, Equipped, AnswerIsOwn
<1> QED BY <1>1, <1>2, <1>3 DEF IInv

\* Every step of every call keeps the invariant.
LEMMA StepKeeps == IInv /\ [Next]_vars => IInv'
<1> SUFFICES ASSUME IInv, [Next]_vars PROVE IInv'
  OBVIOUS
<1>1. CASE UNCHANGED vars
  BY <1>1 DEF vars, IInv, TypeOK, Counted, Equipped, AnswerIsOwn, Running, Attempts
<1>2. ASSUME UNCHANGED protocol, NEW c \in Calls, Start(c) PROVE IInv'
  BY <1>2 DEF Start, IInv, TypeOK, Counted, Equipped, AnswerIsOwn, Running, Attempts
<1>3. ASSUME UNCHANGED protocol, NEW c \in Calls, UdpOpen(c) PROVE IInv'
  BY <1>3 DEF UdpOpen, IInv, TypeOK, Counted, Equipped, AnswerIsOwn, Running, Attempts
<1>4. ASSUME UNCHANGED protocol, NEW c \in Calls, UdpSend(c) PROVE IInv'
  <2>1. sent' \subseteq [server: Adapters, port: Ports, id: Ids, question: Questions]
    <3>1. i[c] \in Adapters /\ port[c] \in Ports /\ our_id[c] \in Ids /\ Asked[c] \in Questions
      BY <1>4, ResolverAssumption DEF UdpSend, IInv, TypeOK, Equipped
    <3> QED BY <1>4, <3>1 DEF UdpSend, IInv, TypeOK
  <2> QED
    BY <1>4, <2>1 DEF UdpSend, IInv, TypeOK, Counted, Equipped, AnswerIsOwn, Running, Attempts
<1>5. ASSUME UNCHANGED protocol, NEW c \in Calls, UdpTimeout(c) PROVE IInv'
  BY <1>5, JudgeKeeps DEF UdpTimeout, Running
<1>6. ASSUME UNCHANGED protocol, NEW c \in Calls, TlsTry(c) PROVE IInv'
  BY <1>6, JudgeKeeps DEF TlsTry, Running
<1>7. ASSUME UNCHANGED protocol, NEW c \in Calls, NEW q \in sent, NEW r \in Reply,
             UdpReceive(c, q, r)
      PROVE  IInv'
  BY <1>7, JudgeKeeps DEF UdpReceive, FromServer, Running
<1>8. ASSUME UNCHANGED protocol, NEW c \in Calls, UdpOpenError(c) \/ UdpSendError(c) PROVE IInv'
  BY <1>8, ThrowKeeps DEF UdpOpenError, UdpSendError, Running
<1> QED
  BY <1>1, <1>2, <1>3, <1>4, <1>5, <1>6, <1>7, <1>8 DEF Next, CallStep

\* The invariant holds in every reachable state.
LEMMA Invariance == Spec => []IInv
  BY InitEstablishes, StepKeeps, PTL DEF Spec

-----------------------------------------------------------------------------
\* Every variable keeps its type; the attempt counter stays within the retries.
THEOREM TypeCorrect == Spec => []TypeOK
<1>1. IInv => TypeOK
  BY DEF IInv
<1> QED BY <1>1, Invariance, PTL

\* forward returns an answer to its own client's question from the adapter it
\* names, however ids collide and ports are reused.
THEOREM AnswersAreOwn == Spec => []AnswerIsOwn
<1>1. IInv => AnswerIsOwn
  BY DEF IInv
<1> QED BY <1>1, Invariance, PTL

\* The adapters are used in order, each exactly as often as forward's loops say
\* before the next one is asked.
THEOREM FallbacksInOrder == Spec => []FallbackOrder
<1>1. IInv => FallbackOrder
  BY AttemptsBounds DEF IInv, TypeOK, Counted, FallbackOrder, Adapters
<1> QED BY <1>1, Invariance, PTL
=============================================================================
