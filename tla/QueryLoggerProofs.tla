------------------------- MODULE QueryLoggerProofs --------------------------
(***************************************************************************)
(* Proofs about the query log, for any number of threads, any queue and    *)
(* file size and any history of rotations, failures, kills and restarts:   *)
(* no accepted record goes missing unaccounted for, the writer leaves      *)
(* nothing in the stream between bursts, flush means written, the records  *)
(* stay in order over all the files, and the file stays within its limit.  *)
(***************************************************************************)
EXTENDS QueryLogger, SequenceTheorems, TLAPS

-----------------------------------------------------------------------------
(* Sequences and the sets of their elements.                               *)

\* Nothing is in the empty queue, file or buffer.
LEMMA SetOfEmpty == Range(<<>>) = {}
  BY DEF Range

\* Writing a buffer behind a file (stream_.flush, rename) keeps all of both.
LEMMA SetOfConcat ==
    ASSUME NEW S, NEW s \in Seq(S), NEW t \in Seq(S)
    PROVE  s \o t \in Seq(S) /\ Range(s \o t) = Range(s) \cup Range(t)
<1>1. s \o t \in Seq(S) /\ Len(s \o t) = Len(s) + Len(t)
      /\ \A k \in 1..(Len(s) + Len(t)) : (s \o t)[k] = IF k <= Len(s) THEN s[k] ELSE t[k - Len(s)]
  OBVIOUS
<1>2. Range(s \o t) \subseteq Range(s) \cup Range(t)
  BY <1>1 DEF Range
<1>3. Range(s) \subseteq Range(s \o t)
  BY <1>1 DEF Range
<1>4. ASSUME NEW k \in DOMAIN t PROVE t[k] \in Range(s \o t)
  <2>1. Len(s) + k \in 1..(Len(s) + Len(t)) /\ ~(Len(s) + k <= Len(s)) /\ (Len(s) + k) - Len(s) = k
    OBVIOUS
  <2>2. (s \o t)[Len(s) + k] = t[k]
    BY <1>1, <2>1
  <2> QED BY <1>1, <2>1, <2>2 DEF Range
<1> QED BY <1>1, <1>2, <1>3, <1>4, Zenon DEF Range

\* Pushing or writing a record adds just that record.
LEMMA SetOfAppend ==
    ASSUME NEW S, NEW s \in Seq(S), NEW r \in S
    PROVE  Append(s, r) \in Seq(S) /\ Range(Append(s, r)) = Range(s) \cup {r}
<1>1. Append(s, r) \in Seq(S) /\ Len(Append(s, r)) = Len(s) + 1
      /\ Append(s, r)[Len(s) + 1] = r /\ \A k \in 1..Len(s) : Append(s, r)[k] = s[k]
  OBVIOUS
<1>2. Range(Append(s, r)) \subseteq Range(s) \cup {r}
  BY <1>1 DEF Range
<1>3. Range(s) \subseteq Range(Append(s, r))
  BY <1>1 DEF Range
<1>4. r \in Range(Append(s, r))
  BY <1>1 DEF Range
<1> QED BY <1>1, <1>2, <1>3, <1>4

\* A stream that has just been opened again holds the one record written.
LEMMA SetOfOne ==
    ASSUME NEW S, NEW r \in S PROVE <<r>> \in Seq(S) /\ Range(<<r>>) = {r}
  BY DEF Range

\* Popping the front record takes out just that record.
LEMMA SetOfTail ==
    ASSUME NEW S, NEW s \in Seq(S), s # <<>>
    PROVE  /\ Head(s) \in S /\ Tail(s) \in Seq(S) /\ Len(Tail(s)) <= Len(s)
           /\ Range(s) = {Head(s)} \cup Range(Tail(s))
<1>1. /\ Head(s) \in S /\ Head(s) = s[1] /\ Tail(s) \in Seq(S) /\ Len(s) \in Nat /\ Len(s) > 0
      /\ Len(Tail(s)) = Len(s) - 1 /\ \A k \in 1..(Len(s) - 1) : Tail(s)[k] = s[k + 1]
  OBVIOUS
<1>2. Range(Tail(s)) \subseteq Range(s) /\ Head(s) \in Range(s)
  BY <1>1 DEF Range
<1>3. ASSUME NEW k \in DOMAIN s PROVE s[k] \in {Head(s)} \cup Range(Tail(s))
  <2>1. CASE k = 1 BY <2>1, <1>1
  <2>2. CASE k # 1
    <3>1. k - 1 \in 1..(Len(s) - 1) /\ (k - 1) + 1 = k
      BY <2>2, <1>1
    <3>2. Tail(s)[k - 1] = s[k]
      BY <3>1, <1>1
    <3> QED BY <3>1, <3>2, <1>1 DEF Range
  <2> QED BY <2>1, <2>2
<1> QED BY <1>1, <1>2, <1>3 DEF Range

\* A kill leaves a prefix of the stream's buffer on disk; the rest is lost.
LEMMA SetOfCut ==
    ASSUME NEW S, NEW s \in Seq(S), NEW n \in 0..Len(s)
    PROVE  /\ SubSeq(s, 1, n) \in Seq(S)
           /\ {s[k] : k \in (n+1)..Len(s)} \subseteq S
           /\ Range(s) = Range(SubSeq(s, 1, n)) \cup {s[k] : k \in (n+1)..Len(s)}
<1>1. /\ SubSeq(s, 1, n) \in Seq(S) /\ Len(SubSeq(s, 1, n)) = n
      /\ \A k \in 1..n : SubSeq(s, 1, n)[k] = s[k]
  <2>1. \A k \in 1..n : s[k] \in S
    OBVIOUS
  <2>2. /\ SubSeq(s, 1, n) \in Seq(S)
        /\ Len(SubSeq(s, 1, n)) = IF 1 <= n THEN n - 1 + 1 ELSE 0
        /\ \A k \in 1..(n - 1 + 1) : SubSeq(s, 1, n)[k] = s[1 + k - 1]
    <3>1. 1 \in Int /\ n \in Int
      OBVIOUS
    <3> QED BY <3>1, <2>1, SubSeqProperties
  <2>3. \A k \in 1..n : 1 + k - 1 = k
    OBVIOUS
  <2>4. n - 1 + 1 = n /\ (1 <= n \/ n = 0)
    OBVIOUS
  <2> QED BY <2>2, <2>3, <2>4
<1>2. DOMAIN s = 1..Len(s) /\ Len(s) \in Nat /\ \A k \in 1..Len(s) : s[k] \in S
  OBVIOUS
<1>3. Range(SubSeq(s, 1, n)) = {s[k] : k \in 1..n}
  <2>1. DOMAIN SubSeq(s, 1, n) = 1..n
    BY <1>1
  <2> QED BY <1>1, <2>1, Zenon DEF Range
<1>4. Range(s) = {s[k] : k \in 1..n} \cup {s[k] : k \in (n+1)..Len(s)}
  BY <1>2 DEF Range
<1> QED BY <1>1, <1>2, <1>3, <1>4
-----------------------------------------------------------------------------
(* The inductive invariant.                                                *)

\* What the end of a process and of its writer leaves behind.
Over ==
    /\ dtor \in {"done", "killed"} => queue_ = <<>> /\ buffer = <<>>
    /\ dtor = "done" => wpc \in {"exit", "none"}
    /\ wpc = "exit" => queue_ = <<>> /\ dtor # "live"
    /\ (wpc = "none" /\ async) => ~stream_
    /\ stopping_ => dtor # "live"

\* Accounted, record by record.
Written(r) ==
    \/ r \in Range(buffer) \/ r \in Range(file) \/ r \in lost
    \/ \E t \in DOMAIN rotated : r \in Range(rotated[t])
NoneMissing == \A r : r \in 1..accepted <=> r \in Range(queue_) \/ Written(r)

IInv == TypeOK /\ Over /\ NoneMissing /\ DurableBetweenBursts

\* Accounted is about every single record.
LEMMA RecordByRecord == Accounted <=> NoneMissing
<1>1. \A r : r \in UNION {Range(rotated[t]) : t \in DOMAIN rotated}
                 <=> \E t \in DOMAIN rotated : r \in Range(rotated[t])
  OBVIOUS
<1> QED BY <1>1, Zenon DEF Accounted, NoneMissing, Written, OnDisk

-----------------------------------------------------------------------------
(* Writing to the disk.                                                    *)

Disk ==
    /\ stream_ \in BOOLEAN /\ bytes_written_ \in Nat /\ renameFailed \in BOOLEAN
    /\ file \in Seq(Ids) /\ buffer \in Seq(Ids) /\ lost \subseteq Ids
    /\ DOMAIN rotated \subseteq 0..MaxClock /\ \A t \in DOMAIN rotated : rotated[t] \in Seq(Ids)

\* A rotation moves the file, and what the stream still held, under its stamp,
\* or leaves it where it was; a rotated file it replaces is counted as lost.
LEMMA RotateKeeps ==
    ASSUME TypeOK, NEW r \in Ids, NEW renamed \in BOOLEAN, NEW reopened \in BOOLEAN,
           Rotate(r, renamed, reopened)
    PROVE  Disk' /\ \A x : Written(x)' <=> Written(x) \/ x = r
<1> DEFINE whole == file \o buffer
<1>1. whole \in Seq(Ids) /\ Range(whole) = Range(file) \cup Range(buffer)
  BY SetOfConcat DEF TypeOK
<1>2. /\ buffer' \in Seq(Ids)
      /\ Range(buffer') = IF reopened THEN {r} ELSE {}
  <2>1. buffer' = IF reopened THEN <<r>> ELSE <<>>
    BY DEF Rotate
  <2>2. CASE reopened
    <3>1. buffer' = <<r>>
      BY <2>1, <2>2
    <3>2. <<r>> \in Seq(Ids) /\ Range(<<r>>) = {r}
      BY SetOfOne
    <3> QED BY <2>2, <3>1, <3>2
  <2>3. CASE ~reopened
    <3>1. buffer' = <<>>
      BY <2>1, <2>3
    <3> QED BY <2>3, <3>1, SetOfEmpty
  <2> QED BY <2>2, <2>3
<1>3. lost' = lost \cup (IF renamed THEN Overwritten ELSE {}) \cup (IF reopened THEN {} ELSE {r})
  BY DEF Rotate
<1>4. Overwritten \subseteq Ids
  <2>1. \A t \in DOMAIN rotated : Range(rotated[t]) \subseteq Ids
    BY DEF TypeOK, Range
  <2> QED BY <2>1 DEF Overwritten
<1>5. stream_' \in BOOLEAN /\ bytes_written_' \in Nat /\ renameFailed' \in BOOLEAN
  BY DEF Rotate, TypeOK
<1>6. lost' \subseteq Ids
  BY <1>3, <1>4 DEF TypeOK
<1>7. CASE ~renamed
  <2>1. rotated' = rotated /\ file' = whole
    BY <1>7 DEF Rotate, Kept
  <2>2. Disk'
    BY <2>1, <1>1, <1>2, <1>5, <1>6 DEF Disk, TypeOK
  <2>3. lost' = lost \cup (IF reopened THEN {} ELSE {r})
    BY <1>3, <1>7
  <2> HIDE DEF whole
  <2>4. \A x : Written(x)' <=> Written(x) \/ x = r
    BY <2>1, <1>1, <1>2, <2>3 DEF Written
  <2> QED BY <2>2, <2>4
<1>8. CASE renamed
  <2>1. /\ DOMAIN rotated' = DOMAIN rotated \cup {clock} /\ file' = <<>>
        /\ rotated'[clock] = whole
        /\ \A t \in DOMAIN rotated : t # clock => rotated'[t] = rotated[t]
    BY <1>8 DEF Rotate, Kept
  <2>2. Range(file') = {} /\ file' \in Seq(Ids)
    BY <2>1, SetOfEmpty
  <2> HIDE DEF whole
  <2>3. Disk'
    BY <2>1, <2>2, <1>1, <1>2, <1>5, <1>6 DEF Disk, TypeOK
  <2>4. \A x : x \in Overwritten <=> clock \in DOMAIN rotated /\ x \in Range(rotated[clock])
    BY DEF Overwritten
  <2>5. lost' = lost \cup Overwritten \cup (IF reopened THEN {} ELSE {r})
    BY <1>3, <1>8
  <2>6. ASSUME NEW x
        PROVE  (\E t \in DOMAIN rotated' : x \in Range(rotated'[t]))
                 <=> \/ x \in Range(whole)
                     \/ \E t \in DOMAIN rotated : t # clock /\ x \in Range(rotated[t])
    BY <2>1
  <2>7. ASSUME NEW x
        PROVE  (\E t \in DOMAIN rotated : x \in Range(rotated[t]))
                 <=> \/ x \in Overwritten
                     \/ \E t \in DOMAIN rotated : t # clock /\ x \in Range(rotated[t])
    BY <2>4
  <2>8. \A x : Written(x)' <=> Written(x) \/ x = r
    BY <2>2, <2>5, <2>6, <2>7, <1>1, <1>2, Zenon DEF Written
  <2> QED BY <2>3, <2>8
<1> QED BY <1>7, <1>8

\* write_one puts its record into the stream or among the losses.
LEMMA WriteOneKeeps ==
    ASSUME TypeOK, NEW r \in Ids, write_one(r)
    PROVE  Disk' /\ \A x : Written(x)' <=> Written(x) \/ x = r
<1>1. CASE ~stream_ /\ lost' = lost \cup {r} /\ UNCHANGED diskVars
  BY <1>1 DEF TypeOK, Disk, Written, diskVars
<1>2. CASE /\ buffer' = Append(buffer, r) /\ bytes_written_' = bytes_written_ + 1
           /\ UNCHANGED <<file, rotated, stream_, renameFailed, lost>>
  <2>1. buffer' \in Seq(Ids) /\ Range(buffer') = Range(buffer) \cup {r}
    BY <1>2, SetOfAppend DEF TypeOK
  <2>2. Disk'
    BY <1>2, <2>1 DEF TypeOK, Disk
  <2>3. \A x : Written(x)' <=> Written(x) \/ x = r
    BY <1>2, <2>1 DEF Written
  <2> QED BY <2>2, <2>3
<1>3. CASE \E renamed, reopened \in ReopenOutcomes : Rotate(r, renamed, reopened)
  BY <1>3, RotateKeeps, QueryLoggerAssumption
<1> QED BY <1>1, <1>2, <1>3 DEF write_one

\* stream_.flush() moves the buffer's records to the file.
LEMMA FlushKeeps ==
    ASSUME TypeOK, FlushStream, UNCHANGED <<rotated, lost>>
    PROVE  /\ file' \in Seq(Ids) /\ buffer' = <<>> /\ buffer' \in Seq(Ids)
           /\ \A x : Written(x)' <=> Written(x)
<1>1. file' = file \o buffer /\ buffer' = <<>>
  BY DEF FlushStream
<1>2. file' \in Seq(Ids) /\ Range(file') = Range(file) \cup Range(buffer)
  BY <1>1, SetOfConcat DEF TypeOK
<1>3. Range(buffer') = {}
  BY <1>1, SetOfEmpty
<1>4. \A x : Written(x)' <=> Written(x)
  BY <1>2, <1>3 DEF Written
<1> QED BY <1>1, <1>2, <1>4
\* Nothing is written to a stream that is not open, and it stays closed.
LEMMA ClosedStays ==
    ASSUME TypeOK, NEW r, write_one(r), ~stream_
    PROVE  ~stream_' /\ buffer' = buffer
  BY DEF write_one, diskVars

\* A step that moves no record.
LEMMA NothingMoves ==
    ASSUME IInv, UNCHANGED <<queue_, accepted, diskVars, lost>>
    PROVE  NoneMissing'
  BY DEF IInv, NoneMissing, Written, diskVars
-----------------------------------------------------------------------------
(* One lemma per action.                                                   *)

\* The constructor of the first process establishes the invariant.
LEMMA InitEstablishes == Init => IInv
<1> SUFFICES ASSUME Init PROVE IInv
  OBVIOUS
<1>1. TypeOK
  <2>1. stream_ \in BOOLEAN
    BY QueryLoggerAssumption DEF Init
  <2>2. DOMAIN rotated = {}
    BY DEF Init
  <2>3. wpc \in {"none", "start"}
    BY DEF Init
  <2>4. runs \in 1..MaxRuns
    BY QueryLoggerAssumption DEF Init
  <2>5. 0 \in 0..MaxRecords /\ 0 \in 0..MaxClock /\ 0 \in 0..MaxDropped /\ 0 <= queue_size
    BY QueryLoggerAssumption
  <2>6. <<>> \in Seq(Ids) /\ Len(<<>>) = 0
    OBVIOUS
  <2>7. /\ pc \in [Clients -> {"idle", "notify", "wait", "woken"}]
        /\ goal \in [Clients -> 0..MaxRecords]
    BY <2>5 DEF Init
  <2> QED BY <2>1, <2>2, <2>3, <2>4, <2>5, <2>6, <2>7, Zenon DEF Init, TypeOK
<1>2. Over
  BY DEF Init, Over
<1>3. NoneMissing
  <2>1. Range(queue_) = {} /\ Range(buffer) = {} /\ Range(file) = {} /\ lost = {}
    BY SetOfEmpty DEF Init
  <2>2. DOMAIN rotated = {} /\ 1..accepted = {}
    BY DEF Init
  <2> QED BY <2>1, <2>2 DEF NoneMissing, Written
<1>4. DurableBetweenBursts
  BY DEF Init, DurableBetweenBursts
<1> QED BY <1>1, <1>2, <1>3, <1>4 DEF IInv

\* log() of a synchronous log writes the record it accepts.
LEMMA LogSyncKeeps ==
    ASSUME IInv, NEW c \in Clients, LogSync(c) PROVE IInv'
<1>1. accepted + 1 \in Ids /\ accepted' = accepted + 1 /\ accepted \in Nat
  BY QueryLoggerAssumption DEF IInv, TypeOK, LogSync, Ids
<1>2. Disk' /\ \A x : Written(x)' <=> Written(x) \/ x = accepted + 1
  BY <1>1, WriteOneKeeps DEF IInv, LogSync
<1>3. UNCHANGED <<async, clock, stopping_, dtor, runs, queue_, dropped_, wpc, pc, goal>>
  BY DEF LogSync, lifeVars, callVars
<1>4. TypeOK'
  BY <1>1, <1>2, <1>3, QueryLoggerAssumption DEF IInv, TypeOK, Disk, Ids
<1>5. Over' /\ DurableBetweenBursts'
  BY <1>3 DEF IInv, Over, DurableBetweenBursts, LogSync
<1>6. NoneMissing'
  <2>1. \A x : x \in 1..accepted' <=> x \in 1..accepted \/ x = accepted + 1
    BY <1>1
  <2> QED BY <1>2, <1>3, <2>1 DEF IInv, NoneMissing
<1> QED BY <1>4, <1>5, <1>6 DEF IInv

\* log() on a full queue only counts.
LEMMA LogDropKeeps ==
    ASSUME IInv, NEW c \in Clients, LogDrop(c) PROVE IInv'
<1>1. /\ UNCHANGED <<lifeVars, queue_, diskVars, lost, accepted, wpc, callVars>>
      /\ dropped_ < MaxDropped /\ dropped_' = dropped_ + 1
  BY DEF LogDrop
<1>2. TypeOK'
  BY <1>1, QueryLoggerAssumption DEF IInv, TypeOK, lifeVars, diskVars, callVars, Ids
<1>3. Over' /\ DurableBetweenBursts'
  BY <1>1 DEF IInv, Over, DurableBetweenBursts, MuFree, lifeVars, diskVars
<1> QED BY <1>1, <1>2, <1>3, NothingMoves DEF IInv

\* log() queues the record it accepts, within queue_size.
LEMMA LogPushKeeps ==
    ASSUME IInv, NEW c \in Clients, LogPush(c) PROVE IInv'
<1>1. accepted + 1 \in Ids /\ accepted' = accepted + 1 /\ accepted \in Nat
  BY QueryLoggerAssumption DEF IInv, TypeOK, LogPush, Ids
<1>2. queue_' = Append(queue_, accepted + 1) /\ Len(queue_) < queue_size
  BY QueryLoggerAssumption DEF IInv, TypeOK, LogPush, QueueFull
<1>3. UNCHANGED <<async, clock, stopping_, dtor, runs, dropped_, diskVars, lost, wpc, goal>>
      /\ dtor = "live" /\ pc' = [pc EXCEPT ![c] = "notify"]
  BY DEF LogPush, lifeVars
<1>4. queue_' \in Seq(Ids) /\ Range(queue_') = Range(queue_) \cup {accepted + 1}
  BY <1>1, <1>2, SetOfAppend DEF IInv, TypeOK
<1>5. Len(queue_') <= queue_size
  BY <1>2, QueryLoggerAssumption DEF IInv, TypeOK
<1>6. TypeOK'
  BY <1>1, <1>3, <1>4, <1>5, QueryLoggerAssumption DEF IInv, TypeOK, diskVars, Ids
<1>7. Over' /\ DurableBetweenBursts'
  BY <1>3 DEF IInv, Over, DurableBetweenBursts, MuFree, diskVars
<1>8. NoneMissing'
  <2>1. \A x : x \in 1..accepted' <=> x \in 1..accepted \/ x = accepted + 1
    BY <1>1
  <2>2. \A x : Written(x)' <=> Written(x)
    BY <1>3 DEF Written, diskVars
  <2> QED BY <1>4, <2>1, <2>2 DEF IInv, NoneMissing
<1> QED BY <1>6, <1>7, <1>8 DEF IInv

\* notify_one wakes one waiter at most and moves nothing.
LEMMA NotifyOneKeeps ==
    ASSUME IInv, NEW c \in Clients, NotifyOne(c) PROVE IInv'
<1>1. UNCHANGED <<lifeVars, queueVars, diskVars, lost, goal>>
  BY DEF NotifyOne
<1>2. /\ wpc' = wpc \/ (wpc = "wait" /\ wpc' = "woken")
      /\ pc' \in [Clients -> {"idle", "notify", "wait", "woken"}]
  BY Zenon DEF NotifyOne, Waiting, IInv, TypeOK
<1>3. TypeOK'
  BY <1>1, <1>2 DEF IInv, TypeOK, lifeVars, queueVars, diskVars
<1>4. Over' /\ DurableBetweenBursts'
  BY <1>1, <1>2 DEF IInv, Over, DurableBetweenBursts, MuFree, lifeVars, queueVars, diskVars
<1> QED BY <1>1, <1>3, <1>4, NothingMoves DEF IInv, queueVars

\* flush() returns after writing out the stream, or waits.
LEMMA FlushEither ==
    ASSUME IInv, NEW c \in Clients, FlushReturn(c) \/ FlushWait(c),
           goal' \in [Clients -> 0..MaxRecords]
    PROVE  IInv'
<1>1. CASE FlushReturn(c)
  <2>1. /\ UNCHANGED <<async, clock, stopping_, dtor, runs, queue_, accepted, dropped_>>
        /\ UNCHANGED <<rotated, stream_, bytes_written_, renameFailed, lost, wpc>>
        /\ FlushStream /\ pc' = [pc EXCEPT ![c] = "idle"]
    BY <1>1 DEF FlushReturn, lifeVars, queueVars
  <2>2. /\ file' \in Seq(Ids) /\ buffer' = <<>> /\ buffer' \in Seq(Ids)
        /\ \A x : Written(x)' <=> Written(x)
    BY <2>1, FlushKeeps DEF IInv
  <2>3. TypeOK'
    BY <2>1, <2>2 DEF IInv, TypeOK
  <2>4. Over' /\ DurableBetweenBursts'
    BY <2>1, <2>2 DEF IInv, Over, DurableBetweenBursts
  <2>5. NoneMissing'
    BY <2>1, <2>2 DEF IInv, NoneMissing
  <2> QED BY <2>3, <2>4, <2>5 DEF IInv
<1>2. CASE FlushWait(c)
  <2>1. /\ UNCHANGED <<lifeVars, queueVars, diskVars, lost, wpc>>
        /\ pc' = [pc EXCEPT ![c] = "wait"]
    BY <1>2 DEF FlushWait
  <2>2. TypeOK'
    BY <2>1 DEF IInv, TypeOK, lifeVars, queueVars, diskVars
  <2>3. Over' /\ DurableBetweenBursts'
    BY <2>1 DEF IInv, Over, DurableBetweenBursts, MuFree, lifeVars, queueVars, diskVars
  <2> QED BY <2>1, <2>2, <2>3, NothingMoves DEF IInv, queueVars
<1> QED BY <1>1, <1>2

\* A call of flush().
LEMMA FlushCallKeeps ==
    ASSUME IInv, NEW c \in Clients, FlushCall(c) PROVE IInv'
<1>1. goal' \in [Clients -> 0..MaxRecords]
  BY DEF FlushCall, IInv, TypeOK
<1> QED BY <1>1, FlushEither DEF FlushCall

\* A flush() that was woken tests again.
LEMMA FlushRetestKeeps ==
    ASSUME IInv, NEW c \in Clients, FlushRetest(c) PROVE IInv'
<1>1. goal' \in [Clients -> 0..MaxRecords]
  BY DEF FlushRetest, IInv, TypeOK
<1> QED BY <1>1, FlushEither DEF FlushRetest

\* The writer exits only with an empty queue, when it was told to stop.
LEMMA WriterTestKeeps ==
    ASSUME IInv, WriterTest PROVE IInv'
<1>1. UNCHANGED <<lifeVars, queueVars, diskVars, lost, callVars>>
  BY DEF WriterTest
<1>2. /\ wpc \in {"start", "woken"} /\ MuFree
      /\ wpc' \in {"drain", "exit", "wait"}
      /\ wpc' = "exit" => (queue_ = <<>> /\ stopping_)
  BY DEF WriterTest, HasWork
<1>3. TypeOK'
  BY <1>1, <1>2 DEF IInv, TypeOK, lifeVars, queueVars, diskVars, callVars
<1>4. Over' /\ DurableBetweenBursts'
  BY <1>1, <1>2 DEF IInv, Over, DurableBetweenBursts, MuFree, lifeVars, queueVars, diskVars
<1> QED BY <1>1, <1>3, <1>4, NothingMoves DEF IInv, queueVars

\* A popped record is written or counted as lost.
LEMMA PopKeeps ==
    ASSUME IInv, queue_ # <<>>, queue_' = Tail(queue_), write_one(Popped),
           UNCHANGED <<lifeVars, dropped_, accepted, wpc, callVars>>
    PROVE  TypeOK' /\ NoneMissing'
<1>1. /\ Popped \in Ids /\ queue_' \in Seq(Ids) /\ Len(queue_') <= Len(queue_)
      /\ Range(queue_) = {Popped} \cup Range(queue_')
  BY SetOfTail DEF IInv, TypeOK, Popped
<1>2. Disk' /\ \A x : Written(x)' <=> Written(x) \/ x = Popped
  BY <1>1, WriteOneKeeps DEF IInv
<1>3. Len(queue_') <= queue_size
  BY <1>1, QueryLoggerAssumption DEF IInv, TypeOK
<1>4. TypeOK'
  BY <1>1, <1>2, <1>3 DEF IInv, TypeOK, Disk, lifeVars, callVars
<1>5. NoneMissing'
  BY <1>1, <1>2 DEF IInv, NoneMissing
<1> QED BY <1>4, <1>5

\* The writer writes a record of its burst.
LEMMA WriterWriteKeeps ==
    ASSUME IInv, WriterWrite PROVE IInv'
<1>1. /\ queue_ # <<>> /\ queue_' = Tail(queue_) /\ write_one(Popped)
      /\ UNCHANGED <<lifeVars, dropped_, accepted, wpc, callVars>>
      /\ wpc = "drain" /\ dtor # "killed"
  BY DEF WriterWrite, Alive
<1>2. TypeOK' /\ NoneMissing'
  BY <1>1, PopKeeps
<1>3. Over' /\ DurableBetweenBursts'
  BY <1>1 DEF IInv, Over, DurableBetweenBursts, MuFree, lifeVars
<1> QED BY <1>2, <1>3 DEF IInv

\* The end of a burst flushes the stream and wakes every flush().
LEMMA WriterEndBurstKeeps ==
    ASSUME IInv, WriterEndBurst PROVE IInv'
<1>1. /\ UNCHANGED <<async, clock, stopping_, dtor, runs, queue_, accepted, dropped_>>
      /\ UNCHANGED <<rotated, stream_, bytes_written_, renameFailed, lost, goal>>
      /\ FlushStream /\ queue_ = <<>> /\ wpc = "drain"
      /\ wpc' = IF stopping_ THEN "exit" ELSE "wait"
  BY DEF WriterEndBurst, lifeVars, queueVars
<1>2. pc' \in [Clients -> {"idle", "notify", "wait", "woken"}]
  BY DEF WriterEndBurst, NotifyAll, IInv, TypeOK
<1>3. /\ file' \in Seq(Ids) /\ buffer' = <<>> /\ buffer' \in Seq(Ids)
      /\ \A x : Written(x)' <=> Written(x)
  BY <1>1, FlushKeeps DEF IInv
<1>4. TypeOK'
  BY <1>1, <1>2, <1>3 DEF IInv, TypeOK
<1>5. Over' /\ DurableBetweenBursts'
  BY <1>1, <1>3 DEF IInv, Over, DurableBetweenBursts
<1>6. NoneMissing'
  BY <1>1, <1>3 DEF IInv, NoneMissing
<1> QED BY <1>4, <1>5, <1>6 DEF IInv

\* A spurious wakeup of the condition variable.
LEMMA SpuriousWakeupKeeps ==
    ASSUME IInv, SpuriousWakeup PROVE IInv'
<1>1. UNCHANGED <<lifeVars, queueVars, diskVars, lost, goal>>
  BY DEF SpuriousWakeup
<1>2. /\ wpc' = wpc \/ (wpc = "wait" /\ wpc' = "woken")
      /\ pc' \in [Clients -> {"idle", "notify", "wait", "woken"}]
  BY Zenon DEF SpuriousWakeup, Waiting, IInv, TypeOK
<1>3. TypeOK'
  BY <1>1, <1>2 DEF IInv, TypeOK, lifeVars, queueVars, diskVars
<1>4. Over' /\ DurableBetweenBursts'
  BY <1>1, <1>2 DEF IInv, Over, DurableBetweenBursts, MuFree, lifeVars, queueVars, diskVars
<1> QED BY <1>1, <1>3, <1>4, NothingMoves DEF IInv, queueVars

\* The destructor tells the writer to stop.
LEMMA DestroyKeeps ==
    ASSUME IInv, Destroy PROVE IInv'
<1>1. /\ UNCHANGED <<async, queueVars, diskVars, lost, clock, callVars, runs>>
      /\ stopping_' \in BOOLEAN /\ dtor' = "joining" /\ dtor = "live" /\ MuFree
      /\ wpc' = wpc \/ (wpc = "wait" /\ wpc' = "woken")
  BY DEF Destroy, WriterTold
<1>2. TypeOK'
  BY <1>1 DEF IInv, TypeOK, queueVars, diskVars, callVars
<1>3. Over' /\ DurableBetweenBursts'
  BY <1>1 DEF IInv, Over, DurableBetweenBursts, MuFree, queueVars, diskVars
<1> QED BY <1>1, <1>2, <1>3, NothingMoves DEF IInv, queueVars

\* What the destructor still finds queued has no stream to go to when the log
\* is asynchronous: a writer that exits leaves the queue empty.
LEMMA DrainAfterJoinKeeps ==
    ASSUME IInv, DrainAfterJoin PROVE IInv'
<1>1. /\ queue_ # <<>> /\ queue_' = Tail(queue_) /\ write_one(Popped)
      /\ UNCHANGED <<lifeVars, dropped_, accepted, wpc, callVars>>
      /\ wpc \in {"exit", "none"} /\ dtor = "joining"
  BY DEF DrainAfterJoin
<1>2. TypeOK' /\ NoneMissing'
  BY <1>1, PopKeeps
<1>3. wpc = "none"
  BY <1>1 DEF IInv, Over
<1>4. async => ~stream_' /\ buffer' = buffer
  BY <1>1, <1>3, ClosedStays DEF IInv, Over
<1>5. Over' /\ DurableBetweenBursts'
  BY <1>1, <1>3, <1>4 DEF IInv, Over, DurableBetweenBursts, MuFree, lifeVars
<1> QED BY <1>2, <1>5 DEF IInv

\* The stream's destructor flushes it.
LEMMA DestroyedKeeps ==
    ASSUME IInv, Destroyed PROVE IInv'
<1>1. /\ UNCHANGED <<async, clock, stopping_, runs, queue_, accepted, dropped_>>
      /\ UNCHANGED <<rotated, bytes_written_, renameFailed, lost, wpc, pc, goal>>
      /\ FlushStream /\ queue_ = <<>> /\ wpc \in {"exit", "none"}
      /\ dtor' = "done" /\ stream_' = FALSE
  BY DEF Destroyed, queueVars, callVars
<1>2. /\ file' \in Seq(Ids) /\ buffer' = <<>> /\ buffer' \in Seq(Ids)
      /\ \A x : Written(x)' <=> Written(x)
  BY <1>1, FlushKeeps DEF IInv
<1>3. TypeOK'
  BY <1>1, <1>2, Zenon DEF IInv, TypeOK
<1>4. Over' /\ DurableBetweenBursts'
  BY <1>1, <1>2 DEF IInv, Over, DurableBetweenBursts
<1>5. NoneMissing'
  BY <1>1, <1>2 DEF IInv, NoneMissing
<1> QED BY <1>3, <1>4, <1>5 DEF IInv

\* A kill: what was queued, and what the stream had not written, is lost.
LEMMA KillKeeps ==
    ASSUME IInv, Kill PROVE IInv'
<1>1. PICK n \in 0..Len(buffer) :
        /\ file' = file \o SubSeq(buffer, 1, n)
        /\ lost' = lost \cup Range(queue_) \cup {buffer[k] : k \in (n+1)..Len(buffer)}
  BY DEF Kill
<1>2. /\ UNCHANGED <<async, dropped_, rotated, bytes_written_, renameFailed, accepted>>
      /\ UNCHANGED <<clock, wpc, pc, goal, stopping_, runs>>
      /\ buffer' = <<>> /\ queue_' = <<>> /\ stream_' = FALSE /\ dtor' = "killed"
  BY DEF Kill, callVars
<1> DEFINE saved == SubSeq(buffer, 1, n)
           rest == {buffer[k] : k \in (n+1)..Len(buffer)}
<1>3. saved \in Seq(Ids) /\ rest \subseteq Ids /\ Range(buffer) = Range(saved) \cup rest
  BY SetOfCut DEF IInv, TypeOK
<1>4. file' = file \o saved /\ lost' = lost \cup Range(queue_) \cup rest
  BY <1>1
<1> HIDE DEF saved, rest
<1>5. file' \in Seq(Ids) /\ Range(file') = Range(file) \cup Range(saved)
  BY <1>4, <1>3, SetOfConcat DEF IInv, TypeOK
<1>6. /\ Range(buffer') = {} /\ Range(queue_') = {}
      /\ buffer' \in Seq(Ids) /\ queue_' \in Seq(Ids) /\ Len(queue_') <= queue_size
  BY <1>2, SetOfEmpty, QueryLoggerAssumption
<1>7. lost' \subseteq Ids
  <2>1. Range(queue_) \subseteq Ids
    BY DEF IInv, TypeOK, Range
  <2> QED BY <1>3, <1>4, <2>1 DEF IInv, TypeOK
<1>8. TypeOK'
  BY <1>2, <1>5, <1>6, <1>7, QueryLoggerAssumption, Zenon DEF IInv, TypeOK
<1>9. Over' /\ DurableBetweenBursts'
  BY <1>2 DEF IInv, Over, DurableBetweenBursts, MuFree
<1>10. NoneMissing'
  BY <1>2, <1>3, <1>4, <1>5, <1>6 DEF IInv, NoneMissing, Written
<1> QED BY <1>8, <1>9, <1>10 DEF IInv

\* The next process finds the files; nothing was left in queue or stream.
LEMMA RestartKeeps ==
    ASSUME IInv, Restart PROVE IInv'
<1>1. PICK a \in BOOLEAN, o \in OpenOutcomes : Construct(a, o)
  BY DEF Restart
<1>2. /\ UNCHANGED <<file, buffer, rotated, renameFailed, lost, accepted, clock>>
      /\ queue_' = <<>> /\ dropped_' = 0 /\ stopping_' = FALSE /\ dtor' = "live"
      /\ dtor \in {"done", "killed"} /\ runs < MaxRuns /\ runs' = runs + 1
  BY DEF Restart
<1>3. /\ async' \in BOOLEAN /\ stream_' \in BOOLEAN /\ bytes_written_' \in Nat
      /\ wpc' \in {"start", "none"}
      /\ (wpc' = "none" /\ async') => ~stream_'
  <2>1. o \in BOOLEAN /\ Len(file) \in Nat
    BY QueryLoggerAssumption DEF IInv, TypeOK
  <2> QED BY <1>1, <2>1 DEF Construct, SizeFound
<1>4. queue_ = <<>> /\ buffer = <<>>
  BY <1>2 DEF IInv, Over
<1>5. /\ pc' \in [Clients -> {"idle", "notify", "wait", "woken"}]
      /\ goal' \in [Clients -> 0..MaxRecords]
  BY QueryLoggerAssumption DEF Restart
<1>6. runs' \in 1..MaxRuns /\ 0 \in 0..MaxDropped
  BY <1>2, QueryLoggerAssumption DEF IInv, TypeOK
<1>7. TypeOK'
  BY <1>2, <1>3, <1>4, <1>5, <1>6, Zenon DEF IInv, TypeOK
<1>8. Over' /\ DurableBetweenBursts'
  BY <1>2, <1>3, <1>4 DEF Over, DurableBetweenBursts
<1>9. NoneMissing'
  BY <1>2, <1>4 DEF IInv, NoneMissing, Written
<1> QED BY <1>7, <1>8, <1>9 DEF IInv

\* Time passes.
LEMMA TickKeeps ==
    ASSUME IInv, Tick PROVE IInv'
<1>1. /\ UNCHANGED <<async, queueVars, diskVars, lost, wpc, callVars, stopping_, dtor, runs>>
      /\ clock < MaxClock /\ clock' = clock + 1
  BY DEF Tick
<1>2. TypeOK'
  BY <1>1, QueryLoggerAssumption, SMTT(40) DEF IInv, TypeOK, queueVars, diskVars, callVars
<1>3. Over' /\ DurableBetweenBursts'
  BY <1>1 DEF IInv, Over, DurableBetweenBursts, MuFree, queueVars, diskVars
<1> QED BY <1>1, <1>2, <1>3, NothingMoves DEF IInv, queueVars

\* Every step of every thread keeps the invariant.
LEMMA StepKeeps == IInv /\ [Next]_vars => IInv'
<1> SUFFICES ASSUME IInv, [Next]_vars PROVE IInv'
  OBVIOUS
<1>1. CASE UNCHANGED vars
  <2>1. TypeOK' /\ Over' /\ DurableBetweenBursts'
    BY <1>1 DEF vars, IInv, TypeOK, Over, DurableBetweenBursts, MuFree, diskVars, queueVars,
                callVars, lifeVars
  <2> QED BY <1>1, <2>1, NothingMoves DEF IInv, vars, queueVars
<1>2. ASSUME NEW c \in Clients, LogSync(c) \/ LogDrop(c) \/ LogPush(c) \/ FlushCall(c)
      PROVE  IInv'
  BY <1>2, LogSyncKeeps, LogDropKeeps, LogPushKeeps, FlushCallKeeps
<1>3. ASSUME NEW c \in Clients, ClientStep(c) PROVE IInv'
  BY <1>3, NotifyOneKeeps, FlushRetestKeeps DEF ClientStep
<1>4. CASE WriterStep
  BY <1>4, WriterTestKeeps, WriterWriteKeeps, WriterEndBurstKeeps DEF WriterStep
<1>5. CASE SpuriousWakeup \/ Destroy
  BY <1>5, SpuriousWakeupKeeps, DestroyKeeps
<1>6. CASE DestructorStep
  BY <1>6, DrainAfterJoinKeeps, DestroyedKeeps DEF DestructorStep
<1>7. CASE Kill \/ Restart \/ Tick
  BY <1>7, KillKeeps, RestartKeeps, TickKeeps
<1> QED BY <1>1, <1>2, <1>3, <1>4, <1>5, <1>6, <1>7 DEF Next

\* The inductive invariant holds in every behaviour.
LEMMA Invariance == Spec => []IInv
  BY InitEstablishes, StepKeeps, PTL DEF Spec
-----------------------------------------------------------------------------
\* The logger's state has its type, and the queue stays within queue_size.
THEOREM TypeCorrect == Spec => []TypeOK
<1>1. IInv => TypeOK
  BY DEF IInv
<1> QED BY <1>1, Invariance, PTL

\* Every record log() accepted is queued, in the stream, in a file or among the
\* losses the code owns up to, however rotations, failed renames, kills and
\* restarts interleave with any number of logging and flushing threads.
THEOREM NoRecordVanishes == Spec => []Accounted
<1>1. IInv => Accounted
  BY RecordByRecord DEF IInv
<1> QED BY <1>1, Invariance, PTL

\* An asynchronous log has nothing in the stream's buffer between two bursts of
\* its writer, nor while its destructor drains: a kill costs at most the burst.
THEOREM BurstsAreDurable == Spec => []DurableBetweenBursts
<1>1. IInv => DurableBetweenBursts
  BY DEF IInv
<1> QED BY <1>1, Invariance, PTL

\* A flush() that returns has left nothing accepted before it in memory.
THEOREM FlushesAreWritten == Spec => FlushMeansWritten
<1>1. ASSUME IInv, NEW c \in Clients, FlushCall(c) \/ FlushRetest(c), pc'[c] = "idle"
      PROVE  \A r \in Range(queue_') \cup Range(buffer') : r > goal'[c]
  <2>1. ~FlushWait(c)
    BY <1>1 DEF FlushWait, IInv, TypeOK
  <2>2. FlushReturn(c)
    BY <1>1, <2>1 DEF FlushCall, FlushRetest
  <2>3. queue_' = <<>> /\ buffer' = <<>>
    BY <2>2 DEF FlushReturn, FlushStream, Drained, queueVars
  <2> QED BY <2>3, SetOfEmpty
<1>2. IInv /\ [Next]_vars =>
        [\A c \in Clients : ((FlushCall(c) \/ FlushRetest(c)) /\ pc'[c] = "idle")
            => \A r \in Range(queue_') \cup Range(buffer') : r > goal'[c]]_vars
  BY <1>1
<1> QED BY <1>2, Invariance, PTL DEF Spec, FlushMeansWritten
-----------------------------------------------------------------------------
(* The order of the records, over and above IInv.                          *)

Before(S, T) == \A x \in S, y \in T : x < y

\* The files, the stream and the queue are each in order, and one after the
\* other; no rotated file bears a stamp of the future; a synchronous log has
\* no queue that its records could overtake.
Ordered ==
    /\ Increasing(file) /\ Increasing(buffer) /\ Increasing(queue_)
    /\ Before(Range(file), Range(buffer)) /\ Before(Range(file), Range(queue_))
    /\ Before(Range(buffer), Range(queue_))
    /\ \A t \in DOMAIN rotated :
        /\ Increasing(rotated[t]) /\ t <= clock
        /\ Before(Range(rotated[t]), Range(file))
        /\ Before(Range(rotated[t]), Range(buffer))
        /\ Before(Range(rotated[t]), Range(queue_))
        /\ \A u \in DOMAIN rotated : t < u => Before(Range(rotated[t]), Range(rotated[u]))
    /\ ~async => queue_ = <<>>

\* Two sequences in order, the one before the other, are in order together.
LEMMA ConcatInOrder ==
    ASSUME NEW s \in Seq(Ids), NEW t \in Seq(Ids)
    PROVE  Increasing(s \o t)
             <=> Increasing(s) /\ Increasing(t) /\ Before(Range(s), Range(t))
<1> DEFINE st == s \o t
<1>1. /\ Len(s) \in Nat /\ Len(t) \in Nat /\ DOMAIN st = 1..(Len(s) + Len(t))
      /\ DOMAIN s = 1..Len(s) /\ DOMAIN t = 1..Len(t)
      /\ \A k \in 1..(Len(s) + Len(t)) : st[k] = IF k <= Len(s) THEN s[k] ELSE t[k - Len(s)]
  OBVIOUS
<1> HIDE DEF st
<1>2. \A k \in 1..Len(s) : k \in DOMAIN st /\ st[k] = s[k]
  BY <1>1
<1>3. ASSUME NEW k \in 1..Len(t) PROVE Len(s) + k \in DOMAIN st /\ st[Len(s) + k] = t[k]
  <2>1. Len(s) + k \in 1..(Len(s) + Len(t)) /\ ~(Len(s) + k <= Len(s)) /\ (Len(s) + k) - Len(s) = k
    BY <1>1
  <2> QED BY <1>1, <2>1
<1>4. ASSUME Increasing(st)
      PROVE  Increasing(s) /\ Increasing(t) /\ Before(Range(s), Range(t))
  <2>1. Increasing(s)
    BY <1>1, <1>2, <1>4 DEF Increasing
  <2>2. ASSUME NEW i \in DOMAIN t, NEW j \in DOMAIN t, i < j PROVE t[i] < t[j]
    <3>1. Len(s) + i < Len(s) + j
      BY <1>1, <2>2
    <3> QED BY <1>1, <1>3, <1>4, <3>1 DEF Increasing
  <2>3. ASSUME NEW i \in DOMAIN s, NEW j \in DOMAIN t PROVE s[i] < t[j]
    <3>1. i < Len(s) + j
      BY <1>1
    <3> QED BY <1>1, <1>2, <1>3, <1>4, <3>1 DEF Increasing
  <2> QED BY <2>1, <2>2, <2>3, Zenon DEF Increasing, Before, Range
<1>5. ASSUME Increasing(s), Increasing(t), Before(Range(s), Range(t)),
             NEW i \in DOMAIN st, NEW j \in DOMAIN st, i < j
      PROVE  st[i] < st[j]
  <2>1. CASE j <= Len(s)
    BY <1>1, <1>5, <2>1 DEF Increasing
  <2>2. CASE i > Len(s)
    <3>1. /\ i - Len(s) \in DOMAIN t /\ j - Len(s) \in DOMAIN t /\ i - Len(s) < j - Len(s)
          /\ ~(i <= Len(s)) /\ ~(j <= Len(s))
      BY <1>1, <1>5, <2>2
    <3>2. t[i - Len(s)] < t[j - Len(s)]
      BY <1>5, <3>1 DEF Increasing
    <3> QED BY <1>1, <3>1, <3>2
  <2>3. CASE i <= Len(s) /\ j > Len(s)
    <3>1. i \in DOMAIN s /\ j - Len(s) \in DOMAIN t /\ ~(j <= Len(s))
      BY <1>1, <2>3
    <3>2. s[i] \in Range(s) /\ t[j - Len(s)] \in Range(t)
      BY <3>1 DEF Range
    <3> QED BY <1>1, <1>5, <2>3, <3>1, <3>2 DEF Before
  <2> QED BY <1>1, <2>1, <2>2, <2>3
<1> QED BY <1>4, <1>5 DEF Increasing, st

\* Nothing is in order.
LEMMA EmptyInOrder == Increasing(<<>>)
  BY DEF Increasing

\* A single record is in order.
LEMMA OneInOrder == ASSUME NEW r PROVE Increasing(<<r>>)
  BY DEF Increasing

\* A record behind all the others.
LEMMA AppendInOrder ==
    ASSUME NEW s \in Seq(Ids), NEW r \in Ids, Increasing(s), Before(Range(s), {r})
    PROVE  Increasing(Append(s, r))
<1>1. Append(s, r) = s \o <<r>> /\ <<r>> \in Seq(Ids) /\ Range(<<r>>) = {r}
  BY SetOfOne
<1>2. Increasing(<<r>>)
  BY OneInOrder
<1>3. Increasing(s \o <<r>>)
  BY <1>1, <1>2, ConcatInOrder, Zenon
<1> QED BY <1>1, <1>3, Zenon

\* The front of the queue is older than the rest.
LEMMA TailInOrder ==
    ASSUME NEW s \in Seq(Ids), s # <<>>, Increasing(s)
    PROVE  Increasing(Tail(s)) /\ Before({Head(s)}, Range(Tail(s)))
<1>1. /\ s = <<Head(s)>> \o Tail(s) /\ <<Head(s)>> \in Seq(Ids) /\ Tail(s) \in Seq(Ids)
      /\ Head(s) \in Ids
  <2>1. s = <<Head(s)>> \o Tail(s) /\ Head(s) \in Ids /\ Tail(s) \in Seq(Ids)
    BY HeadTailProperties
  <2> QED BY <2>1, SetOfOne
<1>2. Increasing(Tail(s)) /\ Before(Range(<<Head(s)>>), Range(Tail(s)))
  <2>1. Increasing(<<Head(s)>> \o Tail(s))
    BY <1>1, Zenon
  <2> QED BY <1>1, <2>1, ConcatInOrder, Zenon
<1> QED BY <1>1, <1>2, SetOfOne, Zenon

\* A prefix of the stream's buffer is in order.
LEMMA PrefixInOrder ==
    ASSUME NEW s \in Seq(Ids), NEW n \in 0..Len(s), Increasing(s)
    PROVE  Increasing(SubSeq(s, 1, n)) /\ Range(SubSeq(s, 1, n)) \subseteq Range(s)
<1>1. Len(SubSeq(s, 1, n)) = n /\ \A k \in 1..n : SubSeq(s, 1, n)[k] = s[k]
  OBVIOUS
<1>2. DOMAIN SubSeq(s, 1, n) = 1..n /\ 1..n \subseteq DOMAIN s
  BY <1>1
<1> QED BY <1>1, <1>2 DEF Increasing, Range

\* Two sequences in order, the first before the second, are one in order.
LEMMA JoinedInOrder ==
    ASSUME NEW s \in Seq(Ids), NEW t \in Seq(Ids), Increasing(s), Increasing(t),
           Before(Range(s), Range(t))
    PROVE  /\ s \o t \in Seq(Ids) /\ Range(s \o t) = Range(s) \cup Range(t)
           /\ Increasing(s \o t)
<1>1. s \o t \in Seq(Ids) /\ Range(s \o t) = Range(s) \cup Range(t)
  BY SetOfConcat
<1>2. Increasing(s \o t)
  BY ConcatInOrder, Zenon
<1> QED BY <1>1, <1>2

\* What is on disk, in the stream or in the queue was accepted.
LEMMA AllAccepted ==
    ASSUME IInv
    PROVE  /\ accepted \in Nat
           /\ Range(file) \subseteq 1..accepted /\ Range(buffer) \subseteq 1..accepted
           /\ Range(queue_) \subseteq 1..accepted
           /\ \A t \in DOMAIN rotated : Range(rotated[t]) \subseteq 1..accepted
<1>1. accepted \in Nat
  BY DEF IInv, TypeOK
<1> QED BY <1>1 DEF IInv, NoneMissing, Written

\* Older than r: the files and the stream.
Older(r) ==
    /\ Before(Range(file), {r}) /\ Before(Range(buffer), {r})
    /\ \A t \in DOMAIN rotated : Before(Range(rotated[t]), {r})

\* A rotation puts the whole file behind the older rotated ones and before r.
LEMMA RotateInOrder ==
    ASSUME TypeOK, Ordered, NEW r \in Ids, NEW renamed \in BOOLEAN, NEW reopened \in BOOLEAN,
           Rotate(r, renamed, reopened), Older(r), Increasing(queue_'), ~async' => queue_' = <<>>,
           Range(queue_') \subseteq Range(queue_), Before({r}, Range(queue_')), clock' = clock
    PROVE  Ordered'
<1> DEFINE whole == file \o buffer
<1>1. /\ whole \in Seq(Ids) /\ Range(whole) = Range(file) \cup Range(buffer) /\ Increasing(whole)
  <2>1. /\ file \in Seq(Ids) /\ buffer \in Seq(Ids) /\ Increasing(file) /\ Increasing(buffer)
        /\ Before(Range(file), Range(buffer))
    BY Zenon DEF TypeOK, Ordered
  <2> QED BY <2>1, JoinedInOrder, Zenon
<1>2. Increasing(buffer') /\ Range(buffer') \subseteq {r}
  <2>1. buffer' = <<r>> \/ buffer' = <<>>
    BY DEF Rotate
  <2> QED BY <2>1, EmptyInOrder, OneInOrder, SetOfOne, SetOfEmpty, Zenon
<1>3. CASE ~renamed
  <2>1. rotated' = rotated /\ file' = whole
    BY <1>3 DEF Rotate, Kept
  <2> HIDE DEF whole
  <2> QED BY <1>1, <1>2, <2>1, ZenonT(40) DEF Ordered, Before, Older
<1>4. CASE renamed
  <2>1. /\ DOMAIN rotated' = DOMAIN rotated \cup {clock} /\ file' = <<>>
        /\ rotated'[clock] = whole
        /\ \A t \in DOMAIN rotated : t # clock => rotated'[t] = rotated[t]
    BY <1>4 DEF Rotate, Kept
  <2>2. Range(file') = {} /\ Increasing(file')
    BY <2>1, SetOfEmpty, EmptyInOrder, Zenon
  <2> HIDE DEF whole
  <2>3. /\ Increasing(file') /\ Increasing(buffer') /\ Increasing(queue_')
        /\ Before(Range(file'), Range(buffer')) /\ Before(Range(file'), Range(queue_'))
        /\ Before(Range(buffer'), Range(queue_'))
    BY <1>2, <2>2, Zenon DEF Before
  <2>4. ASSUME NEW t \in DOMAIN rotated'
        PROVE  /\ Increasing(rotated'[t]) /\ t <= clock
               /\ Before(Range(rotated'[t]), {r})
               /\ Before(Range(rotated'[t]), Range(queue_'))
    <3>1. CASE t = clock
      <4>1. clock \in Nat /\ t <= clock
        BY <3>1 DEF TypeOK
      <4> QED BY <1>1, <2>1, <3>1, <4>1, Zenon DEF Ordered, Older, Before
    <3>2. CASE t # clock
      BY <2>1, <3>2, Zenon DEF Ordered, Older, Before
    <3> QED BY <3>1, <3>2
  <2>5. ASSUME NEW t \in DOMAIN rotated', NEW u \in DOMAIN rotated', t < u
        PROVE  Before(Range(rotated'[t]), Range(rotated'[u]))
    <3>1. t \in Nat /\ u \in Nat /\ clock \in Nat /\ u <= clock
      <4>1. clock \in Nat /\ DOMAIN rotated \subseteq Nat
        BY DEF TypeOK
      <4>2. t \in Nat /\ u \in Nat
        BY <2>1, <4>1, Zenon
      <4> QED BY <2>4, <4>1, <4>2, Zenon
    <3>2. t # clock /\ t \in DOMAIN rotated
      <4>1. t # clock
        BY <2>5, <3>1
      <4> QED BY <2>1, <4>1, Zenon
    <3>3. CASE u = clock
      BY <1>1, <2>1, <3>2, <3>3, Zenon DEF Ordered, Before
    <3>4. CASE u # clock
      BY <2>1, <2>5, <3>2, <3>4, Zenon DEF Ordered
    <3> QED BY <3>3, <3>4, Zenon
  <2>6. ASSUME NEW t \in DOMAIN rotated'
        PROVE  /\ Before(Range(rotated'[t]), Range(file'))
               /\ Before(Range(rotated'[t]), Range(buffer'))
    BY <1>2, <2>2, <2>4, Zenon DEF Before
  <2> QED BY <2>3, <2>4, <2>5, <2>6, Zenon DEF Ordered
<1> QED BY <1>3, <1>4

\* write_one keeps the order when its record is the next one.
LEMMA WriteOneInOrder ==
    ASSUME TypeOK, Ordered, NEW r \in Ids, write_one(r), Older(r), Increasing(queue_'),
           ~async' => queue_' = <<>>,
           Range(queue_') \subseteq Range(queue_), Before({r}, Range(queue_')), clock' = clock
    PROVE  Ordered'
<1>1. CASE ~stream_ /\ lost' = lost \cup {r} /\ UNCHANGED diskVars
  BY <1>1, Zenon DEF Ordered, Before, diskVars
<1>2. CASE /\ buffer' = Append(buffer, r) /\ bytes_written_' = bytes_written_ + 1
           /\ UNCHANGED <<file, rotated, stream_, renameFailed, lost>>
  <2>1. Range(buffer') = Range(buffer) \cup {r} /\ Increasing(buffer')
    <3>1. buffer \in Seq(Ids) /\ Increasing(buffer) /\ Before(Range(buffer), {r})
      BY Zenon DEF TypeOK, Ordered, Older
    <3>2. Increasing(Append(buffer, r))
      BY <3>1, AppendInOrder, Zenon
    <3>3. Range(Append(buffer, r)) = Range(buffer) \cup {r}
      BY <3>1, SetOfAppend
    <3> QED BY <1>2, <3>2, <3>3, Zenon
  <2> QED BY <1>2, <2>1, ZenonT(40) DEF Ordered, Before, Older
<1>3. CASE \E renamed, reopened \in ReopenOutcomes : Rotate(r, renamed, reopened)
  BY <1>3, RotateInOrder, QueryLoggerAssumption
<1> QED BY <1>1, <1>2, <1>3 DEF write_one

\* stream_.flush(), whatever becomes of the stream.
LEMMA FlushInOrder ==
    ASSUME TypeOK, Ordered, FlushStream, UNCHANGED <<rotated, queue_, async, clock>>
    PROVE  Ordered'
<1>1. file' = file \o buffer /\ buffer' = <<>>
  BY DEF FlushStream
<1>2. Range(file') = Range(file) \cup Range(buffer) /\ Increasing(file')
  <2>1. /\ file \in Seq(Ids) /\ buffer \in Seq(Ids) /\ Increasing(file) /\ Increasing(buffer)
        /\ Before(Range(file), Range(buffer))
    BY Zenon DEF TypeOK, Ordered
  <2> QED BY <1>1, <2>1, JoinedInOrder, Zenon
<1>3. Range(buffer') = {} /\ Increasing(buffer')
  BY <1>1, SetOfEmpty, EmptyInOrder, Zenon
<1> QED BY <1>2, <1>3, Zenon DEF Ordered, Before

\* A popped record is the next one.
LEMMA PopInOrder ==
    ASSUME IInv, Ordered, queue_ # <<>>, queue_' = Tail(queue_), write_one(Popped),
           UNCHANGED <<async, clock>>
    PROVE  Ordered'
<1>1. queue_ \in Seq(Ids) /\ Increasing(queue_)
  BY DEF IInv, TypeOK, Ordered
<1>2. /\ Popped \in Ids /\ Range(queue_) = {Popped} \cup Range(queue_')
  BY <1>1, SetOfTail DEF Popped
<1>3. Increasing(queue_') /\ Before({Popped}, Range(queue_'))
  BY <1>1, TailInOrder DEF Popped
<1>4. Older(Popped)
  BY <1>2, Zenon DEF Ordered, Older, Before
<1>5. async
  BY DEF Ordered
<1> QED BY <1>2, <1>3, <1>4, <1>5, WriteOneInOrder DEF IInv

\* A record just accepted is later than all the others.
LEMMA AcceptedIsNewest ==
    ASSUME IInv
    PROVE  Older(accepted + 1) /\ Before(Range(queue_), {accepted + 1})
  BY AllAccepted DEF Older, Before

\* No step of any thread, no rotation, kill or restart puts two records in the
\* wrong order.
LEMMA StepInOrder == IInv /\ Ordered /\ [Next]_vars => Ordered'
<1> SUFFICES ASSUME IInv, Ordered, [Next]_vars PROVE Ordered'
  OBVIOUS
<1>1. ASSUME UNCHANGED <<file, buffer, queue_, rotated, clock, async>> PROVE Ordered'
  BY <1>1 DEF Ordered
<1>2. ASSUME NEW c \in Clients, LogSync(c) PROVE Ordered'
  <2>1. accepted + 1 \in Ids /\ write_one(accepted + 1) /\ UNCHANGED <<queue_, async, clock>> /\ ~async
    BY <1>2, QueryLoggerAssumption DEF IInv, TypeOK, LogSync, Ids, lifeVars
  <2>2. queue_ = <<>> /\ Range(queue_) = {}
    BY <2>1, SetOfEmpty DEF Ordered
  <2>3. Increasing(queue_') /\ Before({accepted + 1}, Range(queue_')) /\ Range(queue_') = Range(queue_)
    BY <2>1, <2>2, Zenon DEF Ordered, Before
  <2> QED BY <2>1, <2>2, <2>3, AcceptedIsNewest, WriteOneInOrder DEF IInv
<1>3. ASSUME NEW c \in Clients, LogPush(c) PROVE Ordered'
  <2>1. /\ accepted + 1 \in Ids /\ queue_' = Append(queue_, accepted + 1)
        /\ UNCHANGED <<file, buffer, rotated, clock, async>> /\ async
    BY <1>3, QueryLoggerAssumption DEF IInv, TypeOK, LogPush, Ids, lifeVars, diskVars
  <2>2. Increasing(queue_') /\ Range(queue_') = Range(queue_) \cup {accepted + 1}
    <3>1. queue_ \in Seq(Ids) /\ Increasing(queue_) /\ Before(Range(queue_), {accepted + 1})
      BY AcceptedIsNewest, Zenon DEF IInv, TypeOK, Ordered
    <3>2. Increasing(Append(queue_, accepted + 1))
      BY <2>1, <3>1, AppendInOrder, Zenon
    <3>3. Range(Append(queue_, accepted + 1)) = Range(queue_) \cup {accepted + 1}
      BY <2>1, <3>1, SetOfAppend
    <3> QED BY <2>1, <3>2, <3>3, Zenon
  <2> QED BY <2>1, <2>2, AcceptedIsNewest, ZenonT(40) DEF Ordered, Older, Before
<1>4. ASSUME NEW c \in Clients, FlushReturn(c) PROVE Ordered'
  BY <1>4, FlushInOrder DEF IInv, FlushReturn, lifeVars, queueVars
<1>5. CASE WriterWrite \/ DrainAfterJoin
  BY <1>5, PopInOrder DEF WriterWrite, DrainAfterJoin, lifeVars
<1>6. CASE WriterEndBurst \/ Destroyed
  BY <1>6, FlushInOrder DEF IInv, WriterEndBurst, Destroyed, lifeVars, queueVars
<1>7. CASE Kill
  <2>1. PICK n \in 0..Len(buffer) : file' = file \o SubSeq(buffer, 1, n)
    BY <1>7 DEF Kill
  <2>2. buffer' = <<>> /\ queue_' = <<>> /\ UNCHANGED <<rotated, clock, async>>
    BY <1>7 DEF Kill
  <2> DEFINE saved == SubSeq(buffer, 1, n)
  <2>3. saved \in Seq(Ids) /\ Increasing(saved) /\ Range(saved) \subseteq Range(buffer)
    BY SetOfCut, PrefixInOrder DEF IInv, TypeOK, Ordered
  <2>4. file' = file \o saved
    BY <2>1
  <2> HIDE DEF saved
  <2>5. Range(file') = Range(file) \cup Range(saved) /\ Increasing(file')
    <3>1. Before(Range(file), Range(saved))
      BY <2>3, Zenon DEF Ordered, Before
    <3>2. file \in Seq(Ids) /\ Increasing(file)
      BY Zenon DEF IInv, TypeOK, Ordered
    <3> QED BY <2>3, <2>4, <3>1, <3>2, JoinedInOrder, Zenon
  <2>6. /\ Range(buffer') = {} /\ Range(queue_') = {}
        /\ Increasing(buffer') /\ Increasing(queue_')
    BY <2>2, SetOfEmpty, EmptyInOrder, Zenon
  <2> QED BY <2>2, <2>3, <2>5, <2>6, Zenon DEF Ordered, Before
<1>8. CASE Restart
  <2>1. queue_' = <<>> /\ UNCHANGED <<file, buffer, rotated, clock>>
    BY <1>8 DEF Restart
  <2>2. Range(queue_') = {} /\ Increasing(queue_')
    BY <2>1, SetOfEmpty, EmptyInOrder, Zenon
  <2> QED BY <2>1, <2>2, Zenon DEF Ordered, Before
<1>9. CASE Tick
  <2>1. UNCHANGED <<file, buffer, queue_, rotated, async>> /\ clock' = clock + 1
    BY <1>9 DEF Tick, diskVars, queueVars
  <2>2. \A t \in DOMAIN rotated : t <= clock => t <= clock'
    BY <2>1 DEF IInv, TypeOK
  <2> QED BY <2>1, <2>2, Zenon DEF Ordered
<1>10. CASE \/ \E c \in Clients : LogDrop(c) \/ NotifyOne(c) \/ FlushWait(c)
            \/ WriterTest \/ SpuriousWakeup \/ Destroy \/ UNCHANGED vars
  BY <1>1, <1>10
     DEF LogDrop, NotifyOne, FlushWait, WriterTest, SpuriousWakeup, Destroy, vars,
         diskVars, queueVars, lifeVars
<1> QED
  BY <1>2, <1>3, <1>4, <1>5, <1>6, <1>7, <1>8, <1>9, <1>10, Zenon
     DEF Next, ClientStep, FlushCall, FlushRetest, WriterStep, DestructorStep

\* Each part after the other is the whole in order.
LEMMA OrderedIsInOrder == IInv /\ Ordered => InOrder
<1> SUFFICES ASSUME IInv, Ordered PROVE InOrder
  OBVIOUS
<1>1. /\ file \in Seq(Ids) /\ buffer \in Seq(Ids) /\ queue_ \in Seq(Ids)
      /\ \A t \in DOMAIN rotated : rotated[t] \in Seq(Ids)
  BY DEF IInv, TypeOK
<1>2. ASSUME NEW s \in Seq(Ids), Increasing(s), Before(Range(s), Range(buffer)),
             Before(Range(s), Range(queue_))
      PROVE  Increasing(s \o buffer \o queue_)
  <2>1. /\ s \o buffer \in Seq(Ids) /\ Range(s \o buffer) = Range(s) \cup Range(buffer)
        /\ Increasing(s \o buffer)
    <3>1. Increasing(buffer) /\ buffer \in Seq(Ids)
      BY <1>1, Zenon DEF Ordered
    <3> QED BY <1>2, <3>1, JoinedInOrder, Zenon
  <2>2. Before(Range(s \o buffer), Range(queue_))
    BY <1>2, <2>1, Zenon DEF Ordered, Before
  <2>3. Increasing(queue_)
    BY Zenon DEF Ordered
  <2> DEFINE u == s \o buffer
  <2>4. /\ u \in Seq(Ids) /\ Increasing(u) /\ Before(Range(u), Range(queue_))
        /\ queue_ \in Seq(Ids)
    BY <1>1, <2>1, <2>2, Zenon
  <2> HIDE DEF u
  <2>5. Increasing(u \o queue_)
    BY <2>3, <2>4, ConcatInOrder, Zenon
  <2> QED BY <2>5, Zenon DEF u
<1>3. Increasing(file \o buffer \o queue_)
  BY <1>1, <1>2 DEF Ordered
<1>4. ASSUME NEW t \in DOMAIN rotated
      PROVE  Increasing(rotated[t] \o file \o buffer \o queue_)
  <2> DEFINE s == rotated[t] \o file
  <2>1. s \in Seq(Ids) /\ Range(s) = Range(rotated[t]) \cup Range(file) /\ Increasing(s)
    <3>1. /\ rotated[t] \in Seq(Ids) /\ file \in Seq(Ids) /\ Increasing(rotated[t])
          /\ Increasing(file) /\ Before(Range(rotated[t]), Range(file))
      BY <1>1, Zenon DEF Ordered
    <3> QED BY <3>1, JoinedInOrder, Zenon
  <2> HIDE DEF s
  <2>2. Before(Range(s), Range(buffer)) /\ Before(Range(s), Range(queue_))
    BY <2>1, Zenon DEF Ordered, Before
  <2>3. Increasing(s \o buffer \o queue_)
    BY <1>2, <2>1, <2>2, Zenon
  <2> QED BY <2>3 DEF s
<1>5. ASSUME NEW t \in DOMAIN rotated, NEW u \in DOMAIN rotated, t < u
      PROVE  Increasing(rotated[t] \o rotated[u])
  BY <1>1, <1>5, ConcatInOrder DEF Ordered
<1> QED BY <1>3, <1>4, <1>5, Zenon DEF InOrder

\* The log is in order and without duplicates in every behaviour: across
\* rotations of any number, failed renames, kills and restarts, and however
\* many threads log, older files hold older records.
THEOREM LogIsInOrder == Spec => []InOrder
<1>1. Init => Ordered
  <2> SUFFICES ASSUME Init PROVE Ordered
    OBVIOUS
  <2>1. DOMAIN rotated = {}
    BY DEF Init
  <2> QED BY <2>1, SetOfEmpty, EmptyInOrder, Zenon DEF Init, Ordered, Before
<1>2. IInv /\ Ordered /\ [Next]_vars => Ordered'
  BY StepInOrder
<1>3. IInv /\ Ordered => InOrder
  BY OrderedIsInOrder
<1> QED BY <1>1, <1>2, <1>3, Invariance, PTL DEF Spec
-----------------------------------------------------------------------------
(* The size of the file.                                                   *)

\* As long as renaming works, bytes_written_ of an open stream is the size of
\* the file with what the stream holds, and that is within the limit.
Measured ==
    ~renameFailed =>
        /\ stream_ => bytes_written_ = Len(file) + Len(buffer)
        /\ max_size_bytes # 0 => Len(file) + Len(buffer) <= max_size_bytes

\* write_one appends below the limit only, or to a fresh file.
LEMMA WriteOneMeasured ==
    ASSUME TypeOK, Measured, NEW r \in Ids, write_one(r)
    PROVE  Measured'
<1>1. Len(file) \in Nat /\ Len(buffer) \in Nat /\ max_size_bytes \in Nat
  BY QueryLoggerAssumption DEF TypeOK
<1>2. CASE ~stream_ /\ UNCHANGED diskVars
  BY <1>2 DEF Measured, diskVars
<1>3. CASE /\ stream_ /\ ~RotationDue /\ buffer' = Append(buffer, r)
           /\ bytes_written_' = bytes_written_ + 1
           /\ UNCHANGED <<file, rotated, stream_, renameFailed, lost>>
  <2>1. Len(buffer') = Len(buffer) + 1
    BY <1>3 DEF TypeOK
  <2> QED BY <1>1, <1>3, <2>1 DEF Measured, RotationDue
<1>4. ASSUME stream_, RotationDue, NEW renamed \in BOOLEAN, NEW reopened \in BOOLEAN,
             Rotate(r, renamed, reopened)
      PROVE  Measured'
  <2>1. CASE ~renamed
    <3>1. renameFailed'
      BY <1>4, <2>1, Zenon DEF Rotate, TypeOK
    <3> QED BY <3>1 DEF Measured
  <2>2. CASE renamed
    <3>1. /\ file' = <<>> /\ buffer' = IF reopened THEN <<r>> ELSE <<>>
          /\ stream_' = reopened /\ bytes_written_' = IF reopened THEN 1 ELSE 0
      BY <1>4, <2>2 DEF Rotate, Kept
    <3>2. max_size_bytes >= 1 /\ Len(<<>>) = 0 /\ Len(<<r>>) = 1
      BY <1>1, <1>4 DEF RotationDue
    <3>3. CASE reopened
      <4>1. Len(file') = 0 /\ Len(buffer') = 1 /\ bytes_written_' = 1
        BY <3>1, <3>2, <3>3
      <4> QED BY <1>1, <3>2, <4>1 DEF Measured
    <3>4. CASE ~reopened
      <4>1. Len(file') = 0 /\ Len(buffer') = 0 /\ ~stream_'
        BY <3>1, <3>2, <3>4
      <4> QED BY <1>1, <3>2, <4>1 DEF Measured
    <3> QED BY <3>3, <3>4
  <2> QED BY <2>1, <2>2
<1> QED BY <1>2, <1>3, <1>4, QueryLoggerAssumption DEF write_one

\* Flushing the stream does not change the size.
LEMMA FlushMeasured ==
    ASSUME TypeOK, Measured, FlushStream, UNCHANGED <<bytes_written_, renameFailed>>,
           stream_' => stream_
    PROVE  Measured'
<1>1. Len(file') = Len(file) + Len(buffer) /\ Len(buffer') = 0 /\ Len(file) \in Nat /\ Len(buffer) \in Nat
  BY DEF FlushStream, TypeOK
<1> QED BY <1>1 DEF Measured

\* No step of any thread, no kill and no restart lets the file outgrow its limit.
LEMMA StepMeasured == IInv /\ Measured /\ [Next]_vars => Measured'
<1> SUFFICES ASSUME IInv, Measured, [Next]_vars PROVE Measured'
  OBVIOUS
<1>1. Len(file) \in Nat /\ Len(buffer) \in Nat /\ max_size_bytes \in Nat /\ TypeOK
  BY QueryLoggerAssumption DEF IInv, TypeOK
<1>2. ASSUME UNCHANGED <<file, buffer, stream_, bytes_written_, renameFailed>> PROVE Measured'
  BY <1>2 DEF Measured
<1>3. ASSUME NEW c \in Clients, LogSync(c) PROVE Measured'
  <2>1. accepted + 1 \in Ids /\ write_one(accepted + 1)
    BY <1>3, QueryLoggerAssumption DEF IInv, TypeOK, LogSync, Ids
  <2> QED BY <1>1, <2>1, WriteOneMeasured
<1>4. CASE WriterWrite \/ DrainAfterJoin
  <2>1. queue_ # <<>> /\ write_one(Popped)
    BY <1>4 DEF WriterWrite, DrainAfterJoin
  <2>2. Popped \in Ids
    BY <2>1, SetOfTail DEF IInv, TypeOK, Popped
  <2> QED BY <1>1, <2>1, <2>2, WriteOneMeasured
<1>5. ASSUME NEW c \in Clients, FlushReturn(c) PROVE Measured'
  BY <1>1, <1>5, FlushMeasured DEF FlushReturn
<1>6. CASE WriterEndBurst \/ Destroyed
  BY <1>1, <1>6, FlushMeasured DEF WriterEndBurst, Destroyed
<1>7. CASE Kill
  <2>1. PICK n \in 0..Len(buffer) : file' = file \o SubSeq(buffer, 1, n)
    BY <1>7 DEF Kill
  <2>2. buffer' = <<>> /\ ~stream_' /\ renameFailed' = renameFailed
    BY <1>7 DEF Kill
  <2>3. Len(file') = Len(file) + n
    <3>1. SubSeq(buffer, 1, n) \in Seq(Ids) /\ Len(SubSeq(buffer, 1, n)) = n
      <4>1. buffer \in Seq(Ids)
        BY <1>1 DEF TypeOK
      <4> QED BY <4>1
    <3>2. file \in Seq(Ids)
      BY <1>1, Zenon DEF TypeOK
    <3> QED BY <2>1, <3>1, <3>2
  <2> QED BY <1>1, <2>2, <2>3 DEF Measured
<1>8. CASE Restart
  <2>1. buffer = <<>> /\ UNCHANGED <<file, buffer, renameFailed>>
    BY <1>8 DEF IInv, Over, Restart
  <2>2. stream_' => bytes_written_' = Len(file)
    BY <1>8 DEF Restart, Construct, SizeFound
  <2> QED BY <1>1, <2>1, <2>2 DEF Measured
<1>9. CASE \/ \E c \in Clients : LogDrop(c) \/ LogPush(c) \/ NotifyOne(c) \/ FlushWait(c)
           \/ WriterTest \/ SpuriousWakeup \/ Destroy \/ Tick \/ UNCHANGED vars
  BY <1>2, <1>9
     DEF LogDrop, LogPush, NotifyOne, FlushWait, WriterTest, SpuriousWakeup, Destroy, Tick,
         vars, diskVars
<1> QED
  BY <1>3, <1>4, <1>5, <1>6, <1>7, <1>8, <1>9, Zenon
     DEF Next, ClientStep, FlushCall, FlushRetest, WriterStep, DestructorStep

\* While renames succeed the file never outgrows max_size_bytes, also when a
\* process starts on the file that another one left.
THEOREM FileStaysBounded == Spec => []SizeBounded
<1>1. Init => Measured
  BY QueryLoggerAssumption DEF Init, Measured
<1>2. IInv /\ Measured /\ [Next]_vars => Measured'
  BY StepMeasured
<1>3. IInv /\ Measured => SizeBounded
  <2>1. IInv => Len(file \o buffer) = Len(file) + Len(buffer)
    BY DEF IInv, TypeOK
  <2> QED BY <2>1 DEF Measured, SizeBounded
<1> QED BY <1>1, <1>2, <1>3, Invariance, PTL DEF Spec
=============================================================================
