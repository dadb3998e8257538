---------------------------- MODULE QueryLogger -----------------------------
(***************************************************************************)
(* The query log: callers of log() and flush(), a bounded queue, the       *)
(* writer thread, size-based rotation, the destructor, and what survives   *)
(* when the process is killed and started again.                           *)
(*                                                                         *)
(* Records are numbered in the order log() accepts them, and sizes are     *)
(* counted in records.  mu_ protects every step except the notify_one that *)
(* log() issues after unlocking; the writer holds mu_ through a whole      *)
(* burst, in which only the clock and a kill can interfere.  One condition *)
(* variable serves the writer and the flushers alike.                      *)
(***************************************************************************)
EXTENDS Naturals, Sequences, FiniteSets, Functions

CONSTANTS Clients,         \* threads that call log and flush
          queue_size, max_size_bytes,
          OpenOutcomes,    \* what opening the file may return, within BOOLEAN
          ReopenOutcomes,  \* what rename and reopen in a rotation may return
          MaxRecords, MaxDropped, MaxClock, MaxRuns   \* bounds

ASSUME QueryLoggerAssumption ==
    /\ queue_size \in Nat /\ max_size_bytes \in Nat
    /\ MaxRecords \in Nat /\ MaxDropped \in Nat /\ MaxClock \in Nat /\ MaxRuns \in Nat \ {0}
    /\ OpenOutcomes \subseteq BOOLEAN /\ ReopenOutcomes \subseteq BOOLEAN

VARIABLES
    async,          \* cfg_.async
    stream_,        \* whether the stream is open and good
    queue_, dropped_, bytes_written_,
    file,           \* the records in the file at cfg_.path
    buffer,         \* the records still in the stream's buffer
    rotated,        \* stamp -> the records of the rotated file of that name
    lost,           \* history: accepted records that will never be in a file
    renameFailed,   \* history: some rotation could not rename
    accepted,       \* history: records accepted so far
    clock,          \* system_clock, in the seconds of a rotation stamp
    wpc,            \* the writer thread
    pc, goal,       \* pc[c], and how many records c's flush has to cover
    stopping_, dtor,
    runs            \* number of times the process was started

diskVars  == <<file, buffer, rotated, stream_, bytes_written_, renameFailed>>
queueVars == <<queue_, accepted, dropped_>>
callVars  == <<pc, goal>>
lifeVars  == <<async, clock, stopping_, dtor, runs>>
vars == <<diskVars, lost, queueVars, wpc, callVars, lifeVars>>

MuFree == wpc # "drain" /\ dtor # "killed"
Alive  == dtor # "killed"
Waiting == {c \in Clients : pc[c] = "wait"}

Overwritten == IF clock \in DOMAIN rotated THEN Range(rotated[clock]) ELSE {}

-----------------------------------------------------------------------------
\* Seeded fault: the file is truncated when it is opened again.
KeptTruncated(renamed) == <<>>

\* What the file at cfg_.path holds after the rename and reopening (append).
Kept(renamed) == IF renamed THEN <<>> ELSE file \o buffer

\* maybe_rotate, when a rotation is due, with r the record to be written next.
Rotate(r, renamed, reopened) ==
    /\ rotated' = IF ~renamed THEN rotated
                  ELSE [t \in DOMAIN rotated \cup {clock} |->
                            IF t = clock THEN file \o buffer ELSE rotated[t]]
    /\ file' = Kept(renamed)
    /\ renameFailed' = (renameFailed \/ ~renamed)
    /\ stream_' = reopened
    /\ buffer' = IF reopened THEN <<r>> ELSE <<>>
    /\ bytes_written_' = IF reopened THEN 1 ELSE 0
    /\ lost' = lost \cup (IF renamed THEN Overwritten ELSE {})
                    \cup (IF reopened THEN {} ELSE {r})

RotationDue == max_size_bytes # 0 /\ bytes_written_ >= max_size_bytes

write_one(r) ==
    \/ /\ ~stream_
       /\ lost' = lost \cup {r}
       /\ UNCHANGED diskVars
    \/ /\ stream_ /\ ~RotationDue
       /\ buffer' = Append(buffer, r) /\ bytes_written_' = bytes_written_ + 1
       /\ UNCHANGED <<file, rotated, stream_, renameFailed, lost>>
    \/ /\ stream_ /\ RotationDue
       /\ \E renamed, reopened \in ReopenOutcomes : Rotate(r, renamed, reopened)

\* Seeded fault: the records stay in the stream's buffer.
FlushStreamLater == UNCHANGED <<file, buffer>>

\* stream_.flush(); a stream that is not open has an empty buffer.
FlushStream == file' = file \o buffer /\ buffer' = <<>>

-----------------------------------------------------------------------------
LogSync(c) ==
    /\ ~async /\ dtor = "live" /\ pc[c] = "idle" /\ accepted < MaxRecords
    /\ accepted' = accepted + 1
    /\ write_one(accepted + 1)
    /\ UNCHANGED <<lifeVars, queue_, dropped_, wpc, callVars>>

\* Seeded fault: one record too many is taken.
QueueFullLate == Len(queue_) > queue_size

QueueFull == Len(queue_) >= queue_size

LogDrop(c) ==
    /\ async /\ dtor = "live" /\ pc[c] = "idle" /\ MuFree
    /\ QueueFull
    /\ dropped_ < MaxDropped
    /\ dropped_' = dropped_ + 1
    /\ UNCHANGED <<lifeVars, queue_, diskVars, lost, accepted, wpc, callVars>>

LogPush(c) ==
    /\ async /\ dtor = "live" /\ pc[c] = "idle" /\ MuFree
    /\ ~QueueFull /\ accepted < MaxRecords
    /\ queue_' = Append(queue_, accepted + 1) /\ accepted' = accepted + 1
    /\ pc' = [pc EXCEPT ![c] = "notify"]
    /\ UNCHANGED <<lifeVars, dropped_, diskVars, lost, wpc, goal>>

\* cv_.notify_one(), after mu_ is released: it wakes some waiter, if any.
NotifyOne(c) ==
    /\ pc[c] = "notify" /\ Alive
    /\ \/ /\ wpc = "wait"
          /\ wpc' = "woken" /\ pc' = [pc EXCEPT ![c] = "idle"]
       \/ /\ \E w \in Waiting : pc' = [pc EXCEPT ![c] = "idle", ![w] = "woken"]
          /\ UNCHANGED wpc
       \/ /\ wpc # "wait" /\ Waiting = {}
          /\ pc' = [pc EXCEPT ![c] = "idle"] /\ UNCHANGED wpc
    /\ UNCHANGED <<lifeVars, queueVars, diskVars, lost, goal>>

-----------------------------------------------------------------------------
\* Seeded fault: any wakeup ends the wait.
DrainedNot == TRUE

\* The predicate flush waits for.
Drained == queue_ = <<>>

FlushReturn(c) ==
    /\ Drained
    /\ FlushStream
    /\ pc' = [pc EXCEPT ![c] = "idle"]
    /\ UNCHANGED <<lifeVars, queueVars, rotated, stream_, bytes_written_, renameFailed,
                   lost, wpc>>

FlushWait(c) ==
    /\ ~Drained
    /\ pc' = [pc EXCEPT ![c] = "wait"]
    /\ UNCHANGED <<lifeVars, queueVars, diskVars, lost, wpc>>

FlushCall(c) ==
    /\ dtor = "live" /\ pc[c] = "idle" /\ MuFree
    /\ goal' = [goal EXCEPT ![c] = accepted]
    /\ FlushReturn(c) \/ FlushWait(c)

FlushRetest(c) ==
    /\ pc[c] = "woken" /\ MuFree
    /\ UNCHANGED goal
    /\ FlushReturn(c) \/ FlushWait(c)

-----------------------------------------------------------------------------
\* Seeded fault: a single record is not enough to work on.
HasWorkBatched == Len(queue_) > 1

HasWork == queue_ # <<>>

\* The writer takes mu_ at its start or after a wakeup and tests its predicate.
WriterTest ==
    /\ wpc \in {"start", "woken"} /\ MuFree
    /\ wpc' = IF HasWork \/ (stopping_ /\ wpc = "woken") THEN "drain"
              ELSE IF stopping_ THEN "exit"
              ELSE "wait"
    /\ UNCHANGED <<lifeVars, queueVars, diskVars, lost, callVars>>

\* Seeded fault: the newest record is taken.
PoppedBack == queue_[Len(queue_)]

Popped == Head(queue_)

WriterWrite ==
    /\ wpc = "drain" /\ Alive /\ queue_ # <<>>
    /\ queue_' = Tail(queue_)
    /\ write_one(Popped)
    /\ UNCHANGED <<lifeVars, dropped_, accepted, wpc, callVars>>

\* Seeded fault: the flushers are not told that the queue is empty.
NotifyAllNobody == pc

NotifyAll == [c \in Clients |-> IF pc[c] = "wait" THEN "woken" ELSE pc[c]]

WriterEndBurst ==
    /\ wpc = "drain" /\ Alive /\ queue_ = <<>>
    /\ FlushStream
    /\ pc' = NotifyAll
    /\ wpc' = IF stopping_ THEN "exit" ELSE "wait"
    /\ UNCHANGED <<lifeVars, queueVars, rotated, stream_, bytes_written_, renameFailed,
                   lost, goal>>

\* A condition variable may wake its waiters without a notification.
SpuriousWakeup ==
    /\ Alive
    /\ \/ wpc = "wait" /\ wpc' = "woken" /\ UNCHANGED pc
       \/ \E c \in Waiting : pc' = [pc EXCEPT ![c] = "woken"] /\ UNCHANGED wpc
    /\ UNCHANGED <<lifeVars, queueVars, diskVars, lost, goal>>

-----------------------------------------------------------------------------
\* Seeded fault: a writer that waits is not woken to stop.
WriterToldNot == wpc

WriterTold == IF wpc = "wait" THEN "woken" ELSE wpc

\* ~QueryLogger, entered when no other call is in progress.
Destroy ==
    /\ dtor = "live" /\ MuFree /\ \A c \in Clients : pc[c] = "idle"
    /\ stopping_' = (wpc # "none")
    /\ wpc' = WriterTold
    /\ dtor' = "joining"
    /\ UNCHANGED <<async, queueVars, diskVars, lost, clock, callVars, runs>>

\* After the join (if there was a thread) the rest of the queue is written.
DrainAfterJoin ==
    /\ dtor = "joining" /\ wpc \in {"exit", "none"} /\ queue_ # <<>>
    /\ queue_' = Tail(queue_)
    /\ write_one(Popped)
    /\ UNCHANGED <<lifeVars, dropped_, accepted, wpc, callVars>>

\* The stream's own destructor flushes and closes it.
Destroyed ==
    /\ dtor = "joining" /\ wpc \in {"exit", "none"} /\ queue_ = <<>>
    /\ FlushStream /\ stream_' = FALSE
    /\ dtor' = "done"
    /\ UNCHANGED <<async, queueVars, rotated, bytes_written_, renameFailed, lost, clock,
                   wpc, callVars, stopping_, runs>>

\* The process is killed: of the stream's buffer, a prefix is on disk.
Kill ==
    /\ dtor \in {"live", "joining"}
    /\ \E n \in 0..Len(buffer) :
        /\ file' = file \o SubSeq(buffer, 1, n)
        /\ lost' = lost \cup Range(queue_) \cup {buffer[i] : i \in (n+1)..Len(buffer)}
    /\ buffer' = <<>> /\ queue_' = <<>> /\ stream_' = FALSE
    /\ dtor' = "killed"
    /\ UNCHANGED <<async, dropped_, rotated, bytes_written_, renameFailed, accepted, clock,
                   wpc, callVars, stopping_, runs>>

\* Seeded fault: a restart forgets how big the file already is.
SizeFoundNot == 0

SizeFound == Len(file)

\* The constructor: the size of the file found there counts towards rotation.
Construct(asynchronous, opened) ==
    /\ async' = asynchronous /\ stream_' = opened
    /\ bytes_written_' = IF opened THEN SizeFound ELSE 0
    /\ wpc' = IF asynchronous /\ opened THEN "start" ELSE "none"

Restart ==
    /\ dtor \in {"done", "killed"} /\ runs < MaxRuns
    /\ \E a \in BOOLEAN, o \in OpenOutcomes : Construct(a, o)
    /\ queue_' = <<>> /\ dropped_' = 0
    /\ pc' = [c \in Clients |-> "idle"] /\ goal' = [c \in Clients |-> 0]
    /\ stopping_' = FALSE /\ dtor' = "live" /\ runs' = runs + 1
    /\ UNCHANGED <<file, buffer, rotated, renameFailed, lost, accepted, clock>>

Tick ==
    /\ clock < MaxClock /\ clock' = clock + 1
    /\ UNCHANGED <<async, queueVars, diskVars, lost, wpc, callVars, stopping_, dtor, runs>>

-----------------------------------------------------------------------------
Init ==
    /\ async \in BOOLEAN /\ stream_ \in OpenOutcomes
    /\ queue_ = <<>> /\ dropped_ = 0 /\ bytes_written_ = 0
    /\ file = <<>> /\ buffer = <<>> /\ rotated = <<>>
    /\ lost = {} /\ renameFailed = FALSE /\ accepted = 0 /\ clock = 0
    /\ wpc = IF async /\ stream_ THEN "start" ELSE "none"
    /\ pc = [c \in Clients |-> "idle"] /\ goal = [c \in Clients |-> 0]
    /\ stopping_ = FALSE /\ dtor = "live" /\ runs = 1

WriterStep == WriterTest \/ WriterWrite \/ WriterEndBurst
ClientStep(c) == NotifyOne(c) \/ FlushRetest(c)
DestructorStep == DrainAfterJoin \/ Destroyed

Next ==
    \/ \E c \in Clients : LogSync(c) \/ LogDrop(c) \/ LogPush(c) \/ FlushCall(c)
    \/ \E c \in Clients : ClientStep(c)
    \/ WriterStep \/ SpuriousWakeup
    \/ Destroy \/ DestructorStep
    \/ Kill \/ Restart \/ Tick

Spec == Init /\ [][Next]_vars

\* Threads that can run do; nobody has to log, destroy, kill or restart.
Fairness ==
    /\ WF_vars(WriterStep) /\ WF_vars(DestructorStep)
    /\ \A c \in Clients : WF_vars(ClientStep(c))

FairSpec == Spec /\ Fairness
-----------------------------------------------------------------------------
Ids == 1..MaxRecords
\* The state of the logger has its type; the queue never exceeds queue_size.
TypeOK ==
    /\ async \in BOOLEAN /\ stream_ \in BOOLEAN
    /\ queue_ \in Seq(Ids) /\ Len(queue_) <= queue_size
    /\ dropped_ \in 0..MaxDropped /\ bytes_written_ \in Nat
    /\ file \in Seq(Ids) /\ buffer \in Seq(Ids)
    /\ DOMAIN rotated \subseteq 0..MaxClock /\ \A t \in DOMAIN rotated : rotated[t] \in Seq(Ids)
    /\ lost \subseteq Ids /\ renameFailed \in BOOLEAN
    /\ accepted \in 0..MaxRecords /\ clock \in 0..MaxClock
    /\ wpc \in {"none", "start", "wait", "woken", "drain", "exit"}
    /\ pc \in [Clients -> {"idle", "notify", "wait", "woken"}]
    /\ goal \in [Clients -> 0..MaxRecords]
    /\ stopping_ \in BOOLEAN /\ dtor \in {"live", "joining", "done", "killed"}
    /\ runs \in 1..MaxRuns

OnDisk == Range(file) \cup UNION {Range(rotated[t]) : t \in DOMAIN rotated}

\* Every record log() accepted is still queued, in the stream, in a file, or
\* among the losses the code owns up to: a kill, a stream that could not be
\* opened, a rotated file replaced by one of the same second.  No mix of
\* rotation, failed rename, shutdown and restart loses another one.
Accounted == 1..accepted = Range(queue_) \cup Range(buffer) \cup OnDisk \cup lost

\* The log is in order and without duplicates, across rotations and restarts:
\* older rotated files hold older records than later ones, those older than
\* the current file, then the stream's buffer, then the queue.
Increasing(s) == \A i, j \in DOMAIN s : i < j => s[i] < s[j]
InOrder ==
    /\ Increasing(file \o buffer \o queue_)
    /\ \A t \in DOMAIN rotated :
         /\ Increasing(rotated[t] \o file \o buffer \o queue_)
         /\ \A u \in DOMAIN rotated : t < u => Increasing(rotated[t] \o rotated[u])

\* Between bursts the asynchronous writer leaves nothing in the stream's
\* buffer, so a kill loses at most the queue and the burst in progress.
DurableBetweenBursts == (async /\ MuFree) => buffer = <<>>

\* As long as renaming works the file with what the stream holds of it never
\* exceeds max_size_bytes, however often the process is restarted.
SizeBounded ==
    (max_size_bytes # 0 /\ ~renameFailed) => Len(file \o buffer) <= max_size_bytes

\* When flush returns, all that was accepted before it was called has left the
\* queue and the stream's buffer.
FlushMeansWritten ==
    [][\A c \in Clients :
         ((FlushCall(c) \/ FlushRetest(c)) /\ pc'[c] = "idle")
            => \A r \in Range(queue_') \cup Range(buffer') : r > goal'[c]]_vars

\* No thread sleeps in flush while the queue is empty: whoever takes the last
\* record out tells all of them, and a flush that finds the queue empty does
\* not wait.  Nobody else would wake it.
NoSleepOnEmpty == (MuFree /\ queue_ = <<>>) => Waiting = {}

\* flush returns (or the process dies first).
FlushReturns ==
    \A c \in Clients : pc[c] \in {"wait", "woken"} ~> (pc[c] = "idle" \/ ~Alive)

\* A queued record does not wait for the next one: the writer gets to it,
\* except while a thread is in flush, which shares the condition variable and
\* can take the notification meant for the writer.
QueueIsDrained ==
    (queue_ # <<>> /\ wpc # "none")
        ~> (queue_ = <<>> \/ ~Alive \/ \E c \in Clients : pc[c] \in {"wait", "woken"})

\* The destructor's join and final drain come to an end.
DestructorReturns == dtor = "joining" ~> dtor \in {"done", "killed"}

\* No accepted record is missing from the files of a process that was neither
\* killed nor short of a stream: rotation loses nothing.
NothingOverwritten ==
    (runs = 1 /\ dtor # "killed" /\ FALSE \notin OpenOutcomes \cup ReopenOutcomes) => lost = {}
=============================================================================
