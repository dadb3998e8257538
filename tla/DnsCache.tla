------------------------------ MODULE DnsCache ------------------------------
(***************************************************************************)
(* The response cache: a hash map and an LRU list kept in step under mu_,  *)
(* used by the threads that call insert and lookup and by the background   *)
(* sweeper thread.  Every operation reads the steady clock BEFORE it takes *)
(* mu_, so each is split at that point.                                    *)
(*                                                                         *)
(* A list node is a member of Nodes (the addresses the allocator hands     *)
(* out; a freed one may come back), and an entry's lru_it is the node it   *)
(* points to.  lru_[1] is the least recently used end.                     *)
(***************************************************************************)
EXTENDS CacheTtl, FiniteSets

CONSTANTS Keys, Nodes,
          Callers,       \* threads that call insert and lookup
          Messages,      \* parsed upstream responses
          max_entries,   \* cfg_.max_entries
          TicksPerSecond,
          SourceAddr,    \* where the caller's response buffer lies
          CopyAddr,      \* where insert's by-value parameter lies
          MaxClock,      \* bound on the clock
          MaxCalls,      \* bound on insert and lookup calls
          Free, Sweeper, \* the owners of mu_ that are not callers
          None           \* no value (std::nullopt, or not set)

\* The locals of a call, and the copy of a response that a hit returns.
Frame == [key: Keys, now: Nat, response: Messages \cup {None}]
Reply == [response: Messages, remaining: Int,
          ttls: UNION {[AllRecords(m) -> Int] : m \in Messages}]

ASSUME DnsCacheAssumption ==
    /\ max_entries \in Nat /\ TicksPerSecond \in Nat \ {0}
    /\ SourceAddr \in Nat /\ CopyAddr \in Nat
    /\ MaxClock \in Nat /\ MaxCalls \in Nat
    /\ Messages \subseteq Message
    /\ Free \notin Callers /\ Sweeper \notin Callers /\ Free # Sweeper
    /\ None \notin Messages /\ None \notin Frame /\ None \notin Reply

VARIABLES
    clock,      \* std::chrono::steady_clock, in ticks
    map_,       \* key -> Entry, a partial function
    lru_,       \* sequence of [node, key]
    mu_,        \* owner of the mutex, or Free
    pc,         \* pc[c]: where caller c is
    frame,      \* frame[c]: the locals of c's call
    result,     \* result[c]: what c's last lookup returned
    stats,      \* the five relaxed counters
    lastUse,    \* history: lastUse[k] numbers the last insert or hit of k
    spc,        \* where the sweeper thread is
    sweepNow,   \* sweep_expired's local now
    swept,      \* sweep_expired's local n
    stopping_,
    dtor        \* "live", "joining" or "done"

callVars    == <<pc, frame, result>>
sweepVars   == <<spc, sweepNow, swept>>
vars == <<clock, map_, lru_, mu_, callVars, stats, lastUse, sweepVars, stopping_, dtor>>

Entry == [response: Messages, ttl_offsets: SUBSET (0..AddrSpace-1),
           expires_at: Nat, lru_it: Nodes]
LruNode == [node: Nodes, key: Keys]
Stats == [hits: Nat, misses: Nat, inserts: Nat, lru_evictions: Nat, expired_sweeps: Nat]

Calls == stats.hits + stats.misses + stats.inserts
         + Cardinality({c \in Callers : pc[c] # "idle"})

-----------------------------------------------------------------------------
\* The list position an iterator refers to.
Position(n) == CHOOSE i \in DOMAIN lru_ : lru_[i].node = n

\* std::list::erase
erase(list, i) == SubSeq(list, 1, i - 1) \o SubSeq(list, i + 1, Len(list))

Uses == stats.hits + stats.inserts

\* Seeded fault: the entry's list node is left behind.
EraseEntryKeepsNode(k) ==
    map_' = [j \in DOMAIN map_ \ {k} |-> map_[j]] /\ UNCHANGED lru_

\* lru_.erase(it->second.lru_it); map_.erase(it)
EraseEntry(k) ==
    /\ lru_' = erase(lru_, Position(map_[k].lru_it))
    /\ map_' = [j \in DOMAIN map_ \ {k} |-> map_[j]]

\* Seeded fault: an entry lives through the instant it expires in.
ExpiredLate(k, now) == map_[k].expires_at < now

Expired(k, now) == map_[k].expires_at <= now

\* Seeded fault: off by one.
FullOver == Cardinality(DOMAIN map_) > max_entries

Full == Cardinality(DOMAIN map_) >= max_entries

\* Seeded fault: the most recently used entry is evicted.
VictimBack == Len(lru_)

\* lru_.front()
Victim == 1

InsertBegin(c, k, m) ==
    /\ dtor = "live" /\ pc[c] = "idle" /\ Calls < MaxCalls
    /\ compute_cache_ttl(m) > 0
    /\ pc' = [pc EXCEPT ![c] = "insert"]
    /\ frame' = [frame EXCEPT ![c] = [key |-> k, now |-> clock, response |-> m]]
    /\ UNCHANGED <<clock, map_, lru_, mu_, result, stats, lastUse, sweepVars, stopping_, dtor>>

InsertLock(c) ==
    /\ pc[c] = "insert" /\ mu_ = Free
    /\ mu_' = c
    /\ pc' = [pc EXCEPT ![c] = "evict"]
    /\ \/ /\ frame[c].key \in DOMAIN map_
          /\ EraseEntry(frame[c].key)
       \/ /\ frame[c].key \notin DOMAIN map_
          /\ UNCHANGED <<map_, lru_>>
    /\ UNCHANGED <<clock, frame, result, stats, lastUse, sweepVars, stopping_, dtor>>

\* One turn of the loop that makes room.  With an empty list evict_one_locked
\* returns at once and the loop turns without changing anything: no step.
EvictOneLocked(c) ==
    /\ pc[c] = "evict" /\ Full /\ lru_ # <<>>
    /\ lru_' = erase(lru_, Victim)
    /\ map_' = [j \in DOMAIN map_ \ {lru_[Victim].key} |-> map_[j]]
    /\ stats' = [stats EXCEPT !.lru_evictions = @ + 1]
    /\ UNCHANGED <<clock, mu_, callVars, lastUse, sweepVars, stopping_, dtor>>

\* Ticks a response lives: compute_cache_ttl gives seconds.
Lifetime(m) == TicksPerSecond * compute_cache_ttl(m)

NewEntry(f, n) ==
    [response    |-> f.response,
     ttl_offsets |-> collect_ttl_offsets(CopyAddr, SourceAddr, f.response),
     expires_at  |-> f.now + Lifetime(f.response),
     lru_it      |-> n]

InsertLink(c) ==
    /\ pc[c] = "evict" /\ ~Full
    /\ \E n \in Nodes \ {lru_[i].node : i \in DOMAIN lru_} :
        /\ lru_' = Append(lru_, [node |-> n, key |-> frame[c].key])
        /\ map_' = [j \in DOMAIN map_ \cup {frame[c].key} |->
                        IF j = frame[c].key THEN NewEntry(frame[c], n) ELSE map_[j]]
    /\ stats' = [stats EXCEPT !.inserts = @ + 1]
    /\ lastUse' = [lastUse EXCEPT ![frame[c].key] = Uses + 1]
    /\ mu_' = Free
    /\ pc' = [pc EXCEPT ![c] = "idle"]
    /\ frame' = [frame EXCEPT ![c] = None]
    /\ UNCHANGED <<clock, result, sweepVars, stopping_, dtor>>

-----------------------------------------------------------------------------
LookupBegin(c, k) ==
    /\ dtor = "live" /\ pc[c] = "idle" /\ Calls < MaxCalls
    /\ pc' = [pc EXCEPT ![c] = "lookup"]
    /\ frame' = [frame EXCEPT ![c] = [key |-> k, now |-> clock, response |-> None]]
    /\ UNCHANGED <<clock, map_, lru_, mu_, result, stats, lastUse, sweepVars, stopping_, dtor>>

LookupReturns(c, r) ==
    /\ result' = [result EXCEPT ![c] = r]
    /\ pc' = [pc EXCEPT ![c] = "idle"]
    /\ frame' = [frame EXCEPT ![c] = None]
    /\ UNCHANGED <<clock, mu_, sweepVars, stopping_, dtor>>

LookupMiss(c) ==
    /\ pc[c] = "lookup" /\ mu_ = Free
    /\ \/ /\ frame[c].key \notin DOMAIN map_
          /\ UNCHANGED <<map_, lru_>>
       \/ /\ frame[c].key \in DOMAIN map_
          /\ Expired(frame[c].key, frame[c].now)
          /\ EraseEntry(frame[c].key)
    /\ stats' = [stats EXCEPT !.misses = @ + 1]
    /\ LookupReturns(c, None)
    /\ UNCHANGED lastUse

\* The copy a hit hands out: the stored response, its TTL fields rewritten.
Served(e, now) ==
    LET remaining == (e.expires_at - now) \div TicksPerSecond
    IN  [response |-> e.response, remaining |-> remaining,
         ttls |-> rewrite_ttls(e.response, e.ttl_offsets, remaining)]

\* Seeded fault: a hit leaves the list as it is.
PromoteNot(p) == lru_

\* lru_.splice(lru_.end(), lru_, it)
Promote(p) == Append(erase(lru_, p), lru_[p])

LookupHit(c) ==
    LET k == frame[c].key
    IN  /\ pc[c] = "lookup" /\ mu_ = Free
        /\ k \in DOMAIN map_ /\ ~Expired(k, frame[c].now)
        /\ lru_' = Promote(Position(map_[k].lru_it))
        /\ stats' = [stats EXCEPT !.hits = @ + 1]
        /\ lastUse' = [lastUse EXCEPT ![k] = Uses + 1]
        /\ LookupReturns(c, Served(map_[k], frame[c].now))
        /\ UNCHANGED map_

-----------------------------------------------------------------------------
\* sweeper_loop: wait_for returns on its timeout or once stopping_ is set.
SweeperWake ==
    /\ spc = "wait"
    /\ spc' = IF stopping_ THEN "exit" ELSE "sweep"
    /\ UNCHANGED <<clock, map_, lru_, mu_, callVars, stats, lastUse, sweepNow, swept, stopping_, dtor>>

SweepReadClock ==
    /\ spc = "sweep"
    /\ spc' = "lock" /\ sweepNow' = clock
    /\ UNCHANGED <<clock, map_, lru_, mu_, callVars, stats, lastUse, swept, stopping_, dtor>>

SweepLock ==
    /\ spc = "lock" /\ mu_ = Free
    /\ mu_' = Sweeper /\ spc' = "erase"
    /\ UNCHANGED <<clock, map_, lru_, callVars, stats, lastUse, sweepNow, swept, stopping_, dtor>>

SweepErase(k) ==
    /\ spc = "erase" /\ k \in DOMAIN map_ /\ Expired(k, sweepNow)
    /\ EraseEntry(k)
    /\ swept' = swept + 1
    /\ UNCHANGED <<clock, mu_, callVars, stats, lastUse, spc, sweepNow, stopping_, dtor>>

\* Seeded fault: the thread ends after its first sweep.
AfterSweepOnce == "exit"

AfterSweep == IF stopping_ THEN "exit" ELSE "wait"

SweepUnlock ==
    /\ spc = "erase" /\ \A k \in DOMAIN map_ : ~Expired(k, sweepNow)
    /\ stats' = [stats EXCEPT !.expired_sweeps = @ + swept]
    /\ mu_' = Free /\ spc' = AfterSweep
    /\ sweepNow' = 0 /\ swept' = 0
    /\ UNCHANGED <<clock, map_, lru_, callVars, lastUse, stopping_, dtor>>

\* ~DnsCache, once no caller is inside the cache: raise the flag, then join.
Destroy ==
    /\ dtor = "live" /\ \A c \in Callers : pc[c] = "idle"
    /\ stopping_' = TRUE /\ dtor' = "joining"
    /\ UNCHANGED <<clock, map_, lru_, mu_, callVars, stats, lastUse, sweepVars>>

Join ==
    /\ dtor = "joining" /\ spc = "exit"
    /\ dtor' = "done"
    /\ UNCHANGED <<clock, map_, lru_, mu_, callVars, stats, lastUse, sweepVars, stopping_>>

Tick ==
    /\ clock < MaxClock
    /\ clock' = clock + 1
    /\ UNCHANGED <<map_, lru_, mu_, callVars, stats, lastUse, sweepVars, stopping_, dtor>>

-----------------------------------------------------------------------------
Init ==
    /\ clock = 0
    /\ map_ = <<>> /\ lru_ = <<>> /\ mu_ = Free
    /\ pc = [c \in Callers |-> "idle"]
    /\ frame = [c \in Callers |-> None]
    /\ result = [c \in Callers |-> None]
    /\ stats = [hits |-> 0, misses |-> 0, inserts |-> 0, lru_evictions |-> 0, expired_sweeps |-> 0]
    /\ lastUse = [k \in Keys |-> 0]
    /\ spc = "wait" /\ sweepNow = 0 /\ swept = 0
    /\ stopping_ = FALSE /\ dtor = "live"

CallerStep(c) ==
    \/ InsertLock(c) \/ EvictOneLocked(c) \/ InsertLink(c)
    \/ LookupMiss(c) \/ LookupHit(c)

SweeperStep ==
    \/ SweeperWake \/ SweepReadClock \/ SweepLock
    \/ (\E k \in Keys : SweepErase(k)) \/ SweepUnlock

Next ==
    \/ \E c \in Callers, k \in Keys, m \in Messages : InsertBegin(c, k, m)
    \/ \E c \in Callers, k \in Keys : LookupBegin(c, k)
    \/ \E c \in Callers : CallerStep(c)
    \/ SweeperStep
    \/ Destroy \/ Join \/ Tick

Spec == Init /\ [][Next]_vars

\* Threads are scheduled, the wait_for timeout expires, and a join returns
\* once the joined thread has exited.
Fairness ==
    /\ \A c \in Callers : WF_vars(CallerStep(c))
    /\ WF_vars(SweeperStep) /\ WF_vars(Join)

FairSpec == Spec /\ Fairness
-----------------------------------------------------------------------------
\* The state of the cache has its type; the offsets kept for rewriting TTLs are
\* size_t values even when the distance they come from is negative.
TypeOK ==
    /\ clock \in Nat
    /\ DOMAIN map_ \subseteq Keys /\ map_ \in [DOMAIN map_ -> Entry]
    /\ lru_ \in Seq(LruNode)
    /\ mu_ \in Callers \cup {Free, Sweeper}
    /\ pc \in [Callers -> {"idle", "insert", "evict", "lookup"}]
    /\ frame \in [Callers -> Frame \cup {None}]
    /\ result \in [Callers -> Reply \cup {None}]
    /\ stats \in Stats
    /\ lastUse \in [Keys -> Nat]
    /\ spc \in {"wait", "sweep", "lock", "erase", "exit"}
    /\ sweepNow \in Nat /\ swept \in Nat
    /\ stopping_ \in BOOLEAN /\ dtor \in {"live", "joining", "done"}

\* The LRU list and the map describe the same entries: no node is in the list
\* twice, every node's key is in the map and its entry points back at that
\* node, and no entry's lru_it dangles.  insert, lookup, the eviction loop and
\* the sweeper all splice or erase through lru_it, so one missed erase leaves
\* an iterator into freed memory.
LruMatchesMap ==
    /\ \A i, j \in DOMAIN lru_ : lru_[i].node = lru_[j].node => i = j
    /\ \A i \in DOMAIN lru_ :
        lru_[i].key \in DOMAIN map_ /\ map_[lru_[i].key].lru_it = lru_[i].node
    /\ \A k \in DOMAIN map_ :
        \E i \in DOMAIN lru_ : lru_[i].key = k /\ lru_[i].node = map_[k].lru_it

\* The cache never holds more than max_entries responses, whatever mix of
\* inserts, replacements, hits and sweeps led there.
Capacity == Cardinality(DOMAIN map_) <= max_entries

\* The list is in order of last use (insert or hit), so that evict_one_locked,
\* which takes the front, takes the least recently used entry.
LruIsUseOrder ==
    \A i, j \in DOMAIN lru_ : i < j => lastUse[lru_[i].key] < lastUse[lru_[j].key]

\* A step removes a live entry only to replace it by a fresh insert of the same
\* key or, when the cache is full, because it is the least recently used one;
\* a clock value read before the lock was taken never removes an entry early.
NoEarlyRemoval ==
    [][\A k \in DOMAIN map_ \ DOMAIN map_' :
         \/ map_[k].expires_at <= clock
         \/ \E c \in Callers : pc[c] = "insert" /\ frame[c].key = k
         \/ /\ Cardinality(DOMAIN map_) = max_entries
            /\ \A j \in DOMAIN map_ : lastUse[k] <= lastUse[j]]_vars

\* The cache implements the abstract store: what LRU bookkeeping, eviction,
\* replacement and the sweeper do is invisible except as forgetting.
Abstract == INSTANCE TtlStore WITH
    call <- frame,
    store <- [k \in DOMAIN map_ |-> [response |-> map_[k].response,
                                    expires_at |-> map_[k].expires_at]],
    answer <- [c \in Callers |-> IF result[c] = None THEN None ELSE result[c].response]
ImplementsTtlStore == Abstract!Spec

\* Every insert returns: the loop that makes room for it ends.
InsertReturns == \A c \in Callers : pc[c] = "evict" ~> pc[c] = "idle"

\* An expired entry does not stay in memory: the sweeper (or a lookup, or an
\* eviction) removes it even if its key is never asked for again.
ExpiredIsRemoved ==
    \A k \in Keys :
        (k \in DOMAIN map_ /\ map_[k].expires_at <= clock)
            ~> (k \notin DOMAIN map_ \/ map_[k].expires_at > clock \/ dtor # "live")

\* On a hit the client sees in every TTL field the time the entry has left.
HonestTtl ==
    \A c \in Callers : result[c] # None =>
        \A rr \in DOMAIN result[c].ttls : result[c].ttls[rr] = result[c].remaining
=============================================================================
