--------------------------- MODULE DnsCacheProofs ---------------------------
(***************************************************************************)
(* The safety invariants of DnsCache for every number of keys, callers and *)
(* entries, every set of responses and every clock.                        *)
(*                                                                         *)
(* The list and the map change in three ways only: a node and its entry    *)
(* are removed (replace, evict, expire, sweep), a node moves to the back   *)
(* (hit), a node and its entry are added at the back (insert).  Each has a *)
(* lemma; the inductive step cites them action by action.                  *)
(***************************************************************************)
EXTENDS DnsCache, SequenceTheorems, FiniteSetTheorems, WellFoundedInduction, TLAPS

\* Every set of naturals that is not empty has a least element.
LEMMA NatWellOrdered ==
    ASSUME NEW S \in SUBSET Nat, S # {}
    PROVE  \E x \in S : \A y \in S : x <= y
<1> DEFINE R == {ss \in Nat \X Nat : ss[1] < ss[2]}
<1>1. IsWellFoundedOn(R, Nat)
  BY NatLessThanWellFounded DEF OpToRel
<1>2. PICK x \in S : \A y \in S : ~(<<y, x>> \in R)
  BY <1>1, WFMin, Zenon
<1>3. ASSUME NEW y \in S PROVE x <= y
  <2>1. x \in Nat /\ y \in Nat /\ (y < x => <<y, x>> \in R)
    OBVIOUS
  <2> HIDE DEF R
  <2> QED BY <1>2, <2>1
<1> QED BY <1>3

\* The records whose TTLs a hit rewrites are records.
LEMMA RecordType ==
    ASSUME NEW m \in Message
    PROVE  /\ AllRecords(m) \subseteq ResourceRecord
           /\ NotOpt(m.answers) \cup NotOpt(m.authority) \subseteq ResourceRecord
  BY DEF Message, AllRecords, NotOpt, Rec

\* compute_cache_ttl returns a number of seconds.
LEMMA CacheTtlType ==
    ASSUME NEW m \in Message
    PROVE  compute_cache_ttl(m) \in Nat
<1> DEFINE ttls == {rr.ttl : rr \in NotOpt(m.answers) \cup NotOpt(m.authority)}
           clamp == IF IsNegative(m) THEN FirstSoaMinimum(m.authority) \cup {Ceiling} ELSE {}
<1>1. ttls \in SUBSET Nat
  BY RecordType DEF ResourceRecord
<1>2. clamp \in SUBSET Nat
  <2> DEFINE soa == {i \in DOMAIN m.authority : m.authority[i].type = "SOA"}
  <2>1. ASSUME soa # {} PROVE m.authority[Min(soa)].minimum \in Nat \cup {NoMinimum}
    <3>1. m.authority \in Seq(ResourceRecord) /\ soa \in SUBSET Nat
      BY DEF Message
    <3>2. Min(soa) \in soa
      BY <2>1, <3>1, NatWellOrdered, Zenon DEF Min
    <3>3. Min(soa) \in DOMAIN m.authority
      BY <3>2
    <3> HIDE DEF soa
    <3>4. m.authority[Min(soa)] \in ResourceRecord
      BY <3>1, <3>3
    <3> QED BY <3>4 DEF ResourceRecord
  <2>2. FirstSoaMinimum(m.authority) \subseteq Nat
    BY <2>1, Zenon DEF FirstSoaMinimum
  <2> QED BY <2>2, CacheTtlAssumption
<1>3. compute_cache_ttl(m) = 0 \/ (ttls # {} /\ compute_cache_ttl(m) = Min(ttls \cup clamp))
  BY Zenon DEF compute_cache_ttl
<1> HIDE DEF ttls, clamp
<1>4. ASSUME ttls # {} PROVE Min(ttls \cup clamp) \in ttls \cup clamp
  <2>1. ttls \cup clamp \in SUBSET Nat /\ ttls \cup clamp # {}
    BY <1>1, <1>2, <1>4
  <2> QED BY <2>1, NatWellOrdered, Zenon DEF Min
<1>5. \A t \in ttls \cup clamp : t \in Nat
  BY <1>1, <1>2
<1>6. CASE compute_cache_ttl(m) = 0
  BY <1>6
<1>7. CASE ttls # {} /\ compute_cache_ttl(m) = Min(ttls \cup clamp)
  BY <1>4, <1>5, <1>7, Zenon
<1> QED BY <1>3, <1>6, <1>7

\* An entry of a response received before now, and the copy a hit makes of it.
LEMMA EntryType ==
    ASSUME NEW f \in Frame, f.response \in Messages, NEW n \in Nodes
    PROVE  NewEntry(f, n) \in Entry /\ NewEntry(f, n).lru_it = n
<1>1. f.response \in Message /\ f.now \in Nat
  BY DnsCacheAssumption DEF Frame
<1>2. collect_ttl_offsets(CopyAddr, SourceAddr, f.response) \subseteq 0..AddrSpace-1
  <2>1. ASSUME NEW rr \in AllRecords(f.response)
        PROVE  (SourceAddr + rr.pos - CopyAddr - kTtlBackOffset) % AddrSpace \in 0..AddrSpace-1
    <3>1. rr.pos \in Nat
      BY <1>1, RecordType DEF ResourceRecord
    <3> QED BY <3>1, CacheTtlAssumption, DnsCacheAssumption DEF kTtlBackOffset
  <2> QED BY <2>1 DEF collect_ttl_offsets
<1>3. f.now + Lifetime(f.response) \in Nat
  <2>1. compute_cache_ttl(f.response) \in Nat
    BY <1>1, CacheTtlType
  <2> QED BY <1>1, <2>1, DnsCacheAssumption DEF Lifetime
<1> QED BY <1>2, <1>3 DEF NewEntry, Entry

\* What lookup hands out is a reply: the entry's message with its TTLs
\* rewritten to whole numbers.
LEMMA ServedType ==
    ASSUME NEW e \in Entry, NEW now \in Nat
    PROVE  Served(e, now) \in Reply /\ Served(e, now).response = e.response
<1>1. e.response \in Messages /\ e.response \in Message /\ e.expires_at \in Nat
  BY DnsCacheAssumption DEF Entry
<1>2. PICK remaining \in Int : remaining = (e.expires_at - now) \div TicksPerSecond
  BY <1>1, DnsCacheAssumption
<1>3. rewrite_ttls(e.response, e.ttl_offsets, remaining) \in [AllRecords(e.response) -> Int]
  <2>1. \A rr \in AllRecords(e.response) : rr.ttl \in Int
    BY <1>1, RecordType DEF ResourceRecord
  <2> QED BY <1>2, <2>1 DEF rewrite_ttls
<1> QED BY <1>1, <1>2, <1>3 DEF Served, Reply

\* The list erase(s, i) reads s at Skip(i, j), which steps over i.
Skip(i, j) == IF j < i THEN j ELSE j + 1

\* std::list::erase: one node fewer, the others in their order.
LEMMA EraseProperties ==
    ASSUME NEW S, NEW s \in Seq(S), NEW i \in 1..Len(s)
    PROVE  /\ erase(s, i) \in Seq(S)
           /\ Len(erase(s, i)) = Len(s) - 1
           /\ \A j \in 1..(Len(s) - 1) : erase(s, i)[j] = s[Skip(i, j)]
<1> DEFINE a == SubSeq(s, 1, i-1)
           b == SubSeq(s, i+1, Len(s))
<1>1. a \in Seq(S) /\ Len(a) = i - 1 /\ \A j \in 1..(i-1) : a[j] = s[j]
  OBVIOUS
<1>2. b \in Seq(S) /\ Len(b) = Len(s) - i /\ \A j \in 1..(Len(s)-i) : b[j] = s[j + i]
  OBVIOUS
<1> HIDE DEF a, b
<1>3. /\ a \o b \in Seq(S) /\ Len(a \o b) = Len(s) - 1
      /\ \A j \in 1..(Len(s)-1) : (a \o b)[j] = IF j <= Len(a) THEN a[j] ELSE b[j - Len(a)]
  <2>1. /\ a \o b \in Seq(S) /\ Len(a \o b) = Len(a) + Len(b)
        /\ \A j \in 1..(Len(a) + Len(b)) :
             (a \o b)[j] = IF j <= Len(a) THEN a[j] ELSE b[j - Len(a)]
    BY <1>1, <1>2, ConcatProperties, Zenon
  <2>2. Len(a) + Len(b) = Len(s) - 1
    BY <1>1, <1>2
  <2> QED BY <2>1, <2>2
<1>4. ASSUME NEW j \in 1..(Len(s) - 1)
      PROVE  (a \o b)[j] = s[Skip(i, j)]
  <2>1. CASE j < i
    BY <1>1, <1>3, <2>1 DEF Skip
  <2>2. CASE ~(j < i)
    <3>1. j - (i - 1) \in 1..(Len(s) - i) /\ (j - (i - 1)) + i = j + 1
      BY <2>2
    <3>2. (a \o b)[j] = b[j - (i - 1)]
      BY <1>1, <1>3, <2>2
    <3> QED BY <1>2, <2>2, <3>1, <3>2 DEF Skip
  <2> QED BY <2>1, <2>2, Zenon
<1> QED BY <1>3, <1>4, Zenon DEF erase, a, b

\* Skip is the increasing numbering of the positions other than the erased
\* one.
LEMMA SkipProperties ==
    ASSUME NEW n \in Nat, NEW i \in 1..n
    PROVE  /\ \A j \in 1..(n-1) : Skip(i, j) \in 1..n /\ Skip(i, j) # i
           /\ \A j, h \in 1..(n-1) : j < h => Skip(i, j) < Skip(i, h)
           /\ \A m \in 1..n : m # i => \E j \in 1..(n-1) : Skip(i, j) = m
<1>1. ASSUME NEW m \in 1..n, m # i PROVE \E j \in 1..(n-1) : Skip(i, j) = m
  <2>1. CASE m < i
    <3>1. m \in 1..(n-1) /\ Skip(i, m) = m
      BY <2>1 DEF Skip
    <3> QED BY <3>1
  <2>2. CASE m > i
    <3>1. m - 1 \in 1..(n-1) /\ Skip(i, m - 1) = m
      BY <2>2 DEF Skip
    <3> QED BY <3>1
  <2> QED BY <1>1, <2>1, <2>2
<1> QED BY <1>1 DEF Skip

\* The list after the i-th of n nodes has moved to the back.
Move(n, i, j) == IF j = n THEN i ELSE Skip(i, j)

\* A permutation of 1..n that keeps the order of all but the last.
IsMove(n, i) ==
    /\ \A j \in 1..n : Move(n, i, j) \in 1..n
    /\ \A j, h \in 1..n : Move(n, i, j) = Move(n, i, h) => j = h
    /\ \A m \in 1..n : \E j \in 1..n : Move(n, i, j) = m
    /\ \A j \in 1..n : j # n => Move(n, i, j) # i
    /\ \A j, h \in 1..n : (j < h /\ h # n) => Move(n, i, j) < Move(n, i, h)

\* Promoting a node renumbers the positions one to one, and keeps the order
\* of the others.
LEMMA MoveProperties == \A n \in Nat : \A i \in 1..n : IsMove(n, i)
<1> SUFFICES ASSUME NEW n \in Nat, NEW i \in 1..n PROVE IsMove(n, i)
  OBVIOUS
<1>1. ASSUME NEW m \in 1..n PROVE \E j \in 1..n : Move(n, i, j) = m
  <2>1. CASE m = i
    <3>1. n \in 1..n /\ Move(n, i, n) = m
      BY <2>1 DEF Move
    <3> QED BY <3>1
  <2>2. CASE m < i
    <3>1. Move(n, i, m) = m
      BY <2>2 DEF Move, Skip
    <3> QED BY <3>1
  <2>3. CASE m > i
    <3>1. m - 1 \in 1..n /\ Move(n, i, m - 1) = m
      BY <2>3 DEF Move, Skip
    <3> QED BY <3>1
  <2> QED BY <2>1, <2>2, <2>3
<1> QED BY <1>1 DEF IsMove, Move, Skip

-----------------------------------------------------------------------------
\* The part of the type invariant that concerns the list and the map.
StoreOK ==
    /\ DOMAIN map_ \subseteq Keys /\ map_ \in [DOMAIN map_ -> Entry]
    /\ IsFiniteSet(DOMAIN map_)
    /\ lru_ \in Seq(LruNode)

\* Removing the i-th node and its entry keeps the list and the map in step,
\* and what is left of the list in order.
LEMMA RemoveNode ==
    ASSUME StoreOK, LruMatchesMap, NEW i \in DOMAIN lru_,
           lru_' = erase(lru_, i),
           map_' = [j \in DOMAIN map_ \ {lru_[i].key} |-> map_[j]],
           lastUse' = lastUse
    PROVE  /\ StoreOK' /\ LruMatchesMap' /\ (LruIsUseOrder => LruIsUseOrder')
           /\ Cardinality(DOMAIN map_') <= Cardinality(DOMAIN map_)
<1> DEFINE k == lru_[i].key
<1>1. /\ Len(lru_) \in Nat /\ DOMAIN lru_ = 1..Len(lru_)
      /\ \A j \in DOMAIN lru_ : lru_[j] \in LruNode
  BY DEF StoreOK
<1>2. /\ lru_' \in Seq(LruNode) /\ DOMAIN lru_' = 1..(Len(lru_) - 1)
      /\ \A j \in DOMAIN lru_' : lru_'[j] = lru_[Skip(i, j)]
  <2>1. lru_ \in Seq(LruNode) /\ i \in 1..Len(lru_)
    BY <1>1 DEF StoreOK
  <2>2. /\ lru_' \in Seq(LruNode) /\ Len(lru_') = Len(lru_) - 1
        /\ \A j \in 1..(Len(lru_) - 1) : lru_'[j] = lru_[Skip(i, j)]
    BY <2>1, EraseProperties, Zenon
  <2> QED BY <2>2
<1>9. /\ \A j \in DOMAIN lru_' : Skip(i, j) \in DOMAIN lru_ /\ Skip(i, j) # i
      /\ \A j, h \in DOMAIN lru_' : j < h => Skip(i, j) < Skip(i, h)
      /\ \A m \in DOMAIN lru_ : m # i => \E j \in DOMAIN lru_' : Skip(i, j) = m
  <2>1. Len(lru_) \in Nat /\ i \in 1..Len(lru_)
    BY <1>1
  <2>2. /\ \A j \in 1..(Len(lru_) - 1) : Skip(i, j) \in 1..Len(lru_) /\ Skip(i, j) # i
        /\ \A j, h \in 1..(Len(lru_) - 1) : j < h => Skip(i, j) < Skip(i, h)
        /\ \A m \in 1..Len(lru_) : m # i => \E j \in 1..(Len(lru_) - 1) : Skip(i, j) = m
    BY <2>1, SkipProperties, Zenon
  <2> QED BY <1>1, <1>2, <2>2, Zenon
<1>3. DOMAIN map_' = DOMAIN map_ \ {k} /\ \A j \in DOMAIN map_' : map_'[j] = map_[j]
  OBVIOUS
<1>4. StoreOK' /\ Cardinality(DOMAIN map_') <= Cardinality(DOMAIN map_)
  <2>1. /\ IsFiniteSet(DOMAIN map_ \ {k})
        /\ Cardinality(DOMAIN map_ \ {k}) <= Cardinality(DOMAIN map_)
    BY FS_RemoveElement, FS_CardinalityType, SMTT(40) DEF StoreOK
  <2> QED BY <1>2, <1>3, <2>1 DEF StoreOK
<1>5. \A j \in DOMAIN lru_ : j # i => lru_[j].key # k
  BY <1>1 DEF LruMatchesMap
<1>6. LruMatchesMap'
  <2>1. ASSUME NEW a \in DOMAIN lru_', NEW b \in DOMAIN lru_', lru_'[a].node = lru_'[b].node
        PROVE  a = b
    <3>1. Skip(i, a) = Skip(i, b)
      BY <1>2, <1>9, <2>1 DEF LruMatchesMap
    <3> QED BY <1>1, <1>2, <3>1 DEF Skip
  <2>2. ASSUME NEW a \in DOMAIN lru_'
        PROVE  lru_'[a].key \in DOMAIN map_' /\ map_'[lru_'[a].key].lru_it = lru_'[a].node
    <3>1. lru_'[a].key \in DOMAIN map_'
      BY <1>2, <1>3, <1>5, <1>9 DEF LruMatchesMap
    <3> QED BY <1>2, <1>3, <1>9, <3>1 DEF LruMatchesMap
  <2>3. ASSUME NEW h \in DOMAIN map_'
        PROVE  \E a \in DOMAIN lru_' : lru_'[a].key = h /\ lru_'[a].node = map_'[h].lru_it
    <3>1. PICK m \in DOMAIN lru_ : lru_[m].key = h /\ lru_[m].node = map_[h].lru_it
      BY <1>3 DEF LruMatchesMap
    <3>2. PICK a \in DOMAIN lru_' : Skip(i, a) = m
      BY <1>3, <1>9, <3>1
    <3> QED BY <1>2, <1>3, <3>1, <3>2
  <2> QED BY <2>1, <2>2, <2>3, Zenon DEF LruMatchesMap
<1>7. ASSUME LruIsUseOrder PROVE LruIsUseOrder'
  BY <1>2, <1>9, <1>7 DEF LruIsUseOrder
<1> QED BY <1>4, <1>6, <1>7

\* No key is used later than the last use there was.
UseBound == Uses \in Nat /\ \A k \in Keys : lastUse[k] \in Nat /\ lastUse[k] <= Uses

\* Two nodes of the list never carry the same key.
LEMMA KeysDistinct ==
    ASSUME LruMatchesMap, NEW i \in DOMAIN lru_, NEW j \in DOMAIN lru_, lru_[i].key = lru_[j].key
    PROVE  i = j
BY DEF LruMatchesMap

\* A hit: the i-th node moves to the back and becomes the one used last.
LEMMA PromoteNode ==
    ASSUME StoreOK, LruMatchesMap, NEW i \in DOMAIN lru_,
           lru_' = Append(erase(lru_, i), lru_[i]), map_' = map_
    PROVE  /\ StoreOK' /\ LruMatchesMap'
           /\ (/\ LruIsUseOrder /\ UseBound /\ lastUse \in [Keys -> Nat]
               /\ lastUse' = [lastUse EXCEPT ![lru_[i].key] = Uses + 1]) => LruIsUseOrder'
<1>1. PICK n \in Nat : n = Len(lru_) /\ DOMAIN lru_ = 1..n /\ i \in 1..n
  BY DEF StoreOK
<1>2. \A j \in 1..n : lru_[j] \in LruNode
  BY <1>1 DEF StoreOK
<1>3. /\ erase(lru_, i) \in Seq(LruNode) /\ Len(erase(lru_, i)) = n - 1
      /\ \A j \in 1..(n - 1) : erase(lru_, i)[j] = lru_[Skip(i, j)]
  BY <1>1, EraseProperties, Zenon DEF StoreOK
<1>4. /\ lru_' \in Seq(LruNode) /\ DOMAIN lru_' = 1..n
      /\ \A j \in 1..n : lru_'[j] = lru_[Move(n, i, j)]
  <2>1. /\ lru_' \in Seq(LruNode) /\ Len(lru_') = Len(erase(lru_, i)) + 1
        /\ \A j \in 1..Len(erase(lru_, i)) : lru_'[j] = erase(lru_, i)[j]
        /\ lru_'[Len(erase(lru_, i)) + 1] = lru_[i]
    <3>1. lru_[i] \in LruNode /\ erase(lru_, i) \in Seq(LruNode)
      BY <1>1, <1>2, <1>3
    <3> QED BY <3>1, AppendProperties
  <2>2. Len(lru_') = n /\ lru_'[n] = lru_[i] /\ \A j \in 1..(n - 1) : lru_'[j] = lru_[Skip(i, j)]
    BY <1>3, <2>1
  <2>3. DOMAIN lru_' = 1..n
    BY <2>1, <2>2
  <2>4. ASSUME NEW j \in 1..n PROVE lru_'[j] = lru_[Move(n, i, j)]
    <3>1. CASE j = n
      BY <2>2, <3>1 DEF Move
    <3>2. CASE j # n
      <4>1. j \in 1..(n - 1)
        BY <3>2
      <4> QED BY <2>2, <3>2, <4>1 DEF Move
    <3> QED BY <3>1, <3>2, Zenon
  <2> QED BY <2>1, <2>3, <2>4
<1>5. /\ \A j \in 1..n : Move(n, i, j) \in 1..n
      /\ \A j, h \in 1..n : Move(n, i, j) = Move(n, i, h) => j = h
      /\ \A m \in 1..n : \E j \in 1..n : Move(n, i, j) = m
      /\ \A j \in 1..n : j # n => Move(n, i, j) # i
      /\ \A j, h \in 1..n : (j < h /\ h # n) => Move(n, i, j) < Move(n, i, h)
  <2>1. IsMove(n, i)
    BY <1>1, MoveProperties
  <2> QED BY <2>1 DEF IsMove
<1>6. StoreOK'
  BY <1>4 DEF StoreOK
<1>7. LruMatchesMap'
  <2>1. ASSUME NEW a \in 1..n, NEW b \in 1..n, lru_'[a].node = lru_'[b].node PROVE a = b
    <3>1. /\ Move(n, i, a) \in DOMAIN lru_ /\ Move(n, i, b) \in DOMAIN lru_
          /\ lru_[Move(n, i, a)].node = lru_[Move(n, i, b)].node
      BY <1>1, <1>4, <1>5, <2>1, Zenon
    <3>2. Move(n, i, a) = Move(n, i, b)
      BY <3>1 DEF LruMatchesMap
    <3> QED BY <1>5, <3>2
  <2>2. ASSUME NEW a \in 1..n
        PROVE  lru_'[a].key \in DOMAIN map_' /\ map_'[lru_'[a].key].lru_it = lru_'[a].node
    <3>1. Move(n, i, a) \in DOMAIN lru_ /\ lru_'[a] = lru_[Move(n, i, a)]
      BY <1>1, <1>4, <1>5, Zenon
    <3> QED BY <3>1 DEF LruMatchesMap
  <2>3. ASSUME NEW h \in DOMAIN map_'
        PROVE  \E a \in 1..n : lru_'[a].key = h /\ lru_'[a].node = map_'[h].lru_it
    <3>1. PICK m \in 1..n : lru_[m].key = h /\ lru_[m].node = map_[h].lru_it
      BY <1>1 DEF LruMatchesMap
    <3>2. PICK a \in 1..n : Move(n, i, a) = m
      BY <1>5
    <3> QED BY <1>4, <3>1, <3>2
  <2>4. DOMAIN lru_' = 1..n
    BY <1>4
  <2>5. \A a, b \in DOMAIN lru_' : lru_'[a].node = lru_'[b].node => a = b
    BY <2>1, <2>4
  <2>6. \A a \in DOMAIN lru_' :
          lru_'[a].key \in DOMAIN map_' /\ map_'[lru_'[a].key].lru_it = lru_'[a].node
    BY <2>2, <2>4
  <2>7. \A h \in DOMAIN map_' :
          \E a \in DOMAIN lru_' : lru_'[a].key = h /\ lru_'[a].node = map_'[h].lru_it
    BY <2>3, <2>4
  <2> QED BY <2>5, <2>6, <2>7, Zenon DEF LruMatchesMap
<1>8. ASSUME LruIsUseOrder, UseBound, lastUse \in [Keys -> Nat],
             lastUse' = [lastUse EXCEPT ![lru_[i].key] = Uses + 1],
             NEW a \in 1..n, NEW b \in 1..n, a < b
      PROVE  lastUse'[lru_'[a].key] < lastUse'[lru_'[b].key]
  <2> DEFINE p == Move(n, i, a)
             q == Move(n, i, b)
  <2>1. p \in 1..n /\ q \in 1..n /\ lru_'[a] = lru_[p] /\ lru_'[b] = lru_[q]
    BY <1>4, <1>5, Zenon
  <2>2. lru_[p].key \in Keys /\ lru_[q].key \in Keys /\ lru_[i].key \in Keys
    BY <1>1, <1>2, <2>1 DEF LruNode
  <2>3. a # n
    BY <1>8
  <2>4. p # i
    BY <1>5, <2>3
  <2> HIDE DEF p, q
  <2>5. lru_[p].key # lru_[i].key
    BY <1>1, <2>1, <2>4, KeysDistinct
  <2>6. lastUse'[lru_'[a].key] = lastUse[lru_[p].key]
    BY <1>8, <2>1, <2>2, <2>5
  <2>7. CASE b = n
    <3>1. lru_'[b].key = lru_[i].key
      BY <2>1, <2>7 DEF Move, q
    <3>2. lastUse'[lru_'[b].key] = Uses + 1
      BY <1>8, <2>2, <3>1
    <3>3. Uses \in Nat /\ lastUse[lru_[p].key] \in Nat /\ lastUse[lru_[p].key] <= Uses
      BY <1>8, <2>2 DEF UseBound
    <3> QED BY <2>6, <3>2, <3>3
  <2>8. CASE b # n
    <3>1. q # i /\ p < q
      BY <1>5, <1>8, <2>8, Zenon DEF p, q
    <3>2. lru_[q].key # lru_[i].key
      BY <1>1, <2>1, <3>1, KeysDistinct
    <3>3. lastUse'[lru_'[b].key] = lastUse[lru_[q].key]
      BY <1>8, <2>1, <2>2, <3>2
    <3>4. lastUse[lru_[p].key] < lastUse[lru_[q].key]
      BY <1>1, <1>8, <2>1, <3>1, Zenon DEF LruIsUseOrder
    <3> QED BY <2>6, <3>3, <3>4
  <2> QED BY <2>7, <2>8, Zenon
<1> QED BY <1>4, <1>6, <1>7, <1>8, Zenon DEF LruIsUseOrder

\* An insert: a node that is not in the list goes to its back, for a key that
\* is not in the map, and becomes the one used last.
LEMMA AppendNode ==
    ASSUME StoreOK, LruMatchesMap, NEW k \in Keys \ DOMAIN map_, NEW e \in Entry,
           \A i \in DOMAIN lru_ : lru_[i].node # e.lru_it,
           lru_' = Append(lru_, [node |-> e.lru_it, key |-> k]),
           map_' = [j \in DOMAIN map_ \cup {k} |-> IF j = k THEN e ELSE map_[j]]
    PROVE  /\ StoreOK' /\ LruMatchesMap'
           /\ Cardinality(DOMAIN map_') = Cardinality(DOMAIN map_) + 1
           /\ (/\ LruIsUseOrder /\ UseBound /\ lastUse \in [Keys -> Nat]
               /\ lastUse' = [lastUse EXCEPT ![k] = Uses + 1]) => LruIsUseOrder'
<1> DEFINE new == [node |-> e.lru_it, key |-> k]
<1>1. PICK n \in Nat : n = Len(lru_) /\ DOMAIN lru_ = 1..n
  BY DEF StoreOK
<1>2. new \in LruNode /\ new.key = k /\ new.node = e.lru_it
  BY DEF LruNode, Entry
<1>3. /\ lru_' \in Seq(LruNode) /\ DOMAIN lru_' = 1..(n + 1)
      /\ \A j \in 1..n : lru_'[j] = lru_[j]
      /\ lru_'[n + 1] = new
  <2>1. lru_ \in Seq(LruNode)
    BY DEF StoreOK
  <2> HIDE DEF new
  <2>2. /\ lru_' \in Seq(LruNode) /\ Len(lru_') = Len(lru_) + 1
        /\ \A j \in 1..Len(lru_) : lru_'[j] = lru_[j]
        /\ lru_'[Len(lru_) + 1] = new
    BY <1>2, <2>1, AppendProperties DEF new
  <2> QED BY <1>1, <2>2
<1> HIDE DEF new
<1>4. \A j \in 1..(n + 1) : j \in 1..n \/ j = n + 1
  OBVIOUS
<1>5. /\ DOMAIN map_' = DOMAIN map_ \cup {k} /\ map_'[k] = e
      /\ \A j \in DOMAIN map_ : map_'[j] = map_[j]
  OBVIOUS
<1>6. StoreOK' /\ Cardinality(DOMAIN map_') = Cardinality(DOMAIN map_) + 1
  <2>1. /\ IsFiniteSet(DOMAIN map_ \cup {k})
        /\ Cardinality(DOMAIN map_ \cup {k}) = Cardinality(DOMAIN map_) + 1
    BY FS_AddElement DEF StoreOK
  <2>2. map_' \in [DOMAIN map_' -> Entry]
    BY DEF StoreOK
  <2> QED BY <1>3, <1>5, <2>1, <2>2 DEF StoreOK
<1>7. \A j \in 1..n : lru_[j].key \in DOMAIN map_ /\ lru_[j].key # k /\ lru_[j].node # new.node
  BY <1>1, <1>2 DEF LruMatchesMap
<1>8. LruMatchesMap'
  <2>1. ASSUME NEW a \in 1..(n + 1), NEW b \in 1..(n + 1), lru_'[a].node = lru_'[b].node
        PROVE  a = b
    <3>1. CASE a \in 1..n /\ b \in 1..n
      BY <1>1, <1>3, <2>1, <3>1, SMTT(40) DEF LruMatchesMap
    <3> QED BY <1>3, <1>4, <1>7, <2>1, <3>1
  <2>2. ASSUME NEW a \in 1..(n + 1)
        PROVE  lru_'[a].key \in DOMAIN map_' /\ map_'[lru_'[a].key].lru_it = lru_'[a].node
    <3>1. CASE a \in 1..n
      <4>1. a \in DOMAIN lru_ /\ lru_'[a] = lru_[a] /\ map_'[lru_[a].key] = map_[lru_[a].key]
        BY <1>1, <1>3, <1>5, <1>7, <3>1
      <4> QED BY <1>5, <4>1 DEF LruMatchesMap
    <3>2. CASE a = n + 1
      BY <1>2, <1>3, <1>5, <3>2
    <3> QED BY <1>4, <3>1, <3>2, Zenon
  <2>3. ASSUME NEW h \in DOMAIN map_'
        PROVE  \E a \in 1..(n + 1) : lru_'[a].key = h /\ lru_'[a].node = map_'[h].lru_it
    <3>1. CASE h = k
      <4>1. n + 1 \in 1..(n + 1)
        OBVIOUS
      <4> QED BY <1>2, <1>3, <1>5, <3>1, <4>1
    <3>2. CASE h # k
      <4>1. PICK m \in 1..n : lru_[m].key = h /\ lru_[m].node = map_[h].lru_it
        BY <1>1, <1>5, <3>2 DEF LruMatchesMap
      <4>2. m \in 1..(n + 1)
        OBVIOUS
      <4> QED BY <1>3, <1>5, <3>2, <4>1, <4>2
    <3> QED BY <3>1, <3>2, Zenon
  <2>4. DOMAIN lru_' = 1..(n + 1)
    BY <1>3
  <2>5. \A a, b \in DOMAIN lru_' : lru_'[a].node = lru_'[b].node => a = b
    BY <2>1, <2>4
  <2>6. \A a \in DOMAIN lru_' :
          lru_'[a].key \in DOMAIN map_' /\ map_'[lru_'[a].key].lru_it = lru_'[a].node
    BY <2>2, <2>4, Zenon
  <2>7. \A h \in DOMAIN map_' :
          \E a \in DOMAIN lru_' : lru_'[a].key = h /\ lru_'[a].node = map_'[h].lru_it
    <3> SUFFICES ASSUME NEW h \in DOMAIN map_'
                 PROVE  \E a \in DOMAIN lru_' : lru_'[a].key = h /\ lru_'[a].node = map_'[h].lru_it
      BY Zenon
    <3>1. \E a \in 1..(n + 1) : lru_'[a].key = h /\ lru_'[a].node = map_'[h].lru_it
      BY <2>3, Zenon
    <3> QED BY ONLY <2>4, <3>1
  <2> QED BY <2>5, <2>6, <2>7, Zenon DEF LruMatchesMap
<1>9. ASSUME LruIsUseOrder, UseBound, lastUse \in [Keys -> Nat],
             lastUse' = [lastUse EXCEPT ![k] = Uses + 1],
             NEW a \in 1..(n + 1), NEW b \in 1..(n + 1), a < b
      PROVE  lastUse'[lru_'[a].key] < lastUse'[lru_'[b].key]
  <2>1. a \in 1..n
    BY <1>9
  <2>2. lru_'[a] = lru_[a] /\ lru_[a].key \in Keys /\ lru_[a].key # k
    BY <1>3, <1>7, <2>1 DEF StoreOK
  <2>3. lastUse'[lru_'[a].key] = lastUse[lru_[a].key]
    BY <1>9, <2>2, Zenon
  <2>4. CASE b = n + 1
    <3>1. lastUse'[lru_'[b].key] = Uses + 1
      BY <1>2, <1>3, <1>9, <2>4
    <3>2. Uses \in Nat /\ lastUse[lru_[a].key] \in Nat /\ lastUse[lru_[a].key] <= Uses
      BY <1>9, <2>2 DEF UseBound
    <3> QED BY <2>3, <3>1, <3>2
  <2>5. CASE b \in 1..n
    <3>1. lru_'[b] = lru_[b] /\ lru_[b].key \in Keys /\ lru_[b].key # k
      BY <1>3, <1>7, <2>5 DEF StoreOK
    <3>2. lastUse'[lru_'[b].key] = lastUse[lru_[b].key]
      BY <1>9, <3>1, Zenon
    <3>3. lastUse[lru_[a].key] < lastUse[lru_[b].key]
      BY <1>1, <1>9, <2>1, <2>5, Zenon DEF LruIsUseOrder
    <3> QED BY <2>3, <3>2, <3>3
  <2> QED BY <1>4, <2>4, <2>5, Zenon
<1> QED BY <1>3, <1>6, <1>8, <1>9, Zenon DEF LruIsUseOrder
-----------------------------------------------------------------------------
\* The inductive invariant: the list and the map (StoreInv), the rest of the
\* types (ControlOK), who holds mu_ (LockInv), and the locals of the calls in
\* progress (FrameInv).  A caller that makes room has already removed its own
\* key, and no clock reading is ahead of the clock.
StoreInv == StoreOK /\ LruMatchesMap /\ LruIsUseOrder /\ UseBound /\ Capacity

ControlOK ==
    /\ clock \in Nat
    /\ mu_ \in Callers \cup {Free, Sweeper}
    /\ pc \in [Callers -> {"idle", "insert", "evict", "lookup"}]
    /\ frame \in [Callers -> Frame \cup {None}]
    /\ result \in [Callers -> Reply \cup {None}]
    /\ stats \in Stats
    /\ lastUse \in [Keys -> Nat]
    /\ spc \in {"wait", "sweep", "lock", "erase", "exit"}
    /\ sweepNow \in Nat /\ swept \in Nat
    /\ stopping_ \in BOOLEAN /\ dtor \in {"live", "joining", "done"}

LockInv ==
    /\ \A c \in Callers : pc[c] = "evict" <=> mu_ = c
    /\ spc = "erase" <=> mu_ = Sweeper

FrameInv ==
    /\ \A c \in Callers : pc[c] # "idle" => frame[c] \in Frame /\ frame[c].now <= clock
    /\ \A c \in Callers : pc[c] \in {"insert", "evict"} => frame[c].response \in Messages
    /\ \A c \in Callers : pc[c] = "evict" => frame[c].key \notin DOMAIN map_
    /\ sweepNow <= clock

Inv == StoreInv /\ ControlOK /\ LockInv /\ FrameInv

\* The cache starts empty, so the invariant holds.
LEMMA InitInv == Init => Inv
<1> SUFFICES ASSUME Init PROVE Inv
  OBVIOUS
<1>1. DOMAIN map_ = {} /\ DOMAIN lru_ = {} /\ lru_ \in Seq(LruNode) /\ map_ \in [DOMAIN map_ -> Entry]
  BY DEF Init
<1>2. StoreInv
  <2>1. IsFiniteSet(DOMAIN map_) /\ Cardinality(DOMAIN map_) = 0
    BY <1>1, FS_EmptySet
  <2>2. Uses = 0 /\ \A k \in Keys : lastUse[k] = 0
    BY DEF Init, Uses
  <2> QED BY <1>1, <2>1, <2>2, DnsCacheAssumption
         DEF StoreInv, StoreOK, LruMatchesMap, LruIsUseOrder, UseBound, Capacity
<1>3. ControlOK
  BY Zenon DEF Init, ControlOK, Stats
<1>4. LockInv
  BY DnsCacheAssumption DEF Init, LockInv
<1>5. FrameInv
  BY DEF Init, FrameInv
<1> QED BY <1>2, <1>3, <1>4, <1>5 DEF Inv

\* A step that leaves map_, lru_ and the times of use alone keeps the store's
\* part of the invariant.
LEMMA StoreUnchanged ==
    ASSUME StoreInv, UNCHANGED <<map_, lru_, lastUse>>, Uses' = Uses
    PROVE  StoreInv'
BY DEF StoreInv, StoreOK, LruMatchesMap, LruIsUseOrder, UseBound, Capacity

\* The node an entry's iterator points to.
LEMMA PositionOf ==
    ASSUME LruMatchesMap, NEW k \in DOMAIN map_
    PROVE  /\ Position(map_[k].lru_it) \in DOMAIN lru_
           /\ lru_[Position(map_[k].lru_it)].key = k
<1>1. \E i \in DOMAIN lru_ : lru_[i].node = map_[k].lru_it
  BY DEF LruMatchesMap
<1>2. /\ Position(map_[k].lru_it) \in DOMAIN lru_
      /\ lru_[Position(map_[k].lru_it)].node = map_[k].lru_it
  BY <1>1 DEF Position
<1> QED BY <1>2 DEF LruMatchesMap

\* Removing one entry, by whatever action, keeps the store's invariant.
LEMMA RemoveKeepsStore ==
    ASSUME StoreInv, NEW i \in DOMAIN lru_,
           lru_' = erase(lru_, i),
           map_' = [j \in DOMAIN map_ \ {lru_[i].key} |-> map_[j]],
           lastUse' = lastUse, Uses' = Uses
    PROVE  StoreInv'
<1>1. /\ StoreOK' /\ LruMatchesMap' /\ LruIsUseOrder'
      /\ Cardinality(DOMAIN map_') <= Cardinality(DOMAIN map_)
  BY RemoveNode DEF StoreInv
<1>2. /\ Cardinality(DOMAIN map_') \in Nat /\ Cardinality(DOMAIN map_) \in Nat
      /\ IsFiniteSet(DOMAIN map_')
  BY <1>1, FS_CardinalityType DEF StoreInv, StoreOK
<1>3. Capacity'
  BY <1>1, <1>2, DnsCacheAssumption DEF StoreInv, Capacity
<1>4. UseBound'
  BY DEF StoreInv, UseBound
<1> QED BY <1>1, <1>3, <1>4 DEF StoreInv

\* erase_entry keeps the store's part of the invariant and drops one key.
LEMMA EraseKeepsStore ==
    ASSUME StoreInv, NEW k \in DOMAIN map_, EraseEntry(k), lastUse' = lastUse, Uses' = Uses
    PROVE  StoreInv' /\ DOMAIN map_' = DOMAIN map_ \ {k}
<1>1. /\ Position(map_[k].lru_it) \in DOMAIN lru_
      /\ lru_[Position(map_[k].lru_it)].key = k
  BY PositionOf DEF StoreInv
<1>2. StoreInv'
  BY <1>1, RemoveKeepsStore DEF EraseEntry
<1> QED BY <1>2 DEF EraseEntry
-----------------------------------------------------------------------------
\* Every step of a caller, of the sweeper, of the destructor and of the clock
\* keeps the invariant.
LEMMA NextInv == Inv /\ [Next]_vars => Inv'
<1> SUFFICES ASSUME Inv, [Next]_vars PROVE Inv'
  OBVIOUS
<1> USE DnsCacheAssumption
<1>1. ASSUME NEW c \in Callers, NEW k \in Keys, NEW m \in Messages, InsertBegin(c, k, m)
      PROVE  Inv'
  <2>1. StoreInv'
    BY <1>1, StoreUnchanged DEF Inv, InsertBegin, Uses
  <2>2. [key |-> k, now |-> clock, response |-> m] \in Frame
    BY DEF Inv, ControlOK, Frame
  <2>3. ControlOK' /\ LockInv'
    BY <1>1, <2>2 DEF Inv, ControlOK, LockInv, InsertBegin, sweepVars
  <2>4. FrameInv'
    BY <1>1, <2>2, SMTT(40) DEF Inv, ControlOK, FrameInv, InsertBegin, sweepVars
  <2> QED BY <2>1, <2>3, <2>4 DEF Inv
<1>2. ASSUME NEW c \in Callers, InsertLock(c)
      PROVE  Inv'
  <2>1. frame[c] \in Frame /\ frame[c].key \in Keys
    BY <1>2 DEF Inv, FrameInv, InsertLock, Frame
  <2>2. StoreInv' /\ DOMAIN map_' = DOMAIN map_ \ {frame[c].key}
    <3>1. CASE frame[c].key \in DOMAIN map_
      BY <1>2, <3>1, EraseKeepsStore DEF Inv, InsertLock, Uses
    <3>2. CASE frame[c].key \notin DOMAIN map_
      BY <1>2, <3>2, StoreUnchanged, Zenon DEF Inv, InsertLock, Uses
    <3> QED BY <3>1, <3>2
  <2>3. ControlOK' /\ LockInv'
    BY <1>2 DEF Inv, ControlOK, LockInv, InsertLock, sweepVars
  <2>4. FrameInv'
    BY <1>2, <2>1, <2>2 DEF Inv, ControlOK, FrameInv, InsertLock, sweepVars
  <2> QED BY <2>2, <2>3, <2>4 DEF Inv
<1>3. ASSUME NEW c \in Callers, EvictOneLocked(c)
      PROVE  Inv'
  <2>1. Victim \in DOMAIN lru_
    BY <1>3 DEF Inv, StoreInv, StoreOK, EvictOneLocked, Victim
  <2>2. Uses' = Uses /\ stats' \in Stats
    <3>1. stats \in Stats /\ stats' = [stats EXCEPT !.lru_evictions = @ + 1]
      BY <1>3 DEF Inv, ControlOK, EvictOneLocked
    <3> QED BY <3>1 DEF Stats, Uses
  <2>3. StoreInv'
    BY <1>3, <2>1, <2>2, RemoveKeepsStore DEF Inv, EvictOneLocked
  <2>4. ControlOK' /\ LockInv' /\ FrameInv'
    BY <1>3, <2>2 DEF Inv, ControlOK, LockInv, FrameInv, EvictOneLocked, callVars, sweepVars
  <2> QED BY <2>3, <2>4 DEF Inv
<1>4. ASSUME NEW c \in Callers, InsertLink(c)
      PROVE  Inv'
  <2>1. PICK n \in Nodes \ {lru_[i].node : i \in DOMAIN lru_} :
          /\ lru_' = Append(lru_, [node |-> n, key |-> frame[c].key])
          /\ map_' = [j \in DOMAIN map_ \cup {frame[c].key} |->
                        IF j = frame[c].key THEN NewEntry(frame[c], n) ELSE map_[j]]
    BY <1>4 DEF InsertLink
  <2>2. /\ frame[c] \in Frame /\ frame[c].key \in Keys \ DOMAIN map_
        /\ frame[c].response \in Messages /\ frame[c].now \in Nat
    BY <1>4 DEF Inv, FrameInv, InsertLink, Frame
  <2>3. NewEntry(frame[c], n) \in Entry /\ NewEntry(frame[c], n).lru_it = n
    BY <2>2, EntryType
  <2>4. UseBound /\ lastUse \in [Keys -> Nat] /\ StoreOK /\ LruMatchesMap /\ LruIsUseOrder
    BY DEF Inv, StoreInv, ControlOK
  <2>5. /\ stats' \in Stats /\ Uses' = Uses + 1
        /\ lastUse' = [lastUse EXCEPT ![frame[c].key] = Uses + 1]
    <3>1. /\ stats \in Stats /\ stats' = [stats EXCEPT !.inserts = @ + 1]
          /\ lastUse' = [lastUse EXCEPT ![frame[c].key] = Uses + 1]
      BY <1>4 DEF Inv, ControlOK, InsertLink
    <3> QED BY <3>1 DEF Stats, Uses
  <2>6. /\ StoreOK' /\ LruMatchesMap' /\ LruIsUseOrder'
        /\ Cardinality(DOMAIN map_') = Cardinality(DOMAIN map_) + 1
    BY <2>1, <2>2, <2>3, <2>4, <2>5, AppendNode, Zenon
  <2>7. Capacity'
    <3>1. Cardinality(DOMAIN map_) \in Nat
      BY <2>4, FS_CardinalityType DEF StoreOK
    <3> QED BY <1>4, <2>6, <3>1 DEF InsertLink, Full, Capacity
  <2>8. UseBound'
    BY <2>2, <2>4, <2>5 DEF UseBound
  <2>9. ControlOK'
    <3>1. lastUse' \in [Keys -> Nat]
      <4>1. Uses + 1 \in Nat
        BY <2>4 DEF UseBound
      <4> QED BY <2>2, <2>4, <2>5, <4>1
    <3> QED BY <1>4, <2>5, <3>1 DEF Inv, ControlOK, InsertLink, sweepVars
  <2>10. LockInv' /\ FrameInv'
    BY <1>4 DEF Inv, ControlOK, LockInv, FrameInv, InsertLink, sweepVars
  <2> QED BY <2>6, <2>7, <2>8, <2>9, <2>10, Zenon DEF Inv, StoreInv
<1>5. ASSUME NEW c \in Callers, NEW k \in Keys, LookupBegin(c, k)
      PROVE  Inv'
  <2>1. StoreInv'
    BY <1>5, StoreUnchanged DEF Inv, LookupBegin, Uses
  <2>2. [key |-> k, now |-> clock, response |-> None] \in Frame
    BY DEF Inv, ControlOK, Frame
  <2>3. ControlOK' /\ LockInv'
    BY <1>5, <2>2 DEF Inv, ControlOK, LockInv, LookupBegin, sweepVars
  <2>4. FrameInv'
    BY <1>5, <2>2, SMTT(40) DEF Inv, ControlOK, FrameInv, LookupBegin, sweepVars
  <2> QED BY <2>1, <2>3, <2>4 DEF Inv
<1>6. ASSUME NEW c \in Callers, LookupMiss(c)
      PROVE  Inv'
  <2>1. Uses' = Uses /\ stats' \in Stats /\ lastUse' = lastUse
    BY <1>6 DEF Inv, ControlOK, Stats, LookupMiss, Uses
  <2>2. StoreInv' /\ DOMAIN map_' \subseteq DOMAIN map_
    <3>1. CASE frame[c].key \in DOMAIN map_
      BY <1>6, <2>1, <3>1, EraseKeepsStore, Zenon DEF Inv, LookupMiss
    <3>2. CASE frame[c].key \notin DOMAIN map_
      BY <1>6, <2>1, <3>2, StoreUnchanged DEF Inv, LookupMiss
    <3> QED BY <3>1, <3>2
  <2>3. ControlOK' /\ LockInv' /\ FrameInv'
    BY <1>6, <2>1, <2>2
       DEF Inv, ControlOK, LockInv, FrameInv, LookupMiss, LookupReturns, sweepVars
  <2> QED BY <2>2, <2>3 DEF Inv
<1>7. ASSUME NEW c \in Callers, LookupHit(c)
      PROVE  Inv'
  <2> DEFINE k == frame[c].key
             p == Position(map_[k].lru_it)
  <2>1. k \in DOMAIN map_ /\ lru_' = Append(erase(lru_, p), lru_[p]) /\ map_' = map_
    BY <1>7 DEF LookupHit, Promote
  <2>2. UseBound /\ lastUse \in [Keys -> Nat] /\ StoreOK /\ LruMatchesMap /\ LruIsUseOrder
    BY DEF Inv, StoreInv, ControlOK
  <2>3. p \in DOMAIN lru_ /\ lru_[p].key = k
    BY <2>1, <2>2, PositionOf
  <2>4. /\ stats' \in Stats /\ Uses' = Uses + 1
        /\ lastUse' = [lastUse EXCEPT ![k] = Uses + 1]
    BY <1>7 DEF Inv, ControlOK, Stats, LookupHit, Uses
  <2> HIDE DEF k, p
  <2>5. StoreOK' /\ LruMatchesMap' /\ LruIsUseOrder'
    BY <2>1, <2>2, <2>3, <2>4, PromoteNode, Zenon
  <2>6. UseBound' /\ lastUse' \in [Keys -> Nat]
    <3>1. Uses \in Nat /\ Uses + 1 \in Nat
      BY <2>2 DEF UseBound
    <3>2. lastUse' \in [Keys -> Nat]
      BY <2>2, <2>4, <3>1, Zenon
    <3> QED BY <2>2, <2>4, <3>1, <3>2 DEF UseBound
  <2>7. Capacity'
    BY <2>1 DEF Inv, StoreInv, Capacity
  <2>8. result' \in [Callers -> Reply \cup {None}]
    <3>1. map_[k] \in Entry /\ frame[c].now \in Nat
      BY <1>7, <2>1, <2>2 DEF Inv, StoreOK, FrameInv, Frame, LookupHit
    <3>2. Served(map_[k], frame[c].now) \in Reply
      BY <3>1, ServedType
    <3> QED BY <1>7, <3>2 DEF Inv, ControlOK, LookupHit, LookupReturns, k
  <2>9. ControlOK' /\ LockInv' /\ FrameInv'
    BY <1>7, <2>1, <2>4, <2>6, <2>8
       DEF Inv, ControlOK, LockInv, FrameInv, LookupHit, LookupReturns, sweepVars
  <2> QED BY <2>5, <2>6, <2>7, <2>9 DEF Inv, StoreInv
<1>8. CASE SweeperWake \/ SweepReadClock \/ SweepLock
  <2>1. StoreInv'
    BY <1>8, StoreUnchanged DEF Inv, SweeperWake, SweepReadClock, SweepLock, Uses
  <2>2. ControlOK' /\ LockInv' /\ FrameInv'
    BY <1>8, SMTT(40) DEF Inv, ControlOK, LockInv, FrameInv, SweeperWake, SweepReadClock, SweepLock, callVars
  <2> QED BY <2>1, <2>2 DEF Inv
<1>9. ASSUME NEW k \in Keys, SweepErase(k)
      PROVE  Inv'
  <2>1. StoreInv' /\ DOMAIN map_' = DOMAIN map_ \ {k}
    BY <1>9, EraseKeepsStore, Zenon DEF Inv, SweepErase, Uses
  <2>2. ControlOK' /\ LockInv' /\ FrameInv'
    BY <1>9, <2>1, SMTT(40) DEF Inv, ControlOK, LockInv, FrameInv, SweepErase, callVars
  <2> QED BY <2>1, <2>2 DEF Inv
<1>10. CASE SweepUnlock
  <2>1. Uses' = Uses /\ stats' \in Stats
    BY <1>10 DEF Inv, ControlOK, Stats, SweepUnlock, Uses
  <2>2. StoreInv'
    BY <1>10, <2>1, StoreUnchanged DEF Inv, SweepUnlock
  <2>3. ControlOK' /\ LockInv' /\ FrameInv'
    BY <1>10, <2>1 DEF Inv, ControlOK, LockInv, FrameInv, SweepUnlock, AfterSweep, callVars
  <2> QED BY <2>2, <2>3 DEF Inv
<1>11. CASE Destroy \/ Join \/ Tick
  <2>1. StoreInv'
    BY <1>11, StoreUnchanged DEF Inv, Destroy, Join, Tick, Uses
  <2>2. ControlOK' /\ LockInv'
    <3>1. CASE Destroy
      BY <3>1 DEF Inv, ControlOK, LockInv, Destroy, callVars, sweepVars
    <3>2. CASE Join
      BY <3>2 DEF Inv, ControlOK, LockInv, Join, callVars, sweepVars
    <3>3. CASE Tick
      BY <3>3, SMTT(40) DEF Inv, ControlOK, LockInv, Tick, callVars, sweepVars
    <3> QED BY <1>11, <3>1, <3>2, <3>3
  <2>3. FrameInv'
    <3>1. pc' = pc /\ frame' = frame /\ map_' = map_ /\ sweepNow' = sweepNow
      BY <1>11, Zenon DEF Destroy, Join, Tick, callVars, sweepVars
    <3>2. clock \in Nat /\ sweepNow \in Nat /\ clock <= clock'
      BY <1>11 DEF Inv, ControlOK, Destroy, Join, Tick
    <3>3. \A c \in Callers : frame[c] \in Frame => frame[c].now \in Nat
      BY Zenon DEF Frame
    <3>4. clock' \in Nat
      BY <1>11, <3>2 DEF Destroy, Join, Tick
    <3> HIDE DEF Frame
    <3> QED BY <3>1, <3>2, <3>3, <3>4 DEF Inv, FrameInv
  <2> QED BY <2>1, <2>2, <2>3 DEF Inv
<1>12. CASE UNCHANGED vars
  <2>1. StoreInv'
    BY <1>12, StoreUnchanged DEF Inv, vars, Uses
  <2>2. ControlOK' /\ LockInv' /\ FrameInv'
    BY <1>12 DEF Inv, ControlOK, LockInv, FrameInv, vars, callVars, sweepVars
  <2> QED BY <2>1, <2>2 DEF Inv
<1> QED
  BY <1>1, <1>2, <1>3, <1>4, <1>5, <1>6, <1>7, <1>8, <1>9, <1>10, <1>11, <1>12
     DEF Next, CallerStep, SweeperStep
-----------------------------------------------------------------------------
\* The invariant of the cache always holds.
LEMMA SpecInv == Spec => []Inv
<1>1. Init => Inv
  BY InitInv
<1>2. Inv /\ [Next]_vars => Inv'
  BY NextInv
<1> QED BY <1>1, <1>2, PTL DEF Spec

\* Every variable of the cache keeps its type; in particular the TTL offsets
\* stored with an entry are size_t values.
THEOREM TypeCorrect == Spec => []TypeOK
<1>1. Inv => TypeOK
  BY DEF Inv, StoreInv, StoreOK, ControlOK, TypeOK
<1> QED BY <1>1, SpecInv, PTL

\* The LRU list and the map always describe the same entries, so no stored
\* iterator dangles, in insert, lookup, evict_one_locked or sweep_expired.
THEOREM ListMatchesMap == Spec => []LruMatchesMap
<1>1. Inv => LruMatchesMap
  BY DEF Inv, StoreInv
<1> QED BY <1>1, SpecInv, PTL

\* The cache never holds more than max_entries responses.
THEOREM NeverOverCapacity == Spec => []Capacity
<1>1. Inv => Capacity
  BY DEF Inv, StoreInv
<1> QED BY <1>1, SpecInv, PTL

\* The LRU list is in order of last use, so its front is the right victim.
THEOREM ListIsUseOrder == Spec => []LruIsUseOrder
<1>1. Inv => LruIsUseOrder
  BY DEF Inv, StoreInv
<1> QED BY <1>1, SpecInv, PTL

\* What a step removes was expired, is being replaced, or was the least
\* recently used entry of a full cache.
Justified ==
    \A k \in DOMAIN map_ \ DOMAIN map_' :
         \/ map_[k].expires_at <= clock
         \/ \E c \in Callers : pc[c] = "insert" /\ frame[c].key = k
         \/ /\ Cardinality(DOMAIN map_) = max_entries
            /\ \A j \in DOMAIN map_ : lastUse[k] <= lastUse[j]

\* A key leaves map_ only when its entry has expired, is being overwritten by
\* insert, or is the least recently used of a full cache.
LEMMA StepJustified == Inv /\ [Next]_vars => Justified
<1> SUFFICES ASSUME Inv, [Next]_vars, NEW k \in DOMAIN map_, k \notin DOMAIN map_'
             PROVE  \/ map_[k].expires_at <= clock
                    \/ \E c \in Callers : pc[c] = "insert" /\ frame[c].key = k
                    \/ /\ Cardinality(DOMAIN map_) = max_entries
                       /\ \A j \in DOMAIN map_ : lastUse[k] <= lastUse[j]
  BY Zenon DEF Justified
<1>1. map_ \in [DOMAIN map_ -> Entry] /\ map_[k].expires_at \in Nat /\ clock \in Nat
  BY DEF Inv, StoreInv, StoreOK, ControlOK, Entry
<1>2. ASSUME NEW c \in Callers, InsertLock(c)
      PROVE  pc[c] = "insert" /\ frame[c].key = k
  BY <1>2, SMTT(40) DEF InsertLock, EraseEntry
<1>3. ASSUME NEW c \in Callers, EvictOneLocked(c)
      PROVE  /\ Cardinality(DOMAIN map_) = max_entries
             /\ \A j \in DOMAIN map_ : lastUse[k] <= lastUse[j]
  <2>1. 1 \in DOMAIN lru_ /\ lru_[1].key = k
    BY <1>3 DEF Inv, StoreInv, StoreOK, EvictOneLocked, Victim
  <2>2. Cardinality(DOMAIN map_) = max_entries
    <3>1. Cardinality(DOMAIN map_) \in Nat
      BY FS_CardinalityType DEF Inv, StoreInv, StoreOK
    <3> QED BY <1>3, <3>1, DnsCacheAssumption DEF Inv, StoreInv, Capacity, EvictOneLocked, Full
  <2>3. ASSUME NEW j \in DOMAIN map_ PROVE lastUse[k] <= lastUse[j]
    <3>1. PICK i \in DOMAIN lru_ : lru_[i].key = j
      BY DEF Inv, StoreInv, LruMatchesMap
    <3>2. lastUse[k] \in Nat /\ lastUse[j] \in Nat /\ i \in Nat /\ i >= 1
      BY <3>1 DEF Inv, StoreInv, StoreOK, ControlOK
    <3>3. CASE i = 1
      BY <2>1, <3>1, <3>2, <3>3
    <3>4. CASE i > 1
      BY <2>1, <3>1, <3>2, <3>4 DEF Inv, StoreInv, LruIsUseOrder
    <3> QED BY <3>2, <3>3, <3>4
  <2> QED BY <2>2, <2>3, Zenon
<1>4. ASSUME NEW c \in Callers, LookupMiss(c)
      PROVE  map_[k].expires_at <= clock
  <2>1. frame[c].key = k /\ Expired(k, frame[c].now)
    BY <1>4 DEF LookupMiss, EraseEntry
  <2>2. frame[c].now \in Nat /\ frame[c].now <= clock
    BY <1>4 DEF Inv, FrameInv, LookupMiss, Frame
  <2> QED BY <1>1, <2>1, <2>2 DEF Expired
<1>5. ASSUME NEW j \in Keys, SweepErase(j)
      PROVE  map_[k].expires_at <= clock
  <2>1. j = k /\ Expired(k, sweepNow)
    BY <1>5 DEF SweepErase, EraseEntry
  <2>2. sweepNow \in Nat /\ sweepNow <= clock
    BY DEF Inv, ControlOK, FrameInv
  <2> QED BY <1>1, <2>1, <2>2 DEF Expired
<1>6. ASSUME NEW c \in Callers, InsertLink(c)
      PROVE  FALSE
  BY <1>6 DEF InsertLink
<1>7. CASE \/ UNCHANGED vars
           \/ \E c \in Callers, j \in Keys, m \in Messages : InsertBegin(c, j, m)
           \/ \E c \in Callers, j \in Keys : LookupBegin(c, j)
           \/ \E c \in Callers : LookupHit(c)
           \/ SweeperWake \/ SweepReadClock \/ SweepLock \/ SweepUnlock
           \/ Destroy \/ Join \/ Tick
  BY <1>7 DEF vars, InsertBegin, LookupBegin, LookupHit, SweeperWake, SweepReadClock,
              SweepLock, SweepUnlock, Destroy, Join, Tick
<1> QED
  BY <1>2, <1>3, <1>4, <1>5, <1>6, <1>7, Zenon DEF Next, CallerStep, SweeperStep

\* No step removes a live entry, except to replace it or, when the cache is
\* full, because it is the least recently used one.
THEOREM RemovalsJustified == Spec => NoEarlyRemoval
<1>1. Inv /\ [Next]_vars => [Justified]_vars
  BY StepJustified
<1>2. NoEarlyRemoval <=> [][Justified]_vars
  BY DEF NoEarlyRemoval, Justified
<1> QED BY <1>1, <1>2, SpecInv, PTL DEF Spec
-----------------------------------------------------------------------------
\* The refinement mapping: what the abstract store and answers are.
Store == [k \in DOMAIN map_ |-> [response |-> map_[k].response,
                                 expires_at |-> map_[k].expires_at]]
Answer == [c \in Callers |-> IF result[c] = None THEN None ELSE result[c].response]

\* A call in progress has a frame and a lookup has no response in it; only a
\* caller that is not in a call has none.
CallInv ==
    \A c \in Callers : /\ pc[c] = "idle" => frame[c] = None
                       /\ pc[c] # "idle" => frame[c] # None
                       /\ pc[c] = "lookup" => frame[c].response = None
                       /\ pc[c] \in {"insert", "evict"} => frame[c].response # None

\* No call has begun in the initial state.
LEMMA InitCall == Init => CallInv
  BY DEF Init, CallInv

\* Every step of a call keeps its frame: the message to insert, or none when
\* it looks up.
LEMMA NextCall == Inv /\ CallInv /\ [Next]_vars => CallInv'
<1> SUFFICES ASSUME Inv, CallInv, [Next]_vars PROVE CallInv'
  OBVIOUS
<1> USE DnsCacheAssumption DEF CallInv
<1>1. pc \in [Callers -> {"idle", "insert", "evict", "lookup"}] /\ DOMAIN frame = Callers /\ clock \in Nat
  BY DEF Inv, ControlOK
<1>2. ASSUME NEW c \in Callers, NEW k \in Keys, NEW m \in Messages \cup {None}, NEW l \in {"insert", "lookup"},
             pc' = [pc EXCEPT ![c] = l], l = "lookup" <=> m = None,
             frame' = [frame EXCEPT ![c] = [key |-> k, now |-> clock, response |-> m]]
      PROVE  CallInv'
  <2>1. [key |-> k, now |-> clock, response |-> m] \in Frame
    BY <1>1, Zenon DEF Frame
  <2>2. [key |-> k, now |-> clock, response |-> m] # None
    BY <2>1, Zenon
  <2> DEFINE new == [key |-> k, now |-> clock, response |-> m]
  <2>3. m \in Messages => m # None
    BY Zenon
  <2>4. new.response = m /\ new # None
    BY <2>2, Zenon
  <2> HIDE DEF new
  <2>5. pc'[c] = l /\ frame'[c] = new
    BY <1>1, <1>2 DEF new
  <2>6. \A d \in Callers \ {c} : pc'[d] = pc[d] /\ frame'[d] = frame[d]
    BY <1>1, <1>2
  <2> QED BY <1>2, <2>4, <2>5, <2>6, Zenon
<1>3. ASSUME NEW c \in Callers, NEW k \in Keys, NEW m \in Messages, InsertBegin(c, k, m)
      PROVE  CallInv'
  BY <1>2, <1>3, Zenon DEF InsertBegin
<1>4. ASSUME NEW c \in Callers, NEW k \in Keys, LookupBegin(c, k)
      PROVE  CallInv'
  BY <1>2, <1>4, Zenon DEF LookupBegin
<1>5. ASSUME NEW c \in Callers, InsertLock(c) PROVE CallInv'
  BY <1>1, <1>5 DEF InsertLock
<1>6. ASSUME NEW c \in Callers, EvictOneLocked(c) PROVE CallInv'
  BY <1>6 DEF EvictOneLocked, callVars
<1>7. ASSUME NEW c \in Callers, InsertLink(c) PROVE CallInv'
  BY <1>1, <1>7 DEF InsertLink
<1>8. ASSUME NEW c \in Callers, LookupMiss(c) PROVE CallInv'
  BY <1>1, <1>8 DEF LookupMiss, LookupReturns
<1>9. ASSUME NEW c \in Callers, LookupHit(c) PROVE CallInv'
  BY <1>1, <1>9 DEF LookupHit, LookupReturns
<1>10. ASSUME NEW k \in Keys, SweepErase(k) PROVE CallInv'
  BY <1>10 DEF SweepErase, callVars
<1>11. CASE \/ SweeperWake \/ SweepReadClock \/ SweepLock \/ SweepUnlock
            \/ Destroy \/ Join \/ Tick \/ UNCHANGED vars
  BY <1>11 DEF SweeperWake, SweepReadClock, SweepLock, SweepUnlock, Destroy, Join, Tick, vars, callVars
<1> QED
  BY <1>3, <1>4, <1>5, <1>6, <1>7, <1>8, <1>9, <1>10, <1>11, Zenon DEF Next, CallerStep, SweeperStep

\* The invariant about the calls in progress always holds.
LEMMA SpecCall == Spec => []CallInv
<1>1. Init => CallInv
  BY InitCall
<1>2. Inv /\ CallInv /\ [Next]_vars => CallInv'
  BY NextCall
<1> QED BY <1>1, <1>2, SpecInv, PTL DEF Spec

\* Erasing entries is forgetting.
LEMMA EraseForgets ==
    ASSUME NEW S \in SUBSET DOMAIN map_, map_' = [j \in S |-> map_[j]]
    PROVE  /\ Store' = [j \in S |-> Store[j]]
           /\ S \in SUBSET DOMAIN Store
  BY DEF Store

\* Every step of the cache is a step of the abstract store, or invisible there.
LEMMA StepImplements == Inv /\ CallInv /\ [Next]_vars => [Abstract!Next]_(Abstract!vars)
<1> SUFFICES ASSUME Inv, CallInv, [Next]_vars PROVE Abstract!Next \/ UNCHANGED Abstract!vars
  OBVIOUS
<1> USE DnsCacheAssumption
<1>1. /\ DOMAIN frame = Callers /\ result \in [Callers -> Reply \cup {None}]
      /\ map_ \in [DOMAIN map_ -> Entry]
  BY DEF Inv, ControlOK, StoreInv, StoreOK
<1>2. ASSUME UNCHANGED <<clock, map_, frame, result>>
      PROVE  UNCHANGED Abstract!vars
  BY <1>2 DEF Abstract!vars
<1>3. ASSUME NEW S \in SUBSET DOMAIN map_, map_' = [j \in S |-> map_[j]],
             UNCHANGED <<clock, frame, result>>
      PROVE  Abstract!Next
  <2>1. Abstract!Forget
    BY <1>3, EraseForgets, Zenon DEF Abstract!Forget, Store
  <2> QED BY <2>1 DEF Abstract!Next
<1>4. ASSUME NEW c \in Callers, NEW k \in Keys, NEW m \in Messages, InsertBegin(c, k, m)
      PROVE  Abstract!Next
  <2>1. Abstract!Begin(c, k, m)
    BY <1>4 DEF InsertBegin, CallInv, Abstract!Begin
  <2> QED BY <2>1 DEF Abstract!Next
<1>5. ASSUME NEW c \in Callers, NEW k \in Keys, LookupBegin(c, k)
      PROVE  Abstract!Next
  <2>1. Abstract!Begin(c, k, None)
    BY <1>5 DEF LookupBegin, CallInv, Abstract!Begin
  <2> QED BY <2>1, SMTT(40) DEF Abstract!Next
<1>6. ASSUME NEW c \in Callers, InsertLock(c)
      PROVE  Abstract!Next \/ UNCHANGED Abstract!vars
  <2>1. CASE frame[c].key \in DOMAIN map_
    BY <1>3, <1>6, <2>1 DEF InsertLock, EraseEntry
  <2>2. CASE frame[c].key \notin DOMAIN map_
    BY <1>2, <1>6, <2>2 DEF InsertLock
  <2> QED BY <2>1, <2>2
<1>7. ASSUME NEW c \in Callers, EvictOneLocked(c)
      PROVE  Abstract!Next
  BY <1>3, <1>7 DEF EvictOneLocked, callVars
<1>8. ASSUME NEW c \in Callers, InsertLink(c)
      PROVE  Abstract!Next
  <2>1. PICK n \in Nodes :
          map_' = [j \in DOMAIN map_ \cup {frame[c].key} |->
                        IF j = frame[c].key THEN NewEntry(frame[c], n) ELSE map_[j]]
    BY <1>8 DEF InsertLink
  <2>2. frame[c] # None /\ frame[c].response # None
    BY <1>8, SMTT(40) DEF InsertLink, CallInv
  <2>3. Store' = [j \in DOMAIN Store \cup {frame[c].key} |->
                    IF j = frame[c].key
                    THEN [response |-> frame[c].response,
                          expires_at |-> frame[c].now + Lifetime(frame[c].response)]
                    ELSE Store[j]]
    BY <2>1, Zenon DEF Store, NewEntry
  <2>4. frame' = [frame EXCEPT ![c] = None] /\ clock' = clock /\ result' = result
    BY <1>8 DEF InsertLink
  <2>5. Abstract!Put(c)
    BY <2>2, <2>3, <2>4, Zenon DEF Abstract!Put, Store
  <2> QED BY <2>5 DEF Abstract!Next
<1>9. ASSUME NEW c \in Callers, LookupMiss(c)
      PROVE  Abstract!Next
  <2> DEFINE k == frame[c].key
  <2>1. frame[c] # None /\ frame[c].response = None
    BY <1>9 DEF LookupMiss, CallInv
  <2>2. map_' = [j \in DOMAIN map_ \ {k} |-> map_[j]]
    BY <1>1, <1>9, Zenon DEF LookupMiss, EraseEntry
  <2>3. Store' = [j \in DOMAIN Store \ {k} |-> Store[j]]
    BY <2>2 DEF Store
  <2>4. k \in DOMAIN Store => Store[k].expires_at <= frame[c].now
    BY <1>9 DEF LookupMiss, Expired, Store
  <2>5. /\ frame' = [frame EXCEPT ![c] = None] /\ clock' = clock
        /\ result' = [result EXCEPT ![c] = None]
    BY <1>9 DEF LookupMiss, LookupReturns
  <2>6. Answer' = [Answer EXCEPT ![c] = None]
    BY <1>1, <2>5, Zenon DEF Answer
  <2>7. Abstract!Miss(c)
    BY <2>1, <2>3, <2>4, <2>5, <2>6 DEF Abstract!Miss, Store, Answer
  <2> QED BY <2>7 DEF Abstract!Next
<1>10. ASSUME NEW c \in Callers, LookupHit(c)
       PROVE  Abstract!Next
  <2> DEFINE k == frame[c].key
  <2>1. frame[c] # None /\ frame[c].response = None /\ frame[c].now \in Nat
    BY <1>10 DEF LookupHit, CallInv, Inv, FrameInv, Frame
  <2>2. k \in DOMAIN map_ /\ map_' = map_ /\ ~Expired(k, frame[c].now) /\ map_[k] \in Entry
    BY <1>1, <1>10, Zenon DEF LookupHit
  <2>3. k \in DOMAIN Store /\ frame[c].now < Store[k].expires_at /\ Store' = Store
    <3>1. PICK now, e \in Nat : now = frame[c].now /\ e = map_[k].expires_at
      BY <2>1, <2>2, Zenon DEF Entry
    <3>2. ~(e <= now)
      BY <2>2, <3>1, Zenon DEF Expired
    <3>3. now < e
      BY <3>1, <3>2
    <3>4. k \in DOMAIN Store /\ Store[k].expires_at = map_[k].expires_at
      BY <2>2, Zenon DEF Store
    <3>5. Store' = Store
      BY <2>2, Zenon DEF Store
    <3> QED BY <3>1, <3>3, <3>4, <3>5, Zenon
  <2>4. /\ frame' = [frame EXCEPT ![c] = None] /\ clock' = clock
        /\ result' = [result EXCEPT ![c] = Served(map_[k], frame[c].now)]
    BY <1>10 DEF LookupHit, LookupReturns
  <2>5. /\ Served(map_[k], frame[c].now) # None
        /\ Served(map_[k], frame[c].now).response = Store[k].response
    <3>1. Served(map_[k], frame[c].now) \in Reply /\ Served(map_[k], frame[c].now).response = map_[k].response
      BY <2>1, <2>2, ServedType
    <3>2. Store[k].response = map_[k].response
      BY <2>2, Zenon DEF Store
    <3> QED BY <3>1, <3>2, DnsCacheAssumption, Zenon
  <2>6. Answer' = [Answer EXCEPT ![c] = Store[k].response]
    BY <1>1, <2>4, <2>5, Zenon DEF Answer
  <2>7. Abstract!Hit(c)
    BY <2>1, <2>3, <2>4, <2>6, Zenon DEF Abstract!Hit, Store, Answer
  <2> QED BY <2>7 DEF Abstract!Next
<1>11. ASSUME NEW k \in Keys, SweepErase(k)
       PROVE  Abstract!Next
  BY <1>3, <1>11 DEF SweepErase, EraseEntry, callVars
<1>12. CASE SweeperWake \/ SweepReadClock \/ SweepLock \/ SweepUnlock \/ Destroy \/ Join \/ UNCHANGED vars
  BY <1>2, <1>12
     DEF SweeperWake, SweepReadClock, SweepLock, SweepUnlock, Destroy, Join, vars, callVars
<1>13. CASE Tick
  <2>1. Abstract!Tick
    BY <1>13 DEF Tick, Abstract!Tick, callVars
  <2> QED BY <2>1 DEF Abstract!Next
<1> QED
  BY <1>4, <1>5, <1>6, <1>7, <1>8, <1>9, <1>10, <1>11, <1>12, <1>13, Zenon
     DEF Next, CallerStep, SweeperStep

\* The cache implements the abstract store: insert, lookup, eviction and the
\* sweeper, interleaved in any way, answer a call only with the response stored
\* last for its key and only within its lifetime, and a lookup that misses has
\* found nothing fresh.
THEOREM CacheImplementsStore == Spec => ImplementsTtlStore
<1>1. Init => Abstract!Init
  BY DEF Init, Abstract!Init
<1>2. Inv /\ CallInv /\ [Next]_vars => [Abstract!Next]_(Abstract!vars)
  BY StepImplements
<1> QED BY <1>1, <1>2, SpecInv, SpecCall, PTL DEF Spec, ImplementsTtlStore, Abstract!Spec
=============================================================================
