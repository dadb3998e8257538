-------------------------- MODULE AlgorithmProofs --------------------------
(***************************************************************************)
(* What the forwarder decides about a reply, for every input: the chain of *)
(* canonical names the uncloaker follows and its verdict (Uncloaker, Etld),*)
(* and which rule of the lists decides about a name (Blocklist).           *)
(***************************************************************************)
EXTENDS MCAlgorithms, Uncloaker, FiniteSetTheorems, TLAPS

-----------------------------------------------------------------------------
(* Induction over the naturals, in the form of sets, and what it is for: a *)
(* least element, and that a recursive function is what it is defined by.  *)

\* Every set of naturals that is not empty has a least element.
LEMMA NatWellOrdered ==
    ASSUME NEW S \in SUBSET Nat, S # {}
    PROVE  \E x \in S : \A y \in S : x <= y
<1> DEFINE R == {ss \in Nat \X Nat : ss[1] < ss[2]}
<1>1. IsWellFoundedOn(R, Nat)
  BY NatLessThanWellFounded DEF OpToRel
<1>2. PICK x \in S : \A y \in S : ~(<<y, x>> \in R)
  BY <1>1, WFMin, Zenon
<1>3. ASSUME NEW y \in S PROVE x <= y
  <2>1. x \in Nat /\ y \in Nat /\ (y < x => <<y, x>> \in R)
    OBVIOUS
  <2> HIDE DEF R
  <2> QED BY <1>2, <2>1
<1> QED BY <1>3

\* The least element of a set of naturals.
LEMMA MinIsLeast ==
    ASSUME NEW S \in SUBSET Nat, S # {}
    PROVE  Min(S) \in S /\ \A y \in S : Min(S) <= y
  BY NatWellOrdered, Zenon DEF Min

\* A set that has first, and with each number the next one, has them all.
LEMMA RangeInduction ==
    ASSUME NEW first \in Nat, NEW last \in Nat, NEW S, first \in S,
           \A n \in (first + 1)..last : n - 1 \in S => n \in S
    PROVE  \A n \in first..last : n \in S
<1> DEFINE missing == {n \in first..last : n \notin S}
<1> SUFFICES ASSUME missing # {} PROVE FALSE
  OBVIOUS
<1>1. missing \in SUBSET Nat
  OBVIOUS
<1>2. PICK x \in missing : \A y \in missing : x <= y
  <2> HIDE DEF missing
  <2> QED BY <1>1, NatWellOrdered
<1>3. x \in (first + 1)..last /\ x - 1 \in first..last /\ ~(x <= x - 1)
  OBVIOUS
<1>4. x - 1 \in S
  BY <1>2, <1>3
<1> QED BY <1>3, <1>4

\* Some function on first..last is base at first and, after it, the step taken
\* there from the value before.
HasIndexedSolution(X, base, step, first, last) ==
    \E f \in [first..last -> X] :
        \A n \in first..last : f[n] = IF n = first THEN base ELSE step[n][f[n - 1]]

\* What a function defined by recursion on its argument needs to exist.
LEMMA IndexedRecursionExists ==
    ASSUME NEW X, NEW base \in X, NEW first \in Nat, NEW last \in Nat, first <= last,
           NEW step \in [(first + 1)..last -> [X -> X]]
    PROVE  HasIndexedSolution(X, base, step, first, last)
<1> DEFINE Ok(f, n) == \A k \in first..n : f[k] = IF k = first THEN base ELSE step[k][f[k - 1]]
           S == {n \in first..last : \E f \in [first..n -> X] : Ok(f, n)}
<1>1. first \in S
  <2> DEFINE f == [k \in first..first |-> base]
  <2>1. f \in [first..first -> X] /\ Ok(f, first)
    OBVIOUS
  <2>2. first \in first..last
    OBVIOUS
  <2> HIDE DEF f, Ok
  <2> QED BY <2>1, <2>2
<1>2. ASSUME NEW n \in (first + 1)..last, n - 1 \in S PROVE n \in S
  <2>1. PICK f \in [first..(n - 1) -> X] : Ok(f, n - 1)
    BY <1>2, Zenon
  <2>2. n - 1 \in first..(n - 1) /\ \A k \in first..n : k # n => k \in first..(n - 1)
    BY <1>2
  <2> DEFINE g == [k \in first..n |-> IF k = n THEN step[n][f[n - 1]] ELSE f[k]]
  <2>3. g \in [first..n -> X]
    BY <2>2
  <2>4. ASSUME NEW k \in first..n PROVE g[k] = IF k = first THEN base ELSE step[k][g[k - 1]]
    <3>1. CASE k = n
      <4>1. n - 1 \in first..n /\ n - 1 # n /\ k # first
        BY <1>2, <3>1
      <4> QED BY <3>1, <4>1
    <3>2. CASE k # n /\ k # first
      <4>1. k \in first..(n - 1) /\ k - 1 \in first..n /\ k - 1 # n
        BY <1>2, <3>2
      <4>2. g[k] = f[k] /\ g[k - 1] = f[k - 1]
        BY <3>2, <4>1
      <4> HIDE DEF g
      <4> QED BY <2>1, <3>2, <4>1, <4>2
    <3>3. CASE k # n /\ k = first
      <4>1. k \in first..(n - 1)
        BY <1>2, <3>3
      <4>2. g[k] = f[k]
        BY <3>3
      <4> HIDE DEF g
      <4> QED BY <2>1, <3>3, <4>1, <4>2
    <3> QED BY <3>1, <3>2, <3>3
  <2>5. Ok(g, n)
    BY <2>4
  <2>6. n \in first..last
    BY <1>2
  <2> HIDE DEF g, Ok
  <2> QED BY <2>3, <2>5, <2>6
<1>3. \A n \in first..last : n \in S
  <2> HIDE DEF S
  <2> QED BY <1>1, <1>2, RangeInduction, Zenon
<1>4. last \in S
  BY <1>3
<1> QED BY <1>4 DEF HasIndexedSolution

\* The same when every step is the same function.
HasSolution(X, base, step, first, last) ==
    \E f \in [first..last -> X] :
        \A n \in first..last : f[n] = IF n = first THEN base ELSE step[f[n - 1]]

\* A recursion that does not look at its argument.
LEMMA RecursionExists ==
    ASSUME NEW X, NEW base \in X, NEW step \in [X -> X],
           NEW first \in Nat, NEW last \in Nat, first <= last
    PROVE  HasSolution(X, base, step, first, last)
<1> DEFINE steps == [n \in (first + 1)..last |-> step]
<1>1. steps \in [(first + 1)..last -> [X -> X]]
  BY Zenon
<1> HIDE DEF steps
<1>2. HasIndexedSolution(X, base, steps, first, last)
  BY <1>1, IndexedRecursionExists
<1>3. PICK f \in [first..last -> X] :
        \A n \in first..last : f[n] = IF n = first THEN base ELSE steps[n][f[n - 1]]
  BY <1>2, Zenon DEF HasIndexedSolution
<1>4. \A n \in first..last : n # first => steps[n] = step
  <2>1. \A n \in first..last : n # first => n \in (first + 1)..last
    OBVIOUS
  <2> QED BY <2>1, Zenon DEF steps
<1>5. \A n \in first..last : f[n] = IF n = first THEN base ELSE step[f[n - 1]]
  BY <1>3, <1>4, Zenon
<1> QED BY <1>5, Zenon DEF HasSolution

-----------------------------------------------------------------------------
(* The chain of canonical names in the DNS.                                *)

Dns == cname \in [Names -> Names \cup {Address, NoRecord}]

\* p follows the DNS from n and meets no name twice.
Path(p, n) ==
    /\ p \in Seq(Names) /\ p # <<>> /\ p[1] = n
    /\ \A k \in 1..(Len(p) - 1) : p[k + 1] = cname[p[k]]
    /\ \A i, j \in DOMAIN p : p[i] = p[j] => i = j

\* p cannot be followed further.
Over(p) == cname[Last(p)] \notin Names \/ cname[Last(p)] \in Range(p)

\* The names of a path, and its last one.
LEMMA PathNames ==
    ASSUME NEW n, NEW p, Path(p, n)
    PROVE  /\ Len(p) \in Nat \ {0} /\ DOMAIN p = 1..Len(p) /\ Last(p) = p[Len(p)]
           /\ \A k \in 1..Len(p) : p[k] \in Names
  BY DEF Path, Last

\* As many names as there are, all different, are all the names.
LEMMA LongestPath ==
    ASSUME NEW n, NEW p, Path(p, n), Len(p) = Cardinality(Names)
    PROVE  Range(p) = Names
<1>1. IsFiniteSet(Names) /\ IsFiniteSet(1..Len(p)) /\ Cardinality(1..Len(p)) = Len(p)
  <2>1. Len(p) \in Nat /\ 1 <= Len(p)
    BY PathNames
  <2>2. /\ IsFiniteSet(1..Len(p))
        /\ Cardinality(1..Len(p)) = IF 1 > Len(p) THEN 0 ELSE Len(p) - 1 + 1
    BY <2>1, FS_Interval
  <2>3. Cardinality(1..Len(p)) = Len(p)
    BY <2>1, <2>2
  <2> QED BY <2>2, <2>3, UncloakerAssumption
<1>2. p \in Injection(1..Len(p), Names)
  <2>1. p \in [1..Len(p) -> Names]
    BY DEF Path
  <2>2. \A i, j \in 1..Len(p) : p[i] = p[j] => i = j
    BY PathNames DEF Path
  <2> QED BY <2>1, <2>2 DEF Injection, IsInjective
<1>3. p \in Surjection(1..Len(p), Names)
  BY <1>1, <1>2, FS_Injection
<1> QED BY <1>3, PathNames DEF Surjection, Range

\* Following a path one name further is a path.
LEMMA FollowPath ==
    ASSUME Dns, NEW n, NEW p, Path(p, n), ~Over(p)
    PROVE  Path(Append(p, cname[Last(p)]), n) /\ Len(Append(p, cname[Last(p)])) = Len(p) + 1
<1> DEFINE x == cname[Last(p)]
           q == Append(p, x)
<1>1. x \in Names /\ x \notin Range(p)
  BY DEF Over
<1> HIDE DEF x
<1>2. /\ q \in Seq(Names) /\ Len(q) = Len(p) + 1 /\ q[Len(p) + 1] = x
      /\ \A k \in 1..Len(p) : q[k] = p[k]
  BY <1>1 DEF Path
<1> HIDE DEF q
<1>3. DOMAIN q = 1..(Len(p) + 1) /\ q # <<>>
  BY <1>2, PathNames
<1>4. q[1] = n
  BY <1>2, PathNames DEF Path
<1>5. ASSUME NEW k \in 1..(Len(q) - 1) PROVE q[k + 1] = cname[q[k]]
  <2>1. k \in 1..Len(p) /\ Len(p) \in Nat
    BY <1>2, PathNames
  <2>2. CASE k = Len(p)
    BY <1>2, <2>1, <2>2, PathNames DEF x
  <2>3. CASE k # Len(p)
    <3>1. k \in 1..(Len(p) - 1) /\ k + 1 \in 1..Len(p)
      BY <2>1, <2>3
    <3> QED BY <1>2, <2>1, <3>1 DEF Path
  <2> QED BY <2>2, <2>3
<1>6. ASSUME NEW i \in DOMAIN q, NEW j \in DOMAIN q, q[i] = q[j] PROVE i = j
  <2>1. \A k \in 1..Len(p) : p[k] # x
    BY <1>1, PathNames DEF Range
  <2>2. Len(p) \in Nat /\ \A k \in DOMAIN q : k \in 1..Len(p) \/ k = Len(p) + 1
    BY <1>3, PathNames
  <2>3. \A k, l \in 1..Len(p) : p[k] = p[l] => k = l
    BY PathNames DEF Path
  <2> QED BY <1>2, <1>6, <2>1, <2>2, <2>3
<1>7. Path(q, n)
  BY <1>2, <1>3, <1>4, <1>5, <1>6 DEF Path
<1> QED BY <1>2, <1>7 DEF q, x

\* The first name alone is a path.
LEMMA OnePath == ASSUME NEW n \in Names PROVE Path(<<n>>, n) /\ Len(<<n>>) = 1
  BY DEF Path

\* TrueChain is a path that cannot be followed further.
LEMMA TrueChainIsPath ==
    ASSUME Dns, NEW n \in Names
    PROVE  Path(TrueChain(n), n) /\ Over(TrueChain(n))
<1> DEFINE N == Cardinality(Names)
           X == {p \in Seq(Names) : Path(p, n)}
           step == [p \in X |-> Follow(p)]
           def(f) == [k \in 1..N |-> IF k = 1 THEN <<n>> ELSE Follow(f[k - 1])]
           path == CHOOSE f : f = def(f)
<1>1. N \in Nat /\ 1 <= N
  <2>1. N \in Nat /\ (N = 0 <=> Names = {})
    BY UncloakerAssumption, FS_CardinalityType, FS_EmptySet
  <2> QED BY <2>1
<1>2. <<n>> \in X
  BY OnePath DEF Path
<1>3. ASSUME NEW p \in X
      PROVE  /\ Follow(p) \in X
             /\ Over(p) => Follow(p) = p
             /\ ~Over(p) => Len(Follow(p)) = Len(p) + 1
  <2>1. CASE Over(p)
    BY <2>1 DEF Over, Follow
  <2>2. CASE ~Over(p)
    <3>1. Follow(p) = Append(p, cname[Last(p)])
      BY <2>2 DEF Over, Follow
    <3>2. Path(Append(p, cname[Last(p)]), n) /\ Len(Append(p, cname[Last(p)])) = Len(p) + 1
      BY <2>2, FollowPath
    <3> QED BY <2>2, <3>1, <3>2, Zenon DEF Path
  <2> QED BY <2>1, <2>2
<1>4. step \in [X -> X]
  <2> HIDE DEF X
  <2> QED BY <1>3
<1>5. \E f : f = def(f)
  <2> HIDE DEF X, step
  <2>1. PICK f \in [1..N -> X] : \A k \in 1..N : f[k] = IF k = 1 THEN <<n>> ELSE step[f[k - 1]]
    <3>1. HasSolution(X, <<n>>, step, 1, N)
      BY <1>1, <1>2, <1>4, RecursionExists
    <3> QED BY <3>1, Zenon DEF HasSolution
  <2>2. ASSUME NEW k \in 1..N PROVE f[k] = IF k = 1 THEN <<n>> ELSE Follow(f[k - 1])
    <3>1. CASE k # 1
      <4>1. k - 1 \in 1..N
        BY <1>1, <3>1
      <4> QED BY <2>1, <3>1, <4>1, Zenon DEF step
    <3> QED BY <2>1, <3>1
  <2>3. f = def(f)
    BY <2>2
  <2> QED BY <2>3, Zenon
<1>6. path = def(path) /\ TrueChain(n) = path[N]
  <2>1. path = def(path)
    BY <1>5, Zenon
  <2>2. TrueChain(n) = path[N]
    BY Zenon DEF TrueChain
  <2> QED BY <2>1, <2>2
<1>7. \A k \in 1..N : path[k] = IF k = 1 THEN <<n>> ELSE Follow(path[k - 1])
  <2> HIDE DEF path
  <2> QED BY <1>6, Zenon
<1> HIDE DEF path, X, step
<1> DEFINE S == {k \in 1..N : path[k] \in X /\ (Len(path[k]) = k \/ Over(path[k]))}
<1>8. 1 \in S
  BY <1>1, <1>2, <1>7, OnePath
<1>9. ASSUME NEW k \in (1 + 1)..N, k - 1 \in S PROVE k \in S
  <2>1. k \in 1..N /\ path[k] = Follow(path[k - 1])
    BY <1>1, <1>7, <1>9
  <2>2. path[k - 1] \in X /\ (Len(path[k - 1]) = k - 1 \/ Over(path[k - 1]))
    BY <1>9
  <2> HIDE DEF S
  <2>3. CASE Over(path[k - 1])
    BY <1>3, <2>1, <2>2, <2>3 DEF S
  <2>4. CASE ~Over(path[k - 1])
    <3>1. Len(path[k]) = k /\ path[k] \in X
      BY <1>1, <1>3, <1>9, <2>1, <2>2, <2>4
    <3> QED BY <2>1, <3>1 DEF S
  <2> QED BY <2>3, <2>4
<1>10. N \in S
  <2> HIDE DEF S
  <2>1. \A k \in 1..N : k \in S
    BY <1>1, <1>8, <1>9, RangeInduction, Zenon
  <2> QED BY <1>1, <2>1
<1>11. Path(path[N], n) /\ (Len(path[N]) = N \/ Over(path[N]))
  BY <1>10 DEF X
<1>12. ASSUME Len(path[N]) = N PROVE Over(path[N])
  <2>1. Range(path[N]) = Names
    BY <1>11, <1>12, LongestPath
  <2> QED BY <2>1 DEF Over
<1> QED BY <1>6, <1>11, <1>12

\* Any path from n is the beginning of the chain.
LEMMA PathIsPrefix ==
    ASSUME Dns, NEW n \in Names, NEW p, Path(p, n)
    PROVE  /\ Len(p) <= Len(TrueChain(n))
           /\ \A k \in 1..Len(p) : TrueChain(n)[k] = p[k]
<1> DEFINE c == TrueChain(n)
<1>1. Path(c, n) /\ Over(c)
  BY TrueChainIsPath
<1> HIDE DEF c
<1>2. /\ Len(p) \in Nat \ {0} /\ Len(c) \in Nat \ {0} /\ DOMAIN p = 1..Len(p) /\ DOMAIN c = 1..Len(c)
  BY <1>1, PathNames
<1> DEFINE S == {k \in 1..Len(p) : k <= Len(c) /\ \A j \in 1..k : c[j] = p[j]}
<1>3. 1 \in S
  BY <1>1, <1>2 DEF Path
<1>4. ASSUME NEW k \in (1 + 1)..Len(p), k - 1 \in S PROVE k \in S
  <2>1. k \in 1..Len(p) /\ k - 1 \in 1..(Len(p) - 1) /\ (k - 1) + 1 = k /\ k - 1 \in 1..Len(c)
    BY <1>2, <1>4
  <2>2. \A j \in 1..(k - 1) : c[j] = p[j]
    BY <1>4
  <2>3. p[k] = cname[p[k - 1]] /\ p[k] \in Names
    BY <2>1, PathNames DEF Path
  <2>4. c[k - 1] = p[k - 1]
    BY <2>1, <2>2
  <2>5. ASSUME k - 1 = Len(c) PROVE FALSE
    <3>1. cname[Last(c)] = p[k]
      BY <2>3, <2>4, <2>5 DEF Last
    <3>2. PICK j \in 1..Len(c) : c[j] = p[k]
      BY <1>1, <1>2, <2>3, <3>1 DEF Over, Range
    <3>3. p[j] = p[k] /\ j \in 1..Len(p) /\ j # k
      BY <1>2, <2>1, <2>2, <2>5, <3>2
    <3> QED BY <1>2, <2>1, <3>3 DEF Path
  <2>6. k <= Len(c) /\ k - 1 \in 1..(Len(c) - 1)
    BY <1>2, <2>1, <2>5
  <2>7. c[k] = p[k]
    BY <1>1, <2>1, <2>3, <2>4, <2>6 DEF Path
  <2>8. \A j \in 1..k : c[j] = p[j]
    BY <2>1, <2>2, <2>7
  <2> QED BY <2>1, <2>6, <2>8
<1>5. Len(p) \in S
  <2> HIDE DEF S
  <2>1. \A k \in 1..Len(p) : k \in S
    BY <1>2, <1>3, <1>4, RangeInduction, Zenon
  <2> QED BY <1>2, <2>1
<1> QED BY <1>5 DEF c

\* A path that cannot be followed further is the whole chain.
LEMMA OverIsChain ==
    ASSUME Dns, NEW n \in Names, NEW p, Path(p, n), Over(p)
    PROVE  p = TrueChain(n)
<1> DEFINE c == TrueChain(n)
<1>1. Path(c, n) /\ Len(p) <= Len(c) /\ \A k \in 1..Len(p) : c[k] = p[k]
  BY TrueChainIsPath, PathIsPrefix
<1> HIDE DEF c
<1>2. /\ Len(p) \in Nat \ {0} /\ Len(c) \in Nat \ {0} /\ DOMAIN p = 1..Len(p) /\ DOMAIN c = 1..Len(c)
  BY <1>1, PathNames
<1>3. ASSUME Len(p) < Len(c) PROVE FALSE
  <2>1. Len(p) \in 1..(Len(c) - 1) /\ Len(p) + 1 \in 1..Len(c)
    BY <1>2, <1>3
  <2>2. c[Len(p) + 1] = cname[Last(p)] /\ c[Len(p) + 1] \in Names
    <3>1. c[Len(p)] = Last(p)
      BY <1>1, <1>2 DEF Last
    <3> QED BY <1>1, <2>1, <3>1, PathNames DEF Path
  <2>3. PICK j \in 1..Len(p) : p[j] = c[Len(p) + 1]
    BY <1>2, <2>2 DEF Over, Range
  <2>4. c[j] = c[Len(p) + 1] /\ j \in 1..Len(c) /\ j # Len(p) + 1
    BY <1>1, <1>2, <1>3, <2>3
  <2> QED BY <1>1, <1>2, <2>1, <2>4 DEF Path
<1>4. Len(p) = Len(c)
  <2>1. Len(p) <= Len(c) /\ ~(Len(p) < Len(c))
    BY <1>1, <1>3, Zenon
  <2>2. Len(p) \in Nat /\ Len(c) \in Nat
    BY <1>2
  <2> QED BY <2>1, <2>2
<1>5. p \in Seq(Names) /\ c \in Seq(Names)
  BY <1>1 DEF Path
<1>6. \A k \in 1..Len(p) : c[k] = p[k]
  BY <1>1
<1>7. p = c
  BY <1>4, <1>5, <1>6
<1> QED BY <1>7 DEF c
-----------------------------------------------------------------------------
(* What upstream answers and what walk_answers makes of it.                *)

Answer == [name: Names, type: {"address", "cname", "other"},
           target: Names \cup {NoRecord, Malformed}]

\* rrs says of names what the DNS does, but for a damaged target, and it
\* has the CNAME of n if there is one.
Sound(rrs, n) ==
    /\ rrs \in Seq(Answer)
    /\ \A i \in DOMAIN rrs :
        /\ rrs[i].type = "cname" => /\ cname[rrs[i].name] \in Names
                                    /\ rrs[i].target \in {cname[rrs[i].name], Malformed}
        /\ rrs[i].type = "address" => cname[rrs[i].name] = Address
    /\ cname[n] \in Names => \E i \in DOMAIN rrs : rrs[i].name = n /\ rrs[i].type = "cname"

\* The first links of the chain are sound.
LEMMA LinksSound ==
    ASSUME Dns, NEW n \in Names, NEW j \in 1..Len(TrueChain(n))
    PROVE  Sound(Links(n, j), n) /\ Len(Links(n, j)) = j
<1> DEFINE c == TrueChain(n)
           rrs == Links(n, j)
<1>1. c \in Seq(Names) /\ Len(c) \in Nat /\ c[1] = n /\ \A k \in 1..Len(c) : c[k] \in Names
  BY TrueChainIsPath, PathNames DEF Path
<1>2. j \in Nat /\ 1 \in 1..j /\ \A k \in 1..j : k \in 1..Len(c)
  BY <1>1
<1>3. rrs = [k \in 1..j |-> IF cname[c[k]] \in Names THEN Link(c[k])
                            ELSE [name |-> c[k], target |-> NoRecord,
                                  type |-> IF cname[c[k]] = Address THEN "address" ELSE "other"]]
  BY DEF Links
<1> HIDE DEF c, rrs
<1>4. ASSUME NEW k \in 1..j
      PROVE  /\ rrs[k] \in Answer /\ rrs[k].name = c[k]
             /\ rrs[k].type = "cname" => cname[c[k]] \in Names /\ rrs[k].target = cname[c[k]]
             /\ rrs[k].type = "address" => cname[c[k]] = Address
             /\ cname[c[k]] \in Names => rrs[k].type = "cname"
  <2>1. c[k] \in Names
    BY <1>1, <1>2
  <2>2. CASE cname[c[k]] \in Names
    <3>1. rrs[k] = [name |-> c[k], type |-> "cname", target |-> cname[c[k]]]
      BY <1>3, <2>2 DEF Link
    <3> QED BY <2>1, <2>2, <3>1 DEF Answer
  <2>3. CASE cname[c[k]] \notin Names
    <3>1. rrs[k] = [name |-> c[k], target |-> NoRecord,
                    type |-> IF cname[c[k]] = Address THEN "address" ELSE "other"]
      BY <1>3, <2>3
    <3> QED BY <2>1, <2>3, <3>1 DEF Answer
  <2> QED BY <2>2, <2>3
<1>5. rrs \in Seq(Answer) /\ Len(rrs) = j /\ DOMAIN rrs = 1..j
  <2>1. rrs \in [1..j -> Answer]
    BY <1>3, <1>4, Zenon
  <2> QED BY <1>2, <2>1
<1>6. Sound(rrs, n)
  BY <1>1, <1>2, <1>4, <1>5 DEF Sound
<1> QED BY <1>5, <1>6 DEF rrs

\* Whatever upstream answers is sound.
LEMMA ResponsesSound ==
    ASSUME Dns, NEW n \in Names, NEW rrs \in Responses(n)
    PROVE  Sound(rrs, n)
<1> DEFINE whole == {Links(n, j) : j \in 1..Len(TrueChain(n))}
           other == [name |-> n, type |-> "other", target |-> NoRecord]
<1>1. ASSUME NEW w \in whole PROVE Sound(w, n)
  BY <1>1, LinksSound
<1>2. ASSUME NEW w \in whole, rrs = <<other>> \o Backwards(w) PROVE Sound(rrs, n)
  <2>1. Sound(w, n) /\ w \in Seq(Answer) /\ Len(w) \in Nat /\ DOMAIN w = 1..Len(w)
    BY <1>1 DEF Sound
  <2>2. other \in Answer
    BY DEF Answer
  <2> HIDE DEF whole
  <2> DEFINE r == Backwards(w)
  <2>3. r \in Seq(Answer) /\ Len(r) = Len(w) /\ \A k \in 1..Len(w) : r[k] = w[(Len(w) - k) + 1]
    <3>1. r = [k \in 1..Len(w) |-> w[(Len(w) - k) + 1]]
      BY DEF Backwards
    <3>2. \A k \in 1..Len(w) : (Len(w) - k) + 1 \in 1..Len(w)
      BY <2>1
    <3>3. \A k \in 1..Len(w) : w[(Len(w) - k) + 1] \in Answer
      BY <2>1, <3>2
    <3>4. r \in [1..Len(w) -> Answer]
      BY <3>1, <3>3
    <3> QED BY <2>1, <3>1, <3>4
  <2>4. rrs = <<other>> \o r
    BY <1>2
  <2> HIDE DEF r
  <2>5. /\ rrs \in Seq(Answer) /\ Len(rrs) = Len(w) + 1 /\ DOMAIN rrs = 1..(Len(w) + 1)
        /\ rrs[1] = other /\ \A k \in 1..Len(w) : rrs[k + 1] = r[k]
    <3> HIDE DEF other
    <3>1. <<other>> \in Seq(Answer) /\ Len(<<other>>) = 1 /\ <<other>>[1] = other
      BY <2>2
    <3> QED BY <2>1, <2>3, <2>4, <3>1
  <2>6. \A i \in 1..(Len(w) + 1) : i # 1 => \E k \in 1..Len(w) : rrs[i] = w[k]
    <3>1. ASSUME NEW i \in 1..(Len(w) + 1), i # 1 PROVE \E k \in 1..Len(w) : rrs[i] = w[k]
      <4>1. i - 1 \in 1..Len(w) /\ (i - 1) + 1 = i /\ (Len(w) - (i - 1)) + 1 \in 1..Len(w)
        BY <2>1, <3>1
      <4> QED BY <2>3, <2>5, <4>1, Zenon
    <3> QED BY <3>1
  <2>7. \A k \in 1..Len(w) : \E i \in 1..(Len(w) + 1) : rrs[i] = w[k]
    <3>1. ASSUME NEW k \in 1..Len(w) PROVE \E i \in 1..(Len(w) + 1) : rrs[i] = w[k]
      <4>1. /\ (Len(w) - k) + 1 \in 1..Len(w) /\ ((Len(w) - k) + 1) + 1 \in 1..(Len(w) + 1)
            /\ (Len(w) - ((Len(w) - k) + 1)) + 1 = k
        BY <2>1
      <4> QED BY <2>3, <2>5, <4>1, Zenon
    <3> QED BY <3>1
  <2>8. \A i \in DOMAIN rrs :
            /\ rrs[i].type = "cname" => /\ cname[rrs[i].name] \in Names
                                        /\ rrs[i].target \in {cname[rrs[i].name], Malformed}
            /\ rrs[i].type = "address" => cname[rrs[i].name] = Address
    <3>1. rrs[1].type = "other"
      BY <2>5
    <3>2. ASSUME NEW i \in DOMAIN rrs
          PROVE  i = 1 \/ \E k \in DOMAIN w : rrs[i] = w[k]
      BY <2>1, <2>5, <2>6, Zenon
    <3>3. \A k \in DOMAIN w :
            /\ w[k].type = "cname" => /\ cname[w[k].name] \in Names
                                      /\ w[k].target \in {cname[w[k].name], Malformed}
            /\ w[k].type = "address" => cname[w[k].name] = Address
      BY <2>1 DEF Sound
    <3> QED BY <3>1, <3>2, <3>3, Zenon
  <2>9. cname[n] \in Names => \E i \in DOMAIN rrs : rrs[i].name = n /\ rrs[i].type = "cname"
    BY <2>1, <2>5, <2>7 DEF Sound
  <2> QED BY <2>5, <2>8, <2>9 DEF Sound
<1>3. ASSUME NEW w \in whole, rrs \in Damaged(w) PROVE Sound(rrs, n)
  <2>1. Sound(w, n) /\ w \in Seq(Answer) /\ DOMAIN w = 1..Len(w) /\ Len(w) \in Nat
    BY <1>1 DEF Sound
  <2> HIDE DEF whole
  <2>2. PICK k \in DOMAIN w : w[k].type = "cname" /\ rrs = [w EXCEPT ![k].target = Malformed]
    BY <1>3 DEF Damaged
  <2>3. /\ DOMAIN rrs = DOMAIN w /\ rrs[k] = [w[k] EXCEPT !.target = Malformed]
        /\ \A i \in DOMAIN w : i # k => rrs[i] = w[i]
    BY <2>1, <2>2
  <2>4. /\ rrs[k] \in Answer /\ rrs[k].name = w[k].name /\ rrs[k].type = w[k].type
        /\ rrs[k].target = Malformed
    <3>1. w[k] \in Answer
      BY <2>1
    <3> QED BY <2>3, <3>1 DEF Answer
  <2>5. rrs \in Seq(Answer)
    <3>1. rrs \in [1..Len(w) -> Answer]
      <4>1. \A i \in 1..Len(w) : rrs[i] \in Answer
        BY <2>1, <2>3, <2>4
      <4>2. rrs = [i \in 1..Len(w) |-> rrs[i]]
        BY <2>1, <2>2, Zenon
      <4> QED BY <4>1, <4>2
    <3> QED BY <2>1, <3>1
  <2> QED BY <2>1, <2>2, <2>3, <2>4, <2>5 DEF Sound
<1>4. \/ rrs \in whole \/ \E w \in whole : rrs = <<other>> \o Backwards(w)
      \/ \E w \in whole : rrs \in Damaged(w)
  BY Zenon DEF Responses
<1> QED BY <1>1, <1>2, <1>3, <1>4

\* The first record that decides for a name, if there is one.
LEMMA DecidingFirst ==
    ASSUME NEW rrs \in Seq(Answer), NEW x
    PROVE  LET i == Deciding(rrs, x)
           IN  \/ /\ i = 0
                  /\ \A k \in DOMAIN rrs : rrs[k].name = x => rrs[k].type \notin {"address", "cname"}
               \/ /\ i \in DOMAIN rrs /\ rrs[i].name = x /\ rrs[i].type \in {"address", "cname"}
<1> DEFINE I == {k \in 1..Len(rrs) : rrs[k].name = x /\ rrs[k].type \in {"address", "cname"}}
<1>1. Deciding(rrs, x) = IF I # {} THEN Min(I) ELSE 0
  BY Zenon DEF Deciding, First
<1>2. DOMAIN rrs = 1..Len(rrs) /\ I \in SUBSET Nat
  OBVIOUS
<1>3. CASE I = {}
  BY <1>1, <1>2, <1>3
<1>4. CASE I # {}
  <2>1. Min(I) \in I
    <3> HIDE DEF I
    <3> QED BY <1>2, <1>4, MinIsLeast
  <2>2. Deciding(rrs, x) = Min(I)
    BY <1>1, <1>4
  <2> QED BY <1>2, <2>1, <2>2
<1> QED BY <1>3, <1>4

WalkState == [hops: Seq(Names), at: Names, over: BOOLEAN, terminated: BOOLEAN, error: BOOLEAN]

\* hops follows the DNS from start.
Follows(hops, start) ==
    \A k \in 1..Len(hops) : hops[k] = cname[IF k = 1 THEN start ELSE hops[k - 1]]

\* What holds of a walk from start after any number of turns.
Walked(w, start) ==
    /\ w \in WalkState
    /\ w.at = (IF w.hops = <<>> THEN start ELSE Last(w.hops))
    /\ Follows(w.hops, start)
    /\ w.terminated => w.over /\ cname[w.at] = Address
    /\ (w.hops = <<>> /\ w.over) => (w.error \/ cname[start] \notin Names)

\* A turn keeps it, and is the last one if it makes no hop.
LEMMA TurnWalks ==
    ASSUME Dns, NEW start \in Names, NEW rrs, Sound(rrs, start), NEW w, Walked(w, start)
    PROVE  Walked(Turn(rrs, w), start) /\ (Turn(rrs, w).hops = <<>> => Turn(rrs, w).over)
<1> DEFINE i == Deciding(rrs, w.at)
           t == Turn(rrs, w)
<1>1. /\ w.hops \in Seq(Names) /\ w.at \in Names /\ w.over \in BOOLEAN
      /\ w.terminated \in BOOLEAN /\ w.error \in BOOLEAN /\ w \in WalkState
  BY DEF Walked, WalkState
<1>2. \/ /\ i = 0
         /\ \A k \in DOMAIN rrs : rrs[k].name = w.at => rrs[k].type \notin {"address", "cname"}
      \/ /\ i \in DOMAIN rrs /\ i # 0 /\ rrs[i].name = w.at /\ rrs[i].type \in {"address", "cname"}
         /\ rrs[i] \in Answer
  BY DecidingFirst DEF Sound
<1>3. t = IF w.over \/ i = 0 THEN [w EXCEPT !.over = TRUE]
          ELSE IF rrs[i].type = "address" THEN [w EXCEPT !.over = TRUE, !.terminated = TRUE]
          ELSE IF rrs[i].target = Malformed THEN [w EXCEPT !.over = TRUE, !.error = TRUE]
          ELSE [w EXCEPT !.hops = Append(@, rrs[i].target), !.at = rrs[i].target]
  BY Zenon DEF Turn
<1> SUFFICES Walked(t, start) /\ (t.hops = <<>> => t.over)
  OBVIOUS
<1> HIDE DEF i, t
<1>4. ASSUME t \in WalkState, t.hops = w.hops, t.at = w.at, t.over,
             t.terminated => cname[w.at] = Address,
             w.hops = <<>> => t.error \/ cname[start] \notin Names
      PROVE  Walked(t, start) /\ (t.hops = <<>> => t.over)
  BY <1>4, Zenon DEF Walked
<1>5. CASE w.over \/ i = 0
  <2>1. t = [w EXCEPT !.over = TRUE]
    BY <1>3, <1>5
  <2>2. /\ t \in WalkState /\ t.hops = w.hops /\ t.at = w.at /\ t.over
        /\ t.terminated = w.terminated /\ t.error = w.error
    BY <1>1, <2>1, Zenon DEF WalkState
  <2>3. w.hops = <<>> => t.error \/ cname[start] \notin Names
    <3>1. CASE w.over
      BY <2>2, <3>1 DEF Walked
    <3>2. CASE i = 0 /\ w.hops = <<>>
      <4>1. w.at = start
        BY <3>2 DEF Walked
      <4> QED BY <1>2, <3>2, <4>1 DEF Sound
    <3> QED BY <1>5, <3>1, <3>2
  <2>4. t.terminated => cname[w.at] = Address
    BY <2>2, Zenon DEF Walked
  <2> QED BY <1>4, <2>2, <2>3, <2>4, Zenon
<1>6. CASE ~w.over /\ i # 0 /\ rrs[i].type = "address"
  <2>1. t = [w EXCEPT !.over = TRUE, !.terminated = TRUE]
    BY <1>3, <1>6
  <2>2. t \in WalkState /\ t.hops = w.hops /\ t.at = w.at /\ t.over /\ t.error = w.error
    BY <1>1, <2>1, Zenon DEF WalkState
  <2>3. cname[w.at] = Address
    BY <1>2, <1>6 DEF Sound
  <2>4. w.hops = <<>> => cname[start] \notin Names
    BY <2>3, UncloakerAssumption, Zenon DEF Walked
  <2> QED BY <1>4, <2>2, <2>3, <2>4, Zenon
<1>7. CASE ~w.over /\ i # 0 /\ rrs[i].type # "address" /\ rrs[i].target = Malformed
  <2>1. t = [w EXCEPT !.over = TRUE, !.error = TRUE]
    BY <1>3, <1>7
  <2>2. /\ t \in WalkState /\ t.hops = w.hops /\ t.at = w.at /\ t.over /\ t.error
        /\ t.terminated = w.terminated
    BY <1>1, <2>1, Zenon DEF WalkState
  <2>3. t.terminated => cname[w.at] = Address
    BY <2>2, Zenon DEF Walked
  <2> QED BY <1>4, <2>2, <2>3, Zenon
<1>8. CASE ~w.over /\ i # 0 /\ rrs[i].type # "address" /\ rrs[i].target # Malformed
  <2> DEFINE x == rrs[i].target
  <2>1. x = cname[w.at] /\ x \in Names
    BY <1>2, <1>8 DEF Sound
  <2>2. t = [w EXCEPT !.hops = Append(@, x), !.at = x]
    BY <1>3, <1>8
  <2> HIDE DEF x
  <2>3. /\ t.hops = Append(w.hops, x) /\ t.at = x /\ t.over = w.over
        /\ t.terminated = w.terminated /\ t.error = w.error
    BY <1>1, <2>2 DEF WalkState
  <2>4. /\ Append(w.hops, x) \in Seq(Names) /\ Len(Append(w.hops, x)) = Len(w.hops) + 1
        /\ Append(w.hops, x)[Len(w.hops) + 1] = x /\ Len(w.hops) \in Nat
        /\ \A k \in 1..Len(w.hops) : Append(w.hops, x)[k] = w.hops[k]
    BY <1>1, <2>1
  <2>5. t \in WalkState
    <3> DEFINE h == Append(w.hops, x)
    <3>1. h \in Seq(Names)
      BY <2>4
    <3>2. t = [w EXCEPT !.hops = h, !.at = x]
      BY <1>1, <2>2 DEF WalkState
    <3> HIDE DEF h
    <3> QED BY <1>1, <2>1, <3>1, <3>2, Zenon DEF WalkState
  <2>6. t.hops # <<>> /\ Last(t.hops) = x
    <3> DEFINE h == Append(w.hops, x)
    <3>1. PICK n \in Nat : n = Len(w.hops) /\ Len(h) = n + 1 /\ h[n + 1] = x
      BY <2>4, Zenon
    <3>2. h # <<>>
      BY <3>1
    <3> HIDE DEF h
    <3>3. h[Len(h)] = x
      BY <3>1, Zenon
    <3> QED BY <2>3, <3>2, <3>3, Zenon DEF Last, h
  <2>7. Follows(t.hops, start)
    <3>1. ASSUME NEW k \in 1..(Len(w.hops) + 1)
          PROVE  t.hops[k] = cname[IF k = 1 THEN start ELSE t.hops[k - 1]]
      <4>1. CASE k # Len(w.hops) + 1
        <5>1. k \in 1..Len(w.hops) /\ (k # 1 => k - 1 \in 1..Len(w.hops))
          BY <2>4, <4>1
        <5> QED BY <2>3, <2>4, <5>1 DEF Walked, Follows
      <4>2. CASE k = Len(w.hops) + 1
        <5>1. CASE w.hops = <<>>
          <6>1. k = 1 /\ w.at = start
            BY <4>2, <5>1 DEF Walked
          <6> QED BY <2>1, <2>3, <2>4, <4>2, <6>1
        <5>2. CASE w.hops # <<>>
          <6>1. k # 1 /\ k - 1 \in 1..Len(w.hops) /\ k - 1 = Len(w.hops)
            BY <1>1, <2>4, <4>2, <5>2
          <6>2. w.at = w.hops[k - 1]
            BY <5>2, <6>1 DEF Walked, Last
          <6> QED BY <2>1, <2>3, <2>4, <4>2, <6>1, <6>2
        <5> QED BY <5>1, <5>2
      <4> QED BY <4>1, <4>2
    <3> QED BY <2>3, <2>4, <3>1 DEF Follows
  <2>8. ~t.terminated /\ ~t.over
    BY <1>1, <1>8, <2>3 DEF Walked
  <2> QED BY <2>3, <2>5, <2>6, <2>7, <2>8, Zenon DEF Walked
<1> QED BY <1>5, <1>6, <1>7, <1>8, Zenon

\* walk_answers follows the DNS from where it starts, an address ends it at a
\* name that has one, and it makes no hop only from a name without a CNAME.
LEMMA WalkFollows ==
    ASSUME Dns, NEW start \in Names, NEW rrs, Sound(rrs, start)
    PROVE  LET w == walk_answers(rrs, start)
           IN  Walked(w, start) /\ (w.hops = <<>> => w.error \/ cname[start] \notin Names)
<1> DEFINE N == Len(rrs) + 1
           X == {w \in WalkState : Walked(w, start)}
           first == [hops |-> <<>>, at |-> start, over |-> FALSE, terminated |-> FALSE, error |-> FALSE]
           step == [w \in X |-> Turn(rrs, w)]
           def(f) == [n \in 0..N |-> IF n = 0 THEN first ELSE Turn(rrs, f[n - 1])]
           turn == CHOOSE f : f = def(f)
<1>1. N \in Nat /\ N - 1 \in 0..N /\ N # 0 /\ N \in 0..N /\ 0 <= N
  <2>1. Len(rrs) \in Nat
    BY DEF Sound
  <2> QED BY <2>1
<1>2. first \in X
  <2>1. first \in WalkState /\ Follows(first.hops, start)
    BY DEF WalkState, Follows
  <2>2. first.hops = <<>> /\ first.at = start /\ ~first.terminated /\ ~first.over
    OBVIOUS
  <2> HIDE DEF first
  <2> QED BY <2>1, <2>2, Zenon DEF Walked
<1>3. ASSUME NEW w \in X PROVE Turn(rrs, w) \in X
  BY TurnWalks, Zenon DEF Walked
<1> HIDE DEF first, N
<1>4. \E f : f = def(f)
  <2>1. step \in [X -> X]
    <3> HIDE DEF X
    <3> QED BY <1>3
  <2> HIDE DEF X, step
  <2>2. HasSolution(X, first, step, 0, N)
    BY <1>1, <1>2, <2>1, RecursionExists
  <2>3. PICK f \in [0..N -> X] : \A n \in 0..N : f[n] = IF n = 0 THEN first ELSE step[f[n - 1]]
    BY <2>2, Zenon DEF HasSolution
  <2>4. ASSUME NEW n \in 0..N PROVE f[n] = IF n = 0 THEN first ELSE Turn(rrs, f[n - 1])
    <3>1. CASE n # 0
      <4>1. n - 1 \in 0..N
        BY <1>1, <3>1
      <4>2. f[n - 1] \in X
        BY <4>1
      <4> QED BY <2>3, <3>1, <4>2, Zenon DEF step
    <3> QED BY <2>3, <3>1
  <2>5. f = def(f)
    BY <2>4
  <2> QED BY <2>5, Zenon
<1>5. turn = def(turn)
  BY <1>4, Zenon
<1>6. walk_answers(rrs, start) = turn[N]
  BY Zenon DEF walk_answers, first, N
<1> HIDE DEF turn, X
<1>7. \A n \in 0..N : turn[n] = IF n = 0 THEN first ELSE Turn(rrs, turn[n - 1])
  BY <1>5, Zenon
<1> DEFINE S == {n \in 0..N : turn[n] \in X}
<1>8. 0 \in S
  BY <1>1, <1>2, <1>7
<1>9. ASSUME NEW n \in (0 + 1)..N, n - 1 \in S PROVE n \in S
  <2>1. n \in 0..N /\ n # 0 /\ turn[n - 1] \in X
    BY <1>1, <1>9
  <2>2. turn[n] = Turn(rrs, turn[n - 1])
    BY <1>7, <2>1
  <2> QED BY <1>3, <2>1, <2>2
<1>10. \A n \in 0..N : n \in S
  <2> HIDE DEF S
  <2> QED BY <1>1, <1>8, <1>9, RangeInduction, Zenon
<1>11. turn[N - 1] \in X /\ turn[N] = Turn(rrs, turn[N - 1])
  BY <1>1, <1>7, <1>10
<1>12. Walked(turn[N - 1], start)
  BY <1>11 DEF X
<1>13. Walked(turn[N], start) /\ (turn[N].hops = <<>> => turn[N].over)
  BY <1>11, <1>12, TurnWalks
<1> QED BY <1>6, <1>13, Zenon DEF Walked
-----------------------------------------------------------------------------
(* The chain that uncloak builds, over all the responses of a walk.        *)

\* chain follows the DNS within max_depth, and only its last name may be
\* blocked; the response at hand is sound for that name; and a verdict has
\* the reason in the DNS that it claims.
IInv ==
    /\ Dns /\ blocklist_ \in SUBSET (Names \ {Original}) /\ max_depth \in Nat \ {0}
    /\ Path(chain, Original) /\ Len(chain) <= max_depth
    /\ \A k \in DOMAIN chain : chain[k] \in blocklist_ => status = "Blocked" /\ k = Len(chain)
    /\ status = "Walk" => Sound(current, Last(chain))
    /\ status = "Blocked" => Last(chain) \in blocklist_
    /\ status = "Clean" => cname[Last(chain)] \notin Names
    /\ abort_reason = "loop" => status = "Aborted" /\ cname[Last(chain)] \in Range(chain)
    /\ abort_reason = "depth" => status = "Aborted" /\ Len(chain) = max_depth

\* The chain with the first k hops of a response behind it.
Joined(hops, k) == chain \o SubSeq(hops, 1, k)

\* What joining the first k hops of a response makes of the chain.
LEMMA JoinedIs ==
    ASSUME chain \in Seq(Names), NEW hops \in Seq(Names), NEW k \in 0..Len(hops)
    PROVE  /\ Joined(hops, k) \in Seq(Names) /\ Len(Joined(hops, k)) = Len(chain) + k
           /\ DOMAIN Joined(hops, k) = 1..(Len(chain) + k)
           /\ \A i \in 1..Len(chain) : Joined(hops, k)[i] = chain[i]
           /\ \A i \in 1..k : Joined(hops, k)[Len(chain) + i] = hops[i]
<1> DEFINE h == SubSeq(hops, 1, k)
<1>1. h \in Seq(Names) /\ Len(h) = k /\ \A i \in 1..k : h[i] = hops[i]
  OBVIOUS
<1>2. Joined(hops, k) = chain \o h
  BY DEF Joined
<1> HIDE DEF h
<1>3. /\ Len(chain) \in Nat /\ k \in Nat /\ chain \o h \in Seq(Names) /\ Len(chain \o h) = Len(chain) + k
      /\ \A i \in 1..(Len(chain) + k) :
            (chain \o h)[i] = IF i <= Len(chain) THEN chain[i] ELSE h[i - Len(chain)]
  BY <1>1
<1>4. \A i \in 1..Len(chain) : (chain \o h)[i] = chain[i]
  BY <1>3
<1>5. ASSUME NEW i \in 1..k PROVE (chain \o h)[Len(chain) + i] = hops[i]
  <2>1. /\ Len(chain) + i \in 1..(Len(chain) + k) /\ ~(Len(chain) + i <= Len(chain))
        /\ (Len(chain) + i) - Len(chain) = i
    BY <1>3
  <2> QED BY <1>1, <1>3, <2>1
<1>6. DOMAIN (chain \o h) = 1..(Len(chain) + k)
  BY <1>3
<1> QED BY <1>2, <1>3, <1>4, <1>5, <1>6, Zenon

\* Hops that were not seen before make the path longer.
LEMMA JoinedPath ==
    ASSUME Path(chain, Original), NEW hops \in Seq(Names), Follows(hops, Last(chain)),
           NEW k \in 0..Len(hops), \A j \in 1..k : ~Seen(hops, j)
    PROVE  /\ Path(Joined(hops, k), Original)
           /\ Last(Joined(hops, k)) = IF k = 0 THEN Last(chain) ELSE hops[k]
<1> DEFINE c == Joined(hops, k)
           L == Len(chain)
<1>1. chain \in Seq(Names) /\ L \in Nat \ {0} /\ DOMAIN chain = 1..L /\ k \in Nat
  BY PathNames DEF Path
<1>2. /\ c \in Seq(Names) /\ Len(c) = L + k /\ DOMAIN c = 1..(L + k)
      /\ \A i \in 1..L : c[i] = chain[i]
      /\ \A j \in 1..k : c[L + j] = hops[j]
  BY <1>1, JoinedIs
<1>3. \A i \in 1..(L + k) : i \in 1..L \/ (i - L \in 1..k /\ L + (i - L) = i)
  BY <1>1
<1>4. \A j \in 1..k : j \in 1..Len(hops)
  OBVIOUS
<1> HIDE DEF c, L
<1>5. c # <<>> /\ c[1] = Original
  BY <1>1, <1>2 DEF Path
<1>6. ASSUME NEW i \in 1..(Len(c) - 1) PROVE c[i + 1] = cname[c[i]]
  <2>1. CASE i < L
    <3>1. i \in 1..L /\ i + 1 \in 1..L /\ i \in 1..(L - 1)
      BY <1>1, <1>2, <2>1
    <3> QED BY <1>2, <3>1 DEF Path, L
  <2>2. CASE i = L
    <3>1. 1 \in 1..k /\ L \in 1..L
      BY <1>1, <1>2, <2>2
    <3>2. c[L + 1] = hops[1] /\ hops[1] = cname[Last(chain)] /\ c[L] = chain[L]
      BY <1>2, <1>4, <3>1, Zenon DEF Follows
    <3> QED BY <2>2, <3>2, Zenon DEF Last, L
  <2>3. CASE i > L
    <3>1. i - L \in 1..k /\ (i - L) + 1 \in 1..k /\ L + (i - L) = i /\ L + ((i - L) + 1) = i + 1
          /\ ((i - L) + 1) - 1 = i - L /\ (i - L) + 1 # 1
      BY <1>1, <1>2, <2>3
    <3>2. c[i] = hops[i - L] /\ c[i + 1] = hops[(i - L) + 1]
      BY <1>2, <3>1
    <3>3. hops[(i - L) + 1] = cname[hops[i - L]]
      BY <1>4, <3>1 DEF Follows
    <3> QED BY <3>2, <3>3
  <2> QED BY <1>1, <1>2, <2>1, <2>2, <2>3
<1>7. ASSUME NEW j \in 1..k
      PROVE  /\ \A i \in 1..L : chain[i] # hops[j]
             /\ \A i \in 1..(j - 1) : hops[i] # hops[j]
  BY <1>1 DEF Seen, Range
<1>8. ASSUME NEW i \in 1..(L + k), NEW j \in 1..(L + k), i < j PROVE c[i] # c[j]
  <2>1. CASE j \in 1..L
    <3>1. i \in 1..L /\ i # j
      BY <1>1, <1>8, <2>1
    <3>2. c[i] = chain[i] /\ c[j] = chain[j]
      BY <1>2, <2>1, <3>1, Zenon
    <3>3. chain[i] # chain[j]
      BY <1>1, <2>1, <3>1, Zenon DEF Path
    <3> QED BY <3>2, <3>3
  <2>2. CASE j - L \in 1..k /\ L + (j - L) = j
    <3>1. c[j] = hops[j - L]
      BY <1>2, <2>2
    <3>2. CASE i \in 1..L
      BY <1>2, <1>7, <2>2, <3>1, <3>2
    <3>3. CASE i - L \in 1..k /\ L + (i - L) = i
      <4>1. i - L \in 1..((j - L) - 1)
        BY <1>1, <1>8, <2>2, <3>3
      <4>2. c[i] = hops[i - L]
        BY <1>2, <3>3
      <4> QED BY <1>7, <2>2, <3>1, <4>1, <4>2
    <3> QED BY <1>3, <3>2, <3>3
  <2> QED BY <1>3, <2>1, <2>2
<1>9. ASSUME NEW i \in DOMAIN c, NEW j \in DOMAIN c, c[i] = c[j] PROVE i = j
  <2>1. i \in 1..(L + k) /\ j \in 1..(L + k) /\ i \in Int /\ j \in Int
    BY <1>2
  <2>2. ~(i < j) /\ ~(j < i)
    BY <1>8, <1>9, <2>1
  <2> QED BY <2>1, <2>2
<1>10. Path(c, Original)
  BY <1>2, <1>5, <1>6, <1>9 DEF Path
<1>11. Last(c) = IF k = 0 THEN Last(chain) ELSE hops[k]
  <2>1. CASE k = 0
    <3>1. L + k = L /\ L \in 1..L
      BY <1>1, <2>1
    <3> QED BY <1>2, <2>1, <3>1 DEF Last, L
  <2>2. CASE k # 0
    <3>1. k \in 1..k
      BY <1>1, <2>2
    <3> QED BY <1>2, <2>2, <3>1 DEF Last
  <2> QED BY <2>1, <2>2
<1> QED BY <1>10, <1>11 DEF c

\* The first hop that ends the walk.
LEMMA FirstStopIs ==
    ASSUME NEW hops \in Seq(Names), \E k \in DOMAIN hops : Stops(hops, k)
    PROVE  /\ FirstStop(hops) \in 1..Len(hops) /\ Stops(hops, FirstStop(hops))
           /\ \A j \in 1..(FirstStop(hops) - 1) : ~Stops(hops, j)
<1> DEFINE S == {k \in DOMAIN hops : Stops(hops, k)}
<1>1. S \in SUBSET Nat /\ S # {} /\ DOMAIN hops = 1..Len(hops) /\ Len(hops) \in Nat
  OBVIOUS
<1>2. PICK k \in S : \A j \in S : k <= j
  <2> HIDE DEF S
  <2> QED BY <1>1, NatWellOrdered
<1>3. ASSUME NEW j \in 1..(k - 1) PROVE ~Stops(hops, j)
  <2>1. j \in DOMAIN hops /\ ~(k <= j)
    BY <1>1
  <2> QED BY <1>2, <2>1
<1>4. k \in DOMAIN hops /\ Stops(hops, k) /\ \A j \in 1..(k - 1) : ~Stops(hops, j)
  BY <1>3
<1>5. /\ FirstStop(hops) \in DOMAIN hops /\ Stops(hops, FirstStop(hops))
      /\ \A j \in 1..(FirstStop(hops) - 1) : ~Stops(hops, j)
  BY <1>4, Zenon DEF FirstStop
<1> QED BY <1>1, <1>5

\* What the response at hand gives: hops along the DNS, none only at its end.
LEMMA HopsFollow ==
    ASSUME IInv, status = "Walk"
    PROVE  LET w == walk_answers(current, Last(chain))
           IN  /\ w.hops \in Seq(Names) /\ Follows(w.hops, Last(chain)) /\ Last(chain) \in Names
               /\ w.terminated => /\ cname[IF w.hops = <<>> THEN Last(chain) ELSE Last(w.hops)] = Address
               /\ w.hops = <<>> => w.error \/ cname[Last(chain)] \notin Names
<1> DEFINE w == walk_answers(current, Last(chain))
<1>1. Dns /\ Last(chain) \in Names /\ Sound(current, Last(chain))
  <2>1. Path(chain, Original)
    BY DEF IInv
  <2>2. Len(chain) \in 1..Len(chain) /\ \A k \in 1..Len(chain) : chain[k] \in Names
    BY <2>1, PathNames
  <2> QED BY <2>2 DEF IInv, Last
<1>2. Walked(w, Last(chain)) /\ (w.hops = <<>> => w.error \/ cname[Last(chain)] \notin Names)
  BY <1>1, WalkFollows, Zenon
<1> HIDE DEF w
<1>3. w.hops \in Seq(Names)
  BY <1>2 DEF Walked, WalkState
<1>4. /\ Follows(w.hops, Last(chain))
      /\ w.terminated => cname[IF w.hops = <<>> THEN Last(chain) ELSE Last(w.hops)] = Address
  BY <1>2, Zenon DEF Walked
<1> QED BY <1>1, <1>2, <1>3, <1>4, Zenon DEF w

\* How a walk may end or pause.
LEMMA Conclude ==
    ASSUME IInv, UNCHANGED config, Path(chain', Original), Len(chain') <= max_depth,
           \A k \in DOMAIN chain' : chain'[k] \in blocklist_ => status' = "Blocked" /\ k = Len(chain'),
           status' # "Walk",
           status' = "Blocked" => Last(chain') \in blocklist_,
           status' = "Clean" => cname[Last(chain')] \notin Names,
           abort_reason' = "loop" => status' = "Aborted" /\ cname[Last(chain')] \in Range(chain'),
           abort_reason' = "depth" => status' = "Aborted" /\ Len(chain') = max_depth
    PROVE  IInv'
<1>1. cname' = cname /\ blocklist_' = blocklist_ /\ max_depth' = max_depth
  BY DEF config
<1>2. Path(chain, Original)'
  BY <1>1, Zenon DEF Path
<1>3. Dns' /\ blocklist_' \in SUBSET (Names \ {Original}) /\ max_depth' \in Nat \ {0}
  BY <1>1 DEF IInv, Dns
<1>4. Last(chain)' = Last(chain') /\ Range(chain)' = Range(chain')
  BY DEF Last, Range
<1> QED BY <1>1, <1>2, <1>3, <1>4, Zenon DEF IInv

\* The chain with hops that do not stop the walk.
LEMMA JoinedFree ==
    ASSUME IInv, status = "Walk", NEW hops \in Seq(Names), Follows(hops, Last(chain)),
           NEW k \in 0..Len(hops), \A j \in 1..k : ~Stops(hops, j)
    PROVE  /\ Path(Joined(hops, k), Original) /\ Len(Joined(hops, k)) = Len(chain) + k
           /\ Len(chain) + k <= max_depth
           /\ Last(Joined(hops, k)) = IF k = 0 THEN Last(chain) ELSE hops[k]
           /\ \A i \in DOMAIN Joined(hops, k) : Joined(hops, k)[i] \notin blocklist_
<1>1. /\ Path(chain, Original) /\ chain \in Seq(Names) /\ Len(chain) \in Nat /\ k \in Nat
      /\ DOMAIN chain = 1..Len(chain) /\ max_depth \in Nat /\ Len(chain) <= max_depth
  BY PathNames DEF IInv, Path
<1>2. \A j \in 1..k : ~Seen(hops, j) /\ ~AtLimit(Len(chain) + j - 1) /\ hops[j] \notin blocklist_
  BY DEF Stops
<1>3. /\ Path(Joined(hops, k), Original)
      /\ Last(Joined(hops, k)) = IF k = 0 THEN Last(chain) ELSE hops[k]
  BY <1>1, <1>2, JoinedPath
<1>4. /\ Len(Joined(hops, k)) = Len(chain) + k /\ DOMAIN Joined(hops, k) = 1..(Len(chain) + k)
      /\ \A i \in 1..Len(chain) : Joined(hops, k)[i] = chain[i]
      /\ \A i \in 1..k : Joined(hops, k)[Len(chain) + i] = hops[i]
  BY <1>1, JoinedIs
<1>5. Len(chain) + k <= max_depth
  <2>1. CASE k = 0
    BY <1>1, <2>1
  <2>2. CASE k # 0
    <3>1. k \in 1..k
      BY <1>1, <2>2
    <3>2. ~(Len(chain) + k - 1 >= max_depth)
      BY <1>2, <3>1 DEF AtLimit
    <3> QED BY <1>1, <3>2
  <2> QED BY <2>1, <2>2
<1>6. ASSUME NEW i \in 1..(Len(chain) + k) PROVE Joined(hops, k)[i] \notin blocklist_
  <2>1. CASE i \in 1..Len(chain)
    BY <1>1, <1>4, <2>1, Zenon DEF IInv
  <2>2. CASE i \notin 1..Len(chain)
    <3>1. i - Len(chain) \in 1..k /\ Len(chain) + (i - Len(chain)) = i
      BY <1>1, <2>2
    <3> QED BY <1>2, <1>4, <3>1, Zenon
  <2> QED BY <2>1, <2>2, Zenon
<1> QED BY <1>3, <1>4, <1>5, <1>6, Zenon

\* The hop after the first k follows the last name of the chain.
LEMMA NextHop ==
    ASSUME NEW hops \in Seq(Names), Follows(hops, Last(chain)), NEW k \in 1..Len(hops),
           NEW c, Last(c) = IF k - 1 = 0 THEN Last(chain) ELSE hops[k - 1]
    PROVE  cname[Last(c)] = hops[k]
<1>1. k - 1 = 0 <=> k = 1
  OBVIOUS
<1> QED BY <1>1 DEF Follows

\* A hop that was seen before is a name of the chain that joined so far.
LEMMA SeenIsJoined ==
    ASSUME chain \in Seq(Names), NEW hops \in Seq(Names), NEW k \in 1..Len(hops), Seen(hops, k)
    PROVE  hops[k] \in Range(Joined(hops, k - 1))
<1> DEFINE c == Joined(hops, k - 1)
<1>1. k - 1 \in 0..Len(hops) /\ Len(chain) \in Nat /\ DOMAIN chain = 1..Len(chain)
  OBVIOUS
<1>2. /\ DOMAIN c = 1..(Len(chain) + (k - 1))
      /\ \A i \in 1..Len(chain) : c[i] = chain[i]
      /\ \A i \in 1..(k - 1) : c[Len(chain) + i] = hops[i]
  BY <1>1, JoinedIs
<1> HIDE DEF c
<1>3. CASE hops[k] \in Range(chain)
  <2>1. PICK i \in 1..Len(chain) : chain[i] = hops[k]
    BY <1>1, <1>3 DEF Range
  <2>2. i \in DOMAIN c /\ c[i] = hops[k]
    BY <1>1, <1>2, <2>1
  <2> QED BY <2>2, Zenon DEF Range, c
<1>4. CASE \E i \in 1..(k - 1) : hops[k] = hops[i]
  <2>1. PICK i \in 1..(k - 1) : hops[k] = hops[i]
    BY <1>4
  <2>2. Len(chain) + i \in DOMAIN c /\ c[Len(chain) + i] = hops[k]
    BY <1>1, <1>2, <2>1
  <2> QED BY <2>2, Zenon DEF Range, c
<1> QED BY <1>3, <1>4, Zenon DEF Seen

\* A turn of uncloak's loop, whichever of its checks ends it.
LEMMA WalkKeeps == IInv /\ Walk => IInv'
<1> SUFFICES ASSUME IInv, Walk PROVE IInv'
  BY Zenon
<1> DEFINE w == walk_answers(current, Last(chain))
           hops == w.hops
<1>1. /\ hops \in Seq(Names) /\ Follows(hops, Last(chain))
      /\ w.terminated => cname[IF hops = <<>> THEN Last(chain) ELSE Last(hops)] = Address
      /\ hops = <<>> => w.error \/ cname[Last(chain)] \notin Names
  BY HopsFollow, Zenon DEF Walk
<1>2. /\ status = "Walk" /\ UNCHANGED config
      /\ IF w.error THEN Abort("malformed") /\ UNCHANGED <<chain, crossed_to>>
         ELSE IF \E k \in DOMAIN hops : Stops(hops, k) THEN HopStops(hops) ELSE AllJoined(w)
  BY Zenon DEF Walk
<1> HIDE DEF w
<1>3. /\ Path(chain, Original) /\ chain \in Seq(Names) /\ Len(chain) \in Nat
      /\ DOMAIN chain = 1..Len(chain) /\ max_depth \in Nat /\ Len(chain) <= max_depth
      /\ \A k \in DOMAIN chain : chain[k] \notin blocklist_
      /\ abort_reason \notin {"loop", "depth"}
  BY <1>2, PathNames DEF IInv, Path
<1>4. CASE w.error
  <2>1. chain' = chain /\ status' = "Aborted" /\ abort_reason' = "malformed"
    BY <1>2, <1>4 DEF Abort
  <2> QED BY <1>2, <1>3, <2>1, Conclude, Zenon
<1>5. CASE ~w.error /\ \E k \in DOMAIN hops : Stops(hops, k)
  <2> DEFINE k == FirstStop(hops)
  <2>1. /\ k \in 1..Len(hops) /\ Stops(hops, k) /\ \A j \in 1..(k - 1) : ~Stops(hops, j)
        /\ k - 1 \in 0..Len(hops) /\ Len(hops) \in Nat
    <3> HIDE DEF hops
    <3>1. k \in 1..Len(hops) /\ Stops(hops, k) /\ \A j \in 1..(k - 1) : ~Stops(hops, j)
      BY <1>1, <1>5, FirstStopIs
    <3> QED BY <1>1, <3>1
  <2>2. HopStops(hops)
    BY <1>2, <1>5
  <2>3. \/ /\ Seen(hops, k) /\ Abort("loop") /\ Join(hops, k - 1)
        \/ /\ AtLimit(Len(chain) + k - 1) /\ Abort("depth") /\ Join(hops, k - 1)
        \/ /\ ~Seen(hops, k) /\ ~AtLimit(Len(chain) + k - 1) /\ hops[k] \in blocklist_
           /\ Verdict("Blocked") /\ Join(hops, k)
    BY <2>1, <2>2, Zenon DEF HopStops, Stops
  <2> HIDE DEF k, hops
  <2> DEFINE c == Joined(hops, k - 1)
  <2>4. /\ Path(c, Original) /\ Len(c) = Len(chain) + (k - 1) /\ Len(chain) + (k - 1) <= max_depth
        /\ Last(c) = (IF k - 1 = 0 THEN Last(chain) ELSE hops[k - 1])
        /\ \A i \in DOMAIN c : c[i] \notin blocklist_
    BY <1>1, <1>2, <2>1, JoinedFree
  <2>5. CASE Seen(hops, k) /\ Abort("loop") /\ Join(hops, k - 1)
    <3>1. chain' = c /\ status' = "Aborted" /\ abort_reason' = "loop"
      BY <2>5, Zenon DEF Join, Abort, Joined
    <3>2. cname[Last(c)] \in Range(c)
      <4>1. cname[Last(c)] = hops[k]
        BY <1>1, <2>1, <2>4, NextHop
      <4>2. hops[k] \in Range(c)
        BY <1>1, <1>3, <2>1, <2>5, SeenIsJoined
      <4> QED BY <4>1, <4>2, Zenon
    <3>3. Len(c) <= max_depth
      BY <2>4
    <3> HIDE DEF c
    <3> QED BY <1>2, <2>4, <3>1, <3>2, <3>3, Conclude
  <2>6. CASE AtLimit(Len(chain) + k - 1) /\ Abort("depth") /\ Join(hops, k - 1)
    <3>1. chain' = c /\ status' = "Aborted" /\ abort_reason' = "depth"
      BY <2>6, Zenon DEF Join, Abort, Joined
    <3>2. Len(c) = max_depth
      BY <1>3, <2>1, <2>4, <2>6 DEF AtLimit
    <3>3. Len(c) <= max_depth
      BY <2>4
    <3> HIDE DEF c
    <3> QED BY <1>2, <2>4, <3>1, <3>2, <3>3, Conclude
  <2>7. CASE /\ ~Seen(hops, k) /\ ~AtLimit(Len(chain) + k - 1) /\ hops[k] \in blocklist_
             /\ Verdict("Blocked") /\ Join(hops, k)
    <3> DEFINE d == Joined(hops, k)
    <3>1. chain' = d /\ status' = "Blocked" /\ abort_reason' = abort_reason
      BY <2>7, Zenon DEF Join, Verdict, Joined
    <3>2. \A j \in 1..k : ~Seen(hops, j)
      BY <2>1, <2>7 DEF Stops
    <3>3. k \in 0..Len(hops) /\ k # 0
      BY <2>1
    <3>4. Path(d, Original) /\ Last(d) = hops[k]
      BY <1>1, <1>3, <3>2, <3>3, JoinedPath
    <3>5. /\ Len(d) = Len(chain) + k /\ DOMAIN d = 1..(Len(chain) + k)
          /\ \A i \in 1..Len(chain) : d[i] = chain[i]
          /\ \A i \in 1..k : d[Len(chain) + i] = hops[i]
      BY <1>1, <1>3, <3>3, JoinedIs
    <3> HIDE DEF c, d
    <3>6. Len(d) <= max_depth
      <4>1. PICK n \in Nat, j \in Nat, depth \in Nat : n = Len(chain) /\ j = k /\ depth = max_depth
        <5>1. \A i \in 1..Len(hops) : i \in Nat
          OBVIOUS
        <5> QED BY <1>3, <2>1, <5>1, Zenon
      <4>2. ~(n + j - 1 >= depth)
        BY <2>7, <4>1, Zenon DEF AtLimit
      <4>3. n + j <= depth
        BY <4>2
      <4> QED BY <3>5, <4>1, <4>3, Zenon
    <3>7. ASSUME NEW i \in DOMAIN d, d[i] \in blocklist_ PROVE i = Len(d)
      <4>1. CASE i \in 1..Len(chain)
        BY <1>3, <3>5, <3>7, <4>1
      <4>2. CASE i \notin 1..Len(chain)
        <5>1. /\ i - Len(chain) \in 1..k /\ Len(chain) + (i - Len(chain)) = i
              /\ (i # Len(d) => i - Len(chain) \in 1..(k - 1))
          BY <1>3, <2>1, <3>5, <4>2
        <5> QED BY <2>1, <3>5, <3>7, <5>1, Zenon DEF Stops
      <4> QED BY <4>1, <4>2
    <3> QED BY <1>2, <1>3, <2>7, <3>1, <3>4, <3>6, <3>7, Conclude
  <2> QED BY <2>3, <2>5, <2>6, <2>7
<1>6. CASE ~w.error /\ ~(\E k \in DOMAIN hops : Stops(hops, k))
  <2>1. AllJoined(w)
    BY <1>2, <1>6, Zenon
  <2> DEFINE k == Len(hops)
             c == Joined(hops, k)
  <2>2. k \in Nat /\ k \in 0..k /\ (k = 0 <=> hops = <<>>) /\ Len(chain) + k \in Nat
    <3>1. k \in Nat /\ (k = 0 <=> hops = <<>>)
      BY <1>1
    <3>2. Len(chain) \in Nat
      BY <1>3
    <3> HIDE DEF k
    <3> QED BY <3>1, <3>2
  <2>3. /\ Path(c, Original) /\ Len(c) = Len(chain) + k /\ Len(chain) + k <= max_depth
        /\ Last(c) = (IF k = 0 THEN Last(chain) ELSE hops[k])
        /\ \A i \in DOMAIN c : c[i] \notin blocklist_
    <3> HIDE DEF c
    <3>1. \A j \in 1..k : ~Stops(hops, j)
      <4>1. DOMAIN hops = 1..k
        BY <1>1
      <4> QED BY <1>6, <4>1, Zenon
    <3> HIDE DEF hops
    <3> QED BY <1>1, <1>2, <2>2, <3>1, JoinedFree DEF c
  <2>4. Last(c) = IF hops = <<>> THEN Last(chain) ELSE Last(hops)
    <3> HIDE DEF c
    <3> QED BY <2>2, <2>3 DEF Last
  <2>5. /\ chain' = c
        /\ \/ Ended(w) /\ Verdict("Clean")
           \/ AtLimit(Len(chain) + k) /\ Abort("depth")
           \/ Verdict("Requery") \/ Abort("cannot encode")
    BY <2>1, Zenon DEF AllJoined, Join, Joined
  <2> HIDE DEF c, k, hops
  <2>6. Len(c) <= max_depth
    BY <2>3
  <2>7. CASE Ended(w) /\ Verdict("Clean")
    <3>1. status' = "Clean" /\ abort_reason' = abort_reason
      BY <2>7 DEF Verdict
    <3>2. cname[Last(c)] \notin Names
      <4>1. CASE w.terminated
        BY <1>1, <2>4, <4>1, UncloakerAssumption, Zenon
      <4>2. CASE hops = <<>>
        BY <1>1, <1>6, <2>4, <4>2
      <4> QED BY <2>7, <4>1, <4>2 DEF Ended, hops
    <3> QED BY <1>2, <1>3, <2>3, <2>5, <2>6, <3>1, <3>2, Conclude, Zenon
  <2>8. CASE AtLimit(Len(chain) + k) /\ Abort("depth")
    <3>1. status' = "Aborted" /\ abort_reason' = "depth"
      BY <2>8 DEF Abort
    <3>2. Len(c) = max_depth
      BY <1>3, <2>2, <2>3, <2>8 DEF AtLimit
    <3> QED BY <1>2, <2>3, <2>5, <2>6, <3>1, <3>2, Conclude, Zenon
  <2>9. CASE Verdict("Requery")
    <3>1. status' = "Requery" /\ abort_reason' = abort_reason
      BY <2>9 DEF Verdict
    <3> QED BY <1>2, <1>3, <2>3, <2>5, <2>6, <3>1, Conclude, Zenon
  <2>10. CASE Abort("cannot encode")
    <3>1. status' = "Aborted" /\ abort_reason' = "cannot encode"
      BY <2>10, Zenon DEF Abort
    <3> QED BY <1>2, <2>3, <2>5, <2>6, <3>1, Conclude, Zenon
  <2> QED BY <2>5, <2>7, <2>8, <2>9, <2>10, Zenon
<1> QED BY <1>4, <1>5, <1>6

\* Every other step: the response does not parse, upstream answers or fails.
LEMMA StepKeeps == IInv /\ [Next]_vars => IInv'
<1> SUFFICES ASSUME IInv, [Next]_vars PROVE IInv'
  OBVIOUS
<1>1. CASE Walk
  BY <1>1, WalkKeeps, Zenon
<1>2. CASE ParseFails \/ RequeryFails
  <2>1. /\ UNCHANGED config /\ chain' = chain /\ status' = "Aborted"
        /\ abort_reason' \notin {"loop", "depth"} /\ status # "Blocked"
    BY <1>2, Zenon DEF ParseFails, RequeryFails, Abort
  <2> QED BY <2>1, Conclude, Zenon DEF IInv
<1>3. CASE Requery
  <2>1. /\ UNCHANGED config /\ chain' = chain /\ status' = "Walk" /\ status = "Requery"
        /\ abort_reason' = abort_reason /\ current' \in Responses(Last(chain))
    BY <1>3 DEF Requery
  <2>2. cname' = cname /\ blocklist_' = blocklist_ /\ max_depth' = max_depth
    BY <2>1, Zenon DEF config
  <2>3. Dns /\ Last(chain) \in Names
    <3>1. Len(chain) \in 1..Len(chain) /\ \A k \in 1..Len(chain) : chain[k] \in Names
      BY PathNames DEF IInv
    <3> QED BY <3>1 DEF IInv, Last
  <2>4. Sound(current', Last(chain))
    BY <2>1, <2>3, ResponsesSound
  <2>5. Last(chain)' = Last(chain) /\ Range(chain)' = Range(chain) /\ Dns'
    BY <2>1, <2>2, <2>3, Zenon DEF Dns, Last, Range
  <2>6. Sound(current, Last(chain))'
    BY <2>2, <2>4, <2>5, Zenon DEF Sound
  <2>7. Path(chain, Original)'
    BY <2>1, <2>2, Zenon DEF IInv, Path
  <2> QED BY <2>1, <2>2, <2>5, <2>6, <2>7, Zenon DEF IInv
<1>4. CASE UNCHANGED vars
  <2>1. /\ cname' = cname /\ blocklist_' = blocklist_ /\ max_depth' = max_depth
        /\ current' = current /\ chain' = chain /\ status' = status /\ abort_reason' = abort_reason
    BY <1>4, Zenon DEF vars, config
  <2>2. Dns' /\ Path(chain, Original)' /\ Range(chain)' = Range(chain)
    <3>1. Dns'
      BY <2>1, Zenon DEF IInv, Dns
    <3>2. Path(chain, Original)'
      BY <2>1, Zenon DEF IInv, Path
    <3>3. Range(chain)' = Range(chain)
      BY <2>1, Zenon DEF Range
    <3> QED BY <3>1, <3>2, <3>3
  <2>3. Last(chain)' = Last(chain)
    BY <2>1, Zenon DEF Last
  <2>4. status = "Walk" => Sound(current, Last(chain))'
    BY <2>1, <2>3, Zenon DEF IInv, Sound
  <2> QED BY <2>1, <2>2, <2>3, <2>4, Zenon DEF IInv
<1> QED BY <1>1, <1>2, <1>3, <1>4 DEF Next

\* uncloak starts with the original name and upstream's response for it.
LEMMA InitHolds == Init => IInv
<1> SUFFICES ASSUME Init PROVE IInv
  OBVIOUS
<1>1. /\ Dns /\ blocklist_ \in SUBSET (Names \ {Original}) /\ max_depth \in 1..MaxDepth
      /\ current \in Responses(Original) /\ chain = <<Original>> /\ status = "Walk"
      /\ abort_reason = ""
  BY Zenon DEF Init, Dns
<1>2. Original \in Names /\ Original \notin blocklist_
  BY <1>1, UncloakerAssumption, Zenon
<1>3. Sound(current, Original)
  BY <1>1, <1>2, ResponsesSound, Zenon
<1>4. Path(chain, Original) /\ Len(chain) = 1
  BY <1>1, <1>2, OnePath, Zenon
<1>5. max_depth \in Nat \ {0} /\ Len(chain) <= max_depth
  <2>1. MaxDepth \in Nat /\ max_depth \in 1..MaxDepth /\ Len(chain) = 1
    BY <1>1, <1>4, UncloakerAssumption, Zenon
  <2> QED BY <2>1
<1>6. Last(chain) = Original
  BY <1>1 DEF Last
<1>7. \A k \in DOMAIN chain : chain[k] \notin blocklist_
  <2>1. chain = <<Original>> /\ Original \notin blocklist_
    BY <1>1, <1>2
  <2> QED BY <2>1
<1> QED BY <1>1, <1>3, <1>4, <1>5, <1>6, <1>7, Zenon DEF IInv

\* IInv holds in every state of every walk.
LEMMA Invariance == Spec => []IInv
  BY InitHolds, StepKeeps, PTL DEF Spec

\* The chain is the beginning of the true one.
LEMMA ChainBegins ==
    ASSUME IInv
    PROVE  LET c == TrueChain(Original)
           IN  /\ Path(c, Original) /\ c \in Seq(Names) /\ chain \in Seq(Names)
               /\ Len(c) \in Nat \ {0} /\ Len(chain) \in Nat \ {0} /\ Len(chain) <= Len(c)
               /\ DOMAIN c = 1..Len(c) /\ DOMAIN chain = 1..Len(chain)
               /\ \A k \in 1..Len(chain) : c[k] = chain[k]
<1> DEFINE c == TrueChain(Original)
<1>1. Dns /\ Original \in Names /\ Path(chain, Original)
  BY UncloakerAssumption, Zenon DEF IInv
<1>2. Path(c, Original) /\ Len(chain) <= Len(c) /\ \A k \in 1..Len(chain) : c[k] = chain[k]
  BY <1>1, TrueChainIsPath, PathIsPrefix
<1> HIDE DEF c
<1>3. /\ Len(c) \in Nat \ {0} /\ Len(chain) \in Nat \ {0}
      /\ DOMAIN c = 1..Len(c) /\ DOMAIN chain = 1..Len(chain)
  BY <1>1, <1>2, PathNames
<1>4. c \in Seq(Names) /\ chain \in Seq(Names)
  BY <1>1, <1>2 DEF Path
<1> QED BY <1>2, <1>3, <1>4, Zenon DEF c

\* The chain of a walk that ended clean or in a loop is the true one.
LEMMA ChainIsWhole ==
    ASSUME IInv, Over(chain)
    PROVE  chain = TrueChain(Original)
<1>1. Dns /\ Original \in Names /\ Path(chain, Original)
  BY UncloakerAssumption, Zenon DEF IInv
<1> QED BY <1>1, OverIsChain

\* uncloak's chain is a simple path of the DNS within max_depth, for all names,
\* all ways to cut and order the responses, and every limit.
THEOREM ChainFollowsDns == Spec => []ChainIsPath
<1>1. IInv => ChainIsPath
  <2> SUFFICES ASSUME IInv PROVE ChainIsPath
    OBVIOUS
  <2> DEFINE c == TrueChain(Original)
  <2>1. /\ c \in Seq(Names) /\ chain \in Seq(Names) /\ Len(c) \in Nat \ {0} /\ Len(chain) \in Nat \ {0}
        /\ Len(chain) <= Len(c) /\ \A k \in 1..Len(chain) : c[k] = chain[k]
    BY ChainBegins
  <2>2. Len(chain) <= max_depth
    BY DEF IInv
  <2> HIDE DEF c
  <2>3. chain = SubSeq(c, 1, Len(chain))
    <3> DEFINE t == SubSeq(c, 1, Len(chain))
    <3>1. t \in Seq(Names) /\ Len(t) = Len(chain) /\ \A k \in 1..Len(chain) : t[k] = c[k]
      BY <2>1
    <3> HIDE DEF t
    <3>2. chain = t
      BY <2>1, <3>1
    <3> QED BY <3>2 DEF t
  <2> QED BY <2>1, <2>2, <2>3, Zenon DEF ChainIsPath, c
<1> QED BY <1>1, Invariance, PTL

\* No name of the chain blocked: the true chain has none that early.
LEMMA BlockedIsBeyond ==
    ASSUME IInv, status # "Blocked", NEW k \in FirstBlocked
    PROVE  k > Len(chain)
<1>1. /\ k \in DOMAIN TrueChain(Original) /\ TrueChain(Original)[k] \in blocklist_
  BY DEF FirstBlocked
<1> DEFINE c == TrueChain(Original)
<1>2. /\ Len(c) \in Nat /\ Len(chain) \in Nat /\ DOMAIN c = 1..Len(c) /\ DOMAIN chain = 1..Len(chain)
      /\ \A i \in 1..Len(chain) : c[i] = chain[i]
  BY ChainBegins
<1>3. k \in 1..Len(c) /\ c[k] \in blocklist_
  BY <1>1, <1>2
<1> HIDE DEF c
<1>4. ASSUME k \in 1..Len(chain) PROVE FALSE
  BY <1>2, <1>3, <1>4, Zenon DEF IInv
<1>5. k \in 1..Len(c) /\ k \notin 1..Len(chain) /\ Len(c) \in Nat /\ Len(chain) \in Nat
  BY <1>2, <1>3, <1>4, Zenon
<1> QED BY <1>5

\* The verdict of a walk is about the chain in the DNS, whatever upstream cut
\* off, put in another order or left out.
THEOREM VerdictIsAboutDns == Spec => []VerdictMatchesDns
<1>1. IInv => VerdictMatchesDns
  <2> SUFFICES ASSUME IInv PROVE VerdictMatchesDns
    OBVIOUS
  <2> DEFINE c == TrueChain(Original)
  <2>1. /\ c \in Seq(Names) /\ Len(c) \in Nat \ {0} /\ Len(chain) \in Nat \ {0} /\ Len(chain) <= Len(c)
        /\ DOMAIN c = 1..Len(c) /\ DOMAIN chain = 1..Len(chain)
        /\ \A k \in 1..Len(chain) : c[k] = chain[k]
    BY ChainBegins
  <2>2. ASSUME status = "Blocked" PROVE FirstBlocked = {Len(chain)}
    <3> HIDE DEF c
    <3>1. Len(chain) \in 1..Len(chain) /\ Len(chain) \in 1..Len(c)
      BY <2>1
    <3>2. c[Len(chain)] \in blocklist_
      BY <2>1, <2>2, <3>1 DEF IInv, Last
    <3>3. \A j \in 1..(Len(chain) - 1) : c[j] \notin blocklist_
      <4>1. ASSUME NEW j \in 1..(Len(chain) - 1) PROVE c[j] \notin blocklist_
        <5>1. j \in 1..Len(chain) /\ j # Len(chain)
          <6>1. Len(chain) \in Nat
            BY <2>1
          <6> QED BY <6>1
        <5>2. chain[j] \notin blocklist_
          BY <2>1, <5>1, Zenon DEF IInv
        <5> QED BY <2>1, <5>1, <5>2, Zenon
      <4> QED BY <4>1
    <3>4. Len(chain) \in FirstBlocked
      <4>1. Len(chain) \in DOMAIN c
        BY <2>1, <3>1, Zenon
      <4> QED BY <3>2, <3>3, <4>1, Zenon DEF FirstBlocked, c
    <3>5. ASSUME NEW k \in FirstBlocked PROVE k = Len(chain)
      <4>1. k \in 1..Len(c) /\ c[k] \in blocklist_ /\ \A j \in 1..(k - 1) : c[j] \notin blocklist_
        BY <2>1, Zenon DEF FirstBlocked, c
      <4>2. ~(k < Len(chain))
        <5>1. k < Len(chain) => k \in 1..(Len(chain) - 1)
          BY <2>1, <4>1
        <5> QED BY <3>3, <4>1, <5>1
      <4>3. ~(Len(chain) < k)
        <5>1. Len(chain) < k => Len(chain) \in 1..(k - 1)
          BY <2>1, <4>1
        <5> QED BY <3>2, <4>1, <5>1
      <4>4. k \in Nat /\ Len(chain) \in Nat
        BY <2>1, <4>1
      <4> QED BY <4>2, <4>3, <4>4
    <3> QED BY <3>4, <3>5
  <2>3. ASSUME status # "Blocked", Over(chain) PROVE FirstBlocked = {} /\ chain = c
    <3>1. chain = c
      BY <2>3, ChainIsWhole
    <3>2. ASSUME NEW k \in FirstBlocked PROVE FALSE
      <4>1. k \in 1..Len(c)
        BY <2>1, Zenon DEF FirstBlocked
      <4>2. k > Len(chain)
        BY <2>3, BlockedIsBeyond
      <4> HIDE DEF c
      <4> QED BY <2>1, <3>1, <4>1, <4>2
    <3> QED BY <3>1, <3>2
  <2>4. ASSUME status = "Clean" PROVE FirstBlocked = {} /\ ~Loops /\ chain = TrueChain(Original)
    <3>1. cname[Last(chain)] \notin Names
      BY <2>4 DEF IInv
    <3>2. FirstBlocked = {} /\ chain = c
      BY <2>3, <2>4, <3>1 DEF Over
    <3> QED BY <3>1, <3>2 DEF Loops
  <2>5. ASSUME abort_reason = "loop" PROVE Loops /\ FirstBlocked = {}
    <3>1. status = "Aborted" /\ cname[Last(chain)] \in Range(chain)
      BY <2>5 DEF IInv
    <3>2. FirstBlocked = {} /\ chain = c
      BY <2>3, <3>1 DEF Over
    <3>3. cname[Last(chain)] \in Names
      <4>1. Range(chain) \subseteq Names
        BY ChainBegins DEF Range
      <4> QED BY <3>1, <4>1
    <3> QED BY <3>2, <3>3 DEF Loops
  <2>6. ASSUME abort_reason = "depth"
        PROVE  Len(chain) = max_depth /\ \A k \in FirstBlocked : k > max_depth
    <3>1. status = "Aborted" /\ Len(chain) = max_depth
      BY <2>6 DEF IInv
    <3>2. ASSUME NEW k \in FirstBlocked PROVE k > Len(chain)
      BY <3>1, BlockedIsBeyond
    <3> QED BY <3>1, <3>2
  <2> QED BY <2>2, <2>4, <2>5, <2>6, Zenon DEF VerdictMatchesDns
<1> QED BY <1>1, Invariance, PTL

\* A re-query is for a name that has just joined the chain.
THEOREM RequeriesAdvance == Spec => RequeryAdvances
<1>1. IInv /\ [Next]_vars => [(status = "Walk" /\ status' = "Requery") => Len(chain') > Len(chain)]_vars
  <2> SUFFICES ASSUME IInv, Next, status = "Walk", status' = "Requery"
               PROVE  Len(chain') > Len(chain)
    BY Zenon
  <2> DEFINE w == walk_answers(current, Last(chain))
             hops == w.hops
  <2>1. Walk
    BY DEF Next, ParseFails, Requery, RequeryFails, Abort
  <2>2. hops \in Seq(Names) /\ chain \in Seq(Names)
    BY HopsFollow, ChainBegins
  <2>3. AllJoined(w)
    <3> HIDE DEF w
    <3>1. /\ IF w.error THEN Abort("malformed") /\ UNCHANGED <<chain, crossed_to>>
             ELSE IF \E k \in DOMAIN hops : Stops(hops, k) THEN HopStops(hops) ELSE AllJoined(w)
      BY <2>1, Zenon DEF Walk, w
    <3>2. ~Abort("malformed") /\ ~HopStops(hops)
      BY Zenon DEF Abort, Verdict, HopStops
    <3> QED BY <3>1, <3>2, Zenon
  <2> HIDE DEF w
  <2>4. ~Ended(w) /\ chain' = Joined(hops, Len(hops))
    <3>1. Join(hops, Len(hops)) /\ ~Ended(w)
      BY <2>3, Zenon DEF AllJoined, Verdict
    <3> QED BY <3>1 DEF Join, Joined
  <2>5. hops # <<>>
    BY <2>4 DEF Ended
  <2> HIDE DEF hops
  <2>6. Len(hops) \in Nat \ {0} /\ Len(hops) \in 0..Len(hops) /\ Len(chain) \in Nat
    BY <2>2, <2>5
  <2>7. Len(chain') = Len(chain) + Len(hops)
    BY <2>2, <2>4, <2>6, JoinedIs
  <2> QED BY <2>6, <2>7
<1> QED BY <1>1, Invariance, PTL DEF Spec, RequeryAdvances
-----------------------------------------------------------------------------
(* The registrable domain, and the first crossing.                         *)

Host == {name \in Seq(STRING) : "" \notin Range(name)}

\* The last n labels.
LEMMA LastLabelsIs ==
    ASSUME NEW S, NEW name \in Seq(S), NEW n \in 1..Len(name)
    PROVE  /\ LastLabels(name, n) \in Seq(S) /\ Len(LastLabels(name, n)) = n
           /\ \A k \in 1..n : LastLabels(name, n)[k] = name[(Len(name) - n) + k]
<1> DEFINE from == (Len(name) - n) + 1
<1>1. Len(name) \in Nat /\ n \in Nat /\ from \in 1..Len(name)
  OBVIOUS
<1>2. LastLabels(name, n) = SubSeq(name, from, Len(name))
  <2>1. CASE Len(name) > n
    <3>1. Len(name) - n + 1 = from
      BY <1>1
    <3> QED BY <2>1, <3>1 DEF LastLabels
  <2>2. CASE ~(Len(name) > n)
    <3>1. from = 1
      BY <1>1, <2>2
    <3> QED BY <2>2, <3>1 DEF LastLabels
  <2> QED BY <2>1, <2>2
<1>3. \A k \in 1..n : from + k - 1 = (Len(name) - n) + k
  BY <1>1
<1>4. (Len(name) - from) + 1 = n
  BY <1>1
<1> HIDE DEF from
<1>5. /\ SubSeq(name, from, Len(name)) \in Seq(S)
      /\ Len(SubSeq(name, from, Len(name))) = (Len(name) - from) + 1
      /\ \A k \in 1..((Len(name) - from) + 1) : SubSeq(name, from, Len(name))[k] = name[from + k - 1]
  BY <1>1
<1> QED BY <1>2, <1>3, <1>4, <1>5, Zenon

\* All of a name.
LEMMA AllLabels ==
    ASSUME NEW S, NEW name \in Seq(S)
    PROVE  /\ SubSeq(name, 1, Len(name)) = name
           /\ \A n \in Nat : n >= Len(name) => LastLabels(name, n) = name
<1>1. SubSeq(name, 1, Len(name)) = name
  OBVIOUS
<1>2. ASSUME NEW n \in Nat, n >= Len(name) PROVE LastLabels(name, n) = name
  <2>1. ~(Len(name) > n)
    BY <1>2
  <2> QED BY <1>1, <2>1 DEF LastLabels
<1> QED BY <1>1, <1>2

\* How many labels of a name the suffix takes: two when the last two are
\* listed and are not all of the name.
LEMMA SuffixLengthIs ==
    ASSUME NEW host \in Seq(STRING)
    PROVE  SuffixLength(host) =
             IF Len(host) > 2 /\ LastLabels(host, 2) \in kMultiLabelSuffixes THEN 2 ELSE 1
<1> DEFINE listed == {s \in kMultiLabelSuffixes : ends_with_dot_suffix(host, s)}
           found == {Len(s) : s \in listed}
<1>1. SuffixLength(host) = IF found = {} THEN 1 ELSE CHOOSE n \in found : \A k \in found : k <= n
  BY Zenon DEF SuffixLength
<1>2. \A s \in kMultiLabelSuffixes : s \in Seq(STRING) /\ Len(s) = 2
  BY EtldAssumption
<1>3. ASSUME NEW s \in kMultiLabelSuffixes
      PROVE  s \in listed <=> Len(host) > 2 /\ s = LastLabels(host, 2)
  BY <1>2, Zenon DEF ends_with_dot_suffix
<1>4. CASE Len(host) > 2 /\ LastLabels(host, 2) \in kMultiLabelSuffixes
  <2>1. LastLabels(host, 2) \in listed
    BY <1>3, <1>4, Zenon
  <2>2. \A s \in listed : Len(s) = 2
    BY <1>2
  <2> HIDE DEF listed
  <2>3. found = {2}
    BY <2>1, <2>2, Zenon
  <2> HIDE DEF found
  <2>4. SuffixLength(host) \in found
    <3>1. 2 <= 2
      OBVIOUS
    <3>2. \E n \in found : \A k \in found : k <= n
      BY <2>3, <3>1, Zenon
    <3>3. found # {}
      BY <2>3
    <3> QED BY <1>1, <3>2, <3>3, Zenon
  <2> QED BY <1>4, <2>3, <2>4
<1>5. CASE ~(Len(host) > 2 /\ LastLabels(host, 2) \in kMultiLabelSuffixes)
  <2>1. listed = {}
    BY <1>3, <1>5, Zenon
  <2> HIDE DEF listed
  <2>2. found = {}
    BY <2>1
  <2> QED BY <1>1, <1>5, <2>2, Zenon
<1> QED BY <1>4, <1>5

\* etld_plus_one gives the registrable domain.
LEMMA EtldIsSite == ASSUME NEW name \in Host PROVE etld_plus_one(name) = Site(name)
<1> DEFINE L == Len(name)
           T == LastLabels(name, 2)
           labels == {i \in 1..L : name[i] # ""}
           sold == {n \in DOMAIN name : Sold(LastLabels(name, n))}
<1>0. name \in Seq(STRING) /\ "" \notin Range(name)
  BY Zenon DEF Host
<1>1. L \in Nat /\ DOMAIN name = 1..L /\ name \in Seq(STRING)
  <2>1. ASSUME NEW S, NEW t \in Seq(S) PROVE Len(t) \in Nat /\ DOMAIN t = 1..Len(t)
    OBVIOUS
  <2> QED BY <1>0, <2>1, Zenon
<1> HIDE DEF L, T, labels, sold
<1>2. etld_plus_one(name) = LastLabels(name, SuffixLength(name) + 1)
  <2> DEFINE places == {0} \cup {k \in 1..Len(name) : name[k] # ""}
             size == Max(places)
  <2>1. places = {0} \cup labels
    BY Zenon DEF labels, L
  <2>2. labels = 1..L
    BY <1>0, <1>1, Zenon DEF labels, Range
  <2> HIDE DEF places
  <2>3. size = L
    <3>1. L \in places /\ \A x \in places : x \in Nat /\ L >= x
      BY <1>1, <2>1, <2>2
    <3>2. size \in places /\ \A x \in places : size >= x
      BY <3>1, Zenon DEF Max
    <3> HIDE DEF size
    <3> QED BY <1>1, <3>1, <3>2
  <2> HIDE DEF size
  <2>4. etld_plus_one(name) = LastLabels(SubSeq(name, 1, size), SuffixLength(SubSeq(name, 1, size)) + 1)
    BY Zenon DEF etld_plus_one, size, places
  <2> QED BY <1>1, <2>3, <2>4, AllLabels, Zenon DEF L
<1>3. Site(name) = IF sold = {} THEN name
                   ELSE LastLabels(name, CHOOSE n \in sold : \A k \in sold : n <= k)
  BY Zenon DEF Site, sold
<1>4. ASSUME NEW n \in 1..L
      PROVE  n \in sold <=> n > 1 /\ LastLabels(name, n) \notin kMultiLabelSuffixes
  <2>1. Len(LastLabels(name, n)) = n
    BY <1>1, LastLabelsIs, Zenon DEF L
  <2> QED BY <1>1, <2>1, Zenon DEF Sold, sold
<1>5. sold \subseteq 1..L
  BY <1>1, Zenon DEF sold
<1>6. ASSUME NEW x \in sold, \A k \in sold : x <= k PROVE Site(name) = LastLabels(name, x)
  <2> DEFINE y == CHOOSE n \in sold : \A k \in sold : n <= k
  <2>1. y \in sold /\ \A k \in sold : y <= k
    BY <1>6, Zenon
  <2>2. x \in Nat /\ y \in Nat
    <3> HIDE DEF y
    <3> QED BY <1>1, <1>5, <2>1
  <2>3. x <= y /\ y <= x
    BY <1>6, <2>1, Zenon
  <2>4. x = y
    <3> HIDE DEF y
    <3> QED BY <2>2, <2>3
  <2> QED BY <1>3, <1>6, <2>4, Zenon
<1>7. SuffixLength(name) = IF L > 2 /\ T \in kMultiLabelSuffixes THEN 2 ELSE 1
  BY <1>1, SuffixLengthIs, Zenon DEF L, T
<1>8. \A n \in Nat : n >= L => LastLabels(name, n) = name
  BY <1>1, AllLabels, Zenon DEF L
<1>9. 1 + 1 = 2 /\ 2 + 1 = 3
  OBVIOUS
<1>10. CASE L <= 2
  <2>1. ~(L > 2) /\ 2 \in Nat /\ 2 >= L
    BY <1>1, <1>10
  <2>2. etld_plus_one(name) = name
    BY <1>2, <1>7, <1>8, <1>9, <2>1, Zenon
  <2>3. CASE sold = {}
    BY <1>3, <2>2, <2>3, Zenon
  <2>4. CASE sold # {}
    <3>1. PICK n \in sold : n \in 1..L /\ n > 1
      BY <1>4, <1>5, <2>4
    <3>2. \A k \in sold : k \in 1..L /\ k > 1
      BY <1>4, <1>5
    <3>3. \A k \in sold : n <= k
      BY <1>1, <1>10, <3>1, <3>2
    <3>4. n \in Nat /\ n >= L
      BY <1>1, <1>10, <3>1
    <3>5. Site(name) = LastLabels(name, n)
      BY <1>6, <3>3, Zenon
    <3> QED BY <1>8, <2>2, <3>4, <3>5, Zenon
  <2> QED BY <2>3, <2>4
<1>11. ASSUME L > 2 PROVE 1 \in 1..L /\ 2 \in 1..L /\ 3 \in 1..L
  BY <1>1, <1>11
<1>12. CASE L > 2 /\ T \in kMultiLabelSuffixes
  <2>1. etld_plus_one(name) = LastLabels(name, 3)
    BY <1>2, <1>7, <1>9, <1>12, Zenon
  <2>2. LastLabels(name, 3) \notin kMultiLabelSuffixes
    <3>1. Len(LastLabels(name, 3)) = 3
      BY <1>1, <1>11, <1>12, LastLabelsIs, Zenon DEF L
    <3>2. 3 # 2
      OBVIOUS
    <3> QED BY <3>1, <3>2, EtldAssumption, Zenon
  <2>3. 3 > 1 /\ ~(1 > 1)
    OBVIOUS
  <2>4. 3 \in sold /\ 2 \notin sold /\ 1 \notin sold
    BY <1>4, <1>11, <1>12, <2>2, <2>3, Zenon DEF T
  <2>5. \A k \in sold : 3 <= k
    BY <1>1, <1>5, <2>4
  <2> QED BY <1>6, <2>1, <2>4, <2>5, Zenon
<1>13. CASE L > 2 /\ T \notin kMultiLabelSuffixes
  <2>1. etld_plus_one(name) = LastLabels(name, 2)
    BY <1>2, <1>7, <1>9, <1>13, Zenon
  <2>2. 2 > 1 /\ ~(1 > 1)
    OBVIOUS
  <2>3. 2 \in sold /\ 1 \notin sold
    BY <1>4, <1>11, <1>13, <2>2, Zenon DEF T
  <2>4. \A k \in sold : 2 <= k
    BY <1>1, <1>5, <2>3
  <2> QED BY <1>6, <2>1, <2>3, <2>4, Zenon
<1> QED BY <1>1, <1>10, <1>12, <1>13

\* The places in c of names outside the original's site.
Away(c) == {i \in 1..Len(c) : Site(c[i]) \notin {<<>>, Site(Original)}}

\* What FirstCrossingReported says of a chain c.
Report(c) ==
    IF Site(Original) = <<>> \/ Away(c) = {} THEN <<>> ELSE Site(c[Min(Away(c))])

\* The first place away.
LEMMA MinAway ==
    ASSUME NEW c \in Seq(Names), Away(c) # {}
    PROVE  /\ Min(Away(c)) \in 1..Len(c) /\ Site(c[Min(Away(c))]) \notin {<<>>, Site(Original)}
           /\ Min(Away(c)) # 0 /\ \A i \in Away(c) : Min(Away(c)) <= i
<1>1. Away(c) \in SUBSET Nat
  <2>1. 1..Len(c) \subseteq Nat
    OBVIOUS
  <2> QED BY <2>1, Zenon DEF Away
<1>2. Min(Away(c)) \in Away(c) /\ \A i \in Away(c) : Min(Away(c)) <= i
  BY <1>1, MinIsLeast
<1>3. Min(Away(c)) \in 1..Len(c) /\ Site(c[Min(Away(c))]) \notin {<<>>, Site(Original)}
  BY <1>2, Zenon DEF Away
<1>4. 0 \notin 1..Len(c)
  OBVIOUS
<1> QED BY <1>2, <1>3, <1>4, Zenon

\* The first of a set of places, by what it is.
LEMMA FirstAway ==
    ASSUME NEW c \in Seq(Names), NEW i \in Away(c), \A j \in 1..(i - 1) : j \notin Away(c)
    PROVE  Min(Away(c)) = i
<1>1. i \in 1..Len(c) /\ Min(Away(c)) \in 1..Len(c) /\ Min(Away(c)) <= i /\ Min(Away(c)) \in Away(c)
  <2>1. Away(c) # {} /\ i \in 1..Len(c)
    BY Zenon DEF Away
  <2>2. /\ Min(Away(c)) \in 1..Len(c) /\ Min(Away(c)) <= i
        /\ Site(c[Min(Away(c))]) \notin {<<>>, Site(Original)}
    BY <2>1, MinAway, Zenon
  <2> QED BY <2>1, <2>2, Zenon DEF Away
<1>2. Min(Away(c)) \notin 1..(i - 1)
  BY <1>1, Zenon
<1>3. Len(c) \in Nat
  OBVIOUS
<1>4. i \in 1..Len(c) /\ Min(Away(c)) \in 1..Len(c) /\ Min(Away(c)) <= i
  BY <1>1, Zenon
<1> HIDE DEF Min
<1> QED BY <1>2, <1>3, <1>4

\* FirstCrossingReported, and what etld_plus_one and CrossedTo find, by Report.
LEMMA CrossingIs ==
    ASSUME chain \in Seq(Names)
    PROVE  FirstCrossingReported <=> crossed_to = Report(chain)
<1>1. First(Away(chain)) = IF Away(chain) = {} THEN 0 ELSE Min(Away(chain))
  BY Zenon DEF First
<1> QED BY <1>1, MinAway, Zenon DEF FirstCrossingReported, Report, Away

\* crossed_to after hops have joined: etld_plus_one agrees with Site on names.
LEMMA CrossedToIs ==
    ASSUME NEW h \in Seq(Names)
    PROVE  CrossedTo(h) = IF CrossedAlready \/ Site(Original) = <<>> \/ Away(h) = {}
                          THEN crossed_to ELSE Site(h[Min(Away(h))])
<1>1. \A n \in Names : etld_plus_one(n) = Site(n)
  BY EtldIsSite, UncloakerAssumption, Zenon DEF Host
<1>2. \A i \in 1..Len(h) : h[i] \in Names
  OBVIOUS
<1>3. etld_plus_one(Original) = Site(Original)
  BY <1>1, UncloakerAssumption, Zenon
<1> DEFINE I == {i \in 1..Len(h) : etld_plus_one(h[i]) \notin {<<>>, etld_plus_one(Original)}}
<1>4. I = Away(h)
  BY <1>1, <1>2, <1>3, Zenon DEF Away
<1>5. First(I) = IF I = {} THEN 0 ELSE Min(I)
  BY Zenon DEF First
<1> DEFINE k == First(I)
<1>6. k = IF Away(h) # {} THEN Min(Away(h)) ELSE 0
  BY <1>4, <1>5, Zenon
<1>7. CrossedTo(h) = IF CrossedAlready \/ etld_plus_one(Original) = <<>> \/ k = 0
                     THEN crossed_to ELSE etld_plus_one(h[k])
  BY Zenon DEF CrossedTo
<1> HIDE DEF I, k
<1>8. CASE Away(h) = {}
  BY <1>3, <1>6, <1>7, <1>8, Zenon
<1>9. CASE Away(h) # {}
  <2>1. k = Min(Away(h)) /\ k # 0 /\ k \in 1..Len(h)
    BY <1>6, <1>9, MinAway, Zenon
  <2>2. etld_plus_one(h[k]) = Site(h[k])
    BY <1>1, <1>2, <2>1, Zenon
  <2> QED BY <1>3, <1>7, <1>9, <2>1, <2>2, Zenon
<1> QED BY <1>8, <1>9

\* Hops that join keep the first crossing, or are the first to cross.
LEMMA ReportJoined ==
    ASSUME NEW c \in Seq(Names), NEW h \in Seq(Names), crossed_to = Report(c)
    PROVE  CrossedTo(h) = Report(c \o h)
<1> DEFINE d == c \o h
<1>1. /\ d \in Seq(Names) /\ Len(c) \in Nat /\ Len(h) \in Nat /\ Len(d) = Len(c) + Len(h)
      /\ \A i \in 1..(Len(c) + Len(h)) : d[i] = IF i <= Len(c) THEN c[i] ELSE h[i - Len(c)]
  OBVIOUS
<1> HIDE DEF d
<1>2. ASSUME NEW i \in 1..Len(c) PROVE i \in 1..Len(d) /\ d[i] = c[i]
  BY <1>1
<1>3. ASSUME NEW i \in 1..Len(h) PROVE Len(c) + i \in 1..Len(d) /\ d[Len(c) + i] = h[i]
  <2>1. Len(c) + i \in 1..(Len(c) + Len(h)) /\ ~(Len(c) + i <= Len(c)) /\ (Len(c) + i) - Len(c) = i
    BY <1>1
  <2> QED BY <1>1, <2>1
<1>4. \A i \in 1..Len(c) : i \in Away(d) <=> i \in Away(c)
  BY <1>2, Zenon DEF Away
<1>5. \A i \in 1..Len(h) : Len(c) + i \in Away(d) <=> i \in Away(h)
  BY <1>3, Zenon DEF Away
<1>6. ASSUME NEW i \in Away(d)
      PROVE  i \in 1..Len(c) \/ \E j \in 1..Len(h) : i = Len(c) + j
  <2>1. i \in 1..Len(d)
    BY Zenon DEF Away
  <2>2. i \in 1..Len(c) \/ (i - Len(c) \in 1..Len(h) /\ i = Len(c) + (i - Len(c)))
    BY <1>1, <2>1
  <2> QED BY <2>2, Zenon
<1>7. CASE Site(Original) = <<>>
  BY <1>7, CrossedToIs, Zenon DEF Report
<1>8. CASE Site(Original) # <<>> /\ Away(c) # {}
  <2> DEFINE i == Min(Away(c))
  <2>1. i \in 1..Len(c) /\ Site(c[i]) \notin {<<>>, Site(Original)} /\ \A j \in Away(c) : i <= j
    BY <1>8, MinAway, Zenon
  <2>2. crossed_to = Site(c[i]) /\ CrossedAlready
    BY <1>8, <2>1, Zenon DEF Report, CrossedAlready
  <2>3. i \in Away(d) /\ d[i] = c[i]
    BY <1>2, <1>4, <2>1, Zenon DEF Away
  <2> HIDE DEF i
  <2>4. ASSUME NEW j \in 1..(i - 1) PROVE j \notin Away(d)
    <3>1. j \in 1..Len(c) /\ ~(i <= j)
      BY <1>1, <2>1
    <3> QED BY <1>4, <2>1, <3>1, Zenon
  <2>5. Min(Away(d)) = i
    BY <1>1, <2>3, <2>4, FirstAway
  <2>6. CrossedTo(h) = crossed_to
    BY <2>2, CrossedToIs, Zenon
  <2> QED BY <1>8, <2>2, <2>3, <2>5, <2>6, Zenon DEF Report, d
<1>9. CASE Site(Original) # <<>> /\ Away(c) = {} /\ Away(h) = {}
  <2>1. Away(d) = {}
    BY <1>4, <1>5, <1>6, <1>9, Zenon
  <2> QED BY <1>9, <2>1, CrossedToIs, Zenon DEF Report, d
<1>10. CASE Site(Original) # <<>> /\ Away(c) = {} /\ Away(h) # {}
  <2> DEFINE k == Min(Away(h))
  <2>1. k \in 1..Len(h) /\ Site(h[k]) \notin {<<>>, Site(Original)} /\ \A j \in Away(h) : k <= j
    BY <1>10, MinAway, Zenon
  <2>2. crossed_to = <<>> /\ ~CrossedAlready
    BY <1>10, Zenon DEF Report, CrossedAlready
  <2>3. CrossedTo(h) = Site(h[k])
    BY <1>10, <2>2, CrossedToIs, Zenon
  <2>4. Len(c) + k \in Away(d) /\ d[Len(c) + k] = h[k]
    BY <1>3, <1>5, <2>1, Zenon DEF Away
  <2> HIDE DEF k
  <2>5. ASSUME NEW j \in 1..((Len(c) + k) - 1) PROVE j \notin Away(d)
    <3>1. CASE j \in 1..Len(c)
      BY <1>4, <1>10, <3>1, Zenon
    <3>2. CASE j \notin 1..Len(c)
      <4>1. j - Len(c) \in 1..Len(h) /\ Len(c) + (j - Len(c)) = j /\ ~(k <= j - Len(c))
        BY <1>1, <2>1, <3>2
      <4>2. j - Len(c) \notin Away(h)
        BY <2>1, <4>1, Zenon
      <4>3. Len(c) + (j - Len(c)) \notin Away(d)
        BY <1>5, <4>1, <4>2, Zenon
      <4> QED BY <4>1, <4>3, Zenon
    <3> QED BY <3>1, <3>2
  <2>6. Min(Away(d)) = Len(c) + k
    BY <1>1, <2>4, <2>5, FirstAway
  <2>7. Away(d) # {}
    BY <2>4, Zenon
  <2> QED BY <1>10, <2>3, <2>4, <2>6, <2>7, Zenon DEF Report, d
<1> QED BY <1>7, <1>8, <1>9, <1>10, Zenon

\* The site reported is the first one that the chain crosses to.
THEOREM CrossingIsFirst == Spec => []FirstCrossingReported
<1>1. ASSUME Init PROVE FirstCrossingReported
  <2>1. chain = <<Original>> /\ crossed_to = <<>> /\ Original \in Names
    BY <1>1, UncloakerAssumption, Zenon DEF Init
  <2>2. chain \in Seq(Names) /\ \A i \in 1..Len(chain) : chain[i] = Original
    <3>1. \A x \in Names : <<x>> \in Seq(Names) /\ \A i \in 1..Len(<<x>>) : <<x>>[i] = x
      OBVIOUS
    <3> QED BY <2>1, <3>1, Zenon
  <2>3. Away(chain) = {}
    BY <2>2, Zenon DEF Away
  <2> QED BY <2>1, <2>2, <2>3, CrossingIs, Zenon DEF Report
<1>2. ASSUME IInv, FirstCrossingReported, [Next]_vars PROVE FirstCrossingReported'
  <2>1. chain \in Seq(Names) /\ crossed_to = Report(chain)
    BY <1>2, ChainBegins, CrossingIs
  <2>0. chain' \in Seq(Names) => (FirstCrossingReported' <=> crossed_to' = Report(chain'))
    <3>1. (chain \in Seq(Names) => (FirstCrossingReported <=> crossed_to = Report(chain)))'
      BY CrossingIs, PTL
    <3> QED BY <3>1
  <2>2. ASSUME UNCHANGED <<chain, crossed_to>> PROVE FirstCrossingReported'
    BY <2>0, <2>1, <2>2, Zenon
  <2>3. ASSUME NEW hops \in Seq(Names), NEW k \in 0..Len(hops), Join(hops, k)
        PROVE  FirstCrossingReported'
    <3> DEFINE h == SubSeq(hops, 1, k)
    <3>1. h \in Seq(Names)
      OBVIOUS
    <3>2. chain' = chain \o h /\ crossed_to' = CrossedTo(h)
      BY <2>3, Zenon DEF Join
    <3> HIDE DEF h
    <3>3. chain' \in Seq(Names) /\ crossed_to' = Report(chain')
      <4>1. chain \o h \in Seq(Names)
        BY <2>1, <3>1
      <4> QED BY <2>1, <3>1, <3>2, <4>1, ReportJoined, Zenon
    <3> QED BY <2>0, <3>3
  <2>4. CASE Walk
    <3> DEFINE w == walk_answers(current, Last(chain))
               hops == w.hops
    <3>1. hops \in Seq(Names)
      BY <1>2, <2>4, HopsFollow, Zenon DEF Walk
    <3>2. \/ UNCHANGED <<chain, crossed_to>>
          \/ (\E k \in DOMAIN hops : Stops(hops, k)) /\ HopStops(hops)
          \/ Join(hops, Len(hops))
      BY <2>4, Zenon DEF Walk, AllJoined
    <3> HIDE DEF w, hops
    <3>3. ASSUME \E k \in DOMAIN hops : Stops(hops, k), HopStops(hops)
          PROVE  \E k \in 0..Len(hops) : Join(hops, k)
      <4> DEFINE k == FirstStop(hops)
      <4>1. k \in 1..Len(hops)
        BY <3>1, <3>3, FirstStopIs
      <4>2. Join(hops, k) \/ Join(hops, k - 1)
        BY <3>3, Zenon DEF HopStops
      <4> HIDE DEF k
      <4>3. k \in 0..Len(hops) /\ k - 1 \in 0..Len(hops)
        BY <3>1, <4>1
      <4> QED BY <4>2, <4>3, Zenon
    <3>4. Len(hops) \in 0..Len(hops)
      BY <3>1
    <3> QED BY <2>2, <2>3, <3>1, <3>2, <3>3, <3>4, Zenon
  <2>5. CASE ParseFails \/ Requery \/ RequeryFails \/ UNCHANGED vars
    <3>1. UNCHANGED <<chain, crossed_to>>
      BY <2>5, Zenon DEF ParseFails, Requery, RequeryFails, vars
    <3> QED BY <2>2, <3>1
  <2> QED BY <1>2, <2>4, <2>5 DEF Next
<1> QED BY <1>1, <1>2, Invariance, PTL DEF Spec
-----------------------------------------------------------------------------
(* Which rule decides.                                                     *)

\* What a blocklist over the labels S can hold: no rule is empty.
HostRules(S) == SUBSET (Seq(S) \ {<<>>})
RuleLists(S) ==
    [exact: HostRules(S), suffix: HostRules(S),
     regex: Seq([size: Nat \ {0}, finds: SUBSET Seq(S)]),
     allow_exact: HostRules(S), allow_suffix: HostRules(S)]

\* find_suffix_match finds the longest rule that the name ends in.
LEMMA LongestSuffix ==
    ASSUME NEW S, NEW set \in HostRules(S), NEW q \in Seq(S)
    PROVE  LET ends == {r \in set : EndsIn(q, r)}
               f    == find_suffix_match(set, q)
           IN  /\ f = <<>> <=> ends = {}
               /\ ends # {} => f \in ends /\ \A r \in ends : Len(r) <= Len(f)
<1> DEFINE ends == {r \in set : EndsIn(q, r)}
           tails == {SubSeq(q, k, Len(q)) : k \in 1..Len(q)} \cap set
<1>1. \A r \in set : r \in Seq(S) /\ r # <<>> /\ Len(r) \in Nat \ {0}
  BY DEF HostRules
<1>2. ASSUME NEW r \in tails PROVE r \in ends
  <2>1. PICK k \in 1..Len(q) : r = SubSeq(q, k, Len(q))
    OBVIOUS
  <2>2. Len(r) = Len(q) - k + 1
    BY <2>1
  <2>3. Len(r) <= Len(q) /\ Len(q) - Len(r) + 1 = k
    BY <2>2
  <2> QED BY <2>1, <2>3, Zenon DEF EndsIn
<1>3. ASSUME NEW r \in ends PROVE r \in tails
  <2>1. Len(r) \in Nat \ {0} /\ Len(r) <= Len(q) /\ r = SubSeq(q, Len(q) - Len(r) + 1, Len(q))
    BY <1>1, Zenon DEF EndsIn
  <2>2. Len(q) - Len(r) + 1 \in 1..Len(q)
    BY <2>1
  <2> QED BY <2>1, <2>2, Zenon
<1>4. tails = ends
  <2> HIDE DEF tails, ends
  <2> QED BY <1>2, <1>3, Zenon
<1>5. ASSUME ends # {} PROVE \E r \in ends : \A t \in ends : Len(r) >= Len(t)
  <2> DEFINE spare == {Len(q) - Len(r) : r \in ends}
  <2>1. \A r \in ends : Len(r) \in Nat /\ Len(r) <= Len(q)
    BY <1>1 DEF EndsIn
  <2> HIDE DEF ends
  <2>2. spare \in SUBSET Nat /\ spare # {}
    BY <2>1, <1>5
  <2>3. PICK x \in spare : \A y \in spare : x <= y
    <3> HIDE DEF spare
    <3> QED BY <2>2, NatWellOrdered
  <2>4. PICK r \in ends : x = Len(q) - Len(r)
    BY <2>3, Zenon
  <2>5. ASSUME NEW t \in ends PROVE Len(r) >= Len(t)
    <3>1. Len(q) - Len(r) <= Len(q) - Len(t)
      BY <2>3, <2>4, Zenon
    <3> QED BY <2>1, <3>1
  <2> QED BY <2>5
<1>6. find_suffix_match(set, q) =
        IF ends = {} THEN <<>> ELSE CHOOSE s \in ends : \A t \in ends : Len(s) >= Len(t)
  <2>1. find_suffix_match(set, q) =
          IF tails = {} THEN <<>> ELSE CHOOSE s \in tails : \A t \in tails : Len(s) >= Len(t)
    BY Zenon DEF find_suffix_match
  <2> HIDE DEF ends, tails
  <2> QED BY <1>4, <2>1
<1>7. CASE ends = {}
  BY <1>6, <1>7, Zenon
<1>8. CASE ends # {}
  <2> DEFINE f == find_suffix_match(set, q)
  <2>1. f \in ends /\ \A t \in ends : Len(f) >= Len(t)
    BY <1>5, <1>6, <1>8, Zenon
  <2>2. f \in set
    BY <2>1
  <2>3. \A r \in ends : Len(r) \in Nat
    BY <1>1
  <2>4. f # <<>> /\ Len(f) \in Nat
    BY <1>1, <2>2
  <2> HIDE DEF f, ends
  <2>5. \A t \in ends : Len(t) <= Len(f)
    BY <2>1, <2>3, <2>4
  <2> QED BY <1>8, <2>1, <2>4, <2>5, Zenon DEF f, ends
<1> QED BY <1>7, <1>8, Zenon

\* The strongest of the rules in exact and in suffix that match the name.
HostMatch(exact, suffix, q) == {r \in exact : r = q} \cup {r \in suffix : EndsIn(q, r)}

Strongest(exact, suffix, q) ==
    LET f == find_suffix_match(suffix, q)
        best == IF q \in exact THEN q ELSE f
        all == HostMatch(exact, suffix, q)
    IN  /\ \A r \in all : Len(r) \in Nat \ {0}
        /\ all = {} => q \notin exact /\ f = <<>>
        /\ all # {} => best \in all /\ best # <<>> /\ \A r \in all : Len(r) <= Len(best)

\* The name itself is the strongest, then the longest suffix.
LEMMA StrongestHostRule ==
    ASSUME NEW S, NEW exact \in HostRules(S), NEW suffix \in HostRules(S),
           NEW q \in Seq(S), q # <<>>
    PROVE  Strongest(exact, suffix, q)
<1> DEFINE f == find_suffix_match(suffix, q)
           ends == {r \in suffix : EndsIn(q, r)}
           best == IF q \in exact THEN q ELSE f
           all == HostMatch(exact, suffix, q)
<1>1. \A r \in exact \cup suffix : r # <<>> /\ Len(r) \in Nat \ {0}
  BY DEF HostRules
<1>2. all = {r \in exact : r = q} \cup ends
  BY Zenon DEF HostMatch
<1>3. /\ f = <<>> <=> ends = {}
      /\ ends # {} => f \in ends /\ \A r \in ends : Len(r) <= Len(f)
  BY LongestSuffix, Zenon
<1>4. \A r \in ends : Len(r) <= Len(q)
  BY DEF EndsIn
<1>5. Len(q) <= Len(q) /\ Len(q) \in Nat
  OBVIOUS
<1>6. \A r \in all : r \in exact \cup suffix
  BY <1>2, Zenon
<1>7. all = {} => q \notin exact /\ f = <<>>
  BY <1>2, <1>3, Zenon
<1>8. CASE q \in exact
  <2>1. best = q /\ q \in all /\ \A r \in all : Len(r) <= Len(best)
    BY <1>2, <1>4, <1>5, <1>8, Zenon
  <2> QED BY <1>1, <1>6, <1>7, <1>8, <2>1, Zenon DEF Strongest
<1>9. CASE q \notin exact
  <2>1. best = f /\ all = ends
    BY <1>2, <1>9, Zenon
  <2> QED BY <1>1, <1>3, <1>6, <1>7, <2>1, Zenon DEF Strongest
<1> QED BY <1>8, <1>9, Zenon DEF Strongest

\* match decides by the most specific rule, for every list and every name.
THEOREM MostSpecificDecides ==
    ASSUME NEW S, NEW list \in RuleLists(S), NEW q \in Seq(S) \ {<<>>}
    PROVE  MostSpecific(list, q)
<1> DEFINE found == {j \in DOMAIN list.regex : q \in list.regex[j].finds}
           first == CHOOSE j \in found : \A k \in found : j <= k
           denies == HostDeny(list, q)
           allows == HostAllow(list, q)
           suffix == find_suffix_match(list.suffix, q)
           d == deny(list, q)
           a == allow_len(list, q)
           hit == match(list, q)
<1>1. /\ list.exact \in HostRules(S) /\ list.suffix \in HostRules(S)
      /\ list.allow_exact \in HostRules(S) /\ list.allow_suffix \in HostRules(S)
      /\ list.regex \in Seq([size: Nat \ {0}, finds: SUBSET Seq(S)])
  BY Zenon DEF RuleLists
<1>2. q \in Seq(S) /\ q # <<>> /\ Len(q) \in Nat /\ Len(<<>>) = 0
  OBVIOUS
<1>3. /\ denies = HostMatch(list.exact, list.suffix, q)
      /\ allows = HostMatch(list.allow_exact, list.allow_suffix, q)
  BY Zenon DEF HostDeny, HostAllow, HostMatch
<1>4. PICK al \in Nat : /\ al = a /\ (al = 0 <=> allows = {})
                        /\ \A r \in allows : Len(r) \in Nat \ {0} /\ Len(r) <= al
                        /\ allows # {} => \E r \in allows : Len(r) = al
  <2> DEFINE fa == find_suffix_match(list.allow_suffix, q)
             best == IF q \in list.allow_exact THEN q ELSE fa
  <2>1. /\ \A r \in allows : Len(r) \in Nat \ {0}
        /\ allows = {} => q \notin list.allow_exact /\ fa = <<>>
        /\ allows # {} => best \in allows /\ \A r \in allows : Len(r) <= Len(best)
    <3>1. Strongest(list.allow_exact, list.allow_suffix, q)
      BY <1>1, <1>2, StrongestHostRule, Zenon
    <3> QED BY <1>3, <3>1, Zenon DEF Strongest
  <2>2. a = Len(best)
    BY Zenon DEF allow_len
  <2> HIDE DEF best, allows, fa
  <2>3. CASE allows = {}
    <3>1. best = <<>>
      BY <2>1, <2>3, Zenon DEF best
    <3>2. a = 0
      BY <1>2, <2>2, <3>1, Zenon
    <3> QED BY <2>3, <3>2
  <2>4. CASE allows # {}
    <3>1. Len(best) \in Nat \ {0} /\ \E r \in allows : Len(r) = Len(best)
      BY <2>1, <2>4, Zenon
    <3>2. Len(best) # 0 /\ Len(best) \in Nat
      BY <3>1
    <3> QED BY <2>1, <2>2, <2>4, <3>1, <3>2, Zenon
  <2> QED BY <2>3, <2>4
<1> DEFINE best == IF q \in list.exact THEN q ELSE suffix
<1>5. /\ \A r \in denies : Len(r) \in Nat \ {0}
      /\ denies = {} => q \notin list.exact /\ suffix = <<>>
      /\ denies # {} => best \in denies /\ best # <<>> /\ \A r \in denies : Len(r) <= Len(best)
  <2>1. Strongest(list.exact, list.suffix, q)
    BY <1>1, <1>2, StrongestHostRule, Zenon
  <2> QED BY <1>3, <2>1, Zenon DEF Strongest
<1>6. d = IF q \in list.exact
          THEN [rule |-> q, kind |-> "Exact", len |-> Len(q)]
          ELSE IF suffix # <<>>
          THEN [rule |-> suffix, kind |-> "Suffix", len |-> Len(suffix)]
          ELSE IF found # {}
          THEN [rule |-> list.regex[first], kind |-> "Regex", len |-> list.regex[first].size]
          ELSE [rule |-> <<>>, kind |-> "None", len |-> 0]
  BY Zenon DEF deny
<1>7. hit = IF d.len = 0 \/ (al > 0 /\ al >= d.len) THEN NoMatch
            ELSE [blocked |-> TRUE, rule |-> d.rule, kind |-> d.kind]
  BY <1>2, <1>4, Zenon DEF match, AllowWins
<1>8. MostSpecific(list, q) <=>
        /\ hit.blocked <=>
             \/ \E x \in denies : \A r \in allows : Len(x) > Len(r)
             \/ /\ denies = {}
                /\ \E j \in found : /\ \A k \in found : j <= k
                                    /\ \A r \in allows : list.regex[j].size > Len(r)
        /\ (hit.blocked /\ hit.kind # "Regex") =>
             /\ hit.rule \in denies
             /\ \A x \in denies : Len(x) <= Len(hit.rule)
             /\ hit.kind = "Exact" <=> q \in list.exact
  BY Zenon DEF MostSpecific
\* A length outweighs the allow rules when it outweighs each of them.
<1>9. ASSUME NEW n \in Nat \ {0}
      PROVE  ~(n = 0 \/ (al > 0 /\ al >= n)) <=> \A r \in allows : n > Len(r)
  <2> HIDE DEF allows
  <2>1. CASE allows = {}
    BY <1>4, <2>1
  <2>2. CASE allows # {}
    BY <1>4, <2>2
  <2> QED BY <2>1, <2>2
<1>10. ASSUME NEW n \in Nat \ {0}, NEW rule, NEW kind,
              d = [rule |-> rule, kind |-> kind, len |-> n]
       PROVE  /\ hit.blocked <=> \A r \in allows : n > Len(r)
              /\ hit.blocked => hit.rule = rule /\ hit.kind = kind
  <2> HIDE DEF d, hit, allows
  <2>1. d.len = n /\ d.rule = rule /\ d.kind = kind
    BY <1>10
  <2>2. CASE n = 0 \/ (al > 0 /\ al >= n)
    <3>1. hit.blocked = FALSE
      BY <1>7, <2>1, <2>2, Zenon DEF NoMatch
    <3> QED BY <1>9, <2>2, <3>1, Zenon
  <2>3. CASE ~(n = 0 \/ (al > 0 /\ al >= n))
    <3>1. hit = [blocked |-> TRUE, rule |-> rule, kind |-> kind]
      BY <1>7, <2>1, <2>3, Zenon
    <3>2. hit.blocked = TRUE /\ hit.rule = rule /\ hit.kind = kind
      BY <3>1, Zenon
    <3> QED BY <1>9, <2>3, <3>2, Zenon
  <2> QED BY <2>2, <2>3, Zenon
<1> HIDE DEF d, hit, allows, denies, found, first, suffix, best, a
<1>11. CASE denies # {}
  <2>1. best \in denies /\ best # <<>> /\ Len(best) \in Nat \ {0}
        /\ \A r \in denies : Len(r) <= Len(best) /\ Len(r) \in Nat
    BY <1>5, <1>11, Zenon
  <2>2. PICK kind : /\ d = [rule |-> best, kind |-> kind, len |-> Len(best)]
                    /\ kind = "Exact" <=> q \in list.exact
                    /\ kind # "Regex"
    <3>1. CASE q \in list.exact
      <4>1. best = q
        BY <3>1, Zenon DEF best
      <4> QED BY <1>6, <3>1, <4>1
    <3>2. CASE q \notin list.exact
      <4>1. best = suffix
        BY <3>2, Zenon DEF best
      <4>2. d = [rule |-> best, kind |-> "Suffix", len |-> Len(best)]
        BY <1>6, <2>1, <3>2, <4>1, Zenon
      <4>3. "Suffix" # "Exact" /\ "Suffix" # "Regex"
        OBVIOUS
      <4> QED BY <3>2, <4>2, <4>3, Zenon
    <3> QED BY <3>1, <3>2, Zenon
  <2>3. /\ hit.blocked <=> \A r \in allows : Len(best) > Len(r)
        /\ hit.blocked => hit.rule = best /\ hit.kind = kind
    BY <1>10, <2>1, <2>2, Zenon
  <2>4. (\A r \in allows : Len(best) > Len(r)) <=> \E x \in denies : \A r \in allows : Len(x) > Len(r)
    <3>1. ASSUME NEW x \in denies, NEW r \in allows, Len(x) > Len(r) PROVE Len(best) > Len(r)
      <4>1. Len(x) \in Nat /\ Len(best) \in Nat /\ Len(r) \in Nat /\ Len(x) <= Len(best)
        BY <1>4, <2>1, Zenon
      <4> QED BY <3>1, <4>1
    <3> QED BY <2>1, <3>1, Zenon
  <2> QED BY <1>8, <1>11, <2>1, <2>2, <2>3, <2>4, Zenon
<1>12. CASE denies = {} /\ found # {}
  <2>1. first \in found /\ \A k \in found : first <= k
    <3>1. found \in SUBSET Nat
      BY <1>1 DEF found
    <3>2. \E j \in found : \A k \in found : j <= k
      BY <1>12, <3>1, NatWellOrdered
    <3> QED BY <3>2, Zenon DEF first
  <2>2. ASSUME NEW j \in found PROVE j \in Nat /\ list.regex[j].size \in Nat \ {0}
    <3>1. j \in DOMAIN list.regex
      BY Zenon DEF found
    <3>2. ASSUME NEW T, NEW s \in Seq(T), NEW i \in DOMAIN s PROVE i \in Nat /\ s[i] \in T
      OBVIOUS
    <3>3. j \in Nat /\ list.regex[j] \in [size: Nat \ {0}, finds: SUBSET Seq(S)]
      BY <1>1, <3>1, <3>2, Zenon
    <3> QED BY <3>3, Zenon
  <2>3. d = [rule |-> list.regex[first], kind |-> "Regex", len |-> list.regex[first].size]
    BY <1>5, <1>6, <1>12, Zenon
  <2>4. /\ hit.blocked <=> \A r \in allows : list.regex[first].size > Len(r)
        /\ hit.blocked => hit.kind = "Regex"
    BY <1>10, <2>1, <2>2, <2>3, Zenon
  <2>5. \A j \in found : (\A k \in found : j <= k) => j = first
    BY <2>1, <2>2
  <2> QED BY <1>8, <1>12, <2>1, <2>4, <2>5, Zenon
<1>13. CASE denies = {} /\ found = {}
  <2>1. d = [rule |-> <<>>, kind |-> "None", len |-> 0]
    BY <1>5, <1>6, <1>13, Zenon
  <2>2. hit.blocked = FALSE
    BY <1>7, <2>1, Zenon DEF NoMatch
  <2> QED BY <1>8, <1>13, <2>2, Zenon
<1> QED BY <1>11, <1>12, <1>13, Zenon
-----------------------------------------------------------------------------
(* The inputs MCAlgorithms builds are of the kind the theorems are about.  *)

ListInv == bl \in RuleLists(Labels)

\* Every name a list is asked about has labels.
LEMMA NamesAre == \A n \in QueryNames : n \in Seq(Labels) \ {<<>>}
<1>1. ASSUME NEW k \in 1..MaxLabels, NEW n \in [1..k -> Labels] PROVE n \in Seq(Labels) \ {<<>>}
  <2>1. k \in Nat /\ k # 0
    BY AlgorithmsAssumption
  <2>2. n \in Seq(Labels) /\ Len(n) = k
    BY <2>1
  <2>3. Len(<<>>) = 0
    OBVIOUS
  <2> QED BY <2>1, <2>2, <2>3, Zenon
<1> QED BY <1>1, Zenon DEF QueryNames

\* The loaders and add_exact, add_allow_exact and add_regex keep a list a list.
LEMMA ListKept == ListInv /\ GrowList => ListInv'
<1> SUFFICES ASSUME ListInv, GrowList PROVE ListInv'
  OBVIOUS
<1> DEFINE R == HostRules(Labels)
           P == [size: Nat \ {0}, finds: SUBSET Seq(Labels)]
<1>1. /\ bl.exact \in R /\ bl.suffix \in R /\ bl.regex \in Seq(P)
      /\ bl.allow_exact \in R /\ bl.allow_suffix \in R
      /\ bl \in [exact: R, suffix: R, regex: Seq(P), allow_exact: R, allow_suffix: R]
  BY Zenon DEF ListInv, RuleLists
<1>2. \A s \in R : \A t \in SUBSET QueryNames : s \cup t \in R
  BY NamesAre, Zenon DEF HostRules
<1>3. \A line : load_hosts_into(line, QueryNames) \in SUBSET QueryNames
  BY Zenon DEF load_hosts_into
<1>4. ASSUME NEW l, NEW size \in {1, MaxLabels}
      PROVE  [size |-> size, finds |-> {n \in QueryNames : l \in Range(n)}] \in P
  <2>1. size \in Nat \ {0}
    BY AlgorithmsAssumption
  <2>2. {n \in QueryNames : l \in Range(n)} \in SUBSET Seq(Labels)
    BY NamesAre, Zenon
  <2> QED BY <2>1, <2>2, Zenon
<1> HIDE DEF R, P
<1>5. ListInv' <=> bl' \in [exact: R, suffix: R, regex: Seq(P), allow_exact: R, allow_suffix: R]
  BY Zenon DEF ListInv, RuleLists, R, P
<1>6. ASSUME NEW n \in QueryNames, LoadBlock(n) PROVE ListInv'
  <2>1. PICK s \in R : bl' = [bl EXCEPT !.suffix = s]
    BY <1>1, <1>2, <1>3, <1>6, Zenon DEF LoadBlock, load_hosts_file
  <2> QED BY <1>1, <1>5, <2>1, ZenonT(40)
<1>7. ASSUME NEW n \in QueryNames, LoadAllow(n) PROVE ListInv'
  <2>1. PICK s \in R : bl' = [bl EXCEPT !.allow_suffix = s]
    BY <1>1, <1>2, <1>3, <1>7, Zenon DEF LoadAllow, load_allowlist_file
  <2> QED BY <1>1, <1>5, <2>1, ZenonT(40)
<1>8. ASSUME NEW n \in QueryNames, AddExact(n) PROVE ListInv'
  <2>1. PICK s \in R : bl' = [bl EXCEPT !.exact = s]
    BY <1>1, <1>2, <1>8, Zenon DEF AddExact, add_exact
  <2> QED BY <1>1, <1>5, <2>1, ZenonT(40)
<1>9. ASSUME NEW n \in QueryNames, AddAllowExact(n) PROVE ListInv'
  <2>1. PICK s \in R : bl' = [bl EXCEPT !.allow_exact = s]
    BY <1>1, <1>2, <1>9, Zenon DEF AddAllowExact, add_allow_exact
  <2> QED BY <1>1, <1>5, <2>1, ZenonT(40)
<1>10. ASSUME NEW l \in Labels, NEW size \in {1, MaxLabels}, AddRegex(l, size) PROVE ListInv'
  <2>1. \A s \in Seq(P), p \in P : Append(s, p) \in Seq(P)
    OBVIOUS
  <2>2. PICK s \in Seq(P) : bl' = [bl EXCEPT !.regex = s]
    BY <1>1, <1>4, <1>10, <2>1, Zenon DEF AddRegex, add_regex
  <2> QED BY <1>1, <1>5, <2>2, ZenonT(40)
<1> QED BY <1>6, <1>7, <1>8, <1>9, <1>10, Zenon DEF GrowList

\* ListInv is inductive.
LEMMA ListsKept == ListInv /\ [AlgorithmsNext]_algorithmVars => ListInv'
<1> SUFFICES ASSUME ListInv, [AlgorithmsNext]_algorithmVars PROVE ListInv'
  OBVIOUS
<1>1. CASE UNCHANGED bl
  BY <1>1, Zenon DEF ListInv
<1>2. CASE GrowList
  BY <1>2, ListKept, Zenon
<1> QED BY <1>1, <1>2, Zenon DEF AlgorithmsNext, algorithmVars

\* The empty list is one.
LEMMA FirstList == AlgorithmsInit => ListInv
<1>1. {} \in HostRules(Labels)
  BY Zenon DEF HostRules
<1>2. \A T : <<>> \in Seq(T)
  OBVIOUS
<1>3. EmptyBlocklist \in RuleLists(Labels)
  <2> DEFINE Regexes == Seq([size: Nat \ {0}, finds: SUBSET Seq(Labels)])
  <2>1. <<>> \in Regexes
    BY <1>2, Zenon
  <2> HIDE DEF Regexes
  <2> QED BY <1>1, <2>1, Zenon DEF RuleLists, EmptyBlocklist, Regexes
<1> QED BY <1>3, Zenon DEF ListInv, AlgorithmsInit

\* MCAlgorithms builds such lists only.
LEMMA ListsAlways == AlgorithmsSpec => []ListInv
  BY FirstList, ListsKept, PTL DEF AlgorithmsSpec

\* match lets the most specific rule decide.
THEOREM RulesDecide == AlgorithmsSpec => []MostSpecificWins
<1>1. ListInv => MostSpecificWins
  BY NamesAre, MostSpecificDecides, Zenon DEF ListInv, MostSpecificWins
<1> QED BY <1>1, ListsAlways, PTL
=============================================================================
