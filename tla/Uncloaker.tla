----------------------------- MODULE Uncloaker ------------------------------
(***************************************************************************)
(* The CNAME uncloaker: follow the chain of CNAMEs in an upstream          *)
(* response, match every new name against the blocklist, and ask upstream  *)
(* for the rest when the response ends before an address.                  *)
(*                                                                         *)
(* The DNS is a function cname that gives each name its canonical name, or *)
(* Address or NoRecord.  A resolver answers with as many links of the chain *)
(* as it likes, at least one, in any order: a response is the sequence of  *)
(* its answer records [name, type, target], of type "address", "cname" or  *)
(* "other".                                                                *)
(***************************************************************************)
EXTENDS Naturals, FiniteSets, Sequences, FiniteSetsExt, Functions, Etld

CONSTANTS Names,             \* sequences of labels
          Original, Address, NoRecord,
          Malformed,         \* a CNAME target that does not decode
          MaxDepth           \* bound on cfg_.max_depth

ASSUME UncloakerAssumption ==
    /\ Original \in Names /\ IsFiniteSet(Names)
    /\ \A name \in Names : name \in Seq(STRING) /\ "" \notin Range(name)
    /\ MaxDepth \in Nat \ {0}
    /\ {Address, NoRecord, Malformed} \cap Names = {}

VARIABLES
    cname,          \* the DNS
    blocklist_,     \* the names the blocklist matches
    max_depth,      \* cfg_.max_depth
    current,        \* the response being walked
    chain,          \* result.chain; seen holds the same names
    crossed_to,     \* result.crossed_to, <<>> while crossed_etldp1 is false
    status,         \* result.status; "Walk" and "Requery" while uncloak runs
    abort_reason    \* result.abort_reason, "" unless Aborted

config == <<cname, blocklist_, max_depth>>
vars == <<config, current, chain, crossed_to, status, abort_reason>>
-----------------------------------------------------------------------------
Last(s) == s[Len(s)]

\* The first of some places in a sequence, 0 if there is none.
First(places) == IF places = {} THEN 0 ELSE Min(places)

\* The responses upstream may give for a name (external: the DNS).
Link(n) == [name |-> n, type |-> "cname", target |-> cname[n]]
Follow(p) ==
    IF cname[Last(p)] \notin Names \/ cname[Last(p)] \in Range(p)
    THEN p ELSE Append(p, cname[Last(p)])
TrueChain(n) ==
    LET path[k \in 1..Cardinality(Names)] == IF k = 1 THEN <<n>> ELSE Follow(path[k - 1])
    IN  path[Cardinality(Names)]

\* The records of the first j names of the chain.
Links(n, j) ==
    LET c == TrueChain(n)
    IN  [k \in 1..j |-> IF cname[c[k]] \in Names THEN Link(c[k])
                        ELSE [name |-> c[k], target |-> NoRecord,
                              type |-> IF cname[c[k]] = Address THEN "address" ELSE "other"]]

\* A record of some other type may lead, and a target may be damaged.
Damaged(rrs) == {[rrs EXCEPT ![k].target = Malformed] :
                    k \in {i \in DOMAIN rrs : rrs[i].type = "cname"}}
Backwards(rrs) == [k \in 1..Len(rrs) |-> rrs[(Len(rrs) - k) + 1]]
Responses(n) ==
    LET whole == {Links(n, j) : j \in 1..Len(TrueChain(n))}
        other == [name |-> n, type |-> "other", target |-> NoRecord]
    IN  whole \cup {<<other>> \o Backwards(rrs) : rrs \in whole} \cup UNION {Damaged(rrs) : rrs \in whole}
-----------------------------------------------------------------------------
\* Seeded fault: records are taken as they come, whatever name they are of.
DecidingAnyName(answers, name) ==
    First({k \in 1..Len(answers) : answers[k].type \in {"address", "cname"}})

\* The first record of name that decides where the walk goes, 0 for none.
Deciding(answers, name) ==
    First({k \in 1..Len(answers) : /\ answers[k].name = name
                                   /\ answers[k].type \in {"address", "cname"}})

\* A turn of the loop: w is what the walk has found so far.
Turn(answers, w) ==
    LET i == Deciding(answers, w.at)
    IN  IF w.over \/ i = 0 THEN [w EXCEPT !.over = TRUE]
        ELSE IF answers[i].type = "address"
        THEN [w EXCEPT !.over = TRUE, !.terminated = TRUE]
        ELSE IF answers[i].target = Malformed
        THEN [w EXCEPT !.over = TRUE, !.error = TRUE]
        ELSE [w EXCEPT !.hops = Append(@, answers[i].target), !.at = answers[i].target]

\* At most one turn more than there are records.
walk_answers(answers, start) ==
    LET turn[n \in 0..(Len(answers) + 1)] ==
            IF n = 0 THEN [hops |-> <<>>, at |-> start, over |-> FALSE,
                           terminated |-> FALSE, error |-> FALSE]
            ELSE Turn(answers, turn[n - 1])
    IN  turn[Len(answers) + 1]

\* Seeded fault: a name seen before is followed again.
SeenNot(hops, k) == FALSE

Seen(hops, k) == hops[k] \in Range(chain) \cup {hops[j] : j \in 1..(k - 1)}

AtLimit(length) == length >= max_depth

\* The hops before the k-th have joined the chain: does the k-th end the walk?
Stops(hops, k) == Seen(hops, k) \/ AtLimit(Len(chain) + k - 1) \/ hops[k] \in blocklist_
FirstStop(hops) ==
    CHOOSE k \in DOMAIN hops : Stops(hops, k) /\ \A j \in 1..(k - 1) : ~Stops(hops, j)

\* Seeded fault: a later crossing overwrites an earlier one.
CrossedAlreadyNot == FALSE

CrossedAlready == crossed_to # <<>>

\* The first hop that joins from another site than the original name's.
CrossedTo(hops) ==
    LET k == First({i \in 1..Len(hops) :
                       etld_plus_one(hops[i]) \notin {<<>>, etld_plus_one(Original)}})
    IN  IF CrossedAlready \/ etld_plus_one(Original) = <<>> \/ k = 0
        THEN crossed_to ELSE etld_plus_one(hops[k])

Join(hops, k) ==
    /\ chain' = chain \o SubSeq(hops, 1, k)
    /\ crossed_to' = CrossedTo(SubSeq(hops, 1, k))

Verdict(s) == status' = s /\ UNCHANGED abort_reason
Abort(reason) == status' = "Aborted" /\ abort_reason' = reason

HopStops(hops) ==
    LET k == FirstStop(hops)
    IN  IF Seen(hops, k) THEN Abort("loop") /\ Join(hops, k - 1)
        ELSE IF AtLimit(Len(chain) + k - 1) THEN Abort("depth") /\ Join(hops, k - 1)
        ELSE Verdict("Blocked") /\ Join(hops, k)

\* Seeded fault: only an address ends a walk, not the absence of a CNAME.
EndedByAddress(walk) == walk.terminated

Ended(walk) == walk.terminated \/ walk.hops = <<>>

\* All the hops of the response have joined the chain.  build_a_query may not
\* take the last name.
AllJoined(walk) ==
    /\ Join(walk.hops, Len(walk.hops))
    /\ IF Ended(walk) THEN Verdict("Clean")
       ELSE IF AtLimit(Len(chain) + Len(walk.hops)) THEN Abort("depth")
       ELSE Verdict("Requery") \/ Abort("cannot encode")

\* A turn of uncloak's loop up to its co_await; a response or a target that
\* does not parse ends it.
Walk ==
    /\ status = "Walk"
    /\ LET walk == walk_answers(current, Last(chain))
       IN  IF walk.error THEN Abort("malformed") /\ UNCHANGED <<chain, crossed_to>>
           ELSE IF \E k \in DOMAIN walk.hops : Stops(walk.hops, k)
           THEN HopStops(walk.hops) ELSE AllJoined(walk)
    /\ UNCHANGED <<config, current>>

ParseFails ==
    /\ status = "Walk"
    /\ Abort("parse error")
    /\ UNCHANGED <<config, current, chain, crossed_to>>

\* resolver_.forward returns or throws.
Requery ==
    /\ status = "Requery"
    /\ current' \in Responses(Last(chain))
    /\ status' = "Walk"
    /\ UNCHANGED <<config, chain, crossed_to, abort_reason>>

RequeryFails ==
    /\ status = "Requery"
    /\ Abort("re-query failed")
    /\ UNCHANGED <<config, current, chain, crossed_to>>

\* The server has matched the original name already.
Init ==
    /\ cname \in [Names -> Names \cup {Address, NoRecord}]
    /\ blocklist_ \in SUBSET (Names \ {Original})
    /\ max_depth \in 1..MaxDepth
    /\ current \in Responses(Original)
    /\ chain = <<Original>> /\ crossed_to = <<>>
    /\ status = "Walk"
    /\ abort_reason = ""

Next == Walk \/ ParseFails \/ Requery \/ RequeryFails

Spec == Init /\ [][Next]_vars
-----------------------------------------------------------------------------
\* result.chain is a simple path of the DNS from the original name, and never
\* longer than max_depth, whatever the order of the records and wherever the
\* responses were cut: the loop and depth checks of uncloak hold over all the
\* responses of a walk together.
ChainIsPath ==
    /\ Len(chain) <= Len(TrueChain(Original))
    /\ chain = SubSeq(TrueChain(Original), 1, Len(chain))
    /\ Len(chain) <= max_depth

\* The place of the first blocked name on the true chain, if it has one.
FirstBlocked == {k \in DOMAIN TrueChain(Original) :
                    /\ TrueChain(Original)[k] \in blocklist_
                    /\ \A j \in 1..(k - 1) : TrueChain(Original)[j] \notin blocklist_}
Loops == cname[Last(TrueChain(Original))] \in Names

\* The verdict is about the chain in the DNS and not about how upstream cut and
\* ordered it: Blocked names the first blocked hop of the true chain, and Clean
\* means that the true chain has no blocked name at all and does end.  A walk is
\* given up for a loop or for its depth only when the DNS does loop or the chain
\* has used up max_depth, and never when a blocked name lies within max_depth:
\* such a query is blocked, not failed.
VerdictMatchesDns ==
    /\ status = "Blocked" => FirstBlocked = {Len(chain)}
    /\ status = "Clean" => FirstBlocked = {} /\ ~Loops /\ chain = TrueChain(Original)
    /\ abort_reason = "loop" => Loops /\ FirstBlocked = {}
    /\ abort_reason = "depth" => /\ Len(chain) = max_depth
                                 /\ \A k \in FirstBlocked : k > max_depth

\* The registrable domain of a name, as the comment of etld.hpp has it: one label
\* more than the suffix under which names are sold.
Sold(name) == Len(name) > 1 /\ name \notin kMultiLabelSuffixes
Site(name) ==
    LET sold == {n \in DOMAIN name : Sold(LastLabels(name, n))}
    IN  IF sold = {} THEN name ELSE LastLabels(name, CHOOSE n \in sold : \A k \in sold : n <= k)

\* The site reported as crossed to, which makes a clean answer suspicious in the
\* log, is that of the first name of the chain outside the original's site, over
\* all the responses of a walk together: a later crossing does not overwrite it,
\* and a chain that stays within the site, be it below a suffix like co.uk,
\* reports none.  The root, which is of no site, crosses nothing.
FirstCrossingReported ==
    LET away == First({i \in 1..Len(chain) : Site(chain[i]) \notin {<<>>, Site(Original)}})
    IN  crossed_to = IF Site(Original) = <<>> \/ away = 0 THEN <<>> ELSE Site(chain[away])

\* A re-query is always for a name that has just joined the chain, so none is
\* asked twice and, the chain being bounded (ChainIsPath), every walk ends with a
\* verdict, in a DNS that loops or that has neither an address nor a CNAME too.
RequeryAdvances ==
    [][(status = "Walk" /\ status' = "Requery") => Len(chain') > Len(chain)]_vars
=============================================================================
