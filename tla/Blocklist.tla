----------------------------- MODULE Blocklist ------------------------------
(***************************************************************************)
(* The rule matcher.  A name is its sequence of labels, already lower      *)
(* case.  All rules that match a name by exact or suffix match are tails   *)
(* of that name, so they compare by number of labels as they do by number  *)
(* of characters; a regular expression is the set of names it finds,       *)
(* together with its pattern's length on the same scale.                   *)
(***************************************************************************)
EXTENDS Naturals, Sequences, Functions

NoMatch == [blocked |-> FALSE, rule |-> <<>>, kind |-> "None"]

EmptyBlocklist == [exact |-> {}, suffix |-> {}, regex |-> <<>>,
                   allow_exact |-> {}, allow_suffix |-> {}]

\* The longest label-aligned tail of qname in the set; <<>> if there is none.
find_suffix_match(set, qname) ==
    LET tails == {SubSeq(qname, k, Len(qname)) : k \in 1..Len(qname)} \cap set
    IN  IF tails = {} THEN <<>> ELSE CHOOSE s \in tails : \A t \in tails : Len(s) >= Len(t)

allow_len(bl, qname) ==
    IF qname \in bl.allow_exact THEN Len(qname)
    ELSE Len(find_suffix_match(bl.allow_suffix, qname))

\* The strongest deny rule; regular expressions only if no other rule matched.
deny(bl, qname) ==
    LET suffix == find_suffix_match(bl.suffix, qname)
        found  == {j \in DOMAIN bl.regex : qname \in bl.regex[j].finds}
        first  == CHOOSE j \in found : \A k \in found : j <= k
    IN  IF qname \in bl.exact
        THEN [rule |-> qname, kind |-> "Exact", len |-> Len(qname)]
        ELSE IF suffix # <<>>
        THEN [rule |-> suffix, kind |-> "Suffix", len |-> Len(suffix)]
        ELSE IF found # {}
        THEN [rule |-> bl.regex[first], kind |-> "Regex", len |-> bl.regex[first].size]
        ELSE [rule |-> <<>>, kind |-> "None", len |-> 0]

\* Seeded fault: a deny rule wins a tie.
AllowWinsStrictly(allowLen, denyLen) == allowLen > 0 /\ allowLen > denyLen

AllowWins(allowLen, denyLen) == allowLen > 0 /\ allowLen >= denyLen

match(bl, qname) ==
    LET d == deny(bl, qname)
        a == allow_len(bl, qname)
    IN  IF qname = <<>> \/ d.len = 0 \/ AllowWins(a, d.len) THEN NoMatch
        ELSE [blocked |-> TRUE, rule |-> d.rule, kind |-> d.kind]

allowed(bl, qname) == qname # <<>> /\ allow_len(bl, qname) > 0

-----------------------------------------------------------------------------
\* The names a line of a hosts file contributes: all but its first token (the
\* address), without the ones that are not domain names.
load_hosts_into(line, Valid) ==
    IF line = <<>> THEN {} ELSE {tok \in Range(Tail(line)) : tok \in Valid}

load_hosts_file(bl, line, Valid) ==
    [bl EXCEPT !.suffix = @ \cup load_hosts_into(line, Valid)]

load_allowlist_file(bl, line, Valid) ==
    [bl EXCEPT !.allow_suffix = @ \cup load_hosts_into(line, Valid)]

add_exact(bl, name) == [bl EXCEPT !.exact = @ \cup {name}]
add_allow_exact(bl, name) == [bl EXCEPT !.allow_exact = @ \cup {name}]
add_regex(bl, rx) == [bl EXCEPT !.regex = Append(@, rx)]
=============================================================================
