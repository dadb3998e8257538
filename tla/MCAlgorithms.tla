---------------------------- MODULE MCAlgorithms ----------------------------
(***************************************************************************)
(* The pure algorithms on every small input, against declarative           *)
(* statements of what they compute: CacheTtl on messages that grow one     *)
(* record at a time, section by section as on the wire; Blocklist on lists *)
(* that grow rule by rule; EdnsPadding on queries with and without an OPT  *)
(* record, for every block size from 0 to beyond what fits; Framing on     *)
(* bytes and on HTTP responses, cut anywhere, of every few lines and       *)
(* bytes.  A behaviour builds one input.                                   *)
(***************************************************************************)
EXTENDS CacheTtl, Blocklist, EdnsPadding, Framing, FiniteSets

CONSTANTS Ttls,        \* TTL and SOA MINIMUM values
          MaxRecords,
          Labels, MaxLabels, MaxRules,
          Bytes, MaxBytes, MaxBlock, MaxLines

ASSUME AlgorithmsAssumption ==
    /\ Ttls \subseteq Nat /\ \E longest \in Ttls : \A t \in Ttls : t <= longest
    /\ MaxLabels \in Nat \ {0}
    /\ Bytes \subseteq Nat /\ MaxBytes \in 0..kMaxFrame /\ MaxBlock \in Nat

HeaderSize == 12
FixedPart  == 11       \* root owner name, TYPE, CLASS, TTL, RDLENGTH

VARIABLES m,           \* a parsed message
          bl,          \* a blocklist
          body,        \* bytes
          padding,     \* a query and a block size for pad_query
          response     \* the lines and the content of an HTTP response

wireVars == <<body, padding, response>>
algorithmVars == <<m, bl, wireVars>>

Records == Len(m.answers) + Len(m.authority) + Len(m.additional)

\* A record appended to the message; len is its RDLENGTH.
Record(type, ttl, minimum) ==
    [type |-> type, ttl |-> ttl, minimum |-> minimum, pos |-> m.size + FixedPart]

AddAnswer(ttl, len) ==
    /\ Records < MaxRecords /\ m.authority = <<>> /\ m.additional = <<>>
    /\ m' = [m EXCEPT !.answers = Append(@, Record("A", ttl, NoMinimum)),
                      !.size = @ + FixedPart + len]

AddAuthority(type, ttl, minimum, len) ==
    /\ Records < MaxRecords /\ m.additional = <<>>
    /\ m' = [m EXCEPT !.authority = Append(@, Record(type, ttl, minimum)),
                      !.size = @ + FixedPart + len]

AddAdditional(type, ttl, len) ==
    /\ Records < MaxRecords
    /\ m' = [m EXCEPT !.additional = Append(@, Record(type, ttl, NoMinimum)),
                      !.size = @ + FixedPart + len]

-----------------------------------------------------------------------------
QueryNames == UNION {[1..n -> Labels] : n \in 1..MaxLabels}
NotADomain == <<>>                 \* a token is_valid_domain turns down
HostsAddress == <<"ip">>

Rules == Cardinality(bl.exact) + Cardinality(bl.suffix) + Len(bl.regex)
         + Cardinality(bl.allow_exact) + Cardinality(bl.allow_suffix)

LoadBlock(n) ==
    bl' = load_hosts_file(bl, <<HostsAddress, n, NotADomain>>, QueryNames)
LoadAllow(n) ==
    bl' = load_allowlist_file(bl, <<HostsAddress, n, NotADomain>>, QueryNames)
AddExact(n) == bl' = add_exact(bl, n)
AddAllowExact(n) == bl' = add_allow_exact(bl, n)

\* A pattern that finds every name with the label l in it.
AddRegex(l, size) ==
    bl' = add_regex(bl, [size |-> size, finds |-> {n \in QueryNames : l \in Range(n)}])

-----------------------------------------------------------------------------
NoQuery == [block |-> 0]
RR(type, rdlen) == [type |-> type, rdlen |-> rdlen]
AdditionalSections == {<<>>, <<RR("A", 4)>>, [k \in 1..kU16Max |-> RR("A", 4)]}
            \cup {<<RR("OPT", n)>> : n \in 0..kU16Max}
            \cup {<<RR("A", 4), RR("OPT", n)>> : n \in {0, kU16Max}}
            \cup {<<RR("OPT", 0), RR("A", 4)>>, <<RR("OPT", 0), RR("OPT", 4)>>}
SizeOf(additional, trailing) ==
    LET size[k \in 0..Len(additional)] ==
            IF k = 0 THEN 17 ELSE size[k - 1] + 11 + additional[k].rdlen
    IN  size[Len(additional)] + trailing

NoResponse == [lines |-> <<>>, content |-> <<>>]
StatusLine(spaces, status) == [spaces |-> spaces, status |-> status]
Line(colon, name, number, text) ==
    [colon |-> colon, name |-> name, number |-> number, text |-> text]
StatusLines == {StatusLine(2, 200), StatusLine(2, 404), StatusLine(2, 99), StatusLine(1, 200)}
HeaderLines == {Line(TRUE, "Content-Length", n, "") : n \in {NaN, 0, 2, 3}}
               \cup {Line(TRUE, "content-type", NaN, t) : t \in
                        {"application/dns-message", "Application/DNS-Message"}}
               \cup {Line(FALSE, "", NaN, "")}

WireInit == body = <<>> /\ padding = NoQuery /\ response = NoResponse

GrowBody ==
    /\ padding = NoQuery /\ response = NoResponse /\ Len(body) < MaxBytes
    /\ \E b \in Bytes : body' = Append(body, b)
    /\ UNCHANGED <<padding, response>>

ChooseQuery ==
    /\ padding = NoQuery /\ body = <<>> /\ response = NoResponse
    /\ \E parses \in BOOLEAN, additional \in AdditionalSections, trailing \in {0, 3}, block \in 0..MaxBlock :
         padding' = [query |-> [parses |-> parses, size |-> SizeOf(additional, trailing),
                                additional |-> additional, trailing |-> trailing],
                     block |-> block]
    /\ UNCHANGED <<body, response>>

ChooseResponse ==
    /\ padding = NoQuery /\ body = <<>> /\ response = NoResponse
    /\ \E first \in StatusLines, n \in 0..3 :
         response' = [lines |-> <<first>>, content |-> [k \in 1..n |-> k]]
    /\ UNCHANGED <<body, padding>>
AddLine ==
    /\ response # NoResponse /\ Len(response.lines) < MaxLines
    /\ \E l \in HeaderLines : response' = [response EXCEPT !.lines = Append(@, l)]
    /\ UNCHANGED <<body, padding>>

WireNext == GrowBody \/ ChooseQuery \/ ChooseResponse \/ AddLine
-----------------------------------------------------------------------------
AlgorithmsInit ==
    /\ bl = EmptyBlocklist /\ WireInit
    /\ \E rcode \in {0, kRcodeServFail, kRcodeNxDomain, kRcodeNotImp} :
        m = [rcode |-> rcode, size |-> HeaderSize, answers |-> <<>>,
             authority |-> <<>>, additional |-> <<>>]

GrowMessage ==
    \/ \E ttl \in Ttls, len \in {0, 4} : AddAnswer(ttl, len)
    \/ \E ttl \in Ttls, minimum \in Ttls \cup {NoMinimum} :
         AddAuthority("SOA", ttl, minimum, 22)
    \/ \E ttl \in Ttls : AddAuthority("NS", ttl, NoMinimum, 4)
    \/ \E ttl \in Ttls, len \in {0, 4} : AddAdditional("A", ttl, len)
    \/ AddAdditional("OPT", 0, 0)

GrowList ==
    \/ \E n \in QueryNames : LoadBlock(n) \/ LoadAllow(n) \/ AddExact(n) \/ AddAllowExact(n)
    \/ \E l \in Labels, size \in {1, MaxLabels} : AddRegex(l, size)

NoMessage == m.size = HeaderSize /\ m.rcode = 0
NoWire == body = <<>> /\ padding = NoQuery /\ response = NoResponse

AlgorithmsNext ==
    \/ bl = EmptyBlocklist /\ NoWire /\ GrowMessage /\ UNCHANGED <<bl, wireVars>>
    \/ NoMessage /\ NoWire /\ Rules < MaxRules /\ GrowList /\ UNCHANGED <<m, wireVars>>
    \/ NoMessage /\ bl = EmptyBlocklist /\ WireNext /\ UNCHANGED <<m, bl>>

AlgorithmsSpec == AlgorithmsInit /\ [][AlgorithmsNext]_algorithmVars
-----------------------------------------------------------------------------
\* A response is kept for the longest time every rule allows: no longer than
\* any answer or authority record says and, when it has no answer, no longer
\* than the SOA MINIMUM and a day; a failure is not kept at all.  (The record
\* order, OPT records and unreadable SOAs that compute_cache_ttl steps over
\* make no difference.)
AllowedTtl(msg, t) ==
    /\ msg.rcode \notin {kRcodeServFail, kRcodeNotImp}
    /\ NotOpt(msg.answers) \cup NotOpt(msg.authority) # {}
    /\ \A rr \in NotOpt(msg.answers) \cup NotOpt(msg.authority) : t <= rr.ttl
    /\ (msg.rcode = kRcodeNxDomain \/ msg.answers = <<>>) =>
         /\ t <= Ceiling
         /\ \A i \in DOMAIN msg.authority :
              (/\ msg.authority[i].type = "SOA" /\ msg.authority[i].minimum # NoMinimum
               /\ \A h \in 1..(i-1) : msg.authority[h].type # "SOA")
              => t <= msg.authority[i].minimum
TtlIsLongestAllowed ==
    \A t \in 1..(Max(Ttls) + 1) : t <= compute_cache_ttl(m) <=> AllowedTtl(m, t)

\* Disjoint byte ranges of a message's size in the address space.
Disjoint(a, b, size) ==
    LET d == (b - a) % AddrSpace IN d >= size /\ AddrSpace - d >= size

\* Wherever the parsed buffer and the cached bytes lie, rewrite_ttls writes
\* nowhere but at TTL fields: nothing when the parsed views are of another
\* buffer (the wrapped distances all fail the range check, also the ones near
\* the top of size_t where off + 4 wraps), all of them when they are of the
\* cached bytes themselves.
OnlyTtlFields(msg, parsedAt, base) ==
    LET written == WrittenOffsets(msg.size, collect_ttl_offsets(base, parsedAt, msg))
    IN  /\ Disjoint(parsedAt, base, msg.size) => written = {}
        /\ parsedAt = base => written = {TtlField(rr) : rr \in AllRecords(msg)}
RewriteOnlyTtlFields == AllRecords(m) # {} =>
    \A parsedAt \in {0, AddrSpace - m.size}, base \in 0..(AddrSpace - m.size) :
        OnlyTtlFields(m, parsedAt, base)

\* features/05: "positive TTL = min over the answer RRs".
PositiveTtlIsAnswerMin ==
    (m.rcode = 0 /\ m.answers # <<>>)
        => compute_cache_ttl(m) = Min({rr.ttl : rr \in NotOpt(m.answers)})
EndsIn(q, r) == Len(r) <= Len(q) /\ SubSeq(q, Len(q) - Len(r) + 1, Len(q)) = r
HostDeny(list, q) ==
    {r \in list.exact : r = q} \cup {r \in list.suffix : EndsIn(q, r)}
HostAllow(list, q) ==
    {r \in list.allow_exact : r = q} \cup {r \in list.allow_suffix : EndsIn(q, r)}

\* A name is blocked exactly when some matching deny rule is longer than every
\* matching allow rule; the first regular expression counts, with the length of
\* its pattern, when no host rule matches.  The rule reported is the longest
\* host rule, and Exact is preferred to Suffix.
MostSpecific(list, q) ==
    LET found == {j \in DOMAIN list.regex : q \in list.regex[j].finds}
        hit == match(list, q)
    IN  /\ hit.blocked <=>
             \/ \E d \in HostDeny(list, q) : \A r \in HostAllow(list, q) : Len(d) > Len(r)
             \/ /\ HostDeny(list, q) = {}
                /\ \E j \in found : /\ \A k \in found : j <= k
                                    /\ \A r \in HostAllow(list, q) : list.regex[j].size > Len(r)
        /\ (hit.blocked /\ hit.kind # "Regex") =>
             /\ hit.rule \in HostDeny(list, q)
             /\ \A d \in HostDeny(list, q) : Len(d) <= Len(hit.rule)
             /\ hit.kind = "Exact" <=> q \in list.exact
MostSpecificWins == \A q \in QueryNames : MostSpecific(bl, q)

\* blocklist.hpp: "a hit on any of these wins over a block rule and the query
\* is forwarded as if the blocklist had no entry".
AllowHitForwards == \A q \in QueryNames : allowed(bl, q) => ~match(bl, q).blocked

\* pad_query does what EdnsPadding says of it for every query and block.
PaddedIsWellFormed == padding # NoQuery => WellPadded(padding.query, padding.block)

\* A DNS message comes off a TLS stream as it was put on it.  A frame is read
\* back whatever follows it, and not before its last byte is there.  The message
\* in an HTTP response is the content up to the length its first Content-Length
\* states, or nothing, wherever the network cut the stream into reads.
RepliesAreWhole ==
    LET lines == response.lines
        content == response.content
        reads == {k \in 0..Len(content) : Len(lines) + k <= kHeadBuffer}
        lengths == {k \in 2..Len(lines) : lines[k].name = "Content-Length"}
        stated == lines[Min(lengths)].number
        types == {k \in 2..Len(lines) : lines[k].name = "content-type"}
        good == /\ lines[1] = StatusLine(2, 200) /\ lengths # {}
                /\ \A k \in 2..Len(lines) : lines[k].colon
                /\ types # {} => lines[Min(types)].text = "application/dns-message"
        frame == dot_frame(body).value
    IN  /\ response # NoResponse => \A k \in reads :
              DohReply(lines, content, k) =
                IF ~good THEN Nothing
                ELSE IF stated \notin 0..Min({Len(content), kMaxBody}) THEN Nothing
                ELSE Some(SubSeq(content, 1, stated))
        /\ body # <<>> =>
             /\ \A b \in Bytes : dot_read_framed(frame \o <<b>>) = Some(body)
             /\ \A k \in 0..(Len(frame) - 1) : dot_read_framed(SubSeq(frame, 1, k)) = Nothing

\* tests/test_edns_padding.cpp, PaddedOutputReparsesCleanly; config.cpp accepts every
\* padding_block_size that is not negative.
PaddedReparses ==
    (padding # NoQuery /\ pad_query(padding.query, padding.block).padded)
        => Readable(padding.query, pad_query(padding.query, padding.block))
=============================================================================
