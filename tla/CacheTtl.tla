------------------------------ MODULE CacheTtl ------------------------------
(***************************************************************************)
(* The pure functions of the response cache: how long a response may be    *)
(* kept (compute_cache_ttl), where its TTL fields are (collect_ttl_offsets)*)
(* and how a hit rewrites them (rewrite_ttls).                             *)
(*                                                                         *)
(* A parsed message is [rcode, size, answers, authority, additional]; each *)
(* section is a sequence of records [type, ttl, minimum, pos], where pos   *)
(* is the offset of the RDATA in the message and minimum the trailing      *)
(* field of an SOA's RDATA (NoMinimum when the RDATA is too short).  The   *)
(* parser keeps RDATA as a view into the buffer it parsed, so the address  *)
(* of a record's RDATA is that buffer's address plus pos.                  *)
(***************************************************************************)
EXTENDS Integers, Sequences, FiniteSetsExt

CONSTANTS AddrSpace,   \* size_t and addresses count modulo AddrSpace
          Ceiling      \* kRfc2308NegativeCacheCeiling, in seconds

ASSUME CacheTtlAssumption == AddrSpace \in Nat \ {0} /\ Ceiling \in Nat \ {0}

kRcodeServFail == 2
kRcodeNxDomain == 3
kRcodeNotImp   == 4

\* Seeded fault: RDLENGTH is forgotten.
kTtlBackOffsetShort == 4

kTtlBackOffset == 6
kTtlSize       == 4
NoMinimum      == -1

\* What the parser makes of a response; ttl and minimum are unsigned.  A stands
\* for every type no function looks for.
RrTypes == {"A", "NS", "SOA", "OPT"}
ResourceRecord == [type: RrTypes, ttl: Nat, minimum: Nat \cup {NoMinimum}, pos: Nat]
Message == [rcode: Nat, size: Nat, answers: Seq(ResourceRecord),
            authority: Seq(ResourceRecord), additional: Seq(ResourceRecord)]

Rec(section) == {section[i] : i \in DOMAIN section}
NotOpt(section) == {rr \in Rec(section) : rr.type # "OPT"}

\* The SOA MINIMUM that clamps a negative answer: the first SOA's, if readable.
FirstSoaMinimum(authority) ==
    LET soa == {i \in DOMAIN authority : authority[i].type = "SOA"}
        first == authority[Min(soa)].minimum
    IN  IF soa = {} \/ first = NoMinimum THEN {} ELSE {first}

\* Seeded fault: only NXDOMAIN is taken for a negative answer.
IsNegativeNxOnly(m) == m.rcode = kRcodeNxDomain

IsNegative(m) ==
    m.rcode = kRcodeNxDomain \/ (m.answers = <<>> /\ m.authority # <<>>)

\* Seconds the response may be cached; 0 means not at all.
compute_cache_ttl(m) ==
    LET ttls == {rr.ttl : rr \in NotOpt(m.answers) \cup NotOpt(m.authority)}
    IN  IF m.rcode \in {kRcodeServFail, kRcodeNotImp} \/ ttls = {} \/ 0 \in ttls
        THEN 0
        ELSE Min(ttls \cup IF IsNegative(m)
                           THEN FirstSoaMinimum(m.authority) \cup {Ceiling}
                           ELSE {})

-----------------------------------------------------------------------------
AllRecords(m) == NotOpt(m.answers) \cup NotOpt(m.authority) \cup NotOpt(m.additional)

\* On the wire, TTL (4 bytes) and RDLENGTH (2) precede the RDATA.
TtlField(rr) == rr.pos - 6

\* Seeded fault: the distance is taken as a signed number.
collect_ttl_offsets_signed(base, parsedAt, m) ==
    {parsedAt + rr.pos - base - kTtlBackOffset : rr \in AllRecords(m)}

\* Offsets of the TTL fields: the distance from base, the start of the bytes
\* being cached, back from each RDATA view of the message parsed at parsedAt.
collect_ttl_offsets(base, parsedAt, m) ==
    {(parsedAt + rr.pos - base - kTtlBackOffset) % AddrSpace : rr \in AllRecords(m)}

\* The offsets rewrite_ttls writes at: the others fail its range check.
WrittenOffsets(size, offsets) ==
    {off \in offsets : (off + kTtlSize) % AddrSpace <= size}

\* What a client sees in each TTL field after the rewrite.
rewrite_ttls(m, offsets, ttl) ==
    [rr \in AllRecords(m) |->
        IF TtlField(rr) \in WrittenOffsets(m.size, offsets)
        THEN ttl ELSE rr.ttl]
=============================================================================
