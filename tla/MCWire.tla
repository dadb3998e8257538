------------------------------- MODULE MCWire -------------------------------
(***************************************************************************)
(* The conversions between bytes, names and text on the inputs of          *)
(* MCAlgorithms: DnsWire on questions that grow byte by byte behind a      *)
(* fixed header, Base64 on the same bytes.                                 *)
(***************************************************************************)
EXTENDS MCAlgorithms, DnsWire, Base64

ASSUME WireAssumption == Bytes \subseteq 0..255

QueryHeader == <<7, 9, 17, 0, 0, 1, 0, 0, 0, 0, 0, 0>>   \* opcode 2, RD, one question
TypeAndClass == <<0, 28, 0, 1>>
packet == QueryHeader \o body
query == QueryHeader \o body \o TypeAndClass

AsksFor(q, name, type) ==
    q.ok /\ \A msg \in {parse(q.bytes)} :
        /\ msg.ok /\ msg.end = Len(q.bytes) /\ Len(msg.questions) = 1
        /\ msg.questions[1].name = name /\ msg.questions[1].type = type
EmptyLabel(text) ==
    \/ text = <<>> \/ Head(text) = Dot \/ text[Len(text)] = Dot
    \/ \E k \in 1..(Len(text) - 1) : text[k] = Dot /\ text[k + 1] = Dot

\* Whatever name a response spells, with labels, pointers and letters of either
\* case, the re-query that the uncloaker builds for it asks for that very name,
\* and none is built only when the text has an empty label or would be too long;
\* the query for an HTTPS record asks for a name without empty labels just so.
\* decode_name leaves the cursor behind the name and never stands still.
QueriesAskTheName ==
    \A n \in {decode_name(packet, kHeaderSize)} : n.ok =>
        /\ n.next \in (kHeaderSize + 1)..Len(packet)
        /\ n.next <= kHeaderSize + Len(n.name) + 3
        /\ IF EmptyLabel(n.name) \/ Len(n.name) + 2 > kMaxName
           THEN build_a_query(n.name, 0) = Error
           ELSE AsksFor(build_a_query(n.name, 0), n.name, 1)
        /\ ~EmptyLabel(n.name) => AsksFor(build_https_query(n.name, 0), n.name, 65)

\* What the server builds itself is a response to the query at hand: it parses to
\* the last byte, has the id, opcode, RD bit and question of the query, and the
\* sinkhole's record is of the name and type asked for, wherever in the packet
\* the question ends.  (Of a question that is compressed this cannot be said: its
\* pointers may leave the question section.)
Echoes(r, msg, rcode, answers) ==
    \A p \in {parse(r)} :
        /\ p.ok /\ p.end = Len(r) /\ p.id = msg.id
        /\ QR(p.flags) = 1 /\ Opcode(p.flags) = Opcode(msg.flags)
        /\ RD(p.flags) = RD(msg.flags) /\ Rcode(p.flags) = rcode
        /\ p.questions = msg.questions
        /\ {<<a.name, a.type, Len(a.rdata)>> : a \in Range(p.answers)} = answers
Plain(msg) ==
    LET name == msg.questions[1].name
    IN  msg.question_section_end = kHeaderSize + (IF name = <<>> THEN 1 ELSE Len(name) + 2) + 4
BuiltFor(msg) ==
    LET sinkhole(type, len) == {<<msg.questions[1].name, type, len>>}
    IN  { <<build_block_a_response(query, msg), 0, sinkhole(1, 4)>>,
          <<build_block_aaaa_response(query, msg), 0, sinkhole(28, 16)>>,
          <<build_block_nodata_response(query, msg), 0, {}>>,
          <<build_refused_response(query, msg), 5, {}>>,
          <<build_servfail_response(query, msg), 2, {}>> }
ResponsesEchoTheQuestion ==
    \A msg \in {parse(query)} :
        (msg.ok /\ Plain(msg)) => \A r \in BuiltFor(msg) : Echoes(r[1], msg, r[2], r[3])

\* What base64_encode writes base64_decode reads back, with white space anywhere
\* in it too; a text cut short or with a character of neither kind is refused.
Base64RoundTrip == RoundTrips(body)

\* tls.hpp: "Decode a base64 string (with or without "=" padding".
UnpaddedDecodes ==
    base64_decode(SelectSeq(base64_encode(body), LAMBDA c : c # Pad)) = body
=============================================================================
