------------------------------ MODULE DnsWire -------------------------------
(***************************************************************************)
(* Messages as bytes: dns_parser.cpp, the responses and the query that     *)
(* dns_writer.cpp builds, and the query of ech_bootstrap.cpp.  A packet is *)
(* a sequence of 0..255, a name its text (the bytes of a string).  What    *)
(* throws in the code is Error here.  The limit on names and on pointers   *)
(* are parameters so that small packets reach them.                        *)
(***************************************************************************)
EXTENDS Integers, Sequences

CONSTANTS kMaxName,          \* 255, in the parser and in the writer
          kMaxPointerHops    \* 16

ASSUME DnsWireAssumption == kMaxName \in Nat /\ kMaxPointerHops \in Nat \ {0}

kHeaderSize == 12
kMaxLabel == 63
Error == [ok |-> FALSE]
Dot == 46

Byte(pkt, off) == pkt[off + 1]
read_u16_be(pkt, off) == 256 * Byte(pkt, off) + Byte(pkt, off + 1)
Hi(v) == (v \div 256) % 256
Lo(v) == v % 256
Lower(c) == IF c \in 65..90 THEN c + 32 ELSE c
-----------------------------------------------------------------------------
\* Seeded fault: the name goes on after the last pointer, not after the first.
AfterPointerLast(next, cursor) == cursor + 2

\* cursor_inout is set by the first pointer of a name and not again.
AfterPointer(next, cursor) == IF next = -1 THEN cursor + 2 ELSE next

\* One turn of the loop of decode_name; next is cursor_inout, -1 until it is set.
NameTurn(pkt, s) ==
    LET len == Byte(pkt, s.cursor)
        top == len \div 64
        target == (len % 64) * 256 + Byte(pkt, s.cursor + 1)
        label == [k \in 1..len |-> Lower(Byte(pkt, s.cursor + k))]
        longer == IF s.out = <<>> THEN label ELSE s.out \o <<Dot>> \o label
        fails == [s EXCEPT !.at = "error"]
    IN  IF s.at # "label" THEN s
        ELSE IF s.cursor >= Len(pkt) THEN fails
        ELSE IF top = 3
        THEN IF s.hops >= kMaxPointerHops \/ s.cursor + 1 >= Len(pkt) \/ target >= Len(pkt)
             THEN fails
             ELSE [s EXCEPT !.cursor = target, !.hops = @ + 1, !.next = AfterPointer(@, s.cursor)]
        ELSE IF top # 0 THEN fails
        ELSE IF len = 0
        THEN [s EXCEPT !.at = "end", !.next = IF @ = -1 THEN s.cursor + 1 ELSE @]
        ELSE IF s.cursor + 1 + len > Len(pkt) \/ Len(longer) > kMaxName THEN fails
        ELSE [s EXCEPT !.cursor = @ + 1 + len, !.out = longer]

\* A turn that goes on takes a label or follows a pointer, so these are enough.
NameTurns == kMaxName + kMaxPointerHops + 1

decode_name(pkt, cursor) ==
    LET turn[k \in 0..NameTurns] ==
            IF k = 0 THEN [at |-> "label", cursor |-> cursor, hops |-> 0, out |-> <<>>, next |-> -1]
            ELSE NameTurn(pkt, turn[k - 1])
        s == turn[NameTurns]
    IN  IF s.at = "end" THEN [ok |-> TRUE, name |-> s.out, next |-> s.next] ELSE Error

\* The question or the record behind the name n: [ok, name, type, ..., next].
ParseQuestion(pkt, n) ==
    IF ~n.ok \/ n.next + 4 > Len(pkt) THEN Error
    ELSE [ok |-> TRUE, name |-> n.name, type |-> read_u16_be(pkt, n.next),
          class |-> read_u16_be(pkt, n.next + 2), next |-> n.next + 4]
ParseRecord(pkt, n) ==
    LET rdlen == read_u16_be(pkt, n.next + 8)
        rdata == n.next + 10
    IN  IF ~n.ok \/ n.next + 10 > Len(pkt) \/ rdata + rdlen > Len(pkt) THEN Error
        ELSE [ok |-> TRUE, name |-> n.name, type |-> read_u16_be(pkt, n.next),
              class |-> read_u16_be(pkt, n.next + 2),
              ttl |-> <<read_u16_be(pkt, n.next + 4), read_u16_be(pkt, n.next + 6)>>,
              rdata |-> SubSeq(pkt, rdata + 1, rdata + rdlen), next |-> rdata + rdlen]

\* A section: as many items as the header field at off states, the questions'
\* loop for the first and parse_rr_section for the others.  s is what has been
\* read: [ok, next, list].
Item(pkt, off, n) == IF off = 4 THEN ParseQuestion(pkt, n) ELSE ParseRecord(pkt, n)
WithItem(s, it) ==
    IF s.ok /\ it.ok THEN [ok |-> TRUE, next |-> it.next, list |-> Append(s.list, it)]
    ELSE [s EXCEPT !.ok = FALSE]
Section(pkt, before, off) ==
    LET turn[k \in 0..read_u16_be(pkt, off)] ==
            IF k = 0 THEN [before EXCEPT !.list = <<>>]
            ELSE WithItem(turn[k - 1], Item(pkt, off, decode_name(pkt, turn[k - 1].next)))
    IN  turn[read_u16_be(pkt, off)]

\* The message of the four sections, done[1] to done[4].
Parsed(pkt, done) ==
    IF ~done[4].ok THEN Error
    ELSE [ok |-> TRUE, id |-> read_u16_be(pkt, 0), flags |-> read_u16_be(pkt, 2),
          questions |-> done[1].list, question_section_end |-> done[1].next,
          answers |-> done[2].list, authority |-> done[3].list,
          additional |-> done[4].list, end |-> done[4].next]

\* The sections one after the other, their counts at 4, 6, 8 and 10.
parse(pkt) ==
    LET done[k \in 0..4] ==
            IF k = 0 THEN [ok |-> TRUE, next |-> kHeaderSize, list |-> <<>>]
            ELSE Section(pkt, done[k - 1], 2 * k + 2)
    IN  IF Len(pkt) < kHeaderSize THEN Error ELSE Parsed(pkt, done)
-----------------------------------------------------------------------------
\* Bits of a flags word.
Opcode(flags) == (flags \div 2048) % 16
RD(flags) == (flags \div 256) % 2
QR(flags) == flags \div 32768
Rcode(flags) == flags % 16

\* Seeded fault: the RD bit is not copied.
ResponseFlagsNoRD(query, rcode) ==
    LET q == read_u16_be(query, 2) IN 32768 + 2048 * Opcode(q) + 128 + rcode

\* QR and RA set, opcode and RD those of the query.
ResponseFlags(query, rcode) ==
    LET q == read_u16_be(query, 2) IN 32768 + 2048 * Opcode(q) + 256 * RD(q) + 128 + rcode

\* One question, ancount answers and nothing else.
HeaderBytes(id, flags, ancount) ==
    << Hi(id), Lo(id), Hi(flags), Lo(flags), 0, 1, 0, ancount, 0, 0, 0, 0 >>
write_response_header(query, ancount, rcode) ==
    HeaderBytes(read_u16_be(query, 0), ResponseFlags(query, rcode), ancount)
copy_question_bytes(query, question_end) == SubSeq(query, kHeaderSize + 1, question_end)

\* The response builders: answer is what follows the question section.
Response(query, msg, rcode, answer) ==
    write_response_header(query, IF answer = <<>> THEN 0 ELSE 1, rcode)
        \o copy_question_bytes(query, msg.question_section_end) \o answer
\* A pointer to the question's name, TYPE, CLASS, a TTL of 300, and RDATA of zeros.
SinkholeAnswer(type, len) ==
    <<192, 12, 0, type, 0, 1, 0, 0, 1, 44, 0, len>> \o [k \in 1..len |-> 0]

build_block_a_response(query, msg)      == Response(query, msg, 0, SinkholeAnswer(1, 4))
build_block_aaaa_response(query, msg)   == Response(query, msg, 0, SinkholeAnswer(28, 16))
build_block_nodata_response(query, msg) == Response(query, msg, 0, <<>>)
build_refused_response(query, msg)      == Response(query, msg, 5, <<>>)
build_servfail_response(query, msg)     == Response(query, msg, 2, <<>>)
-----------------------------------------------------------------------------
\* Where the labels of a text start: at its beginning and behind every dot; and
\* how long the label that starts at k is.
LabelStarts(text) == {1} \cup {k + 1 : k \in {d \in DOMAIN text : text[d] = Dot}}
LabelEnd(text, k) ==
    CHOOSE e \in k..(Len(text) + 1) : /\ e <= Len(text) => text[e] = Dot
                                     /\ \A j \in k..(e - 1) : text[j] # Dot
LabelLength(text, k) == LabelEnd(text, k) - k

\* Every label behind its length, and the root: the length takes the place of the
\* dot in front of a label.
EncodeName(text) ==
    [k \in 1..(Len(text) + 2) |->
        IF k = Len(text) + 2 THEN 0
        ELSE IF k \in LabelStarts(text) THEN LabelLength(text, k) ELSE text[k - 1]]

QueryOf(id, name, type) ==
    [ok |-> TRUE, bytes |-> HeaderBytes(id, 256, 0) \o name \o <<0, type, 0, 1>>]

\* Seeded fault: an empty label is not turned down.
LabelLongEnough(len) == len <= kMaxLabel

LabelFits(len) == len \in 1..kMaxLabel

\* A leading or a trailing dot is an empty label too.
build_a_query(qname, id) ==
    IF \/ qname = <<>> \/ Len(qname) > kMaxName
       \/ \E k \in LabelStarts(qname) : ~LabelFits(LabelLength(qname, k))
       \/ Len(EncodeName(qname)) > kMaxName
    THEN Error ELSE QueryOf(id, EncodeName(qname), 1)

\* ech_bootstrap.cpp: the first empty label ends the name.
build_https_query(qname, id) ==
    LET empty == {k \in LabelStarts(qname) : LabelLength(qname, k) = 0}
        first == CHOOSE k \in empty : \A j \in empty : k <= j
        asked == IF empty = {} THEN qname ELSE SubSeq(qname, 1, first - 2)
    IN  IF 1 \in empty THEN QueryOf(id, <<0>>, 65)
        ELSE IF \E k \in LabelStarts(asked) : LabelLength(asked, k) > kMaxLabel THEN Error
        ELSE QueryOf(id, EncodeName(asked), 65)
=============================================================================
