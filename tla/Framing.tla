------------------------------ MODULE Framing -------------------------------
(***************************************************************************)
(* How a DNS message is delimited on a TLS stream: by two length bytes in  *)
(* DNS over TLS, by the head of an HTTP response in DNS over HTTPS.        *)
(*                                                                         *)
(* An HTTP head is its sequence of lines.  The first is [spaces, status],  *)
(* the others [colon, name, number, text]: number is what from_chars makes *)
(* of the value, or NaN, and text what its media type is.  The stream is   *)
(* cut into reads at will: the one that completes the head may bring a     *)
(* part of the content along.                                              *)
(***************************************************************************)
EXTENDS Integers, Sequences, FiniteSetsExt

CONSTANTS kHeadBuffer,   \* the 16 KiB of head_buf, in lines and content bytes
          kMaxBody       \* the 64 KiB cap on Content-Length

ASSUME FramingAssumption == kHeadBuffer \in Nat /\ kMaxBody \in Nat

NaN == -1
Nothing == [ok |-> FALSE]
Some(value) == [ok |-> TRUE, value |-> value]
-----------------------------------------------------------------------------
kByte     == 256                  \* the values of a byte
kMaxFrame == kByte * kByte - 1    \* numeric_limits<uint16_t>::max()

\* Nothing: runtime_error is thrown.
dot_frame(msg) ==
    IF Len(msg) > kMaxFrame THEN Nothing
    ELSE Some(<<Len(msg) \div kByte, Len(msg) % kByte>> \o msg)

\* What asio::async_read of n bytes at offset at of a stream that ends returns.
ReadExactly(stream, at, n) ==
    IF at + n > Len(stream) THEN Nothing ELSE Some(SubSeq(stream, at + 1, at + n))

dot_read_framed(stream) ==
    LET len == ReadExactly(stream, 0, 2)
        msg_len == kByte * len.value[1] + len.value[2]
    IN  IF ~len.ok \/ msg_len = 0 THEN Nothing ELSE ReadExactly(stream, 2, msg_len)
-----------------------------------------------------------------------------
to_lower(name) ==
    CASE name = "Content-Length" -> "content-length"
      [] name = "Content-Type"   -> "content-type"
      [] OTHER -> name

\* A head without header lines has no CRLF before its end and is refused.
parse_response_head(lines) ==
    LET fields == Tail(lines)
        malformed == \/ fields = <<>>
                     \/ lines[1].spaces < 2 \/ lines[1].status \notin 100..999
                     \/ \E k \in DOMAIN fields : ~fields[k].colon
    IN  IF malformed THEN Nothing
        ELSE Some([status |-> lines[1].status,
                   headers |-> [k \in DOMAIN fields |->
                                  [fields[k] EXCEPT !.name = to_lower(@)]]])

header_value(headers, name) ==
    LET found == {k \in DOMAIN headers : headers[k].name = name}
    IN  IF found = {} THEN Nothing ELSE Some(headers[Min(found)])

\* Seeded fault: all that came with the head is taken for the body.
CopiedAll(already, body_len) == already

Copied(already, body_len) == Min({already, body_len})

\* post_https_oneshot from its first read: already bytes of the content came
\* with the head.
ReadResponse(lines, content, already) ==
    LET head == parse_response_head(lines)
        length == header_value(head.value.headers, "content-length")
        type == header_value(head.value.headers, "content-type")
        body_len == length.value.number
        copy == Copied(already, body_len)
        rest == ReadExactly(content, already, body_len - copy)
    IN  IF Len(lines) + already > kHeadBuffer \/ ~head.ok THEN Nothing
        ELSE IF ~length.ok THEN Nothing
        ELSE IF body_len = NaN \/ body_len > kMaxBody THEN Nothing
        ELSE IF copy < body_len /\ ~rest.ok THEN Nothing
        ELSE Some([status |-> head.value.status,
                   content_type |-> IF type.ok THEN type.value.text ELSE "",
                   body |-> SubSeq(content, 1, copy)
                              \o (IF copy < body_len THEN rest.value ELSE <<>>)])

\* DohAdapter::try_once
DohReply(lines, content, already) ==
    LET resp == ReadResponse(lines, content, already)
    IN  IF ~resp.ok THEN Nothing
        ELSE IF resp.value.status # 200
                \/ resp.value.content_type \notin {"", "application/dns-message"}
        THEN Nothing ELSE Some(resp.value.body)
=============================================================================
