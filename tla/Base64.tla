------------------------------- MODULE Base64 -------------------------------
(***************************************************************************)
(* base64_encode, which writes SPKI pins, and base64_decode, which reads   *)
(* the ECHConfigList of the config file.  A character is its index in the  *)
(* alphabet, Pad ('='), or anything else: Space (the four kinds of white   *)
(* space) and Other.                                                       *)
(***************************************************************************)
EXTENDS Integers, Sequences

Pad == 64
Space == 65
Other == 66

\* 24 bits: of three bytes, as four digits, of four digits, as three bytes.
OfBytes(b0, b1, b2) == 65536 * b0 + 256 * b1 + b2
Digits(t) == << (t \div 262144) % 64, (t \div 4096) % 64, (t \div 64) % 64, t % 64 >>
OfDigits(d0, d1, d2, d3) == 262144 * d0 + 4096 * d1 + 64 * d2 + d3
BytesOf(t) == << t \div 65536, (t \div 256) % 256, t % 256 >>

\* Four characters for every three bytes; a byte that is missing counts as 0.
base64_encode(data) ==
    LET At(k) == IF k <= Len(data) THEN data[k] ELSE 0
        Quad(q) == LET d == Digits(OfBytes(At(3 * q + 1), At(3 * q + 2), At(3 * q + 3)))
                   IN  << d[1], d[2], IF 3 * q + 2 <= Len(data) THEN d[3] ELSE Pad,
                                      IF 3 * q + 3 <= Len(data) THEN d[4] ELSE Pad >>
    IN  [k \in 1..(4 * ((Len(data) + 2) \div 3)) |-> Quad((k - 1) \div 4)[1 + ((k - 1) % 4)]]

\* The text without its white space.
Packed(input) ==
    LET packed[k \in 0..Len(input)] ==
            IF k = 0 THEN <<>>
            ELSE IF input[k] = Space THEN packed[k - 1] ELSE Append(packed[k - 1], input[k])
    IN  packed[Len(input)]

\* Seeded fault: at most one '=' is counted.
PaddingOne(packed) == IF packed[Len(packed)] = Pad THEN 1 ELSE 0

\* Trailing '=' of a text that is not empty, at most two.
Padding(packed) ==
    IF packed[Len(packed)] # Pad THEN 0
    ELSE IF packed[Len(packed) - 1] # Pad THEN 1 ELSE 2

\* Every quad gives three bytes, the last one fewer by the padding.  '=' reads
\* as 0 in the third and fourth place of any quad.
Invalid == <<-1>>                      \* nullopt
Decoded(packed) ==
    LET Value(c) == IF c = Pad THEN 0 ELSE c
        Triple(q) == BytesOf(OfDigits(packed[4 * q + 1], packed[4 * q + 2],
                                      Value(packed[4 * q + 3]), Value(packed[4 * q + 4])))
        Legal(k) == packed[k] \in 0..63 \/ (packed[k] = Pad /\ k % 4 \in {3, 0})
    IN  IF packed = <<>> THEN <<>>
        ELSE IF Len(packed) % 4 # 0 \/ \E k \in DOMAIN packed : ~Legal(k) THEN Invalid
        ELSE [k \in 1..(3 * (Len(packed) \div 4) - Padding(packed)) |->
                 Triple((k - 1) \div 3)[1 + ((k - 1) % 3)]]
base64_decode(input) == Decoded(Packed(input))
-----------------------------------------------------------------------------
With(text, k, c) == SubSeq(text, 1, k) \o <<c>> \o SubSeq(text, k + 1, Len(text))
Without(text, k) == SubSeq(text, 1, k - 1) \o SubSeq(text, k + 1, Len(text))

\* The text of data is read back, with white space anywhere in it too; cut short
\* by a character or with one that is not of the alphabet it is refused.
RoundTrips(data) ==
    \A text \in {base64_encode(data)} :
        /\ base64_decode(text) = data
        /\ \A k \in 0..Len(text) : base64_decode(With(text, k, Space)) = data
        /\ \A k \in DOMAIN text : /\ base64_decode(Without(text, k)) = Invalid
                                  /\ base64_decode([text EXCEPT ![k] = Other]) = Invalid
=============================================================================
