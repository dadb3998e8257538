---------------------------- MODULE EdnsPadding -----------------------------
(***************************************************************************)
(* pad_query: grow a query to a multiple of block_size with an EDNS        *)
(* padding option.  A query is [parses, size, additional, trailing]: its   *)
(* size in bytes, its additional records [type, rdlen], and the bytes      *)
(* behind the last of them.  A padded query is described by its OPT record *)
(* alone: where it begins, what its length fields say, and how many bytes  *)
(* there really are.                                                       *)
(***************************************************************************)
EXTENDS Integers, Sequences

CONSTANT kU16Max    \* numeric_limits<uint16_t>::max(), 65535

kOptRrSkeleton == 11
kPaddingOptionHead == 4

ASSUME EdnsPaddingAssumption == kU16Max \in Nat /\ kU16Max > kPaddingOptionHead

\* static_cast<uint16_t>
Cast16(n) == n % (kU16Max + 1)

\* Seeded fault: a size that is a multiple already gets another block.
round_up_past(n, block) == (n \div block + 1) * block

round_up(n, block) == ((n + block - 1) \div block) * block

\* The first OPT of the additional section; it is last when its RDATA ends
\* where the query ends.
scan_opt(q) ==
    LET opts == {k \in DOMAIN q.additional : q.additional[k].type = "OPT"}
        first == CHOOSE k \in opts : \A j \in opts : k <= j
    IN  IF opts = {} THEN [state |-> "None"]
        ELSE [state |-> IF first = Len(q.additional) /\ q.trailing = 0 THEN "Last" ELSE "NotLast",
              rdlen |-> q.additional[first].rdlen]

Unchanged == [padded |-> FALSE]

\* Append the option to the OPT record that ends the query.
ExtendOpt(q, rdlen, block_size) ==
    LET min_new == q.size + kPaddingOptionHead
        target == round_up(min_new, block_size)
        pad_len == target - min_new
        new_rdlen_full == rdlen + kPaddingOptionHead + pad_len
    IN  IF new_rdlen_full > kU16Max THEN Unchanged
        ELSE [padded |-> TRUE, size |-> target, arcount |-> Len(q.additional),
              begins |-> q.size - rdlen - kOptRrSkeleton,
              rdlen |-> Cast16(new_rdlen_full), rdata |-> new_rdlen_full,
              optlen |-> Cast16(pad_len), zeros |-> pad_len]

\* Append an OPT record that holds nothing but the option.
AddOpt(q, block_size) ==
    LET min_new == q.size + kOptRrSkeleton + kPaddingOptionHead
        target == round_up(min_new, block_size)
        pad_len == target - min_new
    IN  IF Len(q.additional) = kU16Max THEN Unchanged
        ELSE [padded |-> TRUE, size |-> target, arcount |-> Cast16(Len(q.additional) + 1),
              begins |-> q.size,
              rdlen |-> Cast16(kPaddingOptionHead + pad_len),
              rdata |-> kPaddingOptionHead + pad_len,
              optlen |-> Cast16(pad_len), zeros |-> pad_len]

pad_query(q, block_size) ==
    LET opt == scan_opt(q)
    IN  IF block_size = 0 \/ ~q.parses \/ opt.state = "NotLast" THEN Unchanged
        ELSE IF opt.state = "Last" THEN ExtendOpt(q, opt.rdlen, block_size)
        ELSE AddOpt(q, block_size)
-----------------------------------------------------------------------------
\* The length fields of the padded query say what is there, the OPT record
\* lies where a parser that has read the other records looks for it, and
\* ARCOUNT counts it: the upstream can parse what it is sent.
Readable(q, p) ==
    /\ p.rdlen = p.rdata /\ p.optlen = p.zeros
    /\ p.rdata >= kPaddingOptionHead + p.zeros
    /\ p.begins + kOptRrSkeleton + p.rdata = p.size
    /\ \/ scan_opt(q).state = "Last" /\ p.arcount = Len(q.additional)
       \/ p.arcount = Len(q.additional) + 1 /\ p.begins = q.size - q.trailing

\* The size is the next multiple of the block, and no block is wasted.
JustPadded(q, block_size, p) ==
    /\ \E n \in 1..p.size : p.size = n * block_size
    /\ p.size - block_size < q.size + kOptRrSkeleton + kPaddingOptionHead

\* The block sizes that need no cast to lose anything.
FittingBlocks == 1..(kU16Max - kPaddingOptionHead + 1)

\* A query that ends with its last record, padded to a block that fits, is
\* readable and just large enough; it stays as it is only for one of the
\* reasons the comment of pad_query gives or when a 16-bit field is full.
WellPadded(q, block_size) ==
    LET p == pad_query(q, block_size)
    IN  (q.trailing = 0 /\ block_size \in FittingBlocks) =>
        IF p.padded THEN Readable(q, p) /\ JustPadded(q, block_size, p)
        ELSE \/ ~q.parses \/ scan_opt(q).state = "NotLast" \/ Len(q.additional) = kU16Max
             \/ /\ scan_opt(q).state = "Last"
                /\ scan_opt(q).rdlen + kPaddingOptionHead + block_size > kU16Max
=============================================================================
