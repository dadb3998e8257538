-------------------------------- MODULE Etld --------------------------------
(***************************************************************************)
(* etld_plus_one: the registrable domain of a host name.  A name is the    *)
(* sequence of its labels; a trailing dot is an empty last label.          *)
(***************************************************************************)
EXTENDS Naturals, Sequences, FiniteSetsExt

CONSTANT kMultiLabelSuffixes    \* each of two labels

ASSUME EtldAssumption ==
    \A s \in kMultiLabelSuffixes : s \in Seq(STRING) /\ Len(s) = 2

LastLabels(name, n) ==
    SubSeq(name, IF Len(name) > n THEN Len(name) - n + 1 ELSE 1, Len(name))

\* host ends with a dot and the suffix, and has something before them.
ends_with_dot_suffix(host, suffix) ==
    Len(host) > Len(suffix) /\ LastLabels(host, Len(suffix)) = suffix

\* Seeded fault: the list of suffixes is not consulted.
SuffixLengthOne(host) == 1

\* The longest listed suffix of the host, or its last label.
SuffixLength(host) ==
    LET found == {Len(s) : s \in {s \in kMultiLabelSuffixes : ends_with_dot_suffix(host, s)}}
    IN  IF found = {} THEN 1 ELSE CHOOSE n \in found : \A k \in found : k <= n

etld_plus_one(hostname) ==
    LET size == Max({0} \cup {k \in 1..Len(hostname) : hostname[k] # ""})
        host == SubSeq(hostname, 1, size)
    IN  LastLabels(host, SuffixLength(host) + 1)
=============================================================================
