----------------------------- MODULE MCDnsCache -----------------------------
(***************************************************************************)
(* A small instance of DnsCache: three keys, a cache of two, two responses *)
(* (lifetimes of one and two seconds), half-second clock ticks.            *)
(***************************************************************************)
EXTENDS DnsCache, TLC

rr(ttl, pos) == [type |-> "A", ttl |-> ttl, minimum |-> NoMinimum, pos |-> pos]
Response(ttl) == [rcode |-> 0, size |-> 60, answers |-> <<rr(ttl, 40)>>,
                  authority |-> <<>>, additional |-> <<rr(ttl, 56)>>]
MCMessages == {Response(1), Response(2)}

Symmetry == Permutations(Nodes) \cup Permutations(Keys)
=============================================================================
