------------------------------ MODULE MCServer ------------------------------
(***************************************************************************)
(* The name a is an alias of t, which only lists can block; b is no alias. *)
(***************************************************************************)
EXTENDS Server

MCNames == {"a", "b"}
MCTarget == [n \in MCNames |-> IF n = "a" THEN "t" ELSE "nowhere"]
MCLists == {{}, {"a"}, {"t"}}
=============================================================================
