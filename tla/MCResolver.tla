----------------------------- MODULE MCResolver -----------------------------
(***************************************************************************)
(* Two concurrent forward calls with different questions over a        *)
(* primary and a fallback.                                                 *)
(***************************************************************************)
EXTENDS Resolver

MCCalls == {1, 2}
MCAsked == [c \in MCCalls |-> c]
=============================================================================
