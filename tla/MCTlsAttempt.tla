---------------------------- MODULE MCTlsAttempt ----------------------------
(***************************************************************************)
(* Two concurrent attempts of one adapter, a reload and a key rotation.    *)
(* The outer names are interchangeable; the attempts are not, since only   *)
(* some have operations that get a first part done at once.                *)
(***************************************************************************)
EXTENDS TlsAttempt, TLC

Symmetry == Permutations(Outers)
=============================================================================
