---------------------------- MODULE MCUncloaker -----------------------------
(***************************************************************************)
(* Four names of three sites, two of which lie below the same suffix.      *)
(***************************************************************************)
EXTENDS Uncloaker

MCOriginal == <<"www", "shop", "co", "uk">>
MCNames == {MCOriginal, <<"shop", "co", "uk">>, <<"x", "ads", "co", "uk">>, <<"ads", "com">>}
MCSuffixes == {<<"co", "uk">>, <<"com", "au">>}
=============================================================================
