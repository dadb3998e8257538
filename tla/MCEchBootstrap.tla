--------------------------- MODULE MCEchBootstrap ---------------------------
(***************************************************************************)
(* Two overlapping bootstraps for different names over two servers.  For   *)
(* one name, answer sections with an AliasMode record, other records, a    *)
(* parameter that does not fit and an empty ech= before or instead of a    *)
(* proper one; for the other just a proper one.                            *)
(***************************************************************************)
EXTENDS EchBootstrap

CONSTANTS b1, b2

MCBoots == {b1, b2}
MCHost == [b \in MCBoots |-> IF b = b1 THEN "one" ELSE "two"]

Param(key, fits, value) == [key |-> key, fits |-> fits, value |-> value]
Https(priority, params) ==
    [type |-> 65, rdata |-> [priority |-> priority, target |-> "plain", params |-> params]]
Ech == Param(5, TRUE, <<"list">>)
AllAnswers ==
    { << >>,
      << Https(0, <<Ech>>), Https(1, <<Ech>>) >>,
      << [type |-> 1], Https(1, <<Param(1, TRUE, <<>>), Ech>>) >>,
      << Https(1, <<Param(5, TRUE, <<>>)>>) >>,
      << Https(1, <<Param(1, FALSE, <<>>), Ech>>) >>,
      << [Https(1, <<Ech>>) EXCEPT !.rdata.target = "pointer"] >> }
MCAnswers ==
    [h \in Hosts |-> IF h = "one" THEN AllAnswers ELSE {<< Https(1, <<Ech>>) >>}]
=============================================================================
