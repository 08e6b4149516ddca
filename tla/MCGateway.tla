----------------------------- MODULE MCGateway ------------------------------
(* Instances of Gateway for TLC: answers that think, whole or never ending.   *)
EXTENDS Gateway, TLC

Thinking == {<<"op", "en">>, <<"op", "en", "cl", "t">>, <<"t", "op", "t">>}
=============================================================================
