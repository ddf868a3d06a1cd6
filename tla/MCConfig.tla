------------------------------ MODULE MCConfig ------------------------------
(* Two words, three of the four configurations: the fourth, <<1, 0>>, is a   *)
(* mixture of the other ones.                                                *)
EXTENDS Config
MCValues == {0, 1}
MCDefault == <<0, 0>>
MCConfigs == {<<0, 0>>, <<0, 1>>, <<1, 1>>}
=============================================================================
