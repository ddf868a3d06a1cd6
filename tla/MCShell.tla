------------------------------ MODULE MCShell ------------------------------
(***************************************************************************)
(* Lines for Shell.tla: the keys of some of the commands, numbers, words   *)
(* that leave a tail in the buffer, and lines with a character erased.     *)
(* Only 0 and 1 are digits here, so that the other keys are no numbers.    *)
(* An int has 100 values: 101 wraps to 1.                                  *)
(***************************************************************************)
EXTENDS Shell

Characters == {"?", "1", "2", "3", "4", "f", "p", "s", "R", "Q", "y", "0"}

ShellLines ==
  {<<k>> : k \in Characters}
    \cup {<<>>, <<"1", "0">>, <<"1", "0", "1">>, <<"y", "1", Erase>>}

AnAddress == {<<>>, <<"1", "0">>, <<"y">>}

Default ==
  [pPasswd |-> <<"1", "0">>, pSerialNumber |-> <<"0">>, bStatic |-> 0,
   net |-> <<<<"0">>, <<"0">>, <<"0">>>>, server |-> <<"0">>, port |-> 10,
   pMAC |-> <<"0", "0">>]

TwoDigits == [c \in {"0", "1"} |-> IF c = "0" THEN 0 ELSE 1]
=============================================================================
