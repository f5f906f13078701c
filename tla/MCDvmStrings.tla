---------------------------- MODULE MCDvmStrings ----------------------------
(***************************************************************************)
(* A small instance of DvmStrings: two literals, two ints of which one is  *)
(* also the number of a literal, appends of a third type, a buffer that    *)
(* three appends fill.                                                     *)
(***************************************************************************)
EXTENDS DvmStrings

CONSTANTS a, b, c

MCStringData  == << <<a>>, <<b, a>> >>
MCInts        == {1}
MCDecimal     == [n \in MCInts |-> <<c>>]
MCAppendTypes == {"string", "int", "long"}
MCOtherTexts  == {<<c>>}
MCStale       == {0, 9}
=============================================================================
