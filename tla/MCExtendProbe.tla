--------------------------- MODULE MCExtendProbe ---------------------------
(***************************************************************************)
(* Module ExtendProbe for TLC.  Lines with fewer fields than the table has *)
(* metrics, as many and more, with empty fields and odd values in every    *)
(* place, and one that is longer than the buffer.                          *)
(***************************************************************************)
EXTENDS ExtendProbe

SomeFieldSeqs ==
  {<<"a">>, <<"a", "b">>, <<EMPTY, "b">>, <<"c", EMPTY>>,
   <<"a", EMPTY, "c">>, <<"a", "c", "b">>, <<"a", "b", "c", "d", "e">>}
=============================================================================
