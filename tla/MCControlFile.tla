--------------------------- MODULE MCControlFile ---------------------------
(* Ids of one to three digits: 1 is a prefix of 13, and 1 followed by 84    *)
(* reads 184, which is an id too.                                           *)
EXTENDS ControlFile

FourIds == {<<1>>, <<1, 3>>, <<8, 4>>, <<1, 8, 4>>}
=============================================================================
