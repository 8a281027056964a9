----------------------------- MODULE MCDatalake -----------------------------
(* An instance of Datalake for TLC: two books, three hours, two versions   *)
(* of the text of a book.                                                  *)
EXTENDS Datalake
=============================================================================
