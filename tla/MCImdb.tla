------------------------------- MODULE MCImdb -------------------------------
(***************************************************************************)
(* Module Imdb for TLC.  Keys are interchangeable.                         *)
(***************************************************************************)
EXTENDS Imdb, TLC

Symmetry == Permutations(Keys)

\* On a page of 6 characters a record of the second kind is cut, and one of the first
\* kind still fits after it.
Various == [k \in Keys |-> {<<2, 4>>, <<1, 9>>}]
Short   == [k \in Keys |-> {<<2, 4>>}]

\* On a page of 4 characters the record of one key can never be printed, and that of
\* another one only as the first of the page.
Unprintable == [k \in Keys |-> IF k = CHOOSE j \in Keys : TRUE THEN {<<4>>} ELSE {<<2>>}]
=============================================================================
