------------------------------ MODULE TimeText ------------------------------
(***************************************************************************)
(* How the database orders moments (storage.StringTime).  A time is stored *)
(* as a text of the format RFC3339Nano in UTC, and queries compare texts.  *)
(* A time without a fraction of a second has a text without one, and       *)
(* "…:10.5Z" comes before "…:10Z".  Times are counted in half seconds.     *)
(* Texts of different seconds are in the order of the times, whatever      *)
(* their fractions are; within a second one half stands for any fraction.  *)
(***************************************************************************)
EXTENDS Integers

SecondOf(t) == t \div 2

\* The place of the text of a time: the half before the full second.
TextRank(t) == 2 * SecondOf(t) + 1 - (t % 2)

=============================================================================
