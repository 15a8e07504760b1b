------------------------------ MODULE PromTime ------------------------------
(***************************************************************************)
(* Time of model/time.go: milliseconds since the epoch, written as JSON in *)
(* seconds.  A text is its sign, the number before the dot, and the number *)
(* after the dot with its count of digits, 0 where there is no dot.  Times *)
(* are far from 2^53 milliseconds, where a float64 stays exact.            *)
(***************************************************************************)
EXTENDS Lowest

second       == 1000
dotPrecision == 3

(* 10^n, as a function.                                                    *)
Ten[n \in Nat] == IF n = 0 THEN 1 ELSE 10 * Ten[n - 1]

(* FormatFloat writes the shortest fraction: no trailing zeros.            *)
TimeString(t) ==
  LET size   == IF t < 0 THEN -t ELSE t
      digits == Lowest({k \in 0 .. dotPrecision :
                          (size % second) % Ten[dotPrecision - k] = 0})
  IN [neg    |-> t < 0,
      whole  |-> size \div second,
      frac   |-> (size % second) \div Ten[dotPrecision - digits],
      digits |-> digits]

(* Mutant: the fraction is read as milliseconds, however long it is.       *)
UnmarshalTime_NoPadding(text) ==
  second * (IF text.neg THEN -text.whole ELSE text.whole) + text.frac

(* The fraction is cut or filled to three digits and added: the sign goes  *)
(* only with the number before the dot.                                    *)
UnmarshalTime(text) ==
  LET v == second * (IF text.neg THEN -text.whole ELSE text.whole)
  IN IF text.digits > dotPrecision
     THEN v + text.frac \div Ten[text.digits - dotPrecision]
     ELSE v + text.frac * Ten[dotPrecision - text.digits]
=============================================================================
