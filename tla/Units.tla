------------------------------- MODULE Units -------------------------------
(***************************************************************************)
(* Amounts on their way to base units.  A caller's amount, a JSON number   *)
(* or a text of any sign, is counted in thousandths of a base unit, the    *)
(* third digit past the asset's decimals: a number that stands for m base  *)
(* units reaches the code as 1000 * m + e, with e the error of its binary  *)
(* fraction; a text has no error.                                          *)
(***************************************************************************)
EXTENDS Integers

Literals == [n : Int, text : BOOLEAN]

Near == -5 .. 4              \* errors that toFixed rounds away

Magnitude(n) == IF n < 0 THEN -n ELSE n

(* Mutant: the digits past the decimals are cut without rounding first.    *)
Mut_toBaseUnits(ui) ==
  LET units == Magnitude(ui.n) \div 1000
  IN  IF ui.n < 0 THEN -units ELSE units

(* A number goes through toFixed(decimals + 2), which rounds to a          *)
(* hundredth of a base unit, a text as it is; what is past the decimals is *)
(* cut off, and the sign put back.                                         *)
toBaseUnits(ui) ==
  LET units == IF ui.text THEN Magnitude(ui.n) \div 1000
                          ELSE ((Magnitude(ui.n) + 5) \div 10) \div 100
  IN  IF ui.n < 0 THEN -units ELSE units

(* The command line rounds to the nearest lamport, a half upwards.         *)
lam(ui) == (ui.n + 500) \div 1000

(* BN's bytes are those of the magnitude: an instruction's u64 has no      *)
(* sign, and nothing refuses one.                                          *)
U64(units) == Magnitude(units)

(* The literal stands for m base units, to one or the other side of zero.  *)
StandsFor(ui, m) ==
  Magnitude(ui.n) - 1000 * m \in (IF ui.text THEN {0} ELSE Near)
=============================================================================
