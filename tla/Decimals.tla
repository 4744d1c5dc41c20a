------------------------------ MODULE Decimals ------------------------------
(***************************************************************************)
(* Decimal numbers as both ends of the line read them, digit by digit.     *)
(* Four digits are enough to tell the numbers of the models apart.         *)
(***************************************************************************)
EXTENDS Integers, SequencesExt

Digit == [d \in {"0", "1", "2", "5"} |->
            CASE d = "0" -> 0 [] d = "1" -> 1 [] d = "2" -> 2 [] d = "5" -> 5]

IsDigit(c) == c \in DOMAIN Digit

Decimal(digits) == FoldLeft(LAMBDA acc, d : 10 * acc + Digit[d], 0, digits)
=============================================================================
