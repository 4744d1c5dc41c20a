------------------------------ MODULE AvrTypes ------------------------------
(***************************************************************************)
(* The arithmetic of the box, tools/ss_emu/src/avr_types.h, and the check  *)
(* the driver makes of a command before it sends it, which is about that   *)
(* arithmetic: addons/serial_link/src/link_driver.cpp, validate_command.   *)
(* A command is a head and the digits of its argument.                     *)
(***************************************************************************)
EXTENDS Decimals

CONSTANTS
    IntSize,       \* 2^16, the values of an int
    LongSize,      \* 2^32, those of an unsigned long
    MsPerSecond,   \* 1000
    BuffSize       \* kCharBuffSize

ASSUME AvrConstants ==
    /\ IntSize \in Nat /\ IntSize > 1 /\ IntSize % 2 = 0
    /\ LongSize \in Nat /\ LongSize >= 2 * IntSize
    /\ MsPerSecond \in Nat \ {0}
    /\ BuffSize \in Nat \ {0}

IntMax == IntSize \div 2 - 1
AvrInt == -(IntMax + 1) .. IntMax

ToInt(n) == LET low == n % IntSize IN IF low > IntMax THEN low - IntSize ELSE low

\* avr_mul: the product of two ints is an int.
Mul(a, b) == ToInt(a * b)

\* avr_ulong_gt_int and avr_ulong_ge_int: the int becomes an unsigned long.
ToULong(n) == n % LongSize
GtInt(long, int) == long > ToULong(int)
GeInt(long, int) == long >= ToULong(int)

\* avr_atoi stops at the first character that is not a digit.
Atoi(chars) ==
    LET n == SelectInSeq(chars, LAMBDA c : ~IsDigit(c))
    IN  ToInt(Decimal(IF n = 0 THEN chars ELSE SubSeq(chars, 1, n - 1)))

-----------------------------------------------------------------------------
(* Commands. *)

Bare == {"v", "s", "g", "d", "x", "m"}

\* Mutant: the range of an int is not checked.
ValidAnyLength(cmd) ==
    LET arg == Tail(cmd)
        value == Decimal(arg)
    IN  \/ Len(cmd) = 1 /\ cmd[1] \in Bare
        \/ /\ Len(cmd) > 1
           /\ cmd[1] \in {"l", "t"}
           /\ \A i \in DOMAIN arg : IsDigit(arg[i])
           /\ Len(arg) < BuffSize
           /\ value > 0
           /\ cmd[1] = "t" => Mul(value, MsPerSecond) < 0

\* validate_command.
Valid(cmd) ==
    LET arg == Tail(cmd)
        value == Decimal(arg)
    IN  \/ Len(cmd) = 1 /\ cmd[1] \in Bare
        \/ /\ Len(cmd) > 1
           /\ cmd[1] \in {"l", "t"}
           /\ \A i \in DOMAIN arg : IsDigit(arg[i])
           /\ Len(arg) < BuffSize
           /\ value \in 1 .. IntMax
           /\ cmd[1] = "t" => Mul(value, MsPerSecond) < 0
=============================================================================
