------------------------------- MODULE Printf -------------------------------
(***************************************************************************)
(* printf of kernel/rust_printf.rs and of user/printf.rs, two separate     *)
(* programs.  A format is a sequence of characters given as strings of     *)
(* length one, the output a sequence of them; a character printed for %c   *)
(* and a string printed for %s stand for any.                              *)
(*                                                                         *)
(* A long has LongBits bits and an int IntBits.  pr_lock, which keeps the  *)
(* kernel's lines apart, is left out.                                      *)
(***************************************************************************)
EXTENDS Integers, Sequences, SequencesExt

CONSTANTS
  IntBits, LongBits,
  PRINTBUF,      \* bytes of the user's buffer
  KernelArgs,    \* arguments the kernel's printf takes
  UserArgs       \* arguments the user's printf takes

Two[n \in 0..LongBits] == IF n = 0 THEN 1 ELSE 2 * Two[n - 1]

\* The value of the low w bits of a long as an unsigned and as a signed number.
Unsigned(x, w) == x % Two[w]
Signed(x, w) == LET u == Unsigned(x, w) IN IF u >= Two[w - 1] THEN u - Two[w] ELSE u

\* The character of fmt at position i; fmt ends with a NUL.
CharAt(fmt, i) == IF i <= Len(fmt) THEN fmt[i] ELSE "NUL"

\* A rung of the ladder that tells the conversions apart: the characters after
\* '%', how the argument is printed, and the width it is cast to.
Rung(k, how, bits) == [k |-> k, how |-> how, bits |-> bits]

\* The rung for the characters from position i of fmt on, the first one that
\* fits; none when there is no such conversion.
NoRung == Rung(<<>>, "none", 0)
Climb(ladder, fmt, i) ==
  LET fits == {n \in DOMAIN ladder : \A j \in DOMAIN ladder[n].k : CharAt(fmt, i + j - 1) = ladder[n].k[j]}
  IN IF fits = {} THEN NoRung ELSE ladder[CHOOSE n \in fits : \A m \in fits : n <= m]

-----------------------------------------------------------------------------
(* The kernel *)

KernelDigits == <<"0", "1", "2", "3", "4", "5", "6", "7", "8", "9", "a", "b", "c", "d", "e", "f">>

\* rust_printint: the digits are produced from the last to the first, at least
\* one, and printed in reverse.  xx.wrapping_neg() of the smallest long is
\* itself, whose unsigned value is the right one.
KernelPrintInt(xx, base, sign) ==
  LET neg == sign /\ xx < 0
      x0 == Unsigned(IF neg THEN -xx ELSE xx, LongBits)
      digits[x \in 0..x0] == Append(IF x \div base = 0 THEN <<>> ELSE digits[x \div base],
                                    KernelDigits[(x % base) + 1])
  IN IF base <= 1 THEN <<>> ELSE IF neg THEN <<"-">> \o digits[x0] ELSE digits[x0]

\* rust_printptr: all the nibbles of a long, from the top.
KernelPrintPtr(x) ==
  <<"0", "x">> \o [i \in 1..(LongBits \div 4) |->
                     KernelDigits[((Unsigned(x, LongBits) \div Two[LongBits - 4 * i]) % 16) + 1]]

KernelLadder ==
  <<Rung(<<"d">>, "signed", IntBits), Rung(<<"l", "d">>, "signed", LongBits),
    Rung(<<"l", "l", "d">>, "signed", LongBits),
    Rung(<<"u">>, "unsigned", IntBits), Rung(<<"l", "u">>, "unsigned", LongBits),
    Rung(<<"l", "l", "u">>, "unsigned", LongBits),
    Rung(<<"x">>, "hex", IntBits), Rung(<<"l", "x">>, "hex", LongBits),
    Rung(<<"l", "l", "x">>, "hex", LongBits),
    Rung(<<"p">>, "ptr", LongBits), Rung(<<"c">>, "char", IntBits), Rung(<<"s">>, "string", LongBits)>>

KernelConvert(r, a) ==
  CASE r.how = "signed" -> KernelPrintInt(Signed(a, r.bits), 10, TRUE)
    [] r.how = "unsigned" -> KernelPrintInt(Unsigned(a, r.bits), 10, FALSE)
    [] r.how = "hex" -> KernelPrintInt(Unsigned(a, r.bits), 16, FALSE)
    [] r.how = "ptr" -> KernelPrintPtr(a)
    [] r.how = "char" -> <<"char">>
    [] r.how = "string" -> IF a = 0 THEN <<"(null)">> ELSE <<"s", "t", "r">>

\* next_arg
KernelArg(args, ai) == IF ai <= KernelArgs THEN args[ai] ELSE 0

\* The loop of printf, from position i of the format and argument ai on.
RECURSIVE KernelPrintf(_, _, _, _)
KernelPrintf(fmt, args, i, ai) ==
  LET c == CharAt(fmt, i)
      c0 == CharAt(fmt, i + 1)
      r == Climb(KernelLadder, fmt, i + 1)
  IN CASE c = "NUL" -> <<>>
       [] c \notin {"%", "NUL"} -> <<c>> \o KernelPrintf(fmt, args, i + 1, ai)
       [] c = "%" /\ r # NoRung ->
            KernelConvert(r, KernelArg(args, ai)) \o KernelPrintf(fmt, args, i + 1 + Len(r.k), ai + 1)
       [] c = "%" /\ c0 = "%" -> <<"%">> \o KernelPrintf(fmt, args, i + 2, ai)
       [] c = "%" /\ c0 = "NUL" -> <<>>
       [] OTHER -> <<"%", c0>> \o KernelPrintf(fmt, args, i + 2, ai)

-----------------------------------------------------------------------------
(* The user's library *)

UserDigits == <<"0", "1", "2", "3", "4", "5", "6", "7", "8", "9", "A", "B", "C", "D", "E", "F">>

\* putc and flush_locked: out is the sequence of write calls, all to one file.
Flush(b) == IF b.buf = <<>> THEN b ELSE [b EXCEPT !.out = Append(@, b.buf), !.buf = <<>>]
Putc(b, c) ==
  LET filled == [b EXCEPT !.buf = Append(@, c)]
  IN IF Len(filled.buf) = PRINTBUF THEN Flush(filled) ELSE filled
Puts(b, s) == FoldLeft(Putc, b, s)

\* Mutant: the digits are produced while x is not zero, none for zero.
UserPrintInt_NoZero(xx, base, sgn) ==
  LET neg == sgn /\ xx < 0
      x0 == Unsigned(IF neg THEN -xx ELSE xx, LongBits)
      digits[x \in 0..x0] == IF x = 0 THEN <<>> ELSE Append(digits[x \div base], UserDigits[(x % base) + 1])
  IN IF neg THEN <<"-">> \o digits[x0] ELSE digits[x0]

\* printint, as above; -xx wraps in the release build.
UserPrintInt(xx, base, sgn) ==
  LET neg == sgn /\ xx < 0
      x0 == Unsigned(IF neg THEN -xx ELSE xx, LongBits)
      digits[x \in 0..x0] == Append(IF x \div base = 0 THEN <<>> ELSE digits[x \div base],
                                    UserDigits[(x % base) + 1])
  IN IF neg THEN <<"-">> \o digits[x0] ELSE digits[x0]

UserPrintPtr(x) ==
  <<"0", "x">> \o [i \in 1..(LongBits \div 4) |->
                     UserDigits[((Unsigned(x, LongBits) \div Two[LongBits - 4 * i]) % 16) + 1]]

UserLadder ==
  <<Rung(<<"d">>, "signed", IntBits), Rung(<<"l", "d">>, "signed", LongBits),
    Rung(<<"l", "l", "d">>, "signed", LongBits),
    Rung(<<"u">>, "unsigned", IntBits), Rung(<<"l", "u">>, "unsigned", LongBits),
    Rung(<<"l", "l", "u">>, "unsigned", LongBits),
    Rung(<<"x">>, "hex", IntBits), Rung(<<"l", "x">>, "hex", LongBits),
    Rung(<<"l", "l", "x">>, "hex", LongBits),
    Rung(<<"p">>, "ptr", LongBits), Rung(<<"c">>, "char", IntBits), Rung(<<"s">>, "string", LongBits)>>

UserConvert(r, a) ==
  CASE r.how = "signed" -> UserPrintInt(Signed(a, r.bits), 10, TRUE)
    [] r.how = "unsigned" -> UserPrintInt(Unsigned(a, r.bits), 10, FALSE)
    [] r.how = "hex" -> UserPrintInt(Unsigned(a, r.bits), 16, FALSE)
    [] r.how = "ptr" -> UserPrintPtr(a)
    [] r.how = "char" -> <<"char">>
    [] r.how = "string" -> IF a = 0 THEN <<"(null)">> ELSE <<"s", "t", "r">>

\* Args: UserArgs of them, and next does not test its index; it goes on with the
\* words behind them in memory, whatever they are.
Args(args, behind) == SubSeq(args, 1, UserArgs) \o behind

\* vprintf_impl: percent is its variable state, b the buffer.
RECURSIVE UserPrintf(_, _, _, _, _, _)
UserPrintf(fmt, args, i, ai, percent, b) ==
  LET c0 == CharAt(fmt, i)
      r == Climb(UserLadder, fmt, i)
  IN CASE c0 = "NUL" -> Flush(b).out
       [] c0 = "%" /\ ~percent -> UserPrintf(fmt, args, i + 1, ai, TRUE, b)
       [] c0 \notin {"%", "NUL"} /\ ~percent ->
            UserPrintf(fmt, args, i + 1, ai, FALSE, Putc(b, c0))
       [] percent /\ r # NoRung ->
            UserPrintf(fmt, args, i + Len(r.k), ai + 1, FALSE, Puts(b, UserConvert(r, args[ai])))
       [] percent /\ c0 = "%" -> UserPrintf(fmt, args, i + 1, ai, FALSE, Putc(b, "%"))
       [] OTHER -> UserPrintf(fmt, args, i + 1, ai, FALSE, Puts(b, <<"%", c0>>))
=============================================================================
