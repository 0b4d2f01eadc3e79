--------------------------------- MODULE Lib --------------------------------
(***************************************************************************)
(* The algorithms of the C library and of grep, each checked against what  *)
(* it should compute.  A behaviour runs one of them: a call of a function, *)
(* chosen with its arguments in the initial state, a grep of a file, or a  *)
(* sequence of calls of malloc and free.                                   *)
(***************************************************************************)
EXTENDS CString, Printf, ShParse, Grep, Umalloc

CONSTANTS
  Calls,       \* the calls of functions: records with fn and the arguments
  None         \* no call, or no result yet

VARIABLES call, ret

libVars == <<call, ret>>
vars == <<libVars, grepVars, mallocVars>>

GrepIdle == pattern = <<>> /\ file = <<>> /\ at = 0 /\ pending = <<>> /\ printed = <<>> /\ done = "end"

\* The names that a walk along a path sees: skipelem again and again, with one
\* name buffer.
RECURSIVE Names(_, _, _)
Names(path, pos, name) ==
  LET e == Skipelem(path, pos, name)
  IN IF e.pos = 0 THEN <<>> ELSE <<e.name>> \o Names(path, e.pos, e.name)

NoName == [i \in 1..DIRSIZ |-> NUL]
Digit == [c \in {KernelDigits[d + 1] : d \in 0..9} |-> CHOOSE d \in 0..9 : KernelDigits[d + 1] = c]

Result(c) ==
  CASE c.fn = "namex" -> Names(c.path, 1, NoName)
    [] c.fn = "namecmp" -> Namecmp(c.name, Strncpy(c.old, c.entry, DIRSIZ))
    [] c.fn = "safestrcpy" -> Safestrcpy(c.s, c.t, c.n)
    [] c.fn = "memmove" -> Memmove(c.mem, c.dst, c.src, c.n)
    [] c.fn = "ulib memmove" -> UlibMemmove(c.mem, c.dst, c.src, c.n)
    [] c.fn = "printint" ->
         [kernel |-> KernelPrintInt(c.x, c.base, c.sign), user |-> UserPrintInt(c.x, c.base, c.sign)]
    [] c.fn = "printf" ->
         [kernel |-> KernelPrintf(c.fmt, c.args, 1, 1),
          user |-> UserPrintf(c.fmt, Args(c.args, c.behind), 1, 1, FALSE, [buf |-> <<>>, out |-> <<>>])]
    [] c.fn = "parsecmd" -> Parsecmd(c.line)

Init ==
  \/ call \in Calls /\ ret = None /\ GrepIdle /\ UmallocInit
  \/ call = None /\ ret = None /\ GrepInit /\ UmallocInit
  \/ call = None /\ ret = None /\ GrepIdle /\ UmallocInit

Run ==
  /\ call # None /\ ret = None
  /\ ret' = Result(call)
  /\ UNCHANGED <<call, grepVars, mallocVars>>

Next ==
  \/ Run
  \/ GrepNext /\ UNCHANGED <<libVars, mallocVars>>
  \/ call = None /\ file = <<>> /\ UmallocNext /\ UNCHANGED <<libVars, grepVars>>

Spec == Init /\ [][Next]_vars

-----------------------------------------------------------------------------
Returned(fn) == call # None /\ call.fn = fn /\ ret # None

\* The elements of a path: the longest runs without a '/'.
Elements(path) ==
  LET ends == {i \in DOMAIN path : path[i] \in {SLASH, NUL}}
      starts == {i \in DOMAIN path \ ends : i = 1 \/ i - 1 \in ends}
      end(i) == Min({j \in ends : j > i})
  IN [k \in 1..Cardinality(starts) |->
        LET i == CHOOSE i \in starts : Cardinality({j \in starts : j < i}) = k - 1
        IN SubSeq(path, i, end(i) - 1)]

Cut(s, n) == SubSeq(s, 1, Min({n, Len(s)}))
Padded(s) == [i \in 1..DIRSIZ |-> IF i <= Len(s) THEN s[i] ELSE NUL]

\* skipelem cuts a path into its elements, however many slashes there are and
\* whatever an earlier element left in the name buffer: each name compares equal
\* to the directory entry of its element, cut to DIRSIZ bytes.
PathNames ==
  Returned("namex") =>
    LET el == Elements(call.path)
    IN /\ Len(ret) = Len(el)
       /\ \A i \in DOMAIN ret : Namecmp(ret[i], Padded(Cut(el[i], DIRSIZ))) = 0
                                /\ \A j \in DOMAIN ret :
                                     Namecmp(ret[i], ret[j]) = 0
                                       <=> Cut(el[i], DIRSIZ) = Cut(el[j], DIRSIZ)

\* A name written to a directory entry by dirlink's strncpy is found by
\* dirlookup's strncmp under the same name and under no other, over what the
\* entry held before and for names that fill it without a NUL.
EntryFound ==
  Returned("namecmp") =>
    (ret = 0 <=> Cut(call.name, Min({Strlen(call.name), DIRSIZ}))
                   = Cut(call.entry, Min({Strlen(call.entry), DIRSIZ})))

\* safestrcpy leaves a string in n bytes, a prefix of the one it copies and all
\* of it if it fits, and writes nothing behind the n bytes.
CopyTerminated ==
  Returned("safestrcpy") =>
    /\ \A i \in DOMAIN ret : i > call.n => ret[i] = call.s[i]
    /\ call.n > 0 =>
         LET len == Min({Strlen(call.t), call.n - 1})
         IN Strlen(ret) = len /\ Cut(ret, len) = Cut(call.t, len)

\* memmove copies as if it first read all bytes and then wrote them, in the
\* kernel and in ulib, for every overlap of source and destination.
MoveExact ==
  Returned("memmove") \/ Returned("ulib memmove") =>
    \A i \in DOMAIN ret :
      ret[i] = IF i - call.dst \in 0..(call.n - 1) THEN call.mem[call.src + i - call.dst]
               ELSE call.mem[i]

\* The string functions of the kernel and of ulib agree with their definitions
\* for all strings up to the bound, in the uses the file system makes of them.
StringsExact == PathNames /\ EntryFound /\ CopyTerminated /\ MoveExact

\* The number that a numeral stands for, given its digits from 0 on.
Numeral(s, digits, base) ==
  FoldLeft(LAMBDA n, c : n * base + (CHOOSE d \in 0..(base - 1) : digits[d + 1] = c), 0, s)
Number(s, digits, base) ==
  IF s[1] = "-" THEN -Numeral(Tail(s), digits, base) ELSE Numeral(s, digits, base)

\* A number that either printint prints, read back, is the number, in both bases
\* and for the smallest long and zero too; atoi reads the decimal ones.
NumbersRoundTrip ==
  Returned("printint") =>
    LET n == IF call.sign THEN call.x ELSE Unsigned(call.x, LongBits)
    IN /\ {<<>>, <<"-">>} \cap {ret.kernel, ret.user} = {}
       /\ Number(ret.kernel, KernelDigits, call.base) = n
       /\ Number(ret.user, UserDigits, call.base) = n
       /\ call.base = 10 /\ n >= 0 => Atoi(ret.user, Digit) = n

\* What one conversion prints, by its letters: the last one for the base and the
\* sign, an l for the width.
Meant(k, a) ==
  LET bits == IF "l" \in ToSet(k) THEN LongBits ELSE IntBits
  IN IF Last(k) = "d" THEN Signed(a, bits) ELSE Unsigned(a, bits)
OneNumber ==
  {<<"%">> \o l \o <<c>> : l \in {<<>>, <<"l">>, <<"l", "l">>}, c \in {"d", "u", "x"}}

\* Each printf prints the number that its conversion means.
ConversionsExact ==
  Returned("printf") /\ call.fmt \in OneNumber =>
    LET base == IF Last(call.fmt) = "x" THEN 16 ELSE 10
        n == Meant(Tail(call.fmt), call.args[1])
    IN /\ Number(ret.kernel, KernelDigits, base) = n
       /\ Number(FlattenSeq(ret.user), UserDigits, base) = n

\* The digits of the kernel are in lower case and those of the user's library in
\* upper case.
Lower(s) ==
  [i \in DOMAIN s |-> IF s[i] \in ToSet(UserDigits)
                      THEN KernelDigits[CHOOSE d \in DOMAIN UserDigits : UserDigits[d] = s[i]]
                      ELSE s[i]]

\* The two implementations of printf, a scan with look-ahead in the kernel and an
\* automaton in user/printf.rs, print the same up to the case of digits, for every
\* format too short to ask for more arguments than the latter has; its buffer loses
\* nothing and writes at most PRINTBUF bytes at a time.
PrintfsAgree ==
  Returned("printf") =>
    /\ Len(call.fmt) <= 2 * UserArgs + 1 => Lower(FlattenSeq(ret.user)) = ret.kernel
    /\ \A i \in DOMAIN ret.user : Len(ret.user[i]) \in 1..PRINTBUF

\* What is printed is what was meant: numbers come out right from both printfs, by
\* themselves and by conversion, and the two read every format alike.
PrintfsExact == NumbersRoundTrip /\ ConversionsExact /\ PrintfsAgree

-----------------------------------------------------------------------------
\* The grammar of the shell, as the set of trees that a sequence of tokens has:
\*   line ::= back [";" line]     back ::= pipe {"&"}     pipe ::= exec ["|" pipe]
\*   exec ::= "(" line ")" redirections  |  words and redirections
Upto(s, i) == SubSeq(s, 1, i - 1)

RedirStarts(s) == {i \in DOMAIN s : s[i] \in Redirs}
SimpleTrees(s) ==
  LET rs == SetToSortSeq(RedirStarts(s), <)
      words == {i \in DOMAIN s : s[i] \notin SYMBOLS /\ i - 1 \notin RedirStarts(s)}
      argv == [k \in 1..Cardinality(words) |-> s[SetToSortSeq(words, <)[k]]]
  IN IF /\ \A i \in DOMAIN s : s[i] \in SYMBOLS => s[i] \in Redirs
        /\ \A i \in RedirStarts(s) : i + 1 \in DOMAIN s /\ s[i + 1] \notin SYMBOLS
        /\ Len(argv) < MAXARGS
     THEN {FoldLeft(LAMBDA c, i : Redirect(c, s[i], s[i + 1]), Execcmd(argv), rs)}
     ELSE {}

RECURSIVE LineTrees(_)
BlockTrees(s) ==
  UNION {LET t == SimpleTrees(From(s, i + 1))
             redirs == [k \in 1..((Len(s) - i) \div 2) |-> i + 2 * k - 1]
         IN IF (Len(s) - i) % 2 = 0 /\ \A k \in DOMAIN redirs : s[redirs[k]] \in Redirs /\ t # {}
            THEN {FoldLeft(LAMBDA c, j : Redirect(c, s[j], s[j + 1]), l, redirs) :
                    l \in LineTrees(SubSeq(s, 2, i - 1))}
            ELSE {} : i \in {j \in 2..Len(s) : s[1] = "(" /\ s[j] = ")"}}

ExecTrees(s) == SimpleTrees(s) \cup BlockTrees(s)

RECURSIVE PipeTrees(_)
PipeTrees(s) ==
  ExecTrees(s) \cup
  UNION {{Pipecmd(l, r) : l \in ExecTrees(Upto(s, i)), r \in PipeTrees(From(s, i + 1))} :
           i \in {j \in DOMAIN s : s[j] = "|"}}

RECURSIVE BackTrees(_)
BackTrees(s) ==
  PipeTrees(s) \cup
  IF s # <<>> /\ s[Len(s)] = "&" THEN {Backcmd(t) : t \in BackTrees(Front(s))} ELSE {}

LineTrees(s) ==
  BackTrees(s) \cup
  UNION {{Listcmd(l, r) : l \in BackTrees(Upto(s, i)), r \in LineTrees(From(s, i + 1))} :
           i \in {j \in DOMAIN s : s[j] = ";"}}

\* The shell's parser, which decides by the next token alone, finds the tree of
\* every line of the grammar, the only one it has, and refuses all other lines.
ParserExact ==
  Returned("parsecmd") =>
    LineTrees(call.line) = IF ret = SyntaxError THEN {} ELSE {ret}
=============================================================================
