------------------------------ MODULE ShParse -------------------------------
(***************************************************************************)
(* The parser of user/sh.rs.  A line is a sequence of the tokens that      *)
(* gettoken finds: the symbols, "+" standing for ">>", and words.  A       *)
(* parser takes the tokens that are left and returns the command and the   *)
(* tokens after it; SyntaxError stands for panic_msg, which exits.         *)
(***************************************************************************)
EXTENDS Naturals, Sequences, SequencesExt

CONSTANTS MAXARGS, SyntaxError

SYMBOLS == {"<", "|", ">", "+", "&", ";", "(", ")"}

Execcmd(argv) == [type |-> "EXEC", argv |-> argv]
Redircmd(cmd, file, mode, fd) ==
  [type |-> "REDIR", cmd |-> cmd, file |-> file, mode |-> mode, fd |-> fd]
Pipecmd(left, right) == [type |-> "PIPE", left |-> left, right |-> right]
Listcmd(left, right) == [type |-> "LIST", left |-> left, right |-> right]
Backcmd(cmd) == [type |-> "BACK", cmd |-> cmd]

\* peek looks at the first character of a token: ">" stands for ">>" too.
Peek(s, toks) == s # <<>> /\ s[1] \in toks
Redirs == {"<", ">", "+"}
IsWord(s) == s # <<>> /\ s[1] \notin SYMBOLS

\* What a redirection opens, by its token.
Redirect(cmd, tok, file) ==
  CASE tok = "<" -> Redircmd(cmd, file, {"read"}, 0)
    [] tok = ">" -> Redircmd(cmd, file, {"write", "create", "trunc"}, 1)
    [] tok = "+" -> Redircmd(cmd, file, {"write", "create"}, 1)

Parsed(cmd, rest) == [cmd |-> cmd, rest |-> rest]

\* The rest of a parser after its first part r, unless that was an error.
Then(r, F(_)) == IF r = SyntaxError THEN SyntaxError ELSE F(r)

\* parseredirs, and the argument loop of parseexec.  The command is built
\* inside out: the redirections of a command are applied to what stands to
\* their left, so wraps, the redirections so far, is kept apart from argv.
RECURSIVE Parseredirs(_, _)
Parseredirs(wraps, s) ==
  IF ~Peek(s, Redirs) THEN Parsed(wraps, s)
  ELSE IF ~IsWord(Tail(s)) THEN SyntaxError
  ELSE Parseredirs(Append(wraps, <<s[1], s[2]>>), SubSeq(s, 3, Len(s)))

Wrap(cmd, wraps) == FoldLeft(LAMBDA c, w : Redirect(c, w[1], w[2]), cmd, wraps)

RECURSIVE Parseargs(_, _, _)
Parseargs(argv, wraps, s) ==
  IF s = <<>> \/ Peek(s, {"|", ")", "&", ";"}) THEN Parsed(Wrap(Execcmd(argv), wraps), s)
  ELSE IF ~IsWord(s) \/ Len(argv) + 1 >= MAXARGS THEN SyntaxError
  ELSE Then(Parseredirs(wraps, Tail(s)), LAMBDA r : Parseargs(Append(argv, s[1]), r.cmd, r.rest))

RECURSIVE Parseline(_)

Parseblock(s) ==
  Then(Parseline(Tail(s)), LAMBDA r :
    IF ~Peek(r.rest, {")"}) THEN SyntaxError
    ELSE Then(Parseredirs(<<>>, Tail(r.rest)), LAMBDA q : Parsed(Wrap(r.cmd, q.cmd), q.rest)))

Parseexec(s) ==
  IF Peek(s, {"("}) THEN Parseblock(s)
  ELSE Then(Parseredirs(<<>>, s), LAMBDA r : Parseargs(<<>>, r.cmd, r.rest))

RECURSIVE Parsepipe(_)
Parsepipe(s) ==
  Then(Parseexec(s), LAMBDA l :
    IF ~Peek(l.rest, {"|"}) THEN l
    ELSE Then(Parsepipe(Tail(l.rest)), LAMBDA r : Parsed(Pipecmd(l.cmd, r.cmd), r.rest)))

\* Mutant: one & only.
Backs_Once(r) == IF Peek(r.rest, {"&"}) THEN Parsed(Backcmd(r.cmd), Tail(r.rest)) ELSE r

\* The loop of parseline over "&".
RECURSIVE Backs(_)
Backs(r) == IF Peek(r.rest, {"&"}) THEN Backs(Parsed(Backcmd(r.cmd), Tail(r.rest))) ELSE r

Parseline(s) ==
  Then(Parsepipe(s), LAMBDA p :
    LET l == Backs(p)
    IN IF ~Peek(l.rest, {";"}) THEN l
       ELSE Then(Parseline(Tail(l.rest)), LAMBDA r : Parsed(Listcmd(l.cmd, r.cmd), r.rest)))

\* parsecmd: leftovers are an error.
Parsecmd(s) ==
  Then(Parseline(s), LAMBDA r : IF r.rest # <<>> THEN SyntaxError ELSE r.cmd)
=============================================================================
