-------------------------------- MODULE Grep --------------------------------
(***************************************************************************)
(* user/grep.rs: the matcher, and the loop that reads a file in pieces     *)
(* into a buffer and prints the lines that match.  Characters are strings  *)
(* of length one; a regular expression and a text are sequences of them,   *)
(* "NUL" being what stands behind their last character.                    *)
(***************************************************************************)
EXTENDS Naturals, Sequences, FiniteSets, SequencesExt

CONSTANTS
  SIZE,        \* bytes of BUF
  Jobs         \* pairs of a pattern and the contents of a file

VARIABLES
  pattern, file,  \* the arguments
  at,             \* bytes of the file read so far
  pending,        \* the first m bytes of BUF
  printed,        \* the lines written
  done            \* how grep has returned, or "no"

grepVars == <<pattern, file, at, pending, printed, done>>

NL == "n"
At(s, i) == IF i <= Len(s) THEN s[i] ELSE "NUL"
From(s, i) == SubSeq(s, i, Len(s))

-----------------------------------------------------------------------------
RECURSIVE MatchHere(_, _)

\* Mutant: a starred character matches at least once.
MatchStar_Plus(c, re, text) ==
  /\ At(text, 1) # "NUL" /\ c \in {".", text[1]}
  /\ MatchHere(re, Tail(text)) \/ MatchHere(<<c, "*">> \o re, Tail(text))

\* match_star: c* followed by re.
RECURSIVE MatchStar(_, _, _)
MatchStar(c, re, text) ==
  \/ MatchHere(re, text)
  \/ /\ At(text, 1) # "NUL" /\ c \in {".", text[1]}
     /\ MatchStar(c, re, Tail(text))

MatchHere(re, text) ==
  IF re = <<>> THEN TRUE
  ELSE IF At(re, 2) = "*" THEN MatchStar(re[1], From(re, 3), text)
  ELSE IF re = <<"$">> THEN text = <<>>
  ELSE /\ text # <<>> /\ re[1] \in {".", text[1]}
       /\ MatchHere(Tail(re), Tail(text))

\* match_re: at the start when re begins with '^', or anywhere.
MatchRe(re, text) ==
  IF At(re, 1) = "^" THEN MatchHere(Tail(re), text)
  ELSE \E i \in 1..(Len(text) + 1) : MatchHere(re, From(text, i))

-----------------------------------------------------------------------------
GrepInit ==
  /\ \E j \in Jobs : pattern = j[1] /\ file = j[2]
  /\ at = 0 /\ pending = <<>> /\ printed = <<>> /\ done = "no"

\* The lines that end in buf, and what comes behind the last of them.
Split(buf) ==
  FoldLeft(LAMBDA a, c : IF c = NL THEN [lines |-> Append(a.lines, a.rest), rest |-> <<>>]
                         ELSE [a EXCEPT !.rest = Append(@, c)],
           [lines |-> <<>>, rest |-> <<>>], buf)

\* One round of grep: read returns n bytes, as many as it likes of what fits;
\* whole lines are matched, and memmove keeps the rest.
GrepRead ==
  /\ done = "no"
  /\ \E n \in 1..(SIZE - Len(pending) - 1) :
       /\ at + n <= Len(file)
       /\ at' = at + n
       /\ LET s == Split(pending \o SubSeq(file, at + 1, at + n))
          IN /\ printed' = printed \o SelectSeq(s.lines, LAMBDA l : MatchRe(pattern, l))
             /\ pending' = s.rest
  /\ UNCHANGED <<pattern, file, done>>

\* read returns 0: at the end of the file, or because BUF is full of a line
\* that has not ended.
GrepReturn ==
  /\ done = "no"
  /\ at = Len(file) \/ Len(pending) = SIZE - 1
  /\ done' = "end"
  /\ UNCHANGED <<pattern, file, at, pending, printed>>

\* read returns -1: grep returns too, in the middle of the file.
GrepReadFails ==
  /\ done = "no"
  /\ done' = "error"
  /\ UNCHANGED <<pattern, file, at, pending, printed>>

GrepNext == GrepRead \/ GrepReturn \/ GrepReadFails

-----------------------------------------------------------------------------
\* What a pattern means, without the matcher: a sequence of characters, each
\* starred or not, anchored at either end or not.
RECURSIVE Atoms(_)
Atoms(re) ==
  IF re = <<>> THEN <<>>
  ELSE IF At(re, 2) = "*" THEN <<[c |-> re[1], star |-> TRUE]>> \o Atoms(From(re, 3))
  ELSE <<[c |-> re[1], star |-> FALSE]>> \o Atoms(Tail(re))

\* The positions of text reached from those in S by one atom.
Fits(text, a, p) == p <= Len(text) /\ a.c \in {".", text[p]}
Reach(text, a, S) ==
  IF ~a.star THEN {p + 1 : p \in {q \in S : Fits(text, a, q)}}
  ELSE {p \in 1..(Len(text) + 1) :
          \E q \in S : q <= p /\ \A k \in q..(p - 1) : Fits(text, a, k)}

Matches(re, text) ==
  LET left == At(re, 1) = "^"
      body == Atoms(IF left THEN Tail(re) ELSE re)
      right == body # <<>> /\ body[Len(body)] = [c |-> "$", star |-> FALSE]
      atoms == IF right THEN Front(body) ELSE body
      ends == FoldLeft(LAMBDA S, a : Reach(text, a, S),
                       IF left THEN {1} ELSE 1..(Len(text) + 1), atoms)
  IN IF right THEN Len(text) + 1 \in ends ELSE ends # {}

\* grep prints the lines that match, whatever pieces read returns the file in:
\* all the lines that end with a newline, or, when one of them does not fit
\* into BUF, those before the first such line, or, when read fails, those read.
GrepPrintsMatches ==
  LET lines == Split(file).lines
      all == Append(lines, Split(file).rest)
      long == {i \in DOMAIN all : Len(all[i]) >= SIZE - 1}
      some == Split(SubSeq(file, 1, at)).lines
      upto == IF long = {} THEN Len(lines) ELSE (CHOOSE i \in long : \A j \in long : i <= j) - 1
  IN /\ done = "end" => printed = SelectSeq(SubSeq(lines, 1, upto), LAMBDA l : Matches(pattern, l))
     /\ done = "error" => printed = SelectSeq(some, LAMBDA l : Matches(pattern, l))
=============================================================================
