------------------------------- MODULE MCLib --------------------------------
(* The calls and files that Lib is run on.                                 *)
EXTENDS Lib

Strings(S, n) == UNION {[1..k -> S] : k \in 0..n}
Buffers(S, n) == [1..n -> S]

NameChars == {NUL, 2, 3}
ArgLists == {<<5, 250, 6, 7>>, <<250, 0, 128, 9>>}

MCCalls ==
  {[fn |-> "namex", path |-> Append(p, NUL)] : p \in Strings({SLASH, 2, 3}, 6)} \cup
  [fn : {"namecmp"}, name : Buffers(NameChars, DIRSIZ), entry : Buffers(NameChars, DIRSIZ),
   old : {NoName, [NoName EXCEPT ![DIRSIZ] = 2], [i \in 1..DIRSIZ |-> 3]}] \cup
  {[fn |-> "safestrcpy", s |-> <<9, 9, 9, 9>>, t |-> Append(t, NUL), n |-> n] :
     t \in Buffers(NameChars, 4), n \in 0..4} \cup
  {c \in [fn : {"memmove", "ulib memmove"}, mem : {<<1, 2, 3, 4, 5, 6>>},
          dst : 1..6, src : 1..6, n : 0..5] : c.dst + c.n <= 7 /\ c.src + c.n <= 7} \cup
  [fn : {"printint"}, x : (-Two[LongBits - 1])..(Two[LongBits - 1] - 1),
   base : {10, 16}, sign : BOOLEAN] \cup
  [fn : {"printf"}, args : ArgLists, behind : {<<>>},
   fmt : Strings({"%", "l", "d", "z"}, 6) \cup Strings({"%", "x", "p", "c", "s", "u"}, 4)
         \cup OneNumber] \cup
  [fn : {"printf"}, args : ArgLists, behind : {<<0, 0>>, <<250, 5>>}, fmt : Strings({"%", "d"}, 10)] \cup
  [fn : {"parsecmd"}, line : Strings({"a", "|", "&", ";", "(", ")", ">"}, 5)
                             \cup Strings({"a", "<", "+"}, 6)]

Texts == {Append(t, NL) : t \in Strings({"a", "b"}, 3)}
Files ==
  Texts \cup {<<"a", NL, "b", "a", NL>>, <<NL, "a", "b", NL, "a">>, <<"b", "b", "a", "b", "a", NL>>,
              <<"a", NL, NL, "b", NL, "a", "a">>}
MCJobs == Strings({"a", ".", "*", "^", "$"}, 3) \X Files
=============================================================================
