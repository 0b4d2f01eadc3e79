------------------------------ MODULE CString -------------------------------
(***************************************************************************)
(* The string and memory functions of kernel/rust_string.rs and            *)
(* user/ulib.rs, and skipelem of kernel/rust_fs.rs that cuts a path into   *)
(* names.  A character is a number and 0 is NUL; a string is a sequence    *)
(* with a NUL in it; memory is a sequence and a pointer an index.          *)
(***************************************************************************)
EXTENDS Integers, Sequences, SequencesExt

CONSTANTS
  DIRSIZ,      \* bytes of a name in a directory entry
  SLASH        \* the code of '/'

NUL == 0

\* The number of rounds of a loop of at most n rounds that ends in round i
\* (counted from 0) when Stop(i) holds.
Rounds(n, Stop(_)) ==
  LET from[i \in 0..n] == IF i = n \/ Stop(i) THEN i ELSE from[i + 1]
  IN from[0]

Strlen(s) == Rounds(Len(s), LAMBDA i : s[i + 1] = NUL)

Strncmp(p, q, n) ==
  LET k == Rounds(n, LAMBDA i : p[i + 1] = NUL \/ p[i + 1] # q[i + 1])
  IN IF k = n THEN 0 ELSE p[k + 1] - q[k + 1]

Namecmp(s, t) == Strncmp(s, t, DIRSIZ)

\* The copying loop of strncpy goes on until it has copied a NUL or n bytes;
\* the rest is filled with NULs.
Strncpy(s, t, n) ==
  LET k == Rounds(n, LAMBDA i : i > 0 /\ t[i] = NUL)
  IN [i \in DOMAIN s |-> IF i > n THEN s[i] ELSE IF i <= k THEN t[i] ELSE NUL]

\* safestrcpy copies at most n - 1 bytes and ends with a NUL in any case.
Safestrcpy(s, t, n) ==
  LET k == Rounds(n - 1, LAMBDA i : i > 0 /\ t[i] = NUL)
  IN IF n <= 0 THEN s
     ELSE [i \in DOMAIN s |-> IF i <= k THEN t[i] ELSE IF i = k + 1 THEN NUL ELSE s[i]]

\* A copy of n bytes one at a time, in the given order of offsets.
CopyLoop(mem, dst, src, order) ==
  FoldLeft(LAMBDA m, i : [m EXCEPT ![dst + i] = m[src + i]], mem, order)

Forward(n) == [i \in 1..n |-> i - 1]
Backward(n) == [i \in 1..n |-> n - i]

\* memmove of the kernel copies backwards only when the end of the source
\* overlaps the destination.
Memmove(mem, dst, src, n) ==
  CopyLoop(mem, dst, src, IF src < dst /\ src + n > dst THEN Backward(n) ELSE Forward(n))

\* memmove of ulib.rs tests the order of the pointers alone.
UlibMemmove(mem, dst, src, n) ==
  CopyLoop(mem, dst, src, IF src > dst THEN Forward(n) ELSE Backward(n))

\* atoi of ulib.rs; digit has the codes of the digits as its domain, and their values.
Atoi(s, digit) ==
  FoldLeft(LAMBDA n, c : n * 10 + digit[c], 0,
           SubSeq(s, 1, Rounds(Len(s), LAMBDA i : s[i + 1] \notin DOMAIN digit)))

-----------------------------------------------------------------------------
\* From pos on, the first position of path that holds, or does not hold, a '/'
\* (or a NUL when a name is skipped).
SkipSlashes(path, pos) == pos + Rounds(Len(path), LAMBDA i : path[pos + i] # SLASH)
SkipName(path, pos) == pos + Rounds(Len(path), LAMBDA i : path[pos + i] \in {SLASH, NUL})

\* Mutant: a short name gets no NUL.
Skipelem_NoNul(path, pos, name) ==
  LET s == SkipSlashes(path, pos)
      e == SkipName(path, s)
      len == e - s
  IN IF path[s] = NUL THEN [name |-> name, pos |-> 0]
     ELSE [pos |-> SkipSlashes(path, e),
           name |-> [i \in 1..DIRSIZ |-> IF i <= len THEN path[s + i - 1] ELSE name[i]]]

\* skipelem: the name buffer with the next element of path in it, and where
\* the element after it starts; pos = 0 stands for a null pointer.  A short
\* name gets a NUL; a name of DIRSIZ bytes or more is cut and has none.
Skipelem(path, pos, name) ==
  LET s == SkipSlashes(path, pos)
      e == SkipName(path, s)
      len == e - s
  IN IF path[s] = NUL THEN [name |-> name, pos |-> 0]
     ELSE [pos |-> SkipSlashes(path, e),
           name |-> IF len >= DIRSIZ THEN [i \in 1..DIRSIZ |-> path[s + i - 1]]
                    ELSE [i \in 1..DIRSIZ |-> IF i <= len THEN path[s + i - 1]
                                              ELSE IF i = len + 1 THEN NUL ELSE name[i]]]
=============================================================================
