-------------------------------- MODULE File --------------------------------
(***************************************************************************)
(* The file table of kernel/rust_file.rs, the descriptor tables that point *)
(* into it, and the ends of the pipes it holds.                            *)
(*                                                                         *)
(* A system call is one step, but for two.  The last fileclose of a file   *)
(* gives the slot back under the table's lock and closes what the slot     *)
(* stood for after it has dropped the lock.  sys_pipe takes two slots, a   *)
(* page and two descriptors one after the other, and gives them back when  *)
(* one of them fails.                                                      *)
(***************************************************************************)
EXTENDS Integers, Sequences, FiniteSets, FiniteSetsExt

CONSTANTS
  Procs,       \* slots of the process table, numbers
  NFILE,       \* slots of the file table
  NOFILE,      \* descriptors of a process
  Pages,       \* pages for pipes, numbers
  PIPESIZE,
  None

VARIABLES
  ftable,      \* FTABLE.file
  pipe,        \* the pipe in each page: its open ends and the bytes in it
  ofile,       \* Proc.ofile
  closing,     \* ff of a fileclose past its lock
  making       \* sys_pipe's rf and wf, and whether it is on its way back

fileVars == <<ftable, pipe, ofile, closing, making>>

Files == 1..NFILE
Fds == 0..(NOFILE - 1)

FreeFile == [ref |-> 0, type |-> "NONE", what |-> None, readable |-> FALSE, writable |-> FALSE]
FreePipe == [open |-> {}, n |-> 0]
NoFiles == [files |-> <<>>, undo |-> FALSE]

FileInit ==
  /\ ftable = [f \in Files |-> FreeFile]
  /\ pipe = [k \in Pages |-> FreePipe]
  /\ ofile = [p \in Procs |-> [fd \in Fds |-> None]]
  /\ closing = [p \in Procs |-> None]
  /\ making = [p \in Procs |-> NoFiles]

\* The lowest of a set of numbers, or None: a scan of a table.
First(S) == IF S = {} THEN None ELSE Min(S)

FreeFiles == {f \in Files : ftable[f].ref = 0}
FreeFds(p) == {fd \in Fds : ofile[p][fd] = None}
Fdalloc(p) == First(FreeFds(p))

\* argfd
Open(p, fd) == fd \in Fds /\ ofile[p][fd] # None

\* The descriptor open returns, None standing for -1.
NewFd(p) == IF FreeFiles = {} THEN None ELSE Fdalloc(p)

\* sys_open, without the inode, which Fs has; it changes nothing when it fails.
SysOpen(p, type, what, readable, writable) ==
  LET f == First(FreeFiles)
  IN /\ NewFd(p) # None
     /\ ftable' = [ftable EXCEPT ![f] = [ref |-> 1, type |-> type, what |-> what,
                                         readable |-> readable, writable |-> writable]]
     /\ ofile' = [ofile EXCEPT ![p][NewFd(p)] = f]
     /\ UNCHANGED <<pipe, closing, making>>

SysDup(p, fd) ==
  /\ Open(p, fd) /\ Fdalloc(p) # None
  /\ ofile' = [ofile EXCEPT ![p][Fdalloc(p)] = ofile[p][fd]]
  /\ ftable' = [ftable EXCEPT ![ofile[p][fd]].ref = @ + 1]
  /\ UNCHANGED <<pipe, closing, making>>

\* fileclose up to the release of the table's lock.
Fileclose(p, f) ==
  /\ IF ftable[f].ref > 1
     THEN ftable' = [ftable EXCEPT ![f].ref = @ - 1] /\ UNCHANGED closing
     ELSE /\ ftable' = [ftable EXCEPT ![f] = FreeFile]
          /\ closing' = [closing EXCEPT ![p] = IF ftable[f].type = "PIPE" THEN ftable[f] ELSE None]
  /\ UNCHANGED pipe

CloseFd(p, fd) ==
  /\ Fileclose(p, ofile[p][fd])
  /\ ofile' = [ofile EXCEPT ![p][fd] = None]
  /\ UNCHANGED making

\* The programs here close and dup open descriptors only.
SysClose(p, fd) == Open(p, fd) /\ CloseFd(p, fd)

\* pipeclose: one end; the page is free when both are closed.
Closed(ff) ==
  LET open == pipe[ff.what].open \ {IF ff.writable THEN "w" ELSE "r"}
  IN pipe' = [pipe EXCEPT ![ff.what] = IF open = {} THEN FreePipe ELSE [@ EXCEPT !.open = open]]

\* fileclose after the lock: pipeclose.  For an inode there is iput, which Fs has.
FilecloseEnd(p) ==
  /\ closing[p] # None
  /\ Closed(closing[p])
  /\ closing' = [closing EXCEPT ![p] = None]
  /\ UNCHANGED <<ftable, ofile, making>>

\* sys_pipe is in progress and has got the slots, the page.
Making(p, slots, page) ==
  LET files == making[p].files
  IN /\ ~making[p].undo
     /\ slots = Len(files)
     /\ page = (files # <<>> /\ ftable[files[1]].type = "PIPE")

\* pipealloc: one filealloc, and the next.
PipeFile(p) ==
  LET f == First(FreeFiles)
  IN /\ \E k \in 0..1 : Making(p, k, FALSE)
     /\ f # None
     /\ ftable' = [ftable EXCEPT ![f].ref = 1]
     /\ making' = [making EXCEPT ![p].files = Append(@, f)]
     /\ UNCHANGED <<pipe, ofile, closing>>

\* pipealloc: the page, and the two files become its ends.
NewPage == First({k \in Pages : pipe[k].open = {}})

PipePage(p) ==
  LET end(w) == [ref |-> 1, type |-> "PIPE", what |-> NewPage, readable |-> ~w, writable |-> w]
      files == making[p].files
  IN /\ Making(p, 2, FALSE) /\ NewPage # None
     /\ ftable' = [ftable EXCEPT ![files[1]] = end(FALSE), ![files[2]] = end(TRUE)]
     /\ pipe' = [pipe EXCEPT ![NewPage] = [open |-> {"r", "w"}, n |-> 0]]
     /\ UNCHANGED <<ofile, closing, making>>

\* sys_pipe: two descriptors, whose numbers copyout gives to the caller.
NewFds(p) == <<Fdalloc(p), First(FreeFds(p) \ {Fdalloc(p)})>>

PipeFds(p) ==
  LET fds == NewFds(p)
      files == making[p].files
  IN /\ Making(p, 2, TRUE) /\ None \notin {fds[1], fds[2]}
     /\ ofile' = [ofile EXCEPT ![p][fds[1]] = files[1], ![p][fds[2]] = files[2]]
     /\ making' = [making EXCEPT ![p] = NoFiles]
     /\ UNCHANGED <<ftable, pipe, closing>>

\* No slot, no page, no descriptor, or a copyout without memory for the page it
\* writes to: the descriptors are free again and the files are to be closed.
PipeBlocked(p) ==
  \/ (\E k \in 0..1 : Making(p, k, FALSE)) /\ FreeFiles = {}
  \/ Making(p, 2, FALSE) /\ NewPage = None
  \/ Making(p, 2, TRUE)

\* Mutant: the way back knows of the file for reading only.
PipeFails_OneFile(p) ==
  /\ PipeBlocked(p)
  /\ making' = [making EXCEPT ![p] = [files |-> SubSeq(@.files, 1, 1), undo |-> TRUE]]
  /\ UNCHANGED <<ftable, pipe, ofile, closing>>

PipeFails(p) ==
  /\ PipeBlocked(p)
  /\ making' = [making EXCEPT ![p].undo = TRUE]
  /\ UNCHANGED <<ftable, pipe, ofile, closing>>

\* On the way back: fileclose of rf, then of wf, and -1.
PipeClose(p) ==
  /\ making[p].undo /\ making[p].files # <<>>
  /\ Fileclose(p, Head(making[p].files))
  /\ making' = [making EXCEPT ![p].files = Tail(@)]
  /\ UNCHANGED ofile

PipeError(p) ==
  /\ making[p].undo /\ making[p].files = <<>>
  /\ making' = [making EXCEPT ![p] = NoFiles]
  /\ UNCHANGED <<ftable, pipe, ofile, closing>>

\* The loop of kfork over the descriptors: the child shares every file.
ForkFiles(p, np) ==
  /\ ofile' = [ofile EXCEPT ![np] = ofile[p]]
  /\ ftable' = [f \in Files |->
                  [ftable[f] EXCEPT !.ref = @ + Cardinality({fd \in Fds : ofile[p][fd] = f})]]
  /\ UNCHANGED <<pipe, closing, making>>

\* The loop of kexit over the descriptors, one round.
ExitClose(p) == CloseFd(p, Min(Fds \ FreeFds(p)))

-----------------------------------------------------------------------------
\* What descriptor fd reads from and writes to; each has the mode it is used in.
FileOf(p, fd) == ftable[ofile[p][fd]]
Pipes(p, fd) == IF FileOf(p, fd).type = "PIPE" THEN {FileOf(p, fd).what} ELSE {}

\* fileread: n is what read returns.  Files are empty here and the console is at
\* the end of its input.
Fileread(p, fd, n) ==
  /\ FileOf(p, fd).readable
  /\ \/ Pipes(p, fd) = {} /\ n = 0 /\ UNCHANGED pipe
     \/ \E k \in Pipes(p, fd) : pipe[k].n > 0 /\ n = 1 /\ pipe' = [pipe EXCEPT ![k].n = @ - 1]
     \/ \E k \in Pipes(p, fd) : pipe[k].n = 0 /\ "w" \notin pipe[k].open /\ n = 0 /\ UNCHANGED pipe

\* filewrite of one byte.
Filewrite(p, fd, n) ==
  /\ FileOf(p, fd).writable
  /\ \/ Pipes(p, fd) = {} /\ n = 1 /\ UNCHANGED pipe
     \/ \E k \in Pipes(p, fd) : "r" \notin pipe[k].open /\ n = -1 /\ UNCHANGED pipe
     \/ \E k \in Pipes(p, fd) : /\ "r" \in pipe[k].open /\ pipe[k].n < PIPESIZE
                                /\ n = 1 /\ pipe' = [pipe EXCEPT ![k].n = @ + 1]

-----------------------------------------------------------------------------
\* The reference count of a file is the number of descriptors that point to it, over
\* dup, fork, close and exit of all processes, and one for a sys_pipe in progress: it
\* is closed with the last of them and not before.  A descriptor points to a file
\* that has become something.
RefsExact ==
  /\ \A f \in Files :
       ftable[f].ref = Cardinality({pf \in Procs \X Fds : ofile[pf[1]][pf[2]] = f})
                       + Cardinality({p \in Procs : \E k \in DOMAIN making[p].files : making[p].files[k] = f})
  /\ \A p \in Procs : \A fd \in Fds \ FreeFds(p) : ftable[ofile[p][fd]].type # "NONE"

\* An end of a pipe is open as long as a file stands for it or a fileclose is on
\* its way to close it, once: no reader waits for a writer that is gone, and no
\* page is given back under a process that uses it.
EndsExact ==
  \A k \in Pages :
    LET ends(w) == {f \in Files : ftable[f].type = "PIPE" /\ ftable[f].what = k /\ ftable[f].writable = w}
        late(w) == {p \in Procs : closing[p] # None
                                  /\ closing[p].what = k /\ closing[p].writable = w}
    IN /\ Cardinality(ends(TRUE)) + Cardinality(late(TRUE)) = IF "w" \in pipe[k].open THEN 1 ELSE 0
       /\ Cardinality(ends(FALSE)) + Cardinality(late(FALSE)) = IF "r" \in pipe[k].open THEN 1 ELSE 0
=============================================================================
