------------------------------- MODULE Shell --------------------------------
(***************************************************************************)
(* init (user/init.rs), the shell (user/sh.rs) and the programs it runs,   *)
(* over the file table of File and the process table of kernel/rust_proc.rs*)
(* with its calls taken as atomic (Proc has their steps).                  *)
(*                                                                         *)
(* A process is the sequence of system calls it still has to make.  The    *)
(* programs end when their input does.                                     *)
(***************************************************************************)
EXTENDS File, ShParse

CONSTANTS
  Lines,       \* lines typed at the prompt, as tokens
  MaxLines,    \* how many are typed
  Bytes        \* bytes echo writes

VARIABLES
  proc,        \* process table: state and parent
  code,        \* the calls a process still has to make
  pfd,         \* runcmd's variable p
  sh,          \* init's variable pid
  typed,       \* lines typed so far
  made         \* history: the command each pipe was made for

vars == <<fileVars, proc, code, pfd, sh, typed, made>>

INIT == Min(Procs)

Do(call) == <<[call |-> call]>>
DoFd(call, fd) == <<[call |-> call, fd |-> fd]>>
P0 == -1        \* p[0] and p[1], as descriptors
P1 == -2
Exit == Do("exit")
Fork(child) == <<[call |-> "fork", child |-> child]>>
Exec(argv, io) == <<[call |-> "exec", argv |-> argv, io |-> io]>>

\* The end of the pipe made for the command at path, as the plumbing names it.
PipeEnd(path, w) == [type |-> "PIPE", path |-> path, w |-> w]
Console == [type |-> "DEVICE"]
OnDisk(file) == [type |-> "INODE", file |-> file]

-----------------------------------------------------------------------------
\* runcmd, as the calls it makes.  io is where standard input and output of cmd
\* belong according to the command; it goes along as a comment for Wired.
RECURSIVE Runcmd(_, _, _)

Reader(cmd, io, path) ==
  DoFd("close", 0) \o DoFd("dup", P0) \o DoFd("close", P0) \o DoFd("close", P1)
    \o Runcmd(cmd.right, [io EXCEPT ![0] = PipeEnd(path, FALSE)], Append(path, 2))

\* Mutant: dup comes before the close that makes room.
Writer_DupFirst(cmd, io, path) ==
  DoFd("dup", P1) \o DoFd("close", 1) \o DoFd("close", P0) \o DoFd("close", P1)
    \o Runcmd(cmd.left, [io EXCEPT ![1] = PipeEnd(path, TRUE)], Append(path, 1))

Writer(cmd, io, path) ==
  DoFd("close", 1) \o DoFd("dup", P1) \o DoFd("close", P0) \o DoFd("close", P1)
    \o Runcmd(cmd.left, [io EXCEPT ![1] = PipeEnd(path, TRUE)], Append(path, 1))

\* Mutant: the parent keeps the end the writer writes to.
PipeParent_KeepsEnd == DoFd("close", P0) \o Do("wait") \o Do("wait") \o Exit

PipeParent == DoFd("close", P0) \o DoFd("close", P1) \o Do("wait") \o Do("wait") \o Exit

Runcmd(cmd, io, path) ==
  IF cmd = SyntaxError THEN Exit
  ELSE CASE cmd.type = "EXEC" -> IF cmd.argv = <<>> THEN Exit ELSE Exec(cmd.argv, io) \o Exit
    [] cmd.type = "REDIR" ->
         DoFd("close", cmd.fd) \o <<[call |-> "open", file |-> cmd.file, mode |-> cmd.mode]>>
           \o Runcmd(cmd.cmd, [io EXCEPT ![cmd.fd] = OnDisk(cmd.file)], path)
    [] cmd.type = "LIST" ->
         Fork(Runcmd(cmd.left, io, Append(path, 1))) \o Do("wait")
           \o Runcmd(cmd.right, io, Append(path, 2))
    [] cmd.type = "PIPE" ->
         <<[call |-> "pipe", path |-> path]>>
           \o Fork(Writer(cmd, io, path)) \o Fork(Reader(cmd, io, path))
           \o PipeParent
    [] cmd.type = "BACK" -> Fork(Runcmd(cmd.cmd, io, Append(path, 1))) \o Exit

Terminal == [fd \in 0..1 |-> Console]

\* main of the shell: three descriptors, then line after line; main of init.
ShMain == Do("console") \o Do("getcmd")
InitMain == Do("initconsole") \o DoFd("dup", 0) \o DoFd("dup", 0) \o Do("start sh")

\* The programs: echo, which writes, cat and wc, which read to the end.
Program(argv) ==
  CASE argv[1] = "echo" -> [i \in 1..Bytes |-> [call |-> "write"]] \o Exit
    [] argv[1] \in {"cat", "wc"} -> Do(argv[1])
    [] OTHER -> Exit      \* exec fails: a message, and exit(0)

-----------------------------------------------------------------------------
Init ==
  /\ FileInit
  /\ proc = [p \in Procs |-> [state |-> IF p = INIT THEN "USED" ELSE "UNUSED", parent |-> None]]
  /\ code = [p \in Procs |-> IF p = INIT THEN InitMain ELSE <<>>]
  /\ pfd = [p \in Procs |-> <<None, None>>]
  /\ sh = None /\ typed = 0 /\ made = [k \in Pages |-> <<>>]

Runs(p) == proc[p].state = "USED" /\ closing[p] = None
Next1(p) == code[p][1]
Calls(p, call) == Runs(p) /\ Next1(p).call = call
Goto(p, c) == code' = [code EXCEPT ![p] = c]
Continue(p) == Goto(p, Tail(code[p]))
Fd(p, fd) == IF fd = P0 THEN pfd[p][1] ELSE IF fd = P1 THEN pfd[p][2] ELSE fd

NewProc == First({q \in Procs : proc[q].state = "UNUSED"})

Close(p) ==
  /\ Calls(p, "close")
  /\ SysClose(p, Fd(p, Next1(p).fd))
  /\ Continue(p) /\ UNCHANGED <<proc, pfd, sh, typed, made>>

CloseEnd(p) ==
  /\ FilecloseEnd(p)
  /\ UNCHANGED <<proc, code, pfd, sh, typed, made>>

Dup(p) ==
  /\ Calls(p, "dup")
  /\ SysDup(p, Fd(p, Next1(p).fd))
  /\ Continue(p) /\ UNCHANGED <<proc, pfd, sh, typed, made>>

\* A redirection.
OpenFile(p) ==
  /\ Calls(p, "open")
  /\ SysOpen(p, "INODE", Next1(p).file, "read" \in Next1(p).mode, "write" \in Next1(p).mode)
  /\ Continue(p)
  /\ UNCHANGED <<proc, pfd, sh, typed, made>>

\* init's first open, and the open at the start of the shell, which would go on
\* until a descriptor above 2 comes up, and is closed: init has opened 0 to 2.
InitConsole(p) ==
  /\ Calls(p, "initconsole")
  /\ SysOpen(p, "DEVICE", "console", TRUE, TRUE)
  /\ Continue(p)
  /\ UNCHANGED <<proc, pfd, sh, typed, made>>

ShConsole(p) ==
  /\ Calls(p, "console")
  /\ SysOpen(p, "DEVICE", "console", TRUE, TRUE)
  /\ Goto(p, (IF NewFd(p) < 3 THEN Do("console") ELSE DoFd("close", NewFd(p))) \o Tail(code[p]))
  /\ UNCHANGED <<proc, pfd, sh, typed, made>>

\* The steps of a pipe, and its return.
Pipe(p) ==
  /\ Calls(p, "pipe")
  /\ PipeFile(p) \/ PipeFails(p) \/ PipeClose(p)
  /\ UNCHANGED <<proc, code, pfd, sh, typed, made>>

PipePaged(p) ==
  /\ Calls(p, "pipe")
  /\ PipePage(p)
  /\ made' = [made EXCEPT ![NewPage] = Next1(p).path]
  /\ UNCHANGED <<proc, code, pfd, sh, typed>>

PipeMade(p) ==
  /\ Calls(p, "pipe")
  /\ PipeFds(p)
  /\ pfd' = [pfd EXCEPT ![p] = NewFds(p)]
  /\ Continue(p)
  /\ UNCHANGED <<proc, sh, typed, made>>

\* A call of runcmd fails and the command exits: pipe, once it is undone; open and fork
\* for want of a slot; open of a file that is not there, or that Fs has no room for.
CallFails(p) ==
  /\ \/ Calls(p, "pipe") /\ PipeError(p)
     \/ Calls(p, "open") /\ UNCHANGED fileVars
     \/ Calls(p, "fork") /\ NewProc = None /\ UNCHANGED fileVars
  /\ Goto(p, Exit)
  /\ UNCHANGED <<proc, pfd, sh, typed, made>>

\* fork1, and the fork of init: the child gets the first free slot.
Spawn(p, child, next) ==
  /\ NewProc # None
  /\ ForkFiles(p, NewProc)
  /\ proc' = [proc EXCEPT ![NewProc] = [state |-> "USED", parent |-> p]]
  /\ code' = [code EXCEPT ![p] = next, ![NewProc] = child]
  /\ pfd' = [pfd EXCEPT ![NewProc] = pfd[p]]

ForkOne(p) ==
  /\ Calls(p, "fork")
  /\ Spawn(p, Next1(p).child, Tail(code[p]))
  /\ UNCHANGED <<sh, typed, made>>

StartSh(p) ==
  /\ Calls(p, "start sh")
  /\ Spawn(p, ShMain, Do("wait for sh"))
  /\ sh' = NewProc
  /\ UNCHANGED <<typed, made>>

Zombies(p) == {q \in Procs : proc[q].state = "ZOMBIE" /\ proc[q].parent = p}
Reap(q) == proc' = [proc EXCEPT ![q] = [state |-> "UNUSED", parent |-> None]]

\* wait: the first zombie in the table.  It would return -1 to a process without
\* children, which runcmd never is here.
Wait(p) ==
  /\ Calls(p, "wait")
  /\ Zombies(p) # {} /\ Reap(Min(Zombies(p)))
  /\ Continue(p)
  /\ UNCHANGED <<fileVars, pfd, sh, typed, made>>

\* init waits until the shell comes up, and starts it again.
WaitForSh(p) ==
  /\ Calls(p, "wait for sh")
  /\ Zombies(p) # {}
  /\ Reap(Min(Zombies(p)))
  /\ IF Min(Zombies(p)) = sh THEN Goto(p, Do("start sh")) /\ sh' = None ELSE UNCHANGED <<code, sh>>
  /\ UNCHANGED <<fileVars, pfd, typed, made>>

ExecProgram(p) ==
  /\ Calls(p, "exec")
  /\ Goto(p, Program(Next1(p).argv))
  /\ UNCHANGED <<fileVars, proc, pfd, sh, typed, made>>

\* getcmd and the loop of main: a line is parsed and run by a child; at the end of
\* the input the shell exits.  An empty line and cd run no child and are left out.
Getcmd(p) ==
  /\ Calls(p, "getcmd") /\ typed < MaxLines
  /\ typed' = typed + 1
  /\ \/ \E l \in Lines :
          Goto(p, Fork(Runcmd(Parsecmd(l), Terminal, <<typed>>)) \o Do("wait") \o Do("getcmd"))
     \/ Goto(p, Exit)
  /\ UNCHANGED <<fileVars, proc, pfd, sh, made>>

Write(p) ==
  /\ Calls(p, "write")
  /\ \E n \in {-1, 1} : Filewrite(p, 1, n)
  /\ Continue(p)
  /\ UNCHANGED <<ftable, ofile, closing, making, proc, pfd, sh, typed, made>>

\* cat: a byte read is written; an error ends it.
Cat(p) ==
  /\ Calls(p, "cat")
  /\ \E n \in {0, 1} :
       /\ Fileread(p, 0, n)
       /\ Goto(p, IF n = 1 THEN Do("cat write") ELSE Exit)
  /\ UNCHANGED <<ftable, ofile, closing, making, proc, pfd, sh, typed, made>>

CatWrite(p) ==
  /\ Calls(p, "cat write")
  /\ \E n \in {-1, 1} : Filewrite(p, 1, n) /\ Goto(p, IF n = 1 THEN Do("cat") ELSE Exit)
  /\ UNCHANGED <<ftable, ofile, closing, making, proc, pfd, sh, typed, made>>

\* wc: it writes when its input has ended.
Wc(p) ==
  /\ Calls(p, "wc")
  /\ \E n \in {0, 1} :
       /\ Fileread(p, 0, n)
       /\ IF n = 1 THEN UNCHANGED code ELSE Goto(p, Do("write") \o Exit)
  /\ UNCHANGED <<ftable, ofile, closing, making, proc, pfd, sh, typed, made>>

\* kexit: the descriptors one by one, then the children go to init.
ExitStep(p) ==
  /\ Calls(p, "exit") /\ p # INIT
  /\ FreeFds(p) # Fds
  /\ ExitClose(p)
  /\ UNCHANGED <<proc, code, pfd, sh, typed, made>>

ExitEnd(p) ==
  /\ Calls(p, "exit") /\ p # INIT
  /\ FreeFds(p) = Fds
  /\ proc' = [q \in Procs |-> IF q = p THEN [proc[q] EXCEPT !.state = "ZOMBIE"]
                              ELSE IF proc[q].parent = p THEN [proc[q] EXCEPT !.parent = INIT]
                              ELSE proc[q]]
  /\ code' = [code EXCEPT ![p] = <<>>] /\ pfd' = [pfd EXCEPT ![p] = <<None, None>>]
  /\ UNCHANGED <<fileVars, sh, typed, made>>

Step(p) ==
  \/ Close(p) \/ CloseEnd(p) \/ Dup(p) \/ OpenFile(p) \/ InitConsole(p) \/ ShConsole(p)
  \/ Pipe(p) \/ PipePaged(p) \/ PipeMade(p)
  \/ ForkOne(p) \/ CallFails(p) \/ StartSh(p) \/ Wait(p) \/ WaitForSh(p) \/ ExecProgram(p)
  \/ Write(p) \/ Cat(p) \/ CatWrite(p) \/ Wc(p) \/ ExitStep(p) \/ ExitEnd(p)

Work == \E p \in Procs : Step(p)
Next == Work \/ \E p \in Procs : Getcmd(p)

\* Fairness: some process that can go on does; nobody has to type anything.  The
\* work of a line being finite, no process is left out for ever.
Spec == Init /\ [][Next]_vars /\ WF_vars(Work)

-----------------------------------------------------------------------------
\* The types; a slot of the file table without references stands for nothing.
TypeOK ==
  /\ \A f \in Files : /\ ftable[f].ref \in 0..(NOFILE * Cardinality(Procs))
                       /\ ftable[f].type \in {"NONE", "PIPE", "INODE", "DEVICE"}
                       /\ ftable[f].ref = 0 => ftable[f] = FreeFile
  /\ pipe \in [Pages -> [open : SUBSET {"r", "w"}, n : 0..PIPESIZE]]
  /\ ofile \in [Procs -> [Fds -> Files \cup {None}]]
  /\ proc \in [Procs -> [state : {"UNUSED", "USED", "ZOMBIE"}, parent : Procs \cup {None}]]
  /\ sh \in Procs \cup {None} /\ typed \in 0..MaxLines

\* What descriptor fd of p stands for, as the plumbing names it.
Named(p, fd) ==
  LET f == ftable[ofile[p][fd]]
  IN CASE f.type = "DEVICE" -> Console
       [] f.type = "INODE" -> OnDisk(f.what)
       [] f.type = "PIPE" -> PipeEnd(made[f.what], f.writable)

\* A program starts with the three descriptors its place in the command calls
\* for, each pipe end and redirection at its number, and with no other: runcmd's
\* closes and dups leave no end of a pipe behind.
Wired ==
  \A p \in Procs :
    Calls(p, "exec") =>
      /\ Fds \ FreeFds(p) = 0..2
      /\ \A fd \in 0..1 : Named(p, fd) = Next1(p).io[fd]
      /\ Named(p, 2) = Console

AtPrompt == sh # None /\ Calls(sh, "getcmd")

\* At the prompt the shell has its three descriptors, and once the commands have
\* ended nothing is left of them in the file table or in memory.
PromptClean ==
  AtPrompt =>
    /\ Fds \ FreeFds(sh) = 0..2
    /\ (\A p \in Procs \ {INIT, sh} : proc[p].state = "UNUSED") =>
         Cardinality(FreeFiles) = NFILE - 1 /\ \A k \in Pages : pipe[k] = FreePipe

\* The tables behind the descriptors are exact while the shell's processes dup,
\* fork, close and exit: files, ends of pipes, and what is left at the prompt.
TablesExact == TypeOK /\ RefsExact /\ EndsExact /\ PromptClean

\* The prompt comes back after every line, whatever the command and even when fork,
\* pipe or open fails in the middle of it: nobody waits for the end of a pipe that
\* a process of the command still holds open for writing.
PromptReturns == []<>AtPrompt

\* Every process that exits is waited for, by its parent or by init: the table
\* does not stay with a zombie in it.
Reaped == []<>(\A p \in Procs : proc[p].state # "ZOMBIE")

\* The shell goes on for ever: after every line the prompt is back, and no zombie
\* keeps its slot, whether the shell waits for it or init takes it over.
ShellGoesOn == PromptReturns /\ Reaped
=============================================================================
