------------------------------ MODULE Console -------------------------------
(***************************************************************************)
(* kernel/rust_console.rs over the UART of Uart: consoleintr edits a line  *)
(* in a ring and echoes it, consoleread takes committed lines out of it.   *)
(*                                                                         *)
(* The console's lock is held over the echo, which waits for the device.   *)
(* consolewrite is in Uart.                                                *)
(***************************************************************************)
EXTENDS Uart, FiniteSets

CONSTANTS
  Readers,          \* processes that call consoleread
  INPUT_BUF_SIZE,
  Width,            \* values of u32, a multiple of INPUT_BUF_SIZE
  Start,            \* the indices at the start
  Target,           \* bytes a read asks for
  Keys,             \* keys that can be typed
  MaxTyped          \* how many are typed

ASSUME ConsoleAssumption ==
  /\ INPUT_BUF_SIZE \in Nat \ {0} /\ Width % INPUT_BUF_SIZE = 0 /\ Width > INPUT_BUF_SIZE
  /\ Start \in 0..(Width - 1)
  /\ Keys \subseteq {"x", "CR", "LF", "^D", "^U", "^H", "^P", "NUL"}

VARIABLES
  cbuf, cr, cw, ce,   \* ConsState: buf, r, w, e
  cons,               \* holder of CONS
  rd,                 \* each reader: where it is and the bytes it still wants
  key,                \* consoleintr's c
  echo,               \* the bytes consputc still has to write
  typed,              \* keys typed so far
  owed,               \* history: bytes committed and not read
  screen              \* history: the row the echo has drawn and its cursor

consoleVars == <<cbuf, cr, cw, ce, cons, rd, key, echo, typed, owed, screen>>
vars == <<uartVars, consoleVars>>

\* Start keys have been typed and read before.
Init ==
  /\ UartInit
  /\ cbuf = [k \in 0..(INPUT_BUF_SIZE - 1) |-> "LF"] /\ cr = Start /\ cw = Start /\ ce = Start
  /\ cons = Nobody
  /\ rd = [t \in Readers |-> [at |-> "out", n |-> 0, killed |-> FALSE]]
  /\ key = "NUL" /\ echo = <<>> /\ typed = 0
  /\ owed = <<>> /\ screen = [row |-> <<>>, col |-> 0]

Sub(a, b) == (a + Width - b) % Width      \* wrapping_sub
Inc(a) == (a + 1) % Width
Dec(a) == Sub(a, 1)
At(k) == cbuf[k % INPUT_BUF_SIZE]

\* The bytes of the ring from a up to b.
Slice(a, b) == [k \in 1..Sub(b, a) |-> At(a + k - 1)]

-----------------------------------------------------------------------------
\* A key is pressed: the device has a byte.  One waits at a time.
Press(k) ==
  /\ typed < MaxTyped /\ rx = <<>>
  /\ rx' = <<k>> /\ typed' = typed + 1
  /\ UNCHANGED <<buf, w, r, lock, done, i, pc, thr, irq, out>>
  /\ UNCHANGED <<cbuf, cr, cw, ce, cons, rd, key, echo, owed, screen>>

\* Mutant: the cursor moves back and nothing is wiped out.
Consputc_NoBlank(c) == IF c = "^H" THEN <<"BS">> ELSE <<c>>

\* consputc: what a backspace and a byte look like to the device.
Consputc(c) == IF c = "^H" THEN <<"BS", "SP", "BS">> ELSE <<c>>

\* The line being edited has a byte, and it is not a newline.
LineLeft == ce # cw /\ At(Dec(ce)) # "LF"

Erases(k) == (k = "^U" /\ LineLeft) \/ (k = "^H" /\ ce # cw)

\* Mutant: only the line being edited is counted.
Accepts_LineOnly(k) == k \in {"x", "CR", "LF", "^D"} /\ Sub(ce, cw) < INPUT_BUF_SIZE

Accepts(k) == k \in {"x", "CR", "LF", "^D"} /\ Sub(ce, cr) < INPUT_BUF_SIZE

\* uartgetc and the start of consoleintr: a byte to erase, a byte to add, or
\* nothing to do (procdump changes nothing).
ConsoleIntr ==
  /\ pc["intr"] = "rx" /\ rx # <<>> /\ cons = Nobody
  /\ rx' = Tail(rx)
  /\ LET k == Head(rx)
     IN \/ /\ Erases(k)
           /\ key' = k /\ ce' = Dec(ce) /\ echo' = Consputc("^H")
           /\ cons' = "intr" /\ pc' = [pc EXCEPT !["intr"] = "putc"]
        \/ /\ Accepts(k)
           /\ key' = (IF k = "CR" THEN "LF" ELSE k) /\ echo' = Consputc(key')
           /\ cons' = "intr" /\ pc' = [pc EXCEPT !["intr"] = "putc"]
           /\ UNCHANGED ce
        \/ /\ ~Erases(k) /\ ~Accepts(k)
           /\ UNCHANGED <<key, ce, echo, cons, pc>>
  /\ UNCHANGED <<buf, w, r, lock, done, i, thr, irq, out, cbuf, cr, cw, rd, typed, owed, screen>>

\* uartputc_sync of the next byte of the echo.
Echo ==
  /\ echo # <<>> /\ PutcSyncWrite("intr", <<"echo", Head(echo)>>, IF Len(echo) > 1 THEN "putc" ELSE "echoed")
  /\ echo' = Tail(echo)
  /\ UNCHANGED <<cbuf, cr, cw, ce, cons, rd, key, typed, owed, screen>>

\* ^U goes on to the start of the line.
EraseMore ==
  /\ pc["intr"] = "echoed" /\ key = "^U" /\ LineLeft
  /\ ce' = Dec(ce) /\ echo' = Consputc("^H")
  /\ pc' = [pc EXCEPT !["intr"] = "putc"]
  /\ UNCHANGED <<buf, w, r, lock, done, i, thr, irq, rx, out>>
  /\ UNCHANGED <<cbuf, cr, cw, cons, rd, key, typed, owed, screen>>

EraseEnd ==
  /\ pc["intr"] = "echoed" /\ key \in {"^U", "^H"}
  /\ key = "^U" => ~LineLeft
  /\ cons' = Nobody /\ key' = "NUL" /\ pc' = [pc EXCEPT !["intr"] = "rx"]
  /\ UNCHANGED <<buf, w, r, lock, done, i, thr, irq, rx, out>>
  /\ UNCHANGED <<cbuf, cr, cw, ce, rd, echo, typed, owed, screen>>

\* wake(CONS.chan())
WakeReaders == rd' = [t \in Readers |-> [rd[t] EXCEPT !.at = IF @ = "asleep" THEN "woken" ELSE @]]

\* Mutant: only the end of a line commits it.
Commits_LineOnly(e) == key \in {"LF", "^D"}

\* A line ends, or the ring is full with e bytes in it.
Commits(e) == key \in {"LF", "^D"} \/ Sub(e, cr) = INPUT_BUF_SIZE

Store ==
  /\ pc["intr"] = "echoed" /\ key \notin {"^U", "^H"}
  /\ cbuf' = [cbuf EXCEPT ![ce % INPUT_BUF_SIZE] = key]
  /\ ce' = Inc(ce)
  /\ IF Commits(ce')
     THEN cw' = ce' /\ owed' = owed \o Append(Slice(cw, ce), key) /\ WakeReaders
     ELSE UNCHANGED <<cw, owed, rd>>
  /\ cons' = Nobody /\ key' = "NUL" /\ pc' = [pc EXCEPT !["intr"] = "rx"]
  /\ UNCHANGED <<buf, w, r, lock, done, i, thr, irq, rx, out, cr, echo, typed, screen>>

-----------------------------------------------------------------------------
Moves(t, at) == rd' = [rd EXCEPT ![t].at = at, ![t].n = IF at = "out" THEN 0 ELSE @]
Held(t) == cons = t /\ rd[t].at = "loop"

\* consoleread takes the lock, at first and when sleep returns.
ConsoleRead(t) ==
  /\ rd[t].at = "out" /\ ~rd[t].killed /\ cons = Nobody /\ cons' = t
  /\ rd' = [rd EXCEPT ![t].at = "loop", ![t].n = Target]
  /\ UNCHANGED <<uartVars, cbuf, cr, cw, ce, key, echo, typed, owed, screen>>

ReadWoken(t) ==
  /\ rd[t].at = "woken" /\ cons = Nobody /\ cons' = t /\ Moves(t, "loop")
  /\ UNCHANGED <<uartVars, cbuf, cr, cw, ce, key, echo, typed, owed, screen>>

ReadSleep(t) ==
  /\ Held(t) /\ cr = cw
  /\ ~rd[t].killed
  /\ cons' = Nobody /\ Moves(t, "asleep")
  /\ UNCHANGED <<uartVars, cbuf, cr, cw, ce, key, echo, typed, owed, screen>>

ReadKilled(t) ==
  /\ Held(t) /\ cr = cw
  /\ rd[t].killed
  /\ cons' = Nobody /\ Moves(t, "out")
  /\ UNCHANGED <<uartVars, cbuf, cr, cw, ce, key, echo, typed, owed, screen>>

\* A ^D ends the read; it stays for the next one unless this one has nothing.
ReadEof(t) ==
  /\ Held(t) /\ cr # cw /\ At(cr) = "^D"
  /\ IF rd[t].n < Target THEN UNCHANGED <<cr, owed>> ELSE cr' = Inc(cr) /\ owed' = Tail(owed)
  /\ cons' = Nobody /\ Moves(t, "out")
  /\ UNCHANGED <<uartVars, cbuf, cw, ce, key, echo, typed, screen>>

\* A byte goes to the caller, or either_copyout fails and it is gone.
ReadByte(t) ==
  /\ Held(t) /\ cr # cw /\ At(cr) # "^D"
  /\ cr' = Inc(cr) /\ owed' = Tail(owed)
  /\ \E ok \in BOOLEAN :
       IF ok /\ At(cr) # "LF" /\ rd[t].n > 1
       THEN rd' = [rd EXCEPT ![t].n = @ - 1] /\ UNCHANGED cons
       ELSE Moves(t, "out") /\ cons' = Nobody
  /\ UNCHANGED <<uartVars, cbuf, cw, ce, key, echo, typed, screen>>

\* kill: the flag, and a sleeper is made to run.
Kill(t) ==
  /\ ~rd[t].killed /\ rd[t].at # "out"
  /\ rd' = [rd EXCEPT ![t].killed = TRUE, ![t].at = IF @ = "asleep" THEN "woken" ELSE @]
  /\ UNCHANGED <<uartVars, cbuf, cr, cw, ce, cons, key, echo, typed, owed, screen>>

-----------------------------------------------------------------------------
\* The terminal draws a byte of the echo at its cursor.
Draw(s, c) ==
  CASE c = "LF" -> [row |-> <<>>, col |-> 0]
    [] c = "BS" -> [s EXCEPT !.col = @ - 1]
    [] OTHER -> [row |-> SubSeq(s.row, 1, s.col) \o <<c>> \o SubSeq(s.row, s.col + 2, Len(s.row)),
                 col |-> s.col + 1]

DeviceSends ==
  /\ Transmit
  /\ screen' = IF Head(thr)[1] = "echo" THEN Draw(screen, Head(thr)[2]) ELSE screen
  /\ UNCHANGED <<cbuf, cr, cw, ce, cons, rd, key, echo, typed, owed>>

IntrStep ==
  \/ (UartIntrTx \/ PutcSyncIdle("intr")) /\ UNCHANGED consoleVars
  \/ ConsoleIntr \/ Echo \/ EraseMore \/ EraseEnd \/ Store

TakeIntr == UartIntr /\ UNCHANGED consoleVars
WriteStep(t) == WriterStep(t) /\ UNCHANGED consoleVars
PushStep(x) == TxStep(x) /\ UNCHANGED consoleVars

\* The steps of a read once it has begun.
ReadStep(t) == ReadWoken(t) \/ ReadSleep(t) \/ ReadKilled(t) \/ ReadEof(t) \/ ReadByte(t)

Next ==
  \/ \E t \in Writers : WriteStep(t)
  \/ \E x \in Writers \cup {"intr"} : PushStep(x)
  \/ \E t \in Readers : ConsoleRead(t) \/ ReadStep(t) \/ Kill(t)
  \/ TakeIntr \/ IntrStep \/ DeviceSends
  \/ \E k \in Keys : Press(k)

Spec == Init /\ [][Next]_vars

-----------------------------------------------------------------------------
\* The types; the transmit ring never holds more than its size.
TypeOK ==
  /\ UartTypeOK
  /\ {cr, cw, ce} \subseteq 0..(Width - 1)
  /\ cons \in Readers \cup {"intr", Nobody}

\* The bytes in the ring up to w are the ones committed and not yet read, in order:
\* no key that comes late overwrites one, and no backspace takes one back.
CommittedKept == Slice(cr, cw) = owed

\* When the device has sent the echo, the end of the row up to the cursor is the
\* line as it is being edited, and behind the cursor all is blank.
EchoShowsLine ==
  (pc["intr"] \in {"idle", "rx", "intr_tx"} /\ \A k \in DOMAIN thr : thr[k][1] # "echo") =>
    LET line == Slice(cw, ce)
    IN /\ SubSeq(screen.row, screen.col - Len(line) + 1, screen.col) = line
       /\ \A k \in (screen.col + 1)..Len(screen.row) : screen.row[k] = "SP"

\* A reader sleeps only while no line is waiting, with other readers and kill in
\* between: the wakeup of a commit is not lost.
SleepsForInput == \A t \in Readers : rd[t].at = "asleep" => cr = cw

\* A full ring has something to read in it, so that a reader can make room: the
\* console does not end up refusing keys for ever.
FullIsReadable == Sub(ce, cr) = INPUT_BUF_SIZE => cr # cw

\* Input never gets stuck in consoleintr's ring: it stays within its size, what
\* fills it can be read, and whoever would read it is not asleep.
InputFlows == TypeOK /\ FullIsReadable /\ SleepsForInput
=============================================================================
