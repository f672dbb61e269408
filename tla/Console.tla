------------------------------- MODULE Console -------------------------------
(***************************************************************************)
(* The console: line input (kernel/console.c) and the UART's driver        *)
(* (kernel/uart.c), between processes that read and write, the interrupt   *)
(* handler and the device.                                                 *)
(*                                                                         *)
(* A round of a loop under cons.lock or uart_tx_lock is a step, with the   *)
(* lock kept between the steps.  Of each character sent the model keeps    *)
(* who wrote it and its number, modulo Mod.  The device, the PLIC and      *)
(* sleep() and wakeup() are external; a UART interrupt is handled by one   *)
(* CPU at a time.                                                          *)
(***************************************************************************)
EXTENDS Integers, FiniteSets, Sequences

CONSTANTS
    Procs, Intr, Nobody,
    INPUT_BUF_SIZE, UART_TX_BUF_SIZE,
    UINT,        \* indices wrap here: 2^32 in the code
    Used,        \* how far the rings were used before
    FIFO,        \* bytes the transmitter holds: 16
    Typed,       \* characters that arrive
    Reads, Writes,         \* lengths of read() and write()
    Loads                  \* how many of each happen: [typed, read, write, kill]

ASSUME ConsoleAssumption ==
    /\ INPUT_BUF_SIZE \in Nat \ {0} /\ UART_TX_BUF_SIZE \in Nat \ {0}
    /\ UINT % INPUT_BUF_SIZE = 0 /\ UINT % UART_TX_BUF_SIZE = 0
    /\ Used \in 0 .. UINT - 1
    /\ INPUT_BUF_SIZE < UINT /\ UART_TX_BUF_SIZE < UINT
    /\ {Intr, Nobody} \cap Procs = {} /\ Intr # Nobody /\ FIFO \in Nat /\ FIFO >= 2

Mod == UART_TX_BUF_SIZE + FIFO + 1

VARIABLES
    cons,             \* buf, r, w, e and who has the lock
    tx,               \* uart_tx_buf, uart_tx_r, uart_tx_w and who has the lock
    pc, n, got,       \* of each process: where it is, how much is left, what it read
    killed,
    intr, echo,       \* the handler: where it is, how much it has to echo
    rhr, fifo, irq,   \* the device: a byte received (or ""), bytes to send, interrupt
    wrote, sent,      \* of each process: bytes given to the driver, bytes sent
    left              \* of the load

vars == <<cons, tx, pc, n, got, killed, intr, echo, rhr, fifo, irq, wrote, sent, left>>

TypeOK ==
    /\ {cons.r, cons.w, cons.e, tx.r, tx.w} \subseteq 0 .. UINT - 1
    /\ {cons.lock, tx.lock} \subseteq Procs \cup {Intr, Nobody}
    /\ pc \in [Procs -> {"idle", "read", "sleep", "asleep", "done", "write", "putc", "full", "start", "thr"}]
    /\ n \in [Procs -> Nat]
    /\ intr \in {"idle", "rx", "echo", "sync", "tx", "start", "thr"} /\ echo \in Nat
    /\ irq \in BOOLEAN /\ killed \subseteq Procs
    /\ wrote \in [Procs -> 0 .. Mod - 1] /\ sent \in [Procs -> 0 .. Mod - 1]
    /\ left \in [{"typed", "read", "write", "kill"} -> Nat]

EmptyInput == [buf |-> [i \in 0 .. INPUT_BUF_SIZE - 1 |-> "NUL"],
               r |-> Used, w |-> Used, e |-> Used, lock |-> Nobody]
EmptyOutput == [buf |-> [i \in 0 .. UART_TX_BUF_SIZE - 1 |-> <<Nobody, 0>>],
                r |-> Used, w |-> Used, lock |-> Nobody]

Init ==
    /\ cons = EmptyInput /\ tx = EmptyOutput
    /\ pc = [p \in Procs |-> "idle"] /\ n = [p \in Procs |-> 0] /\ got = [p \in Procs |-> <<>>]
    /\ killed = {} /\ intr = "idle" /\ echo = 0
    /\ rhr = "" /\ fifo = <<>> /\ irq = FALSE
    /\ wrote = [p \in Procs |-> 0] /\ sent = [p \in Procs |-> 0]
    /\ left \in Loads

device == <<rhr, fifo, irq, sent>>
handler == <<intr, echo>>
Goto(p, l) == pc' = [pc EXCEPT ![p] = l]
Wake(l, to) == [p \in Procs |-> IF pc[p] = l THEN to ELSE pc[p]]
Plus(i, k) == (i + k) % UINT
------------------------------------------------------------------------------
\* consoleread(): the lock is had at the first round, and again after sleep().
InChar(i) == cons.buf[i % INPUT_BUF_SIZE]
Begin(p, l, k) ==
    /\ pc[p] = "idle" /\ p \notin killed /\ left[l] > 0
    /\ left' = [left EXCEPT ![l] = @ - 1]
    /\ Goto(p, l) /\ n' = [n EXCEPT ![p] = k]
    /\ UNCHANGED <<cons, tx, got, killed, handler, device, wrote>>

\* ^D is kept for the next read() when this one has something to return.
AfterEof_Gone(p, r) == Plus(r, 1)
AfterEof(p, r) == IF got[p] = <<>> THEN Plus(r, 1) ELSE r
read_round(p) ==
    LET c == InChar(cons.r) IN
    /\ pc[p] = "read" /\ cons.lock \in {Nobody, p}
    /\ \/ /\ n[p] = 0 \/ (cons.r = cons.w /\ p \in killed)
          /\ Goto(p, "done")
          /\ cons' = [cons EXCEPT !.lock = p]
          /\ UNCHANGED <<n, got>>
       \/ /\ n[p] > 0 /\ cons.r = cons.w /\ p \notin killed
          /\ Goto(p, "sleep")
          /\ cons' = [cons EXCEPT !.lock = p]
          /\ UNCHANGED <<n, got>>
       \/ /\ n[p] > 0 /\ cons.r # cons.w /\ c = "^D"
          /\ Goto(p, "done")
          /\ cons' = [cons EXCEPT !.r = AfterEof(p, @), !.lock = p]
          /\ UNCHANGED <<n, got>>
       \/ /\ n[p] > 0 /\ cons.r # cons.w /\ c # "^D"
          /\ cons' = [cons EXCEPT !.r = Plus(@, 1), !.lock = p]
          /\ \/ /\ got' = [got EXCEPT ![p] = Append(@, c)]
                /\ n' = [n EXCEPT ![p] = @ - 1]
                /\ Goto(p, IF c = "NL" THEN "done" ELSE "read")
             \/ Goto(p, "done") /\ UNCHANGED <<n, got>>     \* either_copyout() fails
    /\ UNCHANGED <<tx, killed, handler, device, wrote, left>>

read_sleep(p) ==
    /\ pc[p] = "sleep"
    /\ Goto(p, "asleep")
    /\ cons' = [cons EXCEPT !.lock = Nobody]
    /\ UNCHANGED <<tx, n, got, killed, handler, device, wrote, left>>

read_done(p) ==
    /\ pc[p] = "done"
    /\ cons' = [cons EXCEPT !.lock = Nobody]
    /\ Goto(p, "idle")
    /\ n' = [n EXCEPT ![p] = 0] /\ got' = [got EXCEPT ![p] = <<>>]
    /\ UNCHANGED <<tx, killed, handler, device, wrote, left>>

\* kill() wakes a sleeper.
kill(p) ==
    /\ p \notin killed /\ pc[p] # "idle" /\ left.kill > 0
    /\ left' = [left EXCEPT !.kill = @ - 1]
    /\ killed' = killed \cup {p}
    /\ pc' = [pc EXCEPT ![p] = IF @ = "asleep" THEN "read" ELSE IF @ = "full" THEN "putc" ELSE @]
    /\ UNCHANGED <<cons, tx, n, got, handler, device, wrote>>
------------------------------------------------------------------------------
\* uartstart() is run by a, a process or the handler, who has uart_tx_lock: it
\* looks at the transmitter, then gives it a byte, until it cannot.
TxFull_Late == tx.w = Plus(tx.r, UART_TX_BUF_SIZE + 1)
TxFull == tx.w = Plus(tx.r, UART_TX_BUF_SIZE)
Transmit(byte) == IF Len(fifo) < FIFO THEN Append(fifo, byte) ELSE fifo
TxIdle == fifo = <<>>
MoreToSend == tx.w # tx.r /\ TxIdle
NextByte == tx.buf[tx.r % UART_TX_BUF_SIZE]

\* consolewrite(): one uartputc() after the other, until either_copyin() fails.
consolewrite(p) ==
    /\ pc[p] = "write"
    /\ Goto(p, "idle")
    /\ n' = [n EXCEPT ![p] = 0]
    /\ UNCHANGED <<cons, tx, got, killed, handler, device, wrote, left>>

uartputc(p) ==
    /\ (pc[p] = "write" /\ n[p] > 0) \/ pc[p] = "putc"
    /\ tx.lock = Nobody
    /\ \/ /\ TxFull
          /\ Goto(p, "full")
          /\ UNCHANGED <<tx, n, wrote>>
       \/ /\ ~TxFull
          /\ tx' = [tx EXCEPT !.buf[tx.w % UART_TX_BUF_SIZE] = <<p, wrote[p]>>, !.w = Plus(@, 1), !.lock = p]
          /\ wrote' = [wrote EXCEPT ![p] = (@ + 1) % Mod]
          /\ n' = [n EXCEPT ![p] = @ - 1]
          /\ Goto(p, "start")
    /\ UNCHANGED <<cons, got, killed, handler, device, left>>

Sent == [tx EXCEPT !.r = Plus(@, 1)]
WakeWriters == Wake("full", "putc")
start(p) ==
    /\ \/ /\ pc[p] = "start" /\ MoreToSend
          /\ Goto(p, "thr")
          /\ UNCHANGED <<tx, fifo>>
       \/ /\ pc[p] = "start" /\ ~MoreToSend
          /\ Goto(p, "write")
          /\ tx' = [tx EXCEPT !.lock = Nobody]
          /\ UNCHANGED fifo
       \/ /\ pc[p] = "thr"
          /\ pc' = [WakeWriters EXCEPT ![p] = "start"]
          /\ tx' = Sent
          /\ fifo' = Transmit(NextByte)
    /\ UNCHANGED <<cons, n, got, killed, handler, rhr, irq, sent, wrote, left>>
------------------------------------------------------------------------------
\* The device: a byte arrives, or the transmitter sends one; it interrupts for
\* input and when it has nothing left to send.
arrive(c) ==
    /\ rhr = "" /\ left.typed > 0
    /\ left' = [left EXCEPT !.typed = @ - 1]
    /\ rhr' = c /\ irq' = TRUE
    /\ UNCHANGED <<cons, tx, pc, n, got, killed, handler, fifo, wrote, sent>>

transmit ==
    /\ fifo # <<>>
    /\ fifo' = Tail(fifo)
    /\ irq' = (irq \/ Len(fifo) = 1)
    /\ sent' = IF Head(fifo)[1] \in Procs THEN [sent EXCEPT ![Head(fifo)[1]] = (@ + 1) % Mod] ELSE sent
    /\ UNCHANGED <<cons, tx, pc, n, got, killed, handler, rhr, wrote, left>>

\* devintr() and uartintr(): claim the interrupt, and read what has arrived.
devintr ==
    /\ intr = "idle" /\ irq
    /\ intr' = "rx" /\ irq' = FALSE
    /\ UNCHANGED <<cons, tx, pc, n, got, killed, echo, rhr, fifo, wrote, sent, left>>

\* consoleintr(c): what it does to the buffer, and how many bytes it echoes.
Room == (cons.e - cons.r) % UINT < INPUT_BUF_SIZE
InLine == (cons.e - cons.w) % UINT
Stored(c) == IF c = "CR" THEN "NL" ELSE c
EndsLine_NotFull(c, e) == c \in {"NL", "^D"}
EndsLine(c, e) == c \in {"NL", "^D"} \/ (e - cons.r) % UINT = INPUT_BUF_SIZE
\* How far ^U goes back: the loop stops at w or after a newline.
Erased(k) == CHOOSE j \in 0 .. k : /\ j = k \/ InChar(Plus(cons.e, UINT - j - 1)) = "NL"
                                   /\ \A i \in 1 .. j : InChar(Plus(cons.e, UINT - i)) # "NL"
Backspace == 3
Back(k) == [cons EXCEPT !.e = Plus(@, UINT - k)]
Add(c, e) ==
    [cons EXCEPT !.buf[cons.e % INPUT_BUF_SIZE] = c, !.e = e, !.w = IF EndsLine(c, e) THEN e ELSE @]
consoleintr(c) ==
    \/ /\ c \in {"^P", "NUL"} \/ (c = "^U" /\ InLine = 0) \/ (c \in {"^H", "DEL"} /\ InLine = 0)
          \/ (c \notin {"^U", "^H", "DEL"} /\ ~Room)
       /\ intr' = "rx"
       /\ UNCHANGED <<cons, pc, echo>>
    \/ /\ c = "^U" /\ InLine > 0
       /\ cons' = [Back(Erased(InLine)) EXCEPT !.lock = Intr]
       /\ echo' = Backspace * Erased(InLine)
       /\ intr' = "echo"
       /\ UNCHANGED pc
    \/ /\ c \in {"^H", "DEL"} /\ InLine > 0
       /\ cons' = [Back(1) EXCEPT !.lock = Intr]
       /\ echo' = Backspace
       /\ intr' = "echo"
       /\ UNCHANGED pc
    \/ /\ c \notin {"^P", "NUL", "^U", "^H", "DEL"} /\ Room
       /\ cons' = [Add(Stored(c), Plus(cons.e, 1)) EXCEPT !.lock = Intr]
       /\ pc' = IF EndsLine(Stored(c), Plus(cons.e, 1)) THEN Wake("asleep", "read") ELSE pc
       /\ echo' = 1
       /\ intr' = "echo"

uartintr ==
    /\ intr = "rx"
    /\ \/ /\ rhr # "" /\ cons.lock = Nobody
          /\ rhr' = ""
          /\ consoleintr(rhr)
       \/ /\ rhr = ""
          /\ intr' = "tx"
          /\ UNCHANGED <<cons, pc, echo, rhr>>
    /\ UNCHANGED <<tx, n, got, killed, fifo, irq, wrote, sent, left>>

\* uartputc_sync() waits for the transmitter without uart_tx_lock.
uartputc_sync ==
    /\ \/ /\ intr = "echo" /\ echo = 0
          /\ intr' = "rx"
          /\ cons' = [cons EXCEPT !.lock = Nobody]
          /\ UNCHANGED <<echo, fifo>>
       \/ /\ intr = "echo" /\ echo > 0 /\ TxIdle
          /\ intr' = "sync"
          /\ UNCHANGED <<cons, echo, fifo>>
       \/ /\ intr = "sync"
          /\ fifo' = Transmit(<<Intr, 0>>)
          /\ echo' = echo - 1
          /\ intr' = "echo"
          /\ UNCHANGED cons
    /\ UNCHANGED <<tx, pc, n, got, killed, rhr, irq, wrote, sent, left>>

intr_start ==
    /\ \/ /\ intr = "tx" /\ tx.lock = Nobody
          /\ intr' = "start"
          /\ tx' = [tx EXCEPT !.lock = Intr]
          /\ UNCHANGED <<pc, fifo>>
       \/ /\ intr = "start" /\ MoreToSend
          /\ intr' = "thr"
          /\ UNCHANGED <<tx, pc, fifo>>
       \/ /\ intr = "start" /\ ~MoreToSend
          /\ intr' = "idle"
          /\ tx' = [tx EXCEPT !.lock = Nobody]
          /\ UNCHANGED <<pc, fifo>>
       \/ /\ intr = "thr"
          /\ intr' = "start"
          /\ pc' = WakeWriters
          /\ tx' = Sent
          /\ fifo' = Transmit(NextByte)
    /\ UNCHANGED <<cons, n, got, killed, echo, rhr, irq, wrote, sent, left>>

Next ==
    \/ \E p \in Procs :
          \/ \E k \in Reads : Begin(p, "read", k)
          \/ \E k \in Writes : Begin(p, "write", k)
          \/ read_round(p) \/ read_sleep(p) \/ read_done(p) \/ kill(p)
          \/ consolewrite(p) \/ uartputc(p) \/ start(p)
    \/ \E c \in Typed : arrive(c)
    \/ transmit \/ devintr \/ uartintr \/ uartputc_sync \/ intr_start

Spec == Init /\ [][Next]_vars
------------------------------------------------------------------------------
(***************************************************************************)
(* Properties                                                              *)
(***************************************************************************)
Chars(from, to) == [i \in 1 .. (to - from) % UINT |-> InChar(Plus(from, i - 1))]
Lines == INSTANCE ConsoleLines WITH ready <- Chars(cons.r, cons.w), edit <- Chars(cons.w, cons.e)

\* The ring with its three indices, which wrap, is the queue of lines that
\* ConsoleLines describes: consoleread() takes what was put into the line and not
\* erased, in order and once, a line at a time, whoever reads and whenever it is
\* full.  Only a character whose copy to the reader fails may be lost.
LinesKept == Lines!Spec

\* No one sleeps on a condition that has come true: a reader only while nothing
\* is handed over, a writer only while the output ring is full.  An input ring
\* that is full has been handed over, and an output ring with bytes in it has a
\* transmitter that will interrupt, or someone about to look at it.
ConsoleNotStuck ==
    /\ TypeOK
    /\ \A p \in Procs :
         /\ pc[p] \in {"sleep", "asleep"} => cons.r = cons.w
         /\ pc[p] = "full" => TxFull
    /\ ~Room => cons.w = cons.e
    /\ tx.w # tx.r => irq \/ fifo # <<>> \/ intr # "idle" \/ tx.lock # Nobody

\* Every byte a process wrote is sent once and in the order it was written,
\* although the handler echoes past uart_tx_lock: between the bytes sent and
\* those written are the ones in the transmitter and in the ring.
InFlight == fifo \o [i \in 1 .. (tx.w - tx.r) % UINT |-> tx.buf[Plus(tx.r, i - 1) % UART_TX_BUF_SIZE]]
OutputInOrder ==
    \A p \in Procs :
       LET mine == SelectSeq(InFlight, LAMBDA b : b[1] = p) IN
       /\ Len(mine) = (wrote[p] - sent[p]) % Mod
       /\ \A i \in DOMAIN mine : mine[i][2] = (sent[p] + i - 1) % Mod
==============================================================================
