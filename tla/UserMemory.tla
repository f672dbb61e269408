------------------------------ MODULE UserMemory ------------------------------
(***************************************************************************)
(* What processes may count on: each has a memory of its own, of zeroed    *)
(* words where it has grown, copied by fork(), replaced as a whole by      *)
(* exec() and changed by nothing else.  A call that fails changes nothing. *)
(***************************************************************************)
EXTENDS Integers, Sequences

CONSTANTS
    Procs, PGSIZE,
    Boot,       \* the words of the first process
    Execs,      \* the programs and arguments exec() may be given
    Zero,       \* the word 0
    Word(_),    \* the word that holds a number
    Sbrks,      \* the arguments of sbrk()
    Reads       \* where read() may put which words

VARIABLE space

Dead == [live |-> FALSE, sz |-> 0, sp |-> 0, mem |-> <<>>]
RoundUp(n) == ((n + PGSIZE - 1) \div PGSIZE) * PGSIZE
Segment(prog) == {i \in DOMAIN prog.ph : prog.ph[i].load}

Init == space = [p \in Procs |-> IF p = 0 THEN [live |-> TRUE, sz |-> PGSIZE, sp |-> PGSIZE, mem |-> Boot]
                                 ELSE Dead]

\* A step takes the memories s to the memories t.
Fork(s, t, p, q) ==
    /\ s[p].live /\ ~s[q].live
    /\ t = [s EXCEPT ![q] = s[p]]

Exit(s, t, p) == s[p].live /\ t = [s EXCEPT ![p] = Dead]

\* Pages below the new size are kept, new ones read as zero.
Sbrk(s, t, p, n) ==
    LET sz == s[p].sz + n
        kept == {a \in DOMAIN s[p].mem : a < RoundUp(sz)}
        new == RoundUp(s[p].sz) .. RoundUp(sz) - 1
    IN  /\ s[p].live /\ sz >= 0
        /\ t = [s EXCEPT ![p].sz = sz,
                  ![p].mem = [a \in kept \cup new |-> IF a \in kept THEN s[p].mem[a] ELSE Zero]]

\* A prefix of the words reaches the memory.
Store(s, t, p, va, words) ==
    /\ s[p].live
    /\ \E n \in 1 .. Len(words) :
         t = [s EXCEPT ![p].mem =
                [a \in DOMAIN @ |-> IF a \in va .. va + n - 1 THEN words[a - va + 1] ELSE @[a]]]

\* The word the program's file gives address a; a later segment wins.
Loaded(prog, a) ==
    LET at == {i \in Segment(prog) : a \in prog.ph[i].vaddr .. prog.ph[i].vaddr + prog.ph[i].filesz - 1}
        ph == prog.ph[CHOOSE i \in at : \A j \in at : j <= i]
    IN  IF at = {} THEN Zero ELSE Word(prog.text + ph.off + a - ph.vaddr)

\* The segments, a page no one can reach, and the stack with the arguments:
\* from sp on their addresses, ended by 0.
Exec(s, t, p, prog, argv) ==
    LET new == t[p]
        top == new.sz - 2 * PGSIZE
    IN  /\ s[p].live /\ new.live
        /\ t = [s EXCEPT ![p] = new]
        /\ \A i \in Segment(prog) : prog.ph[i].vaddr + prog.ph[i].memsz <= top
        /\ new.sz % PGSIZE = 0
        /\ DOMAIN new.mem = (0 .. top - 1) \cup (top + PGSIZE .. new.sz - 1)
        /\ \A a \in 0 .. top - 1 : new.mem[a] = Loaded(prog, a)
        /\ new.sp % 2 = 0 /\ new.sp \in top + PGSIZE .. new.sz - 1
        /\ new.mem[new.sp + Len(argv)] = Zero
        /\ \A i \in DOMAIN argv :
             LET str == new.mem[new.sp + i - 1].pa IN
             /\ str > new.sp + Len(argv)
             /\ new.mem[str + argv[i].len] = Zero
             /\ \A k \in 1 .. argv[i].len : new.mem[str + k - 1] = Word(argv[i].text + k)

Step(s, t) ==
    /\ s # t
    /\ \E p \in Procs :
         \/ \E q \in Procs : Fork(s, t, p, q)
         \/ Exit(s, t, p)
         \/ \E n \in Sbrks : Sbrk(s, t, p, n)
         \/ \E e \in Execs : Exec(s, t, p, e.prog, e.argv)
         \/ \E r \in Reads : Store(s, t, p, r.va, r.words)

Next == \E s \in {space}, t \in {space'} : Step(s, t)

Spec == Init /\ [][Next]_space
==============================================================================
