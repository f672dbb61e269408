------------------------------- MODULE MCMemory -------------------------------
(* An instance of Memory for TLC. *)
EXTENDS Memory

Ph(off, vaddr, memsz, filesz) ==
    [read |-> TRUE, load |-> TRUE, off |-> off, vaddr |-> vaddr, memsz |-> memsz, filesz |-> filesz,
     perm |-> {"X"}]
Prog(text, size, ph) == [found |-> TRUE, elf |-> TRUE, text |-> text, size |-> size, ph |-> ph]
Small == Prog(1000, 20, <<Ph(4, 0, 3, 2)>>)
Gap == Prog(2000, 40, <<Ph(4, 0, 3, 3), [Ph(8, 0, 0, 0) EXCEPT !.load = FALSE], Ph(9, 2 * PGSIZE, 6, 5)>>)
GoodPrograms == {Small, Gap}
BadPrograms ==
    {[Small EXCEPT !.found = FALSE], [Small EXCEPT !.elf = FALSE],
     [Small EXCEPT !.ph[1].read = FALSE], [Small EXCEPT !.ph[1].filesz = 4],
     [Small EXCEPT !.ph[1].vaddr = 3], [Small EXCEPT !.ph[1].vaddr = MAXU - PGSIZE, !.ph[1].memsz = PGSIZE + 1],
     [Gap EXCEPT !.size = 13]}
Arg(len, text) == [len |-> len, text |-> text, addr |-> TRUE, str |-> TRUE]
GoodArgvs == {<<>>, <<Arg(1, 500)>>}
BadArgvs == {<<Arg(1, 500), Arg(2, 600)>>, <<Arg(1, 500), Arg(1, 600), Arg(1, 700)>>, <<[Arg(1, 500) EXCEPT !.str = FALSE]>>,
             <<[Arg(1, 500) EXCEPT !.addr = FALSE]>>}
Run(progs, argvs) == {[prog |-> x[1], argv |-> x[2]] : x \in progs \X argvs}
MCExecs == Run(GoodPrograms, GoodArgvs) \cup Run(BadPrograms, {<<>>}) \cup Run({Small}, BadArgvs)
MCReads == {[va |-> PGSIZE - 2, words |-> <<Word(7), Word(8), Word(9)>>]}
MCLefts == (0 .. 9) \cup {100}
MCSbrks == {6, -6, -100}
==============================================================================
