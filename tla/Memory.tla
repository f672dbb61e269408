-------------------------------- MODULE Memory --------------------------------
(***************************************************************************)
(* Physical pages and the page tables that own them: kernel/kalloc.c,      *)
(* vm.c, exec.c and the calls of proc.c and sysproc.c that change the      *)
(* memory of a process.                                                    *)
(*                                                                         *)
(* Memory is counted in words of the size of a page-table entry, so a page *)
(* has PGSIZE of them and a table PGSIZE entries.  A process's page table  *)
(* is its own until the process is gone, so a system call is one step.     *)
(* What other CPUs do meanwhile shows in how many pages kalloc() still     *)
(* finds: `left', chosen anew for each call.  The order of the free list   *)
(* is left out: kalloc() takes the lowest free page.                       *)
(***************************************************************************)
EXTENDS Integers, Sequences, FiniteSets, FiniteSetsExt, SequencesExt

CONSTANTS
    NPROC, PGSIZE,
    MAXU,               \* 2^64: sizes and addresses wrap here
    End, PHYSTOP,       \* the pages kinit() gives to the allocator
    trampoline,         \* the page of the kernel that all page tables map
    MAXARG,
    Execs, Sbrks, Reads,  \* inputs: see the instance
    Lefts,              \* how many pages kalloc() may find during one call
    MaxSz,              \* bound: sbrk() goes no further
    MaxCalls            \* bound: calls that change something

Procs == 0 .. NPROC - 1
Pages == End .. PHYSTOP - 1
MAXVA == PGSIZE^4
TRAMPOLINE == MAXVA - PGSIZE
TRAPFRAME == TRAMPOLINE - PGSIZE

\* There is less memory than addresses below the trapframe.
ASSUME MemoryAssumption ==
    /\ NPROC \in Nat \ {0} /\ PGSIZE \in Nat \ {0, 1} /\ MAXARG \in Nat \ {0}
    /\ 0 < trampoline /\ trampoline < End /\ End < PHYSTOP
    /\ Cardinality(Pages) * PGSIZE < TRAPFRAME /\ MAXVA < MAXU

VARIABLES
    mem,      \* free: how often a page is on the free list; page: what it holds;
              \* held: inodes locked in operations begun and not ended
    proc,     \* used, trapframe, pagetable, sz and the saved sp of a process
    panicked,
    calls     \* how many calls have changed something

vars == <<mem, proc, panicked, calls>>
------------------------------------------------------------------------------
\* Words: an entry of a page table is one, and a number is a word that is no
\* valid entry.  The fill bytes 1 and 5 of kfree() and kalloc() are valid ones.
Pte(pa, flags) == [pa |-> pa, flags |-> flags]
Word(n) == Pte(n, {})
Zero == Word(0)
Valid(pte) == "V" \in pte.flags
Filled(w) == [i \in 0 .. PGSIZE - 1 |-> w]

Off(a) == a % PGSIZE
PGROUNDDOWN(a) == a - Off(a)
PGROUNDUP(a) == PGROUNDDOWN(a + PGSIZE - 1)
PX(level, va) == (va \div PGSIZE^(level + 1)) % PGSIZE

\* A call works on m: the memory with what is left to find, the result of the
\* last routine (ret, and ok: whether it succeeded) and panic.
Call(free, page, left) ==
    [free |-> free, page |-> page, left |-> left, ret |-> 0, ok |-> TRUE, panic |-> FALSE,
     ip |-> 0, held |-> 0, args |-> <<>>, got |-> <<>>, pagetable |-> 0, sz |-> 0, sp |-> 0]
Ok(m) == [m EXCEPT !.ok = TRUE]
Fail(m) == [m EXCEPT !.ok = FALSE, !.ret = 0]
Panic(m) == [Fail(m) EXCEPT !.panic = TRUE]
Return(m, r) == [m EXCEPT !.ret = r]
Checked(m) == IF m.ret = 0 THEN Fail(m) ELSE m
AndThen(m, op(_)) == IF m.ok THEN op(m) ELSE m
OrElse(m, undo(_)) == IF m.ok THEN m ELSE undo(m)

\* A loop of n rounds from m on; Loop() stops at the first failure.
Repeat(step(_, _), m, n) ==
    LET after[i \in 0 .. n] == IF i = 0 THEN m ELSE step(after[i - 1], i - 1)
    IN  after[n]
Loop(step(_, _), m, n) ==
    LET go(w, i) == IF w.ok THEN step(w, i) ELSE w
    IN  Repeat(go, Ok(m), n)

FreePages(m) == {pa \in Pages : m.free[pa] > 0}
kalloc(m) ==
    LET take(r) == [Ok(m) EXCEPT !.free[r] = @ - 1, !.page[r] = Filled(Pte(0, {"V", "W"})),
                                 !.left = @ - 1, !.ret = r]
    IN  IF m.left = 0 \/ FreePages(m) = {} THEN Fail(m) ELSE take(Min(FreePages(m)))

kfree(m, pa) ==
    IF m.panic \/ pa \notin Pages THEN Panic(m)
    ELSE [m EXCEPT !.page[pa] = Filled(Pte(0, {"V"})), !.free[pa] = @ + 1]

memset0(m, pa) == [m EXCEPT !.page[pa] = Filled(Zero)]

\* The page of the last level's table for va.
walk(m, pagetable, va, alloc) ==
    LET new(w, i) ==
          AndThen(IF alloc THEN kalloc(w) ELSE Fail(w),
                  LAMBDA k : [memset0(k, k.ret) EXCEPT !.page[w.ret][i] = Pte(k.ret, {"V"})])
        down(w, i) == IF Valid(w.page[w.ret][i]) THEN Return(w, w.page[w.ret][i].pa) ELSE new(w, i)
        table == Return(Ok(m), pagetable)
    IN  IF m.panic \/ va >= MAXVA THEN Panic(m)
        ELSE AndThen(down(table, PX(2, va)), LAMBDA w : down(w, PX(1, va)))

Entry(m, pagetable, va) ==
    LET of(t) == IF t = 0 THEN Zero ELSE m.page[t][PX(0, va)]
    IN  of(walk(m, pagetable, va, FALSE).ret)

walkaddr(m, pagetable, va) ==
    LET user(pte) == IF Valid(pte) /\ "U" \in pte.flags THEN pte.pa ELSE 0
    IN  IF va >= MAXVA THEN 0 ELSE user(Entry(m, pagetable, va))

mappages(m, pagetable, va, size, pa, perm) ==
    LET a == PGROUNDDOWN(va)
        put(t, x, i) == IF Valid(t.page[t.ret][x]) THEN Panic(t)
                        ELSE [t EXCEPT !.page[t.ret][x] = Pte(pa + i, perm \cup {"V"})]
        step(w, i) == AndThen(walk(w, pagetable, a + i * PGSIZE, TRUE),
                              LAMBDA t : put(t, PX(0, a + i * PGSIZE), i))
    IN  IF size = 0 THEN Panic(m)
        ELSE Loop(step, m, (PGROUNDDOWN(va + size - 1) - a) \div PGSIZE + 1)

uvmunmap(m, pagetable, va, npages, do_free) ==
    LET clear(w, t, x) == [w EXCEPT !.page[t][x] = Zero]
        unmap(w, t, x, pte) ==
          IF ~Valid(pte) \/ pte.flags = {"V"} THEN Panic(w)
          ELSE clear(IF do_free THEN kfree(w, pte.pa) ELSE w, t, x)
        in(w, t, x) == IF t = 0 THEN Panic(w) ELSE unmap(w, t, x, w.page[t][x])
        step(w, i) == in(w, walk(w, pagetable, va + i * PGSIZE, FALSE).ret, PX(0, va + i * PGSIZE))
    IN  IF va % PGSIZE # 0 THEN Panic(m) ELSE Loop(step, m, npages)

uvmcreate(m) == AndThen(kalloc(m), LAMBDA k : memset0(k, k.ret))

uvmdealloc(m, pagetable, oldsz, newsz) ==
    LET n == (PGROUNDUP(oldsz) - PGROUNDUP(newsz)) \div PGSIZE IN
    IF newsz >= oldsz THEN Return(m, oldsz)
    ELSE Return(IF n > 0 THEN uvmunmap(m, pagetable, PGROUNDUP(newsz), n, TRUE) ELSE m, newsz)

\* What uvmalloc() does when the page at a cannot be had.
Unalloc_Kept(m, pagetable, old, a) == Fail(m)
Unalloc(m, pagetable, old, a) == Fail(uvmdealloc(m, pagetable, a, old))
uvmalloc(m, pagetable, oldsz, newsz, xperm) ==
    LET old == PGROUNDUP(oldsz)
        map(k, a) == OrElse(mappages(memset0(k, k.ret), pagetable, a, PGSIZE, k.ret, {"R", "U"} \cup xperm),
                            LAMBDA x : kfree(x, k.ret))
        step(w, i) == OrElse(AndThen(kalloc(w), LAMBDA k : map(k, old + i * PGSIZE)),
                             LAMBDA x : Unalloc(x, pagetable, old, old + i * PGSIZE))
        n == IF newsz > old THEN (newsz - old + PGSIZE - 1) \div PGSIZE ELSE 0
    IN  IF newsz < oldsz THEN Return(m, oldsz)
        ELSE AndThen(Loop(step, m, n), LAMBDA r : Return(r, newsz))

\* The tables below a page, itself included, by level; entries of the last
\* level must be gone.
Tables(m, pagetable) ==
    LET below(ts) == {m.page[t][i].pa : <<t, i>> \in
                        {x \in ts \X (0 .. PGSIZE - 1) : Valid(m.page[x[1]][x[2]])}}
    IN  <<{pagetable}, below({pagetable}), below(below({pagetable}))>>
FreeAll(m, pas) ==
    LET free(w, i) == kfree(w, pas[i + 1]) IN Repeat(free, m, Len(pas))
freewalk(m, pagetable) ==
    LET free(ts) ==
          IF \E t \in ts[3], i \in 0 .. PGSIZE - 1 : Valid(m.page[t][i]) THEN Panic(m)
          ELSE FreeAll(m, SetToSeq(ts[3]) \o SetToSeq(ts[2]) \o SetToSeq(ts[1]))
    IN  free(Tables(m, pagetable))

uvmfree(m, pagetable, sz) ==
    freewalk(IF sz > 0 THEN uvmunmap(m, pagetable, 0, PGROUNDUP(sz) \div PGSIZE, TRUE) ELSE m, pagetable)

Copied_None(m, pa, mem_) == m
Copied(m, pa, mem_) == [m EXCEPT !.page[mem_] = m.page[pa]]
uvmcopy(m, old, new, sz) ==
    LET map(k, i, pte) ==
          OrElse(mappages(Copied(k, pte.pa, k.ret), new, i * PGSIZE, PGSIZE, k.ret, pte.flags),
                 LAMBDA x : kfree(x, k.ret))
        copy(w, i, pte) ==
          IF ~Valid(pte) THEN Panic(w)
          ELSE OrElse(AndThen(kalloc(w), LAMBDA k : map(k, i, pte)),
                      LAMBDA x : Fail(uvmunmap(x, new, 0, i, TRUE)))
        step(w, i) == copy(w, i, Entry(w, old, i * PGSIZE))
    IN  Loop(step, m, (sz + PGSIZE - 1) \div PGSIZE)

uvmclear(m, pagetable, va) ==
    LET clear(t) == IF t = 0 THEN Panic(m) ELSE [m EXCEPT !.page[t][PX(0, va)].flags = @ \ {"U"}]
    IN  clear(walk(m, pagetable, va, FALSE).ret)

\* One page's worth of a copy that is at address c.va with c.len words to go.
Chunk(c) == Min({PGSIZE - Off(c.va), c.len})
Advance_Page(c, n) == [c EXCEPT !.len = @ - n, !.va = @ + PGSIZE]
Advance(c, n) == [c EXCEPT !.len = @ - n, !.va = PGROUNDDOWN(@) + PGSIZE]
Copy(step(_, _, _), m, va, len) ==
    LET in(c, pa0) == IF pa0 = 0 THEN Fail(c) ELSE step(c, pa0, Chunk(c))
        go(c, i) == IF c.len = 0 \/ ~c.ok THEN c
                    ELSE in(c, walkaddr(m, m.pagetable, PGROUNDDOWN(c.va)))
    IN  Repeat(go, [m |-> m, va |-> va, len |-> len, got |-> <<>>, ok |-> TRUE, ret |-> 0, null |-> FALSE],
               len)

\* Between the kernel's words and the memory of m.pagetable.
copyout(m, dstva, src) ==
    LET put(c, pa0, n, done) ==
          [i \in 0 .. PGSIZE - 1 |-> IF i \in Off(c.va) .. Off(c.va) + n - 1
                                     THEN src[done + i - Off(c.va) + 1] ELSE c.m.page[pa0][i]]
        step(c, pa0, n) == [Advance(c, n) EXCEPT !.m.page[pa0] = put(c, pa0, n, Len(src) - c.len)]
    IN  Copy(step, m, dstva, Len(src))

In(m, c, pa0, n) == [i \in 1 .. n |-> m.page[pa0][Off(c.va) + i - 1]]
copyin(m, srcva, len) ==
    LET step(c, pa0, n) == [Advance(c, n) EXCEPT !.got = @ \o In(m, c, pa0, n)]
    IN  Copy(step, m, srcva, len)

copyinstr(m, srcva, max) ==
    LET to(c, n, ws, nulls) ==
          IF nulls = {} THEN [Advance(c, n) EXCEPT !.got = @ \o ws]
          ELSE [c EXCEPT !.got = @ \o SubSeq(ws, 1, Min(nulls)), !.null = TRUE, !.len = 0]
        scan(c, n, ws) == to(c, n, ws, {i \in 1 .. n : ws[i] = Zero})
        step(c, pa0, n) == scan(c, n, In(m, c, pa0, n))
        end(r) == [r EXCEPT !.ok = @ /\ r.null]
    IN  end(Copy(step, m, srcva, max))
------------------------------------------------------------------------------
\* proc.c: the page table of a process, and what goes with the process.
proc_pagetable(m, trapframe) ==
    LET unmap(x, pt) == uvmunmap(x, pt, TRAMPOLINE, 1, FALSE)
        frame(t, pt) == OrElse(mappages(t, pt, TRAPFRAME, PGSIZE, trapframe, {"R", "W"}),
                               LAMBDA x : Fail(unmap(x, pt)))
        map(pt) == AndThen(mappages(pt, pt.ret, TRAMPOLINE, PGSIZE, trampoline, {"R", "X"}),
                           LAMBDA t : frame(t, pt.ret))
        done(x, pt) == IF x.ok THEN Return(x, pt) ELSE Fail(uvmfree(x, pt, 0))
    IN  AndThen(uvmcreate(m), LAMBDA pt : done(map(pt), pt.ret))

proc_freepagetable(m, pagetable, sz) ==
    uvmfree(uvmunmap(uvmunmap(m, pagetable, TRAMPOLINE, 1, FALSE), pagetable, TRAPFRAME, 1, FALSE),
            pagetable, sz)

freeproc(m, trapframe, pagetable, sz) ==
    LET free(f) == IF pagetable # 0 THEN proc_freepagetable(f, pagetable, sz) ELSE f
    IN  free(IF trapframe # 0 THEN kfree(m, trapframe) ELSE m)

Unused == [used |-> FALSE, trapframe |-> 0, pagetable |-> 0, sz |-> 0, sp |-> 0]
Image(tf, pagetable, sz, sp) ==
    [used |-> TRUE, trapframe |-> tf, pagetable |-> pagetable, sz |-> sz, sp |-> sp]

\* allocproc(): the trapframe (kept in args), then the page table.
allocproc(m) ==
    LET table(tf) == OrElse(proc_pagetable([tf EXCEPT !.args = <<tf.ret>>], tf.ret),
                            LAMBDA x : Fail(freeproc(x, tf.ret, 0, 0)))
    IN  AndThen(kalloc(m), table)

Leave(m) ==
    /\ mem' = [free |-> m.free, page |-> m.page, held |-> m.held]
    /\ panicked' = m.panic
Enter(left) == Call(mem.free, mem.page, left)

\* fork(): the child's size is set only once its memory is there.
Fork(p, np, left) ==
    /\ proc[p].used /\ ~proc[np].used
    /\ \E a \in {allocproc(Enter(left))} :
         IF ~a.ok THEN Leave(a) /\ UNCHANGED proc
         ELSE \E c \in {uvmcopy(a, proc[p].pagetable, a.ret, proc[p].sz)} :
                IF ~c.ok THEN Leave(freeproc(c, a.args[1], a.ret, 0)) /\ UNCHANGED proc
                ELSE /\ Leave(c)
                     /\ proc' = [proc EXCEPT ![np] = Image(a.args[1], a.ret, proc[p].sz, proc[p].sp)]

\* wait() frees a child that has exited.
Reap(p) ==
    /\ proc[p].used /\ p # 0
    /\ Leave(freeproc(Enter(0), proc[p].trapframe, proc[p].pagetable, proc[p].sz))
    /\ proc' = [proc EXCEPT ![p] = Unused]

growproc(m, p, n) ==
    LET sz == (proc[p].sz + n) % MAXU IN
    IF n > 0 THEN Checked(uvmalloc(m, proc[p].pagetable, proc[p].sz, sz, {"W"}))
    ELSE IF n < 0 THEN uvmdealloc(m, proc[p].pagetable, proc[p].sz, sz)
    ELSE Return(m, proc[p].sz)

sys_sbrk(p, n, left) ==
    /\ proc[p].used /\ proc[p].sz + n <= MaxSz
    /\ \E m \in {growproc(Enter(left), p, n)} :
         /\ Leave(m)
         /\ proc' = IF m.ok THEN [proc EXCEPT ![p].sz = m.ret] ELSE proc

\* read() puts words into the caller's memory: either_copyout().
Read(p, r) ==
    /\ proc[p].used
    /\ Leave(copyout([Enter(0) EXCEPT !.pagetable = proc[p].pagetable], r.va, r.words).m)
    /\ UNCHANGED proc
------------------------------------------------------------------------------
\* exec.c.  The words of a file are numbered from prog.text.
loadseg(m, prog, ph) ==
    LET to(w, pa, off, n) ==
          IF pa = 0 THEN Panic(w)
          ELSE IF off + n > prog.size THEN Fail(w)
          ELSE [w EXCEPT !.page[pa] = [j \in 0 .. PGSIZE - 1 |->
                           IF j < n THEN Word(prog.text + off + j) ELSE w.page[pa][j]]]
        step(w, i) == to(w, walkaddr(w, w.pagetable, ph.vaddr + i * PGSIZE),
                         ph.off + i * PGSIZE, Min({ph.filesz - i * PGSIZE, PGSIZE}))
    IN  Loop(step, m, (ph.filesz + PGSIZE - 1) \div PGSIZE)

\* One program header: what uvmalloc() returns becomes the size.
LoadPh(m, prog, ph) ==
    IF ~ph.read THEN Fail(m)
    ELSE IF ~ph.load THEN m
    ELSE IF ph.memsz < ph.filesz \/ (ph.vaddr + ph.memsz) % MAXU < ph.vaddr \/ ph.vaddr % PGSIZE # 0
         THEN Fail(m)
    ELSE AndThen(Checked(uvmalloc(m, m.pagetable, m.sz, ph.vaddr + ph.memsz, ph.perm)),
                 LAMBDA a : loadseg([a EXCEPT !.sz = a.ret], prog, ph))

\* A guard page and a stack page above the program.
Stack(m) ==
    LET on(w) ==
          AndThen(Checked(uvmalloc(w, w.pagetable, w.sz, w.sz + 2 * PGSIZE, {"W"})),
                  LAMBDA a : [uvmclear(a, a.pagetable, a.sz) EXCEPT !.sz = a.ret, !.sp = a.ret])
    IN  on([m EXCEPT !.sz = PGROUNDUP(@)])

\* Push words (a string with its 0) at an aligned address of the stack page.
Aligned(sp) == sp - (sp % 2)
Push(m, words) ==
    LET copied(c, sp) == IF c.ok THEN [c.m EXCEPT !.sp = sp] ELSE Fail(m)
        at(sp) == IF sp < m.sz - PGSIZE THEN Fail(m) ELSE copied(copyout(m, sp, words), sp)
    IN  at(Aligned(m.sp - Len(words)))
PushArgs(m, argv) ==
    LET string(w, i) == [k \in 1 .. argv[i].len + 1 |-> w.page[w.args[i]][k - 1]]
        step(w, i) == AndThen(Push(w, string(w, i + 1)), LAMBDA c : [c EXCEPT !.got = Append(@, Word(c.sp))])
    IN  AndThen(Loop(step, m, Len(argv)), LAMBDA r : Push(r, Append(r.got, Zero)))

\* exec(): load under the inode's lock, then build the stack; a failure in
\* either frees what m.sz says is mapped.
Load(m, trapframe, prog) ==
    LET phs(w, i) == LoadPh(w, prog, prog.ph[i + 1])
    IN  IF ~prog.elf THEN Fail(m)
        ELSE AndThen(proc_pagetable(m, trapframe),
                     LAMBDA pt : Loop(phs, [pt EXCEPT !.pagetable = pt.ret], Len(prog.ph)))
ilock(m) == [m EXCEPT !.ip = 1, !.held = @ + 1]
iunlockput(m) == [m EXCEPT !.held = @ - 1]
Bad(m) ==
    LET put(f) == IF f.ip # 0 THEN iunlockput(f) ELSE f
    IN  Fail(put(IF m.pagetable # 0 THEN proc_freepagetable(m, m.pagetable, m.sz) ELSE m))
exec(m, p, prog, argv) ==
    LET loaded == Load(ilock(m), proc[p].trapframe, prog)
        stacked == AndThen(loaded, LAMBDA l : Stack([iunlockput(l) EXCEPT !.ip = 0]))
        done(a) == IF a.ok THEN Ok(proc_freepagetable(a, proc[p].pagetable, proc[p].sz)) ELSE Bad(a)
    IN  IF ~prog.found THEN Fail(m)
        ELSE done(AndThen(stacked, LAMBDA s : PushArgs(s, argv)))

\* sys_exec() fetches the arguments into pages of their own.
FetchArgs(m, argv) ==
    LET string(arg) == [j \in 0 .. PGSIZE - 1 |-> IF j < arg.len THEN Word(arg.text + j + 1) ELSE Zero]
        fetch(k, arg) ==
          LET taken == [k EXCEPT !.args = Append(@, k.ret)] IN
          IF arg.str THEN [taken EXCEPT !.page[k.ret] = string(arg)] ELSE Fail(taken)
        step(w, i) ==
          IF i >= MAXARG \/ (i < Len(argv) /\ ~argv[i + 1].addr) THEN Fail(w)
          ELSE IF i = Len(argv) THEN w
          ELSE AndThen(kalloc(w), LAMBDA k : fetch(k, argv[i + 1]))
    IN  Loop(step, m, Len(argv) + 1)
FreeArgs_Good(m) == IF m.ok THEN FreeAll(m, m.args) ELSE m
FreeArgs(m) == FreeAll(m, m.args)
sys_exec(p, prog, argv, left) ==
    /\ proc[p].used
    /\ \E e \in {AndThen(FetchArgs(Enter(left), argv), LAMBDA f : exec(f, p, prog, argv))} :
         /\ Leave(FreeArgs(e))
         /\ proc' = IF e.ok THEN [proc EXCEPT ![p].pagetable = e.pagetable, ![p].sz = e.sz, ![p].sp = e.sp]
                    ELSE proc
------------------------------------------------------------------------------
\* kinit() frees every page; userinit().
kinit == Call([pa \in Pages |-> 1], [pa \in Pages |-> Filled(Pte(0, {"V"}))], Cardinality(Pages))
initcode == [i \in 0 .. PGSIZE - 1 |-> IF i = 0 THEN Word(1) ELSE Zero]
uvmfirst(m, pagetable) ==
    LET first(k) == [mappages(memset0(k, k.ret), pagetable, 0, PGSIZE, k.ret, {"W", "R", "X", "U"})
                       EXCEPT !.page[k.ret] = initcode]
    IN  first(kalloc(m))
userinit == AndThen(allocproc(kinit), LAMBDA a : Return(uvmfirst(a, a.ret), a.ret))

Init ==
    \E u \in {userinit} :
       /\ mem = [free |-> u.free, page |-> u.page, held |-> 0]
       /\ proc = [p \in Procs |-> IF p = 0 THEN Image(u.args[1], u.ret, PGSIZE, PGSIZE) ELSE Unused]
       /\ panicked = u.panic /\ calls = 0

Next ==
    /\ ~panicked /\ calls < MaxCalls
    /\ \E p \in Procs :
         \/ Reap(p)
         \/ \E r \in Reads : Read(p, r)
         \/ \E left \in Lefts :
              \/ \E np \in Procs : Fork(p, np, left)
              \/ \E n \in Sbrks : sys_sbrk(p, n, left)
              \/ \E e \in Execs : sys_exec(p, e.prog, e.argv, left)
    /\ calls' = calls + (IF mem' = mem /\ proc' = proc THEN 0 ELSE 1)

Spec == Init /\ [][Next]_vars
------------------------------------------------------------------------------
Now == Call(mem.free, mem.page, 0)
Live == {p \in Procs : proc[p].used}

\* The valid entries of a page table: level, virtual address, entry.
Entries(pagetable) ==
    LET index == 0 .. PGSIZE - 1
        of(t, size, base) == {[level |-> size, va |-> base + i * size, pte |-> mem.page[t][i]] :
                                i \in {j \in index : Valid(mem.page[t][j])}}
        top == of(pagetable, PGSIZE^3, 0)
        mid == UNION {of(e.pte.pa, PGSIZE^2, e.va) : e \in top}
    IN  top \cup mid \cup UNION {of(e.pte.pa, PGSIZE, e.va) : e \in mid}
Leaves(pagetable) == {e \in Entries(pagetable) : e.level = PGSIZE}

\* Everything that holds a page: a table by the entry above it, a user page
\* by its mapping, a root and a trapframe by their process.
Holds ==
    UNION {{[who |-> <<p, e.va, e.level>>, pa |-> e.pte.pa] :
              e \in {f \in Entries(proc[p].pagetable) :
                       f.va \notin {TRAMPOLINE, TRAPFRAME} \/ f.level > PGSIZE}}
           \cup {[who |-> <<p, 0, 0>>, pa |-> proc[p].pagetable],
                 [who |-> <<p, TRAPFRAME, 0>>, pa |-> proc[p].trapframe]} : p \in Live}

\* Every page is in one place: once on the free list, or held once by a page
\* table or a process, whatever call ran out of memory half way
\* (the error paths of uvmalloc(), uvmcopy(), allocproc(), exec(), sys_exec()),
\* and no call leaves an inode locked, puts one twice or panics.
PagesAccounted ==
    /\ \A pa \in Pages : mem.free[pa] + Cardinality({h \in Holds : h.pa = pa}) = 1
    /\ mem.held = 0 /\ ~panicked

\* The size of a process says which of its pages are mapped (uvmfree(),
\* uvmcopy() and uvmdealloc() rely on it): those below it and no other, next
\* to the trampoline and the process's own trapframe, which it cannot reach.
SizeIsMapped ==
    \A p \in Live :
       LET leaves == Leaves(proc[p].pagetable) IN
       /\ {e.va : e \in leaves} =
            {a \in 0 .. proc[p].sz - 1 : Off(a) = 0} \cup {TRAPFRAME, TRAMPOLINE}
       /\ \A e \in leaves :
            /\ e.va = TRAPFRAME => e.pte.pa = proc[p].trapframe /\ "U" \notin e.pte.flags
            /\ e.va = TRAMPOLINE => e.pte.pa = trampoline /\ e.pte.flags = {"V", "R", "X"}

\* What process p reads by address, when memory is m and the processes are pr.
Bytes(m, pr, p) ==
    LET call == Call(m.free, m.page, 0)
        starts == {a \in 0 .. pr[p].sz - 1 : Off(a) = 0}
        pages == {[va |-> a, pa |-> walkaddr(call, pr[p].pagetable, a)] : a \in starts}
        reach == {e \in pages : e.pa # 0}
        at(a) == CHOOSE e \in reach : e.va = PGROUNDDOWN(a)
    IN  [a \in UNION {e.va .. e.va + PGSIZE - 1 : e \in reach} |-> m.page[at(a).pa][Off(a)]]
Space(m, pr) ==
    [p \in Procs |-> [live |-> pr[p].used, sz |-> pr[p].sz, sp |-> pr[p].sp,
                      mem |-> IF pr[p].used THEN Bytes(m, pr, p) ELSE <<>>]]
Abstract == INSTANCE UserMemory WITH Boot <- initcode, space <- Space(mem, proc)

\* Page tables implement private memories (UserMemory): no call of one process
\* shows in another's memory, grown memory reads as zero, fork() copies, exec()
\* replaces the whole image or nothing.  This is Abstract!Spec, with the memories
\* before and after a step computed once.
PrivateMemory ==
    /\ Abstract!Init
    /\ [][\E m \in {mem'}, pr \in {proc'} : \E s \in {Space(mem, proc)}, t \in {Space(m, pr)} :
             s = t \/ Abstract!Step(s, t)]_vars

\* copyin(), copyout() and copyinstr() move exactly the words asked for, over
\* page boundaries, to and from the pages mapped for the user, and fail at the
\* first page that is not: the guard page, one above the size, the trapframe,
\* the trampoline or an address past the page table.  copyout() has then
\* stored the words before it, and never changes another word of memory.
Edges == (TRAPFRAME - 2 .. MAXVA + 1) \cup {MAXU - 1}
CopiesRight ==
    \A p \in Live :
       \A user \in {{e \in Leaves(proc[p].pagetable) : "U" \in e.pte.flags}} :
       LET at(a) == (CHOOSE e \in user : e.va = PGROUNDDOWN(a)).pte.pa
           reach == UNION {e.va .. e.va + PGSIZE - 1 : e \in user}
           m == [Now EXCEPT !.pagetable = proc[p].pagetable]
           words(a, n) == [i \in 1 .. n |-> mem.page[at(a + i - 1)][Off(a + i - 1)]]
       IN  \A va \in 0 .. PGROUNDUP(proc[p].sz) \cup Edges, len \in {1, PGSIZE, PGSIZE + 1} :
             LET mine == {a \in va .. va + len - 1 : va .. a \subseteq reach}
                 nulls == {a \in mine : mem.page[at(a)][Off(a)] = Zero}
                 touched == {at(a) : a \in mine}
                 in == copyin(m, va, len)
                 str == copyinstr(m, va, len)
                 src == [i \in 1 .. len |-> Word(900 + i)]
                 out == copyout(m, va, src)
             IN  /\ in.ok <=> Cardinality(mine) = len
                 /\ in.got = words(va, Len(in.got)) /\ (in.ok => Len(in.got) = len)
                 /\ str.ok <=> nulls # {}
                 /\ str.ok => str.got = words(va, Min(nulls) - va + 1)
                 /\ out.ok <=> Cardinality(mine) = len
                 /\ \A pa \in Pages \ touched : out.m.page[pa] = mem.page[pa]
                 /\ \A pa \in touched, i \in 0 .. PGSIZE - 1 :
                      out.m.page[pa][i] =
                        IF \E a \in mine : at(a) = pa /\ Off(a) = i
                        THEN src[(CHOOSE a \in mine : at(a) = pa /\ Off(a) = i) - va + 1]
                        ELSE mem.page[pa][i]
==============================================================================
