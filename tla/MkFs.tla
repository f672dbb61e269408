--------------------------------- MODULE MkFs ---------------------------------
(***************************************************************************)
(* The file system image that mkfs/mkfs.c writes, as a function of the     *)
(* lengths of the files it is given.  A block has BSIZE words; a word is a *)
(* block number, a directory entry or a unit of a file's contents.         *)
(***************************************************************************)
EXTENDS Integers, Sequences, FiniteSets

CONSTANTS
    FSSIZE, BSIZE, NDIRECT, LOGSIZE,
    NINODES, IPB      \* inodes, and how many fit a block

NINDIRECT == BSIZE
MAXFILE == NDIRECT + NINDIRECT
ROOTINO == 1
nbitmap == 1      \* one block has room for every bit
ninodeblocks == NINODES \div IPB + 1
nmeta == 2 + LOGSIZE + ninodeblocks + nbitmap
Blocks == 0 .. FSSIZE - 1
Inums == 1 .. NINODES - 1

zeroes == [i \in 0 .. BSIZE - 1 |-> 0]
NoInode == [type |-> 0, size |-> 0, addrs |-> [i \in 0 .. NDIRECT |-> 0]]

\* mkfs at work: the blocks and inodes written, and the next free of each.
Blank == [data |-> [b \in Blocks |-> zeroes], dinode |-> [i \in Inums |-> NoInode],
          freeblock |-> nmeta, freeinode |-> 1]

\* Blocks and inodes are written in place.
wsect(fs, sec, buf) == [fs EXCEPT !.data[sec] = buf]
winode(fs, inum, din) == [fs EXCEPT !.dinode[inum] = din]
rinode(fs, inum) == fs.dinode[inum]

ialloc_mkfs(fs, type) ==
    [winode(fs, fs.freeinode, [NoInode EXCEPT !.type = type]) EXCEPT !.freeinode = @ + 1]

\* A block for word `off' of inode inum, through the indirect block if need be.
Grow(fs, inum, off) ==
    LET fbn == off \div BSIZE
        ind == fs.dinode[inum].addrs[NDIRECT]
    IN  IF fbn < NDIRECT
        THEN IF fs.dinode[inum].addrs[fbn] # 0 THEN fs
             ELSE [fs EXCEPT !.dinode[inum].addrs[fbn] = fs.freeblock, !.freeblock = @ + 1]
        ELSE LET top == IF ind # 0 THEN fs
                        ELSE [fs EXCEPT !.dinode[inum].addrs[NDIRECT] = fs.freeblock, !.freeblock = @ + 1]
                 a == top.dinode[inum].addrs[NDIRECT]
             IN  IF top.data[a][fbn - NDIRECT] # 0 THEN top
                 ELSE [wsect(top, a, [top.data[a] EXCEPT ![fbn - NDIRECT] = top.freeblock])
                         EXCEPT !.freeblock = @ + 1]

\* The block that holds block bn of an inode, or 0.
Mapped(inode, data, bn) ==
    IF bn < NDIRECT THEN inode.addrs[bn]
    ELSE IF inode.addrs[NDIRECT] = 0 THEN 0
    ELSE data[inode.addrs[NDIRECT]][bn - NDIRECT]

\* iappend() of n words w, one at a time.
iappend(fs, inum, w, n) ==
    LET put(f) ==
          LET off == rinode(f, inum).size
              g == Grow(f, inum, off)
              x == Mapped(g.dinode[inum], g.data, off \div BSIZE)
          IN  winode(wsect(g, x, [g.data[x] EXCEPT ![off % BSIZE] = w]), inum,
                     [rinode(g, inum) EXCEPT !.size = off + 1])
        after[k \in 0 .. n] == IF k = 0 THEN fs ELSE put(after[k - 1])
    IN  after[n]

\* The root with "." and "..", then one entry and the words of each file; the
\* root's size is rounded up to a block in the end.
RootSize(off) == (off \div BSIZE + 1) * BSIZE
mkfs(lengths) ==
    LET root == iappend(ialloc_mkfs(Blank, 1), ROOTINO, ROOTINO, 2)
        file(fs, len) == iappend(iappend(ialloc_mkfs(fs, 2), ROOTINO, fs.freeinode, 1), fs.freeinode, 9, len)
        after[k \in 0 .. Len(lengths)] == IF k = 0 THEN root ELSE file(after[k - 1], lengths[k])
        fs == after[Len(lengths)]
    IN  winode(fs, ROOTINO, [rinode(fs, ROOTINO) EXCEPT !.size = RootSize(@)])

\* balloc() marks the first blocks as used.
balloc_mkfs(fs) == 0 .. fs.freeblock - 1
==============================================================================
