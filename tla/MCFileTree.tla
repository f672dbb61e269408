----------------------------- MODULE MCFileTree -----------------------------
\* /a/b on a disk of four inodes, and paths up and down from it.
EXTENDS FileTree, TLC

MCNames == {"a", "b", ".", ".."}
Dir(i, up, es) == [n \in MCNames |-> IF n = "." THEN i ELSE IF n = ".." THEN up
                                     ELSE IF n \in DOMAIN es THEN es[n] ELSE 0]
MCDisk == [i \in Inums |->
    CASE i = 1 -> [type |-> "DIR", nlink |-> 2, ents |-> Dir(1, 1, [a |-> 2])]
      [] i = 2 -> [type |-> "DIR", nlink |-> 2, ents |-> Dir(2, 1, [b |-> 3])]
      [] i = 3 -> [type |-> "DIR", nlink |-> 1, ents |-> Dir(3, 2, [n \in {} |-> 0])]
      [] OTHER -> Free]

Abs(e) == [abs |-> TRUE, elems |-> e]
Rel(e) == [abs |-> FALSE, elems |-> e]
AB == Abs(<<"a", "b">>)
Call(op, type, path, new) == [op |-> op, type |-> type, path |-> path, new |-> new]
MCCalls ==
    {Call("chdir", "", q, 0) : q \in {AB, Rel(<<"..">>)}}
    \cup {Call("unlink", "", q, 0) : q \in {AB, Abs(<<"a">>), Rel(<<"b">>), Rel(<<"..">>)}}
    \cup {Call("create", "DIR", q, 0) : q \in {Abs(<<"a">>), Rel(<<"b">>)}}
    \cup {Call("create", "FILE", q, 0) : q \in {Rel(<<"b">>), Rel(<<"..", "..", "a">>)}}
    \cup {Call("create", "DEVICE", Rel(<<"b">>), 0)}
    \cup {Call("open", m, Rel(<<"b">>), 0) : m \in {"RDONLY", "RDWR"}}
    \cup {Call("link", "", Rel(<<"b">>), q) : q \in {Abs(<<"a">>), Abs(<<>>)}}
Perms == Permutations(Procs)
==============================================================================
