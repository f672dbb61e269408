------------------------------ MODULE MCConsole ------------------------------
EXTENDS Console, TLC

Load(t, r, w, k) == [typed |-> t, read |-> r, write |-> w, kill |-> k]
MCLoads == {Load(4, 3, 0, 1), Load(1, 0, 2, 0), Load(2, 1, 1, 1)}
Perms == Permutations(Procs)
==============================================================================
