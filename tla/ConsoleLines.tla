---------------------------- MODULE ConsoleLines ----------------------------
(***************************************************************************)
(* What the console promises to those who read from it: the line being     *)
(* typed can be edited until it is handed over, by its end, by ^D or       *)
(* because there is no room for more; what was handed over is read once    *)
(* and in order, and a read() gets no more than one line.                  *)
(***************************************************************************)
EXTENDS Naturals, Sequences

CONSTANTS Procs, INPUT_BUF_SIZE, Typed

VARIABLES
    ready,    \* the characters handed over and not yet read
    edit,     \* the line being typed
    got       \* what each process has of the read() it is in

Erase == {"^H", "DEL"}

Init == ready = <<>> /\ edit = <<>> /\ got = [p \in Procs |-> <<>>]

Stored(c) == IF c = "CR" THEN "NL" ELSE c

Kill == edit' = <<>> /\ UNCHANGED <<ready, got>>

EraseLast ==
    /\ edit # <<>>
    /\ edit' = SubSeq(edit, 1, Len(edit) - 1)
    /\ UNCHANGED <<ready, got>>

Add(c) ==
    LET line == Append(edit, Stored(c))
        size == Len(ready) + Len(line)
    IN  /\ size <= INPUT_BUF_SIZE
        /\ IF Stored(c) \in {"NL", "^D"} \/ size = INPUT_BUF_SIZE
           THEN ready' = ready \o line /\ edit' = <<>>
           ELSE edit' = line /\ UNCHANGED ready
        /\ UNCHANGED got

\* A read() gets the next character, unless its line is complete.
Take(p) ==
    /\ ready # <<>> /\ Head(ready) # "^D"
    /\ got[p] = <<>> \/ got[p][Len(got[p])] # "NL"
    /\ ready' = Tail(ready)
    /\ got' = [got EXCEPT ![p] = Append(@, Head(ready))]
    /\ UNCHANGED edit

\* ^D ends a read(), and is gone when the read() got nothing before it.
EndOfFile(p) ==
    /\ ready # <<>> /\ Head(ready) = "^D" /\ got[p] = <<>>
    /\ ready' = Tail(ready)
    /\ UNCHANGED <<edit, got>>

\* A character that cannot be copied to the reader is lost.
Fault(p) ==
    /\ ready # <<>> /\ Head(ready) # "^D"
    /\ ready' = Tail(ready)
    /\ UNCHANGED <<edit, got>>

Return(p) == got' = [got EXCEPT ![p] = <<>>] /\ UNCHANGED <<ready, edit>>

Next ==
    \/ Kill \/ EraseLast
    \/ \E c \in Typed \ (Erase \cup {"^U", "NUL"}) : Add(c)
    \/ \E p \in Procs : Take(p) \/ EndOfFile(p) \/ Fault(p) \/ Return(p)

Spec == Init /\ [][Next]_<<ready, edit, got>>
==============================================================================
