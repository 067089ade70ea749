------------------------------ MODULE FileCopy ------------------------------
(***************************************************************************)
(* What a file transfer promises its caller: the file grows by what comes  *)
(* next in it, and is complete when all of it is there.                    *)
(***************************************************************************)
EXTENDS Naturals

CONSTANT FileLen    \* the file is the sequence of the units 1 .. FileLen

VARIABLES
    copy,           \* the units written
    complete        \* the caller has been told that the file is complete

copyVars == <<copy, complete>>

Part(n) == [i \in 1 .. n |-> i]

CopyInit == copy = Part(0) /\ complete = FALSE

Open == copy' = Part(0) /\ complete' = FALSE

Grow ==
    /\ ~complete
    /\ \E m, n \in 0 .. FileLen :
          /\ m < n /\ copy = Part(m) /\ copy' = Part(n)
          /\ complete' = (n = FileLen)

Close == complete /\ complete' = FALSE /\ copy' = copy

CopyNext == Open \/ Grow \/ Close

CopySpec == CopyInit /\ [][CopyNext]_copyVars
=============================================================================
