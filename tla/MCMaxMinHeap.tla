---------------------------- MODULE MCMaxMinHeap ----------------------------
(* Small instances of MaxMinHeap for TLC. *)
EXTENDS MaxMinHeap

\* An item is as large as its number, and that is its priority, but for the two
\* lowest, which tie.
Numbers == 1 .. MaxLen

Own == [i \in Items |-> i]
Tied == [i \in Items |-> IF i = 2 THEN 1 ELSE i]
=============================================================================
