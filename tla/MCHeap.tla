------------------------------- MODULE MCHeap -------------------------------
(* Instances of Heap for TLC. *)
EXTENDS Heap

MCBatches  == {<<2>>, <<3, 1, 2>>}
MCDel      == {{1}, {2}}
MCRestores == {<<>>, <<3, 1, 2, 1>>}
=============================================================================
