------------------------------ MODULE MCBtree ------------------------------
(* Instances of Btree for TLC. *)
EXTENDS Btree

MCBatches  == {<<2>>, <<3, 1>>}
MCDel      == {{1}, {1, 2}}
MCRestores == {<<>>, <<3, 1, 1>>}
=============================================================================
