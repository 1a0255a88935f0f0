------------------------------ MODULE MCPHashgen ------------------------------
(***************************************************************************)
(* Small instances of PHashgen.                                            *)
(***************************************************************************)
EXTENDS PHashgen

MCNewArray == [s \in 0..CUP_SIZE - 1 |-> Uninitialised]
==============================================================================
