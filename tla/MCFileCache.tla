---------------------------- MODULE MCFileCache -----------------------------
(* A small instance of FileCache for TLC.                                     *)
EXTENDS FileCache

(* Neighbouring bytes differ, so that one taken from the wrong place shows;   *)
(* 0 is also what fresh memory holds.                                         *)
MCContents == {[i \in 0 .. MaxSize - 1 |-> i % 2]}
==============================================================================
