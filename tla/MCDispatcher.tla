---------------------------- MODULE MCDispatcher ----------------------------
(***************************************************************************)
(* Small instances of Dispatcher for TLC: every row of an instance writes  *)
(* the same file, the case in which rows can hurt one another.             *)
(***************************************************************************)
EXTENDS Dispatcher

CONSTANT f1

OneFile == [i \in Ids |-> f1]
=============================================================================
