----------------------------- MODULE MCRunLoop -----------------------------
(* A small instance of RunLoop for TLC: a domain with two keys, so that a  *)
(* purge with a repository of one key has to go on, and two enumerations   *)
(* can find different keys.                                                *)
EXTENDS RunLoop

CONSTANTS d1

MCRecords == {<<d1, 1>>, <<d1, 2>>}

=============================================================================
