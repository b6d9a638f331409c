--------------------------- MODULE MCEofSubprocess ---------------------------
(***************************************************************************)
(* --eof mode on the command of the package's TestWorkerSubprocess:       *)
(* "echo hello" on the data "test data", which echo never reads.          *)
(***************************************************************************)
EXTENDS EofSubprocess, TLC

CONSTANT j1

(* One job, one line of data. *)
TestData == j1 :> 1
=============================================================================
