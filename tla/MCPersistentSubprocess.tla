------------------------ MODULE MCPersistentSubprocess ------------------------
EXTENDS PersistentSubprocess, TLC

CONSTANTS j1, j2

MCJobs == {j1, j2}
(* A record with an empty line inside it. *)
MCDataGap == (j1 :> <<"text", "empty", "text">>) @@ (j2 :> <<"text">>)
(* Records larger than the two pipes can hold together. *)
MCDataLarge == (j1 :> <<"text", "text", "text">>) @@ (j2 :> <<"text">>)
(* Plain one-line records. *)
MCDataLines == (j1 :> <<"text">>) @@ (j2 :> <<"text">>)
=============================================================================
