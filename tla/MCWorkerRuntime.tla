--------------------------- MODULE MCWorkerRuntime ---------------------------
(***************************************************************************)
(* WorkerRuntime against one job server.  The server is modelled from the  *)
(* protocol it speaks (spec.md 4.C/4.D), loosely: it answers GRAB_JOB with *)
(* JOB_ASSIGN of any pending job of a function the worker declared, or     *)
(* NO_JOB; it may wake a sleeping worker with NOOP whenever such a job is  *)
(* pending; it records the WORK_* packets it receives.                     *)
(***************************************************************************)
EXTENDS WorkerRuntime, TLC

CONSTANTS
  QueueSize   \* capacity of worker.in (rt.QueueSize), bounded for TLC

VARIABLES
  srvCanDo,   \* functions the server believes this worker can do
  pool,       \* jobs queued at the server, not yet assigned
  sleeping,   \* the worker session has sent PRE_SLEEP and not been woken
  answers     \* answers[j]: WORK_COMPLETE/FAIL/EXCEPTION packets received

svars == <<srvCanDo, pool, sleeping, answers>>
vars == <<wvars, svars>>

CONSTANTS f1, f2, j1, j2, j3

MCFuncs == {f1, f2}
MCJobs == {j1, j2, j3}
MCJobs2 == {j1, j3}
MCJobFn == [j \in Jobs |-> IF j = j3 THEN f2 ELSE f1]
MCResults == [err : BOOLEAN, data : BOOLEAN]

(* The agent hands a packet read from the connection to worker.in; once  *)
(* the worker is closed, packets are dropped.                            *)
Deliver(p) ==
  IF inClosed THEN UNCHANGED in ELSE in' = Append(in, p)

Room == inClosed \/ Len(in) < QueueSize

Assignable == {j \in pool : JobFn[j] \in srvCanDo}

(* The server handles the next packet the worker wrote. *)
ServerRecv ==
  /\ toServer # <<>>
  /\ Room
  /\ toServer' = Tail(toServer)
  /\ LET p == Head(toServer) IN
       \/ /\ p.t = "CAN_DO"
          /\ srvCanDo' = srvCanDo \cup {p.f}
          /\ UNCHANGED <<in, pool, sleeping, answers>>
       \/ /\ p.t = "CANT_DO"
          /\ srvCanDo' = srvCanDo \ {p.f}
          /\ UNCHANGED <<in, pool, sleeping, answers>>
       \/ /\ p.t = "GRAB_JOB"
          /\ Assignable # {}
          /\ \E j \in Assignable :
               /\ Deliver([t |-> "JOB_ASSIGN", j |-> j])
               /\ pool' = pool \ {j}
          /\ sleeping' = FALSE
          /\ UNCHANGED <<srvCanDo, answers>>
       \/ /\ p.t = "GRAB_JOB"
          /\ Assignable = {}
          /\ Deliver([t |-> "NO_JOB"])
          /\ UNCHANGED <<srvCanDo, pool, sleeping, answers>>
       \/ /\ p.t = "PRE_SLEEP"
          /\ sleeping' = TRUE
          /\ UNCHANGED <<in, srvCanDo, pool, answers>>
       \/ /\ p.t \in {"WORK_COMPLETE", "WORK_FAIL", "WORK_EXCEPTION"}
          /\ answers' = [answers EXCEPT ![p.j] = @ + 1]
          /\ UNCHANGED <<in, srvCanDo, pool, sleeping>>
  /\ UNCHANGED <<funcs, calls, ready, running, shuttingDown, appPc, mainPc,
                 inClosed, connected, tokens, active, execPc, result, fnBusy>>

(* A job for a declared function is pending: wake the sleeping worker. *)
ServerWake ==
  /\ sleeping
  /\ Assignable # {}
  /\ Room
  /\ Deliver([t |-> "NOOP"])
  /\ sleeping' = FALSE
  /\ UNCHANGED <<srvCanDo, pool, answers>>
  /\ UNCHANGED <<funcs, calls, ready, running, shuttingDown, appPc, mainPc,
                 inClosed, connected, toServer, tokens, active, execPc,
                 result, fnBusy>>

ServerNext == ServerRecv \/ ServerWake

Init ==
  /\ WInit
  /\ srvCanDo = {}
  /\ pool = Jobs
  /\ sleeping = FALSE
  /\ answers = [j \in Jobs |-> 0]

Next ==
  \/ WNext /\ UNCHANGED svars
  \/ ServerNext

Spec == Init /\ [][Next]_vars /\ WFairness /\ WF_vars(ServerNext)

-----------------------------------------------------------------------------
TypeOK ==
  /\ WTypeOK
  /\ srvCanDo \subseteq Funcs
  /\ pool \subseteq Jobs
  /\ sleeping \in BOOLEAN
  /\ answers \in [Jobs -> Nat]

(* A timed-out job's user function may still return later; execTimeout   *)
(* must drop that late result: the server gets at most one WORK_COMPLETE, *)
(* WORK_FAIL or WORK_EXCEPTION per job.                                   *)
AnswerAtMostOnce == \A j \in Jobs : answers[j] <= 1

(* Every job the worker accepts is eventually answered to the server,     *)
(* unless the worker is shutting down or closed first (spec.md 4.H: on    *)
(* return or panic, WORK_COMPLETE / WORK_EXCEPTION / WORK_FAIL is sent).  *)
AcceptedJobAnswered ==
  \A j \in Jobs :
    execPc[j] = "spawned" ~> (answers[j] > 0 \/ shuttingDown \/ ~running)

(* Once the worker runs and every packet it wrote has been handled, the   *)
(* server's can-do set for it is exactly the worker's function table.     *)
RegisteredAtServer ==
  running /\ toServer = <<>> => srvCanDo = DOMAIN funcs
=============================================================================
