---------------------------- MODULE JobLifecycle ----------------------------
(***************************************************************************)
(* What the broker promises about each job handle (spec.md 3, "Job" and   *)
(* "Lifecycle"; 4.B; 4.E), with nothing of queues, sessions or workers:  *)
(*   - handles are handed out in increasing order and never reused;       *)
(*   - a job is created Queued, moves to Running when a worker takes it,  *)
(*     and is gone once the worker's terminal packet is handled;          *)
(*   - a crash of the server ends every foreground job and puts every     *)
(*     durable (background) job back to Queued, to be replayed.           *)
(***************************************************************************)
EXTENDS Naturals

CONSTANT Handles   \* the handles of a broker lifetime, in allocation order

VARIABLE life      \* life[h]: the state of the job with handle h, and
                   \* whether it is durable

Life(st, bg) == [st |-> st, bg |-> bg]
None == Life("none", FALSE)
Gone == Life("gone", FALSE)

LInit == life = [h \in Handles |-> None]

(* A submit creates the next handle, Queued. *)
LCreate(h, bg) ==
  /\ life[h] = None
  /\ \A k \in Handles : k < h => life[k] # None
  /\ life' = [life EXCEPT ![h] = Life("Queued", bg)]

(* A worker takes the job. *)
LAssign(h) ==
  /\ life[h].st = "Queued"
  /\ life' = [life EXCEPT ![h].st = "Running"]

(* The worker's WORK_COMPLETE, WORK_FAIL or WORK_EXCEPTION is handled. *)
LFinish(h) ==
  /\ life[h].st = "Running"
  /\ life' = [life EXCEPT ![h] = Gone]

(* The server crashes: durable jobs are Queued again, the others gone. *)
LCrash ==
  life' = [h \in Handles |->
             IF life[h].st \in {"Queued", "Running"}
             THEN IF life[h].bg THEN Life("Queued", TRUE) ELSE Gone
             ELSE life[h]]

LNext ==
  \/ \E h \in Handles, bg \in BOOLEAN : LCreate(h, bg)
  \/ \E h \in Handles : LAssign(h) \/ LFinish(h)
  \/ LCrash

LSpec == LInit /\ [][LNext]_life
=============================================================================
