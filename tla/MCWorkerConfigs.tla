--------------------------- MODULE MCWorkerConfigs ---------------------------
(***************************************************************************)
(* Two configurations of the worker library against the job server stub   *)
(* of MCWorkerRuntime, checked in one run:                                 *)
(*   "safety" limit 2 with three jobs, so that a wrong bound lets a third  *)
(*            job in; no timeouts; user functions may panic; f2 may be     *)
(*            removed; Shutdown may be called;                             *)
(*   "live"   limit 1 (OneByOne) with two jobs, functions registered with  *)
(*            timeout 0 or 1 s, no panics, no RemoveFunc.                  *)
(* The initial state picks the configuration; the other one stays in its  *)
(* initial state, so the state space is the sum of the two.               *)
(***************************************************************************)
EXTENDS TLC

CONSTANTS f1, f2, j1, j2, j3

VARIABLES
  config,
  sFuncs, sCalls, sReady, sRunning, sShuttingDown, sAppPc, sMainPc, sIn,
  sInClosed, sConnected, sToServer, sTokens, sActive, sExecPc, sResult,
  sFnBusy, sSrvCanDo, sPool, sSleeping, sAnswers,
  lFuncs, lCalls, lReady, lRunning, lShuttingDown, lAppPc, lMainPc, lIn,
  lInClosed, lConnected, lToServer, lTokens, lActive, lExecPc, lResult,
  lFnBusy, lSrvCanDo, lPool, lSleeping, lAnswers

safetyVars ==
  <<sFuncs, sCalls, sReady, sRunning, sShuttingDown, sAppPc, sMainPc, sIn,
    sInClosed, sConnected, sToServer, sTokens, sActive, sExecPc, sResult,
    sFnBusy, sSrvCanDo, sPool, sSleeping, sAnswers>>
liveVars ==
  <<lFuncs, lCalls, lReady, lRunning, lShuttingDown, lAppPc, lMainPc, lIn,
    lInClosed, lConnected, lToServer, lTokens, lActive, lExecPc, lResult,
    lFnBusy, lSrvCanDo, lPool, lSleeping, lAnswers>>
liveServerVars == <<lSrvCanDo, lPool, lSleeping, lAnswers>>
configVars == <<config, safetyVars, liveVars>>

(* j3 runs f2, the others f1. *)
FnOf(J) == [j \in J |-> IF j = j3 THEN f2 ELSE f1]

S == INSTANCE MCWorkerRuntime
       WITH Funcs <- {f1, f2}, Jobs <- {j1, j2, j3}, JobFn <- FnOf({j1, j2, j3}),
            Results <- [err : BOOLEAN, data : BOOLEAN], QueueSize <- 2,
            Limit <- 2, Timeouts <- {0}, MayPanic <- TRUE, Removable <- {f2},
            MaxCalls <- 3,
            funcs <- sFuncs, calls <- sCalls, ready <- sReady,
            running <- sRunning, shuttingDown <- sShuttingDown,
            appPc <- sAppPc, mainPc <- sMainPc, in <- sIn,
            inClosed <- sInClosed, connected <- sConnected,
            toServer <- sToServer, tokens <- sTokens, active <- sActive,
            execPc <- sExecPc, result <- sResult, fnBusy <- sFnBusy,
            srvCanDo <- sSrvCanDo, pool <- sPool, sleeping <- sSleeping,
            answers <- sAnswers

L == INSTANCE MCWorkerRuntime
       WITH Funcs <- {f1, f2}, Jobs <- {j1, j3}, JobFn <- FnOf({j1, j3}),
            Results <- [err : BOOLEAN, data : BOOLEAN], QueueSize <- 2,
            Limit <- 1, Timeouts <- {0, 1}, MayPanic <- FALSE, Removable <- {},
            MaxCalls <- 2,
            funcs <- lFuncs, calls <- lCalls, ready <- lReady,
            running <- lRunning, shuttingDown <- lShuttingDown,
            appPc <- lAppPc, mainPc <- lMainPc, in <- lIn,
            inClosed <- lInClosed, connected <- lConnected,
            toServer <- lToServer, tokens <- lTokens, active <- lActive,
            execPc <- lExecPc, result <- lResult, fnBusy <- lFnBusy,
            srvCanDo <- lSrvCanDo, pool <- lPool, sleeping <- lSleeping,
            answers <- lAnswers

Init == config \in {"safety", "live"} /\ S!Init /\ L!Init

(* A step of the live configuration's worker, or of its server stub. *)
InLive(A) == config = "live" /\ A /\ UNCHANGED <<config, safetyVars>>
InLiveWorker(A) == InLive(A /\ UNCHANGED liveServerVars)

Next ==
  \/ config = "safety" /\ S!Next /\ UNCHANGED <<config, liveVars>>
  \/ InLive(L!Next)

(* MCWorkerRuntime's fairness, for the configuration whose property is    *)
(* about liveness.                                                         *)
Spec ==
  /\ Init /\ [][Next]_configVars
  /\ WF_configVars(InLiveWorker(L!MainNext))
  /\ \A j \in {j1, j3} : WF_configVars(InLiveWorker(L!ExecNext(j)))
  /\ WF_configVars(InLiveWorker(L!ShutdownWait \/ L!ShutdownClose))
  /\ WF_configVars(InLive(L!ServerNext))

-----------------------------------------------------------------------------
(* The worker and the server stub keep their types (MCWorkerRuntime's     *)
(* TypeOK), under the limit-2 configuration.                               *)
SafetyTypeOK == config = "safety" => S!TypeOK

(* At most Limit jobs hold a slot of worker.limit, although each exec     *)
(* goroutine is spawned before the main loop takes its slot               *)
(* (WorkerRuntime's JobsWithinLimit).                                      *)
SafetyJobsWithinLimit == config = "safety" => S!JobsWithinLimit

(* Shutdown returns only after every exec goroutine that passed           *)
(* activeJobs.Add has left its user-function path (ShutdownDrains).        *)
SafetyShutdownDrains == config = "safety" => S!ShutdownDrains

(* A timed-out job's late result is dropped: at most one WORK_* packet    *)
(* per job (MCWorkerRuntime's AnswerAtMostOnce).                           *)
LiveAnswerAtMostOnce == config = "live" => L!AnswerAtMostOnce

(* Every job the worker accepts is answered unless it shuts down or       *)
(* closes first, the timeout arm and the limit-1 rendezvous included      *)
(* (MCWorkerRuntime's AcceptedJobAnswered).                                *)
LiveAcceptedJobAnswered == config = "live" => L!AcceptedJobAnswered
=============================================================================
