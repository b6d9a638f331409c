---------------------------- MODULE WorkerRuntime ----------------------------
(***************************************************************************)
(* The worker package of gearhulk (worker.go, src/unnamed/part_006): the   *)
(* Worker's function table, Ready, Work, Close and Shutdown, the main loop *)
(* handleInPack, and for every assigned job the exec goroutine with the    *)
(* limit channel, the activeJobs WaitGroup and the execTimeout race.       *)
(*                                                                         *)
(* One job server (one agent) is connected.  Packets the worker writes go  *)
(* to toServer; packets the agent reads arrive in `in` (worker.in).  The   *)
(* server itself is not part of this module: an MC module or a composing  *)
(* module supplies it.  Payloads are abstracted to the two facts exec      *)
(* looks at: whether the function returned an error and whether its data  *)
(* was empty.                                                              *)
(***************************************************************************)
EXTENDS Naturals, Sequences, SequencesExt, FiniteSets, Functions

CONSTANTS
  Funcs,      \* function names the application may register
  Jobs,       \* job handles the server may assign
  JobFn,      \* JobFn[j]: the function named in j's JOB_ASSIGN packet
  Limit,      \* argument of New: 0 = Unlimited, 1 = OneByOne, N = at most N
  Timeouts,   \* timeouts (seconds) AddFunc may be called with; 0 = none
  Results,    \* what a user function may return: [err, data] flags
  MayPanic,   \* whether a user function may panic
  Removable,  \* functions the application may RemoveFunc
  MaxCalls    \* bound on the number of AddFunc/RemoveFunc calls

ASSUME /\ JobFn \in [Jobs -> Funcs]
       /\ Limit \in Nat
       /\ Timeouts \subseteq Nat
       /\ Results \subseteq [err : BOOLEAN, data : BOOLEAN]
       /\ MayPanic \in BOOLEAN
       /\ Removable \subseteq Funcs
       /\ MaxCalls \in Nat

VARIABLES
  funcs,        \* worker.funcs: registered function -> timeout
  calls,        \* AddFunc/RemoveFunc calls made so far (bounded)
  ready,        \* worker.ready
  running,      \* worker.running
  shuttingDown, \* worker.shuttingDown
  appPc,        \* where the application thread is
  mainPc,       \* where the Work goroutine is
  in,           \* worker.in: packets read by the agent, not yet handled
  inClosed,     \* close(worker.in) has happened
  connected,    \* the agent's connection is open
  toServer,     \* packets written to the server, in order
  tokens,       \* values buffered in worker.limit
  active,       \* the activeJobs WaitGroup counter
  execPc,       \* execPc[j]: where j's exec goroutine is
  result,       \* result[j]: the *result exec will report for j
  fnBusy        \* fnBusy[j]: execTimeout's goroutine is still running f

wvars == <<funcs, calls, ready, running, shuttingDown, appPc, mainPc, in,
           inClosed, connected, toServer, tokens, active, execPc, result,
           fnBusy>>

(* Mutant: the limit channel sized make(chan bool, limit). *)
CapFullLimit == Limit

(* Buffer size of worker.limit: make(chan bool, limit-1). *)
Cap == Limit - 1

NoResult == [err |-> FALSE, data |-> FALSE]
TimeOutResult == [err |-> TRUE, data |-> FALSE]   \* &result{err: ErrTimeOut}

(* The packet type exec writes for a result. *)
WorkType(r) ==
  IF ~r.err THEN "WORK_COMPLETE"
  ELSE IF ~r.data THEN "WORK_FAIL" ELSE "WORK_EXCEPTION"

CanDo(f) == [t |-> "CAN_DO", f |-> f]
CantDo(f) == [t |-> "CANT_DO", f |-> f]
GrabJob == [t |-> "GRAB_JOB"]
PreSleepPkt == [t |-> "PRE_SLEEP"]
WorkPkt(j, r) == [t |-> WorkType(r), j |-> j]

ToServerPkts ==
  [t : {"CAN_DO", "CANT_DO"}, f : Funcs]
    \cup {GrabJob, PreSleepPkt}
    \cup [t : {"WORK_COMPLETE", "WORK_FAIL", "WORK_EXCEPTION"}, j : Jobs]
FromServerPkts ==
  {[t |-> "NO_JOB"], [t |-> "NOOP"]} \cup [t : {"JOB_ASSIGN"}, j : Jobs]

ExecStates ==
  {"idle", "spawned", "added", "running", "timed", "reply", "defer",
   "release", "done"}

-----------------------------------------------------------------------------
(* agent.write: a packet reaches the server only while connected. *)
Write(p) ==
  IF connected THEN toServer' = Append(toServer, p) ELSE UNCHANGED toServer

(* agent.Grab / agent.PreSleep write GRAB_JOB / PRE_SLEEP. *)
Grab == Write(GrabJob)
PreSleep == Write(PreSleepPkt)

(* The ordering of CAN_DO packets Ready sends: Go map iteration order. *)
Registrations(fs) ==
  { [i \in 1..Len(o) |-> CanDo(o[i])] : o \in SetToSeqs(fs) }

-----------------------------------------------------------------------------
(* Application thread *)

AddFunc(f, t) ==
  /\ calls < MaxCalls
  /\ f \notin DOMAIN funcs
  /\ calls' = calls + 1
  /\ funcs' = funcs @@ (f :> t)
  /\ IF running THEN Write(CanDo(f)) ELSE UNCHANGED toServer
  /\ UNCHANGED <<ready, running, shuttingDown, appPc, mainPc, in, inClosed,
                 connected, tokens, active, execPc, result, fnBusy>>

RemoveFunc(f) ==
  /\ calls < MaxCalls
  /\ f \in DOMAIN funcs \cap Removable
  /\ calls' = calls + 1
  /\ funcs' = Restrict(funcs, DOMAIN funcs \ {f})
  /\ IF running THEN Write(CantDo(f)) ELSE UNCHANGED toServer
  /\ UNCHANGED <<ready, running, shuttingDown, appPc, mainPc, in, inClosed,
                 connected, tokens, active, execPc, result, fnBusy>>

(* Ready connects the agent and, guarded by worker.once, sends CAN_DO for  *)
(* every registered function.  With no functions it returns ErrNoneFuncs.  *)
Ready ==
  /\ appPc = "new"
  /\ DOMAIN funcs # {}
  /\ connected' = TRUE
  /\ \E regs \in Registrations(DOMAIN funcs) : toServer' = toServer \o regs
  /\ ready' = TRUE
  /\ appPc' = "ready"
  /\ UNCHANGED <<funcs, calls, running, shuttingDown, mainPc, in, inClosed,
                 tokens, active, execPc, result, fnBusy>>

(* go w.Work(): Ready() first unless it ran already (an error there     *)
(* panics, so funcs is non-empty), then running = true, a.Grab(), and    *)
(* the range over worker.in.                                             *)
Work ==
  /\ \/ /\ appPc = "ready"
        /\ ready
        /\ Grab
        /\ UNCHANGED <<connected, ready>>
     \/ /\ appPc = "new"
        /\ ~ready
        /\ DOMAIN funcs # {}
        /\ connected' = TRUE
        /\ \E regs \in Registrations(DOMAIN funcs) :
             toServer' = toServer \o regs \o <<GrabJob>>
        /\ ready' = TRUE
  /\ running' = TRUE
  /\ mainPc' = "loop"
  /\ appPc' = "working"
  /\ UNCHANGED <<funcs, calls, shuttingDown, in, inClosed,
                 tokens, active, execPc, result, fnBusy>>

(* The effect of Close when running: close agents, running = false,       *)
(* close(worker.in).                                                       *)
CloseEffects ==
  IF running
  THEN /\ connected' = FALSE
       /\ running' = FALSE
       /\ inClosed' = TRUE
  ELSE UNCHANGED <<connected, running, inClosed>>

Close ==
  /\ appPc = "working"
  /\ CloseEffects
  /\ appPc' = "stopped"
  /\ UNCHANGED <<funcs, calls, ready, shuttingDown, mainPc, in, toServer,
                 tokens, active, execPc, result, fnBusy>>

(* Shutdown: shuttingDown = true; activeJobs.Wait(); Close(). *)
ShutdownBegin ==
  /\ appPc = "working"
  /\ shuttingDown' = TRUE
  /\ appPc' = "draining"
  /\ UNCHANGED <<funcs, calls, ready, running, mainPc, in, inClosed,
                 connected, toServer, tokens, active, execPc, result, fnBusy>>

ShutdownWait ==
  /\ appPc = "draining"
  /\ active = 0
  /\ appPc' = "closing"
  /\ UNCHANGED <<funcs, calls, ready, running, shuttingDown, mainPc, in,
                 inClosed, connected, toServer, tokens, active, execPc,
                 result, fnBusy>>

ShutdownClose ==
  /\ appPc = "closing"
  /\ CloseEffects
  /\ appPc' = "stopped"
  /\ UNCHANGED <<funcs, calls, ready, shuttingDown, mainPc, in, toServer,
                 tokens, active, execPc, result, fnBusy>>

-----------------------------------------------------------------------------
(* The Work goroutine: handleInPack on the head of worker.in *)

Recv(t) == mainPc = "loop" /\ in # <<>> /\ Head(in).t = t

(* PT_NoJob: a.PreSleep() *)
HandleNoJob ==
  /\ Recv("NO_JOB")
  /\ in' = Tail(in)
  /\ PreSleep
  /\ UNCHANGED <<funcs, calls, ready, running, shuttingDown, appPc, mainPc,
                 inClosed, connected, tokens, active, execPc, result, fnBusy>>

(* PT_Noop: a.Grab() unless shutting down *)
HandleNoop ==
  /\ Recv("NOOP")
  /\ in' = Tail(in)
  /\ IF ~shuttingDown THEN Grab ELSE UNCHANGED toServer
  /\ UNCHANGED <<funcs, calls, ready, running, shuttingDown, appPc, mainPc,
                 inClosed, connected, tokens, active, execPc, result, fnBusy>>

(* PT_JobAssign: go exec(inpack); then limit <- true (blocking, see      *)
(* MainSendToken) or, with no limit, a.Grab() unless shutting down.       *)
HandleJobAssign ==
  /\ Recv("JOB_ASSIGN")
  /\ LET j == Head(in).j IN
       /\ execPc[j] = "idle"
       /\ execPc' = [execPc EXCEPT ![j] = "spawned"]
  /\ in' = Tail(in)
  /\ IF Limit # 0
     THEN mainPc' = "limit" /\ UNCHANGED toServer
     ELSE /\ IF ~shuttingDown THEN Grab ELSE UNCHANGED toServer
          /\ UNCHANGED mainPc
  /\ UNCHANGED <<funcs, calls, ready, running, shuttingDown, appPc, inClosed,
                 connected, tokens, active, result, fnBusy>>

(* worker.limit <- true completes: into the buffer, or, on the unbuffered *)
(* OneByOne channel, handed to an exec goroutine blocked in <-limit.      *)
(* Then a.Grab() unless shutting down.                                    *)
MainSendToken ==
  /\ mainPc = "limit"
  /\ \/ /\ tokens < Cap
        /\ tokens' = tokens + 1
        /\ UNCHANGED execPc
     \/ /\ Cap = 0
        /\ \E j \in Jobs :
             /\ execPc[j] = "release"
             /\ execPc' = [execPc EXCEPT ![j] = "done"]
        /\ UNCHANGED tokens
  /\ mainPc' = "loop"
  /\ IF ~shuttingDown THEN Grab ELSE UNCHANGED toServer
  /\ UNCHANGED <<funcs, calls, ready, running, shuttingDown, appPc, in,
                 inClosed, connected, active, result, fnBusy>>

(* The range over worker.in ends once it is closed and drained. *)
MainExit ==
  /\ mainPc = "loop"
  /\ in = <<>>
  /\ inClosed
  /\ mainPc' = "exit"
  /\ UNCHANGED <<funcs, calls, ready, running, shuttingDown, appPc, in,
                 inClosed, connected, toServer, tokens, active, execPc,
                 result, fnBusy>>

-----------------------------------------------------------------------------
(* exec(inpack), one goroutine per assigned job *)

SetExec(j, s) == execPc' = [execPc EXCEPT ![j] = s]

(* worker.activeJobs.Add(1), done inside the goroutine *)
ExecAdd(j) ==
  /\ execPc[j] = "spawned"
  /\ SetExec(j, "added")
  /\ active' = active + 1
  /\ UNCHANGED <<funcs, calls, ready, running, shuttingDown, appPc, mainPc,
                 in, inClosed, connected, toServer, tokens, result, fnBusy>>

(* Mutant: the shuttingDown check is missing. *)
ExecCheckNoGuard(j) ==
  /\ execPc[j] = "added"
  /\ LET f == JobFn[j] IN
       \/ /\ f \notin DOMAIN funcs
          /\ SetExec(j, "defer")
          /\ UNCHANGED fnBusy
       \/ /\ f \in DOMAIN funcs
          /\ funcs[f] = 0
          /\ SetExec(j, "running")
          /\ UNCHANGED fnBusy
       \/ /\ f \in DOMAIN funcs
          /\ funcs[f] # 0
          /\ SetExec(j, "timed")
          /\ fnBusy' = [fnBusy EXCEPT ![j] = TRUE]
  /\ UNCHANGED <<funcs, calls, ready, running, shuttingDown, appPc, mainPc,
                 in, inClosed, connected, toServer, tokens, active, result>>

(* Mutant: the shutting-down early return also calls activeJobs.Done(). *)
ExecCheckDoubleDone(j) ==
  /\ execPc[j] = "added"
  /\ LET f == JobFn[j] IN
       \/ /\ shuttingDown
          /\ SetExec(j, "defer")
          /\ active' = active - 1
          /\ UNCHANGED fnBusy
       \/ /\ ~shuttingDown
          /\ f \notin DOMAIN funcs
          /\ SetExec(j, "defer")
          /\ UNCHANGED <<fnBusy, active>>
       \/ /\ ~shuttingDown
          /\ f \in DOMAIN funcs
          /\ funcs[f] = 0
          /\ SetExec(j, "running")
          /\ UNCHANGED <<fnBusy, active>>
       \/ /\ ~shuttingDown
          /\ f \in DOMAIN funcs
          /\ funcs[f] # 0
          /\ SetExec(j, "timed")
          /\ fnBusy' = [fnBusy EXCEPT ![j] = TRUE]
          /\ UNCHANGED active
  /\ UNCHANGED <<funcs, calls, ready, running, shuttingDown, appPc, mainPc,
                 in, inClosed, connected, toServer, tokens, result>>

(* if worker.isShuttingDown() return; f, ok := worker.funcs[inpack.fn];   *)
(* a missing function returns an error; timeout 0 calls f directly,      *)
(* otherwise execTimeout starts f in its own goroutine.                   *)
ExecCheck(j) ==
  /\ execPc[j] = "added"
  /\ LET f == JobFn[j] IN
       \/ /\ shuttingDown
          /\ SetExec(j, "defer")
          /\ UNCHANGED fnBusy
       \/ /\ ~shuttingDown
          /\ f \notin DOMAIN funcs
          /\ SetExec(j, "defer")
          /\ UNCHANGED fnBusy
       \/ /\ ~shuttingDown
          /\ f \in DOMAIN funcs
          /\ funcs[f] = 0
          /\ SetExec(j, "running")
          /\ UNCHANGED fnBusy
       \/ /\ ~shuttingDown
          /\ f \in DOMAIN funcs
          /\ funcs[f] # 0
          /\ SetExec(j, "timed")
          /\ fnBusy' = [fnBusy EXCEPT ![j] = TRUE]
  /\ UNCHANGED <<funcs, calls, ready, running, shuttingDown, appPc, mainPc,
                 in, inClosed, connected, toServer, tokens, active, result>>

(* d, e := f.f(inpack) returns, or panics into exec's deferred recover. *)
ExecReturn(j) ==
  /\ execPc[j] = "running"
  /\ \/ \E r \in Results :
          /\ SetExec(j, "reply")
          /\ result' = [result EXCEPT ![j] = r]
     \/ /\ MayPanic
          /\ SetExec(j, "defer")
          /\ UNCHANGED result
  /\ UNCHANGED <<funcs, calls, ready, running, shuttingDown, appPc, mainPc,
                 in, inClosed, connected, toServer, tokens, active, fnBusy>>

(* Mutant: a late result is delivered even after the timeout fired. *)
FnReturnLate(j) ==
  /\ fnBusy[j]
  /\ fnBusy' = [fnBusy EXCEPT ![j] = FALSE]
  /\ \/ \E r \in Results :
          SetExec(j, "reply") /\ result' = [result EXCEPT ![j] = r]
     \/ MayPanic /\ UNCHANGED <<execPc, result>>
  /\ UNCHANGED <<funcs, calls, ready, running, shuttingDown, appPc, mainPc,
                 in, inClosed, connected, toServer, tokens, active>>

(* execTimeout's goroutine: f returns and sends on the unbuffered rslt,   *)
(* which exec receives while still in select; after a timeout rslt is     *)
(* closed and the send panics into the goroutine's recover, as does a     *)
(* panic of f itself.                                                     *)
FnReturn(j) ==
  /\ fnBusy[j]
  /\ fnBusy' = [fnBusy EXCEPT ![j] = FALSE]
  /\ \/ \E r \in Results :
          IF execPc[j] = "timed"
          THEN SetExec(j, "reply") /\ result' = [result EXCEPT ![j] = r]
          ELSE UNCHANGED <<execPc, result>>
     \/ MayPanic /\ UNCHANGED <<execPc, result>>
  /\ UNCHANGED <<funcs, calls, ready, running, shuttingDown, appPc, mainPc,
                 in, inClosed, connected, toServer, tokens, active>>

(* Mutant: the timeout returns without a result to report. *)
TimerFireDrop(j) ==
  /\ execPc[j] = "timed"
  /\ SetExec(j, "defer")
  /\ UNCHANGED <<funcs, calls, ready, running, shuttingDown, appPc, mainPc,
                 in, inClosed, connected, toServer, tokens, active, result,
                 fnBusy>>

(* case <-time.After(timeout): return &result{err: ErrTimeOut} *)
TimerFire(j) ==
  /\ execPc[j] = "timed"
  /\ SetExec(j, "reply")
  /\ result' = [result EXCEPT ![j] = TimeOutResult]
  /\ UNCHANGED <<funcs, calls, ready, running, shuttingDown, appPc, mainPc,
                 in, inClosed, connected, toServer, tokens, active, fnBusy>>

(* if worker.running { ... inpack.a.Write(outpack) } *)
ExecReply(j) ==
  /\ execPc[j] = "reply"
  /\ IF running THEN Write(WorkPkt(j, result[j])) ELSE UNCHANGED toServer
  /\ SetExec(j, "defer")
  /\ UNCHANGED <<funcs, calls, ready, running, shuttingDown, appPc, mainPc,
                 in, inClosed, connected, tokens, active, result, fnBusy>>

(* deferred: activeJobs.Done() under the lock, then <-worker.limit *)
ExecDone(j) ==
  /\ execPc[j] = "defer"
  /\ active' = active - 1
  /\ SetExec(j, IF Limit # 0 THEN "release" ELSE "done")
  /\ UNCHANGED <<funcs, calls, ready, running, shuttingDown, appPc, mainPc,
                 in, inClosed, connected, toServer, tokens, result, fnBusy>>

(* <-worker.limit from the buffer (the unbuffered hand-off is part of     *)
(* MainSendToken).                                                        *)
ExecRelease(j) ==
  /\ execPc[j] = "release"
  /\ tokens > 0
  /\ tokens' = tokens - 1
  /\ SetExec(j, "done")
  /\ UNCHANGED <<funcs, calls, ready, running, shuttingDown, appPc, mainPc,
                 in, inClosed, connected, toServer, active, result, fnBusy>>

-----------------------------------------------------------------------------
WInit ==
  /\ funcs = <<>>
  /\ calls = 0
  /\ ready = FALSE
  /\ running = FALSE
  /\ shuttingDown = FALSE
  /\ appPc = "new"
  /\ mainPc = "idle"
  /\ in = <<>>
  /\ inClosed = FALSE
  /\ connected = FALSE
  /\ toServer = <<>>
  /\ tokens = 0
  /\ active = 0
  /\ execPc = [j \in Jobs |-> "idle"]
  /\ result = [j \in Jobs |-> NoResult]
  /\ fnBusy = [j \in Jobs |-> FALSE]

AppNext ==
  \/ \E f \in Funcs, t \in Timeouts : AddFunc(f, t)
  \/ \E f \in Funcs : RemoveFunc(f)
  \/ Ready \/ Work \/ Close
  \/ ShutdownBegin \/ ShutdownWait \/ ShutdownClose

MainNext ==
  HandleNoJob \/ HandleNoop \/ HandleJobAssign \/ MainSendToken \/ MainExit

ExecNext(j) ==
  \/ ExecAdd(j) \/ ExecCheck(j) \/ ExecReturn(j) \/ FnReturn(j)
  \/ TimerFire(j) \/ ExecReply(j) \/ ExecDone(j) \/ ExecRelease(j)

WNext == AppNext \/ MainNext \/ \E j \in Jobs : ExecNext(j)

(* The Work goroutine and every exec goroutine keep running while they    *)
(* can; user functions and timers terminate.  The application's calls     *)
(* (AddFunc, Ready, Work, Close, Shutdown) are not assumed to happen,     *)
(* except that a started Shutdown goes on to Wait and Close.              *)
WFairness ==
  /\ WF_wvars(MainNext)
  /\ \A j \in Jobs : WF_wvars(ExecNext(j))
  /\ WF_wvars(ShutdownWait \/ ShutdownClose)

-----------------------------------------------------------------------------
WTypeOK ==
  /\ DOMAIN funcs \subseteq Funcs
  /\ \A f \in DOMAIN funcs : funcs[f] \in Timeouts
  /\ calls \in 0..MaxCalls
  /\ {ready, running, shuttingDown, inClosed, connected} \subseteq BOOLEAN
  /\ appPc \in {"new", "ready", "working", "draining", "closing", "stopped"}
  /\ mainPc \in {"idle", "loop", "limit", "exit"}
  /\ in \in Seq(FromServerPkts)
  /\ toServer \in Seq(ToServerPkts)
  /\ tokens \in 0..Limit
  /\ active \in 0..Cardinality(Jobs)
  /\ execPc \in [Jobs -> ExecStates]
  /\ result \in [Jobs -> [err : BOOLEAN, data : BOOLEAN]]
  /\ fnBusy \in [Jobs -> BOOLEAN]

(* Jobs whose exec goroutine exists and has not yet taken its value back  *)
(* out of worker.limit.                                                   *)
HoldingSlot == {j \in Jobs : execPc[j] \notin {"idle", "done"}}

(* User functions executing: called directly by exec, or still running in *)
(* execTimeout's goroutine, whether or not exec is still waiting for it.  *)
Executing == {j \in Jobs : execPc[j] = "running" \/ fnBusy[j]}

(* With a limit N, handleInPack starts the exec goroutine before it sends *)
(* on the N-1 buffered limit channel, and exec receives from it only when *)
(* it ends: still, no more than N exec goroutines are ever alive at once. *)
JobsWithinLimit ==
  Limit # 0 => Cardinality(HoldingSlot) <= Limit

(* New(N) promises "the number of parallel executing jobs are limited     *)
(* under the number": no more than N user functions execute at once.      *)
UserFuncsWithinLimit ==
  Limit # 0 => Cardinality(Executing) <= Limit

(* Shutdown waits for active jobs before Close: once it has closed the    *)
(* worker, no job that got past exec's shuttingDown check is still        *)
(* executing or about to write its result, which Close would discard.     *)
ShutdownDrains ==
  appPc = "stopped" /\ shuttingDown =>
    \A j \in Jobs : execPc[j] \notin {"running", "timed", "reply"}
=============================================================================
