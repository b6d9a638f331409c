------------------------------- MODULE Broker -------------------------------
(***************************************************************************)
(* The broker's queue core and job registry (spec.md 4.B, 4.D, 4.E): per   *)
(* function priority FIFOs, the per-function sleeping-worker lists, the    *)
(* handle -> job registry with unique-id coalescing, and the durable store *)
(* records of background jobs.  The server package is not among the        *)
(* repository files available here, so this module follows spec.md.       *)
(*                                                                         *)
(* Worker sessions are driven by the protocol of worker.go's handleInPack  *)
(* (src/unnamed/part_006 177-205): NO_JOB -> PRE_SLEEP, NOOP -> GRAB_JOB,  *)
(* JOB_ASSIGN -> run the job and GRAB_JOB again at once.  A request of a   *)
(* worker is handled by its session in the step that sends it; the         *)
(* broker's packets to a worker wait in toWorker[w] in order.              *)
(***************************************************************************)
EXTENDS Naturals, Sequences, SequencesExt, FiniteSets, Functions

CONSTANTS
  Workers,     \* worker sessions
  Clients,     \* client sessions
  Fns,         \* function names
  WorkerFns,   \* WorkerFns[w]: the functions worker w declares with CAN_DO
  Uids,        \* unique ids clients may supply
  NoUid,       \* an empty unique id: the server synthesises a fresh one
  FirstHandle, \* the counter's value when the process first starts
  MaxHandles,  \* bound on the handles handed out
  MaxSubmits,  \* bound on SUBMIT_JOB packets
  Outcomes,    \* the WORK_* packets workers answer with
  MaxCrashes,  \* bound on crashes of the server process
  SubmitPrios, \* the priorities clients submit at
  StorageKept  \* --storage-dir outlives a crash (its default lies under
               \* os.TempDir(), which a reboot or a new container empties)

ASSUME /\ WorkerFns \in [Workers -> SUBSET Fns]
       /\ NoUid \notin Uids
       /\ FirstHandle \in Nat /\ MaxHandles \in Nat /\ MaxSubmits \in Nat /\ MaxCrashes \in Nat
       /\ StorageKept \in BOOLEAN
       /\ Outcomes \subseteq {"WORK_COMPLETE", "WORK_FAIL", "WORK_EXCEPTION"}

(* JobLow < JobNormal < JobHigh *)
LOW == 0
NORMAL == 1
HIGH == 2
Prios == {LOW, NORMAL, HIGH}

Handles == FirstHandle .. FirstHandle + MaxHandles - 1
LastHandle == FirstHandle + MaxHandles - 1
NoClient == "background"

VARIABLES
  queue,      \* queue[f][p]: handles queued for function f at priority p
  sleeping,   \* sleeping[f]: workers that sent PRE_SLEEP, insertion order
  canDo,      \* canDo[w]: the session's can-do set
  jobs,       \* the registry: handle -> job
  nextHandle, \* the monotonic handle counter
  store,      \* durable records: handle -> job
  toWorker,   \* toWorker[w]: packets posted to w's outbound queue
  toClient,   \* toClient[c]: packets posted to c's outbound queue
  started,    \* started[w]: w has registered and sent its first GRAB_JOB
  working,    \* working[w]: handles w is executing
  submits,    \* SUBMIT_JOB packets handled so far (bounded)
  up,         \* the server process is running
  crashes,    \* crashes of the server process so far (bounded)
  replayed    \* history: the handles the last start replayed from the store

bvars == <<queue, sleeping, canDo, jobs, nextHandle, store, toWorker,
           toClient, started, working, submits, up, crashes, replayed>>

Job == [fn : Fns, uid : Uids \cup {NoUid}, prio : Prios, bg : BOOLEAN,
        client : Clients \cup {NoClient}, state : {"Queued", "Running"},
        worker : Workers \cup {"none"}]

ToWorkerPkts ==
  {[t |-> "NOOP"], [t |-> "NO_JOB"]} \cup [t : {"JOB_ASSIGN"}, h : Handles]
ToClientPkts ==
  [t : {"JOB_CREATED", "WORK_COMPLETE", "WORK_FAIL", "WORK_EXCEPTION"},
   h : Handles] \cup {[t |-> "ERROR"]}
WorkTypes == {"WORK_COMPLETE", "WORK_FAIL", "WORK_EXCEPTION"}

-----------------------------------------------------------------------------
(* Post packet p to w's outbound queue, tw being the queues at that point. *)
Post(tw, w, p) == [tw EXCEPT ![w] = Append(@, p)]

(* Mutant: the lookup matches only running jobs, so queued duplicates of *)
(* (fn, uid) are not coalesced.                                           *)
CoalescingRunning(f, u) ==
  {h \in DOMAIN jobs : /\ u # NoUid
                       /\ jobs[h].fn = f /\ jobs[h].uid = u
                       /\ jobs[h].state = "Running"}

(* The queued handle of (fn, uid) that a submit coalesces with, if any. *)
Coalescing(f, u) ==
  {h \in DOMAIN jobs : /\ u # NoUid
                       /\ jobs[h].fn = f /\ jobs[h].uid = u
                       /\ jobs[h].state = "Queued"}

(* Highest priority with a queued job for f. *)
TopPrio(f) == CHOOSE p \in Prios :
                /\ queue[f][p] # <<>>
                /\ \A q \in Prios : q > p => queue[f][q] = <<>>

HasQueued(f) == \E p \in Prios : queue[f][p] # <<>>

(* Remove w from every sleeping list. *)
Unsleep(w) == [f \in Fns |-> SelectSeq(sleeping[f], LAMBDA x : x # w)]

-----------------------------------------------------------------------------
(* Client session: SUBMIT_JOB[_LOW|_HIGH][_BG].  A matching queued        *)
(* (fn, uid) returns its handle.  Otherwise a handle is allocated, the    *)
(* record of a background job is written to the store (a failed write     *)
(* answers ERROR and enqueues nothing), the job is appended to its queue  *)
(* and registry, the first sleeping worker of fn is popped and sent NOOP, *)
(* and JOB_CREATED is posted to the client.                               *)
Submit(c, f, u, p, bg) ==
  /\ up
  /\ submits < MaxSubmits
  /\ submits' = submits + 1
  /\ \/ \E h \in Coalescing(f, u) :
          /\ toClient' = [toClient EXCEPT ![c] =
                            Append(@, [t |-> "JOB_CREATED", h |-> h])]
          /\ UNCHANGED <<queue, sleeping, jobs, nextHandle, store, toWorker>>
     \/ /\ Coalescing(f, u) = {}
        /\ bg
        /\ toClient' = [toClient EXCEPT ![c] = Append(@, [t |-> "ERROR"])]
        /\ UNCHANGED <<queue, sleeping, jobs, nextHandle, store, toWorker>>
     \/ /\ Coalescing(f, u) = {}
        /\ nextHandle <= LastHandle
        /\ LET h == nextHandle
               job == [fn |-> f, uid |-> u, prio |-> p, bg |-> bg,
                       client |-> IF bg THEN NoClient ELSE c,
                       state |-> "Queued", worker |-> "none"]
           IN /\ nextHandle' = nextHandle + 1
              /\ jobs' = jobs @@ (h :> job)
              /\ store' = IF bg THEN store @@ (h :> job) ELSE store
              /\ queue' = [queue EXCEPT ![f][p] = Append(@, h)]
              /\ toClient' = [toClient EXCEPT ![c] =
                                Append(@, [t |-> "JOB_CREATED", h |-> h])]
              /\ IF sleeping[f] # <<>>
                 THEN /\ toWorker' = Post(toWorker, Head(sleeping[f]),
                                         [t |-> "NOOP"])
                      /\ sleeping' = [sleeping EXCEPT ![f] = Tail(@)]
                 ELSE UNCHANGED <<toWorker, sleeping>>
  /\ UNCHANGED <<canDo, started, working, up, crashes, replayed>>

(* Mutant: grab peeks at the head instead of popping it. *)
GrabJobPeek(w, cd, tw) ==
  IF \E f \in cd : HasQueued(f)
  THEN \E f \in {g \in cd : HasQueued(g)} :
         LET h == Head(queue[f][TopPrio(f)])
         IN /\ jobs' = [jobs EXCEPT ![h].state = "Running", ![h].worker = w]
            /\ sleeping' = Unsleep(w)
            /\ toWorker' = Post(tw, w, [t |-> "JOB_ASSIGN", h |-> h])
            /\ UNCHANGED queue
  ELSE /\ toWorker' = Post(tw, w, [t |-> "NO_JOB"])
       /\ UNCHANGED <<queue, jobs, sleeping>>

(* Mutant: the job is marked Running but its worker is not recorded. *)
GrabJobNoOwner(w, cd, tw) ==
  IF \E f \in cd : HasQueued(f)
  THEN \E f \in {g \in cd : HasQueued(g)} :
         LET p == TopPrio(f)
             h == Head(queue[f][p])
         IN /\ queue' = [queue EXCEPT ![f][p] = Tail(@)]
            /\ jobs' = [jobs EXCEPT ![h].state = "Running"]
            /\ sleeping' = Unsleep(w)
            /\ toWorker' = Post(tw, w, [t |-> "JOB_ASSIGN", h |-> h])
  ELSE /\ toWorker' = Post(tw, w, [t |-> "NO_JOB"])
       /\ UNCHANGED <<queue, jobs, sleeping>>

(* Broker side of GRAB_JOB from w, cd being w's can-do set and tw the     *)
(* outbound queues.  The first function of cd (in no particular order)   *)
(* with a queued job yields the head of its highest non-empty priority;  *)
(* the job becomes Running on w, w leaves every sleeping list and is     *)
(* sent JOB_ASSIGN.  Otherwise NO_JOB.                                   *)
GrabJob(w, cd, tw) ==
  IF \E f \in cd : HasQueued(f)
  THEN \E f \in {g \in cd : HasQueued(g)} :
         LET p == TopPrio(f)
             h == Head(queue[f][p])
         IN /\ queue' = [queue EXCEPT ![f][p] = Tail(@)]
            /\ jobs' = [jobs EXCEPT ![h].state = "Running", ![h].worker = w]
            /\ sleeping' = Unsleep(w)
            /\ toWorker' = Post(tw, w, [t |-> "JOB_ASSIGN", h |-> h])
  ELSE /\ toWorker' = Post(tw, w, [t |-> "NO_JOB"])
       /\ UNCHANGED <<queue, jobs, sleeping>>

(* Broker side of PRE_SLEEP: w joins sleeping[f] for each f it can do. *)
PreSleep(w) ==
  sleeping' = [f \in Fns |->
                 IF f \in canDo[w] /\ ~\E i \in DOMAIN sleeping[f] :
                                         sleeping[f][i] = w
                 THEN Append(sleeping[f], w) ELSE sleeping[f]]

(* Mutant: the store record is left behind. *)
WorkDoneKeepStore(w, h, t) ==
  /\ h \in DOMAIN jobs
  /\ jobs[h].state = "Running" /\ jobs[h].worker = w
  /\ toClient' = IF jobs[h].client = NoClient THEN toClient
                 ELSE [toClient EXCEPT ![jobs[h].client] =
                         Append(@, [t |-> t, h |-> h])]
  /\ jobs' = Restrict(jobs, DOMAIN jobs \ {h})
  /\ UNCHANGED store

(* Mutant: the registry entry is marked done instead of removed. *)
WorkDoneMarkDone(w, h, t) ==
  /\ h \in DOMAIN jobs
  /\ jobs[h].state = "Running" /\ jobs[h].worker = w
  /\ toClient' = IF jobs[h].client = NoClient THEN toClient
                 ELSE [toClient EXCEPT ![jobs[h].client] =
                         Append(@, [t |-> t, h |-> h])]
  /\ jobs' = [jobs EXCEPT ![h].state = "Done"]
  /\ store' = Restrict(store, DOMAIN store \ {h})

(* Broker side of WORK_COMPLETE/FAIL/EXCEPTION for h from its worker:     *)
(* forward to the originating client, clear the registry entry and the   *)
(* store record.                                                          *)
WorkDone(w, h, t) ==
  /\ h \in DOMAIN jobs
  /\ jobs[h].state = "Running" /\ jobs[h].worker = w
  /\ toClient' = IF jobs[h].client = NoClient THEN toClient
                 ELSE [toClient EXCEPT ![jobs[h].client] =
                         Append(@, [t |-> t, h |-> h])]
  /\ jobs' = Restrict(jobs, DOMAIN jobs \ {h})
  /\ store' = Restrict(store, DOMAIN store \ {h})

-----------------------------------------------------------------------------
(* Worker sessions, following worker.go.  Work() declares the functions   *)
(* (CAN_DO, sent on Ready) and then grabs.                                *)
WStart(w) ==
  /\ up
  /\ ~started[w]
  /\ started' = [started EXCEPT ![w] = TRUE]
  /\ canDo' = [canDo EXCEPT ![w] = WorkerFns[w]]
  /\ GrabJob(w, WorkerFns[w], toWorker)
  /\ UNCHANGED <<nextHandle, store, toClient, working, submits, up, crashes,
                 replayed>>

(* handleInPack on the next packet from the broker: NO_JOB -> PRE_SLEEP,  *)
(* NOOP -> GRAB_JOB, JOB_ASSIGN -> start the job and GRAB_JOB at once.    *)
WRecv(w) ==
  /\ toWorker[w] # <<>>
  /\ LET p == Head(toWorker[w])
         rest == [toWorker EXCEPT ![w] = Tail(@)]
     IN \/ /\ p.t = "NO_JOB"
           /\ toWorker' = rest
           /\ PreSleep(w)
           /\ UNCHANGED <<queue, jobs, working>>
        \/ /\ p.t = "NOOP"
           /\ GrabJob(w, canDo[w], rest)
           /\ UNCHANGED working
        \/ /\ p.t = "JOB_ASSIGN"
           /\ working' = [working EXCEPT ![w] = @ \cup {p.h}]
           /\ GrabJob(w, canDo[w], rest)
  /\ UNCHANGED <<canDo, nextHandle, store, toClient, started, submits, up,
                 crashes, replayed>>

(* The job's function returns, the worker is still running, and exec     *)
(* writes WORK_COMPLETE, WORK_FAIL or WORK_EXCEPTION for it.             *)
WFinish(w, h, t) ==
  /\ h \in working[w]
  /\ working' = [working EXCEPT ![w] = @ \ {h}]
  /\ WorkDone(w, h, t)
  /\ UNCHANGED <<queue, sleeping, canDo, nextHandle, toWorker, started,
                 submits, up, crashes, replayed>>

(* exec returns without writing a packet: the worker is shutting down,   *)
(* the function was removed, the function panicked (recovered in the     *)
(* deferred function) or the worker stopped running.  The broker is not  *)
(* told: the job stays Running on w.                                      *)
WDrop(w, h) ==
  /\ h \in working[w]
  /\ working' = [working EXCEPT ![w] = @ \ {h}]
  /\ UNCHANGED <<queue, sleeping, canDo, jobs, nextHandle, store, toWorker,
                 toClient, started, submits, up, crashes, replayed>>

(* The process dies (a panic re-raised by runtime.HandleCrash, or a kill): *)
(* queues, sleeping lists, registry and sessions are gone; the store and  *)
(* the handle counter, monotonic across processes (spec.md 4.E), remain.  *)
(* Workers' connections drop: the results of the jobs they are running    *)
(* are written to a dead connection.  A worker may register again once   *)
(* the server is back, but nothing obliges it to: the CLI's ErrorHandler *)
(* only logs.  Packets already posted to clients stay posted.            *)
Crash ==
  /\ up /\ crashes < MaxCrashes
  /\ up' = FALSE
  /\ crashes' = crashes + 1
  /\ queue' = [f \in Fns |-> [p \in Prios |-> <<>>]]
  /\ sleeping' = [f \in Fns |-> <<>>]
  /\ canDo' = [w \in Workers |-> {}]
  /\ jobs' = <<>>
  /\ toWorker' = [w \in Workers |-> <<>>]
  /\ started' = [w \in Workers |-> FALSE]
  /\ working' = [w \in Workers |-> {}]
  /\ UNCHANGED <<nextHandle, store, toClient, submits, replayed>>

(* The decimal digits of counter n, most significant first. *)
RECURSIVE Digits(_)
Digits(n) == IF n < 10 THEN <<n>> ELSE Digits(n \div 10) \o <<n % 10>>

(* Byte order of two digit strings: a proper prefix comes first. *)
RECURSIVE DigitsBefore(_, _)
DigitsBefore(a, b) ==
  CASE a = <<>>            -> b # <<>>
    [] b = <<>>            -> FALSE
    [] Head(a) # Head(b)   -> Head(a) < Head(b)
    [] OTHER               -> DigitsBefore(Tail(a), Tail(b))

(* The store's key order on handles.  The key of handle h is the string   *)
(* H:<hostname>:<h> (spec.md 4.E), the prefix is the same for every key   *)
(* of one server, so the ordered store compares the counters' digits.    *)
KeyBefore(h1, h2) == DigitsBefore(Digits(h1), Digits(h2))

(* Replayed jobs of f at priority p, in the order range visits the keys. *)
Replayed(f, p) ==
  SetToSortSeq({h \in DOMAIN store : store[h].fn = f /\ store[h].prio = p},
               KeyBefore)

(* Mutant: the restarted process counts handles from 1 again. *)
ServerRunRestartCounter ==
  /\ ~up
  /\ up' = TRUE
  /\ store' = IF StorageKept THEN store ELSE <<>>
  /\ jobs' = store'
  /\ queue' = [f \in Fns |-> [p \in Prios |->
                 IF StorageKept THEN Replayed(f, p) ELSE <<>>]]
  /\ replayed' = DOMAIN store'
  /\ nextHandle' = FirstHandle
  /\ UNCHANGED <<sleeping, canDo, toWorker, toClient, started, working,
                 submits, crashes>>

(* `gearhulk server`: NewServer(cfg).Start() opens the store under        *)
(* --storage-dir (empty if the directory did not outlive the crash) and   *)
(* replays every record as Queued through range (spec.md 4.B) before it   *)
(* accepts connections.                                                    *)
ServerRun ==
  /\ ~up
  /\ up' = TRUE
  /\ store' = IF StorageKept THEN store ELSE <<>>
  /\ jobs' = store'
  /\ queue' = [f \in Fns |-> [p \in Prios |->
                 IF StorageKept THEN Replayed(f, p) ELSE <<>>]]
  /\ replayed' = DOMAIN store'
  /\ UNCHANGED <<sleeping, canDo, nextHandle, toWorker, toClient,
                 started, working, submits, crashes>>

BInit ==
  /\ queue = [f \in Fns |-> [p \in Prios |-> <<>>]]
  /\ sleeping = [f \in Fns |-> <<>>]
  /\ canDo = [w \in Workers |-> {}]
  /\ jobs = <<>>
  /\ nextHandle = FirstHandle
  /\ store = <<>>
  /\ toWorker = [w \in Workers |-> <<>>]
  /\ toClient = [c \in Clients |-> <<>>]
  /\ started = [w \in Workers |-> FALSE]
  /\ working = [w \in Workers |-> {}]
  /\ submits = 0
  /\ up = FALSE
  /\ crashes = 0
  /\ replayed = {}

ClientNext ==
  \E c \in Clients, f \in Fns, u \in Uids \cup {NoUid}, p \in SubmitPrios,
     bg \in BOOLEAN : Submit(c, f, u, p, bg)

WorkerNext(w) ==
  \/ WStart(w)
  \/ WRecv(w)
  \/ \E h \in Handles, t \in Outcomes : WFinish(w, h, t)
  \/ \E h \in Handles : WDrop(w, h)

BNext == ClientNext \/ (\E w \in Workers : WorkerNext(w)) \/ Crash \/ ServerRun

(* Each worker keeps handling the packets its agent reads (Work ranges    *)
(* over worker.in and calls handleInPack on each).  Nothing is assumed of *)
(* registering, of jobs returning, or of the server coming back.          *)
BSpec == BInit /\ [][BNext]_bvars /\ \A w \in Workers : WF_bvars(WRecv(w))

-----------------------------------------------------------------------------
BTypeOK ==
  /\ queue \in [Fns -> [Prios -> Seq(Handles)]]
  /\ \A f \in Fns : sleeping[f] \in Seq(Workers)
  /\ canDo \in [Workers -> SUBSET Fns]
  /\ DOMAIN jobs \subseteq Handles /\ \A h \in DOMAIN jobs : jobs[h] \in Job
  /\ nextHandle \in FirstHandle .. LastHandle + 1
  /\ DOMAIN store \subseteq Handles
  /\ \A w \in Workers : toWorker[w] \in Seq(ToWorkerPkts)
  /\ \A c \in Clients : toClient[c] \in Seq(ToClientPkts)
  /\ working \in [Workers -> SUBSET Handles]
  /\ submits \in 0..MaxSubmits
  /\ up \in BOOLEAN /\ crashes \in 0..MaxCrashes
  /\ replayed \subseteq Handles

Occurrences(h) ==
  Cardinality({<<f, p, i>> \in Fns \X Prios \X (1 .. MaxHandles) :
                 i \in DOMAIN queue[f][p] /\ queue[f][p][i] = h})

(* Registry and queues agree through submit, coalescing and grab: a       *)
(* handle sits in the queues exactly once, in the queue of its own        *)
(* function and priority, while it is Queued, and nowhere otherwise.      *)
QueuedExactlyOnce ==
  \A h \in Handles :
    IF h \in DOMAIN jobs /\ jobs[h].state = "Queued"
    THEN Occurrences(h) = 1 /\ \E i \in DOMAIN queue[jobs[h].fn][jobs[h].prio] :
                                 queue[jobs[h].fn][jobs[h].prio][i] = h
    ELSE Occurrences(h) = 0

AssignPending(w, h) ==
  \E i \in DOMAIN toWorker[w] : toWorker[w][i] = [t |-> "JOB_ASSIGN", h |-> h]

(* A job handed to a worker (JOB_ASSIGN in flight, or executing) is       *)
(* Running in the registry on that very worker; so no job is ever held by *)
(* two workers, whatever order grabs, wakeups and completions take.       *)
SingleOwner ==
  \A h \in Handles, w \in Workers :
    (AssignPending(w, h) \/ h \in working[w]) =>
      /\ h \in DOMAIN jobs
      /\ jobs[h].state = "Running" /\ jobs[h].worker = w

(* Unique-id coalescing: no two queued jobs share a function and a        *)
(* client-supplied unique id, unless the last start replayed both: a      *)
(* duplicate submitted while the first ran is not coalesced, and a crash  *)
(* brings both records back as Queued.                                     *)
CoalescedUnique ==
  \A h1, h2 \in DOMAIN jobs :
    /\ h1 # h2 /\ ~({h1, h2} \subseteq replayed)
    /\ jobs[h1].state = "Queued" /\ jobs[h2].state = "Queued"
    /\ jobs[h1].fn = jobs[h2].fn
    => jobs[h1].uid = NoUid \/ jobs[h1].uid # jobs[h2].uid

(* While the server runs, the store holds a record exactly for the live  *)
(* background jobs: it is written before JOB_CREATED, deleted on          *)
(* WORK_COMPLETE/FAIL/EXCEPTION, and after a crash the replay brings back  *)
(* into the registry every record and nothing else.                        *)
DurableIffBackground ==
  up => DOMAIN store = {h \in DOMAIN jobs : jobs[h].bg}

(* FIFO within a priority level (spec.md 3): every priority queue lists   *)
(* its jobs in submission (handle counter) order, also after a restart    *)
(* has rebuilt the queues by replaying the store in key order and new     *)
(* submits have been appended behind the replayed jobs.                    *)
QueueInSubmitOrder ==
  \A f \in Fns, p \in Prios :
    \A i, k \in DOMAIN queue[f][p] : i < k => queue[f][p][i] < queue[f][p][k]

(* The state of handle h as JobLifecycle sees it: not yet handed out,    *)
(* in the registry, or only in the store while the server is down.        *)
LifeOf(h) ==
  CASE h >= nextHandle     -> [st |-> "none", bg |-> FALSE]
    [] h \in DOMAIN jobs   -> [st |-> jobs[h].state, bg |-> jobs[h].bg]
    [] h \in DOMAIN store  -> [st |-> "Queued", bg |-> TRUE]
    [] OTHER               -> [st |-> "gone", bg |-> FALSE]

Lifecycle == INSTANCE JobLifecycle WITH life <- [h \in Handles |-> LifeOf(h)]

(* The queue core, registry and store together implement the job         *)
(* lifecycle: handles are never reused, a job is Queued, then Running,    *)
(* then gone, and only a crash moves a job back (a background job to     *)
(* Queued) or ends it without a worker's answer (a foreground job).      *)
ImplementsLifecycle == Lifecycle!LSpec

(* A queued job is eventually taken by a worker while a started worker    *)
(* can do its function (spec.md 4.D sleep/wake protocol).                 *)
QueuedEventuallyAssigned ==
  \A h \in Handles :
    (h \in DOMAIN jobs /\ jobs[h].state = "Queued"
     /\ \E w \in Workers : started[w] /\ jobs[h].fn \in canDo[w])
      ~> (h \notin DOMAIN jobs \/ jobs[h].state = "Running")
=============================================================================
