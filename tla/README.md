# TLA+ models of gearhulk

gearhulk is a Gearman job server, a worker library and a CLI (`gearhulk server|worker|client`).
This directory holds TLA+ models of its concurrent parts and the TLC configurations that check them.
`PROJECT.json` maps every modelled definition to the source lines it translates. It also lists every run, its expected result, the mutants each property must catch, the findings and the hazards.

## The system and how its parts interact

| Part | Where | What it does |
|---|---|---|
| Wire codec (spec 4.A) | `src/doc.go` (`decodeInPack`, inpack helpers) | Frames 12-byte-header packets and splits JOB_ASSIGN bodies on NUL. |
| Session (4.C) | server, not in `src/` | One connection: reads packets in order and writes an outbound queue. |
| Queue core (4.D) | server, not in `src/` | Per-function priority FIFOs, sleeping-worker lists, grab scan, NOOP wake-up. |
| Job registry (4.E) | server, not in `src/` | Handle → job, unique-id coalescing, result forwarding to the client. |
| Persistent store (4.B) | server, not in `src/` | Durable records of background jobs, replayed at start-up. |
| Scheduler (4.F) | server, not in `src/` | Delayed jobs. |
| Worker runtime (4.H) | `src/unnamed/part_006` (`worker.Worker`) | Registers functions, grabs jobs and runs each in a goroutine under a concurrency limit and a timeout. Answers with WORK_*. |
| Client runtime (4.I) | `src/unnamed/part_007`, `part_005` (interfaces only) | Submits jobs and dispatches responses. |
| CLI shell worker | `src/unnamed/part_001` (and the variant `part_000`) | Runs each job through a shell command: a new subprocess per job, or one persistent line-oriented subprocess. |
| CLI client | `src/unnamed/part_002` | Splits stdin on a delimiter, submits each record and waits for its result or a timeout. |
| CLI root | `src/cmd/root.go` | `Execute` parses the flags and runs `initConfig` before any subcommand. |
| CLI server, examples | `src/cmd/server.go`, `part_003`, `part_004`, `part_008` | Flag handling and listener start-up. |

The interactions work like this:
- A worker sends CAN_DO for each of its functions and then GRAB_JOB.
- The broker answers with JOB_ASSIGN or NO_JOB.
- On NO_JOB the worker sends PRE_SLEEP. The broker then wakes it with NOOP when a job for one of its functions is submitted, and the worker grabs again.
- A client's SUBMIT_JOB is coalesced on (function, unique id). Otherwise it is enqueued, and also persisted if it is a background job. Either way the client gets JOB_CREATED.
- A worker's WORK_COMPLETE/FAIL/EXCEPTION is forwarded to the submitting client, and the registry entry and the store record are deleted.

## Modules

### `WorkerRuntime.tla` and `MCWorkerRuntime.tla`: the worker library (`part_006`)

WorkerRuntime models one `Worker` with one agent.

**Variables**
- The function table `funcs`.
- `ready` and `running`.
- The application thread's position `appPc`.
- The main loop `mainPc`, ranging over `worker.in` (`in`, `inClosed`).
- The limit channel's buffered tokens `tokens`, a buffer of `Limit-1` as `New` makes it.
- The WaitGroup counter `active`.
- Per job: the exec goroutine's program counter `execPc[j]`, the result slot, and whether the abandoned user function is still running (`fnBusy`).

**Actions**

One action per operation:
- `AddFunc`, `RemoveFunc`, `Ready`, `Work`, `Close`, and `Shutdown` in its three steps: flag, `activeJobs.Wait`, `Close`.
- The main loop's `handleInPack` cases: `HandleNoJob`, `HandleNoop`, `HandleJobAssign`. A JOB_ASSIGN spawns the goroutine first and then blocks on `limit <- true`, as the code does.

Each step of `exec`/`execTimeout` that another goroutine can observe is an action:
- `ExecAdd`: `activeJobs.Add`.
- `ExecCheck`: the shutdown check, the function lookup, and the timeout branch.
- `ExecReturn`: the function returns or panics.
- `FnReturn` and `TimerFire`: the two arms of the timeout `select`.
- `ExecReply`: the write if `running`.
- `ExecDone` and `ExecRelease`: the deferred `Done` and `<-limit`.

Go's map iteration order in `Ready` is every ordering (`SetToSeqs`).

**The server stub.** MCWorkerRuntime adds a job server modelled from the protocol (spec 4.D):
- It answers GRAB_JOB with any pending job for a function the worker has declared, or with NO_JOB.
- It wakes a sleeping worker with NOOP.
- It counts the WORK_* packets per job.

### `Broker.tla`, `JobLifecycle.tla` and `MCBroker.tla`: the queue core, registry, store and server process (spec 4.B/4.D/4.E, `server.go`)

The server package is not in `src/`, so the broker side follows spec.md (`spec_modelled` in the map).

**Variables**
- `queue[f][p]`: per-function priority FIFOs.
- `sleeping[f]`: in insertion order.
- `canDo`.
- The registry `jobs`.
- The handle counter `nextHandle`.
- `store`.
- The session outbound queues `toWorker` and `toClient`.
- `up`: the server process runs. `crashes` counts its crashes, up to `MaxCrashes`. `replayed` records the handles the last start took from the store.

**Broker actions**
- `Submit`: three outcomes.
  - Coalesced: the existing handle is returned.
  - Failed store write: the client gets ERROR.
  - Otherwise: a handle is allocated, the job is enqueued, registered and persisted, the first sleeper is woken, and JOB_CREATED is sent.
- `GrabJob`: any function of the can-do set that has a job, at its highest non-empty priority, head of the FIFO.
- `PreSleep`.
- `WorkDone`.
- `Crash`: the process dies (`serverCmd.Run` defers `runtime.HandleCrash`, which logs a panic and raises it again; or a kill).
  - Lost: queues, sleeping lists, registry and sessions.
  - Kept: the store and the handle counter. spec.md calls handles unique per broker lifetime and the counter monotonic, so the model does not restart the counter (the mutant that does breaks `ImplementsLifecycle`).
  - Workers' connections drop. The results of the jobs they were running are lost. A worker may register again once the server is back, but nothing obliges it to: the CLI's `ErrorHandler` only logs, and `Reconnect` is never called.
- `ServerRun`: `gearhulk server` (`server.go`).
  - `NewServer(cfg).Start()` opens the store under `--storage-dir`.
  - It replays every record as Queued in the store's key order (spec 4.B `range`). The key is the string `H:<hostname>:<counter>` (4.E), so `KeyBefore` compares the counters' decimal digits byte by byte: `H:x:10` comes before `H:x:9`.
  - The map names only `server.go` 66–71 (`Run`) for it. Flag registration and logging are left out.
  - `StorageKept` says whether that directory outlived the crash. Its default lies under `os.TempDir()`.
  - The first start replays an empty store.

**Worker sessions.** These follow `part_006` itself:
- `WStart`: `Work`, i.e. CAN_DO and then GRAB_JOB.
- `WRecv`: `handleInPack`. NO_JOB → PRE_SLEEP; NOOP → GRAB_JOB; JOB_ASSIGN → start the job and grab at once.
- `WFinish`: `exec` writes the job's WORK_* packet, when the worker is still running.
- `WDrop`: `exec` returns without a packet. This happens on shutdown, a removed function, a recovered panic, or `running` false. The broker is not told, so the job stays Running.

A worker's request is handled by the broker in the step that sends it. This is sound because the worker changes no state between sending a request and the broker reading it, and a session handles its packets in order.

**The refinement.** `JobLifecycle.tla` is what the broker promises about each handle (spec 3 "Job" and "Lifecycle", 4.B), with no queues, sessions or workers:
- handles are created in increasing order, Queued;
- a job moves to Running and then is gone;
- a crash puts durable jobs back to Queued and ends the others.

Broker implements it under `LifeOf`, which reads a handle's state:
- "none" at or above `nextHandle`;
- the registry entry if the handle has one;
- Queued and durable if only the store has it (the server is down);
- gone otherwise.

`ImplementsLifecycle` checks this.

### `PersistentSubprocess.tla` and `MCPersistentSubprocess.tla`: the CLI shell worker's persistent mode (`part_001`, `part_000`)

`gearhulk worker <fn> <cmd>` without `--eof` starts one subprocess and shares it between all jobs through `cmdMutex`. The worker is `New(Unlimited)` with timeout 0, so every assigned job calls the handler at once and they queue on the mutex.

`Variant` selects the handler version:
- `"sync"`, `part_001`: the handler reads the response itself.
- `"timeout"`, `part_000`: a reader goroutine reads, and the handler waits for it or 5 s.

**Data abstraction**
- A record is the sequence of lines the command receives (the handler adds the final newline). Each line is `text`, `blank` (whitespace only) or `empty`.
- The command is a line filter that answers each line with one flushed line. The answer to line *i* of job *j* is `<<j, i>>`, so a result shows whose lines it holds.
- Each pipe holds `PipeCap` lines.
- A `bufio` fill takes any non-empty prefix of what the pipe holds, because the reader is new for each job.

**Actions**
- `Lock`: `cmdMutex.Lock`. The `ProcessState` check never fires, because nothing calls `cmd.Wait`.
- `WriteLine`: `stdin.Write` one line at a time. It blocks when the pipe is full and fails once the command has exited.
- `Filter`: the command answers a line.
- `Exit`: the command exits.
- `Fill`, `ReadLine`, `ReadEOF`: the `ReadString` loop. Its count comes from `strings.Split(strings.TrimSpace(data), "\n")` and the version's skip test.
- `Collect`: the return with the deferred `Unlock`.
- `Timeout`: `time.After(5s)` in `part_000`.

### `InPackCodec.tla`: the worker's packet codec (`src/doc.go`)

Pure operators, no state.
- `DecodeInPack(data)` is `decodeInPack`. It returns the outcome (`"ok"`, `"invalid"`, `"notEnough"`, `"badType"`, or `"panic"` where `data[12:dl+12]` is out of range), the inPack and the consumed length `l`. The checks are in the code's order.
- `GoInt` is Go's `int(...)` and int addition: two's complement at `IntBits` bits.
- `SplitN` is `bytes.SplitN`, and `Fields` is the `switch` on the packet type. A JOB_ASSIGN or JOB_ASSIGN_UNIQ body with too few fields sets nothing.
- `JobView` gives the `Data`/`Fn`/`Handle`/`UniqueId` accessors.
- `WorkPayload` is the buffer that `SendData` and `SendWarning` build. `StatusPayload` is the one `UpdateStatus` builds, using `Itoa`, `NewBuffer` and `CopyAt` (Go's `copy`).

**Scaled widths.** TLC's integers are 32-bit, so a header byte has `ByteBits` = 2 bits instead of 8. A 4-byte field then has 8 bits, and Go's int has `IntBits` bits: 16 for the 64-bit build and 8 for the 32-bit build. What matters for the length edge is kept: the int is wider than the field on a 64-bit build and as wide as it on a 32-bit one. Payload bytes keep their Go values (ASCII digits, `'-'`, NUL).

### `PacketStream.tla` and `PacketChannel.tla`: the byte stream into the worker (checked as the `codec` build of `MCCliCommands`)

PacketStream models one worker process and its connection.

**Variables**
- `proc`: the process.
- `sent`: the packets the server wrote.
- `wire`: bytes not yet read.
- `buf`: bytes read and not yet decoded.
- `rpc`: the reader's position.
- `got`: the inPacks decoded.
- `updates`: the payloads jobs sent back.

**Actions**
- `Execute`: `rootCmd.Execute` with `initConfig` (`root.go`). The process ends in three cases:
  - a flag error;
  - no `--config` with an unknown `$HOME` (`cobra.CheckErr`);
  - no subcommand: `rootCmd`'s `Run` prints the help.
- `ServerWrite`: the server writes a whole packet (spec 3, 4.A).
- `Read(k)`: TCP hands over the next `k` bytes, where `k` is any chunk size.
- `DecodeOk` / `DecodeFail`: the read loop calls `decodeInPack` until it fails, and keeps the bytes on an error (spec 4.A). The read loop is not in `src/`, so these are spec-modelled.
- `SendData(i, d, t)` and `UpdateStatus(i, n, d)`: a job that the worker was assigned sends a payload back. `ServerParse` is how the server splits it.

**The refinement.** PacketChannel is the abstract connection: messages written, and delivered in order. PacketStream implements it under the mapping `written` ← meaning of each sent packet, `delivered` ← `JobView` of each decoded inPack. The mapping is checked as `ImplementsChannel`, so the detailed reader must also satisfy the channel's fairness: every packet written is eventually decoded.

### `EofSubprocess.tla` and `MCEofSubprocess.tla`: the shell worker's `--eof` mode

`processJobWithNewSubprocess` (identical in `part_001` and `part_000`) starts a new `sh -c` per job, under the same `cmdMutex`.

**Variables**
- The handler: `owner` of the mutex, `hpc[j]` (lock, start, write, readout, readerr, done/failed), `wpos[j]` lines written, `got[j]` lines read, `res[j]`.
- The child: `cpc` (none, run, failing, exited), `inOpen` (stdin not yet closed), the pipe contents `cin`, `cout`, `cerr` as line counts, what it still owes (`oweOut`, `oweErr`), and `exitOf[j]`.

**Actions**
- Handler: `Lock`; `Start` (the three pipes and `cmd.Start`, or an error); `WriteLine` (one line of `stdin.Write`, blocking on a full pipe, EPIPE once the child has exited; `stdin.Close` after the last line); `ReadOut`/`OutEOF` (`io.ReadAll(stdout)`); `ReadErr`/`ErrEOF` (`io.ReadAll(stderr)` and `cmd.Wait`, a non-zero status being an error).
- Child (spec-modelled: the command is not code of the repository): `CRead`, `COut`, `CFail`, `CErr`, `CExit`. `Cmd` is `"filter"` (one output line per input line, exit 0 at EOF) or `"echo"` (writes `EchoOut` lines and exits 0 without reading). `MayFail` lets it write `ErrLines` to stderr and exit 1.

MCEofSubprocess binds one job for the echo run.

### `ClientCommand.tla`: `gearhulk client` (`part_002`)

**Variables**
- The `--delimiter` flag `delim` and stdin: `input`, `unread`.
- The `bufio.Scanner`: the held bytes `sbuf` and `seof`.
- `runClient`'s position `cpc` (scan, submit, wait, or returned ok/submitErr/scanErr), the current `line` and the `records` passed to `c.Do`.
- Per job its server-side state `wstate`; the frames in flight to the client `inbox`; each record's buffered `resultChan` in `chans`; and what was printed per record, `out`.

**Operators.** `ScanLines` is `bufio.ScanLines` (the default delimiter), `CustomSplit` the split function of lines 101-116 with `DelimAt` its search loop, `Split` the choice of line 100.

**Actions**
- The Scanner loop: `ScanToken` (a token; an empty one is skipped), `ScanRead(k)` (a read of `k` bytes into the free buffer), `ScanEOF`, `ScanEnd` (Scan false, `Err()` nil), `ScanTooLong` (`ErrTooLong`).
- `Submit`: `c.Do`, which blocks until JOB_CREATED or returns an error that ends `runClient`.
- `Answer(k, f)` (spec-modelled): the server forwards WORK_DATA or the final WORK_* of job `k`, at any time and never necessarily.
- `Dispatch`: the client's read goroutine runs the job's callback, which sends a final frame into that job's channel (blocking while it is full) and ignores WORK_DATA.
- `Receive` and `Timeout`: the two arms of the `select`.

**The reference.** `Pieces` cuts the input one byte at a time at each delimiter, the way `strings.Split` reads it, and `RefRecords` keeps the non-empty records before the first piece the Scanner cannot hold. `ScanMatchesReference` compares the records submitted with it.

### `MCCliCommands.tla` and `MCWorkerConfigs.tla`: several configurations in one run

Each of these modules holds several independent instances, with their variables renamed apart. A variable chosen in `Init` (`build`, `config`) selects the instance that moves. The others stay in their initial states, so the state space is the sum of the instances, not their product. Each property is stated as `build = "x" => I!Property`, and each instance's processes are weakly fair on their own.
- MCCliCommands:
  - `S`: `part_001` persistent mode, pipes of 2 lines, the command may exit.
  - `E`: `--eof` mode with a filter that may fail, records of 3 and 1 lines, pipes of 1 line.
  - `C`: the client with the default delimiter and `;;`.
  - `P`: PacketStream on the 64-bit build. Its refinement property is stated without `build = "codec" =>`: in the other builds the stream stays empty, which PacketChannel allows.
- MCWorkerConfigs:
  - `S`: the safety configuration of MCWorkerRuntime, limit 2, 3 jobs, panics, RemoveFunc.
  - `L`: the liveness configuration, limit 1, timeouts 0 and 1, no panics.

## Runs

Every passing run fires every action of its module, and each property of a passing run has a mutant in `PROJECT.json` that TLC must catch. Bounds:
- **Worker runs:** 2 functions and 2 jobs, except the safety configuration of `worker_configs`, which has 3 jobs so that limit 2 is exceeded if the bound is wrong. `QueueSize` 2, and `MaxCalls` bounds `AddFunc`/`RemoveFunc`.
- **Subprocess runs:** 2 jobs and records of up to 3 lines. That is enough for an interior blank or empty line, and for a record that exceeds two 1-line pipes (the real buffers are 64 KiB, so the pipe deadlock needs records of more than about 128 KiB).
- **EOF mode:** pipes of 1 line. A 3-line record is the largest whose output the pipes absorb while the handler still writes: 1 line in stdin, 1 in stdout, 1 held by the filter. A 4-line record deadlocks, and so does a failing command with 2 stderr lines, as the hazards in `PROJECT.json` note.
- **Client:** every stdin of up to 4 bytes over `a`, `\n`, `\r`, `;`, with the delimiter `\n` and `;;`, a 3-byte Scanner buffer and reads of 1 or 2 bytes. That covers a CR before a newline, an overlapping `;;;`, a delimiter cut by a read, a record that fits the buffer exactly with its delimiter and one that does not, and two records, the first of which times out and is answered late.
- **Codec run:** `MaxSent` 2 packets from JOB_ASSIGN (handle, fn, and data holding a NUL), JOB_ASSIGN_UNIQ (an empty data field) and NOOP (an empty payload), with every chunking of the stream. Two job payloads: SendData/SendWarning with data that starts with NUL, and UpdateStatus with -1 and 10 (a '-' sign and two digits). `DecodeNeverPanics` checks every value of the length field.
- **Broker runs:** 2 workers, one of them able to do both functions. 2 functions, 1 unique id plus "none", 2 handles and 2 submits.
  - `broker_safety` and `broker_replay_order` start the counter at `FirstHandle` = 9. This is a server that has handed out eight handles, all finished, so its store is empty. Handles 9 and 10 cross a power of ten, which is where the store's string order and the counter's order part.
  - Both submit at LOW and HIGH and allow one crash with the storage kept. That is enough for a priority inversion, a coalesced submit, a worker sleeping on two lists, a wake-up, and a crash while a background job is Queued or Running, with replay of two records of one queue.
  - With 3 submits and all 3 priorities the crash model grows past 850,000 states and 11 minutes.
  - `broker_lost_wakeup` uses all 3 priorities and no crash.

### Passing runs

| Run | Config | Checks | What it shows |
|---|---|---|---|
| worker_configs | `MCWorkerConfigs.cfg`: two configurations of MCWorkerRuntime, (limit 2, 3 jobs, no timeouts, panics, RemoveFunc) and (limit 1, timeouts 0 and 1, no panics) | `SafetyTypeOK`, `SafetyJobsWithinLimit`, `SafetyShutdownDrains`, `LiveAnswerAtMostOnce`, `LiveAcceptedJobAnswered` | Spawn-before-acquire keeps at most `Limit` jobs holding a slot, which also bounds running user functions when nothing times out. `Shutdown` returns only after every exec goroutine that passed `activeJobs.Add` has finished its user-function path. A late result after a timeout is dropped, and every accepted job is answered, the timeout arm and the limit-1 rendezvous included. |
| broker_safety | `MCBroker_safety.cfg` | `BTypeOK`, `QueuedExactlyOnce`, `SingleOwner`, `CoalescedUnique`, `DurableIffBackground`, `ImplementsLifecycle` | Queues and registry agree, and a job is never held by two workers. Coalescing leaves no duplicate, except for two records replayed together (a hazard in `PROJECT.json`). While the server runs, the store mirrors the live background jobs. All of this also holds when a worker's `exec` returns without a packet. The broker implements the abstract job lifecycle. |
| cli_commands | `MCCliCommands.cfg`: part_001 (records `text,blank,text` and `text`, pipes of 2 lines, a command that may exit), `--eof` mode, the client, the packet stream (64-bit build) | `SyncTypeOK`, `SyncResultIsOwnOutput`, `SyncAllJobsReturn`, `EofSuccessIsWholeOutput`, `EofAllJobsReturnFits`, `ClientTypeOK`, `ClientScanMatchesReference`, `ClientResultIsOwnJob`, `ClientReturnsAlways`, `CodecBytesAtFrameBoundary`, `CodecUpdatesRoundTrip`, `CodecDecodeNeverPanics`, `CodecImplementsChannel` | In part_001, for records that fit the pipes and have no empty lines, each job gets the answers to its own lines and every call returns; an interior whitespace-only line is counted correctly. In `--eof` mode every job returns, and succeeds only with the whole output of a command that exited 0. The client submits exactly the non-empty records of its input however the reads cut it, fails with a read error exactly at the first record its buffer cannot hold, prints each record's own final answer or a timeout although abandoned jobs answer late, and always returns. However TCP cuts the stream, the reader's kept bytes plus the unread bytes are exactly the frames not yet decoded. No length field makes `decodeInPack` panic. Each job receives its handle, function, unique id and data, in order, and every packet is eventually decoded (the refinement). The server parses every payload a job sends back as what the job passed. |

### Violation runs

Each of these is a finding in `PROJECT.json`.

| Run | Property | What TLC finds |
|---|---|---|
| worker_timeout_overrun | `UserFuncsWithinLimit` | A timed-out function keeps running after `exec` releases its slot, so limit 1 runs two functions (spec 4.H says N means at most N in parallel). |
| worker_panic | `AcceptedJobAnswered` | A panic without a timeout is recovered in `exec`'s defer and never reported (spec 4.H says WORK_EXCEPTION). |
| worker_register | `RegisteredAtServer` | `AddFunc` between `Ready` and `Work` is never announced. |
| broker_replay_order | `QueueInSubmitOrder` | Jobs 9 and 10 are submitted in the background at one priority. The server crashes and restarts, and `range` replays `H:x:10` before `H:x:9`. The queue then holds 10 before 9, against FIFO within a level (spec 3). |
| broker_lost_wakeup | `QueuedEventuallyAssigned` | A job submitted between NO_JOB and PRE_SLEEP stays queued while the worker sleeps (spec 4.D never re-checks the queues on PRE_SLEEP). |
| sub_gap | `ResultIsOwnOutput` | A record `text,empty,text`: the command answers 3 lines and the handler reads 2. The job returns the wrong lines, and the surplus goes to the next job or is lost in the dropped `bufio.Reader`. |
| sub_pipe_full | `AllJobsReturn` | A 3-line record with 1-line pipes: the handler writes everything before reading, the command blocks on stdout, and the handler blocks on stdin while holding `cmdMutex`. |
| sub_orphan | `ResultIsOwnOutput` | In `part_000` a job times out before its answer arrives. Its answer is then read by the next job's reader and returned as the next job's result. |
| eof_echo | `ZeroExitIsSuccess` | In `--eof` mode with `echo hello`, the command the repository's own `TestWorkerSubprocess` uses: the child writes, exits 0 and closes its stdin before the handler's `stdin.Write`, which fails with EPIPE. The job errors although the command succeeded, and the test expects no error. |

Hazards met while modelling but not yet given a run of their own (`PROJECT.json` lists them with notes):
- `RemoveFunc` racing an assigned job: the job is dropped with no WORK_FAIL.
- The worker's grab right after JOB_ASSIGN puts it on a sleeping list while it runs a job of that function (spec 4.E says these are disjoint).
- A coalesced foreground submit is attached to no client in the spec's registry. To the client command this is a job never answered, and `ClientReturnsAlways` shows that its timeout still ends the wait.
- An error return of `--eof` mode after `cmd.Start` never calls `cmd.Wait`, leaving a zombie child.
- `decodeInPack` on a 32-bit build: `int(length)+12` wraps negative, and the slice panics. `DecodeNeverPanics` holds on the 64-bit build that `cli_commands` checks. Its mutant `GoInt32` is exactly the 32-bit build, and under it TLC finds the panicking length. A separate violation run would exceed the project's run budget.
- A JOB_ASSIGN with too few fields is decoded with an empty handle and fn. The server never writes one, so no run feeds it.
- A duplicate unique id submitted while the first job runs is not coalesced. After a crash both records are replayed as Queued with one key. `broker_safety` reaches this state, and `CoalescedUnique` exempts exactly that pair.
- `--storage-dir` defaults to a directory under `os.TempDir()`. A restart that finds it empty (`StorageKept = FALSE`) loses every background job.
- A worker that closes its connection while it runs jobs: spec.md does not say what becomes of its Running jobs.
- A job whose `exec` returns without a packet (`WDrop`) stays Running at the broker, and its client waits for ever. spec.md gives the broker no job timeout, so no liveness property about answers holds, and none is checked.
- `part_000`'s persistent mode writes the whole record before its 5 s `select`, so the timer does not bound the write. Its only run is the violation `sub_orphan`.

## Fairness

- **Worker model:**
  - Each exec goroutine and the main loop are weakly fair: Go schedules runnable goroutines.
  - So is the application's `Shutdown` once it has started.
  - The server stub is weakly fair.
  - Nothing forces the application to call `Work`, `Close` or `Shutdown`.
- **Broker model:**
  - Only `WRecv` is weakly fair: `Work` ranges over `worker.in` and hands every packet the agent reads to `handleInPack`.
  - Registering (`WStart`) is not fair, and neither is a job's end (`WFinish`, `WDrop`). The application may never call `Work`, nothing re-registers after a crash, and a user function may never return.
  - Clients are not fair: submits are optional.
  - Crash and restart are not fair: nothing in the code restarts the server.

- **Codec model** (`P` in MCCliCommands): the worker's read goroutine is weakly fair: it loops for as long as the connection is open. `WF_vars(Reader)` is written out as `[]<>~ReaderEnabled \/ []<><<Reader>>_vars`, with an explicit enabledness predicate. This is what WF means, and it spares TLC from computing `ENABLED` through the decoder. PacketChannel's `DeliverFair` is written the same way. The server and the jobs are not fair.
- **Subprocess model:** each handler, each reader and the command are weakly fair. The 5 s timer fires (`time.After`). Nothing forces the command to exit.
- **EOF model:** each handler and the child's normal steps are weakly fair: the kernel schedules the child, and a filter reads, writes and exits at EOF. Failing (`CFail`) is not fair: a command need not fail.
- **Client model:** `runClient`'s goroutine and the client's read goroutine are weakly fair. The `time.After` arm is part of the first, so a wait always ends. The server's answers are not fair: a job may never be answered.

Deadlock checking is off in every run. An idle worker blocks in `range worker.in` for ever, and once the bounded submits are done the broker has nothing to do. The subprocess models have a fixed set of jobs, and the client stops once it returns. So a final state is legitimate. Liveness properties (`AllJobsReturn`, `AcceptedJobAnswered`, ...) catch real hangs.

## Not modelled (yet) and the plan

This is the order for the coming work, most important first:

1. **Broker extensions**, each from spec.md alone:
   - worker disconnect (first, what spec.md leaves open about the dead worker's Running jobs);
   - the scheduler's delayed jobs (4.F), once the two questions below are settled;
   - WORK_STATUS and GET_STATUS.
2. **The abstract worker protocol** that WorkerRuntime refines.

The run budget is spent, so each of these would replace or join an existing run.

These are not modelled, with the reasons:
- The agent's connection and reconnection code is not in `src/`.
- Of `server.go`, only what decides the broker's state is modelled: `Run` starting the server on the store of `--storage-dir`, and the crash. The listen and web addresses, the flag logging and the unread `--verbose` flag are left out.
- The server front's accept loop, admin verbs and graceful shutdown (spec 4.G) are in no file of `src/`.
- The scheduler (4.F) is in no file of `src/` either, and spec.md leaves open two things a replay depends on. It does not say whether a cron job's next fire time is persisted when it is re-scheduled; if not, a replay fires an instant already served. Nor does it say how a pending scheduled job fits the store invariant of spec 3, which keeps records only for Queued and Running jobs. A model would have to choose both.
- Logging and error-message wording.
- The client library is only interfaces in `src/`. `ClientCommand` models the part of it the client command relies on (`Do`, the read goroutine) from spec 4.I.
- The client command's flags, priority and output formatting: they decide no control flow the properties tell apart.
