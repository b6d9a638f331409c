------------------------- MODULE PersistentSubprocess -------------------------
(***************************************************************************)
(* The CLI shell worker in persistent mode (gearhulk worker <fn> <cmd>     *)
(* without --eof): one subprocess for the life of the worker, shared by   *)
(* every job through cmdMutex.  The worker is New(Unlimited) with timeout  *)
(* 0, so every assigned job calls the handler at once and they queue on    *)
(* the mutex.  Two versions of the handler are modelled:                  *)
(*   Variant = "sync"    src/unnamed/part_001: the handler reads its lines *)
(*                       itself through a fresh bufio.Reader;              *)
(*   Variant = "timeout" src/unnamed/part_000: a goroutine with its own    *)
(*                       bufio.Reader reads; the handler waits for it or   *)
(*                       5 seconds.                                        *)
(*                                                                         *)
(* Data is abstracted to lines: a job's data is the sequence of lines the *)
(* subprocess receives (the handler adds the final newline when missing), *)
(* each "text", "blank" (whitespace only) or "empty".  The command is a    *)
(* line filter that flushes one output line per input line (like awk or   *)
(* a line-buffered rev); the output line for line i of job j is <<j, i>>.  *)
(* Pipes hold at most PipeCap lines (the kernel pipe buffer); a bufio      *)
(* fill takes any non-empty prefix of what the pipe holds.                *)
(***************************************************************************)
EXTENDS Naturals, Sequences, SequencesExt, FiniteSets

CONSTANTS
  Jobs,      \* concurrently assigned jobs
  Data,      \* Data[j]: the lines of job j
  PipeCap,   \* capacity of each pipe, in lines
  Variant,   \* "sync" (part_001) or "timeout" (part_000)
  MayExit    \* whether the subprocess may exit

LineKinds == {"text", "blank", "empty"}

ASSUME /\ Data \in [Jobs -> Seq(LineKinds) \ {<<>>}]
       /\ PipeCap \in Nat \ {0}
       /\ Variant \in {"sync", "timeout"}
       /\ MayExit \in BOOLEAN

None == "none"

VARIABLES
  owner,    \* the job holding cmdMutex, or None
  hpc,      \* hpc[j]: where job j's handler is
  wpos,     \* wpos[j]: lines of Data[j] written to stdin so far
  stdin,    \* the stdin pipe: lines not yet read by the subprocess
  stdout,   \* the stdout pipe: output lines not yet read by any reader
  alive,    \* the subprocess is running
  rpc,      \* rpc[j]: job j's reader ("none", "reading", "done", "error")
  rbuf,     \* rbuf[j]: lines buffered in job j's bufio.Reader
  reads,    \* reads[j]: ReadString calls done by job j's reader
  out,      \* out[j]: lines job j's reader collected
  res       \* res[j]: the handler's result, or None for an error

pvars == <<owner, hpc, wpos, stdin, stdout, alive, rpc, rbuf, reads, out, res>>

(* Output lines: <<job, line number>>. *)
Tag == Jobs \X (1..Max({Len(Data[j]) : j \in Jobs}))
Finished == {"done", "failed", "timedout"}

-----------------------------------------------------------------------------
(* strings.TrimSpace(data) drops leading and trailing blank and empty     *)
(* lines; strings.Split of what is left gives inputLines ([""] when no    *)
(* text is left).                                                          *)
TextIdx(d) == {i \in DOMAIN d : d[i] = "text"}
InputLines(d) ==
  IF TextIdx(d) = {} THEN <<"empty">>
  ELSE SubSeq(d, Min(TextIdx(d)), Max(TextIdx(d)))

(* The loop's skip test: part_001 skips inputLines[i] == "", part_000     *)
(* skips strings.TrimSpace(inputLines[i]) == "".                          *)
Skipped(k) == IF Variant = "sync" THEN k = "empty" ELSE k \in {"empty", "blank"}

(* Mutant: part_001's loop also skips whitespace-only lines. *)
ExpectedReadsBlank(d) ==
  Cardinality({i \in DOMAIN InputLines(d) :
                 InputLines(d)[i] \notin {"empty", "blank"}})

(* Mutant: the loop runs one time too many. *)
ExpectedReadsPlusOne(d) ==
  1 + Cardinality({i \in DOMAIN InputLines(d) : ~Skipped(InputLines(d)[i])})

(* Number of ReadString calls: one per inputLines[i] not skipped. *)
ExpectedReads(d) ==
  Cardinality({i \in DOMAIN InputLines(d) : ~Skipped(InputLines(d)[i])})

(* The lines of Data[j] the loop reads a response for, and the response *)
(* it means to return: the command's output for exactly those lines.    *)
CountedIdx(j) ==
  LET d == Data[j]
      off == IF TextIdx(d) = {} THEN 0 ELSE Min(TextIdx(d)) - 1
  IN {off + i : i \in {k \in DOMAIN InputLines(d) :
                          ~Skipped(InputLines(d)[k])}}
OwnOutput(j) ==
  [k \in 1..Cardinality(CountedIdx(j)) |->
     <<j, SetToSortSeq(CountedIdx(j), <)[k]>>]

Release == owner' = None

-----------------------------------------------------------------------------
(* cmdMutex.Lock().  The ProcessState check after it never fires: nothing *)
(* calls cmd.Wait, so ProcessState stays nil even after an exit.          *)
Lock(j) ==
  /\ hpc[j] = "lock"
  /\ owner = None
  /\ owner' = j
  /\ hpc' = [hpc EXCEPT ![j] = "write"]
  /\ UNCHANGED <<wpos, stdin, stdout, alive, rpc, rbuf, reads, out, res>>

(* Mutant: the HasSuffix test is inverted, so a record already ending in *)
(* a newline gets one more (empty) line.                                 *)
WriteLineExtra(j) ==
  /\ hpc[j] = "write"
  /\ \/ /\ alive
        /\ Len(stdin) < PipeCap
        /\ stdin' = Append(stdin, <<j, wpos[j] + 1>>)
        /\ wpos' = [wpos EXCEPT ![j] = @ + 1]
        /\ IF wpos[j] = Len(Data[j])
           THEN /\ hpc' = [hpc EXCEPT ![j] = "read"]
                /\ rpc' = [rpc EXCEPT ![j] = IF ExpectedReads(Data[j]) = 0
                                             THEN "done" ELSE "reading"]
           ELSE UNCHANGED <<hpc, rpc>>
        /\ UNCHANGED <<owner, res>>
     \/ /\ ~alive
        /\ hpc' = [hpc EXCEPT ![j] = "failed"]
        /\ res' = [res EXCEPT ![j] = None]
        /\ Release
        /\ UNCHANGED <<wpos, stdin, rpc>>
  /\ UNCHANGED <<stdout, alive, rbuf, reads, out>>

(* stdin.Write(data) (and the added "\n"): one line per step, blocking    *)
(* while the pipe is full; a write to an exited subprocess fails (EPIPE), *)
(* the handler returns the error and the deferred Unlock runs.  After the *)
(* last line the reader starts: in part_001 the handler itself, in        *)
(* part_000 a new goroutine while the handler waits in its select.        *)
WriteLine(j) ==
  /\ hpc[j] = "write"
  /\ \/ /\ alive
        /\ Len(stdin) < PipeCap
        /\ stdin' = Append(stdin, <<j, wpos[j] + 1>>)
        /\ wpos' = [wpos EXCEPT ![j] = @ + 1]
        /\ IF wpos[j] + 1 = Len(Data[j])
           THEN /\ hpc' = [hpc EXCEPT ![j] = "read"]
                /\ rpc' = [rpc EXCEPT ![j] = IF ExpectedReads(Data[j]) = 0
                                             THEN "done" ELSE "reading"]
           ELSE UNCHANGED <<hpc, rpc>>
        /\ UNCHANGED <<owner, res>>
     \/ /\ ~alive
        /\ hpc' = [hpc EXCEPT ![j] = "failed"]
        /\ res' = [res EXCEPT ![j] = None]
        /\ Release
        /\ UNCHANGED <<wpos, stdin, rpc>>
  /\ UNCHANGED <<stdout, alive, rbuf, reads, out>>

(* The subprocess turns its next input line into an output line, once    *)
(* there is room in the stdout pipe.                                      *)
Filter ==
  /\ alive
  /\ stdin # <<>>
  /\ Len(stdout) < PipeCap
  /\ stdout' = Append(stdout, Head(stdin))
  /\ stdin' = Tail(stdin)
  /\ UNCHANGED <<owner, hpc, wpos, alive, rpc, rbuf, reads, out, res>>

(* The subprocess exits (crash, or a command that stops reading). *)
Exit ==
  /\ MayExit /\ alive
  /\ alive' = FALSE
  /\ stdin' = <<>>
  /\ UNCHANGED <<owner, hpc, wpos, stdout, rpc, rbuf, reads, out, res>>

(* The loop: ReadString('\n') returns the next buffered line; on an empty *)
(* buffer bufio fills it with whatever the pipe holds; at EOF (the        *)
(* subprocess exited and the pipe is drained) it fails.                   *)
Fill(j) ==
  /\ rpc[j] = "reading"
  /\ rbuf[j] = <<>>
  /\ \E k \in 1..Len(stdout) :
       /\ rbuf' = [rbuf EXCEPT ![j] = SubSeq(stdout, 1, k)]
       /\ stdout' = SubSeq(stdout, k + 1, Len(stdout))
  /\ UNCHANGED <<owner, hpc, wpos, stdin, alive, rpc, reads, out, res>>

ReadLine(j) ==
  /\ rpc[j] = "reading"
  /\ rbuf[j] # <<>>
  /\ out' = [out EXCEPT ![j] = Append(@, Head(rbuf[j]))]
  /\ rbuf' = [rbuf EXCEPT ![j] = Tail(@)]
  /\ reads' = [reads EXCEPT ![j] = @ + 1]
  /\ rpc' = [rpc EXCEPT ![j] = IF reads[j] + 1 = ExpectedReads(Data[j])
                               THEN "done" ELSE "reading"]
  /\ UNCHANGED <<owner, hpc, wpos, stdin, stdout, alive, res>>

ReadEOF(j) ==
  /\ rpc[j] = "reading"
  /\ rbuf[j] = <<>> /\ stdout = <<>> /\ ~alive
  /\ rpc' = [rpc EXCEPT ![j] = "error"]
  /\ UNCHANGED <<owner, hpc, wpos, stdin, stdout, alive, rbuf, reads, out, res>>

(* Mutant: the handler returns without unlocking cmdMutex. *)
CollectNoUnlock(j) ==
  /\ hpc[j] = "read"
  /\ rpc[j] \in {"done", "error"}
  /\ hpc' = [hpc EXCEPT ![j] = IF rpc[j] = "done" THEN "done" ELSE "failed"]
  /\ res' = [res EXCEPT ![j] = IF rpc[j] = "done" THEN out[j] ELSE None]
  /\ UNCHANGED <<owner, wpos, stdin, stdout, alive, rpc, rbuf, reads, out>>

(* The handler returns the reader's outcome and unlocks (part_001 returns *)
(* after its own loop; part_000 receives from resultChan or errorChan).   *)
Collect(j) ==
  /\ hpc[j] = "read"
  /\ rpc[j] \in {"done", "error"}
  /\ hpc' = [hpc EXCEPT ![j] = IF rpc[j] = "done" THEN "done" ELSE "failed"]
  /\ res' = [res EXCEPT ![j] = IF rpc[j] = "done" THEN out[j] ELSE None]
  /\ Release
  /\ UNCHANGED <<wpos, stdin, stdout, alive, rpc, rbuf, reads, out>>

(* part_000 only: time.After(5s) wins the select; the handler returns an  *)
(* error and unlocks, and its reader goroutine keeps reading stdout.      *)
Timeout(j) ==
  /\ Variant = "timeout"
  /\ hpc[j] = "read"
  /\ rpc[j] \in {"reading", "done"}
  /\ hpc' = [hpc EXCEPT ![j] = "timedout"]
  /\ res' = [res EXCEPT ![j] = None]
  /\ Release
  /\ UNCHANGED <<wpos, stdin, stdout, alive, rpc, rbuf, reads, out>>

PInit ==
  /\ owner = None
  /\ hpc = [j \in Jobs |-> "lock"]
  /\ wpos = [j \in Jobs |-> 0]
  /\ stdin = <<>> /\ stdout = <<>>
  /\ alive = TRUE
  /\ rpc = [j \in Jobs |-> "none"]
  /\ rbuf = [j \in Jobs |-> <<>>]
  /\ reads = [j \in Jobs |-> 0]
  /\ out = [j \in Jobs |-> <<>>]
  /\ res = [j \in Jobs |-> None]

Handler(j) == Lock(j) \/ WriteLine(j) \/ Collect(j) \/ Timeout(j)
Reader(j) == Fill(j) \/ ReadLine(j) \/ ReadEOF(j)

PNext ==
  \/ \E j \in Jobs : Handler(j) \/ Reader(j)
  \/ Filter
  \/ Exit

(* Goroutines and the subprocess are scheduled fairly; the 5 s timer      *)
(* fires.  Nothing forces the subprocess to exit.                         *)
PSpec ==
  /\ PInit /\ [][PNext]_pvars
  /\ \A j \in Jobs : WF_pvars(Handler(j)) /\ WF_pvars(Reader(j))
  /\ WF_pvars(Filter)

-----------------------------------------------------------------------------
PTypeOK ==
  /\ owner \in Jobs \cup {None}
  /\ hpc \in [Jobs -> {"lock", "write", "read"} \cup Finished]
  /\ \A j \in Jobs : wpos[j] \in 0..Len(Data[j])
  /\ stdin \in BoundedSeq(Tag, PipeCap) /\ stdout \in BoundedSeq(Tag, PipeCap)
  /\ alive \in BOOLEAN
  /\ rpc \in [Jobs -> {"none", "reading", "done", "error"}]
  /\ \A j \in Jobs : rbuf[j] \in Seq(Tag) /\ out[j] \in Seq(Tag)

(* Each job that returns success returns the command's output for its own *)
(* counted lines, in order: no line of another job, none of its own       *)
(* skipped, across the shared pipe, the per-job bufio.Reader and the      *)
(* handler's line count.                                                  *)
ResultIsOwnOutput ==
  \A j \in Jobs : hpc[j] = "done" => res[j] = OwnOutput(j)

(* Every job's handler call returns (with a result or an error), so the   *)
(* exec goroutines and cmdMutex are released.                             *)
AllJobsReturn == <>(\A j \in Jobs : hpc[j] \in Finished)
=============================================================================
