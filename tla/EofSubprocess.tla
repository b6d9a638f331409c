---------------------------- MODULE EofSubprocess ----------------------------
(***************************************************************************)
(* The CLI shell worker in EOF mode (gearhulk worker <fn> <cmd> --eof):   *)
(* processJobWithNewSubprocess, identical in src/unnamed/part_001 and     *)
(* part_000.  Jobs queue on cmdMutex; each one starts its own sh -c       *)
(* <cmd>, writes the whole job data to its stdin, closes stdin, reads     *)
(* stdout to EOF, then stderr to EOF, then calls cmd.Wait.                *)
(*                                                                         *)
(* Data is abstracted to lines: Data[j] is the number of lines of job j.  *)
(* Each pipe (stdin, stdout, stderr) holds PipeCap lines.  The command is *)
(*   Cmd = "filter": reads a line, answers it with one stdout line, and   *)
(*                   exits 0 at the end of its input;                     *)
(*   Cmd = "echo":   writes EchoOut stdout lines without reading stdin    *)
(*                   and exits 0 (the "echo hello" of the package's tests). *)
(* With MayFail the command may give up at any point: it stops reading,   *)
(* writes ErrLines diagnostic lines to stderr and exits 1; and starting   *)
(* the command (pipes, fork) may fail.                                    *)
(***************************************************************************)
EXTENDS Integers

CONSTANTS
  Jobs,      \* concurrently assigned jobs
  Data,      \* Data[j]: lines of job j's data
  PipeCap,   \* capacity of each pipe, in lines
  Cmd,       \* "filter" or "echo"
  EchoOut,   \* stdout lines of the echo command
  ErrLines,  \* stderr lines of a failing command
  MayFail    \* whether starting or running the command may fail

ASSUME /\ Data \in [Jobs -> Nat \ {0}]
       /\ PipeCap \in Nat \ {0}
       /\ Cmd \in {"filter", "echo"}
       /\ {EchoOut, ErrLines} \subseteq Nat
       /\ MayFail \in BOOLEAN

None == "none"

(* No exit status yet (the command runs, or never started). *)
NoExit == -1

VARIABLES
  owner,    \* the job holding cmdMutex, or None
  hpc,      \* hpc[j]: where job j's handler is
  wpos,     \* wpos[j]: lines of job j written to stdin
  cpc,      \* the current command: "none", "run", "failing" or "exited"
  inOpen,   \* the handler has not closed stdin yet
  cin,      \* lines in the stdin pipe
  cout,     \* lines in the stdout pipe
  cerr,     \* lines in the stderr pipe
  oweOut,   \* stdout lines the command still has to write
  oweErr,   \* stderr lines the failing command still has to write
  exitOf,   \* exitOf[j]: exit status of job j's command, or NoExit
  got,      \* got[j]: stdout lines job j's handler read
  res       \* res[j]: "ok", "error", or None while the call runs

evars == <<owner, hpc, wpos, cpc, inOpen, cin, cout, cerr, oweOut, oweErr,
           exitOf, got, res>>

Finished == {"done", "failed"}

(* What the command answers for job j: a line per line, or echo's lines. *)
Expected(j) == IF Cmd = "filter" THEN Data[j] ELSE EchoOut

(* The handler returns: the deferred cmdMutex.Unlock runs. *)
Return(j, r) ==
  /\ hpc' = [hpc EXCEPT ![j] = IF r = "ok" THEN "done" ELSE "failed"]
  /\ res' = [res EXCEPT ![j] = r]
  /\ owner' = None

-----------------------------------------------------------------------------
(* cmdMutex.Lock(). *)
Lock(j) ==
  /\ hpc[j] = "lock"
  /\ owner = None
  /\ owner' = j
  /\ hpc' = [hpc EXCEPT ![j] = "start"]
  /\ UNCHANGED <<wpos, cpc, inOpen, cin, cout, cerr, oweOut, oweErr, exitOf,
                 got, res>>

(* StdinPipe, StdoutPipe, StderrPipe and cmd.Start: the command runs with *)
(* three empty pipes, or one of the calls fails and the handler returns   *)
(* the error.                                                              *)
Start(j) ==
  /\ hpc[j] = "start"
  /\ \/ /\ hpc' = [hpc EXCEPT ![j] = "write"]
        /\ cpc' = "run"
        /\ inOpen' = TRUE
        /\ cin' = 0 /\ cout' = 0 /\ cerr' = 0
        /\ oweOut' = IF Cmd = "echo" THEN EchoOut ELSE 0
        /\ oweErr' = 0
        /\ UNCHANGED <<owner, res>>
     \/ /\ MayFail
        /\ Return(j, "error")
        /\ UNCHANGED <<cpc, inOpen, cin, cout, cerr, oweOut, oweErr>>
  /\ UNCHANGED <<wpos, exitOf, got>>

(* stdin.Write(data), one line per step, blocking while the pipe is      *)
(* full, then stdin.Close().  Once the command has exited the pipe has no *)
(* reader and the write fails (EPIPE): the handler closes the pipes and   *)
(* returns the error, without cmd.Wait.                                   *)
WriteLine(j) ==
  /\ hpc[j] = "write"
  /\ \/ /\ cpc # "exited"
        /\ cin < PipeCap
        /\ cin' = cin + 1
        /\ wpos' = [wpos EXCEPT ![j] = @ + 1]
        /\ inOpen' = (wpos[j] + 1 < Data[j])
        /\ hpc' = [hpc EXCEPT ![j] = IF wpos[j] + 1 = Data[j] THEN "readout"
                                                               ELSE "write"]
        /\ UNCHANGED <<owner, res>>
     \/ /\ cpc = "exited"
        /\ Return(j, "error")
        /\ UNCHANGED <<wpos, inOpen, cin>>
  /\ UNCHANGED <<cpc, cout, cerr, oweOut, oweErr, exitOf, got>>

(* Mutant: cmd.Wait is called before stdout is read. *)
ReadOutAfterExit(j) ==
  /\ hpc[j] = "readout"
  /\ cout > 0 /\ cpc = "exited"
  /\ cout' = cout - 1
  /\ got' = [got EXCEPT ![j] = @ + 1]
  /\ UNCHANGED <<owner, hpc, wpos, cpc, inOpen, cin, cerr, oweOut, oweErr,
                 exitOf, res>>

(* io.ReadAll(stdout): a line at a time, until EOF, which comes when the  *)
(* command has exited and the pipe is drained.                            *)
ReadOut(j) ==
  /\ hpc[j] = "readout"
  /\ cout > 0
  /\ cout' = cout - 1
  /\ got' = [got EXCEPT ![j] = @ + 1]
  /\ UNCHANGED <<owner, hpc, wpos, cpc, inOpen, cin, cerr, oweOut, oweErr,
                 exitOf, res>>

OutEOF(j) ==
  /\ hpc[j] = "readout"
  /\ cout = 0 /\ cpc = "exited"
  /\ hpc' = [hpc EXCEPT ![j] = "readerr"]
  /\ UNCHANGED <<owner, wpos, cpc, inOpen, cin, cout, cerr, oweOut, oweErr,
                 exitOf, got, res>>

(* io.ReadAll(stderr), likewise. *)
ReadErr(j) ==
  /\ hpc[j] = "readerr"
  /\ cerr > 0
  /\ cerr' = cerr - 1
  /\ UNCHANGED <<owner, hpc, wpos, cpc, inOpen, cin, cout, oweOut, oweErr,
                 exitOf, got, res>>

(* Mutant: cmd.Wait's error is ignored. *)
ErrEOFIgnoreStatus(j) ==
  /\ hpc[j] = "readerr"
  /\ cerr = 0 /\ cpc = "exited"
  /\ Return(j, "ok")
  /\ UNCHANGED <<wpos, cpc, inOpen, cin, cout, cerr, oweOut, oweErr, exitOf, got>>

(* stderr reaches EOF; cmd.Wait returns at once, the command having      *)
(* exited: a non-zero status is an error, otherwise the output is the     *)
(* result.                                                                 *)
ErrEOF(j) ==
  /\ hpc[j] = "readerr"
  /\ cerr = 0 /\ cpc = "exited"
  /\ Return(j, IF exitOf[j] = 0 THEN "ok" ELSE "error")
  /\ UNCHANGED <<wpos, cpc, inOpen, cin, cout, cerr, oweOut, oweErr, exitOf, got>>

-----------------------------------------------------------------------------
(* The command reads its next input line, once it has answered the last. *)
CRead ==
  /\ Cmd = "filter" /\ cpc = "run"
  /\ oweOut = 0 /\ cin > 0
  /\ cin' = cin - 1
  /\ oweOut' = 1
  /\ UNCHANGED <<owner, hpc, wpos, cpc, inOpen, cout, cerr, oweErr, exitOf,
                 got, res>>

(* The command writes a stdout line, blocking while the pipe is full. *)
COut ==
  /\ cpc = "run" /\ oweOut > 0
  /\ cout < PipeCap
  /\ cout' = cout + 1
  /\ oweOut' = oweOut - 1
  /\ UNCHANGED <<owner, hpc, wpos, cpc, inOpen, cin, cerr, oweErr, exitOf,
                 got, res>>

(* The command gives up: it stops reading and owes its diagnostics. *)
CFail ==
  /\ MayFail /\ cpc = "run"
  /\ cpc' = "failing"
  /\ oweErr' = ErrLines
  /\ oweOut' = 0
  /\ UNCHANGED <<owner, hpc, wpos, inOpen, cin, cout, cerr, exitOf, got, res>>

(* The failing command writes a stderr line. *)
CErr ==
  /\ cpc = "failing" /\ oweErr > 0
  /\ cerr < PipeCap
  /\ cerr' = cerr + 1
  /\ oweErr' = oweErr - 1
  /\ UNCHANGED <<owner, hpc, wpos, cpc, inOpen, cin, cout, oweOut, exitOf,
                 got, res>>

(* The command exits: 0 when its work is done (the filter at the end of  *)
(* its input), 1 after failing.  Its stdin has no reader any more.        *)
CExit ==
  /\ \/ /\ cpc = "run" /\ oweOut = 0
        /\ Cmd = "echo" \/ (cin = 0 /\ ~inOpen)
        /\ exitOf' = [exitOf EXCEPT ![owner] = 0]
     \/ /\ cpc = "failing" /\ oweErr = 0
        /\ exitOf' = [exitOf EXCEPT ![owner] = 1]
  /\ cpc' = "exited"
  /\ cin' = 0
  /\ UNCHANGED <<owner, hpc, wpos, inOpen, cout, cerr, oweOut, oweErr, got, res>>

EInit ==
  /\ owner = None
  /\ hpc = [j \in Jobs |-> "lock"]
  /\ wpos = [j \in Jobs |-> 0]
  /\ cpc = "none" /\ inOpen = FALSE
  /\ cin = 0 /\ cout = 0 /\ cerr = 0
  /\ oweOut = 0 /\ oweErr = 0
  /\ exitOf = [j \in Jobs |-> NoExit]
  /\ got = [j \in Jobs |-> 0]
  /\ res = [j \in Jobs |-> None]

EHandler(j) ==
  \/ Lock(j) \/ Start(j) \/ WriteLine(j)
  \/ ReadOut(j) \/ OutEOF(j) \/ ReadErr(j) \/ ErrEOF(j)
Command == CRead \/ COut \/ CErr \/ CExit

ENext == (\E j \in Jobs : EHandler(j)) \/ Command \/ CFail

(* Each handler goroutine and the command are scheduled fairly; nothing  *)
(* forces the command to fail.                                            *)
ESpec ==
  /\ EInit /\ [][ENext]_evars
  /\ \A j \in Jobs : WF_evars(EHandler(j))
  /\ WF_evars(Command)

-----------------------------------------------------------------------------
(* A job whose command exited with status 0 does not fail: the package's *)
(* test runs "echo hello" on "test data" and requires no error            *)
(* (TestWorkerSubprocess).  The handler writes stdin after cmd.Start      *)
(* whatever the command does meanwhile.                                   *)
ZeroExitIsSuccess ==
  \A j \in Jobs : hpc[j] = "failed" => exitOf[j] # 0

(* A job that succeeds returns its command's whole output, and only when *)
(* the command exited with status 0: stdout is read to EOF before Wait,   *)
(* and Wait's status decides.                                              *)
SuccessIsWholeOutput ==
  \A j \in Jobs : hpc[j] = "done" => got[j] = Expected(j) /\ exitOf[j] = 0

(* Every handler call returns, so cmdMutex is released: the handler      *)
(* writes all of stdin before reading, and reads stdout to EOF before     *)
(* stderr, which is safe only while the pipes absorb what the command     *)
(* writes meanwhile.                                                       *)
EofAllJobsReturn == <>(\A j \in Jobs : hpc[j] \in Finished)
=============================================================================
