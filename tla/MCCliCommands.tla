---------------------------- MODULE MCCliCommands ----------------------------
(***************************************************************************)
(* The CLI's job-running commands and the worker's packet stream, each   *)
(* on the inputs it handles correctly, checked in one run: the shell      *)
(* worker's job handler in two forms, the client command, and the framing *)
(* of the server's packets by `gearhulk worker`.                          *)
(*   "sync"    persistent mode, part_001, on records with an interior      *)
(*             whitespace-only line, pipes of 2 lines;                     *)
(*   "eof"     --eof mode (either file), a line filter that may fail, on   *)
(*             records of 3 and 1 lines with pipes of 1 line: the largest  *)
(*             record whose output the pipes absorb while the handler is   *)
(*             still writing;                                              *)
(*   "client"  gearhulk client, stdin of up to 4 bytes over {a, \n, \r, ;}  *)
(*             split by "\n" or by ";;", a Scanner buffer of 3 bytes and  *)
(*             reads of 1 or 2 bytes;                                      *)
(*   "codec"   PacketStream: 2-bit header bytes, a 16-bit int, up to 2     *)
(*             packets among JOB_ASSIGN, JOB_ASSIGN_UNIQ and NOOP, and up  *)
(*             to 2 WORK_* updates.                                        *)
(* The initial state picks the build; the other builds stay in their      *)
(* initial states, so the state space is the sum of the four.            *)
(***************************************************************************)
EXTENDS Integers, TLC

CONSTANTS j1, j2

VARIABLES
  build,
  sOwner, sHpc, sWpos, sStdin, sStdout, sAlive, sRpc, sRbuf, sReads, sOut, sRes,
  eOwner, eHpc, eWpos, eCpc, eInOpen, eCin, eCout, eCerr, eOweOut, eOweErr,
  eExitOf, eGot, eRes,
  cDelim, cInput, cUnread, cSbuf, cSeof, cCpc, cLine, cRecords, cWstate,
  cInbox, cChans, cOut,
  pProc, pSent, pWire, pBuf, pRpc, pGot, pUpdates

syncVars == <<sOwner, sHpc, sWpos, sStdin, sStdout, sAlive, sRpc, sRbuf, sReads, sOut, sRes>>
eofVars == <<eOwner, eHpc, eWpos, eCpc, eInOpen, eCin, eCout, eCerr, eOweOut,
             eOweErr, eExitOf, eGot, eRes>>
clientVars == <<cDelim, cInput, cUnread, cSbuf, cSeof, cCpc, cLine, cRecords,
                cWstate, cInbox, cChans, cOut>>
codecVars == <<pProc, pSent, pWire, pBuf, pRpc, pGot, pUpdates>>
shellVars == <<build, syncVars, eofVars, clientVars, codecVars>>

BuildJobs == {j1, j2}

(* part_001 counts an interior whitespace-only line and the filter        *)
(* answers it.                                                             *)
SyncData == (j1 :> <<"text", "blank", "text">>) @@ (j2 :> <<"text">>)
(* --eof mode: line counts. *)
EofData == (j1 :> 3) @@ (j2 :> 1)

S == INSTANCE PersistentSubprocess
       WITH Jobs <- BuildJobs, Data <- SyncData, PipeCap <- 2,
            Variant <- "sync", MayExit <- TRUE,
            owner <- sOwner, hpc <- sHpc, wpos <- sWpos, stdin <- sStdin,
            stdout <- sStdout, alive <- sAlive, rpc <- sRpc, rbuf <- sRbuf,
            reads <- sReads, out <- sOut, res <- sRes

E == INSTANCE EofSubprocess
       WITH Jobs <- BuildJobs, Data <- EofData, PipeCap <- 1,
            Cmd <- "filter", EchoOut <- 0, ErrLines <- 1, MayFail <- TRUE,
            owner <- eOwner, hpc <- eHpc, wpos <- eWpos, cpc <- eCpc,
            inOpen <- eInOpen, cin <- eCin, cout <- eCout, cerr <- eCerr,
            oweOut <- eOweOut, oweErr <- eOweErr, exitOf <- eExitOf,
            got <- eGot, res <- eRes

(* --delimiter "\n" (bufio.ScanLines) and --delimiter ";;", whose two     *)
(* bytes can overlap a record's own ';'.                                  *)
C == INSTANCE ClientCommand
       WITH Delims <- {<<"\n">>, <<";", ";">>}, Alphabet <- {"a", "\n", "\r", ";"},
            MaxInput <- 4, MaxTok <- 3, MaxChunk <- 2,
            delim <- cDelim, input <- cInput, unread <- cUnread, sbuf <- cSbuf,
            seof <- cSeof, cpc <- cCpc, line <- cLine, records <- cRecords,
            wstate <- cWstate, inbox <- cInbox, chans <- cChans, out <- cOut

(* Gearman packet type codes. *)
MCPT == [Noop |-> 6, NoJob |-> 10, JobAssign |-> 11, WorkStatus |-> 12,
         WorkData |-> 28, WorkWarning |-> 29, JobAssignUniq |-> 31]

(* Payload bytes: 0 is NUL, 1 and 2 stand for any other byte. *)
MCPackets ==
  { [type |-> MCPT.JobAssign, fields |-> <<<<1>>, <<2>>, <<1, 0>>>>],
    [type |-> MCPT.JobAssignUniq, fields |-> <<<<2>>, <<1>>, <<2, 2>>, <<>>>>],
    [type |-> MCPT.Noop, fields |-> <<>>] }

P == INSTANCE PacketStream
       WITH ByteBits <- 2, IntBits <- 16, PT <- MCPT,
            KnownPT <- {MCPT[t] : t \in DOMAIN MCPT}, Packets <- MCPackets,
            Magic <- <<0, 2, 1, 3>>, MaxSent <- 2, UpdateData <- {<<0, 2>>},
            StatusNumbers <- {-1, 10}, MaxUpdates <- 2,
            proc <- pProc, sent <- pSent, wire <- pWire, buf <- pBuf,
            rpc <- pRpc, got <- pGot, updates <- pUpdates

Init ==
  /\ build \in {"sync", "eof", "client", "codec"}
  /\ S!PInit /\ E!EInit /\ C!CInit /\ P!Init
  \* outside its build the client is one idle state, not one per input
  /\ build # "client" => cInput = <<>> /\ cDelim = <<"\n">>

(* A step of the chosen build. *)
InSync(A) == build = "sync" /\ A /\ UNCHANGED <<build, eofVars, clientVars, codecVars>>
InEof(A) == build = "eof" /\ A /\ UNCHANGED <<build, syncVars, clientVars, codecVars>>
InClient(A) == build = "client" /\ A /\ UNCHANGED <<build, syncVars, eofVars, codecVars>>
InCodec(A) == build = "codec" /\ A /\ UNCHANGED <<build, syncVars, eofVars, clientVars>>

Next == InSync(S!PNext) \/ InEof(E!ENext) \/ InClient(C!CNext) \/ InCodec(P!Next)

(* The fairness of PSpec, ESpec, CSpec and PacketStream's Spec, for each *)
(* build.                                                                  *)
Spec ==
  /\ Init /\ [][Next]_shellVars
  /\ \A j \in BuildJobs :
       /\ WF_shellVars(InSync(S!Handler(j))) /\ WF_shellVars(InSync(S!Reader(j)))
       /\ WF_shellVars(InEof(E!EHandler(j)))
  /\ WF_shellVars(InSync(S!Filter))
  /\ WF_shellVars(InEof(E!Command))
  /\ WF_shellVars(InClient(C!Client)) /\ WF_shellVars(InClient(C!Dispatch))
  /\ []<>~(build = "codec" /\ P!ReaderEnabled)
     \/ []<><<InCodec(P!Reader)>>_shellVars

-----------------------------------------------------------------------------
(* The synchronous build's state has its type, pipes within capacity.     *)
SyncTypeOK == build = "sync" => S!PTypeOK

(* In the synchronous build each job that returns success returns the     *)
(* command's output for its own counted lines (PersistentSubprocess's      *)
(* ResultIsOwnOutput).                                                     *)
SyncResultIsOwnOutput == build = "sync" => S!ResultIsOwnOutput

(* In the synchronous build every handler call returns, so cmdMutex and   *)
(* the exec goroutines are released, even when the subprocess exits.      *)
SyncAllJobsReturn == build = "sync" => S!AllJobsReturn

(* In --eof mode a job succeeds only with its command's whole output and  *)
(* exit status 0 (EofSubprocess's SuccessIsWholeOutput).                   *)
EofSuccessIsWholeOutput == build = "eof" => E!SuccessIsWholeOutput

(* In --eof mode every handler call returns, whether the command answers *)
(* every line or fails part-way, although the handler writes all input   *)
(* before it reads and drains stdout before stderr.                       *)
EofAllJobsReturnFits == build = "eof" => E!EofAllJobsReturn

(* The client's state has its type; the Scanner never holds more than its *)
(* largest buffer.                                                         *)
ClientTypeOK == build = "client" => C!ClientTypeOK

(* The client submits exactly the non-empty records of its input, split   *)
(* at the delimiter, and fails with a read error exactly at the first     *)
(* record that does not fit the Scanner (ClientCommand's                  *)
(* ScanMatchesReference).                                                  *)
ClientScanMatchesReference == build = "client" => C!ScanMatchesReference

(* The client prints for each record its own job's final answer or a      *)
(* timeout, never a late answer of an abandoned job (ResultIsOwnJob).     *)
ClientResultIsOwnJob == build = "client" => C!ResultIsOwnJob

(* The client returns whatever the server and workers do.                 *)
ClientReturnsAlways == build = "client" => C!ClientReturns

(* The worker's packet stream keeps every byte at a frame boundary        *)
(* (PacketStream's BytesAtFrameBoundary).                                 *)
CodecBytesAtFrameBoundary == build = "codec" => P!BytesAtFrameBoundary

(* Every WORK_* payload a job sends reads, on the server's side, as the   *)
(* handle and data the job passed (PacketStream's UpdatesRoundTrip).      *)
CodecUpdatesRoundTrip == build = "codec" => P!UpdatesRoundTrip

(* decodeInPack never panics on a length field a peer could send          *)
(* (PacketStream's DecodeNeverPanics).                                    *)
CodecDecodeNeverPanics == build = "codec" => P!DecodeNeverPanics

(* The worker's side of the stream implements the ordered, lossless       *)
(* channel of Job views (PacketStream's ImplementsChannel).  In the other *)
(* builds the stream stays empty, which the channel allows.               *)
CodecImplementsChannel == P!ImplementsChannel
=============================================================================
