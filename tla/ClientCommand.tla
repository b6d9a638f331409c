--------------------------- MODULE ClientCommand ---------------------------
(***************************************************************************)
(* `gearhulk client <fn>` (runClient, src/unnamed/part_002).               *)
(*                                                                         *)
(* The command reads stdin with a bufio.Scanner, split by ScanLines for    *)
(* the default delimiter "\n" or by the custom split function of lines     *)
(* 101-116 otherwise, skips empty tokens, and for each record calls c.Do   *)
(* with a callback that sends the job's WORK_COMPLETE, WORK_FAIL or        *)
(* WORK_EXCEPTION into a buffered channel made for that record.  It then   *)
(* waits on that channel or on time.After(timeout), prints, and scans on.  *)
(*                                                                         *)
(* The client library calls the callback from its read goroutine, once    *)
(* per WORK_* frame (spec.md 4.I); that goroutine is Dispatch here, and    *)
(* the server and workers answering jobs are Answer.  Bytes are one-char   *)
(* strings; MaxTok is bufio.MaxScanTokenSize scaled down.                  *)
(***************************************************************************)
EXTENDS Integers, SequencesExt

CONSTANTS
    Delims,     \* values of --delimiter, as byte sequences
    Alphabet,   \* bytes stdin may hold
    MaxInput,   \* longest stdin
    MaxTok,     \* the Scanner's largest buffer (64 KiB in Go)
    MaxChunk    \* most bytes one read(2) on stdin returns

ASSUME MaxTok >= 1 /\ MaxChunk >= 1

NL == "\n"
CR == "\r"
Terminal == {"complete", "fail", "exception"}
Frames == {"data"} \cup Terminal
Returned == {"ok", "submitErr", "scanErr"}
NoToken == [adv |-> 0, tok |-> "nil"]
\* What "Job timeout after ..." stands for in out.
TimedOut == [job |-> 0, kind |-> "timeout"]

VARIABLES
    delim,    \* the --delimiter flag
    input,    \* what stdin holds in all
    unread,   \* bytes of stdin not read yet
    sbuf,     \* bytes the Scanner holds and has not consumed
    seof,     \* a read on stdin has returned io.EOF
    cpc,      \* runClient: "scan", "submit", "wait", or returned with a value
    line,     \* scanner.Text() of the current record
    records,  \* the records passed to c.Do, in order
    wstate,   \* per job: "none", "running", "streamed", "answered"
    inbox,    \* WORK_* frames in flight to the client's read goroutine
    chans,    \* per resultChan: its buffered values (capacity 1)
    out       \* per record: the frame printed for it, or TimedOut

cvars == <<delim, input, unread, sbuf, seof, cpc, line, records, wstate,
           inbox, chans, out>>

JobIds == 1..MaxInput

\* bufio.ScanLines' dropCR.
DropCR(s) == IF s # <<>> /\ Last(s) = CR THEN Front(s) ELSE s

\* bufio.ScanLines: a token up to the first newline, CR dropped; at EOF the
\* rest.
ScanLines(data, atEOF) ==
    LET I == {i \in 1..Len(data) : data[i] = NL}
    IN  IF atEOF /\ data = <<>> THEN NoToken
        ELSE IF I # {} THEN [adv |-> Min(I), tok |-> DropCR(SubSeq(data, 1, Min(I) - 1))]
        ELSE IF atEOF THEN [adv |-> Len(data), tok |-> DropCR(data)]
        ELSE NoToken

DelimAtShort(data, d) ==
    LET J == {j \in 0..(Len(data) - Len(d) - 1) : SubSeq(data, j + 1, j + Len(d)) = d}
    IN  IF J = {} THEN -1 ELSE Min(J)

\* The first j of the loop `for j := 0; j <= len(data)-i; j++` whose
\* data[j:j+i] is the delimiter, or -1.
DelimAt(data, d) ==
    LET J == {j \in 0..(Len(data) - Len(d)) : SubSeq(data, j + 1, j + Len(d)) = d}
    IN  IF J = {} THEN -1 ELSE Min(J)

CustomSplitNoEOFGuard(data, atEOF) ==
    LET j == IF Len(delim) > 0 THEN DelimAt(data, delim) ELSE -1
    IN  IF j >= 0 THEN [adv |-> j + Len(delim), tok |-> SubSeq(data, 1, j)]
        ELSE IF atEOF THEN [adv |-> Len(data), tok |-> data]
        ELSE NoToken

\* The split function runClient installs for a delimiter other than "\n".
CustomSplit(data, atEOF) ==
    LET j == IF Len(delim) > 0 THEN DelimAt(data, delim) ELSE -1
    IN  IF atEOF /\ data = <<>> THEN NoToken
        ELSE IF j >= 0 THEN [adv |-> j + Len(delim), tok |-> SubSeq(data, 1, j)]
        ELSE IF atEOF THEN [adv |-> Len(data), tok |-> data]
        ELSE NoToken

Split(data, atEOF) ==
    IF delim = <<NL>> THEN ScanLines(data, atEOF) ELSE CustomSplit(data, atEOF)

ResultChanShared(k) == 1

\* resultChan := make(chan jobResult, 1), one per record.
ResultChan(k) == k

-----------------------------------------------------------------------------
(* scanner.Scan(): one step of bufio.Scanner's loop.  The split function  *)
(* runs on the held bytes; a token ends Scan, and runClient skips an       *)
(* empty one (lines 121-124).                                              *)

Tok == Split(sbuf, seof)

ScanToken ==
    /\ cpc = "scan"
    /\ sbuf # <<>> \/ seof
    /\ Tok.tok # "nil"
    /\ sbuf' = SubSeq(sbuf, Tok.adv + 1, Len(sbuf))
    /\ IF Tok.tok = <<>>
          THEN UNCHANGED <<cpc, line>>
          ELSE cpc' = "submit" /\ line' = Tok.tok
    /\ UNCHANGED <<delim, input, unread, seof, records, wstate, inbox, chans, out>>

\* No token and stdin at EOF: Scan returns false and scanner.Err() is nil.
ScanEnd ==
    /\ cpc = "scan"
    /\ seof
    /\ Tok.tok = "nil"
    /\ cpc' = "ok"
    /\ UNCHANGED <<delim, input, unread, sbuf, seof, line, records, wstate, inbox, chans, out>>

\* No token and the buffer is at its largest: bufio.ErrTooLong, and
\* runClient returns "error reading from stdin".
ScanTooLong ==
    /\ cpc = "scan"
    /\ ~seof
    /\ Tok.tok = "nil"
    /\ Len(sbuf) >= MaxTok
    /\ cpc' = "scanErr"
    /\ UNCHANGED <<delim, input, unread, sbuf, seof, line, records, wstate, inbox, chans, out>>

ScanReadAnySize(k) ==
    /\ cpc = "scan"
    /\ ~seof
    /\ Tok.tok = "nil"
    /\ Len(sbuf) < MaxTok
    /\ k <= Len(unread)
    /\ sbuf' = sbuf \o SubSeq(unread, 1, k)
    /\ unread' = SubSeq(unread, k + 1, Len(unread))
    /\ UNCHANGED <<delim, input, seof, cpc, line, records, wstate, inbox, chans, out>>

\* No token: read into the free part of the buffer, k bytes at a time ...
ScanRead(k) ==
    /\ cpc = "scan"
    /\ ~seof
    /\ Tok.tok = "nil"
    /\ Len(sbuf) < MaxTok
    /\ k <= Len(unread) /\ k <= MaxTok - Len(sbuf)
    /\ sbuf' = sbuf \o SubSeq(unread, 1, k)
    /\ unread' = SubSeq(unread, k + 1, Len(unread))
    /\ UNCHANGED <<delim, input, seof, cpc, line, records, wstate, inbox, chans, out>>

\* ... or learn that stdin is at its end.
ScanEOF ==
    /\ cpc = "scan"
    /\ ~seof
    /\ Tok.tok = "nil"
    /\ Len(sbuf) < MaxTok
    /\ unread = <<>>
    /\ seof' = TRUE
    /\ UNCHANGED <<delim, input, unread, sbuf, cpc, line, records, wstate, inbox, chans, out>>

(* c.Do: writes SUBMIT_JOB and blocks until JOB_CREATED; a transport      *)
(* error or ResponseTimeout makes runClient return the error.             *)
Submit ==
    LET k == Len(records) + 1
    IN  /\ cpc = "submit"
        /\ records' = Append(records, line)
        /\ \/ /\ wstate' = [wstate EXCEPT ![k] = "running"]
              /\ cpc' = "wait"
           \/ /\ cpc' = "submitErr"
              /\ UNCHANGED wstate
        /\ UNCHANGED <<delim, input, unread, sbuf, seof, line, inbox, chans, out>>

(* The server forwards a frame of job k: WORK_DATA while it runs, then    *)
(* one of WORK_COMPLETE, WORK_FAIL or WORK_EXCEPTION, whenever the worker *)
(* gets to it, the client's timeout notwithstanding (spec.md 5).          *)
Answer(k, f) ==
    /\ cpc \notin Returned
    /\ \/ f = "data" /\ wstate[k] = "running" /\ wstate' = [wstate EXCEPT ![k] = "streamed"]
       \/ f \in Terminal /\ wstate[k] \in {"running", "streamed"}
          /\ wstate' = [wstate EXCEPT ![k] = "answered"]
    /\ inbox' = Append(inbox, [job |-> k, kind |-> f])
    /\ UNCHANGED <<delim, input, unread, sbuf, seof, cpc, line, records, chans, out>>

(* The client's read goroutine calls the job's responseHandler: a         *)
(* terminal frame is sent into the job's resultChan, blocking while it is *)
(* full; other frames fall through the switch.                            *)
Dispatch ==
    LET fr == Head(inbox)
        c  == ResultChan(fr.job)
    IN  /\ cpc \notin Returned
        /\ inbox # <<>>
        /\ IF fr.kind \in Terminal
              THEN /\ Len(chans[c]) < 1
                   /\ chans' = [chans EXCEPT ![c] = Append(@, fr)]
              ELSE UNCHANGED chans
        /\ inbox' = Tail(inbox)
        /\ UNCHANGED <<delim, input, unread, sbuf, seof, cpc, line, records, wstate, out>>

(* select: the job's result is printed to stdout or stderr ...            *)
Receive ==
    LET c == ResultChan(Len(records))
    IN  /\ cpc = "wait"
        /\ chans[c] # <<>>
        /\ out' = Append(out, Head(chans[c]))
        /\ chans' = [chans EXCEPT ![c] = Tail(@)]
        /\ cpc' = "scan"
        /\ UNCHANGED <<delim, input, unread, sbuf, seof, line, records, wstate, inbox>>

(* ... or time.After(timeout) fires first and "Job timeout" is printed.   *)
Timeout ==
    /\ cpc = "wait"
    /\ out' = Append(out, TimedOut)
    /\ cpc' = "scan"
    /\ UNCHANGED <<delim, input, unread, sbuf, seof, line, records, wstate, inbox, chans>>

-----------------------------------------------------------------------------
CInit ==
    /\ delim \in Delims
    /\ input \in BoundedSeq(Alphabet, MaxInput)
    /\ unread = input
    /\ sbuf = <<>>
    /\ seof = FALSE
    /\ cpc = "scan"
    /\ line = <<>>
    /\ records = <<>>
    /\ wstate = [k \in JobIds |-> "none"]
    /\ inbox = <<>>
    /\ chans = [c \in JobIds |-> <<>>]
    /\ out = <<>>

\* runClient's goroutine.
Client ==
    \/ ScanToken \/ ScanEnd \/ ScanTooLong \/ ScanEOF
    \/ \E k \in 1..MaxChunk : ScanRead(k)
    \/ Submit \/ Receive \/ Timeout

CNext ==
    \/ Client
    \/ Dispatch
    \/ \E k \in JobIds, f \in Frames : Answer(k, f)

\* Go runs both goroutines; the server and worker owe the client nothing.
CSpec == CInit /\ [][CNext]_cvars /\ WF_cvars(Client) /\ WF_cvars(Dispatch)

-----------------------------------------------------------------------------
(* Reference: stdin cut at each delimiter, read one byte at a time the way *)
(* strings.Split reads it: each piece with whether a delimiter ended it.   *)
RECURSIVE Pieces(_, _)
Pieces(acc, s) ==
    IF s = <<>>
       THEN IF acc = <<>> THEN <<>> ELSE <<[rec |-> acc, term |-> FALSE]>>
    ELSE IF IsPrefix(delim, s)
       THEN <<[rec |-> acc, term |-> TRUE]>> \o Pieces(<<>>, SubSeq(s, Len(delim) + 1, Len(s)))
    ELSE Pieces(Append(acc, Head(s)), Tail(s))

\* A piece the Scanner cannot hold: with its delimiter it exceeds the
\* largest buffer, or, unterminated, it fills the buffer before EOF is seen.
Overlong(p) ==
    IF p.term THEN Len(p.rec) + Len(delim) > MaxTok ELSE Len(p.rec) >= MaxTok

RefRecord(p) == IF delim = <<NL>> THEN DropCR(p.rec) ELSE p.rec

RefPieces == Pieces(<<>>, input)
RefTooLong == \E i \in DOMAIN RefPieces : Overlong(RefPieces[i])
RefStop ==
    IF RefTooLong THEN Min({i \in DOMAIN RefPieces : Overlong(RefPieces[i])})
    ELSE Len(RefPieces) + 1
\* The non-empty records before the first piece the Scanner cannot hold.
RefRecords ==
    SelectSeq([i \in 1..(RefStop - 1) |-> RefRecord(RefPieces[i])],
              LAMBDA r : r # <<>>)

-----------------------------------------------------------------------------
ClientTypeOK ==
    /\ cpc \in {"scan", "submit", "wait"} \cup Returned
    /\ Len(sbuf) <= MaxTok
    /\ wstate \in [JobIds -> {"none", "running", "streamed", "answered"}]
    /\ \A c \in JobIds : Len(chans[c]) <= 1
    /\ Len(out) <= Len(records)

(* The records runClient submits are the input split at the delimiter,     *)
(* empty ones skipped, in order; it returns nil only after submitting all  *)
(* of them, and "error reading from stdin" exactly when a record does not  *)
(* fit the Scanner's buffer, after submitting the records before it.       *)
ScanMatchesReference ==
    /\ IsPrefix(records, RefRecords)
    /\ cpc = "ok" => records = RefRecords /\ ~RefTooLong
    /\ cpc = "scanErr" => records = RefRecords /\ RefTooLong

(* What runClient prints for the i-th record is "Job timeout" or the       *)
(* WORK_COMPLETE, WORK_FAIL or WORK_EXCEPTION of the i-th job: never a     *)
(* late answer of a job it gave up on, and never a WORK_DATA frame.        *)
ResultIsOwnJob ==
    \A i \in 1..Len(out) :
        out[i] # TimedOut => out[i].job = i /\ out[i].kind \in Terminal

(* runClient returns, whatever the server and workers do: every wait on a *)
(* job ends by its answer or by time.After.                               *)
ClientReturns == <>(cpc \in Returned)
=============================================================================
