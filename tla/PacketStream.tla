----------------------------- MODULE PacketStream -----------------------------
(***************************************************************************)
(* A gearhulk worker process and the byte stream from its job server.     *)
(*                                                                         *)
(*  - The process starts through the root command (src/cmd/root.go):      *)
(*    Execute parses the flags, runs initConfig, then the worker command, *)
(*    which connects.                                                      *)
(*  - The server writes whole packets (spec.md 4.A: writers never emit    *)
(*    partial packets); TCP hands them to the reader in chunks of any     *)
(*    size.                                                                *)
(*  - The reader appends each chunk to the bytes it kept and calls        *)
(*    decodeInPack until it fails; on an error it keeps the bytes and     *)
(*    reads more (spec.md 4.A: on partial input the caller feeds more).   *)
(*  - A job the worker was assigned sends WORK_DATA, WORK_WARNING and      *)
(*    WORK_STATUS payloads back with SendData, SendWarning, UpdateStatus.  *)
(***************************************************************************)
EXTENDS InPackCodec, FiniteSets

CONSTANTS
  Packets,       \* the packets the server may write: [type, fields]
  Magic,         \* the 4 magic bytes of a response
  MaxSent,       \* bound on the packets the server writes
  UpdateData,    \* data a job may pass to SendData or SendWarning
  StatusNumbers, \* numerators and denominators a job may pass to UpdateStatus
  MaxUpdates     \* bound on the payloads jobs send back

VARIABLES
  proc,     \* the worker process: "start", "running" or "exited"
  sent,     \* the packets the server has written, in order
  wire,     \* bytes written by the server and not yet read
  buf,      \* bytes read and not yet consumed by decodeInPack
  rpc,      \* the reader: "read" (waits for bytes) or "decode"
  got,      \* the inPacks decoded, in order
  updates   \* the payloads jobs sent back: [type, body, meant]

vars == <<proc, sent, wire, buf, rpc, got, updates>>

-----------------------------------------------------------------------------
(* The server's side, from spec.md 3: a packet is the magic, the type and *)
(* the payload length (big-endian), then the fields joined by NUL.         *)
PutUint32(n) == [i \in 1..4 |-> (n \div 2^(ByteBits * (4 - i))) % 2^ByteBits]
Join(fs) == FlattenSeq([i \in DOMAIN fs |->
                          IF i = 1 THEN fs[i] ELSE <<NUL>> \o fs[i]])
Encode(p) == Magic \o PutUint32(p.type) \o PutUint32(Len(Join(p.fields)))
               \o Join(p.fields)

(* What a packet says to the worker (spec.md 4.A: JOB_ASSIGN carries      *)
(* handle, fn, data; JOB_ASSIGN_UNIQ handle, fn, uniqueId, data).          *)
Meaning(p) ==
  CASE p.type = PT.JobAssign ->
         [type |-> p.type, handle |-> p.fields[1], fn |-> p.fields[2],
          uid |-> <<>>, data |-> p.fields[3]]
    [] p.type = PT.JobAssignUniq ->
         [type |-> p.type, handle |-> p.fields[1], fn |-> p.fields[2],
          uid |-> p.fields[3], data |-> p.fields[4]]
    [] OTHER ->
         [type |-> p.type, handle |-> <<>>, fn |-> <<>>, uid |-> <<>>,
          data |-> Join(p.fields)]

(* How the server reads a payload a job sent back: handle and data for    *)
(* WORK_DATA and WORK_WARNING, handle and two decimal numbers for          *)
(* WORK_STATUS, split on NUL.                                              *)
Atoi(s) ==
  LET digits(t) == FoldLeft(LAMBDA a, c : 10 * a + c - 48, 0, t) IN
  IF s # <<>> /\ s[1] = 45 THEN -digits(Tail(s)) ELSE digits(s)
ServerParse(u) ==
  IF u.type = PT.WorkStatus
  THEN LET s == SplitN(u.body, NUL, 3) IN
       IF Len(s) = 3 THEN [handle |-> s[1], num |-> Atoi(s[2]), den |-> Atoi(s[3])]
                     ELSE "malformed"
  ELSE LET s == SplitN(u.body, NUL, 2) IN
       IF Len(s) = 2 THEN [handle |-> s[1], data |-> s[2]] ELSE "malformed"

-----------------------------------------------------------------------------
(* rootCmd.Execute: cobra parses the flags (an error returns from Execute, *)
(* which exits 1), then runs initConfig: with --config viper uses that    *)
(* file, otherwise os.UserHomeDir must succeed or cobra.CheckErr exits 1.  *)
(* Whether viper then reads a config file changes nothing but a message.  *)
(* Without the worker subcommand rootCmd's Run prints the help and the    *)
(* process ends.                                                          *)
Execute ==
  /\ proc = "start"
  /\ \E flagsOK, cfgGiven, homeKnown, worker \in BOOLEAN :
       \/ /\ flagsOK /\ (cfgGiven \/ homeKnown) /\ worker
          /\ proc' = "running"
       \/ /\ ~flagsOK \/ ~(cfgGiven \/ homeKnown) \/ ~worker
          /\ proc' = "exited"
  /\ UNCHANGED <<sent, wire, buf, rpc, got, updates>>

(* The server writes a packet to the connected worker. *)
ServerWrite(p) ==
  /\ proc = "running"
  /\ Len(sent) < MaxSent
  /\ sent' = Append(sent, p)
  /\ wire' = wire \o Encode(p)
  /\ UNCHANGED <<proc, buf, rpc, got, updates>>

(* A read returns the next k bytes of the stream. *)
Read(k) ==
  /\ rpc = "read"
  /\ wire' = SubSeq(wire, k + 1, Len(wire))
  /\ buf' = buf \o SubSeq(wire, 1, k)
  /\ rpc' = "decode"
  /\ UNCHANGED <<proc, sent, got, updates>>

(* decodeInPack succeeds: the inPack goes to the worker and l bytes are   *)
(* consumed; the reader decodes again while bytes are left.                *)
DecodeOk ==
  LET r == DecodeInPack(buf) IN
  /\ rpc = "decode"
  /\ r.outcome = "ok"
  /\ got' = Append(got, r.pack)
  /\ buf' = SubSeq(buf, r.l + 1, Len(buf))
  /\ rpc' = IF r.l = Len(buf) THEN "read" ELSE "decode"
  /\ UNCHANGED <<proc, sent, wire, updates>>

(* decodeInPack fails: the bytes are kept for the next read. *)
DecodeFail ==
  /\ rpc = "decode"
  /\ DecodeInPack(buf).outcome \in {"invalid", "notEnough", "badType"}
  /\ rpc' = "read"
  /\ UNCHANGED <<proc, sent, wire, buf, got, updates>>

(* The jobs the worker was assigned. *)
Assigned == {i \in DOMAIN got : got[i].dataType \in {PT.JobAssign, PT.JobAssignUniq}}

(* A job calls SendData (t = WORK_DATA) or SendWarning (WORK_WARNING). *)
SendData(i, d, t) ==
  /\ Len(updates) < MaxUpdates
  /\ updates' = Append(updates,
                  [type |-> t, body |-> WorkPayload(got[i].handle, d),
                   meant |-> [handle |-> got[i].handle, data |-> d]])
  /\ UNCHANGED <<proc, sent, wire, buf, rpc, got>>

(* A job calls UpdateStatus(n, d). *)
UpdateStatus(i, n, d) ==
  /\ Len(updates) < MaxUpdates
  /\ updates' = Append(updates,
                  [type |-> PT.WorkStatus, body |-> StatusPayload(got[i].handle, n, d),
                   meant |-> [handle |-> got[i].handle, num |-> n, den |-> d]])
  /\ UNCHANGED <<proc, sent, wire, buf, rpc, got>>

Init ==
  /\ proc = "start"
  /\ sent = <<>> /\ wire = <<>> /\ buf = <<>>
  /\ rpc = "read"
  /\ got = <<>> /\ updates = <<>>

Reader == (\E k \in 1..Len(wire) : Read(k)) \/ DecodeOk \/ DecodeFail

Job ==
  \E i \in Assigned :
    \/ \E d \in UpdateData, t \in {PT.WorkData, PT.WorkWarning} : SendData(i, d, t)
    \/ \E n, d \in StatusNumbers : UpdateStatus(i, n, d)

Next ==
  \/ Execute
  \/ \E p \in Packets : ServerWrite(p)
  \/ Reader
  \/ Job

(* The reader can step: bytes wait to be read, or decodeInPack returns   *)
(* (ok or an error) on the kept bytes.  Every such step changes vars, so  *)
(* this is ENABLED <<Reader>>_vars.                                        *)
ReaderEnabled ==
  \/ rpc = "read" /\ wire # <<>>
  \/ rpc = "decode" /\ DecodeInPack(buf).outcome # "panic"

(* The reader goroutine loops for as long as the connection is open:     *)
(* WF_vars(Reader), written out with ReaderEnabled.                        *)
Spec ==
  /\ Init /\ [][Next]_vars
  /\ []<>~ReaderEnabled \/ []<><<Reader>>_vars

-----------------------------------------------------------------------------
(* Framing never loses or shifts a byte: what is still to be decoded, the *)
(* reader's kept bytes followed by the unread stream, is exactly the      *)
(* encoding of the packets written and not yet decoded, whatever the      *)
(* chunks TCP cut and however often decodeInPack failed on a partial one.  *)
BytesAtFrameBoundary ==
  buf \o wire = FlattenSeq([i \in 1 .. Len(sent) - Len(got) |->
                              Encode(sent[Len(got) + i])])

(* Every payload a job sends back reads, on the server's side, as the     *)
(* handle of the job and the data or numbers the job passed: the exact-   *)
(* size buffers and copy offsets of SendData, SendWarning and             *)
(* UpdateStatus leave each NUL separator in place.                         *)
UpdatesRoundTrip ==
  \A i \in DOMAIN updates : ServerParse(updates[i]) = updates[i].meant

(* The length fields on which decodeInPack slices out of range and      *)
(* panics, over every field value, with an empty and a one-byte payload.  *)
PanickingLengths ==
  {n \in 0 .. 2^(4 * ByteBits) - 1 :
     \E body \in {<<>>, <<1>>} :
       DecodeInPack(Magic \o PutUint32(PT.JobAssign) \o PutUint32(n) \o body).outcome
         = "panic"}

(* Whenever the reader decodes, no length field a peer could have sent    *)
(* makes decodeInPack panic: int(length) + 12 does not wrap below 12 on   *)
(* this build, so a length too large for the buffer is "Not enough data", *)
(* not a slice out of range that kills the worker process.                *)
DecodeNeverPanics == rpc = "decode" => PanickingLengths = {}

(* The worker's side implements the channel: the Job view (Handle, Fn,   *)
(* UniqueId, Data) of the inPacks decoded is the meaning of the packets   *)
(* written, in order, and every packet written is eventually decoded.     *)
Channel == INSTANCE PacketChannel
             WITH Msgs <- {Meaning(p) : p \in Packets},
                  written <- [i \in DOMAIN sent |-> Meaning(sent[i])],
                  delivered <- [i \in DOMAIN got |-> JobView(got[i])]
ImplementsChannel == Channel!ChanSpec
=============================================================================
