---------------------------- MODULE PacketChannel ----------------------------
(***************************************************************************)
(* What a connection from the job server to a worker promises (spec.md    *)
(* 4.A, 4.C): the packets the server writes reach the worker whole, in    *)
(* the order written, each once, and every one written eventually arrives.*)
(* The detailed model is PacketStream, which writes frames into a TCP     *)
(* byte stream and decodes them with decodeInPack.                        *)
(***************************************************************************)
EXTENDS Sequences, SequencesExt

CONSTANT Msgs     \* the messages the server may write

VARIABLES
  written,        \* the messages the server has written, in order
  delivered       \* the messages the worker has received, in order

chanVars == <<written, delivered>>

ChanInit == written = <<>> /\ delivered = <<>>

Write(m) ==
  /\ written' = Append(written, m)
  /\ UNCHANGED delivered

(* A message is written and not yet received. *)
Pending == Len(delivered) < Len(written)

(* The next message written and not yet received arrives. *)
Deliver ==
  /\ Pending
  /\ delivered' = Append(delivered, written[Len(delivered) + 1])
  /\ UNCHANGED written

ChanNext == (\E m \in Msgs : Write(m)) \/ Deliver

(* Weak fairness of Deliver, WF_chanVars(Deliver), written out: Deliver  *)
(* is enabled exactly when a message is pending.                          *)
DeliverFair == []<>~Pending \/ []<><<Deliver>>_chanVars

ChanSpec == ChanInit /\ [][ChanNext]_chanVars /\ DeliverFair

=============================================================================
