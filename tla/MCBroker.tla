------------------------------ MODULE MCBroker ------------------------------
EXTENDS Broker, TLC

CONSTANTS w1, w2, c1, c2, fa, fb, u1, none

MCWorkers == {w1, w2}
MCClients1 == {c1}
MCFns == {fa, fb}
MCWorkerFns == (w1 :> {fa}) @@ (w2 :> {fa, fb})
MCUids == {u1}
MCOutcomes == {"WORK_COMPLETE"}
(* Clients submit at JobLow and JobHigh. *)
MCSubmitPrios == {LOW, HIGH}
=============================================================================
