------------------------------ MODULE MCServer ------------------------------
(* Instances of Server for TLC.                                            *)
EXTENDS Server, TLC

CONSTANTS c1, sigterm, sigint

OnePayload == [Clients -> {"batch", "malformed"}]
Retried == [Clients -> {"single"}]
=============================================================================
