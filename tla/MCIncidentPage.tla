--------------------------- MODULE MCIncidentPage ---------------------------
(* Instances of IncidentPage for TLC.                                      *)
EXTENDS IncidentPage

CONSTANTS a, b
=============================================================================
