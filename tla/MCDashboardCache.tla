-------------------------- MODULE MCDashboardCache --------------------------
(* Instances of DashboardCache for TLC.                                    *)
EXTENDS DashboardCache, TLC

CONSTANTS w1, g1, p1, c1
=============================================================================
