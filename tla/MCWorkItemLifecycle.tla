------------------------ MODULE MCWorkItemLifecycle -------------------------
(* Instances of WorkItemLifecycle for TLC.                                 *)
EXTENDS WorkItemLifecycle, TLC

CONSTANTS r1, r2, r3, r4, r5, i1

Patch(status_) == [kind |-> "patch", item |-> i1, to |-> status_]
Post(report_)  == [kind |-> "post", item |-> i1, report |-> report_]

\* An item is walked to CLOSED while an RCA is posted, beside a fifth request: a
\* PATCH that skips or repeats a step, or a second RCA.
Walk == r1 :> Patch("INVESTIGATING") @@ r2 :> Patch("RESOLVED") @@ r3 :> Patch("CLOSED")
            @@ r4 :> Post("complete")
WalkAndMore ==
    {Walk @@ r5 :> more : more \in {Patch("CLOSED"), Post("complete"), Post("inverted")}}

\* The same with a blank RCA only.
WalkAndBlank == {Walk @@ r5 :> Post("blank")}
=============================================================================
