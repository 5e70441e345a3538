---------------------------- MODULE ModelRelease ----------------------------
(***************************************************************************)
(* What train, merge and push promise together about one run name: only a  *)
(* merge that was verified is uploaded, a model card is uploaded only over *)
(* the weights it describes, and a push is recorded only when both stand.  *)
(***************************************************************************)
EXTENDS Naturals

CONSTANTS Models,  \* merges of the run
          NoModel  \* none of them

VARIABLES verified,   \* merges whose weight deltas and smoke test passed
          published,  \* the merge whose weights the Hub holds
          described,  \* the merge that the Hub's model card describes
          recorded    \* the merge that push_summary.json says was pushed

vars == <<verified, published, described, recorded>>

Init ==
    /\ verified = {} /\ published = NoModel /\ described = NoModel /\ recorded = NoModel

Verify(m) ==
    /\ m \in Models \ verified
    /\ verified' = verified \cup {m}
    /\ UNCHANGED <<published, described, recorded>>

Upload(m) ==
    /\ m \in verified
    /\ published' = m
    /\ UNCHANGED <<verified, described, recorded>>

Describe(m) ==
    /\ published = m /\ m \in verified
    /\ described' = m
    /\ UNCHANGED <<verified, published, recorded>>

Record(m) ==
    /\ published = m /\ described = m /\ m \in verified
    /\ recorded' = m
    /\ UNCHANGED <<verified, published, described>>

\* The operator removes the record, to push again.
Forget ==
    /\ recorded' = NoModel
    /\ UNCHANGED <<verified, published, described>>

Next ==
    \/ \E m \in Models : Verify(m) \/ Upload(m) \/ Describe(m) \/ Record(m)
    \/ Forget

Spec == Init /\ [][Next]_vars
=============================================================================
