---------------------------- MODULE MCDataBuild -----------------------------
(* Small instances of DataBuild for TLC. *)
EXTENDS DataBuild, TLC

CONSTANTS a1, a2, b, k,  \* clips: two of one speaker, one of another, one of the control set
          A, B, K        \* their groups

MCClips == {a1, a2, b, k}
MCGroup == (a1 :> A) @@ (a2 :> A) @@ (b :> B) @@ (k :> K)

\* The speakers change sides between the builds of another seed.
OneWay == [train |-> {a1}, eval |-> {b}, dev |-> {a2}, control |-> {k}]
OtherWay == [train |-> {b}, eval |-> {a1, a2}, dev |-> {}, control |-> {k}]
\* A configuration without dev_minutes.
NoDev == [train |-> {a1, a2}, eval |-> {b}, control |-> {k}]

AnyPlan == {OneWay, OtherWay, NoDev}
=============================================================================
