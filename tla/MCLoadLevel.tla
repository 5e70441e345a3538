---------------------------- MODULE MCLoadLevel -----------------------------
(* Small instances of LoadLevel for TLC. *)
EXTENDS LoadLevel, TLC

CONSTANTS c1, c2

\* Two speakers: one that speaks in the warm-up and in the steady state, one in the latter only.
MCDue == (c1 :> <<0, 2>>) @@ (c2 :> <<1>>)

\* One speaker with three utterances, all in the steady state.
OneSpeakerDue == (c1 :> <<1, 2, 3>>)
=============================================================================
