----------------------------- MODULE MCPipeline -----------------------------
(* Small instances of Pipeline for TLC. *)
EXTENDS Pipeline, TLC

CONSTANTS q, v,        \* tensors
          narrow, wide \* configurations: only q is a target, or both are

MCRevisions == <<narrow, wide>>
MCTargets == (narrow :> {q}) @@ (wide :> {q, v})

Made(changed, speaks) ==
    [changed |-> changed, speaks |-> speaks, ok |-> FALSE, heard |-> FALSE]
MCOutcomes == {Made({q}, TRUE), Made({q, v}, FALSE), Made({}, TRUE)}

Clip(id, bucket, category, ref) ==
    [id |-> id, bucket |-> bucket, category |-> category, ref |-> ref]
\* One clip with a wrong and a missing word, one word for word, one of which nothing was heard.
MCManifest == <<Clip("a", "short", "read", <<"saya", "nak", "pergi">>),
                Clip("b", "long", "read", <<"ya", "boleh">>),
                Clip("c", "short", "mixed", <<"ok">>)>>
MCSaid == [a |-> <<"saya", "tak">>, b |-> <<"ya", "boleh">>, c |-> <<>>]

OneMergeAtATime == {Mergers}

Symmetry == Permutations(Trainers) \cup Permutations(Mergers) \cup Permutations(Evaluators)
              \cup Permutations(Pushers)
=============================================================================
