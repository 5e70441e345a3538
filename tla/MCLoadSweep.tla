---------------------------- MODULE MCLoadSweep -----------------------------
(* A small instance of LoadSweep for TLC: four profiles and the ways a level can go. *)
EXTENDS LoadSweep, TLC

CONSTANT None

Result(rtf, failures, lag, wer) == [rtf |-> rtf, failures |-> failures, lag |-> lag, wer |-> wer]

\* Thresholds are 1 (strong) and 2 (max), the largest lag 1, the largest WER delta 1.
MCOutcomes == {
    Result(1, 0, None, 0),      \* passes both
    Result(2, 0, 1, 0),         \* passes the maximal threshold only
    Result(3, 0, None, 0),      \* too slow
    Result(1, 1, None, 0),      \* a request failed
    Result(1, 0, 2, 0),         \* the client lagged
    Result(1, 0, None, 2),      \* WER that passes only against a reference as high
    Result(None, 2, None, None) \* nothing succeeded
}

Profile(levels, stopAfter, bisect, maxSteps) ==
    [levels |-> levels, stopAfter |-> stopAfter, bisect |-> bisect, maxSteps |-> maxSteps]

MCProfiles == {
    Profile(<<1, 2, 7>>, 1, TRUE, 8),
    Profile(<<1, 5, 6>>, 1, TRUE, 1),
    Profile(<<1, 2, 3, 5>>, 2, TRUE, 2),
    Profile(<<1, 2, 4, 5>>, 1, FALSE, 0)
}
=============================================================================
