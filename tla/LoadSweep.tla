----------------------------- MODULE LoadSweep ------------------------------
(***************************************************************************)
(* The course of one load test (benchmark/loadtest.py: run_loadtest,       *)
(* _sweep, _bisect, _Run.measure, _summary) and the rules that decide what *)
(* passes (benchmark/load_stats.py): the profile's levels in order, a      *)
(* bisection between the last passing and the first failing one, and one   *)
(* verdict per threshold.                                                  *)
(*                                                                         *)
(* What a level measures is up to the server: a measurement is any member  *)
(* of Outcomes.  Quantities that are only compared with a threshold are    *)
(* small numbers.                                                          *)
(***************************************************************************)
EXTENDS Integers, Sequences

CONSTANTS Profiles,     \* the LoadProfiles the run may be given
          Outcomes,     \* what measuring a level may show (the fields of LevelResult)
          NoValue,      \* Python's None
          StrongRtf,    \* thresholds.p95_rtf_strong
          MaxRtf,       \* thresholds.p95_rtf_max
          MaxLag,       \* thresholds.max_client_lag_s
          MaxWerDelta   \* thresholds.max_wer_delta_points

Positive == Nat \ {0}

\* LoadProfile: levels start at 1 and are strictly ascending, stop_after_failures is positive.
WellFormed(p) ==
    /\ p.levels \in Seq(Positive)
    /\ p.levels # <<>>
    /\ p.levels[1] = 1
    /\ \A i, j \in DOMAIN p.levels : i < j => p.levels[i] < p.levels[j]
    /\ p.stopAfter \in Positive
    /\ p.bisect \in BOOLEAN
    /\ p.maxSteps \in Nat

ASSUME SweepAssumption ==
    /\ \A p \in Profiles : WellFormed(p)
    /\ NoValue \notin Int
    /\ \A o \in Outcomes : /\ o.rtf \in Nat \cup {NoValue}
                           /\ o.failures \in Nat
                           /\ o.lag \in Int \cup {NoValue}
                           /\ o.wer \in Nat \cup {NoValue}
    /\ {StrongRtf, MaxRtf} \subseteq Nat
    /\ StrongRtf <= MaxRtf
    /\ MaxLag \in Nat
    /\ MaxWerDelta \in Nat

VARIABLES profile,     \* the profile of this run
          phase,       \* where run_loadtest is
          next,        \* the position of _sweep in the profile's levels
          extra,       \* _sweep's extra: levels left to measure after the first failure
          results,     \* _Run.results, by level
          levelsFile,  \* the levels of the rows of levels.jsonl
          passing,     \* _bisect's bracket, NoValue when there is none
          failing,
          steps,       \* rounds of _bisect so far
          verdicts     \* the verdicts of summary.json, NoValue until it is written

vars == <<profile, phase, next, extra, results, levelsFile, passing, failing, steps, verdicts>>

Init ==
    /\ profile \in Profiles
    /\ phase = "sweep"
    /\ next = 1
    /\ extra = NoValue
    /\ results = [lv \in {} |-> NoValue]
    /\ levelsFile = <<>>
    /\ passing = NoValue
    /\ failing = NoValue
    /\ steps = 0
    /\ verdicts = NoValue

-----------------------------------------------------------------------------
(* What passes. *)

\* A slip to rule out: WER compared with the latest level that was measured.
ReferenceWer_Latest(res) ==
    IF DOMAIN res = {} THEN NoValue
    ELSE res[CHOOSE lv \in DOMAIN res : \A m \in DOMAIN res : m <= lv].wer

\* _Run.reference_wer: the WER of level 1.
ReferenceWer(res) == IF 1 \in DOMAIN res THEN res[1].wer ELSE NoValue

\* is_sustainable
Passes(res, lv, threshold) ==
    LET o == res[lv] IN
    /\ o.rtf # NoValue
    /\ o.rtf <= threshold
    /\ o.failures = 0
    /\ o.lag # NoValue => o.lag <= MaxLag
    /\ ReferenceWer(res) # NoValue /\ o.wer # NoValue =>
          o.wer - ReferenceWer(res) <= MaxWerDelta

\* max_sustainable: v is the highest level such that it and every lower tested level passed.
Sustained(lv, threshold) ==
    \A m \in DOMAIN results : m <= lv => Passes(results, m, threshold)

\* A slip to rule out: the highest level that passed, whatever failed below it.
IsMaxSustainable_Highest(v, threshold) ==
    IF \E lv \in DOMAIN results : Passes(results, lv, threshold)
    THEN /\ v \in DOMAIN results
         /\ Passes(results, v, threshold)
         /\ \A lv \in DOMAIN results : Passes(results, lv, threshold) => lv <= v
    ELSE v = NoValue

IsMaxSustainable(v, threshold) ==
    IF \E lv \in DOMAIN results : Sustained(lv, threshold)
    THEN /\ v \in DOMAIN results
         /\ Sustained(v, threshold)
         /\ \A lv \in DOMAIN results : Sustained(lv, threshold) => lv <= v
    ELSE v = NoValue

-----------------------------------------------------------------------------
(* The run. *)

\* _Run.measure: the row is appended and the result kept, over any earlier one of that level.
Measure(lv, o) ==
    /\ results' = [m \in DOMAIN results \cup {lv} |-> IF m = lv THEN o ELSE results[m]]
    /\ levelsFile' = Append(levelsFile, lv)

\* A slip to rule out: the failing level itself counts as one of the extra levels.
ExtraAfterFailure_OffByOne == profile.stopAfter - 1

ExtraAfterFailure == profile.stopAfter

\* A slip to rule out: the count of extra levels is never looked at.
MayGoOn_Unchecked == TRUE

MayGoOn == extra # 0

SweepLevel ==
    /\ phase = "sweep"
    /\ next <= Len(profile.levels)
    /\ MayGoOn
    /\ \E o \in Outcomes : Measure(profile.levels[next], o)
    /\ next' = next + 1
    /\ \/ /\ extra # NoValue
          /\ extra' = extra - 1
       \/ /\ extra = NoValue
          /\ Passes(results', profile.levels[next], MaxRtf)
          /\ UNCHANGED extra
       \/ /\ extra = NoValue
          /\ ~Passes(results', profile.levels[next], MaxRtf)
          /\ extra' = ExtraAfterFailure
    /\ UNCHANGED <<profile, phase, passing, failing, steps, verdicts>>

SweepDone ==
    /\ phase = "sweep"
    /\ next > Len(profile.levels) \/ extra = 0
    /\ phase' = "bracket"
    /\ UNCHANGED <<profile, next, extra, results, levelsFile, passing, failing, steps, verdicts>>

FirstFailing(f) ==
    /\ f \in DOMAIN results
    /\ ~Passes(results, f, MaxRtf)
    /\ \A lv \in DOMAIN results : lv < f => Passes(results, lv, MaxRtf)

\* The highest tested level below f.  (_bisect checks once more that it passes.)
Below(p, f) ==
    /\ p \in DOMAIN results
    /\ p < f
    /\ \A lv \in DOMAIN results : lv < f => lv <= p
    /\ Passes(results, p, MaxRtf)

Bracket ==
    /\ phase = "bracket"
    /\ profile.bisect
    /\ \E p, f \in DOMAIN results :
          /\ FirstFailing(f)
          /\ Below(p, f)
          /\ passing' = p
          /\ failing' = f
    /\ phase' = "bisect"
    /\ UNCHANGED <<profile, next, extra, results, levelsFile, steps, verdicts>>

\* Bisection is off, every level passed, or the first one failed.
NoBracket ==
    /\ phase = "bracket"
    /\ profile.bisect => ~\E p, f \in DOMAIN results : FirstFailing(f) /\ Below(p, f)
    /\ phase' = "summary"
    /\ UNCHANGED <<profile, next, extra, results, levelsFile, passing, failing, steps, verdicts>>

\* A slip to rule out: a midpoint that may be the passing level again.
HasMid_Inclusive(mid) == passing <= mid /\ mid < failing

\* bisect_next gives the midpoint if it lies strictly between the two.
HasMid(mid) == passing < mid /\ mid < failing

Mid == (passing + failing) \div 2

\* Slips to rule out: the two sides of the bracket mixed up, or the wrong one moved.
NarrowTo_Swapped(mid, passed) ==
    IF passed THEN passing' = passing /\ failing' = mid ELSE passing' = mid /\ failing' = failing

NarrowTo(mid, passed) ==
    IF passed THEN passing' = mid /\ failing' = failing ELSE passing' = passing /\ failing' = mid

BisectLevel ==
    /\ phase = "bisect"
    /\ steps < profile.maxSteps
    /\ HasMid(Mid)
    /\ \E o \in Outcomes : Measure(Mid, o)
    /\ NarrowTo(Mid, Passes(results', Mid, MaxRtf))
    /\ steps' = steps + 1
    /\ UNCHANGED <<profile, phase, next, extra, verdicts>>

BisectDone ==
    /\ phase = "bisect"
    /\ steps >= profile.maxSteps \/ ~HasMid(Mid)
    /\ phase' = "summary"
    /\ UNCHANGED <<profile, next, extra, results, levelsFile, passing, failing, steps, verdicts>>

\* A slip to rule out: the two thresholds in the wrong order.
Thresholds_Swapped == [max |-> StrongRtf, strong |-> MaxRtf]

Thresholds == [max |-> MaxRtf, strong |-> StrongRtf]

\* _summary, and summary.json.
Summarize ==
    /\ phase = "summary"
    /\ \E m, s \in DOMAIN results \cup {NoValue} :
          /\ IsMaxSustainable(m, Thresholds.max)
          /\ IsMaxSustainable(s, Thresholds.strong)
          /\ verdicts' = [max |-> m, strong |-> s]
    /\ phase' = "done"
    /\ UNCHANGED <<profile, next, extra, results, levelsFile, passing, failing, steps>>

Finished == phase = "done" /\ UNCHANGED vars

Next ==
    \/ SweepLevel
    \/ SweepDone
    \/ Bracket
    \/ NoBracket
    \/ BisectLevel
    \/ BisectDone
    \/ Summarize
    \/ Finished

Spec == Init /\ [][Next]_vars

-----------------------------------------------------------------------------
(* Safety. *)

TypeOK ==
    /\ profile \in Profiles
    /\ phase \in {"sweep", "bracket", "bisect", "summary", "done"}
    /\ next \in 1..(Len(profile.levels) + 1)
    /\ extra \in Nat \cup {NoValue}
    /\ DOMAIN results \subseteq Positive
    /\ results = [lv \in DOMAIN results |-> results[lv]]
    /\ \A lv \in DOMAIN results : results[lv] \in Outcomes
    /\ levelsFile \in Seq(Positive)
    /\ {passing, failing} \subseteq DOMAIN results \cup {NoValue}
    /\ passing = NoValue <=> failing = NoValue
    /\ phase = "bisect" => passing # NoValue
    /\ steps \in 0..profile.maxSteps
    /\ phase = "done" => {verdicts.max, verdicts.strong} \subseteq DOMAIN results \cup {NoValue}
    /\ phase # "done" => verdicts = NoValue

\* No level is measured twice: results would lose the first measurement, and levels.jsonl
\* would have two rows of one level.
MeasuredOnce ==
    /\ \A i, j \in DOMAIN levelsFile : levelsFile[i] = levelsFile[j] => i = j
    /\ {levelsFile[i] : i \in DOMAIN levelsFile} = DOMAIN results

\* The bracket: the levels tested up to passing all passed, failing failed, and nothing was
\* tested between.  So the bisection narrows the verdict and never overturns it.
BracketHolds ==
    failing # NoValue =>
        /\ passing < failing
        /\ ~Passes(results, failing, MaxRtf)
        /\ Sustained(passing, MaxRtf)
        /\ \A lv \in DOMAIN results : lv <= passing \/ failing <= lv

FailedAt(k) == ~Passes(results, profile.levels[k], MaxRtf)

FirstFailedAt(k) ==
    /\ k \in 1..(next - 1)
    /\ FailedAt(k)
    /\ \A j \in 1..(k - 1) : ~FailedAt(j)

\* After the first failure exactly stop_after_failures more levels are swept, or as many as
\* the profile has left; without one all of them are.
StopsAfterFailures ==
    phase # "sweep" =>
        \/ next - 1 = Len(profile.levels) /\ \A k \in 1..(next - 1) : ~FailedAt(k)
        \/ \E k \in 1..(next - 1) :
              /\ FirstFailedAt(k)
              /\ \/ next - 1 = k + profile.stopAfter
                 \/ next - 1 = Len(profile.levels) /\ next - 1 <= k + profile.stopAfter

\* The verdict at the maximal threshold is the bracket's lower side, and when the bisection
\* was not cut short by bisect_max_steps, the next level up was tried and failed.
VerdictIsBracket ==
    phase = "done" /\ failing # NoValue =>
        /\ verdicts.max = passing
        /\ steps < profile.maxSteps => failing = verdicts.max + 1

\* The stronger threshold never sustains more.
StrongWithinMax ==
    phase = "done" /\ verdicts.strong # NoValue =>
        verdicts.max # NoValue /\ verdicts.strong <= verdicts.max

\* The sweep and the bisection judge each level once and the summary judges it again, from
\* results that have grown since: the judgement must be the same.  It rests on level 1, the
\* WER reference, being measured before every other level and never again.
JudgedOnce ==
    [][\A lv \in DOMAIN results, t \in {StrongRtf, MaxRtf} :
          Passes(results', lv, t) <=> Passes(results, lv, t)]_vars

-----------------------------------------------------------------------------
(* The inductive invariant behind the safety properties. *)

\* What the sweep has measured, and what extra says about it.
Swept ==
    /\ \A k \in 1..(next - 1) : profile.levels[k] \in DOMAIN results
    /\ phase = "sweep" =>
          /\ \A lv \in DOMAIN results : \E k \in 1..(next - 1) : lv = profile.levels[k]
          /\ steps = 0
    /\ extra = NoValue => \A k \in 1..(next - 1) : ~FailedAt(k)
    /\ extra # NoValue => \E k \in 1..(next - 1) :
                             FirstFailedAt(k) /\ extra = k + profile.stopAfter - (next - 1)
    /\ phase # "sweep" => next > Len(profile.levels) \/ extra = 0

\* What the bracket and the verdicts are good for in each phase.
Concluded ==
    /\ phase \in {"sweep", "bracket"} => failing = NoValue
    /\ phase \in {"summary", "done"} /\ failing # NoValue /\ steps < profile.maxSteps =>
          failing = passing + 1
    /\ phase = "done" => /\ IsMaxSustainable(verdicts.max, MaxRtf)
                         /\ IsMaxSustainable(verdicts.strong, StrongRtf)

IInv == TypeOK /\ Swept /\ MeasuredOnce /\ BracketHolds /\ Concluded
=============================================================================
