-------------------------- MODULE LoadSweepProofs ---------------------------
(***************************************************************************)
(* Proofs about LoadSweep, for every profile and whatever the levels show. *)
(***************************************************************************)
EXTENDS LoadSweep, TLAPS

-----------------------------------------------------------------------------
(* Measuring a level. *)

\* A row of levels.jsonl is appended: the rows before it stay, and it comes last.
LEMMA AppendedRow ==
    ASSUME NEW S, NEW q \in Seq(S), NEW e \in S
    PROVE  /\ Append(q, e) \in Seq(S)
           /\ Len(q) \in Nat
           /\ DOMAIN q = 1..Len(q)
           /\ DOMAIN Append(q, e) = DOMAIN q \cup {Len(q) + 1}
           /\ \A i \in DOMAIN q : Append(q, e)[i] = q[i]
           /\ Append(q, e)[Len(q) + 1] = e
  <1>1. Len(q) \in Nat /\ DOMAIN q = 1..Len(q)
    OBVIOUS
  <1>2. Append(q, e) \in Seq(S) /\ Len(Append(q, e)) = Len(q) + 1
    OBVIOUS
  <1>3. DOMAIN Append(q, e) = 1..(Len(q) + 1)
    BY <1>1, <1>2
  <1>. QED
    BY <1>1, <1>2, <1>3

\* What a measurement of a fresh level does to the results and to levels.jsonl.
LEMMA MeasureEffect ==
    ASSUME TypeOK, MeasuredOnce, NEW lv \in Positive, lv \notin DOMAIN results,
           NEW o \in Outcomes, Measure(lv, o)
    PROVE  /\ DOMAIN results' = DOMAIN results \cup {lv}
           /\ results' = [m \in DOMAIN results' |-> results'[m]]
           /\ \A m \in DOMAIN results : results'[m] = results[m]
           /\ results'[lv] = o
           /\ \A m \in DOMAIN results' : results'[m] \in Outcomes
           /\ levelsFile' \in Seq(Positive)
           /\ MeasuredOnce'
  <1>1. /\ DOMAIN results' = DOMAIN results \cup {lv}
        /\ \A m \in DOMAIN results : results'[m] = results[m]
        /\ results'[lv] = o
        /\ results' = [m \in DOMAIN results' |-> results'[m]]
    BY DEF Measure
  <1>2. /\ levelsFile' \in Seq(Positive)
        /\ Len(levelsFile) \in Nat
        /\ DOMAIN levelsFile = 1..Len(levelsFile)
        /\ DOMAIN levelsFile' = DOMAIN levelsFile \cup {Len(levelsFile) + 1}
        /\ \A i \in DOMAIN levelsFile : levelsFile'[i] = levelsFile[i]
        /\ levelsFile'[Len(levelsFile) + 1] = lv
    BY AppendedRow DEF Measure, TypeOK
  <1>3. \A i \in DOMAIN levelsFile : levelsFile[i] \in DOMAIN results /\ levelsFile[i] # lv
    BY DEF MeasuredOnce
  <1>4. \A i, j \in DOMAIN levelsFile' : levelsFile'[i] = levelsFile'[j] => i = j
    BY <1>2, <1>3 DEF MeasuredOnce
  <1>5. {levelsFile'[i] : i \in DOMAIN levelsFile'} = DOMAIN results'
    BY <1>1, <1>2 DEF MeasuredOnce
  <1>. QED
    BY <1>1, <1>2, <1>4, <1>5 DEF MeasuredOnce, TypeOK

\* A measurement changes no judgement made before it, provided level 1 is there already or
\* nothing is.
LEMMA JudgementStays ==
    ASSUME TypeOK, NEW lv \in Positive, lv \notin DOMAIN results,
           1 \in DOMAIN results \/ DOMAIN results = {},
           NEW o \in Outcomes, Measure(lv, o)
    PROVE  \A m \in DOMAIN results : \A t : Passes(results', m, t) <=> Passes(results, m, t)
  <1>1. /\ DOMAIN results' = DOMAIN results \cup {lv}
        /\ \A m \in DOMAIN results : results'[m] = results[m]
    BY DEF Measure
  <1>2. CASE DOMAIN results = {}
    BY <1>2
  <1>3. CASE 1 \in DOMAIN results
    <2>1. ReferenceWer(results') = ReferenceWer(results)
      BY <1>1, <1>3 DEF ReferenceWer
    <2>. QED
      BY <1>1, <2>1 DEF Passes
  <1>. QED
    BY <1>2, <1>3

\* What passes at the stronger threshold passes at the maximal one.
LEMMA StrongPasses ==
    ASSUME TypeOK, NEW lv \in DOMAIN results, Passes(results, lv, StrongRtf)
    PROVE  Passes(results, lv, MaxRtf)
  <1>1. results[lv].rtf \in Nat
    BY SweepAssumption DEF TypeOK, Passes
  <1>. QED
    BY <1>1, SweepAssumption DEF Passes

-----------------------------------------------------------------------------
(* The inductive invariant. *)

LEMMA InitInv == Init => IInv
  <1>. SUFFICES ASSUME Init PROVE IInv
    OBVIOUS
  <1>1. WellFormed(profile)
    BY SweepAssumption DEF Init
  <1>2. TypeOK
    BY <1>1, SweepAssumption DEF Init, TypeOK, WellFormed, Positive
  <1>3. Swept /\ MeasuredOnce
    BY <1>1 DEF Init, Swept, MeasuredOnce
  <1>4. BracketHolds /\ Concluded
    BY DEF Init, BracketHolds, Concluded
  <1>. QED
    BY <1>2, <1>3, <1>4 DEF IInv

\* A sweep step measures a level above all measured ones, level 1 first of all.
LEMMA SweepFresh ==
    ASSUME IInv, phase = "sweep", next <= Len(profile.levels)
    PROVE  /\ WellFormed(profile)
           /\ profile.levels[next] \in Positive
           /\ profile.levels[next] \notin DOMAIN results
           /\ 1 \in DOMAIN results \/ DOMAIN results = {}
  <1>. USE DEF IInv
  <1>1. WellFormed(profile) /\ next \in Nat /\ next >= 1
    BY SweepAssumption DEF TypeOK, WellFormed
  <1>2. DOMAIN profile.levels = 1..Len(profile.levels)
    BY <1>1 DEF WellFormed
  <1>3. profile.levels[next] \in Positive
    BY <1>1, <1>2 DEF WellFormed
  <1>4. \A k \in 1..(next - 1) : profile.levels[k] < profile.levels[next]
    BY <1>1, <1>2 DEF WellFormed
  <1>5. profile.levels[next] \notin DOMAIN results
    <2>1. SUFFICES ASSUME profile.levels[next] \in DOMAIN results PROVE FALSE
      OBVIOUS
    <2>2. PICK k \in 1..(next - 1) : profile.levels[next] = profile.levels[k]
      BY <2>1 DEF Swept
    <2>3. profile.levels[k] < profile.levels[next] /\ profile.levels[next] \in Nat
      BY <1>3, <1>4 DEF Positive
    <2>. QED
      BY <2>2, <2>3
  <1>6. CASE next = 1
    BY <1>1, <1>3, <1>5, <1>6 DEF Swept
  <1>7. CASE next # 1
    BY <1>1, <1>3, <1>5, <1>7 DEF Swept, WellFormed
  <1>. QED
    BY <1>1, <1>3, <1>5, <1>6, <1>7

LEMMA SweepLevelInv ==
    ASSUME IInv, SweepLevel
    PROVE  IInv'
  <1>. USE DEF IInv
  <1>0. PICK lv \in Positive : lv = profile.levels[next]
    BY SweepFresh DEF SweepLevel
  <1>1. PICK o \in Outcomes : Measure(lv, o)
    BY <1>0 DEF SweepLevel
  <1>2. /\ phase = "sweep" /\ next <= Len(profile.levels) /\ extra # 0 /\ next' = next + 1
        /\ UNCHANGED <<profile, phase, passing, failing, steps, verdicts>>
        /\ failing = NoValue /\ failing \notin DOMAIN results
    BY SweepAssumption DEF SweepLevel, MayGoOn, Concluded, TypeOK, Positive
  <1>3. /\ WellFormed(profile) /\ lv \in Positive /\ lv \notin DOMAIN results
        /\ 1 \in DOMAIN results \/ DOMAIN results = {}
    BY <1>0, <1>2, SweepFresh
  <1>4. /\ DOMAIN results' = DOMAIN results \cup {lv}
        /\ results' = [m \in DOMAIN results' |-> results'[m]]
        /\ \A m \in DOMAIN results' : results'[m] \in Outcomes
        /\ levelsFile' \in Seq(Positive)
        /\ MeasuredOnce'
    BY <1>1, <1>3, MeasureEffect
  <1>5. \A m \in DOMAIN results : \A t : Passes(results', m, t) <=> Passes(results, m, t)
    BY <1>1, <1>3, JudgementStays
  <1>6. /\ next \in Nat /\ next >= 1 /\ Len(profile.levels) \in Nat
        /\ profile.stopAfter \in Nat /\ profile.stopAfter >= 1
        /\ extra \in Nat \cup {NoValue} /\ NoValue \notin Int
    <2>1. next \in 1..(Len(profile.levels) + 1) /\ extra \in Nat \cup {NoValue}
      BY DEF TypeOK
    <2>2. Len(profile.levels) \in Nat /\ profile.stopAfter \in Positive
      BY <1>3 DEF WellFormed
    <2>. QED
      BY <2>1, <2>2, SweepAssumption DEF Positive
  <1>7. extra' \in Nat \cup {NoValue}
    BY <1>2, <1>6 DEF SweepLevel, ExtraAfterFailure
  <1>8. TypeOK'
    BY <1>2, <1>3, <1>4, <1>6, <1>7 DEF TypeOK
  <1>9. Swept'
    <2>1. PICK n \in Nat : n = next - 1
      BY <1>6
    <2>2. /\ next = n + 1 /\ next' - 1 = n + 1
          /\ \A k \in 1..(n + 1) : k \in 1..n \/ k = n + 1
          /\ \A k \in 1..n : k \in 1..(n + 1) /\ k # n + 1
          /\ \A k \in 1..(n + 1) : \A j \in 1..(k - 1) : j \in 1..n
          /\ n + 1 \in 1..(n + 1)
          /\ profile.levels[n + 1] = lv
      BY <1>0, <1>2, <1>6, <2>1
    <2>3. \A k \in 1..n : profile.levels[k] \in DOMAIN results
      BY <2>1 DEF Swept
    <2>4. \A k \in 1..n : FailedAt(k)' <=> FailedAt(k)
      BY <1>2, <1>5, <2>3 DEF FailedAt
    <2>5. \A k \in 1..n : FirstFailedAt(k) => FirstFailedAt(k)'
      BY <1>2, <2>1, <2>2, <2>4 DEF FirstFailedAt
    <2>6. FailedAt(n + 1)' <=> ~Passes(results', lv, MaxRtf)
      BY <1>2, <2>2 DEF FailedAt
    <2>7. \A k \in 1..(next' - 1) : profile'.levels[k] \in DOMAIN results'
      BY <1>2, <1>4, <2>2, <2>3
    <2>8. \A m \in DOMAIN results' : \E k \in 1..(next' - 1) : m = profile'.levels[k]
      <3>1. \A m \in DOMAIN results : \E k \in 1..n : m = profile.levels[k]
        BY <1>2, <2>1 DEF Swept
      <3>. QED
        BY <1>2, <1>4, <2>2, <3>1
    <2>9. steps' = 0 /\ phase' = "sweep"
      BY <1>2 DEF Swept
    <2>10. CASE extra # NoValue
      <3>1. PICK k \in 1..n : FirstFailedAt(k) /\ extra = k + profile.stopAfter - n
        BY <2>1, <2>10 DEF Swept
      <3>2. extra' = extra - 1 /\ extra' # NoValue
        BY <1>6, <2>10 DEF SweepLevel
      <3>3. extra' = k + profile'.stopAfter - (next' - 1)
        BY <1>2, <1>6, <2>2, <3>1, <3>2
      <3>4. k \in 1..(next' - 1) /\ FirstFailedAt(k)'
        BY <2>2, <2>5, <3>1
      <3>. QED
        BY <2>7, <2>8, <2>9, <3>2, <3>3, <3>4 DEF Swept
    <2>11. CASE extra = NoValue /\ Passes(results', lv, MaxRtf)
      <3>1. extra' = NoValue
        BY <1>0, <2>11 DEF SweepLevel
      <3>2. \A k \in 1..n : ~FailedAt(k)'
        BY <2>1, <2>4, <2>11 DEF Swept
      <3>3. \A k \in 1..(next' - 1) : ~FailedAt(k)'
        BY <2>2, <2>6, <2>11, <3>2
      <3>. QED
        BY <2>7, <2>8, <2>9, <3>1, <3>3 DEF Swept
    <2>12. CASE extra = NoValue /\ ~Passes(results', lv, MaxRtf)
      <3>1. extra' = profile.stopAfter /\ extra' # NoValue
        BY <1>0, <1>6, <2>12 DEF SweepLevel, ExtraAfterFailure
      <3>2. \A k \in 1..n : ~FailedAt(k)'
        BY <2>1, <2>4, <2>12 DEF Swept
      <3>3. n + 1 \in 1..(next' - 1) /\ FirstFailedAt(n + 1)'
        BY <2>2, <2>6, <2>12, <3>2 DEF FirstFailedAt
      <3>4. extra' = (n + 1) + profile'.stopAfter - (next' - 1)
        BY <1>2, <1>6, <2>2, <3>1
      <3>. QED
        BY <2>7, <2>8, <2>9, <3>1, <3>3, <3>4 DEF Swept
    <2>. QED
      BY <2>10, <2>11, <2>12
  <1>10. BracketHolds' /\ Concluded'
    BY <1>2 DEF BracketHolds, Concluded
  <1>. QED
    BY <1>4, <1>8, <1>9, <1>10

\* The steps that measure nothing keep every judgement.
LEMMA NothingMeasured ==
    ASSUME IInv, UNCHANGED <<profile, next, extra, results, levelsFile, steps>>
    PROVE  /\ MeasuredOnce'
           /\ (phase' # "sweep" /\ (next > Len(profile.levels) \/ extra = 0)) \/ phase' = phase
                  => Swept'
  <1>. USE DEF IInv
  <1>1. MeasuredOnce'
    BY DEF MeasuredOnce
  <1>2. \A k \in 1..(next - 1) : /\ FailedAt(k)' <=> FailedAt(k)
                                 /\ FirstFailedAt(k)' <=> FirstFailedAt(k)
    BY DEF FailedAt, FirstFailedAt
  <1>. QED
    BY <1>1, <1>2 DEF Swept

LEMMA SweepDoneInv ==
    ASSUME IInv, SweepDone
    PROVE  IInv'
  <1>. USE DEF IInv, SweepDone
  <1>1. TypeOK'
    BY DEF TypeOK
  <1>2. BracketHolds' /\ Concluded'
    BY DEF BracketHolds, Concluded
  <1>. QED
    BY <1>1, <1>2, NothingMeasured

LEMMA BracketInv ==
    ASSUME IInv, Bracket
    PROVE  IInv'
  <1>. USE DEF IInv, Bracket
  <1>1. PICK p \in DOMAIN results, f \in DOMAIN results :
           FirstFailing(f) /\ Below(p, f) /\ passing' = p /\ failing' = f
    OBVIOUS
  <1>2. DOMAIN results \subseteq Nat /\ NoValue \notin Nat
    BY SweepAssumption DEF TypeOK, Positive
  <1>3. TypeOK'
    BY <1>1, <1>2 DEF TypeOK
  <1>4. BracketHolds'
    <2>1. p < f /\ ~Passes(results, f, MaxRtf)
      BY <1>1 DEF FirstFailing, Below
    <2>2. \A m \in DOMAIN results : m <= p => Passes(results, m, MaxRtf)
      BY <1>1, <1>2, <2>1 DEF FirstFailing
    <2>3. \A m \in DOMAIN results : m <= p \/ f <= m
      BY <1>1, <1>2 DEF Below
    <2>. QED
      BY <1>1, <2>1, <2>2, <2>3 DEF BracketHolds, Sustained
  <1>5. Concluded'
    BY DEF Concluded
  <1>. QED
    BY <1>3, <1>4, <1>5, NothingMeasured DEF Swept

LEMMA NoBracketInv ==
    ASSUME IInv, NoBracket
    PROVE  IInv'
  <1>. USE DEF IInv, NoBracket
  <1>1. TypeOK'
    BY DEF TypeOK
  <1>2. BracketHolds' /\ Concluded'
    BY DEF BracketHolds, Concluded
  <1>. QED
    BY <1>1, <1>2, NothingMeasured DEF Swept

\* The midpoint was never measured, as it lies inside the bracket, and it is not level 1.
LEMMA MidFresh ==
    ASSUME IInv, phase = "bisect", HasMid(Mid)
    PROVE  /\ passing \in DOMAIN results /\ failing \in DOMAIN results
           /\ passing \in Positive /\ failing \in Positive
           /\ failing # NoValue
           /\ Mid \in Positive /\ passing < Mid /\ Mid < failing
           /\ Mid \notin DOMAIN results
           /\ 1 \in DOMAIN results
  <1>. USE DEF IInv
  <1>1. /\ passing \in DOMAIN results /\ failing \in DOMAIN results
        /\ DOMAIN results \subseteq Positive /\ failing # NoValue
    BY SweepAssumption DEF TypeOK, Positive
  <1>2. /\ Mid \in Int /\ passing < Mid /\ Mid < failing
    BY <1>1 DEF HasMid, Mid, Positive
  <1>3. Mid \in Positive
    BY <1>1, <1>2 DEF Positive
  <1>4. Mid \notin DOMAIN results
    BY <1>1, <1>2 DEF BracketHolds, Positive
  <1>5. 1 \in DOMAIN results
    <2>1. WellFormed(profile)
      BY SweepAssumption DEF TypeOK
    <2>2. Len(profile.levels) \in Nat /\ Len(profile.levels) >= 1 /\ profile.levels[1] = 1
          /\ next \in Nat
      BY <2>1 DEF WellFormed, TypeOK
    <2>3. 1 \in 1..(next - 1)
      <3>1. CASE extra = 0
        BY <2>2, <3>1, SweepAssumption DEF Swept
      <3>2. CASE next > Len(profile.levels)
        BY <2>2, <3>2
      <3>. QED
        BY <3>1, <3>2 DEF Swept
    <2>. QED
      BY <2>2, <2>3 DEF Swept
  <1>. QED
    BY <1>1, <1>2, <1>3, <1>4, <1>5

LEMMA BisectLevelInv ==
    ASSUME IInv, BisectLevel
    PROVE  IInv'
  <1>. USE DEF IInv
  <1>1. PICK lv \in Positive : lv = Mid
    BY MidFresh DEF BisectLevel
  <1>2. PICK o \in Outcomes : Measure(lv, o)
    BY <1>1 DEF BisectLevel
  <1>3. /\ phase = "bisect" /\ steps < profile.maxSteps /\ steps' = steps + 1
        /\ NarrowTo(lv, Passes(results', lv, MaxRtf))
        /\ UNCHANGED <<profile, phase, next, extra, verdicts>>
    BY <1>1 DEF BisectLevel
  <1>4. /\ passing \in DOMAIN results /\ failing \in DOMAIN results
        /\ DOMAIN results \subseteq Nat /\ lv \in Nat
        /\ failing # NoValue /\ passing < lv /\ lv < failing
        /\ lv \notin DOMAIN results
        /\ 1 \in DOMAIN results
    BY <1>1, MidFresh DEF BisectLevel, TypeOK, Positive
  <1>5. /\ DOMAIN results' = DOMAIN results \cup {lv}
        /\ results' = [m \in DOMAIN results' |-> results'[m]]
        /\ \A m \in DOMAIN results' : results'[m] \in Outcomes
        /\ levelsFile' \in Seq(Positive)
        /\ MeasuredOnce'
    BY <1>2, <1>4, MeasureEffect
  <1>6. \A m \in DOMAIN results : \A t : Passes(results', m, t) <=> Passes(results, m, t)
    BY <1>2, <1>4, JudgementStays
  <1>7. /\ passing' \in DOMAIN results' /\ failing' \in DOMAIN results'
        /\ passing' # NoValue
    BY <1>3, <1>4, <1>5, SweepAssumption DEF NarrowTo
  <1>8. steps \in Nat /\ profile.maxSteps \in Nat
    BY SweepAssumption DEF TypeOK, WellFormed
  <1>9. TypeOK'
    <2>1. steps' \in 0..profile'.maxSteps
      BY <1>3, <1>8
    <2>2. failing' # NoValue
      BY <1>3, <1>4, SweepAssumption DEF NarrowTo
    <2>3. DOMAIN results' \subseteq Positive
      BY <1>5 DEF TypeOK
    <2>. QED
      BY <1>3, <1>5, <1>7, <2>1, <2>2, <2>3 DEF TypeOK
  <1>10. Swept'
    <2>1. \A k \in 1..(next - 1) : profile.levels[k] \in DOMAIN results
      BY DEF Swept
    <2>2. \A k \in 1..(next - 1) : FailedAt(k)' <=> FailedAt(k)
      BY <1>3, <1>6, <2>1 DEF FailedAt
    <2>3. next \in Nat
      BY <1>3, SweepAssumption DEF TypeOK, WellFormed
    <2>4. \A k \in 1..(next - 1) : FirstFailedAt(k)' <=> FirstFailedAt(k)
      <3>1. \A k \in 1..(next - 1) : \A j \in 1..(k - 1) : j \in 1..(next - 1)
        BY <2>3
      <3>. QED
        BY <1>3, <2>2, <3>1 DEF FirstFailedAt
    <2>. QED
      BY <1>3, <1>5, <2>1, <2>2, <2>4 DEF Swept
  <1>11. BracketHolds'
    <2>1. /\ passing < failing /\ ~Passes(results, failing, MaxRtf)
          /\ \A m \in DOMAIN results : m <= passing => Passes(results, m, MaxRtf)
          /\ \A m \in DOMAIN results : m <= passing \/ failing <= m
      BY <1>4 DEF BracketHolds, Sustained
    <2>2. CASE Passes(results', lv, MaxRtf)
      <3>1. passing' = lv /\ failing' = failing
        BY <1>3, <2>2 DEF NarrowTo
      <3>2. \A m \in DOMAIN results' : m <= lv => Passes(results', m, MaxRtf)
        BY <1>4, <1>5, <1>6, <2>1, <2>2
      <3>3. \A m \in DOMAIN results' : m <= lv \/ failing <= m
        BY <1>4, <1>5, <2>1
      <3>. QED
        BY <1>4, <1>6, <2>1, <3>1, <3>2, <3>3 DEF BracketHolds, Sustained
    <2>3. CASE ~Passes(results', lv, MaxRtf)
      <3>1. passing' = passing /\ failing' = lv
        BY <1>3, <2>3 DEF NarrowTo
      <3>2. \A m \in DOMAIN results' : m <= passing => Passes(results', m, MaxRtf)
        BY <1>4, <1>5, <1>6, <2>1
      <3>3. \A m \in DOMAIN results' : m <= passing \/ lv <= m
        BY <1>4, <1>5, <2>1
      <3>. QED
        BY <1>4, <2>3, <3>1, <3>2, <3>3 DEF BracketHolds, Sustained
    <2>. QED
      BY <2>2, <2>3
  <1>12. Concluded'
    BY <1>3 DEF Concluded
  <1>. QED
    BY <1>5, <1>9, <1>10, <1>11, <1>12

LEMMA BisectDoneInv ==
    ASSUME IInv, BisectDone
    PROVE  IInv'
  <1>. USE DEF IInv, BisectDone
  <1>1. TypeOK'
    BY DEF TypeOK
  <1>2. BracketHolds'
    BY DEF BracketHolds, Sustained
  <1>3. Concluded'
    <2>1. /\ passing \in Nat /\ failing \in Nat /\ passing < failing
          /\ steps \in Nat /\ profile.maxSteps \in Nat
      BY SweepAssumption DEF TypeOK, BracketHolds, Positive, WellFormed
    <2>2. ~HasMid(Mid) => failing = passing + 1
      BY <2>1 DEF HasMid, Mid
    <2>. QED
      BY <2>1, <2>2 DEF Concluded
  <1>. QED
    BY <1>1, <1>2, <1>3, NothingMeasured DEF Swept

LEMMA SummarizeInv ==
    ASSUME IInv, Summarize
    PROVE  IInv'
  <1>. USE DEF IInv, Summarize
  <1>1. /\ {verdicts'.max, verdicts'.strong} \subseteq DOMAIN results \cup {NoValue}
        /\ IsMaxSustainable(verdicts'.max, MaxRtf)
        /\ IsMaxSustainable(verdicts'.strong, StrongRtf)
    BY DEF Thresholds
  <1>2. TypeOK'
    BY <1>1 DEF TypeOK
  <1>3. BracketHolds'
    BY DEF BracketHolds, Sustained
  <1>4. Concluded'
    BY <1>1 DEF Concluded, IsMaxSustainable, Sustained
  <1>. QED
    BY <1>2, <1>3, <1>4, NothingMeasured DEF Swept

LEMMA StepInv == IInv /\ [Next]_vars => IInv'
  <1>. SUFFICES ASSUME IInv, [Next]_vars PROVE IInv'
    OBVIOUS
  <1>1. CASE SweepLevel
    BY <1>1, SweepLevelInv
  <1>2. CASE SweepDone
    BY <1>2, SweepDoneInv
  <1>3. CASE Bracket
    BY <1>3, BracketInv
  <1>4. CASE NoBracket
    BY <1>4, NoBracketInv
  <1>5. CASE BisectLevel
    BY <1>5, BisectLevelInv
  <1>6. CASE BisectDone
    BY <1>6, BisectDoneInv
  <1>7. CASE Summarize
    BY <1>7, SummarizeInv
  <1>8. CASE Finished \/ UNCHANGED vars
    <2>1. UNCHANGED vars
      BY <1>8 DEF Finished
    <2>2. TypeOK' /\ MeasuredOnce'
      BY <2>1 DEF vars, IInv, TypeOK, MeasuredOnce
    <2>3. Swept'
      BY <2>1, NothingMeasured DEF vars
    <2>4. BracketHolds' /\ Concluded'
      BY <2>1 DEF vars, IInv, BracketHolds, Concluded, IsMaxSustainable, Sustained
    <2>. QED
      BY <2>2, <2>3, <2>4 DEF IInv
  <1>. QED
    BY <1>1, <1>2, <1>3, <1>4, <1>5, <1>6, <1>7, <1>8 DEF Next

\* The inductive invariant holds throughout every load test.
THEOREM Invariance == Spec => []IInv
  <1>. QED
    BY InitInv, StepInv, PTL DEF Spec

-----------------------------------------------------------------------------
(* The theorems. *)

\* The state keeps its shape; the bracket is made of measured levels.
THEOREM TypeCorrect == Spec => []TypeOK
  <1>1. IInv => TypeOK
    BY DEF IInv
  <1>. QED
    BY <1>1, Invariance, PTL

\* No level is ever measured twice, by the sweep and the bisection together.
THEOREM NoLevelTwice == Spec => []MeasuredOnce
  <1>1. IInv => MeasuredOnce
    BY DEF IInv
  <1>. QED
    BY <1>1, Invariance, PTL

\* The bisection's bracket always separates what passed from the first failure.
THEOREM BisectionKeepsItsBracket == Spec => []BracketHolds
  <1>1. IInv => BracketHolds
    BY DEF IInv
  <1>. QED
    BY <1>1, Invariance, PTL

\* The sweep measures exactly stop_after_failures levels after the first failure, or all it has.
THEOREM SweepStops == Spec => []StopsAfterFailures
  <1>1. IInv => StopsAfterFailures
    <2>. SUFFICES ASSUME IInv, phase # "sweep" PROVE StopsAfterFailures
      BY DEF StopsAfterFailures
    <2>1. /\ next \in 1..(Len(profile.levels) + 1) /\ Len(profile.levels) \in Nat
          /\ profile.stopAfter \in Nat
          /\ extra = NoValue => extra # 0
      BY SweepAssumption DEF IInv, TypeOK, WellFormed, Positive
    <2>2. next > Len(profile.levels) \/ extra = 0
      BY DEF IInv, Swept
    <2>3. CASE extra = NoValue
      BY <2>1, <2>2, <2>3 DEF IInv, Swept, StopsAfterFailures
    <2>4. CASE extra # NoValue
      <3>1. PICK k \in 1..(next - 1) :
               FirstFailedAt(k) /\ extra = k + profile.stopAfter - (next - 1)
        BY <2>4 DEF IInv, Swept
      <3>2. extra \in Nat
        BY <2>4 DEF IInv, TypeOK
      <3>3. \/ next - 1 = k + profile.stopAfter
            \/ next - 1 = Len(profile.levels) /\ next - 1 <= k + profile.stopAfter
        BY <2>1, <2>2, <3>1, <3>2
      <3>. QED
        BY <3>1, <3>3 DEF StopsAfterFailures
    <2>. QED
      BY <2>3, <2>4
  <1>. QED
    BY <1>1, Invariance, PTL

\* The reported verdict is the bracket's lower side, exact unless bisect_max_steps cut it short.
THEOREM VerdictIsTheBracket == Spec => []VerdictIsBracket
  <1>1. IInv => VerdictIsBracket
    <2>. SUFFICES ASSUME IInv, phase = "done", failing # NoValue
                  PROVE  /\ verdicts.max = passing
                         /\ steps < profile.maxSteps => failing = passing + 1
      BY DEF VerdictIsBracket
    <2>1. /\ passing \in DOMAIN results /\ failing \in DOMAIN results
          /\ DOMAIN results \subseteq Nat
      BY DEF IInv, TypeOK, Positive
    <2>2. /\ IsMaxSustainable(verdicts.max, MaxRtf)
          /\ Sustained(passing, MaxRtf)
          /\ ~Passes(results, failing, MaxRtf)
          /\ \A lv \in DOMAIN results : lv <= passing \/ failing <= lv
      BY DEF IInv, Concluded, BracketHolds
    <2>3. /\ verdicts.max \in DOMAIN results /\ Sustained(verdicts.max, MaxRtf)
          /\ passing <= verdicts.max
      BY <2>1, <2>2 DEF IsMaxSustainable
    <2>4. verdicts.max <= passing
      BY <2>1, <2>2, <2>3 DEF Sustained
    <2>5. verdicts.max = passing
      BY <2>1, <2>3, <2>4
    <2>. QED
      BY <2>5 DEF IInv, Concluded
  <1>. QED
    BY <1>1, Invariance, PTL

\* The stronger threshold never sustains a higher level than the maximal one.
THEOREM StrongNeverExceedsMax == Spec => []StrongWithinMax
  <1>1. IInv => StrongWithinMax
    <2>. SUFFICES ASSUME IInv, phase = "done", verdicts.strong # NoValue
                  PROVE  verdicts.max # NoValue /\ verdicts.strong <= verdicts.max
      BY DEF StrongWithinMax
    <2>1. IsMaxSustainable(verdicts.max, MaxRtf) /\ IsMaxSustainable(verdicts.strong, StrongRtf)
      BY DEF IInv, Concluded
    <2>2. verdicts.strong \in DOMAIN results /\ Sustained(verdicts.strong, StrongRtf)
      BY <2>1 DEF IsMaxSustainable
    <2>3. Sustained(verdicts.strong, MaxRtf)
      BY <2>2, StrongPasses DEF Sustained, IInv
    <2>4. verdicts.max \in DOMAIN results /\ verdicts.strong <= verdicts.max
      BY <2>1, <2>2, <2>3 DEF IsMaxSustainable
    <2>5. NoValue \notin DOMAIN results
      BY SweepAssumption DEF IInv, TypeOK, Positive
    <2>. QED
      BY <2>4, <2>5
  <1>. QED
    BY <1>1, Invariance, PTL

\* What the sweep and the bisection decided about a level is what the summary will say of it.
THEOREM JudgementsStand == Spec => JudgedOnce
  <1>. DEFINE Same == \A lv \in DOMAIN results, t \in {StrongRtf, MaxRtf} :
                         Passes(results', lv, t) <=> Passes(results, lv, t)
  <1>1. IInv /\ [Next]_vars => [Same]_vars
    <2>. SUFFICES ASSUME IInv, Next PROVE Same
      BY DEF vars
    <2>1. CASE UNCHANGED results
      BY <2>1
    <2>2. CASE SweepLevel
      <3>1. PICK o \in Outcomes : Measure(profile.levels[next], o)
        BY <2>2 DEF SweepLevel
      <3>. QED
        BY <2>2, <3>1, SweepFresh, JudgementStays DEF SweepLevel, IInv
    <2>3. CASE BisectLevel
      <3>1. PICK o \in Outcomes : Measure(Mid, o)
        BY <2>3 DEF BisectLevel
      <3>. QED
        BY <2>3, <3>1, MidFresh, JudgementStays DEF BisectLevel, IInv
    <2>. QED
      BY <2>1, <2>2, <2>3 DEF Next, SweepDone, Bracket, NoBracket, BisectDone, Summarize, Finished, vars
  <1>. QED
    BY <1>1, Invariance, PTL DEF Spec, JudgedOnce
=============================================================================
