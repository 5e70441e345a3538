----------------------------- MODULE Evaluation -----------------------------
(***************************************************************************)
(* What `asr-assess eval` computes (evaluation/evaluate.py, scoring.py):   *)
(* from the entries of a manifest and the transcripts an engine returns,   *)
(* batch by batch, to the report per bucket and per category.  Nothing     *)
(* here touches a file: Pipeline says when it happens and what is written. *)
(*                                                                         *)
(* An entry is [id, bucket, category, ref], a transcript [id, text]; ref   *)
(* and text are the words of the normalized texts.                         *)
(***************************************************************************)
EXTENDS Naturals, Sequences, SequencesExt, Functions, FiniteSets

CONSTANTS Manifest,  \* the entries, in order, cut to --limit
          Said,      \* id -> what the model makes of that clip
          BatchSize  \* EvalConfig.batch_size

IsSequence(s) == s \in Seq(Range(s))

ASSUME EvalAssumption ==
    /\ BatchSize \in Nat \ {0}
    /\ IsSequence(Manifest) /\ Manifest # <<>>
    /\ \A i \in DOMAIN Manifest :
          IsSequence(Manifest[i].ref) /\ IsSequence(Said[Manifest[i].id])

\* requests[start : start + batch_size]
Batch(entries, k) ==
    LET last == k * BatchSize
    IN  SubSeq(entries, (k - 1) * BatchSize + 1,
               IF last <= Len(entries) THEN last ELSE Len(entries))

BatchCount(entries) == (Len(entries) + BatchSize - 1) \div BatchSize

\* What an engine may answer a batch with: a transcript of each clip in order, as ASREngine
\* promises, in another order, or not all.
Answers(batch) ==
    LET inOrder == [i \in DOMAIN batch |-> [id |-> batch[i].id, text |-> Said[batch[i].id]]]
    IN  {inOrder, Reverse(inOrder), Tail(inOrder)}
AnswersTo(entries) ==
    LET batches == 1..BatchCount(entries)
    IN  {answers \in [batches -> UNION {Answers(Batch(entries, k)) : k \in batches}] :
            \A k \in batches : answers[k] \in Answers(Batch(entries, k))}

Ids(items) == [i \in DOMAIN items |-> items[i].id]

\* check_alignment
Aligned(batch, out) == Ids(out) = Ids(batch)

\* run_batches: what is collected, when every answer passed check_alignment.
AllAligned(entries, answers) ==
    \A k \in DOMAIN answers : Aligned(Batch(entries, k), answers[k])
Transcripts(answers) == FlattenSeq(answers)

\* zip(strict=True) and score_utterance's comparison of the ids.
Matched(entries, transcripts) == Ids(transcripts) = Ids(entries)

Least(a, b, c) == IF a <= b /\ a <= c THEN a ELSE IF b <= c THEN b ELSE c

\* What jiwer counts: the fewest substitutions, deletions and insertions.
EditErrors(ref, hyp) ==
    LET edits[p \in (0..Len(ref)) \X (0..Len(hyp))] ==
            IF p[1] = 0 \/ p[2] = 0 THEN p[1] + p[2]
            ELSE Least(edits[<<p[1] - 1, p[2]>>] + 1, edits[<<p[1], p[2] - 1>>] + 1,
                       edits[<<p[1] - 1, p[2] - 1>>]
                           + IF ref[p[1]] = hyp[p[2]] THEN 0 ELSE 1)
    IN  edits[<<Len(ref), Len(hyp)>>]

\* utterance_errors: without words on one side, every word of the other is an error.
UtteranceErrors(ref, hyp) ==
    IF ref = <<>> \/ hyp = <<>> THEN Len(ref) + Len(hyp) ELSE EditErrors(ref, hyp)

\* score_utterance, pair by pair.
Scored(entries, transcripts) ==
    [i \in DOMAIN entries |->
        [bucket |-> entries[i].bucket, category |-> entries[i].category,
         errors |-> UtteranceErrors(entries[i].ref, transcripts[i].text),
         words |-> Len(entries[i].ref)]]

\* score_group: counts over the items at the positions of a group, the bootstrap left out.
WordsOf(items, group) == SumFunction([i \in group |-> items[i].words])
ErrorsOf(items, group) == SumFunction([i \in group |-> items[i].errors])
GroupScore(items, group) ==
    [n |-> Cardinality(group), errors |-> ErrorsOf(items, group), words |-> WordsOf(items, group)]

\* Mutant of Grouped: an item replaces its group instead of being appended to it.
X_Grouped(items, key) ==
    LET Group(name) == {i \in DOMAIN items : key[i] = name}
    IN  [name \in Range(key) |->
            GroupScore(items, {i \in Group(name) : \A j \in Group(name) : j <= i})]

\* _grouped; key gives each item's group.
Grouped(items, key) ==
    [name \in Range(key) |-> GroupScore(items, {i \in DOMAIN items : key[i] = name})]

\* build_report
Report(items) ==
    [overall |-> GroupScore(items, DOMAIN items),
     by_bucket |-> Grouped(items, [i \in DOMAIN items |-> items[i].bucket]),
     by_category |-> Grouped(items, [i \in DOMAIN items |-> items[i].category])]

Total(scores) ==
    [n |-> SumFunction([name \in DOMAIN scores |-> scores[name].n]),
     errors |-> SumFunction([name \in DOMAIN scores |-> scores[name].errors]),
     words |-> SumFunction([name \in DOMAIN scores |-> scores[name].words])]

\* A report's groups add up to its overall score, which counts every entry once against what
\* was said in it, and is clean exactly if every clip was transcribed word for word.
AddsUp(report, entries) ==
    /\ report.overall.n = Len(entries)
    /\ Total(report.by_bucket) = report.overall
    /\ Total(report.by_category) = report.overall
    /\ report.overall.errors =
           SumFunction([i \in DOMAIN entries |->
                           UtteranceErrors(entries[i].ref, Said[entries[i].id])])
    /\ report.overall.errors = 0 <=> \A i \in DOMAIN entries : entries[i].ref = Said[entries[i].id]
=============================================================================
