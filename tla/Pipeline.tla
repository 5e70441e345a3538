------------------------------ MODULE Pipeline ------------------------------
(***************************************************************************)
(* The commands train, merge, eval and push for one run name: processes    *)
(* that share nothing but directories, the Hub repository and a working    *)
(* tree that moves on while they run.  Any of them may be killed between   *)
(* two steps; the operator removes directories, but only between commands. *)
(*                                                                         *)
(* A process runs one command, once: how many there are bounds the model.  *)
(* A command that refuses before it wrote anything has not happened: what  *)
(* it checks first is the guard of its first step.                         *)
(* A file is opened and closed in different steps; one that was opened and *)
(* not closed is torn, and reading it fails.                               *)
(***************************************************************************)
EXTENDS Evaluation, FiniteSets

CONSTANTS Trainers, Mergers, Evaluators, Pushers,  \* the processes, by command
          NoJob,
          Revisions,  \* the working tree, commit after commit: its configs/lora.yaml
          Tensors,    \* tensors of a checkpoint
          Outcomes,   \* what a merge may make: the tensors that differ from the base, whether
                      \* the model then speaks, no verdict and no transcript yet
          Discardable, \* directories that the operator removes
          Targets,    \* configuration -> the tensors its LoRA targets select
          MaxStops,   \* bound: processes that are killed
          Exclusive   \* the sets of processes of which the operator runs one at a time

Jobs == Trainers \cup Mergers \cup Evaluators \cup Pushers

DirOf == [best |-> "ckpt", train_summary |-> "trainResults", log_history |-> "trainResults",
          weights |-> "merged", weight_deltas |-> "mergeResults", smoke |-> "mergeResults",
          merge_summary |-> "mergeResults", hypotheses |-> "evalResults",
          metrics |-> "evalResults", push_summary |-> "pushResults"]
Files == DOMAIN DirOf
Dirs == {DirOf[f] : f \in Files}

Commits == DOMAIN Revisions

ASSUME PipelineAssumption ==
    /\ NoJob \notin Jobs
    /\ Trainers \cap (Mergers \cup Evaluators \cup Pushers) = {}
    /\ Mergers \cap (Evaluators \cup Pushers) = {} /\ Evaluators \cap Pushers = {}
    /\ Revisions \in Seq(DOMAIN Targets) /\ Revisions # <<>>
    /\ \A c \in DOMAIN Targets : Targets[c] \subseteq Tensors
    /\ Outcomes \subseteq [changed : SUBSET Tensors, speaks : BOOLEAN, ok : {FALSE},
                           heard : {FALSE}]
    /\ Discardable \subseteq Dirs
    /\ MaxStops \in Nat

VARIABLES head,    \* the commit that is checked out
          stops,   \* processes killed so far
          pc,      \* a process's next step, or the file it is writing
          record,  \* its RunRecord: the commit, and with it the configuration it loaded
          reads,   \* the process whose adapter, weights or summary it works from
          dirs,    \* directories that exist
          author,  \* file -> the process that opened it last
          whole,   \* files that were closed
          model,   \* merge -> the tensors that differ from the base, whether the model speaks,
                   \* the verdict in its weight_deltas.json, and whether its smoke.jsonl holds
                   \* a transcript
          report,  \* evaluation -> its report
          hub      \* the Hub repository: whose weights; what the card describes, the commit
                   \* it quotes and the one its LoRA settings are from

disk == <<dirs, author, whole>>
vars == <<head, stops, pc, record, reads, dirs, author, whole, model, report, hub>>

NoModelYet == [changed |-> {}, speaks |-> FALSE, ok |-> FALSE, heard |-> FALSE]
NoReport == <<>>
NoCard == [merge |-> NoJob, commit |-> 0, settings |-> 0]

Init ==
    /\ head = 1 /\ stops = 0
    /\ pc = [j \in Jobs |-> "start"]
    /\ record = [j \in Jobs |-> 0]
    /\ reads = [j \in Jobs |-> NoJob]
    /\ dirs = {} /\ author = [f \in Files |-> NoJob] /\ whole = {}
    /\ model = [m \in Mergers |-> NoModelYet]
    /\ report = [e \in Evaluators |-> NoReport]
    /\ hub = [weights |-> NoJob, card |-> NoCard]

(***************************************************************************)
(* Processes and files                                                     *)
(***************************************************************************)

Active(j) == pc[j] \notin {"start", "done", "failed"}

Goes(j, step) == pc' = [pc EXCEPT ![j] = step]

Present(f) == author[f] # NoJob

\* The directory of f is made, if it is not there, and f is opened in it.
Creates(j, f) ==
    /\ dirs' = dirs \cup {DirOf[f]}
    /\ author' = [author EXCEPT ![f] = j]
    /\ whole' = whole \ {f}

Opens(j, f) ==
    /\ author' = [author EXCEPT ![f] = j]
    /\ whole' = whole \ {f}
    /\ UNCHANGED dirs

\* One file is closed and the next one opened.
ClosesAndOpens(j, f, g) ==
    /\ author' = [author EXCEPT ![g] = j]
    /\ whole' = (whole \cup {h \in {f} : author[h] = j}) \ {g}
    /\ UNCHANGED dirs

\* Of two processes that write one file, the one that opened it last leaves it whole.
Closes(j, f) == whole' = whole \cup {h \in {f} : author[h] = j} /\ UNCHANGED <<dirs, author>>

MayStart(j) ==
    /\ pc[j] = "start"
    /\ \A s \in Exclusive : j \in s => \A i \in s : ~Active(i)

\* A command starts: it loads its configuration and stamps its run record.
Starts(j) == MayStart(j) /\ record' = [record EXCEPT ![j] = head]

Readable(f) == Present(f) /\ f \in whole

(***************************************************************************)
(* train                                                                   *)
(***************************************************************************)

\* run_training: "runs are never overwritten".
TrainStart(t) ==
    /\ Starts(t)
    /\ {"ckpt", "trainResults"} \cap dirs = {}
    /\ Goes(t, "fit")
    /\ UNCHANGED <<head, stops, reads, disk, model, report, hub>>

\* Mutant of TrainFit: the output directory is left to the first save.
X_TrainFit(t) ==
    /\ pc[t] = "fit"
    /\ Goes(t, "save")
    /\ UNCHANGED <<head, stops, record, reads, disk, model, report, hub>>

\* Trainer makes its output directory, exist or not, and checkpoints into it.
TrainFit(t) ==
    /\ pc[t] = "fit"
    /\ dirs' = dirs \cup {"ckpt"}
    /\ Goes(t, "save")
    /\ UNCHANGED <<head, stops, record, reads, author, whole, model, report, hub>>

TrainSave(t) ==
    /\ pc[t] = "save"
    /\ Opens(t, "best")
    /\ Goes(t, "best")
    /\ UNCHANGED <<head, stops, record, reads, model, report, hub>>

TrainSaved(t) ==
    /\ pc[t] = "best"
    /\ Closes(t, "best")
    /\ Goes(t, "summarize")
    /\ UNCHANGED <<head, stops, record, reads, model, report, hub>>

\* write_train_summary makes its directory with exist_ok, and the summary comes first.
TrainSummarize(t) ==
    /\ pc[t] = "summarize"
    /\ Creates(t, "train_summary")
    /\ Goes(t, "train_summary")
    /\ UNCHANGED <<head, stops, record, reads, model, report, hub>>

TrainSummarized(t) ==
    /\ pc[t] = "train_summary"
    /\ ClosesAndOpens(t, "train_summary", "log_history")
    /\ Goes(t, "log_history")
    /\ UNCHANGED <<head, stops, record, reads, model, report, hub>>

TrainDone(t) ==
    /\ pc[t] = "log_history"
    /\ Closes(t, "log_history")
    /\ Goes(t, "done")
    /\ UNCHANGED <<head, stops, record, reads, model, report, hub>>

Train(t) ==
    \/ TrainStart(t) \/ TrainFit(t) \/ TrainSave(t) \/ TrainSaved(t)
    \/ TrainSummarize(t) \/ TrainSummarized(t) \/ TrainDone(t)

(***************************************************************************)
(* merge                                                                   *)
(***************************************************************************)

\* Mutant of MergeAllowed: only the directory of the weights is checked; the other one fails
\* later, when it is made.
X_MergeAllowed == Present("best") /\ "merged" \notin dirs

\* run_merge: there is an adapter, and "results are never overwritten".
MergeAllowed == Present("best") /\ {"merged", "mergeResults"} \cap dirs = {}

MergeStart(m) ==
    /\ Starts(m)
    /\ MergeAllowed
    /\ Goes(m, "fold")
    /\ UNCHANGED <<head, stops, reads, disk, model, report, hub>>

\* merge_adapter reads the adapter, which may be torn, and saves the merged weights.
MergeFold(m) ==
    /\ pc[m] = "fold"
    /\ IF Readable("best")
       THEN /\ reads' = [reads EXCEPT ![m] = author["best"]]
            /\ Creates(m, "weights")
            /\ Goes(m, "weights")
       ELSE Goes(m, "failed") /\ UNCHANGED <<reads, disk>>
    /\ UNCHANGED <<head, stops, record, model, report, hub>>

\* What PEFT and the base weights make of it is not the repository's.
MergeFolded(m) ==
    /\ pc[m] = "weights"
    /\ Closes(m, "weights")
    /\ \E outcome \in Outcomes : model' = [model EXCEPT ![m] = outcome]
    /\ Goes(m, "prove")
    /\ UNCHANGED <<head, stops, record, reads, report, hub>>

\* The merge whose weights are in the directory.
OnDisk == author["weights"]

\* decoder_target_pattern of the configuration that a merge loaded.
TargetsOf(m) == Targets[Revisions[record[m]]]

\* Mutant of DeltasOk: a tensor outside the targets is no reason to stop.
X_DeltasOk(m) == model[OnDisk].changed # {}

\* DeltaReport.ok of the weights on disk, against the targets of the configuration that
\* merge loaded.
DeltasOk(m) ==
    /\ model[OnDisk].changed # {}
    /\ model[OnDisk].changed \subseteq TargetsOf(m)

\* mkdir(parents=True) fails when the directory is there.
MergeProve(m) ==
    /\ pc[m] = "prove"
    /\ IF Readable("weights") /\ "mergeResults" \notin dirs
       THEN /\ Creates(m, "weight_deltas") /\ Goes(m, "weight_deltas")
            /\ model' = [model EXCEPT ![m].ok = DeltasOk(m)]
       ELSE Goes(m, "failed") /\ UNCHANGED <<disk, model>>
    /\ UNCHANGED <<head, stops, record, reads, report, hub>>

MergeProved(m) ==
    /\ pc[m] = "weight_deltas"
    /\ Closes(m, "weight_deltas")
    /\ Goes(m, IF model[m].ok THEN "transcribe" ELSE "failed")
    /\ UNCHANGED <<head, stops, record, reads, model, report, hub>>

\* smoke_transcribe: the weights are loaded again to transcribe the first clips of the dev
\* manifest, and no transcript may be empty.  The manifest is another command's file: it may
\* have no clips by now, and then nothing is transcribed and the test passes.
MergeTranscribe(m) ==
    /\ pc[m] = "transcribe"
    /\ \E clips \in BOOLEAN :
           IF Readable("weights") /\ (clips => model[OnDisk].speaks)
           THEN /\ Opens(m, "smoke") /\ Goes(m, "smoke")
                /\ model' = [model EXCEPT ![m].heard = clips]
           ELSE Goes(m, "failed") /\ UNCHANGED <<disk, model>>
    /\ UNCHANGED <<head, stops, record, reads, report, hub>>

MergeTranscribed(m) ==
    /\ pc[m] = "smoke"
    /\ ClosesAndOpens(m, "smoke", "merge_summary")
    /\ Goes(m, "merge_summary")
    /\ UNCHANGED <<head, stops, record, reads, model, report, hub>>

MergeDone(m) ==
    /\ pc[m] = "merge_summary"
    /\ Closes(m, "merge_summary")
    /\ Goes(m, "done")
    /\ UNCHANGED <<head, stops, record, reads, model, report, hub>>

Merge(m) ==
    \/ MergeStart(m) \/ MergeFold(m) \/ MergeFolded(m) \/ MergeProve(m)
    \/ MergeProved(m) \/ MergeTranscribe(m) \/ MergeTranscribed(m) \/ MergeDone(m)

(***************************************************************************)
(* eval                                                                    *)
(***************************************************************************)

\* The engine loads the merged weights; nothing is overwritten; every batch is aligned and
\* every id is the entry's.  (The record of an evaluation's own configuration is left out.)
EvalTranscribe(e) ==
    /\ MayStart(e)
    /\ Readable("weights") /\ "evalResults" \notin dirs
    /\ \E answers \in AnswersTo(Manifest) :
           /\ AllAligned(Manifest, answers) /\ Matched(Manifest, Transcripts(answers))
           /\ report' = [report EXCEPT ![e] = Report(Scored(Manifest, Transcripts(answers)))]
    /\ Goes(e, "report")
    /\ UNCHANGED <<head, stops, record, reads, disk, model, hub>>

\* Mutant of EvalWrite: the directory is made with exist_ok.
X_EvalWrite(e) ==
    /\ pc[e] = "report"
    /\ Creates(e, "hypotheses") /\ Goes(e, "hypotheses")
    /\ UNCHANGED <<head, stops, record, reads, model, report, hub>>

\* out_dir.mkdir(parents=True): an evaluation that came first makes this one fail.
EvalWrite(e) ==
    /\ pc[e] = "report"
    /\ IF "evalResults" \notin dirs
       THEN Creates(e, "hypotheses") /\ Goes(e, "hypotheses")
       ELSE Goes(e, "failed") /\ UNCHANGED disk
    /\ UNCHANGED <<head, stops, record, reads, model, report, hub>>

EvalWritten(e) ==
    /\ pc[e] = "hypotheses"
    /\ ClosesAndOpens(e, "hypotheses", "metrics")
    /\ Goes(e, "metrics")
    /\ UNCHANGED <<head, stops, record, reads, model, report, hub>>

EvalDone(e) ==
    /\ pc[e] = "metrics"
    /\ Closes(e, "metrics")
    /\ Goes(e, "done")
    /\ UNCHANGED <<head, stops, record, reads, model, report, hub>>

Evaluate(e) ==
    \/ EvalTranscribe(e) \/ EvalWrite(e) \/ EvalWritten(e) \/ EvalDone(e)

(***************************************************************************)
(* push                                                                    *)
(***************************************************************************)

\* Mutant of Verified: the deltas are taken for the whole verification.
X_Verified ==
    "merged" \in dirs /\ Readable("weight_deltas") /\ model[author["weight_deltas"]].ok

\* verified_merge: the directory and the summary exist, the files parse, the verdict is good.
Verified ==
    /\ "merged" \in dirs
    /\ Readable("merge_summary") /\ Readable("smoke")
    /\ Readable("weight_deltas") /\ model[author["weight_deltas"]].ok

\* The model card is written from what is read here; "results are never overwritten".
PushStart(p) ==
    /\ Starts(p)
    /\ "pushResults" \notin dirs /\ Verified
    /\ reads' = [reads EXCEPT ![p] = author["merge_summary"]]
    /\ Goes(p, "upload_weights")
    /\ UNCHANGED <<head, stops, disk, model, report, hub>>

\* Mutant of PushWeights: the upload is followed by the record, and the card forgotten.
X_PushWeights(p) ==
    /\ pc[p] = "upload_weights" /\ Present("weights")
    /\ hub' = [hub EXCEPT !.weights = OnDisk]
    /\ Goes(p, "record")
    /\ UNCHANGED <<head, stops, record, reads, disk, model, report>>

\* whoami and create_repo, or PermissionError without a login; then upload_folder sends what
\* is in the folder by now, whole or torn, in one commit, and raises if there is no folder.
PushWeights(p) ==
    /\ pc[p] = "upload_weights"
    /\ \/ /\ Present("weights")
          /\ hub' = [hub EXCEPT !.weights = OnDisk]
          /\ Goes(p, "upload_card")
       \/ Goes(p, "failed") /\ UNCHANGED hub
    /\ UNCHANGED <<head, stops, record, reads, disk, model, report>>

\* build_model_card: the commit of merge's record, the settings of push's configuration.
Card(p) ==
    [merge |-> reads[p], commit |-> record[reads[p]], settings |-> record[p]]

PushCard(p) ==
    /\ pc[p] = "upload_card"
    /\ hub' = [hub EXCEPT !.card = Card(p)]
    /\ Goes(p, "record")
    /\ UNCHANGED <<head, stops, record, reads, disk, model, report>>

\* The last mkdir: of two pushes of one run, one has no record.
PushRecord(p) ==
    /\ pc[p] = "record"
    /\ IF "pushResults" \notin dirs
       THEN Creates(p, "push_summary") /\ Goes(p, "push_summary")
       ELSE Goes(p, "failed") /\ UNCHANGED disk
    /\ UNCHANGED <<head, stops, record, reads, model, report, hub>>

PushDone(p) ==
    /\ pc[p] = "push_summary"
    /\ Closes(p, "push_summary")
    /\ Goes(p, "done")
    /\ UNCHANGED <<head, stops, record, reads, model, report, hub>>

Push(p) ==
    \/ PushStart(p) \/ PushWeights(p) \/ PushCard(p)
    \/ PushRecord(p) \/ PushDone(p)

(***************************************************************************)
(* The world around them                                                   *)
(***************************************************************************)

\* Killed, out of memory, or refused by the Hub: what it was writing stays torn.
Stop(j) ==
    /\ Active(j) /\ stops < MaxStops
    /\ stops' = stops + 1
    /\ Goes(j, "failed")
    /\ UNCHANGED <<head, record, reads, disk, model, report, hub>>

\* The operator removes a directory to run a command again; nothing runs meanwhile.
Discard(d) ==
    /\ \A j \in Jobs : ~Active(j)
    /\ d \in dirs
    /\ dirs' = dirs \ {d}
    /\ author' = [f \in Files |-> IF DirOf[f] = d THEN NoJob ELSE author[f]]
    /\ whole' = {f \in whole : DirOf[f] # d}
    /\ UNCHANGED <<head, stops, pc, record, reads, model, report, hub>>

\* A commit, which may change configs/lora.yaml.
Commit ==
    /\ head < Len(Revisions)
    /\ head' = head + 1
    /\ UNCHANGED <<stops, pc, record, reads, disk, model, report, hub>>

\* No command is running, and none need be given.
Finished == (\A j \in Jobs : ~Active(j)) /\ UNCHANGED vars

Next ==
    \/ \E t \in Trainers : Train(t)
    \/ \E m \in Mergers : Merge(m)
    \/ \E e \in Evaluators : Evaluate(e)
    \/ \E p \in Pushers : Push(p)
    \/ \E j \in Jobs : Stop(j)
    \/ \E d \in Discardable : Discard(d)
    \/ Commit
    \/ Finished

Spec == Init /\ [][Next]_vars

-----------------------------------------------------------------------------

Steps == {"start", "done", "failed", "fit", "save", "summarize", "fold", "prove", "transcribe",
          "report", "upload_weights", "upload_card", "record"} \cup Files

\* Type; a file that exists lies in a directory that exists.
TypeOK ==
    /\ head \in Commits /\ stops \in 0..MaxStops
    /\ pc \in [Jobs -> Steps]
    /\ record \in [Jobs -> Commits \cup {0}]
    /\ reads \in [Jobs -> Jobs \cup {NoJob}]
    /\ dirs \subseteq Dirs
    /\ author \in [Files -> Jobs \cup {NoJob}]
    /\ \A f \in Files : Present(f) => DirOf[f] \in dirs
    /\ whole \subseteq {f \in Files : Present(f)}
    /\ model \in [Mergers -> [changed : SUBSET Tensors, speaks : BOOLEAN, ok : BOOLEAN,
                           heard : BOOLEAN]]
    /\ DOMAIN report = Evaluators
    /\ hub \in [weights : Mergers \cup {NoJob},
                card : [merge : Mergers \cup {NoJob}, commit : Commits \cup {0},
                        settings : Commits \cup {0}]]

\* The weights and the results of a merge are never those of two: a verdict beside weights
\* is about these weights, through kills, retries and half-removed directories.
VerdictOfWeights ==
    \A f \in {"weight_deltas", "smoke", "merge_summary"} :
        Present(f) /\ Present("weights") =>
            author[f] = author["weights"] /\ "weights" \in whole

\* What the Hub holds passed its merge: some target changed, nothing outside them did, and
\* if its smoke.jsonl holds a transcript, the reloaded model does speak ("Publish a verified
\* merged checkpoint").  With an empty dev manifest there is none, and nothing to go by.
PublishedIsVerified ==
    hub.weights # NoJob =>
        /\ pc[hub.weights] = "done"
        /\ model[hub.weights].changed # {}
        /\ model[hub.weights].changed \subseteq TargetsOf(hub.weights)
        /\ model[hub.weights].heard => model[hub.weights].speaks

\* "results are never overwritten": no result directory of merge, eval or push mixes the
\* files of two processes.  (train makes its directories with exist_ok.)
OneAuthor ==
    \A f, g \in {h \in Files : Present(h) /\ DirOf[h] \in {"mergeResults", "evalResults",
                                                           "pushResults"}} :
        DirOf[f] = DirOf[g] => author[f] = author[g]

\* A summary that can be read says that all that comes before it is there: after a kill at
\* any step it is missing or torn.
SummaryIsLast ==
    /\ Readable("merge_summary") => Readable("weight_deltas") /\ Readable("smoke")
    /\ Readable("metrics") => Readable("hypotheses")
    /\ Readable("push_summary") =>
           /\ hub.weights = reads[author["push_summary"]]
           /\ hub.card.merge = reads[author["push_summary"]]

\* The numbers of a metrics.json add up: every clip of the manifest is in one bucket and one
\* category and is scored against its own reference, whatever the engine answered.
MetricsAddUp ==
    Readable("metrics") => AddsUp(report[author["metrics"]], Manifest)

Release ==
    INSTANCE ModelRelease
        WITH Models <- Mergers, NoModel <- NoJob,
             verified <- {m \in Mergers : pc[m] = "done"},
             published <- hub.weights,
             described <- hub.card.merge,
             recorded <- IF Readable("push_summary")
                         THEN reads[author["push_summary"]] ELSE NoJob

\* train, merge and push together implement ModelRelease.
ImplementsRelease == Release!Spec

\* What a model card says of the training: the commit it ran at and the LoRA settings it used
\* ("training commit", README; "trained at", the commit message of the upload).
CardTellsTraining ==
    hub.card # NoCard =>
        LET training == record[reads[hub.card.merge]]
        IN  hub.card.commit = training /\ Revisions[hub.card.settings] = Revisions[training]
=============================================================================
