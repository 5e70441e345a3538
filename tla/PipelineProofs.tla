--------------------------- MODULE PipelineProofs ---------------------------
(***************************************************************************)
(* Proofs about Pipeline, for any number of processes of every command and *)
(* any kills and removals, when the operator runs one merge at a time.     *)
(***************************************************************************)
EXTENDS Pipeline, EvaluationProofs, TLAPS

-----------------------------------------------------------------------------
(* The inductive invariant. *)

OneMerger == \A m, n \in Mergers : Active(m) /\ Active(n) => m = n

\* A process that goes on to open a file in a directory finds it there.
Homes ==
    \A j \in Jobs :
        /\ pc[j] = "save" => "ckpt" \in dirs
        /\ pc[j] = "train_summary" => "trainResults" \in dirs
        /\ pc[j] \in {"weight_deltas", "transcribe", "smoke"} => "mergeResults" \in dirs
        /\ pc[j] = "hypotheses" => "evalResults" \in dirs

Proving == {"weight_deltas", "transcribe", "smoke", "merge_summary"}

\* What a merge has established when it comes to a step.
MergeSteps ==
    \A m \in Mergers :
        /\ pc[m] = "fold" => "merged" \notin dirs /\ "mergeResults" \notin dirs
        /\ pc[m] \in {"weights", "prove"} => "mergeResults" \notin dirs
        /\ pc[m] \in {"weights", "prove"} \cup Proving => author["weights"] = m
        /\ pc[m] \in {"prove"} \cup Proving => "weights" \in whole
        /\ pc[m] \in Proving => "merge_summary" \notin whole

\* The verdict of a merge, from the moment it is reached.
Verdicts ==
    \A m \in Mergers :
        /\ model[m].ok => /\ pc[m] \notin {"start", "fold", "weights"}
                          /\ model[m].changed # {}
                          /\ model[m].changed \subseteq TargetsOf(m)
        /\ pc[m] \in {"transcribe", "smoke", "merge_summary", "done"} => model[m].ok
        /\ pc[m] \in {"smoke", "merge_summary", "done"} => (model[m].heard => model[m].speaks)

SummaryOfDone ==
    "merge_summary" \in whole =>
        author["merge_summary"] \in Mergers /\ pc[author["merge_summary"]] = "done"

\* While a push runs, nothing takes the merge away that it verified.
PushSteps ==
    \A p \in Pushers :
        /\ Active(p) => "merge_summary" \in whole /\ reads[p] = author["merge_summary"]
        /\ pc[p] \in {"upload_card", "record", "push_summary"} => hub.weights = reads[p]
        /\ pc[p] \in {"record", "push_summary"} => hub.card.merge = reads[p]

PushAuthor ==
    Present("push_summary") =>
        author["push_summary"] \in Pushers /\ pc[author["push_summary"]] # "start"

MergeInv == OneMerger /\ MergeSteps /\ VerdictOfWeights /\ Verdicts /\ SummaryOfDone

IInv == TypeOK /\ Homes /\ MergeInv /\ PushSteps /\ PushAuthor /\ PublishedIsVerified

-----------------------------------------------------------------------------
(* Processes, files and directories. *)

\* Every process runs one command, and NoJob is none of them.
LEMMA JobsApart ==
    /\ NoJob \notin Jobs
    /\ Trainers \cap Mergers = {} /\ Trainers \cap Evaluators = {} /\ Trainers \cap Pushers = {}
    /\ Mergers \cap Evaluators = {} /\ Mergers \cap Pushers = {}
    /\ Evaluators \cap Pushers = {}
  BY PipelineAssumption DEF PipelineAssumption

\* The files, and the directory of each.
LEMMA FileFacts ==
    /\ Files = {"best", "train_summary", "log_history", "weights", "weight_deltas", "smoke",
                "merge_summary", "hypotheses", "metrics", "push_summary"}
    /\ DirOf["best"] = "ckpt" /\ DirOf["train_summary"] = "trainResults"
    /\ DirOf["log_history"] = "trainResults" /\ DirOf["weights"] = "merged"
    /\ DirOf["weight_deltas"] = "mergeResults" /\ DirOf["smoke"] = "mergeResults"
    /\ DirOf["merge_summary"] = "mergeResults" /\ DirOf["hypotheses"] = "evalResults"
    /\ DirOf["metrics"] = "evalResults" /\ DirOf["push_summary"] = "pushResults"
    /\ \A f \in Files : DirOf[f] \in Dirs
  BY DEF DirOf, Files, Dirs

DiskOK ==
    /\ dirs \subseteq Dirs
    /\ author \in [Files -> Jobs \cup {NoJob}]
    /\ \A f \in Files : Present(f) => DirOf[f] \in dirs
    /\ whole \subseteq {f \in Files : Present(f)}

\* Opening and closing files leaves every file in a directory that exists.
LEMMA DiskKept ==
    ASSUME DiskOK, NEW j \in Jobs, NEW f \in Files, NEW g \in Files,
           \/ Creates(j, f) \/ (DirOf[f] \in dirs /\ Opens(j, f)) \/ Closes(j, f)
           \/ (DirOf[g] \in dirs /\ ClosesAndOpens(j, f, g)) \/ UNCHANGED disk
    PROVE  DiskOK'
  <1>1. j # NoJob
    BY JobsApart
  <1>2. CASE Creates(j, f)
    BY <1>1, <1>2, FileFacts DEF DiskOK, Creates, Present
  <1>3. CASE DirOf[f] \in dirs /\ Opens(j, f)
    BY <1>1, <1>3, FileFacts DEF DiskOK, Opens, Present
  <1>4. CASE Closes(j, f)
    BY <1>1, <1>4, FileFacts DEF DiskOK, Closes, Present
  <1>5. CASE DirOf[g] \in dirs /\ ClosesAndOpens(j, f, g)
    BY <1>1, <1>5, FileFacts DEF DiskOK, ClosesAndOpens, Present
  <1>6. CASE UNCHANGED disk
    BY <1>6 DEF DiskOK, disk, Present
  <1>. QED
    BY <1>2, <1>3, <1>4, <1>5, <1>6

-----------------------------------------------------------------------------
(* A merge is disturbed by no other command. *)

MergeFiles == {"weights", "weight_deltas", "smoke", "merge_summary"}

\* What a step leaves alone that is no step of a merge and removes nothing.
Frame ==
    /\ \A m \in Mergers : pc'[m] = pc[m] /\ record'[m] = record[m]
    /\ model' = model
    /\ \A f \in MergeFiles : author'[f] = author[f] /\ (f \in whole' <=> f \in whole)
    /\ \A d \in {"merged", "mergeResults"} : d \in dirs' <=> d \in dirs

\* A step that leaves merges and their files alone keeps what merges have established.
LEMMA FrameKeeps ==
    ASSUME MergeInv, Frame
    PROVE  MergeInv'
  <1>1. \A m \in Mergers : pc'[m] = pc[m] /\ TargetsOf(m)' = TargetsOf(m)
    BY DEF Frame, TargetsOf
  <1>2. OneMerger'
    BY <1>1 DEF MergeInv, OneMerger, Active
  <1>3. MergeSteps'
    BY <1>1 DEF MergeInv, MergeSteps, Proving, Frame, MergeFiles
  <1>4. VerdictOfWeights'
    BY DEF MergeInv, VerdictOfWeights, Frame, MergeFiles, Present
  <1>5. Verdicts'
    BY <1>1 DEF MergeInv, Verdicts, Frame
  <1>6. SummaryOfDone'
    BY <1>1 DEF MergeInv, SummaryOfDone, Frame, MergeFiles
  <1>. QED
    BY <1>2, <1>3, <1>4, <1>5, <1>6 DEF MergeInv

\* A step of process j that writes only the files fs, in the directories ds.
Within(j, fs, ds) ==
    /\ \A i \in Jobs \ {j} : pc'[i] = pc[i] /\ record'[i] = record[i] /\ reads'[i] = reads[i]
    /\ \A f \in Files \ fs : author'[f] = author[f] /\ (f \in whole' <=> f \in whole)
    /\ \A d \in Dirs \ ds : d \in dirs' <=> d \in dirs
    /\ dirs \subseteq dirs'

TrainFiles == {"best", "train_summary", "log_history"}

\* train writes only the checkpoint and its own results.
LEMMA TrainWithin ==
    ASSUME TypeOK, NEW t \in Trainers, Train(t)
    PROVE  Within(t, TrainFiles, {"ckpt", "trainResults"}) /\ model' = model /\ hub' = hub
           /\ reads' = reads
  <1>. USE FileFacts DEF Within, TrainFiles, TypeOK, Jobs, Goes, disk
  <1>1. CASE TrainStart(t)
    BY <1>1 DEF TrainStart, Starts
  <1>2. CASE TrainFit(t)
    BY <1>2 DEF TrainFit
  <1>3. CASE TrainSave(t)
    BY <1>3 DEF TrainSave, Opens
  <1>4. CASE TrainSaved(t)
    BY <1>4 DEF TrainSaved, Closes
  <1>5. CASE TrainSummarize(t)
    BY <1>5 DEF TrainSummarize, Creates
  <1>6. CASE TrainSummarized(t)
    BY <1>6 DEF TrainSummarized, ClosesAndOpens
  <1>7. CASE TrainDone(t)
    BY <1>7 DEF TrainDone, Closes
  <1>. QED
    BY <1>1, <1>2, <1>3, <1>4, <1>5, <1>6, <1>7 DEF Train

\* eval writes only its own results.
LEMMA EvalWithin ==
    ASSUME TypeOK, NEW e \in Evaluators, Evaluate(e)
    PROVE  Within(e, {"hypotheses", "metrics"}, {"evalResults"}) /\ model' = model /\ hub' = hub
           /\ reads' = reads
  <1>. USE FileFacts DEF Within, TypeOK, Jobs, Goes, disk
  <1>1. CASE EvalTranscribe(e)
    BY <1>1 DEF EvalTranscribe
  <1>2. CASE EvalWrite(e)
    BY <1>2 DEF EvalWrite, Creates
  <1>3. CASE EvalWritten(e)
    BY <1>3 DEF EvalWritten, ClosesAndOpens
  <1>4. CASE EvalDone(e)
    BY <1>4 DEF EvalDone, Closes
  <1>. QED
    BY <1>1, <1>2, <1>3, <1>4 DEF Evaluate

\* push writes only its own results, and to the Hub.
LEMMA PushWithin ==
    ASSUME TypeOK, NEW p \in Pushers, Push(p)
    PROVE  Within(p, {"push_summary"}, {"pushResults"}) /\ model' = model
  <1>. USE FileFacts DEF Within, TypeOK, Jobs, Goes, disk
  <1>1. CASE PushStart(p)
    BY <1>1 DEF PushStart, Starts
  <1>2. CASE PushWeights(p)
    BY <1>2 DEF PushWeights
  <1>3. CASE PushCard(p)
    BY <1>3 DEF PushCard
  <1>4. CASE PushRecord(p)
    BY <1>4 DEF PushRecord, Creates
  <1>5. CASE PushDone(p)
    BY <1>5 DEF PushDone, Closes
  <1>. QED
    BY <1>1, <1>2, <1>3, <1>4, <1>5 DEF Push

\* merge writes only the merged weights and its own results.
LEMMA MergeWithin ==
    ASSUME TypeOK, NEW m \in Mergers, Merge(m)
    PROVE  Within(m, MergeFiles, {"merged", "mergeResults"}) /\ hub' = hub
           /\ \A n \in Mergers \ {m} : model'[n] = model[n]
  <1>. USE FileFacts DEF Within, TypeOK, Jobs, Goes, disk, MergeFiles
  <1>1. CASE MergeStart(m)
    BY <1>1 DEF MergeStart, Starts
  <1>2. CASE MergeFold(m)
    BY <1>2 DEF MergeFold, Creates
  <1>3. CASE MergeFolded(m)
    BY <1>3 DEF MergeFolded, Closes
  <1>4. CASE MergeProve(m)
    BY <1>4 DEF MergeProve, Creates
  <1>5. CASE MergeProved(m)
    BY <1>5 DEF MergeProved, Closes
  <1>6. CASE MergeTranscribe(m)
    BY <1>6 DEF MergeTranscribe, Opens
  <1>7. CASE MergeTranscribed(m)
    BY <1>7 DEF MergeTranscribed, ClosesAndOpens
  <1>8. CASE MergeDone(m)
    BY <1>8 DEF MergeDone, Closes
  <1>. QED
    BY <1>1, <1>2, <1>3, <1>4, <1>5, <1>6, <1>7, <1>8 DEF Merge

\* Steps of the other commands leave the files and the processes of merges alone.
LEMMA WithinFrame ==
    ASSUME NEW j \in Jobs \ Mergers, NEW fs, NEW ds, Within(j, fs, ds), model' = model,
           fs \cap MergeFiles = {}, "merged" \notin ds, "mergeResults" \notin ds
    PROVE  Frame
  BY FileFacts DEF Within, Frame, MergeFiles, Jobs, Dirs

-----------------------------------------------------------------------------
(* Types. *)

\* What a merge has made.
MadeType == [changed : SUBSET Tensors, speaks : BOOLEAN, ok : BOOLEAN, heard : BOOLEAN]

RestOK ==
    /\ head \in Commits /\ stops \in 0..MaxStops
    /\ pc \in [Jobs -> Steps]
    /\ record \in [Jobs -> Commits \cup {0}]
    /\ reads \in [Jobs -> Jobs \cup {NoJob}]
    /\ model \in [Mergers -> MadeType]
    /\ DOMAIN report = Evaluators
    /\ hub \in [weights : Mergers \cup {NoJob},
                card : [merge : Mergers \cup {NoJob}, commit : Commits \cup {0},
                        settings : Commits \cup {0}]]

\* The types, in two parts: the disk, and the rest.
LEMMA TypeSplit == TypeOK <=> RestOK /\ DiskOK
  BY DEF TypeOK, RestOK, DiskOK, MadeType

\* A step of train keeps the types, and finds the directories it writes to.
LEMMA TrainTyped ==
    ASSUME RestOK, DiskOK, Homes, PushSteps, SummaryOfDone, VerdictOfWeights,
           NEW t \in Trainers, Train(t)
    PROVE  RestOK' /\ DiskOK' /\ Homes'
  <1>. t \in Jobs
    BY DEF Jobs
  <1>. USE DEF Steps
  <1>1. CASE TrainStart(t)
    <2>1. DiskOK'
      BY <1>1, DiskKept, FileFacts DEF TrainStart, disk
    <2>2. RestOK'
      BY <1>1, FileFacts DEF TrainStart, RestOK, Goes, disk, Starts, RestOK
    <2>3. Homes'
      BY <1>1, FileFacts DEF TrainStart, Homes, Goes, RestOK, disk
    <2>. QED
      BY <2>1, <2>2, <2>3
  <1>2. CASE TrainFit(t)
    <2>1. DiskOK'
      BY <1>2, FileFacts DEF TrainFit, DiskOK, Present
    <2>2. RestOK'
      BY <1>2, FileFacts DEF TrainFit, RestOK, Goes, disk
    <2>3. Homes'
      BY <1>2, FileFacts DEF TrainFit, Homes, Goes, RestOK, disk
    <2>. QED
      BY <2>1, <2>2, <2>3
  <1>3. CASE TrainSave(t)
    <2>1. DiskOK'
      BY <1>3, DiskKept, FileFacts DEF TrainSave, Homes
    <2>2. RestOK'
      BY <1>3, FileFacts DEF TrainSave, RestOK, Goes, disk
    <2>3. Homes'
      BY <1>3, FileFacts DEF TrainSave, Homes, Goes, RestOK, Opens, disk
    <2>. QED
      BY <2>1, <2>2, <2>3
  <1>4. CASE TrainSaved(t)
    <2>1. DiskOK'
      BY <1>4, DiskKept, FileFacts DEF TrainSaved, Homes
    <2>2. RestOK'
      BY <1>4, FileFacts DEF TrainSaved, RestOK, Goes, disk
    <2>3. Homes'
      BY <1>4, FileFacts DEF TrainSaved, Homes, Goes, RestOK, Closes
    <2>. QED
      BY <2>1, <2>2, <2>3
  <1>5. CASE TrainSummarize(t)
    <2>1. DiskOK'
      BY <1>5, DiskKept, FileFacts DEF TrainSummarize, Homes
    <2>2. RestOK'
      BY <1>5, FileFacts DEF TrainSummarize, RestOK, Goes, disk
    <2>3. Homes'
      BY <1>5, FileFacts DEF TrainSummarize, Homes, Goes, RestOK, Creates, disk
    <2>. QED
      BY <2>1, <2>2, <2>3
  <1>6. CASE TrainSummarized(t)
    <2>1. DiskOK'
      BY <1>6, DiskKept, FileFacts DEF TrainSummarized, Homes
    <2>2. RestOK'
      BY <1>6, FileFacts DEF TrainSummarized, RestOK, Goes, disk
    <2>3. Homes'
      BY <1>6, FileFacts DEF TrainSummarized, Homes, Goes, RestOK, ClosesAndOpens
    <2>. QED
      BY <2>1, <2>2, <2>3
  <1>7. CASE TrainDone(t)
    <2>1. DiskOK'
      BY <1>7, DiskKept, FileFacts DEF TrainDone, Homes
    <2>2. RestOK'
      BY <1>7, FileFacts DEF TrainDone, RestOK, Goes, disk
    <2>3. Homes'
      BY <1>7, FileFacts DEF TrainDone, Homes, Goes, RestOK, Closes
    <2>. QED
      BY <2>1, <2>2, <2>3
  <1>. QED
    BY <1>1, <1>2, <1>3, <1>4, <1>5, <1>6, <1>7 DEF Train

\* A step of eval keeps the types, and finds the directory it writes to.
LEMMA EvalTyped ==
    ASSUME RestOK, DiskOK, Homes, PushSteps, SummaryOfDone, VerdictOfWeights,
           NEW e \in Evaluators, Evaluate(e)
    PROVE  RestOK' /\ DiskOK' /\ Homes'
  <1>. e \in Jobs
    BY DEF Jobs
  <1>. USE DEF Steps
  <1>1. CASE EvalTranscribe(e)
    <2>1. DiskOK'
      BY <1>1, DiskKept, FileFacts DEF EvalTranscribe, disk
    <2>2. RestOK'
      BY <1>1, FileFacts DEF EvalTranscribe, RestOK, Goes, disk
    <2>3. Homes'
      BY <1>1, FileFacts DEF EvalTranscribe, Homes, Goes, RestOK, disk
    <2>. QED
      BY <2>1, <2>2, <2>3
  <1>2. CASE EvalWrite(e)
    <2>1. DiskOK'
      BY <1>2, DiskKept, FileFacts DEF EvalWrite, Homes
    <2>2. RestOK'
      BY <1>2, FileFacts DEF EvalWrite, RestOK, Goes, disk
    <2>3. Homes'
      BY <1>2, FileFacts DEF EvalWrite, Homes, Goes, RestOK, Creates, disk
    <2>. QED
      BY <2>1, <2>2, <2>3
  <1>3. CASE EvalWritten(e)
    <2>1. DiskOK'
      BY <1>3, DiskKept, FileFacts DEF EvalWritten, Homes
    <2>2. RestOK'
      BY <1>3, FileFacts DEF EvalWritten, RestOK, Goes, disk
    <2>3. Homes'
      BY <1>3, FileFacts DEF EvalWritten, Homes, Goes, RestOK, ClosesAndOpens
    <2>. QED
      BY <2>1, <2>2, <2>3
  <1>4. CASE EvalDone(e)
    <2>1. DiskOK'
      BY <1>4, DiskKept, FileFacts DEF EvalDone, Homes
    <2>2. RestOK'
      BY <1>4, FileFacts DEF EvalDone, RestOK, Goes, disk
    <2>3. Homes'
      BY <1>4, FileFacts DEF EvalDone, Homes, Goes, RestOK, Closes
    <2>. QED
      BY <2>1, <2>2, <2>3
  <1>. QED
    BY <1>1, <1>2, <1>3, <1>4 DEF Evaluate

\* A step of push keeps the types: what goes to the Hub is the weights of a merge.
LEMMA PushTyped ==
    ASSUME RestOK, DiskOK, Homes, PushSteps, SummaryOfDone, VerdictOfWeights,
           NEW p \in Pushers, Push(p)
    PROVE  RestOK' /\ DiskOK' /\ Homes'
  <1>. p \in Jobs
    BY DEF Jobs
  <1>. USE DEF Steps
  <1>1. CASE PushStart(p)
    <2>1. DiskOK'
      BY <1>1, DiskKept, FileFacts DEF PushStart, disk
    <2>2. RestOK'
      BY <1>1, FileFacts DEF PushStart, DiskOK, RestOK, Goes, disk, Starts
    <2>3. Homes'
      BY <1>1, FileFacts DEF PushStart, Homes, Goes, RestOK, disk
    <2>. QED
      BY <2>1, <2>2, <2>3
  <1>2. CASE PushWeights(p)
    <2>1. DiskOK'
      BY <1>2, DiskKept, FileFacts DEF PushWeights, disk
    <2>2. RestOK'
      <3>1. Present("weights") => OnDisk \in Mergers
        BY <1>2, FileFacts DEF PushSteps, Active, VerdictOfWeights, SummaryOfDone, Readable,
           Present, OnDisk, DiskOK, PushWeights
      <3>. QED
        BY <3>1, <1>2, FileFacts DEF PushWeights, RestOK, Goes
    <2>3. Homes'
      BY <1>2, FileFacts DEF PushWeights, Homes, Goes, RestOK, disk
    <2>. QED
      BY <2>1, <2>2, <2>3
  <1>3. CASE PushCard(p)
    <2>1. DiskOK'
      BY <1>3, DiskKept, FileFacts DEF PushCard, disk
    <2>2. RestOK'
      <3>1. reads[p] \in Mergers /\ record[reads[p]] \in Commits \cup {0}
        BY <1>3 DEF PushSteps, Active, SummaryOfDone, PushCard, RestOK, Jobs
      <3>2. hub' = [hub EXCEPT !.card = Card(p)] /\ Card(p) \in
                [merge : Mergers \cup {NoJob}, commit : Commits \cup {0},
                 settings : Commits \cup {0}]
        BY <3>1, <1>3 DEF Card, PushCard, RestOK
      <3>. QED
        BY <3>2, <1>3, FileFacts DEF PushCard, RestOK, Goes
    <2>3. Homes'
      BY <1>3, FileFacts DEF PushCard, Homes, Goes, RestOK, disk
    <2>. QED
      BY <2>1, <2>2, <2>3
  <1>4. CASE PushRecord(p)
    <2>1. DiskOK'
      BY <1>4, DiskKept, FileFacts DEF PushRecord, Homes
    <2>2. RestOK'
      BY <1>4, FileFacts DEF PushRecord, RestOK, Goes, disk
    <2>3. Homes'
      BY <1>4, FileFacts DEF PushRecord, Homes, Goes, RestOK, Creates, disk
    <2>. QED
      BY <2>1, <2>2, <2>3
  <1>5. CASE PushDone(p)
    <2>1. DiskOK'
      BY <1>5, DiskKept, FileFacts DEF PushDone, Homes
    <2>2. RestOK'
      BY <1>5, FileFacts DEF PushDone, RestOK, Goes, disk
    <2>3. Homes'
      BY <1>5, FileFacts DEF PushDone, Homes, Goes, RestOK, Closes
    <2>. QED
      BY <2>1, <2>2, <2>3
  <1>. QED
    BY <1>1, <1>2, <1>3, <1>4, <1>5 DEF Push

\* A step of merge keeps the types, and finds the directories it writes to.
LEMMA MergeTyped ==
    ASSUME RestOK, DiskOK, Homes, PushSteps, SummaryOfDone, VerdictOfWeights,
           NEW m \in Mergers, Merge(m)
    PROVE  RestOK' /\ DiskOK' /\ Homes'
  <1>. m \in Jobs
    BY DEF Jobs
  <1>. USE DEF Steps
  <1>1. CASE MergeStart(m)
    <2>1. DiskOK'
      BY <1>1, DiskKept, FileFacts DEF MergeStart, disk
    <2>2. RestOK'
      BY <1>1, FileFacts DEF MergeStart, RestOK, Goes, disk, Starts
    <2>3. Homes'
      BY <1>1, FileFacts DEF MergeStart, Homes, Goes, RestOK, disk
    <2>. QED
      BY <2>1, <2>2, <2>3
  <1>2. CASE MergeFold(m)
    <2>1. DiskOK'
      BY <1>2, DiskKept, FileFacts DEF MergeFold, Homes
    <2>2. RestOK'
      BY <1>2, FileFacts DEF MergeFold, DiskOK, RestOK, Goes, disk
    <2>3. Homes'
      BY <1>2, FileFacts DEF MergeFold, Homes, Goes, RestOK, Creates, disk
    <2>. QED
      BY <2>1, <2>2, <2>3
  <1>3. CASE MergeFolded(m)
    <2>1. DiskOK'
      BY <1>3, DiskKept, FileFacts DEF MergeFolded, Homes
    <2>2. RestOK'
      <3>1. \A o \in Outcomes : o \in MadeType
        BY PipelineAssumption DEF PipelineAssumption, MadeType
      <3>2. model' \in [Mergers -> MadeType]
        BY <3>1, <1>3 DEF MergeFolded, RestOK
      <3>. QED
        BY <3>2, <1>3, FileFacts DEF MergeFolded, RestOK, Goes
    <2>3. Homes'
      BY <1>3, FileFacts DEF MergeFolded, Homes, Goes, RestOK, Closes
    <2>. QED
      BY <2>1, <2>2, <2>3
  <1>4. CASE MergeProve(m)
    <2>1. DiskOK'
      BY <1>4, DiskKept, FileFacts DEF MergeProve, Homes
    <2>2. RestOK'
      <3>. DEFINE V == DeltasOk(m)
      <3>1. V \in BOOLEAN
        BY DEF DeltasOk
      <3>2. [model[m] EXCEPT !.ok = V] \in MadeType
        <4>. HIDE DEF V
        <4>1. model[m] \in MadeType
          BY DEF RestOK
        <4>. QED
          BY <3>1, <4>1 DEF MadeType
      <3>3. model' = model \/ model' = [model EXCEPT ![m] = [model[m] EXCEPT !.ok = V]]
        <4>1. model' = model \/ model' = [model EXCEPT ![m].ok = V]
          BY <1>4 DEF MergeProve
        <4>. HIDE DEF V
        <4>. QED
          BY <4>1
      <3>4. model' \in [Mergers -> MadeType]
        <4>. HIDE DEF V
        <4>. QED
          BY <3>2, <3>3 DEF RestOK
      <3>. QED
        BY <3>4, <1>4, FileFacts DEF MergeProve, RestOK, Goes, disk
    <2>3. Homes'
      BY <1>4, FileFacts DEF MergeProve, Homes, Goes, RestOK, Creates, disk
    <2>. QED
      BY <2>1, <2>2, <2>3
  <1>5. CASE MergeProved(m)
    <2>1. DiskOK'
      BY <1>5, DiskKept, FileFacts DEF MergeProved, Homes
    <2>2. RestOK'
      BY <1>5, FileFacts DEF MergeProved, RestOK, Goes, disk
    <2>3. Homes'
      BY <1>5, FileFacts DEF MergeProved, Homes, Goes, RestOK, Closes
    <2>. QED
      BY <2>1, <2>2, <2>3
  <1>6. CASE MergeTranscribe(m)
    <2>1. DiskOK'
      BY <1>6, DiskKept, FileFacts DEF MergeTranscribe, Homes
    <2>2. RestOK'
      <3>1. model' \in [Mergers -> MadeType]
        <4>1. PICK clips \in BOOLEAN :
                model' = model \/ model' = [model EXCEPT ![m] = [model[m] EXCEPT !.heard = clips]]
          BY <1>6 DEF MergeTranscribe
        <4>2. [model[m] EXCEPT !.heard = clips] \in MadeType
          BY DEF RestOK, MadeType
        <4>. QED
          BY <4>1, <4>2 DEF RestOK
      <3>2. head' = head /\ stops' = stops /\ record' = record /\ reads' = reads
            /\ report' = report /\ hub' = hub /\ pc' \in [Jobs -> Steps]
        BY <1>6, FileFacts DEF MergeTranscribe, RestOK, Goes
      <3>. QED
        BY <3>1, <3>2 DEF RestOK
    <2>3. Homes'
      BY <1>6, FileFacts DEF MergeTranscribe, Homes, Goes, RestOK, Opens, disk
    <2>. QED
      BY <2>1, <2>2, <2>3
  <1>7. CASE MergeTranscribed(m)
    <2>1. DiskOK'
      BY <1>7, DiskKept, FileFacts DEF MergeTranscribed, Homes
    <2>2. RestOK'
      BY <1>7, FileFacts DEF MergeTranscribed, RestOK, Goes, disk
    <2>3. Homes'
      BY <1>7, FileFacts DEF MergeTranscribed, Homes, Goes, RestOK, ClosesAndOpens
    <2>. QED
      BY <2>1, <2>2, <2>3
  <1>8. CASE MergeDone(m)
    <2>1. DiskOK'
      BY <1>8, DiskKept, FileFacts DEF MergeDone, Homes
    <2>2. RestOK'
      BY <1>8, FileFacts DEF MergeDone, RestOK, Goes, disk
    <2>3. Homes'
      BY <1>8, FileFacts DEF MergeDone, Homes, Goes, RestOK, Closes
    <2>. QED
      BY <2>1, <2>2, <2>3
  <1>. QED
    BY <1>1, <1>2, <1>3, <1>4, <1>5, <1>6, <1>7, <1>8 DEF Merge

\* What happens around the commands.
World == (\E j \in Jobs : Stop(j)) \/ (\E d \in Discardable : Discard(d)) \/ Commit \/ Finished

\* Kills, removals and commits keep the types.
LEMMA WorldTyped ==
    ASSUME RestOK, DiskOK, Homes, World
    PROVE  RestOK' /\ DiskOK' /\ Homes'
  <1>1. CASE \E j \in Jobs : Stop(j)
    <2>. PICK j \in Jobs : Stop(j)
      BY <1>1
    <2>1. stops' \in 0..MaxStops
      BY PipelineAssumption DEF PipelineAssumption, Stop, RestOK
    <2>2. pc' \in [Jobs -> Steps]
      BY DEF Stop, RestOK, Goes, Steps
    <2>. QED
      BY <2>1, <2>2 DEF Stop, RestOK, DiskOK, Homes, Goes, disk, Present
  <1>2. CASE \E d \in Discardable : Discard(d)
    <2>. PICK d \in Discardable : Discard(d)
      BY <1>2
    <2>1. DiskOK'
      BY JobsApart, FileFacts DEF Discard, DiskOK, Present
    <2>. QED
      BY <2>1 DEF Discard, RestOK, Homes, Active
  <1>3. CASE Commit
    <2>1. head' \in Commits
      BY <1>3, PipelineAssumption DEF PipelineAssumption, Commit, RestOK, Commits
    <2>. QED
      BY <2>1, <1>3 DEF Commit, RestOK, DiskOK, Homes, disk, Present
  <1>4. CASE Finished
    BY <1>4 DEF Finished, vars, RestOK, DiskOK, Homes, disk, Present
  <1>. QED
    BY <1>1, <1>2, <1>3, <1>4 DEF World

-----------------------------------------------------------------------------
(* A merge and its verdict. *)

\* The operator runs one merge at a time; a step of a merge is a step of the one that runs.
LEMMA OneMergerKept ==
    ASSUME Mergers \in Exclusive, RestOK, OneMerger, NEW m \in Mergers, Merge(m)
    PROVE  /\ OneMerger'
           /\ \A n \in Mergers \ {m} : ~Active(n) /\ pc'[n] = pc[n]
  <1>1. \A n \in Jobs \ {m} : pc'[n] = pc[n]
    BY DEF Merge, MergeStart, MergeFold, MergeFolded, MergeProve, MergeProved, MergeTranscribe,
       MergeTranscribed, MergeDone, Goes, RestOK, Jobs
  <1>2. Active(m) \/ MergeStart(m)
    BY DEF Active, Merge, MergeFold, MergeFolded, MergeProve, MergeProved, MergeTranscribe,
       MergeTranscribed, MergeDone
  <1>3. \A n \in Mergers \ {m} : ~Active(n)
    BY <1>2 DEF OneMerger, MergeStart, Starts, MayStart
  <1>. QED
    BY <1>1, <1>3 DEF OneMerger, Active, Jobs

\* What a merge has established, but for being alone.
MergeKept == MergeSteps /\ VerdictOfWeights /\ Verdicts /\ SummaryOfDone

\* A step of the merge that runs: the verdict it writes is about the weights it wrote.
LEMMA MergeKeeps ==
    ASSUME RestOK, DiskOK, MergeKept, NEW m \in Mergers, Merge(m),
           \A n \in Mergers \ {m} : ~Active(n) /\ pc'[n] = pc[n]
    PROVE  MergeKept'
  <1>. m \in Jobs
    BY DEF Jobs
  <1>0. \A n \in Mergers \ {m} : pc[n] \in {"start", "done", "failed"}
    BY DEF Active
  <1>1. CASE MergeStart(m)
    <2>1. MergeSteps'
      BY <1>0, <1>1 DEF MergeStart, Starts, MayStart, MergeAllowed, MergeSteps, Proving, Goes,
         RestOK, disk
    <2>2. VerdictOfWeights'
      BY <1>1 DEF MergeStart, MergeKept, VerdictOfWeights, Present, disk
    <2>3. Verdicts'
      BY <1>0, <1>1 DEF MergeStart, Starts, MayStart, MergeKept, Verdicts, Goes, RestOK, TargetsOf
    <2>4. SummaryOfDone'
      BY <1>1 DEF MergeStart, Starts, MayStart, MergeKept, SummaryOfDone, Goes, RestOK, disk, Jobs
    <2>. QED
      BY <2>1, <2>2, <2>3, <2>4 DEF MergeKept
  <1>2. CASE MergeFold(m)
    <2>1. MergeSteps'
      BY <1>0, <1>2, FileFacts DEF MergeFold, MergeKept, MergeSteps, Proving, Goes,
         RestOK, DiskOK, disk, Creates
    <2>2. VerdictOfWeights'
      BY <1>2, FileFacts DEF MergeFold, MergeKept, MergeSteps, VerdictOfWeights, Present, disk,
         Creates, DiskOK
    <2>3. Verdicts'
      BY <1>0, <1>2 DEF MergeFold, MergeKept, Verdicts, Goes, RestOK, TargetsOf
    <2>4. SummaryOfDone'
      BY <1>2, FileFacts DEF MergeFold, MergeKept, SummaryOfDone, Goes, RestOK, DiskOK, disk,
         Creates, Jobs
    <2>. QED
      BY <2>1, <2>2, <2>3, <2>4 DEF MergeKept
  <1>3. CASE MergeFolded(m)
    <2>1. MergeSteps'
      BY <1>0, <1>3, FileFacts DEF MergeFolded, MergeKept, MergeSteps, Proving, Goes,
         RestOK, DiskOK, Closes
    <2>2. VerdictOfWeights'
      BY <1>3, FileFacts DEF MergeFolded, MergeKept, MergeSteps, VerdictOfWeights, Present,
         Closes, DiskOK
    <2>3. Verdicts'
      <3>1. ~model'[m].ok
        <4>1. PICK outcome \in Outcomes : model' = [model EXCEPT ![m] = outcome]
          BY <1>3 DEF MergeFolded
        <4>2. model'[m] = outcome
          BY <4>1 DEF RestOK
        <4>3. \A o \in Outcomes : o.ok = FALSE
          BY PipelineAssumption DEF PipelineAssumption
        <4>4. outcome.ok = FALSE
          BY <4>1, <4>3
        <4>. QED
          BY <4>2, <4>4
      <3>2. \A n \in Mergers \ {m} : model'[n] = model[n]
        BY <1>3 DEF MergeFolded, RestOK
      <3>3. pc'[m] = "prove"
        BY <1>3 DEF MergeFolded, Goes, RestOK
      <3>4. \A n \in Mergers : TargetsOf(n)' = TargetsOf(n)
        BY <1>3 DEF MergeFolded, TargetsOf
      <3>. QED
        BY <1>0, <3>1, <3>2, <3>3, <3>4 DEF MergeKept, Verdicts
    <2>4. SummaryOfDone'
      BY <1>3, FileFacts DEF MergeFolded, MergeKept, SummaryOfDone, Goes, RestOK, DiskOK,
         Closes, Jobs
    <2>. QED
      BY <2>1, <2>2, <2>3, <2>4 DEF MergeKept
  <1>4. CASE MergeProve(m)
    <2>1. MergeSteps'
      BY <1>0, <1>4, FileFacts DEF MergeProve, MergeKept, MergeSteps, Proving, Goes, Present,
         RestOK, DiskOK, Creates, disk
    <2>2. VerdictOfWeights'
      BY <1>4, FileFacts DEF MergeProve, MergeKept, MergeSteps, VerdictOfWeights, Present,
         Readable, Creates, DiskOK, disk
    <2>3. Verdicts'
      <3>. DEFINE V == DeltasOk(m)
      <3>0. OnDisk = m
        BY <1>4 DEF MergeProve, MergeKept, MergeSteps, OnDisk
      <3>1. V <=> model[m].changed # {} /\ model[m].changed \subseteq TargetsOf(m)
        BY <3>0 DEF DeltasOk
      <3>2. model' = model \/ model' = [model EXCEPT ![m].ok = V]
        BY <1>4 DEF MergeProve
      <3>3. \A n \in Mergers \ {m} : model'[n] = model[n]
        <4>. HIDE DEF V
        <4>. QED
          BY <3>2 DEF RestOK
      <3>4. /\ model'[m].changed = model[m].changed /\ model'[m].speaks = model[m].speaks
            /\ model'[m].heard = model[m].heard
        <4>. HIDE DEF V
        <4>. QED
          BY <3>2 DEF RestOK, MadeType
      <3>5. model'[m].ok => model[m].ok \/ V
        <4>. HIDE DEF V
        <4>1. model[m] \in MadeType
          BY DEF RestOK
        <4>2. CASE model' = [model EXCEPT ![m].ok = V]
          <5>1. model'[m].ok = V
            BY <4>1, <4>2 DEF RestOK, MadeType
          <5>. QED
            BY <5>1
        <4>. QED
          BY <3>2, <4>2
      <3>6. \A n \in Mergers : TargetsOf(n)' = TargetsOf(n)
        BY <1>4 DEF MergeProve, TargetsOf
      <3>7. pc[m] = "prove" /\ pc'[m] \in {"weight_deltas", "failed"}
        BY <1>4 DEF MergeProve, Goes, RestOK
      <3>. HIDE DEF V
      <3>. QED
        BY <1>0, <3>1, <3>3, <3>4, <3>5, <3>6, <3>7 DEF MergeKept, Verdicts
    <2>4. SummaryOfDone'
      BY <1>4, FileFacts DEF MergeProve, MergeKept, SummaryOfDone, Goes, RestOK, DiskOK,
         Creates, disk, Jobs
    <2>. QED
      BY <2>1, <2>2, <2>3, <2>4 DEF MergeKept
  <1>5. CASE MergeProved(m)
    <2>1. MergeSteps'
      BY <1>0, <1>5, FileFacts DEF MergeProved, MergeKept, MergeSteps, Proving, Goes, Present,
         RestOK, DiskOK, Closes, disk
    <2>2. VerdictOfWeights'
      BY <1>5, FileFacts DEF MergeProved, MergeKept, MergeSteps, Proving, VerdictOfWeights, Present,
         Closes, DiskOK, disk
    <2>3. Verdicts'
      BY <1>0, <1>5 DEF MergeProved, MergeKept, MergeSteps, Proving, Verdicts, Goes, RestOK,
         TargetsOf, OnDisk
    <2>4. SummaryOfDone'
      BY <1>5, FileFacts DEF MergeProved, MergeKept, MergeSteps, Proving, SummaryOfDone, Goes, RestOK,
         DiskOK, Closes, disk, Jobs
    <2>. QED
      BY <2>1, <2>2, <2>3, <2>4 DEF MergeKept
  <1>6. CASE MergeTranscribe(m)
    <2>1. MergeSteps'
      BY <1>0, <1>6, FileFacts DEF MergeTranscribe, MergeKept, MergeSteps, Proving, Goes, Present,
         RestOK, DiskOK, Opens, Readable, OnDisk, disk
    <2>2. VerdictOfWeights'
      BY <1>6, FileFacts DEF MergeTranscribe, MergeKept, MergeSteps, Proving, VerdictOfWeights, Present,
         Opens, Readable, OnDisk, DiskOK, disk
    <2>3. Verdicts'
      <3>1. OnDisk = m
        BY <1>6 DEF MergeTranscribe, MergeKept, MergeSteps, Proving, OnDisk
      <3>2. PICK clips \in BOOLEAN :
              \/ /\ clips => model[m].speaks
                 /\ model' = [model EXCEPT ![m].heard = clips] /\ Goes(m, "smoke")
              \/ Goes(m, "failed") /\ model' = model
        BY <1>6, <3>1 DEF MergeTranscribe
      <3>3. /\ \A n \in Mergers \ {m} : model'[n] = model[n]
            /\ model'[m].changed = model[m].changed /\ model'[m].speaks = model[m].speaks
            /\ model'[m].ok = model[m].ok
        BY <3>2 DEF RestOK, MadeType
      <3>4. pc'[m] = "smoke" => (model'[m].heard => model'[m].speaks)
        <4>1. CASE Goes(m, "failed")
          BY <4>1 DEF RestOK, Goes
        <4>2. CASE model' = [model EXCEPT ![m].heard = clips] /\ (clips => model[m].speaks)
          <5>1. model[m] \in MadeType
            BY DEF RestOK
          <5>2. model'[m].heard = clips
            BY <4>2, <5>1 DEF RestOK, MadeType
          <5>. QED
            BY <3>3, <4>2, <5>2
        <4>. QED
          BY <3>2, <4>1, <4>2
      <3>5. pc[m] = "transcribe" /\ pc'[m] \in {"smoke", "failed"}
        BY <1>6 DEF MergeTranscribe, Goes, RestOK
      <3>6. \A n \in Mergers : TargetsOf(n)' = TargetsOf(n)
        BY <1>6 DEF MergeTranscribe, TargetsOf
      <3>. QED
        BY <1>0, <3>3, <3>4, <3>5, <3>6 DEF MergeKept, Verdicts
    <2>4. SummaryOfDone'
      BY <1>6, FileFacts DEF MergeTranscribe, MergeKept, MergeSteps, Proving, SummaryOfDone, Goes, RestOK,
         DiskOK, Opens, Readable, OnDisk, disk, Jobs
    <2>. QED
      BY <2>1, <2>2, <2>3, <2>4 DEF MergeKept
  <1>7. CASE MergeTranscribed(m)
    <2>1. MergeSteps'
      BY <1>0, <1>7, FileFacts DEF MergeTranscribed, MergeKept, MergeSteps, Proving, Goes, Present,
         RestOK, DiskOK, ClosesAndOpens, disk
    <2>2. VerdictOfWeights'
      BY <1>7, FileFacts DEF MergeTranscribed, MergeKept, MergeSteps, Proving, VerdictOfWeights, Present,
         ClosesAndOpens, DiskOK, disk
    <2>3. Verdicts'
      BY <1>0, <1>7 DEF MergeTranscribed, MergeKept, MergeSteps, Proving, Verdicts, Goes, RestOK,
         TargetsOf, OnDisk
    <2>4. SummaryOfDone'
      BY <1>7, FileFacts DEF MergeTranscribed, MergeKept, MergeSteps, Proving, SummaryOfDone, Goes, RestOK,
         DiskOK, ClosesAndOpens, disk, Jobs
    <2>. QED
      BY <2>1, <2>2, <2>3, <2>4 DEF MergeKept
  <1>8. CASE MergeDone(m)
    <2>1. MergeSteps'
      BY <1>0, <1>8, FileFacts DEF MergeDone, MergeKept, MergeSteps, Proving, Goes, Present,
         RestOK, DiskOK, Closes, disk
    <2>2. VerdictOfWeights'
      BY <1>8, FileFacts DEF MergeDone, MergeKept, MergeSteps, Proving, VerdictOfWeights, Present,
         Closes, DiskOK, disk
    <2>3. Verdicts'
      BY <1>0, <1>8 DEF MergeDone, MergeKept, MergeSteps, Proving, Verdicts, Goes, RestOK,
         TargetsOf, OnDisk
    <2>4. SummaryOfDone'
      BY <1>8, FileFacts DEF MergeDone, MergeKept, MergeSteps, Proving, SummaryOfDone, Goes, RestOK,
         DiskOK, Closes, disk, Jobs
    <2>. QED
      BY <2>1, <2>2, <2>3, <2>4 DEF MergeKept
  <1>. QED
    BY <1>1, <1>2, <1>3, <1>4, <1>5, <1>6, <1>7, <1>8 DEF Merge

-----------------------------------------------------------------------------
(* The verdict on the Hub. *)

\* What a push relies on.
PushInv == PushSteps /\ PushAuthor /\ PublishedIsVerified

\* While a push runs, no merge takes a step: the summary it read stands.
LEMMA PushExcludesMerge ==
    ASSUME RestOK, DiskOK, MergeKept, PushSteps, NEW m \in Mergers, Merge(m), NEW p \in Pushers
    PROVE  ~Active(p)
  <1>. SUFFICES ASSUME Active(p) PROVE FALSE
    OBVIOUS
  <1>1. "merge_summary" \in whole /\ "mergeResults" \in dirs
    BY FileFacts DEF PushSteps, DiskOK
  <1>2. pc[m] \notin {"fold", "weights", "prove"} \cup Proving
    BY <1>1 DEF MergeKept, MergeSteps
  <1>3. MergeStart(m)
    BY <1>2 DEF Merge, MergeFold, MergeFolded, MergeProve, MergeProved, MergeTranscribe,
       MergeTranscribed, MergeDone, Proving
  <1>. QED
    BY <1>1, <1>3 DEF MergeStart, MergeAllowed

\* No merge takes away what a push relies on, and none changes published weights.
LEMMA MergeKeepsPush ==
    ASSUME RestOK, DiskOK, MergeKept, PushInv, NEW m \in Mergers, Merge(m)
    PROVE  PushInv'
  <1>. m \in Jobs /\ Pushers \subseteq Jobs /\ \A p \in Pushers : p # m
    BY JobsApart DEF Jobs
  <1>0. TypeOK
    BY TypeSplit
  <1>1. Within(m, MergeFiles, {"merged", "mergeResults"}) /\ hub' = hub
           /\ \A n \in Mergers \ {m} : model'[n] = model[n]
    BY <1>0, MergeWithin
  <1>2. \A p \in Pushers : pc'[p] = pc[p] /\ ~Active(p)
    BY <1>1, PushExcludesMerge DEF Within, PushInv
  <1>3. PushSteps'
    BY <1>2 DEF PushSteps, Active
  <1>4. PushAuthor'
    BY <1>1, <1>2, FileFacts DEF PushInv, PushAuthor, Within, MergeFiles, Present
  <1>5. PublishedIsVerified'
    <2>1. pc[m] # "done"
      BY DEF Merge, MergeStart, Starts, MayStart, MergeFold, MergeFolded, MergeProve,
         MergeProved, MergeTranscribe, MergeTranscribed, MergeDone
    <2>2. \A n \in Mergers \ {m} : pc'[n] = pc[n] /\ TargetsOf(n)' = TargetsOf(n)
      BY <1>1 DEF Within, TargetsOf, Jobs
    <2>3. hub.weights \in Mergers \cup {NoJob}
      BY DEF RestOK
    <2>. QED
      BY <1>1, <2>1, <2>2, <2>3 DEF PushInv, PublishedIsVerified
  <1>. QED
    BY <1>3, <1>4, <1>5 DEF PushInv

\* train and eval leave alone what a push relies on.
LEMMA OthersKeepPush ==
    ASSUME NEW j \in Trainers \cup Evaluators, NEW fs, NEW ds, Within(j, fs, ds),
           fs \cap {"merge_summary", "push_summary"} = {},
           model' = model, hub' = hub, RestOK, PushInv
    PROVE  PushInv'
  <1>. USE JobsApart, FileFacts
  <1>1. \A i \in Mergers \cup Pushers : /\ pc'[i] = pc[i] /\ record'[i] = record[i]
                                         /\ reads'[i] = reads[i]
    BY DEF Within, Jobs
  <1>2. /\ author'["merge_summary"] = author["merge_summary"]
        /\ author'["push_summary"] = author["push_summary"]
        /\ "merge_summary" \in whole' <=> "merge_summary" \in whole
    BY DEF Within
  <1>3. PushSteps'
    BY <1>1, <1>2 DEF PushInv, PushSteps, Active
  <1>4. PushAuthor'
    BY <1>1, <1>2 DEF PushInv, PushAuthor, Present
  <1>5. PublishedIsVerified'
    BY <1>1 DEF PushInv, PublishedIsVerified, TargetsOf, RestOK
  <1>. QED
    BY <1>3, <1>4, <1>5 DEF PushInv

\* What a push uploads is the merge that it verified.
LEMMA UploadsVerified ==
    ASSUME DiskOK, MergeKept, PushSteps, NEW p \in Pushers, Active(p), Present("weights")
    PROVE  /\ OnDisk = author["merge_summary"] /\ reads[p] = OnDisk /\ OnDisk \in Mergers
           /\ pc[OnDisk] = "done" /\ model[OnDisk].changed # {}
           /\ model[OnDisk].heard => model[OnDisk].speaks
           /\ model[OnDisk].changed \subseteq TargetsOf(OnDisk)
  <1>1. Present("merge_summary") /\ Present("weights")
    BY FileFacts DEF PushSteps, DiskOK, Readable
  <1>2. OnDisk = author["merge_summary"] /\ reads[p] = OnDisk
    BY <1>1 DEF MergeKept, VerdictOfWeights, OnDisk, PushSteps
  <1>3. OnDisk \in Mergers /\ pc[OnDisk] = "done"
    BY <1>2 DEF MergeKept, SummaryOfDone, PushSteps
  <1>. QED
    BY <1>2, <1>3 DEF MergeKept, Verdicts

\* A step of a push, whatever other pushes are doing: both read the same summary.
LEMMA PushKeepsPush ==
    ASSUME RestOK, DiskOK, MergeKept, PushInv, NEW p \in Pushers, Push(p)
    PROVE  PushInv'
  <1>. p \in Jobs /\ Pushers \subseteq Jobs /\ Mergers \subseteq Jobs
       /\ \A m \in Mergers : m # p
    BY JobsApart DEF Jobs
  <1>1. CASE PushStart(p)
    <2>1. PushSteps'
      BY <1>1 DEF PushStart, Starts, MayStart, Verified, Readable, PushInv, PushSteps, Active,
         Goes, RestOK, disk
    <2>2. PushAuthor'
      BY <1>1 DEF PushStart, PushInv, PushAuthor, Goes, RestOK, disk, Present
    <2>3. PublishedIsVerified'
      BY <1>1 DEF PushStart, Starts, PushInv, PublishedIsVerified, Goes, RestOK, TargetsOf
    <2>. QED
      BY <2>1, <2>2, <2>3 DEF PushInv
  <1>2. CASE PushWeights(p)
    <2>0. Active(p)
      BY <1>2 DEF PushWeights, Active
    <2>1. PushSteps'
      <3>1. CASE Present("weights") /\ hub' = [hub EXCEPT !.weights = OnDisk]
        <4>1. \A i \in Pushers : Active(i) => reads[i] = OnDisk
          BY <3>1, UploadsVerified DEF PushInv
        <4>. QED
          BY <4>1, <3>1, <1>2 DEF PushWeights, PushInv, PushSteps, Active, Goes, RestOK, disk
      <3>2. CASE Goes(p, "failed") /\ UNCHANGED hub
        BY <3>2, <1>2 DEF PushWeights, PushInv, PushSteps, Active, Goes, RestOK, disk
      <3>. QED
        BY <3>1, <3>2, <1>2 DEF PushWeights
    <2>2. PushAuthor'
      BY <1>2 DEF PushWeights, PushInv, PushAuthor, Goes, RestOK, disk, Present
    <2>3. PublishedIsVerified'
      <3>0. \A m \in Mergers : pc'[m] = pc[m] /\ TargetsOf(m)' = TargetsOf(m)
        BY <1>2 DEF PushWeights, Goes, RestOK, TargetsOf
      <3>1. CASE Present("weights") /\ hub' = [hub EXCEPT !.weights = OnDisk]
        <4>1. hub'.weights = OnDisk /\ model' = model
          BY <3>1, <1>2 DEF RestOK, PushWeights
        <4>. QED
          BY <4>1, <3>0, <3>1, <2>0, UploadsVerified DEF PushInv, PublishedIsVerified
      <3>2. CASE UNCHANGED hub
        BY <3>0, <3>2, <1>2 DEF PushWeights, PushInv, PublishedIsVerified, RestOK
      <3>. QED
        BY <3>1, <3>2, <1>2 DEF PushWeights
    <2>. QED
      BY <2>1, <2>2, <2>3 DEF PushInv
  <1>3. CASE PushCard(p)
    <2>1. PushSteps'
      <3>1. \A i \in Pushers : Active(i) => reads[i] = reads[p]
        BY <1>3 DEF PushInv, PushSteps, PushCard, Active
      <3>2. hub'.weights = hub.weights /\ hub'.card.merge = reads[p]
        BY <1>3 DEF PushCard, RestOK, Card
      <3>. QED
        BY <3>1, <3>2, <1>3 DEF PushCard, PushInv, PushSteps, Active, Goes, RestOK, disk
    <2>2. PushAuthor'
      BY <1>3 DEF PushCard, PushInv, PushAuthor, Goes, RestOK, disk, Present
    <2>3. PublishedIsVerified'
      BY <1>3 DEF PushCard, PushInv, PublishedIsVerified, Goes, RestOK, TargetsOf
    <2>. QED
      BY <2>1, <2>2, <2>3 DEF PushInv
  <1>4. CASE PushRecord(p)
    <2>1. PushSteps'
      BY <1>4, FileFacts DEF PushRecord, PushInv, PushSteps, Active, Goes, RestOK, disk,
         Creates, DiskOK
    <2>2. PushAuthor'
      BY <1>4, FileFacts DEF PushRecord, PushInv, PushAuthor, Goes, RestOK, disk, Present,
         Creates, DiskOK
    <2>3. PublishedIsVerified'
      BY <1>4 DEF PushRecord, PushInv, PublishedIsVerified, Goes, RestOK, TargetsOf
    <2>. QED
      BY <2>1, <2>2, <2>3 DEF PushInv
  <1>5. CASE PushDone(p)
    <2>1. PushSteps'
      BY <1>5, FileFacts DEF PushDone, PushInv, PushSteps, Active, Goes, RestOK, Closes
    <2>2. PushAuthor'
      BY <1>5 DEF PushDone, PushInv, PushAuthor, Goes, RestOK, Present, Closes
    <2>3. PublishedIsVerified'
      BY <1>5 DEF PushDone, PushInv, PublishedIsVerified, Goes, RestOK, TargetsOf
    <2>. QED
      BY <2>1, <2>2, <2>3 DEF PushInv
  <1>. QED
    BY <1>1, <1>2, <1>3, <1>4, <1>5 DEF Push

\* A kill, a removal or a commit takes nothing from what has been verified.
LEMMA WorldKeeps ==
    ASSUME RestOK, DiskOK, MergeInv, PushInv, World
    PROVE  MergeInv' /\ PushInv'
  <1>. Mergers \subseteq Jobs /\ Pushers \subseteq Jobs
    BY DEF Jobs
  <1>. USE DEF MergeInv, PushInv
  <1>1. CASE \E j \in Jobs : Stop(j)
    <2>. PICK j \in Jobs : Stop(j)
      BY <1>1
    <2>0. pc' = [pc EXCEPT ![j] = "failed"] /\ pc[j] \notin {"start", "done", "failed"}
      BY DEF Stop, Goes, Active
    <2>1. OneMerger'
      BY <2>0 DEF OneMerger, Active, RestOK
    <2>2. MergeSteps'
      BY <2>0 DEF Stop, MergeSteps, Proving, RestOK, disk
    <2>3. VerdictOfWeights'
      BY DEF Stop, VerdictOfWeights, Present, disk
    <2>4. Verdicts' /\ PublishedIsVerified'
      BY <2>0 DEF Stop, Verdicts, PublishedIsVerified, RestOK, TargetsOf
    <2>5. SummaryOfDone'
      BY <2>0 DEF Stop, SummaryOfDone, RestOK, disk
    <2>6. PushSteps' /\ PushAuthor'
      BY <2>0 DEF Stop, PushSteps, PushAuthor, Active, Present, RestOK, disk
    <2>. QED
      BY <2>1, <2>2, <2>3, <2>4, <2>5, <2>6
  <1>2. CASE \E d \in Discardable : Discard(d)
    <2>. PICK d \in Discardable : Discard(d)
      BY <1>2
    <2>0. pc' = pc /\ \A j \in Jobs : pc[j] \in {"start", "done", "failed"}
      BY DEF Discard, Active
    <2>1. OneMerger' /\ MergeSteps'
      BY <2>0 DEF OneMerger, Active, MergeSteps, Proving
    <2>2. VerdictOfWeights'
      BY FileFacts DEF Discard, VerdictOfWeights, Present
    <2>3. Verdicts' /\ PublishedIsVerified'
      BY <2>0 DEF Discard, Verdicts, PublishedIsVerified, RestOK, TargetsOf
    <2>4. SummaryOfDone'
      BY <2>0, FileFacts DEF Discard, SummaryOfDone
    <2>5. PushSteps'
      BY <2>0 DEF PushSteps, Active
    <2>6. PushAuthor'
      BY <2>0, FileFacts DEF Discard, PushAuthor, Present
    <2>. QED
      BY <2>1, <2>2, <2>3, <2>4, <2>5, <2>6
  <1>3. CASE Commit \/ Finished
    <2>1. UNCHANGED <<pc, record, reads, disk, model, hub>>
      BY <1>3 DEF Commit, Finished, vars, disk
    <2>2. OneMerger' /\ MergeSteps' /\ VerdictOfWeights' /\ SummaryOfDone'
      BY <2>1 DEF OneMerger, Active, MergeSteps, Proving, VerdictOfWeights, Present,
         SummaryOfDone, disk
    <2>3. Verdicts' /\ PublishedIsVerified'
      BY <2>1 DEF Verdicts, PublishedIsVerified, TargetsOf
    <2>4. PushSteps' /\ PushAuthor'
      BY <2>1 DEF PushSteps, PushAuthor, Active, Present, disk
    <2>. QED
      BY <2>2, <2>3, <2>4
  <1>. QED
    BY <1>1, <1>2, <1>3 DEF World

-----------------------------------------------------------------------------
(* The theorems. *)

\* The invariant holds before any command ran.
LEMMA Initially ==
    ASSUME Init
    PROVE  IInv
  <1>1. TypeOK
    <2>1. head \in Commits /\ stops \in 0..MaxStops
      BY PipelineAssumption DEF PipelineAssumption, Init, Commits
    <2>2. hub \in [weights : Mergers \cup {NoJob},
                   card : [merge : Mergers \cup {NoJob}, commit : Commits \cup {0},
                           settings : Commits \cup {0}]]
      BY DEF Init, NoCard
    <2>. QED
      BY <2>1, <2>2, FileFacts DEF Init, TypeOK, Present, Steps, NoModelYet
  <1>2. Homes
    BY DEF Init, Homes
  <1>3. MergeInv
    BY FileFacts DEF Init, MergeInv, OneMerger, Active, MergeSteps, Proving, VerdictOfWeights,
       Present, Verdicts, SummaryOfDone, Jobs, NoModelYet
  <1>4. PushSteps /\ PushAuthor /\ PublishedIsVerified
    BY FileFacts DEF Init, PushSteps, Active, PushAuthor, Present, PublishedIsVerified, Jobs
  <1>. QED
    BY <1>1, <1>2, <1>3, <1>4 DEF IInv

\* Every step of every command, and of the world, keeps the invariant.
LEMMA Inductive ==
    ASSUME Mergers \in Exclusive, IInv, [Next]_vars
    PROVE  IInv'
  <1>. USE DEF IInv
  <1>0. RestOK /\ DiskOK /\ MergeKept /\ PushInv /\ SummaryOfDone /\ VerdictOfWeights
           /\ OneMerger
    BY TypeSplit DEF MergeInv, MergeKept, PushInv
  <1>9. SUFFICES RestOK' /\ DiskOK' /\ Homes' /\ MergeInv' /\ PushInv'
    <2>1. RestOK' /\ DiskOK' => TypeOK'
      BY DEF RestOK, DiskOK, TypeOK, MadeType
    <2>. QED
      BY <2>1 DEF PushInv
  <1>1. CASE \E t \in Trainers : Train(t)
    <2>. PICK t \in Trainers : Train(t)
      BY <1>1
    <2>1. RestOK' /\ DiskOK' /\ Homes'
      BY <1>0, TrainTyped
    <2>2. Within(t, TrainFiles, {"ckpt", "trainResults"}) /\ model' = model /\ hub' = hub
      BY TrainWithin
    <2>3. MergeInv'
      BY <2>2, WithinFrame, FrameKeeps, JobsApart DEF TrainFiles, MergeFiles, Jobs
    <2>4. PushInv'
      BY <1>0, <2>2, OthersKeepPush DEF TrainFiles
    <2>. QED
      BY <2>1, <2>3, <2>4
  <1>2. CASE \E m \in Mergers : Merge(m)
    <2>. PICK m \in Mergers : Merge(m)
      BY <1>2
    <2>1. RestOK' /\ DiskOK' /\ Homes'
      BY <1>0, MergeTyped
    <2>2. OneMerger' /\ \A n \in Mergers \ {m} : ~Active(n) /\ pc'[n] = pc[n]
      BY <1>0, OneMergerKept
    <2>3. MergeKept'
      BY <1>0, <2>2, MergeKeeps
    <2>4. PushInv'
      BY <1>0, MergeKeepsPush
    <2>. QED
      BY <2>1, <2>2, <2>3, <2>4 DEF MergeInv, MergeKept
  <1>3. CASE \E e \in Evaluators : Evaluate(e)
    <2>. PICK e \in Evaluators : Evaluate(e)
      BY <1>3
    <2>1. RestOK' /\ DiskOK' /\ Homes'
      BY <1>0, EvalTyped
    <2>2. Within(e, {"hypotheses", "metrics"}, {"evalResults"}) /\ model' = model /\ hub' = hub
      BY EvalWithin
    <2>3. MergeInv'
      BY <2>2, WithinFrame, FrameKeeps, JobsApart DEF MergeFiles, Jobs
    <2>4. PushInv'
      BY <1>0, <2>2, OthersKeepPush
    <2>. QED
      BY <2>1, <2>3, <2>4
  <1>4. CASE \E p \in Pushers : Push(p)
    <2>. PICK p \in Pushers : Push(p)
      BY <1>4
    <2>1. RestOK' /\ DiskOK' /\ Homes'
      BY <1>0, PushTyped
    <2>2. Within(p, {"push_summary"}, {"pushResults"}) /\ model' = model
      BY PushWithin
    <2>3. MergeInv'
      BY <2>2, WithinFrame, FrameKeeps, JobsApart DEF MergeFiles, Jobs
    <2>4. PushInv'
      BY <1>0, PushKeepsPush
    <2>. QED
      BY <2>1, <2>3, <2>4
  <1>5. CASE World
    BY <1>0, <1>5, WorldTyped, WorldKeeps
  <1>6. CASE UNCHANGED vars
    <2>1. RestOK' /\ DiskOK' /\ Homes'
      BY <1>0, <1>6 DEF vars, RestOK, DiskOK, Homes, Present
    <2>2. MergeInv'
      BY <1>0, <1>6 DEF vars, MergeInv, OneMerger, Active, MergeSteps, Proving, VerdictOfWeights,
         Present, Verdicts, SummaryOfDone, TargetsOf
    <2>3. PushInv'
      BY <1>0, <1>6 DEF vars, PushInv, PushSteps, PushAuthor, PublishedIsVerified, Active,
         Present, TargetsOf
    <2>. QED
      BY <2>1, <2>2, <2>3
  <1>. QED
    BY <1>1, <1>2, <1>3, <1>4, <1>5, <1>6 DEF Next, World

\* In every run of the commands the invariant holds, when merges run one at a time.
THEOREM Invariance ==
    ASSUME Mergers \in Exclusive
    PROVE  Spec => []IInv
  BY Initially, Inductive, PTL DEF Spec

\* The types, and no file without its directory.
THEOREM Typed ==
    ASSUME Mergers \in Exclusive
    PROVE  Spec => []TypeOK
  <1>1. IInv => TypeOK
    BY DEF IInv
  <1>. QED
    BY <1>1, Invariance, PTL

\* A verdict beside weights is the verdict on these weights, through kills, removals and
\* retries (run_merge).
THEOREM VerdictsMatchWeights ==
    ASSUME Mergers \in Exclusive
    PROVE  Spec => []VerdictOfWeights
  <1>1. IInv => VerdictOfWeights
    BY DEF IInv, MergeInv
  <1>. QED
    BY <1>1, Invariance, PTL

\* The Hub holds only weights that passed the delta check, and the smoke test as far as there
\* were clips to transcribe (run_push, run_merge).
THEOREM OnlyVerifiedPublished ==
    ASSUME Mergers \in Exclusive
    PROVE  Spec => []PublishedIsVerified
  <1>1. IInv => PublishedIsVerified
    BY DEF IInv
  <1>. QED
    BY <1>1, Invariance, PTL

-----------------------------------------------------------------------------
(* The commands implement ModelRelease. *)

\* What push_summary.json says was pushed.
Recorded == IF Readable("push_summary") THEN reads[author["push_summary"]] ELSE NoJob

\* Nothing that a release consists of changes.
Stutter ==
    /\ \A m \in Mergers : pc'[m] = "done" <=> pc[m] = "done"
    /\ hub'.weights = hub.weights /\ hub'.card.merge = hub.card.merge
    /\ Recorded' = Recorded

\* When nothing that a release consists of changes, ModelRelease stutters.
LEMMA StutterStutters ==
    ASSUME Stutter
    PROVE  UNCHANGED Release!vars
  BY DEF Stutter, Recorded, Release!vars

\* A step of another command leaves the record of a push alone.
LEMMA RecordKept ==
    ASSUME IInv, NEW j \in Jobs \ Pushers, NEW fs, NEW ds, Within(j, fs, ds),
           "push_summary" \notin fs
    PROVE  Recorded' = Recorded
  <1>1. author'["push_summary"] = author["push_summary"]
           /\ ("push_summary" \in whole' <=> "push_summary" \in whole)
    BY FileFacts DEF Within
  <1>2. Present("push_summary") =>
            reads'[author["push_summary"]] = reads[author["push_summary"]]
    BY DEF IInv, PushAuthor, Within, Jobs
  <1>. QED
    BY <1>1, <1>2 DEF Recorded, Readable, Present

\* Of merge, the last step verifies, and the others stutter.
LEMMA MergeImplements ==
    ASSUME IInv, NEW m \in Mergers, Merge(m)
    PROVE  [Release!Next]_(Release!vars)
  <1>. m \in Jobs \ Pushers
    BY JobsApart DEF Jobs
  <1>. TypeOK
    BY DEF IInv
  <1>1. /\ Within(m, MergeFiles, {"merged", "mergeResults"}) /\ hub' = hub
        /\ Recorded' = Recorded
    BY MergeWithin, RecordKept DEF MergeFiles
  <1>2. \A n \in Mergers \ {m} : pc'[n] = pc[n]
    BY <1>1 DEF Within, Jobs
  <1>3. CASE MergeDone(m)
    <2>1. pc[m] # "done" /\ pc'[m] = "done"
      BY <1>3 DEF MergeDone, Goes, TypeOK
    <2>2. Release!Verify(m)
      BY <1>1, <1>2, <2>1 DEF Release!Verify, Recorded
    <2>. QED
      BY <2>2 DEF Release!Next
  <1>4. CASE ~MergeDone(m)
    <2>1. pc[m] # "done" /\ pc'[m] # "done"
      BY <1>4 DEF Merge, MergeStart, Starts, MayStart, MergeFold, MergeFolded, MergeProve,
         MergeProved, MergeTranscribe, MergeTranscribed, Goes, TypeOK
    <2>. QED
      BY <1>1, <1>2, <2>1, StutterStutters DEF Stutter
  <1>. QED
    BY <1>3, <1>4

\* push uploads, describes and records what was verified.
LEMMA PushImplements ==
    ASSUME IInv, NEW p \in Pushers, Push(p)
    PROVE  [Release!Next]_(Release!vars)
  <1>. p \in Jobs /\ Mergers \subseteq Jobs /\ \A m \in Mergers : m # p
    BY JobsApart DEF Jobs
  <1>0. RestOK /\ DiskOK /\ MergeKept /\ PushSteps /\ PushAuthor
    BY TypeSplit DEF IInv, MergeInv, MergeKept
  <1>1. \A m \in Mergers : pc'[m] = pc[m]
    BY <1>0, PushWithin, TypeSplit DEF Within
  <1>2. CASE PushStart(p)
    <2>1. Recorded' = Recorded
      BY <1>0, <1>2 DEF PushStart, Starts, MayStart, Recorded, Readable, Present, PushAuthor,
         disk, RestOK
    <2>. QED
      BY <1>1, <1>2, <2>1, StutterStutters DEF Stutter, PushStart
  <1>3. CASE PushWeights(p)
    <2>0. Recorded' = Recorded
      BY <1>3 DEF PushWeights, Recorded, Readable, Present, disk
    <2>1. CASE Present("weights") /\ hub' = [hub EXCEPT !.weights = OnDisk]
      <3>1. OnDisk \in Mergers /\ pc[OnDisk] = "done"
        BY <1>0, <1>3, <2>1, UploadsVerified DEF PushWeights, Active
      <3>2. hub'.weights = OnDisk /\ hub'.card.merge = hub.card.merge
        BY <1>0, <2>1 DEF RestOK
      <3>3. Release!Upload(OnDisk)
        BY <1>1, <2>0, <3>1, <3>2 DEF Release!Upload, Recorded
      <3>. QED
        BY <3>1, <3>3 DEF Release!Next
    <2>2. CASE UNCHANGED hub
      BY <1>1, <2>0, <2>2, StutterStutters DEF Stutter
    <2>. QED
      BY <1>3, <2>1, <2>2 DEF PushWeights
  <1>4. CASE PushCard(p)
    <2>1. Recorded' = Recorded
      BY <1>4 DEF PushCard, Recorded, Readable, Present, disk
    <2>2. hub.weights = reads[p] /\ reads[p] \in Mergers /\ pc[reads[p]] = "done"
      BY <1>0, <1>4 DEF PushSteps, PushCard, Active, MergeKept, SummaryOfDone
    <2>3. hub'.weights = hub.weights /\ hub'.card.merge = reads[p]
      BY <1>0, <1>4 DEF PushCard, Card, RestOK
    <2>4. Release!Describe(reads[p])
      BY <1>1, <2>1, <2>2, <2>3 DEF Release!Describe, Recorded
    <2>. QED
      BY <2>2, <2>4 DEF Release!Next
  <1>5. CASE PushRecord(p)
    <2>1. Recorded' = Recorded
      BY <1>0, <1>5, FileFacts DEF PushRecord, Recorded, Readable, Present, disk, DiskOK, Creates
    <2>. QED
      BY <1>1, <1>5, <2>1, StutterStutters DEF Stutter, PushRecord
  <1>6. CASE PushDone(p)
    <2>0. hub' = hub /\ reads' = reads /\ Closes(p, "push_summary")
      BY <1>6 DEF PushDone
    <2>1. CASE author["push_summary"] = p
      <3>1. Recorded' = reads[p]
        BY <2>0, <2>1, JobsApart DEF Closes, Recorded, Readable, Present
      <3>2. /\ hub.weights = reads[p] /\ hub.card.merge = reads[p]
            /\ reads[p] \in Mergers /\ pc[reads[p]] = "done"
        BY <1>0, <1>6 DEF PushSteps, PushDone, Active, MergeKept, SummaryOfDone
      <3>3. Release!Record(reads[p])
        BY <1>1, <2>0, <3>1, <3>2 DEF Release!Record, Recorded
      <3>. QED
        BY <3>2, <3>3 DEF Release!Next
    <2>2. CASE author["push_summary"] # p
      <3>1. Recorded' = Recorded
        BY <2>0, <2>2 DEF Closes, Recorded, Readable, Present
      <3>. QED
        BY <1>1, <2>0, <3>1, StutterStutters DEF Stutter
    <2>. QED
      BY <2>1, <2>2
  <1>. QED
    BY <1>2, <1>3, <1>4, <1>5, <1>6 DEF Push

\* Removing the record forgets it; nothing else around the commands is visible.
LEMMA WorldImplements ==
    ASSUME IInv, World \/ UNCHANGED vars
    PROVE  [Release!Next]_(Release!vars)
  <1>1. CASE \E j \in Jobs : Stop(j)
    <2>. PICK j \in Jobs : Stop(j)
      BY <1>1
    <2>1. \A m \in Mergers : pc'[m] = "done" <=> pc[m] = "done"
      BY DEF Stop, Active, Goes, IInv, TypeOK, Jobs
    <2>2. hub' = hub /\ Recorded' = Recorded
      BY DEF Stop, Recorded, Readable, Present, disk
    <2>. QED
      BY <2>1, <2>2, StutterStutters DEF Stutter
  <1>2. CASE \E d \in Discardable : Discard(d)
    <2>. PICK d \in Discardable : Discard(d)
      BY <1>2
    <2>0. pc' = pc /\ hub' = hub /\ reads' = reads
      BY DEF Discard
    <2>1. CASE d = "pushResults"
      <3>1. Recorded' = NoJob
        BY <2>1, FileFacts DEF Discard, Recorded, Readable, Present
      <3>2. Release!Forget
        BY <2>0, <3>1 DEF Release!Forget, Recorded
      <3>. QED
        BY <3>2 DEF Release!Next
    <2>2. CASE d # "pushResults"
      <3>1. Recorded' = Recorded
        BY <2>2, FileFacts DEF Discard, Recorded, Readable, Present
      <3>. QED
        BY <2>0, <3>1, StutterStutters DEF Stutter
    <2>. QED
      BY <2>1, <2>2
  <1>3. CASE Commit \/ Finished \/ UNCHANGED vars
    <2>1. pc' = pc /\ hub' = hub /\ reads' = reads /\ author' = author /\ whole' = whole
      BY <1>3 DEF Commit, Finished, vars, disk
    <2>. QED
      BY <2>1, StutterStutters DEF Stutter, Recorded, Readable, Present
  <1>. QED
    BY <1>1, <1>2, <1>3 DEF World

\* train, merge and push implement ModelRelease: nothing unverified is uploaded, no card
\* is uploaded over other weights, no push is recorded before both stand, whatever is
\* killed or removed in between.
THEOREM Implementation ==
    ASSUME Mergers \in Exclusive
    PROVE  Spec => ImplementsRelease
  <1>1. Init => Release!Init
    BY FileFacts DEF Init, Release!Init, Readable, Present, NoCard, Jobs
  <1>2. IInv /\ [Next]_vars => [Release!Next]_(Release!vars)
    <2>. SUFFICES ASSUME IInv, [Next]_vars
                  PROVE  [Release!Next]_(Release!vars)
      OBVIOUS
    <2>. TypeOK
      BY DEF IInv
    <2>1. ASSUME NEW t \in Trainers, Train(t)
          PROVE  [Release!Next]_(Release!vars)
      <3>1. Within(t, TrainFiles, {"ckpt", "trainResults"}) /\ hub' = hub
        BY <2>1, TrainWithin
      <3>2. t \in Jobs \ Pushers /\ \A m \in Mergers : m \in Jobs \ {t}
        BY JobsApart DEF Jobs
      <3>3. Recorded' = Recorded
        BY <3>1, <3>2, RecordKept DEF TrainFiles
      <3>. QED
        BY <3>1, <3>2, <3>3, StutterStutters DEF Stutter, Within
    <2>2. ASSUME NEW e \in Evaluators, Evaluate(e)
          PROVE  [Release!Next]_(Release!vars)
      <3>1. Within(e, {"hypotheses", "metrics"}, {"evalResults"}) /\ hub' = hub
        BY <2>2, EvalWithin
      <3>2. e \in Jobs \ Pushers /\ \A m \in Mergers : m \in Jobs \ {e}
        BY JobsApart DEF Jobs
      <3>3. Recorded' = Recorded
        BY <3>1, <3>2, RecordKept
      <3>. QED
        BY <3>1, <3>2, <3>3, StutterStutters DEF Stutter, Within
    <2>. QED
      BY <2>1, <2>2, MergeImplements, PushImplements, WorldImplements DEF Next, World
  <1>. QED
    BY <1>1, <1>2, Invariance, PTL DEF Spec, ImplementsRelease, Release!Spec

-----------------------------------------------------------------------------
(* The result directories. *)

VerdictFiles == {"weight_deltas", "smoke", "merge_summary"}

\* mergeResults holds the files of one merge, which come one after the other.
MergeResults ==
    /\ \A m \in Mergers :
          /\ pc[m] \in Proving => /\ Present("weight_deltas")
                                  /\ \A f \in VerdictFiles : Present(f) => author[f] = m
          /\ pc[m] \in {"transcribe", "smoke", "merge_summary"} => "weight_deltas" \in whole
          /\ pc[m] = "smoke" => Present("smoke")
          /\ pc[m] = "merge_summary" => "smoke" \in whole
    /\ \A f, g \in VerdictFiles : Present(f) /\ Present(g) => author[f] = author[g]
    /\ "merge_summary" \in whole => {"weight_deltas", "smoke"} \subseteq whole

\* evalResults holds those of the evaluation that made the directory.
EvalResults ==
    /\ \A e \in Evaluators :
          /\ pc[e] \in {"hypotheses", "metrics"} => /\ "evalResults" \in dirs
                                                    /\ author["hypotheses"] = e
                                                    /\ Present("metrics") => author["metrics"] = e
          /\ pc[e] = "hypotheses" => "metrics" \notin whole
          /\ pc[e] = "metrics" => "hypotheses" \in whole
    /\ Present("hypotheses") /\ Present("metrics") => author["hypotheses"] = author["metrics"]
    /\ "metrics" \in whole => "hypotheses" \in whole

\* Whoever opened push_summary.json pushed what the Hub holds, and so does any push that runs.
PushResults ==
    Present("push_summary") =>
        /\ hub.weights = reads[author["push_summary"]]
        /\ hub.card.merge = reads[author["push_summary"]]
        /\ \A p \in Pushers : Active(p) => reads[p] = reads[author["push_summary"]]

Results == MergeResults /\ EvalResults /\ PushResults

\* One author for each directory, and a summary after all that it sums up.
LEMMA ResultsGive == IInv /\ Results => OneAuthor /\ SummaryIsLast
  <1>. SUFFICES ASSUME IInv, Results PROVE OneAuthor /\ SummaryIsLast
    OBVIOUS
  <1>1. DiskOK
    BY TypeSplit DEF IInv
  <1>2. OneAuthor
    BY FileFacts DEF OneAuthor, Results, MergeResults, EvalResults, VerdictFiles
  <1>3. SummaryIsLast
    BY <1>1 DEF SummaryIsLast, Readable, Results, MergeResults, EvalResults, PushResults, DiskOK
  <1>. QED
    BY <1>2, <1>3

\* A step of a merge adds the next file to its directory.
LEMMA MergeFills ==
    ASSUME IInv, MergeResults, NEW m \in Mergers, Merge(m), Mergers \in Exclusive
    PROVE  MergeResults'
  <1>. m \in Jobs /\ m # NoJob
    BY JobsApart DEF Jobs
  <1>0. RestOK /\ DiskOK /\ MergeSteps
    BY TypeSplit DEF IInv, MergeInv
  <1>1. \A n \in Mergers \ {m} : pc'[n] = pc[n] /\ pc[n] \in {"start", "done", "failed"}
    BY <1>0, OneMergerKept DEF IInv, MergeInv, Active
  <1>2. CASE MergeStart(m)
    BY <1>0, <1>1, <1>2 DEF MergeStart, MergeResults, Proving, Goes, RestOK, disk, Present
  <1>3. CASE MergeFold(m)
    BY <1>0, <1>1, <1>3, FileFacts DEF MergeFold, MergeResults, Proving, Goes, RestOK, DiskOK, disk,
       Present, Creates, VerdictFiles
  <1>4. CASE MergeFolded(m)
    BY <1>0, <1>1, <1>4, FileFacts DEF MergeFolded, MergeResults, Proving, Goes, RestOK, DiskOK,
       Present, Closes, VerdictFiles
  <1>5. CASE MergeProve(m)
    <2>1. CASE Creates(m, "weight_deltas") /\ Goes(m, "weight_deltas") /\ "mergeResults" \notin dirs
      <3>1. \A f \in VerdictFiles : ~Present(f) /\ f \notin whole
        BY <1>0, <2>1, FileFacts DEF DiskOK, VerdictFiles
      <3>2. \A f \in VerdictFiles : Present(f)' => f = "weight_deltas" /\ author'[f] = m
        BY <1>0, <2>1, <3>1, FileFacts DEF Creates, Present, VerdictFiles, DiskOK
      <3>3. author'["weight_deltas"] = m /\ whole' = whole \ {"weight_deltas"}
        BY <1>0, <2>1, FileFacts DEF Creates, DiskOK
      <3>4. pc'[m] = "weight_deltas"
        BY <1>0, <2>1 DEF Goes, RestOK
      <3>. QED
        BY <1>1, <3>1, <3>2, <3>3, <3>4 DEF MergeResults, Proving, Present, VerdictFiles
    <2>2. CASE Goes(m, "failed") /\ UNCHANGED disk
      BY <1>0, <1>1, <2>2 DEF MergeResults, Proving, Goes, RestOK, disk, Present
    <2>. QED
      BY <1>5, <2>1, <2>2 DEF MergeProve
  <1>6. CASE MergeProved(m)
    BY <1>0, <1>1, <1>6, FileFacts DEF MergeProved, MergeResults, MergeSteps, Proving, Goes, RestOK,
       DiskOK, Present, Closes, VerdictFiles
  <1>7. CASE MergeTranscribe(m)
    BY <1>0, <1>1, <1>7, FileFacts DEF MergeTranscribe, MergeResults, MergeSteps, Proving, Goes,
       RestOK, DiskOK, disk, Present, Opens, VerdictFiles
  <1>8. CASE MergeTranscribed(m)
    BY <1>0, <1>1, <1>8, FileFacts DEF MergeTranscribed, MergeResults, MergeSteps, Proving, Goes,
       RestOK, DiskOK, Present, ClosesAndOpens, VerdictFiles
  <1>9. CASE MergeDone(m)
    BY <1>0, <1>1, <1>9, FileFacts DEF MergeDone, MergeResults, MergeSteps, Proving, Goes, RestOK,
       DiskOK, Present, Closes, VerdictFiles
  <1>. QED
    BY <1>2, <1>3, <1>4, <1>5, <1>6, <1>7, <1>8, <1>9 DEF Merge

\* A step of an evaluation adds to its directory, or fails because another one made it.
LEMMA EvalFills ==
    ASSUME IInv, EvalResults, NEW e \in Evaluators, Evaluate(e)
    PROVE  EvalResults'
  <1>. e \in Jobs /\ Evaluators \subseteq Jobs /\ e # NoJob
    BY JobsApart DEF Jobs
  <1>0. RestOK /\ DiskOK
    BY TypeSplit DEF IInv
  <1>1. \A d \in Evaluators \ {e} : pc'[d] = pc[d]
    BY <1>0, EvalWithin, TypeSplit DEF Within, Jobs
  <1>2. CASE EvalTranscribe(e)
    BY <1>0, <1>1, <1>2 DEF EvalTranscribe, EvalResults, Goes, RestOK, disk, Present
  <1>3. CASE EvalWrite(e)
    <2>1. CASE Creates(e, "hypotheses") /\ Goes(e, "hypotheses") /\ "evalResults" \notin dirs
      <3>1. ~Present("metrics") /\ "metrics" \notin whole
        BY <1>0, <2>1, FileFacts DEF DiskOK
      <3>2. /\ author'["hypotheses"] = e /\ author'["metrics"] = author["metrics"]
            /\ whole' = whole \ {"hypotheses"} /\ "evalResults" \in dirs'
        BY <1>0, <2>1, FileFacts DEF Creates, DiskOK
      <3>3. pc'[e] = "hypotheses"
        BY <1>0, <2>1 DEF Goes, RestOK
      <3>4. \A d \in Evaluators \ {e} : pc'[d] \notin {"hypotheses", "metrics"}
        BY <1>1, <2>1 DEF EvalResults
      <3>. QED
        BY <3>1, <3>2, <3>3, <3>4 DEF EvalResults, Present
    <2>2. CASE Goes(e, "failed") /\ UNCHANGED disk
      BY <1>0, <1>1, <2>2 DEF EvalResults, Goes, RestOK, disk, Present
    <2>. QED
      BY <1>3, <2>1, <2>2 DEF EvalWrite
  <1>4. CASE EvalWritten(e)
    <2>1. \A d \in Evaluators \ {e} : pc[d] \notin {"hypotheses", "metrics"}
      BY <1>4 DEF EvalResults, EvalWritten
    <2>. QED
      BY <1>0, <1>1, <1>4, <2>1, FileFacts DEF EvalWritten, EvalResults, Goes, RestOK, DiskOK,
         Present, ClosesAndOpens
  <1>5. CASE EvalDone(e)
    <2>1. \A d \in Evaluators \ {e} : pc[d] \notin {"hypotheses", "metrics"}
      BY <1>5 DEF EvalResults, EvalDone
    <2>. QED
      BY <1>0, <1>1, <1>5, <2>1, FileFacts DEF EvalDone, EvalResults, Goes, RestOK, DiskOK,
         Present, Closes
  <1>. QED
    BY <1>2, <1>3, <1>4, <1>5 DEF Evaluate

\* A step of a push writes the one file of its directory, after the Hub has all it tells of.
LEMMA PushFills ==
    ASSUME IInv, PushResults, NEW p \in Pushers, Push(p)
    PROVE  PushResults'
  <1>. p \in Jobs /\ Pushers \subseteq Jobs /\ p # NoJob
    BY JobsApart DEF Jobs
  <1>0. RestOK /\ DiskOK /\ MergeKept /\ PushSteps /\ PushAuthor
    BY TypeSplit DEF IInv, MergeInv, MergeKept
  <1>1. CASE PushStart(p)
    <2>1. ~Present("push_summary") /\ author' = author
      BY <1>0, <1>1, FileFacts DEF PushStart, DiskOK, disk
    <2>. QED
      BY <2>1 DEF PushResults, Present
  <1>2. CASE PushWeights(p)
    <2>1. /\ UNCHANGED <<author, reads>> /\ hub'.card.merge = hub.card.merge
          /\ \A i \in Pushers : Active(i)' => Active(i)
      BY <1>0, <1>2 DEF PushWeights, disk, Goes, Active, RestOK
    <2>2. CASE Present("weights") /\ hub' = [hub EXCEPT !.weights = OnDisk]
      <3>1. Active(p)
        BY <1>2 DEF PushWeights, Active
      <3>2. hub'.weights = reads[p]
        BY <1>0, <2>2, <3>1, UploadsVerified DEF RestOK
      <3>. QED
        BY <2>1, <3>1, <3>2 DEF PushResults, Present
    <2>3. CASE UNCHANGED hub
      BY <2>1, <2>3 DEF PushResults, Present
    <2>. QED
      BY <1>2, <2>2, <2>3 DEF PushWeights
  <1>3. CASE PushCard(p)
    <2>1. /\ UNCHANGED <<author, reads>> /\ hub'.weights = hub.weights
          /\ hub'.card.merge = reads[p] /\ Active(p)
          /\ \A i \in Pushers : Active(i)' => Active(i)
      BY <1>0, <1>3 DEF PushCard, disk, Goes, Active, RestOK, Card
    <2>. QED
      BY <2>1 DEF PushResults, Present
  <1>4. CASE PushRecord(p)
    <2>1. /\ UNCHANGED <<reads, hub>> /\ Active(p)
          /\ \A i \in Pushers : Active(i)' => Active(i)
      BY <1>0, <1>4 DEF PushRecord, Goes, Active, RestOK
    <2>2. CASE Creates(p, "push_summary")
      <3>1. author'["push_summary"] = p
        BY <1>0, <2>2, FileFacts DEF Creates, DiskOK
      <3>2. hub.weights = reads[p] /\ hub.card.merge = reads[p]
        BY <1>0, <1>4 DEF PushSteps, PushRecord
      <3>3. \A i \in Pushers : Active(i) => reads[i] = reads[p]
        BY <1>0, <2>1 DEF PushSteps
      <3>. QED
        BY <2>1, <3>1, <3>2, <3>3 DEF PushResults
    <2>3. CASE UNCHANGED disk
      BY <2>1, <2>3 DEF PushResults, Present, disk
    <2>. QED
      BY <1>4, <2>2, <2>3 DEF PushRecord
  <1>5. CASE PushDone(p)
    <2>1. /\ UNCHANGED <<reads, hub, author>> /\ \A i \in Pushers : Active(i)' => Active(i)
      BY <1>0, <1>5 DEF PushDone, Goes, Active, RestOK, Closes
    <2>. QED
      BY <2>1 DEF PushResults, Present
  <1>. QED
    BY <1>1, <1>2, <1>3, <1>4, <1>5 DEF Push

\* A step of another command leaves the directory of a push alone.
LEMMA OthersKeepPushed ==
    ASSUME IInv, PushResults, NEW j \in Jobs \ Pushers, NEW fs, NEW ds, Within(j, fs, ds),
           "push_summary" \notin fs, hub' = hub
    PROVE  PushResults'
  <1>1. author'["push_summary"] = author["push_summary"]
    BY FileFacts DEF Within
  <1>2. \A p \in Pushers : pc'[p] = pc[p] /\ reads'[p] = reads[p]
    BY DEF Within, Jobs
  <1>3. Present("push_summary") => author["push_summary"] \in Pushers
    BY DEF IInv, PushAuthor
  <1>. QED
    BY <1>1, <1>2, <1>3 DEF PushResults, Present, Active

\* A step of another command leaves the directory of an evaluation alone.
LEMMA OthersKeepEvaluated ==
    ASSUME IInv, EvalResults, NEW j \in Jobs \ Evaluators, NEW fs, NEW ds, Within(j, fs, ds),
           fs \cap {"hypotheses", "metrics"} = {}, "evalResults" \notin ds
    PROVE  EvalResults'
  <1>1. \A e \in Evaluators : pc'[e] = pc[e]
    BY DEF Within, Jobs
  <1>2. \A f \in {"hypotheses", "metrics"} : author'[f] = author[f] /\ (f \in whole' <=> f \in whole)
    BY FileFacts DEF Within
  <1>3. "evalResults" \in dirs' <=> "evalResults" \in dirs
    BY DEF Within, Dirs, DirOf, Files
  <1>. QED
    BY <1>1, <1>2, <1>3 DEF EvalResults, Present

\* A step of another command leaves the directory of a merge alone.
LEMMA OthersKeepMerged ==
    ASSUME MergeResults, Frame
    PROVE  MergeResults'
  BY DEF MergeResults, Frame, MergeFiles, VerdictFiles, Present, Proving

\* A kill leaves what was written, a removal takes a directory with all that is in it.
LEMMA WorldKeepsResults ==
    ASSUME IInv, Results, World \/ UNCHANGED vars
    PROVE  Results'
  <1>. Mergers \subseteq Jobs /\ Pushers \subseteq Jobs /\ Evaluators \subseteq Jobs
    BY DEF Jobs
  <1>0. RestOK /\ DiskOK
    BY TypeSplit DEF IInv
  <1>1. CASE \E j \in Jobs : Stop(j)
    <2>. PICK j \in Jobs : Stop(j)
      BY <1>1
    <2>1. /\ UNCHANGED <<dirs, author, whole, reads, hub>>
          /\ \A i \in Jobs : pc'[i] = pc[i] \/ pc'[i] = "failed"
          /\ \A i \in Jobs : Active(i)' => Active(i)
      BY <1>0 DEF Stop, Goes, RestOK, disk, Active
    <2>2. MergeResults'
      BY <2>1 DEF Results, MergeResults, Proving, Present
    <2>3. EvalResults'
      BY <2>1 DEF Results, EvalResults, Present
    <2>4. PushResults'
      BY <2>1 DEF Results, PushResults, Present
    <2>. QED
      BY <2>2, <2>3, <2>4 DEF Results
  <1>2. CASE \E d \in Discardable : Discard(d)
    <2>. PICK d \in Discardable : Discard(d)
      BY <1>2
    <2>1. /\ UNCHANGED <<pc, reads, hub>> /\ \A j \in Jobs : ~Active(j)
          /\ \A f \in Files : author'[f] = IF DirOf[f] = d THEN NoJob ELSE author[f]
          /\ whole' = {f \in whole : DirOf[f] # d}
      BY DEF Discard
    <2>2. \A j \in Jobs : pc'[j] \in {"start", "done", "failed"}
      BY <2>1 DEF Active
    <2>3. MergeResults'
      BY <2>1, <2>2, FileFacts DEF Results, MergeResults, Proving, Present, VerdictFiles
    <2>4. EvalResults'
      BY <2>1, <2>2, FileFacts DEF Results, EvalResults, Present
    <2>5. PushResults'
      BY <2>1, FileFacts DEF Results, PushResults, Present, Active
    <2>. QED
      BY <2>3, <2>4, <2>5 DEF Results
  <1>3. CASE Commit \/ Finished \/ UNCHANGED vars
    <2>1. UNCHANGED <<pc, reads, dirs, author, whole, hub>>
      BY <1>3 DEF Commit, Finished, vars, disk
    <2>. QED
      BY <2>1 DEF Results, MergeResults, EvalResults, PushResults, Proving, Present, Active
  <1>. QED
    BY <1>1, <1>2, <1>3 DEF World

\* Every step keeps the result directories in order.
LEMMA ResultsStep ==
    ASSUME Mergers \in Exclusive, IInv, Results, [Next]_vars
    PROVE  Results'
  <1>0. TypeOK /\ MergeResults /\ EvalResults /\ PushResults
    BY DEF IInv, Results
  <1>1. ASSUME NEW t \in Trainers, Train(t)
        PROVE  Results'
    <2>1. Within(t, TrainFiles, {"ckpt", "trainResults"}) /\ model' = model /\ hub' = hub
      BY <1>0, <1>1, TrainWithin
    <2>2. t \in Jobs /\ t \notin Mergers /\ t \notin Evaluators /\ t \notin Pushers
      BY JobsApart DEF Jobs
    <2>3. MergeResults'
      BY <1>0, <2>1, <2>2, WithinFrame, OthersKeepMerged DEF TrainFiles, MergeFiles
    <2>4. EvalResults' /\ PushResults'
      BY <1>0, <2>1, <2>2, OthersKeepEvaluated, OthersKeepPushed DEF TrainFiles
    <2>. QED
      BY <2>3, <2>4 DEF Results
  <1>2. ASSUME NEW m \in Mergers, Merge(m)
        PROVE  Results'
    <2>1. Within(m, MergeFiles, {"merged", "mergeResults"}) /\ hub' = hub
      BY <1>0, <1>2, MergeWithin
    <2>2. m \in Jobs /\ m \notin Evaluators /\ m \notin Pushers
      BY JobsApart DEF Jobs
    <2>3. MergeResults'
      BY <1>0, <1>2, MergeFills
    <2>4. EvalResults' /\ PushResults'
      BY <1>0, <2>1, <2>2, OthersKeepEvaluated, OthersKeepPushed DEF MergeFiles
    <2>. QED
      BY <2>3, <2>4 DEF Results
  <1>3. ASSUME NEW e \in Evaluators, Evaluate(e)
        PROVE  Results'
    <2>1. Within(e, {"hypotheses", "metrics"}, {"evalResults"}) /\ model' = model /\ hub' = hub
      BY <1>0, <1>3, EvalWithin
    <2>2. e \in Jobs /\ e \notin Mergers /\ e \notin Pushers
      BY JobsApart DEF Jobs
    <2>3. MergeResults'
      BY <1>0, <2>1, <2>2, WithinFrame, OthersKeepMerged DEF MergeFiles
    <2>4. EvalResults' /\ PushResults'
      BY <1>0, <1>3, <2>1, <2>2, EvalFills, OthersKeepPushed
    <2>. QED
      BY <2>3, <2>4 DEF Results
  <1>4. ASSUME NEW p \in Pushers, Push(p)
        PROVE  Results'
    <2>1. Within(p, {"push_summary"}, {"pushResults"}) /\ model' = model
      BY <1>0, <1>4, PushWithin
    <2>2. p \in Jobs /\ p \notin Mergers /\ p \notin Evaluators
      BY JobsApart DEF Jobs
    <2>3. MergeResults'
      BY <1>0, <2>1, <2>2, WithinFrame, OthersKeepMerged DEF MergeFiles
    <2>4. EvalResults' /\ PushResults'
      BY <1>0, <1>4, <2>1, <2>2, OthersKeepEvaluated, PushFills
    <2>. QED
      BY <2>3, <2>4 DEF Results
  <1>5. CASE World \/ UNCHANGED vars
    BY <1>5, WorldKeepsResults
  <1>. QED
    BY <1>1, <1>2, <1>3, <1>4, <1>5 DEF Next, World

\* In every run of the commands the result directories are in order.
THEOREM ResultsInOrder ==
    ASSUME Mergers \in Exclusive
    PROVE  Spec => []Results
  <1>1. Init => Results
    BY FileFacts DEF Init, Results, MergeResults, EvalResults, PushResults, Present, Proving,
       VerdictFiles, Jobs
  <1>2. IInv /\ Results /\ [Next]_vars => Results'
    BY ResultsStep
  <1>. QED
    BY <1>1, <1>2, Invariance, PTL DEF Spec

\* No result directory of merge, eval or push mixes the files of two processes ("results are
\* never overwritten"), although evaluations and pushes may run at the same time.
THEOREM DirectoriesHaveOneAuthor ==
    ASSUME Mergers \in Exclusive
    PROVE  Spec => []OneAuthor
  BY ResultsGive, Invariance, ResultsInOrder, PTL

\* A summary that can be read comes after everything that it sums up, on disk and on the Hub,
\* whatever is killed or removed on the way.
THEOREM SummariesComeLast ==
    ASSUME Mergers \in Exclusive
    PROVE  Spec => []SummaryIsLast
  BY ResultsGive, Invariance, ResultsInOrder, PTL

-----------------------------------------------------------------------------
(* The numbers of a metrics.json. *)

\* An evaluation keeps the report it made until it is written.
Scores ==
    /\ \A e \in Evaluators :
          pc[e] \in {"report", "hypotheses", "metrics"} => AddsUp(report[e], Manifest)
    /\ Present("metrics") =>
          /\ author["metrics"] \in Evaluators
          /\ pc[author["metrics"]] # "start"
          /\ AddsUp(report[author["metrics"]], Manifest)

\* An evaluation scores what passed the checks, and writes what it scored.
LEMMA EvalScores ==
    ASSUME IInv, Scores, NEW e \in Evaluators, Evaluate(e)
    PROVE  Scores'
  <1>. e \in Jobs /\ Evaluators \subseteq Jobs /\ e # NoJob
    BY JobsApart DEF Jobs
  <1>0. RestOK /\ DiskOK
    BY TypeSplit DEF IInv
  <1>1. \A d \in Evaluators \ {e} : pc'[d] = pc[d]
    BY EvalWithin, TypeSplit, <1>0 DEF Within
  <1>2. CASE EvalTranscribe(e)
    <2>1. PICK answers \in AnswersTo(Manifest) :
             /\ Matched(Manifest, Transcripts(answers))
             /\ report' = [report EXCEPT ![e] = Report(Scored(Manifest, Transcripts(answers)))]
      BY <1>2 DEF EvalTranscribe
    <2>2. AddsUp(report'[e], Manifest)
      <3>1. AddsUp(Report(Scored(Manifest, Transcripts(answers))), Manifest)
        BY <2>1, ReportAddsUp
      <3>2. report'[e] = Report(Scored(Manifest, Transcripts(answers)))
        BY <1>0, <2>1 DEF RestOK
      <3>. QED
        BY <3>1, <3>2
    <2>3. \A d \in Evaluators \ {e} : report'[d] = report[d]
      BY <1>0, <2>1 DEF RestOK
    <2>4. pc[e] = "start" /\ pc'[e] = "report" /\ author' = author
      BY <1>0, <1>2 DEF EvalTranscribe, MayStart, Goes, RestOK, disk
    <2>. QED
      BY <1>1, <2>2, <2>3, <2>4 DEF Scores, Present
  <1>3. CASE EvalWrite(e)
    <2>1. /\ report' = report /\ pc[e] = "report" /\ pc'[e] \in {"hypotheses", "failed"}
          /\ author'["metrics"] = author["metrics"]
      BY <1>0, <1>3, FileFacts DEF EvalWrite, Goes, RestOK, DiskOK, Creates, disk
    <2>. QED
      BY <1>1, <2>1 DEF Scores, Present
  <1>4. CASE EvalWritten(e)
    <2>1. /\ report' = report /\ pc[e] = "hypotheses" /\ pc'[e] = "metrics"
          /\ author'["metrics"] = e
      BY <1>0, <1>4, FileFacts DEF EvalWritten, Goes, RestOK, DiskOK, ClosesAndOpens
    <2>. QED
      BY <1>1, <2>1 DEF Scores, Present
  <1>5. CASE EvalDone(e)
    <2>1. /\ report' = report /\ pc[e] = "metrics" /\ pc'[e] = "done" /\ author' = author
      BY <1>0, <1>5 DEF EvalDone, Goes, RestOK, Closes
    <2>. QED
      BY <1>1, <2>1 DEF Scores, Present
  <1>. QED
    BY <1>2, <1>3, <1>4, <1>5 DEF Evaluate

\* A step of another command leaves the evaluations alone.
LEMMA OthersKeepScores ==
    ASSUME Scores, NEW j \in Jobs \ Evaluators, NEW fs, NEW ds, Within(j, fs, ds),
           "metrics" \notin fs, report' = report
    PROVE  Scores'
  <1>1. author'["metrics"] = author["metrics"]
    BY FileFacts DEF Within
  <1>2. \A e \in Evaluators : pc'[e] = pc[e]
    BY DEF Within, Jobs
  <1>. QED
    BY <1>1, <1>2 DEF Scores, Present

\* So does whatever happens around the commands, except that a removal takes the metrics along.
LEMMA WorldKeepsScores ==
    ASSUME IInv, Scores, World \/ UNCHANGED vars
    PROVE  Scores'
  <1>. Evaluators \subseteq Jobs
    BY DEF Jobs
  <1>0. RestOK
    BY TypeSplit DEF IInv
  <1>1. CASE \E j \in Jobs : Stop(j)
    <2>. PICK j \in Jobs : Stop(j)
      BY <1>1
    <2>1. /\ author' = author /\ report' = report
          /\ \A i \in Jobs : pc'[i] = pc[i] \/ pc'[i] = "failed"
      BY <1>0 DEF Stop, Goes, RestOK, disk
    <2>. QED
      BY <2>1 DEF Scores, Present
  <1>2. CASE \E d \in Discardable : Discard(d)
    <2>. PICK d \in Discardable : Discard(d)
      BY <1>2
    <2>1. /\ pc' = pc /\ report' = report
          /\ author'["metrics"] \in {NoJob, author["metrics"]}
      BY FileFacts DEF Discard
    <2>. QED
      BY <2>1 DEF Scores, Present
  <1>3. CASE Commit \/ Finished \/ UNCHANGED vars
    <2>1. UNCHANGED <<pc, author, report>>
      BY <1>3 DEF Commit, Finished, vars, disk
    <2>. QED
      BY <2>1 DEF Scores, Present
  <1>. QED
    BY <1>1, <1>2, <1>3 DEF World

\* Only evaluations make reports.
LEMMA ReportKept ==
    /\ \A t \in Trainers : Train(t) => report' = report
    /\ \A m \in Mergers : Merge(m) => report' = report
    /\ \A p \in Pushers : Push(p) => report' = report
  <1>1. ASSUME NEW t \in Trainers, Train(t)
        PROVE  report' = report
    BY <1>1 DEF Train, TrainStart, TrainFit, TrainSave, TrainSaved, TrainSummarize,
       TrainSummarized, TrainDone
  <1>2. ASSUME NEW m \in Mergers, Merge(m)
        PROVE  report' = report
    BY <1>2 DEF Merge, MergeStart, MergeFold, MergeFolded, MergeProve, MergeProved,
       MergeTranscribe, MergeTranscribed, MergeDone
  <1>3. ASSUME NEW p \in Pushers, Push(p)
        PROVE  report' = report
    BY <1>3 DEF Push, PushStart, PushWeights, PushCard, PushRecord, PushDone
  <1>. QED
    BY <1>1, <1>2, <1>3

\* Every step keeps what is known of the reports.
LEMMA ScoresStep ==
    ASSUME IInv, Scores, [Next]_vars
    PROVE  Scores'
  <1>0. TypeOK
    BY DEF IInv
  <1>1. ASSUME NEW t \in Trainers, Train(t)
        PROVE  Scores'
    <2>1. Within(t, TrainFiles, {"ckpt", "trainResults"}) /\ t \in Jobs /\ t \notin Evaluators
      BY <1>0, <1>1, TrainWithin, JobsApart DEF Jobs
    <2>. QED
      BY <1>1, <2>1, OthersKeepScores, ReportKept DEF TrainFiles
  <1>2. ASSUME NEW m \in Mergers, Merge(m)
        PROVE  Scores'
    <2>1. Within(m, MergeFiles, {"merged", "mergeResults"}) /\ m \in Jobs /\ m \notin Evaluators
      BY <1>0, <1>2, MergeWithin, JobsApart DEF Jobs
    <2>. QED
      BY <1>2, <2>1, OthersKeepScores, ReportKept DEF MergeFiles
  <1>3. ASSUME NEW p \in Pushers, Push(p)
        PROVE  Scores'
    <2>1. Within(p, {"push_summary"}, {"pushResults"}) /\ p \in Jobs /\ p \notin Evaluators
      BY <1>0, <1>3, PushWithin, JobsApart DEF Jobs
    <2>. QED
      BY <1>3, <2>1, OthersKeepScores, ReportKept
  <1>4. ASSUME NEW e \in Evaluators, Evaluate(e)
        PROVE  Scores'
    BY <1>4, EvalScores
  <1>5. CASE World \/ UNCHANGED vars
    BY <1>5, WorldKeepsScores
  <1>. QED
    BY <1>1, <1>2, <1>3, <1>4, <1>5 DEF Next, World

\* A metrics.json that can be read adds up, whoever wrote it and whatever the engine answered.
THEOREM MetricsAlwaysAddUp ==
    ASSUME Mergers \in Exclusive
    PROVE  Spec => []MetricsAddUp
  <1>1. Init => Scores
    BY FileFacts DEF Init, Scores, Present, Jobs
  <1>2. IInv /\ Scores /\ [Next]_vars => Scores'
    BY ScoresStep
  <1>3. Scores => MetricsAddUp
    BY DEF Scores, MetricsAddUp, Readable
  <1>. QED
    BY <1>1, <1>2, <1>3, Invariance, PTL DEF Spec
=============================================================================
