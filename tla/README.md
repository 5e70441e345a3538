# A TLA+ model of asr-assess

`asr_assess` fine-tunes, serves, load-tests and evaluates Qwen3-ASR on Malaysian speech. This
directory holds TLA+ modules for the parts of it whose correctness depends on the order in which
things happen, TLC configurations that check them on small instances, and TLAPS proofs of what
matters most for every instance. Paths below are relative to `src/src/asr_assess/`.

## Inventory

| Component | State | Operations | Interacts with | What is hard, and what makes it correct |
|---|---|---|---|---|
| HF server (`serving/app.py`, `serving/batcher.py`) | queue of (request, future), the collector's batch, the worker thread's job | `start`, `stop`, `submit`, `_collect`, `_run`, the HTTP handler | engine (on a thread), HTTP callers, uvicorn's lifespan | callers that give up at any point, `wait_for` racing with `put`, engine failures, `stop` in the middle of a batch. *Everyone gets their own transcript, in order, once, or the failure of their batch; nobody is lost; `stop` returns.* |
| Load test search (`benchmark/loadtest.py`: `run_loadtest`, `_sweep`, `_bisect`, `_summary`; `load_stats.py`) | results by level, the bracket, `levels.jsonl`, verdicts | `measure`, `passes`, `bisect_next`, `max_sustainable` | the level below it, configuration validators | levels that pass above a failing one, WER references, step limits. *The verdict is a level that passed with everything below it, and the next level up failed.* |
| One level (`loadtest.py`: `_drain`, `run_level`, `run_stream`, `run_session`) | clients, their requests, the clock, records | drain, send, record, window | transport, server, samplers | requests that outlive their client, a client that falls behind its timetable. *A repeat starts on an idle server; the level ends.* |
| HTTP client and balancer (`benchmark/client.py`), worker processes (`benchmark/workers.py`) | requests in flight of each server | `transcribe`, `scrape_metrics`, `wait_ready`; `WorkerPool.run` | one or several servers | deadlines against late answers, one balancer for each client. *Counts are exact, the least busy server is chosen.* |
| Samplers (`benchmark/gpu_monitor.py`, `_scrape`, `vllm_metrics.py`) | samples, a thread, a stop event | sample, `samples()`, summarize | the level's windows | a thread against the loop; sampling that ends silently |
| Dataset plan (`data/build.py`: `plan_dataset`; `data/sources.py`, `data/language.py`) | the pools of a category, the clips chosen so far, the plans | `candidates`, `split_groups`, `select_by_minutes`, `dev_pool` | the metadata on the Hub, `DataConfig` | an index that is cut and joined by line number, quotas filled from buckets and topped up, caps, a dev set that may share speakers with train. *No speaker or video is heard on both sides; quotas are filled as far as the caps allow.* |
| Dataset build (`data/build.py`: `build_dataset`) | audio directory, manifests, `stats.json` | `materialize`, `write_manifest`, `remove_unreferenced_audio` | the plan, training and evaluation through the manifests | a crash between two manifests, builds of different plans. *Every manifest names audio that exists; a build that ends is exact.* |
| Training, merge, publish (`training/`) | checkpoint, merged and result directories, the Hub repository | `run_training`, `run_merge`, `verified_merge`, `run_push` | dataset manifests, Hub, each other through the directories | processes of one name at once, a command killed half-way, directories removed for another try, a working tree that moves on. *Results are never overwritten; only a verified merge is published, and a summary that can be read comes last.* |
| Evaluation (`evaluation/`) | a result directory | `run_batches`, `evaluate`, `build_report` | engine, merged weights | batches answered in another order or short, a directory checked long before it is made. *Every clip is scored once, against its own reference.* |
| Offline benchmark (`benchmark/offline.py`) | a result directory | `run_offline` | engine | the same batches, timed |
| Everything else (`core/`, `reporting/`, `inference/`, `cli.py`, `benchmark/env_info.py`) | none or files | pure functions, wrappers, formatting | | sequential code; see *Not modelled* |

`PROJECT.json` lists the same components with their sources, and under `hazards` every point of
the code that a unit test would hardly reach, with the property that covers it.

## Modules

| Module | What it is |
|---|---|
| `TranscriptionService` | Abstract specification: a service that takes the oldest waiting requests in groups and settles each group at once. |
| `Batcher` | The HF server in detail, and the refinement mapping to `TranscriptionService`. |
| `BatcherProofs` | Invariants, action property and refinement of `Batcher`, proved. |
| `LoadSweep` | The search for the highest sustainable level. |
| `LoadSweepProofs` | Its invariants and action property, proved. |
| `LoadLevel` | The repeats of one level: drain, clients, balancer, deadlines, window and lag. |
| `LoadLevelProofs` | Its invariants and action property, proved. |
| `DataBuild` | What builds of the dataset leave on disk, wherever they die. |
| `DataBuildProofs` | Its invariants, proved. |
| `ClipSources` | Which clips the sources list, of which duration and in which group: constants and operators. |
| `DataSplit` | The planner: from the candidates to the clips of every split. |
| `SumFacts` | Facts about sums over finite sets, proved; used by the next two. |
| `DataSplitProofs` | Invariants of `DataSplit`, proved. |
| `EvaluationProofs` | What the operators of `Evaluation` compute, proved; used by `PipelineProofs`. |
| `Evaluation` | What an evaluation computes, batch by batch and group by group: operators. |
| `ModelRelease` | Abstract specification: only verified weights are published, described and recorded. |
| `Pipeline` | The commands train, merge, eval and push as processes on one file system and one Hub repository, and the refinement mapping to `ModelRelease`. |
| `PipelineProofs` | Its invariants and the refinement, proved. |
| `MCBatcher`, `MCLoadSweep`, `MCLoadLevel`, `MCDataBuild`, `MCDataSplit`, `MCPipeline` | Instances for TLC. |

`Pipeline` extends `Evaluation`, `DataSplit` extends `ClipSources`; `Batcher` and `Pipeline`
instantiate their abstract specifications.

Definitions named `X_Something` after a definition `X` are slips that the code could have made
(a missing guard, a swapped order); each property of a run finds one of them (`mutants` in
`PROJECT.json`).

### Batcher

The collector coroutine is modelled by where it is suspended: `first` (the first `queue.get`),
`fill` (the loop of `_collect`), `gpu` (`run_in_executor`). The steps of the loop are the pieces
of code between suspensions; while `stop` blocks the loop in `executor.shutdown(wait=True)`
(`server = "blocked"`), only the thread moves. The thread has states `queued` (a job that can
still be cancelled), `running`, `returned`, `raised`. `WorkerReturn` returns any list of
transcripts of the batch, so `check_alignment` (`Aligned`) has work to do. A handler is
`decoding` while it reads and decodes the upload, `waiting` while its future is pending, and a
caller may give up in either state. `CloseEarly` is the deadline of `_collect`: with Python
3.12's `wait_for`, an item that arrives as the timer fires is either returned or stays queued,
never lost, so the race is that of `TakeMore` against `CloseEarly`. Time itself is left out: the
deadline may pass at any moment, `max_wait_s = 0` included.

`Graceful` says who calls `stop`. The server is run by uvicorn, which ends the lifespan only after
its handlers have ended (TRUE). The class alone does not demand that (FALSE): then `stop` may
come with callers waiting, and they stay unsettled.

The mapping to `TranscriptionService`: `serving` is the batch while it is on the GPU, `open` is
whether `stop` has been called; caller states, answers and tickets are the same.

### LoadSweep

A measurement is any member of `Outcomes` (P95 RTF, failed requests, lag, WER), so `Passes`
is the code's `is_sustainable` over every combination that matters. A profile satisfies exactly
what `LoadProfile` validates (`WellFormed`), the thresholds what `LoadTestThresholds` does.

### LoadLevel

The clock counts ticks from the start of a repeat; the loop may be late, so a send happens at any
tick from its due time on. A request the client gives up on (`TimeOut`) may keep its server busy:
`working` are such requests of this repeat, `backlog` those of earlier ones, which is what the
drain asks the server's gauges for. A record is reduced to what the summary looks at: whether it
was sent in the window, succeeded, or lagged. In `Sustainable` no kept record may lag; the code
asks that of the 95th percentile only, so a level that passes here passes in the code.

### DataBuild

The state is what the disk holds (`audio`, `manifest`, `stats`) and the build in progress, which
is lost when the process dies (`Interrupt`). A WAV or a manifest that is opened is truncated where
it lies and complete only when it is closed, so that a build that dies leaves a torn WAV, or any
part of a manifest. A clip may be dropped while it is fetched: its decoded duration is out of
range, or the source does not yield it. Each build has a plan of its own, from any configuration:
`IsPlan` says what `split_groups` and `dev_pool` guarantee of it, for categories that do not share
a source with one another (`DataSplit` checks that they do). The splits' manifests are written in the order in which `by_split` got
its keys, only for the splits planned; the list of WAVs to remove is made once, after
`stats.json`. A WAV has the name of its clip: `clip_filename`, which flattens a key to a file
name, is taken to give different clips different names. Two builds at once in one directory are
not modelled. `DoneHeldOut` speaks of builds
that ended: the manifests are replaced in place one after the other, so one that dies after
`train.jsonl` leaves the train set of its plan beside the eval set of another, until the next one
ends (`BuildIsExact`).

### DataSplit

The metadata of the Hub is given by constants: the rows of each source, the whole index of videos,
the speaker column. `ClipSources` translates what the sources make of them. A clip's name holds a
line number; the code looks it up in the head of the index (`IndexHead`), cut at a byte count that
the configuration gives (`lines`), and leaves out the clips beyond it and those of videos whose
Malay lines read as Indonesian. Where a clip is really from is its `Origin`, taken from the whole
files: the properties speak of origins and the code of groups, so a clip joined to the wrong line
would show. An origin is a video or a speaker (`Voices`), except in FLEURS, which names nobody: it
is a sentence that several people have read (`Sentences`), and who reads a clip is not modelled.
So `HeldOutApart` and `DevHonest` say of FLEURS that sentences are kept apart within one source,
and `NobodyDominates` says nothing of it.

`DataSplit` runs `plan_dataset` step by step: the groups held out one after the other, the clips
of a shuffled order taken or passed over, bucket by bucket and then in the top-up, the plans of a
category in the order train, eval, dev and the control set last. A shuffle is a choice of any
order, and `split_groups` of any order of groups, so every seed is covered. Amounts of audio are
counted in units in which the share of a bucket and the cap of a group are whole numbers (`Whole`,
`Share`, `GroupShare`); the float sums of the code are taken as exact.

`HeldOutApart` asks that no two categories share a source. The validator only keeps the control
source apart; two categories that split one source do it with random numbers of their own, and a
speaker can then be in the train set of the one and the eval set of the other. The configuration
of the repository has no such categories (see *Disagreements without a run*).

### Pipeline

A process is a command with one run name; it runs once. What processes share is on disk: which
directories exist (`dirs`), who opened each file last (`author`), and which files were closed
(`whole`). A file is opened in one step and closed in another, so that a kill (`Stop`) leaves it
torn, and reading a torn file fails. The checks at the head of a command are the guard of its
first step: a command that refuses before it wrote anything has not happened. The mkdir that comes
later is a step of its own, and a failing one ends the command (`MergeProve`, `EvalWrite`,
`PushRecord`), except in training, which makes its directories with `exist_ok`.

`record` is the commit a command was started at and with it the configuration it loaded
(`Revisions` maps commits to configurations; `Commit` may come at any time). `model` is what a
merge made: the tensors that differ from the base, whether the model says anything, the verdict in
`weight_deltas.json`, and whether `smoke.jsonl` holds a transcript; PEFT may produce any of
`Outcomes`. The deltas are taken from the weights that lie on disk at that moment, the smoke test
loads them again, and a push uploads what is there when it comes to it. The dev manifest is read
by the smoke test only, long after training checked that it was not empty, and a build may have
left it empty since: whether it has clips is a choice of `MergeTranscribe`, and without any the
test passes unheard. `PublishedIsVerified` therefore says that a published model speaks only if
its smoke test transcribed something. A manifest that is gone or torn ends the merge, as `Stop`
does. `Discard` is the operator who removes a directory to try
again: one of the two directories of a merge, or both, but not while a command runs, and never
the checkpoint.

`Exclusive` is what the operator takes care of: the processes of each of its sets run one at a
time. The run and the proofs assume it of merges only. The code does not check: two merges of one
name that start together both find no directory, both save their weights, and then the deltas of
one lie beside the weights of the other (`VerdictOfWeights` fails with `Exclusive = {}`). Two
trainings likewise may write into the same directories, which is why `OneAuthor` does not speak of
them. Two evaluations and two pushes may overlap in any way.

An evaluation transcribes the manifest in batches. The engine may answer a batch in order, in
another order, or short (`Answers`); `check_alignment` and `score_utterance` let only the first
through. Errors are counted as the code does, words against words (`UtteranceErrors`, with jiwer's
edit distance as `EditErrors`), so a transcript scored against another clip's reference would show
in the sums; characters and the bootstrap intervals are left out. A group of `_grouped` is the set
of the positions of its items, since nothing that is kept of it depends on their order.

The mapping to `ModelRelease`: `verified` are the merges that ended, `published` is whose weights
the Hub holds, `described` whose card, `recorded` what a readable `push_summary.json` says.
`MergeDone` is a `Verify`, `PushWeights` an `Upload`, `PushCard` a `Describe`, `PushDone` a
`Record`, removing the record a `Forget`; all else stutters. That a card is uploaded only over
the weights it describes is not checked anywhere in the code: it follows because no merge can
change the directory that a running push has verified.

## Runs

| Run | Instance | What it shows |
|---|---|---|
| `batcher` | 4 requests, batches of 2, `stop` at any time, symmetry | `OwnTranscript`, `NobodyForgotten`, `InOrder`, `BatchBound`, `OneFate`, `OutcomeIsFinal`, and that `Batcher` implements `TranscriptionService` |
| `batcher_live` | 3 requests, batches of 2, `stop` as uvicorn calls it, fair, no symmetry | `EveryoneSettled`, `StopReturns`, and the abstract specification with its fairness |
| `load_sweep` | 4 profiles, 7 outcomes | `MeasuredOnce`, `BracketHolds`, `StopsAfterFailures`, `VerdictIsBracket`, `StrongWithinMax`, `JudgedOnce` |
| `load_level` | 2 clients with up to 2 requests each, 2 servers, 2 repeats, both modes, with and without metrics | `InFlightExact`, `StartsIdle`, `LeastBusyServer`, `LevelEnds` |
| `data_build` | 4 clips of 3 speakers, up to 3 builds with any of 3 plans (speakers swap sides; no dev) | `NothingStranded`, `BuildIsExact`, `DoneHeldOut` |
| `data_build_dev` | the same, 2 builds | `DevNotStranded` fails (finding) |
| `data_split` | 22 clips of 5 sources, 6 configurations: one source for both sides with a whole and a cut index and with a quota that cannot be filled, two categories (one of FLEURS, with a dev set), FLEURS sentences split three ways, categories that share a source | `HeldOutApart`, `DevHonest`, `NothingLeftOver`, `LessThanAClipOver`, `NobodyDominates` |
| `pipeline` | 1 training, 2 merges, 2 evaluations, 2 pushes, 2 commits, 3 outcomes of a merge, a dev manifest with or without clips, 1 kill, symmetry | `VerdictOfWeights`, `PublishedIsVerified`, `OneAuthor`, `SummaryIsLast`, `MetricsAddUp`, and that `Pipeline` implements `ModelRelease` |
| `pipeline_provenance` | 1 training, 1 merge, 1 push, 2 commits | `CardTellsTraining` fails (finding) |
| `load_balance` | as with `--workers 2`: a balancer for each client | `LeastBusyServer` fails (finding) |
| `drain_blind` | a scrape of an existing endpoint may fail | `StartsIdle` fails (finding) |
| `lag_hidden` | one speaker, three utterances, a client that may be late | `LagCannotHide` fails (finding) |

Each passing run also checks the module's type invariant, or (`batcher_live`) a module whose type
invariant another run checks.

**Bounds.** Four requests and batches of two give two full batches, a partial one and a queue
behind each of them, which is what order across batches and failures needs; three are enough for
liveness, where one batch, its successor and a caller behind are distinguished. The profiles of
`load_sweep` have three or four levels: gaps to bisect and adjacent levels, a step limit that is
never, sometimes and always reached, bisection off, one or two levels after a failure; the
outcomes pass or fail for each reason the rules know, and one passes only if the WER reference is
as bad. In `load_level`, two servers and two clients make ties and a least busy server, two
requests make a predecessor, two repeats make a backlog; `MaxSends` bounds the closed loop (the
code is bounded by the clock only) and `Horizon` the clock, which after `End` only says that the
window is over. In `data_build`, two builds of different plans make an old dataset and a new one,
the third repairs what a dead second one left (`MaxBuilds`); the theorems have no such bound on
plans, clips or builds. In `data_split` a video has two clips, of which only one may be taken,
the buckets and the top-up are both needed, and the six configurations reach every outcome: a
split by groups that succeeds and one that fails, a dev set of unused speakers, one that shares
them and none. In `pipeline`, two of each command make the first one's leftovers and the second
one's retry, and two that overlap; one kill (`MaxStops`) makes every torn file, the outcomes pass
and fail each check of a merge (a model that is silent passes when there is nothing to transcribe),
and the two commits have different targets. `Discardable` leaves
out the training's directories, whose removal only sends the operator back to the start. The
theorems have none of these bounds.

**Deadlock** is checked everywhere: the programs that end do so in a state that stutters
explicitly (`Exited`, and `Finished` in the other modules; in `Pipeline` that is any state in
which no command runs, since nobody need give another).

**Fairness.** In `Batcher`: the loop runs what is ready and its timers fire, the engine returns
or raises, decoding ends, and `stop`, once called, goes on. Nobody need send a request, give up
or call `stop`. In `LoadLevel`: the client's loop, its clock and its deadlines (`asyncio.wait_for`)
make progress; the servers need not do anything, so `LevelEnds` rests on the deadline alone.
`LoadSweep`, `DataBuild`, `DataSplit` and `Pipeline` have no liveness property: the first three are
loops over finite lists, and a command may be killed at any step.

## Findings

1. `--workers` above 1 gives each client its own `LeastOutstandingTransport`
   (`benchmark/workers.py:49`), so several `--url` servers are not balanced by their requests in
   flight, contrary to `cli.py:257` and `benchmark/client.py:127`. A closed-loop client never has
   two requests in flight and always picks the first server.
2. `_drain` (`benchmark/loadtest.py:387`) gives up at once when one scrape fails, since
   `scrape_metrics` says None both for a server without metrics and for a failed request.
3. A client that stalls until the steady state ends is not noticed: what it sends too late falls
   out of the window (`benchmark/load_stats.py:92`) before its lag is looked at, so the level can
   pass, contrary to the comment at `core/config.py:249`.
4. A build without a dev split after one with it leaves `dev.jsonl` in place (`data/build.py:290`)
   and deletes the audio it names (`data/build.py:294`), although the clean-up is meant for audio
   that no manifest references (`tests/data/test_build.py:394`).
5. The model card and the commit message of an upload give the commit of the *merge* as that of
   the training (`training/publish.py:131` and `:89`), and the LoRA settings of the configuration
   at the time of the *push* (`training/publish.py:85`), contrary to the README
   (`README.md:106`) and the test (`tests/training/test_publish.py:118`). `train_summary.json`,
   which has both, is not read.

### Disagreements without a run

Three more places where a text says more than the code does. No run shows them, because the models
leave out what it would take (who reads a sentence) or because the properties are conditioned on
the case not arising.

- FLEURS. The README says that dev "avoids train's speakers/videos where any are left"
  (`README.md:47`), and `configs/data.yaml:16` that "no single one supplies more than this share"
  of an eval set. For the two categories of read speech a group is a sentence
  (`data/sources.py:316`; the class says why at `:291`): a reader may be in dev and in train with
  `dev_group_overlap` false, and may pass the cap.
- Categories that share a source. `data/sources.py:50` says without condition that "a group never
  spans train and eval"; `plan_dataset` (`data/build.py:166`) splits each category by itself, and
  the validator (`core/config.py:169`) admits two that split one source.
- The smoke test. `run_training` refuses an empty dev manifest (`training/trainer.py:150`),
  `run_merge` does not (`training/export.py:88`): it writes an empty `smoke.jsonl` and its summary,
  and `verified_merge` (`training/publish.py:55`) takes that for a verified merge.

## Proofs

`BatcherProofs` assumes what `Batcher` assumes of its constants (`BatcherAssumption`): the
requests are a finite set, `MaxBatch` is positive, `NoTranscript` is not a request. `Graceful`
may be either.

The safety properties are not inductive: that a delivered transcript reaches its caller needs the
job of the thread to be the collector's batch, and the order of batches needs the order inside
the queue. `IInv` adds two conjuncts. `Lifecycle` ties the collector, the thread and the server
together (a batch exists only between its first item and its settlement, the job is the batch
while the collector waits, and it is the last entry of `batches`). `Ordered` says that tickets
grow along the batches, the batch at hand and the queue. `Next` is split into its actions, and
under each action into the conjuncts that it can disturb. From `IInv` follow the invariants,
`OutcomeIsFinal`, and the step simulation of `TranscriptionService`: `Dispatch` is a `Serve` of
the oldest pending requests (`NobodyForgotten` and `Ordered` say that the batch is older than the
queue, and that there is nothing else), `Deliver` and `FailBatch` are `Complete` and `Fail`, and
the rest are caller steps, the shutdown, or stutters.

`LoadSweepProofs` assumes `SweepAssumption` (the validators of the configuration). `IInv` adds
`Swept`, which says what has been measured during the sweep and where the first failure was, and
`Concluded`, which carries the bracket into the verdict. `JudgedOnce` follows because level 1 is
the first measured and no level is measured twice, so the WER reference never changes under a
level already judged.

`DataBuildProofs` assumes that every plan is one the planner can make (`BuildAssumption`). What a
manifest names can be lost in two ways, by a deletion and by a manifest of WAVs not written, so
`IInv` says that the entries made so far have whole WAVs (`BuiltIsWritten`), that a manifest
already written holds what was built (`ManifestsWritten`), and that the list of WAVs to delete is
the rest of the audio (`ListIsExact`); `OpenInStage` says which files can be open when. The step
lemmas take one conjunct each through all actions. `NothingStranded` speaks of the splits that
every configuration plans; `DevSafeIfAlwaysPlanned` says that finding 4 needs a configuration
without dev.

`PipelineProofs` assumes `PipelineAssumption` (the commands are different processes, the targets
are tensors) and, in each theorem, that `Mergers` is one of the `Exclusive` sets. What a push
publishes was verified by another process at another time, so `PublishedIsVerified` is far from
inductive. `IInv` adds `Homes` (a process about to open a file finds its directory), `MergeSteps`
(what a merge has established when it comes to a step: which directories do not exist yet, that
the weights are its own and whole, that nobody's summary is there), `Verdicts` (a verdict stays
true of the model it was reached on), `SummaryOfDone` (a whole summary is that of a merge that
ended) and `PushSteps` (while a push runs, the summary it read is still there, and the weights and
the card on the Hub are those it read about). A merge and a push exclude each other once each has
passed its checks (`PushExcludesMerge`): the push has seen a whole summary, in a directory that
the merge must have seen missing. The step lemmas take the commands one by one; for those that
cannot disturb a conjunct, a frame lemma says which files they leave alone. The step simulation of
`ModelRelease` then has one case per step that is not a stutter.

That the result directories have one author each, and that summaries come last, is a second
invariant on top of `IInv`: `Results` says for merge, eval and push which of its files a process
has made when it comes to a step, and that no other process of its kind is between the same two
steps. For evaluations and pushes, which may overlap, that rests on the `mkdir` alone.

`MetricsAddUp` joins what a process keeps to what it computed. `Scores` says that an evaluation
keeps the report it made until it is written; that the report adds up is a fact about operators,
proved in `EvaluationProofs` for any manifest, engine answer and batch size (`ReportAddsUp`). It
rests on three others: the transcripts that pass `score_utterance`'s check are what was said in
their entries (`MatchedSaid`), an edit distance is 0 only between equal texts
(`NoErrorsOnlyIfEqual`), and the sums of a partition's classes add up (`SumOfClasses`).
`AlignedBatchesMatch` says in addition that the batches cut the manifest without gaps and to its
end, so that after `check_alignment` neither `zip(strict=True)` nor the check of the ids can fail.
`EvalAssumption` asks that the manifest is not empty and that texts are sequences of words.

`DataSplitProofs` assumes `SourceAssumption` and `SplitAssumption`: finitely many clips, lengths,
quotas and shares of audio that are whole numbers, and configurations that the validators accept.
Its `IInv` follows the levels of the code. `Draws` says what the pools of the category in work are
made of, that they have no origin in common, which plans of that category there are already and from
which pool each was chosen; `HeldOutApart` and `DevHonest` follow. `Selects` says what the
selection in work has chosen: no group above its cap, and every clip that the top-up has passed is
chosen or still has no room (groups only grow, so a clip once capped stays so), from which
`NothingLeftOver` and `NobodyDominates` follow when a plan is made. That an origin is a group, and
groups of one source do not mix with those of another, is where the cut index comes in: a clip
whose line is beyond the cut is not usable. For `LessThanAClipOver` a third part,
`BucketsFilled`, bounds what the buckets have taken by the shares so far. `TopUpStops` has a
hypothesis, `NoNegativeShare`: the code requires of `bucket_shares` only that they sum to 1
(`core/config.py:146`), and with a negative share the others could overfill their buckets. The
configuration of the repository has none.

`LoadLevelProofs` assumes `LevelAssumption` (finitely many clients, numbered servers, bounds that
are numbers). That the count of a server is the number of its pending requests is inductive once
it is known that nobody waits outside a run (`Quiet`) and that a pending request is one the server
works on (`Books`). `BalancerPicksLeastBusy` assumes one transport for all clients
(`SharedTransport`) and `DrainLeavesIdle` that no scrape fails (`~ScrapeMayFail`): without either,
findings 1 and 2 are the counterexamples.

**Induction over data.** Sums, the table of edit distances and the chaining of batches are
recursive functions, and the induction theorems of the library take an operator, which the provers
cannot instantiate. The proofs take a minimal counterexample instead: of the sets, lengths or
diagonals for which a claim fails there is a least one (`MinimalSubset`, `LeastNumber`, from
`WFMin`), and its predecessor does not fail. In this way it is first shown that a recursion has a
solution, which TLA+'s `CHOOSE` does not give for free, then what the solution is.

**Only model-checked:** liveness (`EveryoneSettled`, `StopReturns`, `LevelEnds`) and the fair
refinement of the batcher, since reasoning under fairness is out of the prover's reach; and that
the five findings are real, each by a counterexample. Every invariant and every action property
that a passing run checks is also proved.

## Not modelled

- The content of audio, the normalization of text, bootstrap and percentile arithmetic,
  formatting, plots, tables: no property here depends on their values.
- The engines (`inference/`): the worker thread of `Batcher` and `Answers` in `Evaluation` stand
  for what they may return.
- The optimiser, PEFT merging and the Hub: libraries, whose results are choices in `Pipeline`.
- The offline benchmark: it times the batches that `Evaluation` models and writes one directory.
- Errors of the load test's own process (a full disk, an unexpected exception in a client): the
  run aborts, and the reports read nothing of it but `summary.json`, which comes last.
- The samplers of the load test: no decision depends on what they may lose.

## Plan

1. Done: all modules above; proofs of every invariant and action property that the passing runs
   check, and of the two refinements without fairness.
2. Weaker hypotheses: which theorems about `Pipeline` do not need that merges run one at a time;
   what two evaluations promise each other without it.
3. Theorems that say how far a finding goes, as `DevSafeIfAlwaysPlanned` does: that a client that
   is never late cannot hide lag, that a card tells the training if no commit comes in between.
4. The load test's appended files and the samplers, should something come to read them; reference
   definitions for the pure algorithms (percentiles, `open_schedule`), checked over bounded
   inputs.
