------------------------------ MODULE Batcher -------------------------------
(***************************************************************************)
(* The Hugging Face server: the FastAPI handler (serving/app.py) in front  *)
(* of the dynamic batcher (serving/batcher.py).                            *)
(*                                                                         *)
(* Actors: the callers, whose handlers run on the event loop; the collector*)
(* coroutine Batcher._run, on the same loop; the single GPU worker thread  *)
(* of the executor; and whoever calls start() and stop().                  *)
(*                                                                         *)
(* A step of the loop is the code between two points where it suspends,    *)
(* but for the loop of _collect, where each item taken is a step: taking   *)
(* an item and a caller's step commute, so nothing is added by it.         *)
(* Requests have unique ids (uuid4), so a batch is the set of its members, *)
(* and the list the engine returns is a function from the member at a      *)
(* position to the id of the transcript returned at that position.         *)
(***************************************************************************)
EXTENDS Integers, Sequences, FiniteSets

CONSTANTS Requests,      \* every request that may be sent
          MaxBatch,      \* Batcher._max_batch
          NoTranscript,
          Graceful       \* stop() is called only when no handler is running, as uvicorn does

ASSUME BatcherAssumption ==
    /\ IsFiniteSet(Requests)
    /\ MaxBatch \in Nat \ {0}
    /\ NoTranscript \notin Requests
    /\ Graceful \in BOOLEAN

VARIABLES server,     \* the lifespan: new, serving, draining, blocked in shutdown(), closed
          collector,  \* where Batcher._run is suspended
          queue,      \* Batcher._queue
          batch,      \* the local variable batch of _run and _collect
          worker,     \* the executor's thread
          job,        \* the batch handed to the executor
          out,        \* the list the engine returned, by position
          status,     \* how far each caller's handler is; "waiting" is a pending future
          answer,     \* the result set on each caller's future
          batches,    \* Batcher.batch_sizes, with the members of each batch
          ticket,     \* history: each request's position in the order of put()
          submitted   \* history: how many requests were put

callerVars == <<status, answer, ticket, submitted>>
vars == <<server, collector, queue, batch, worker, job, out, batches, callerVars>>

Status == {"new", "decoding", "waiting", "answered", "failed", "rejected", "cancelled"}

TypeOK ==
    /\ server \in {"new", "serving", "draining", "blocked", "closed"}
    /\ collector \in {"off", "first", "fill", "gpu", "ended"}
    /\ queue \in Seq(Requests)
    /\ batch \in SUBSET Requests
    /\ worker \in {"idle", "queued", "running", "returned", "raised"}
    /\ job \in SUBSET Requests
    /\ worker = "idle" <=> job = {}
    /\ out \in [IF worker = "returned" THEN job ELSE {} -> Requests]
    /\ status \in [Requests -> Status]
    /\ answer \in [Requests -> Requests \cup {NoTranscript}]
    /\ batches \in Seq(SUBSET Requests)
    /\ ticket \in [Requests -> Nat]
    /\ submitted \in Nat

NoOutput == [r \in {} |-> NoTranscript]

Init ==
    /\ server = "new"
    /\ collector = "off"
    /\ queue = <<>>
    /\ batch = {}
    /\ worker = "idle"
    /\ job = {}
    /\ out = NoOutput
    /\ status = [r \in Requests |-> "new"]
    /\ answer = [r \in Requests |-> NoTranscript]
    /\ batches = <<>>
    /\ ticket = [r \in Requests |-> 0]
    /\ submitted = 0

Queued == {queue[i] : i \in DOMAIN queue}

-----------------------------------------------------------------------------
(* The lifespan: start, and the two halves of stop. *)

Start ==
    /\ server = "new"
    /\ server' = "serving"
    /\ collector' = "first"
    /\ UNCHANGED <<queue, batch, worker, job, out, batches, callerVars>>

\* A slip to rule out: forgetting the job even when the worker has begun it.
Stop_ForgetsJob ==
    /\ server = "serving"
    /\ server' = "draining"
    /\ collector' = "ended"
    /\ batch' = {}
    /\ job' = {}
    /\ UNCHANGED <<queue, worker, out, batches, callerVars>>

\* task.cancel() and the collector's end.  The batch it held is forgotten; a job
\* the worker has not begun is cancelled with it, a running one cannot be.
Stop ==
    /\ server = "serving"
    /\ Graceful => \A r \in Requests : status[r] \notin {"decoding", "waiting"}
    /\ server' = "draining"
    /\ collector' = "ended"
    /\ batch' = {}
    /\ \/ /\ worker = "queued"
          /\ worker' = "idle"
          /\ job' = {}
       \/ /\ worker # "queued"
          /\ UNCHANGED <<worker, job>>
    /\ UNCHANGED <<queue, out, batches, callerVars>>

\* executor.shutdown(wait=True) is called on the loop: no other loop step runs until it returns.
Shutdown ==
    /\ server = "draining"
    /\ server' = "blocked"
    /\ UNCHANGED <<collector, queue, batch, worker, job, out, batches, callerVars>>

\* A slip to rule out: waiting for a result that nobody picks up any more.
ThreadBusy_UntilRead == worker # "idle"

ThreadBusy == worker \in {"queued", "running"}

Closed ==
    /\ server = "blocked"
    /\ ~ThreadBusy
    /\ server' = "closed"
    /\ worker' = "idle"
    /\ job' = {}
    /\ out' = NoOutput
    /\ UNCHANGED <<collector, queue, batch, batches, callerVars>>

-----------------------------------------------------------------------------
(* The callers. *)

LoopRuns == server # "blocked"

\* The handler starts, and decodes the upload on another thread.
Arrive(r) ==
    /\ server = "serving"
    /\ status[r] = "new"
    /\ status' = [status EXCEPT ![r] = "decoding"]
    /\ UNCHANGED <<server, collector, queue, batch, worker, job, out, batches, answer, ticket,
                   submitted>>

\* The upload is not audio: HTTP 400.
Reject(r) ==
    /\ LoopRuns
    /\ status[r] = "decoding"
    /\ status' = [status EXCEPT ![r] = "rejected"]
    /\ UNCHANGED <<server, collector, queue, batch, worker, job, out, batches, answer, ticket,
                   submitted>>

\* A slip to rule out: a queue that serves the newest request first.
Put_Lifo(r) == queue' = <<r>> \o queue

Put(r) == queue' = Append(queue, r)

\* Batcher.submit: the queue is unbounded, so put() does not suspend.
Submit(r) ==
    /\ LoopRuns
    /\ status[r] = "decoding"
    /\ status' = [status EXCEPT ![r] = "waiting"]
    /\ Put(r)
    /\ ticket' = [ticket EXCEPT ![r] = submitted + 1]
    /\ submitted' = submitted + 1
    /\ UNCHANGED <<server, collector, batch, worker, job, out, batches, answer>>

\* The caller's task is cancelled, and with it the future it awaits.
GiveUp(r) ==
    /\ LoopRuns
    /\ status[r] \in {"decoding", "waiting"}
    /\ status' = [status EXCEPT ![r] = "cancelled"]
    /\ UNCHANGED <<server, collector, queue, batch, worker, job, out, batches, answer, ticket,
                   submitted>>

-----------------------------------------------------------------------------
(* The collector. *)

TakeFirst ==
    /\ collector = "first"
    /\ queue # <<>>
    /\ batch' = {Head(queue)}
    /\ queue' = Tail(queue)
    /\ collector' = "fill"
    /\ UNCHANGED <<server, worker, job, out, batches, callerVars>>

\* A slip to rule out: one request too many.
Room_OffByOne == Cardinality(batch) <= MaxBatch

Room == Cardinality(batch) < MaxBatch

TakeMore ==
    /\ collector = "fill"
    /\ Room
    /\ queue # <<>>
    /\ batch' = batch \cup {Head(queue)}
    /\ queue' = Tail(queue)
    /\ UNCHANGED <<server, collector, worker, job, out, batches, callerVars>>

\* A slip to rule out: no look at future.done().
Undone_Unchecked == batch

\* The members of the batch whose future is not done.
Undone == {r \in batch : status[r] = "waiting"}

\* The end of _collect drops the callers that gave up; _run goes back to collecting when
\* nobody is left, and hands the rest to the executor otherwise.
Dispatch ==
    /\ batch' = Undone
    /\ \/ /\ Undone = {}
          /\ collector' = "first"
          /\ UNCHANGED <<worker, job, batches>>
       \/ /\ Undone # {}
          /\ collector' = "gpu"
          /\ worker' = "queued"
          /\ job' = Undone
          /\ batches' = Append(batches, Undone)
    /\ UNCHANGED <<server, queue, out, callerVars>>

CloseFull ==
    /\ collector = "fill"
    /\ ~Room
    /\ Dispatch

\* The deadline: get_nowait() found the queue empty, or wait_for() timed out.  A request put
\* after the timer fired and before the collector resumes stays in the queue.
CloseEarly ==
    /\ collector = "fill"
    /\ Room
    /\ Dispatch

\* A slip to rule out: a list of the right length is taken as it is.
Aligned_LengthOnly == TRUE

\* check_alignment
Aligned == \A r \in job : out[r] = r

\* The futures in S get their outcome, and _run goes round its loop.
Settle(S, outcome) ==
    /\ status' = [r \in Requests |-> IF r \in S THEN outcome ELSE status[r]]
    /\ collector' = "first"
    /\ batch' = {}
    /\ worker' = "idle"
    /\ job' = {}
    /\ out' = NoOutput
    /\ UNCHANGED <<server, queue, batches, ticket, submitted>>

Deliver ==
    /\ collector = "gpu"
    /\ worker = "returned"
    /\ Aligned
    /\ answer' = [r \in Requests |-> IF r \in Undone THEN out[r] ELSE answer[r]]
    /\ Settle(Undone, "answered")

BatchFailed ==
    /\ collector = "gpu"
    /\ \/ worker = "raised"
       \/ worker = "returned" /\ ~Aligned

\* Slips to rule out: the failure is logged and nobody told; it goes to everybody who waits;
\* it ends the collector.
FailBatch_Swallowed ==
    /\ BatchFailed
    /\ Settle({}, "failed")
    /\ UNCHANGED answer

FailBatch_Everyone ==
    /\ BatchFailed
    /\ Settle({r \in Requests : status[r] = "waiting"}, "failed")
    /\ UNCHANGED answer

FailBatch_Escapes ==
    /\ BatchFailed
    /\ collector' = "ended"
    /\ UNCHANGED <<server, queue, batch, worker, job, out, batches, callerVars>>

\* The engine raised, or check_alignment did: the failure belongs to this batch only.
FailBatch ==
    /\ BatchFailed
    /\ Settle(Undone, "failed")
    /\ UNCHANGED answer

-----------------------------------------------------------------------------
(* The worker thread, which runs whether or not the loop does. *)

WorkerStart ==
    /\ worker = "queued"
    /\ worker' = "running"
    /\ UNCHANGED <<server, collector, queue, batch, job, out, batches, callerVars>>

\* Any transcript of the batch may come back at any position; a list of another length
\* fails check_alignment and ends as a raise does.
WorkerReturn ==
    /\ worker = "running"
    /\ worker' = "returned"
    /\ out' \in [job -> job]
    /\ UNCHANGED <<server, collector, queue, batch, job, batches, callerVars>>

WorkerRaise ==
    /\ worker = "running"
    /\ worker' = "raised"
    /\ UNCHANGED <<server, collector, queue, batch, job, out, batches, callerVars>>

\* The lifespan is over and so is the process.
Exited ==
    /\ server = "closed"
    /\ UNCHANGED vars

CollectorStep == TakeFirst \/ TakeMore \/ CloseFull \/ CloseEarly \/ Deliver \/ FailBatch
WorkerStep == WorkerStart \/ WorkerReturn \/ WorkerRaise
StopStep == Shutdown \/ Closed

Next ==
    \/ Start
    \/ Stop
    \/ StopStep
    \/ \E r \in Requests : Arrive(r) \/ Reject(r) \/ Submit(r) \/ GiveUp(r)
    \/ CollectorStep
    \/ WorkerStep
    \/ Exited

SafeSpec == Init /\ [][Next]_vars

\* The loop runs what is ready, timers fire, the engine returns or raises, and decoding ends.
\* Nobody has to send a request, to give up, or to call stop().
Fairness ==
    /\ WF_vars(CollectorStep)
    /\ WF_vars(WorkerStep)
    /\ WF_vars(StopStep)
    /\ \A r \in Requests : WF_vars(Reject(r) \/ Submit(r))

Spec == SafeSpec /\ Fairness

-----------------------------------------------------------------------------
(* Safety. *)

\* A caller that gets a transcript gets its own: the batch is put together from many callers
\* and taken apart by position, and the engine may have mixed it up (check_alignment).
OwnTranscript == \A r \in Requests : status[r] = "answered" => answer[r] = r

\* While the server serves, every pending future is still reachable from the collector: no
\* path of _collect and _run, an engine failure included, lets a request fall between the
\* queue and the batch.
NobodyForgotten ==
    server \in {"new", "serving"} =>
        \A r \in Requests : status[r] = "waiting" => r \in Queued \cup batch

\* Requests go to the engine in the order in which they were put, over all batches: a timeout
\* of wait_for that races with a put neither loses nor reorders the item.  As the order is
\* strict, no request is transcribed twice.
InOrder ==
    \A i, j \in DOMAIN batches :
        i < j => \A r \in batches[i], s \in batches[j] : ticket[r] < ticket[s]

\* No batch is larger than max_batch ("batches never exceed max_batch", test_batcher.py) and
\* none is empty.
BatchBound ==
    \A i \in DOMAIN batches : batches[i] # {} /\ Cardinality(batches[i]) <= MaxBatch

\* The engine's failure belongs to its batch only: those who share a batch never see
\* different outcomes, and nobody sees one without having been in a batch.
OneFate ==
    /\ \A i \in DOMAIN batches, r, s \in Requests :
          {r, s} \subseteq batches[i] => ~(status[r] = "answered" /\ status[s] = "failed")
    /\ \A r \in Requests :
          status[r] \in {"answered", "failed"} => \E i \in DOMAIN batches : r \in batches[i]

\* An outcome is final: one that gave up while its batch was on the GPU is not answered
\* afterwards (set_result on a done future raises and would end the collector).
OutcomeIsFinal ==
    [][\A r \in Requests :
          status[r] \in {"answered", "failed", "rejected", "cancelled"} =>
              status'[r] = status[r] /\ answer'[r] = answer[r]]_vars

-----------------------------------------------------------------------------
(* Liveness, when stop() waits for the running handlers. *)

\* Every caller that waits gets an outcome or gives up, whatever batches fail before it.
EveryoneSettled ==
    \A r \in Requests : status[r] = "waiting" ~> status[r] # "waiting"

\* stop() returns, even when it cancels the collector while the GPU is busy.
StopReturns == server = "draining" ~> server = "closed"

-----------------------------------------------------------------------------
(* The inductive invariant behind the safety properties. *)

\* Who is where: the collector holds a batch only between taking its first item and settling
\* it, and the thread is at work only on the batch the collector waits for.
Lifecycle ==
    /\ server = "new" <=> collector = "off"
    /\ server = "serving" <=> collector \in {"first", "fill", "gpu"}
    /\ collector \in {"off", "first", "ended"} => batch = {}
    /\ collector \in {"off", "first", "fill"} => worker = "idle"
    /\ collector = "gpu" => /\ worker # "idle"
                            /\ job = batch
                            /\ batches # <<>>
                            /\ batches[Len(batches)] = batch
    /\ Cardinality(batch) <= MaxBatch

\* The order of submission runs through the batches, then the batch at hand, then the queue.
Ordered ==
    /\ \A r \in Requests : status[r] \in {"new", "decoding", "rejected"} => ticket[r] = 0
    /\ \A r \in Queued \cup batch :
          ticket[r] \in 1..submitted /\ status[r] \in {"waiting", "cancelled"}
    /\ \A i \in DOMAIN batches : \A r \in batches[i] : ticket[r] \in 1..submitted
    /\ \A i, j \in DOMAIN queue : i < j => ticket[queue[i]] < ticket[queue[j]]
    /\ \A r \in batch, s \in Queued : ticket[r] < ticket[s]
    /\ \A i \in DOMAIN batches : \A r \in batches[i], s \in Queued : ticket[r] < ticket[s]
    /\ collector = "fill" =>
          \A i \in DOMAIN batches : \A r \in batches[i], s \in batch : ticket[r] < ticket[s]

Safety == OwnTranscript /\ NobodyForgotten /\ InOrder /\ BatchBound /\ OneFate

IInv == TypeOK /\ Lifecycle /\ Ordered /\ Safety

-----------------------------------------------------------------------------
(* The abstract specification, implemented. *)

Service == INSTANCE TranscriptionService WITH
    serving <- IF collector = "gpu" THEN batch ELSE {},
    open <- server \in {"new", "serving"}

\* The queue, the collector and the thread together are the abstract service.
ImplementsService == Service!SafeSpec

\* And so they are with its fairness: the batcher does not stall with a request at hand.
ImplementsFairService == Service!Spec
=============================================================================
