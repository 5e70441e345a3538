--------------------------- MODULE BatcherProofs ----------------------------
(***************************************************************************)
(* Proofs about Batcher, for every set of requests and every max_batch.    *)
(***************************************************************************)
EXTENDS Batcher, FiniteSetTheorems, TLAPS

-----------------------------------------------------------------------------
(* The queue: what taking from its head and putting at its end do. *)

\* Queue.get: the head leaves, everybody else moves up one place.
LEMMA TakenQueue ==
    ASSUME NEW S, NEW q \in Seq(S), q # <<>>
    PROVE  /\ Head(q) = q[1]
           /\ 1 \in DOMAIN q
           /\ Head(q) \in S
           /\ Tail(q) \in Seq(S)
           /\ \A i \in DOMAIN Tail(q) : i + 1 \in DOMAIN q /\ Tail(q)[i] = q[i + 1]
           /\ \A i \in DOMAIN q : i = 1 \/ (i - 1 \in DOMAIN Tail(q) /\ q[i] = Tail(q)[i - 1])
  <1>1. Len(q) \in Nat /\ DOMAIN q = 1..Len(q) /\ Len(q) # 0
    OBVIOUS
  <1>2. Tail(q) \in Seq(S) /\ Len(Tail(q)) = Len(q) - 1
    OBVIOUS
  <1>3. DOMAIN Tail(q) = 1..(Len(q) - 1)
    BY <1>1, <1>2
  <1>4. \A i \in 1..(Len(q) - 1) : Tail(q)[i] = q[i + 1]
    BY <1>1
  <1>5. Head(q) = q[1] /\ Head(q) \in S
    BY <1>1
  <1>. QED
    BY <1>1, <1>2, <1>3, <1>4, <1>5

\* list.append and Queue.put: everybody keeps their place, and the new item comes last.
LEMMA AppendedLast ==
    ASSUME NEW S, NEW q \in Seq(S), NEW e \in S
    PROVE  /\ Append(q, e) \in Seq(S)
           /\ Append(q, e) # <<>>
           /\ Len(Append(q, e)) = Len(q) + 1
           /\ DOMAIN Append(q, e) = DOMAIN q \cup {Len(q) + 1}
           /\ \A i \in DOMAIN q : Append(q, e)[i] = q[i] /\ i < Len(q) + 1 /\ i \in Nat
           /\ Append(q, e)[Len(q) + 1] = e
  <1>1. Len(q) \in Nat /\ DOMAIN q = 1..Len(q)
    OBVIOUS
  <1>2. Append(q, e) \in Seq(S) /\ Len(Append(q, e)) = Len(q) + 1
    OBVIOUS
  <1>3. DOMAIN Append(q, e) = 1..(Len(q) + 1)
    BY <1>1, <1>2
  <1>. QED
    BY <1>1, <1>2, <1>3

\* The batch grows by at most one, and dropping the callers that gave up never enlarges it.
LEMMA BatchSizes ==
    ASSUME TypeOK
    PROVE  /\ IsFiniteSet(batch)
           /\ Cardinality(batch) \in Nat
           /\ IsFiniteSet(Undone) /\ Cardinality(Undone) <= Cardinality(batch)
           /\ Cardinality(Undone) \in Nat
           /\ \A r \in Requests : /\ Cardinality({r}) = 1
                                  /\ Cardinality(batch \cup {r}) <= Cardinality(batch) + 1
                                  /\ Cardinality(batch \cup {r}) \in Nat
           /\ Cardinality({}) = 0
  <1>1. IsFiniteSet(batch)
    BY BatcherAssumption, FS_Subset DEF TypeOK
  <1>2. Undone \subseteq batch
    BY DEF Undone
  <1>4. IsFiniteSet(Undone) /\ Cardinality(Undone) <= Cardinality(batch)
    BY <1>1, <1>2, FS_Subset
  <1>5. Cardinality(batch) \in Nat /\ Cardinality(Undone) \in Nat
    BY <1>1, <1>4, FS_CardinalityType
  <1>6. ASSUME NEW r \in Requests
        PROVE  /\ Cardinality({r}) = 1
               /\ Cardinality(batch \cup {r}) <= Cardinality(batch) + 1
               /\ Cardinality(batch \cup {r}) \in Nat
    <2>1. Cardinality({r}) = 1
      BY FS_Singleton
    <2>2. \/ Cardinality(batch \cup {r}) = Cardinality(batch)
          \/ Cardinality(batch \cup {r}) = Cardinality(batch) + 1
      BY <1>1, FS_AddElement
    <2>. QED
      BY <1>5, <2>1, <2>2
  <1>7. Cardinality({}) = 0
    BY FS_EmptySet
  <1>. QED
    BY <1>1, <1>4, <1>5, <1>6, <1>7

-----------------------------------------------------------------------------
(* The inductive invariant. *)

LEMMA InitInv == Init => IInv
  <1>. SUFFICES ASSUME Init PROVE IInv
    OBVIOUS
  <1>1. Queued = {}
    BY DEF Init, Queued
  <1>2. Cardinality(batch) = 0
    BY FS_EmptySet DEF Init
  <1>3. TypeOK
    BY BatcherAssumption DEF Init, TypeOK, NoOutput, Status
  <1>4. Lifecycle /\ Ordered
    BY <1>1, <1>2, BatcherAssumption DEF Init, Lifecycle, Ordered
  <1>5. Safety
    BY DEF Init, Safety, OwnTranscript, NobodyForgotten, InOrder, BatchBound, OneFate
  <1>. QED
    BY <1>3, <1>4, <1>5 DEF IInv

\* The lifespan touches neither the callers nor the queue.
LEMMA LifespanStep ==
    ASSUME IInv, Start \/ Stop \/ Shutdown \/ Closed
    PROVE  IInv'
  <1>. USE DEF IInv, callerVars
  <1>1. UNCHANGED <<queue, batches, callerVars>> /\ Queued' = Queued
    BY DEF Start, Stop, Shutdown, Closed, Queued
  <1>2. (OwnTranscript /\ InOrder /\ BatchBound /\ OneFate)'
    BY <1>1 DEF Safety, OwnTranscript, InOrder, BatchBound, OneFate
  <1>3. CASE Start
    <2>1. TypeOK' /\ Lifecycle' /\ Ordered'
      BY <1>1, <1>3 DEF Start, TypeOK, Lifecycle, Ordered
    <2>2. NobodyForgotten'
      BY <1>1, <1>3 DEF Start, Safety, NobodyForgotten
    <2>. QED
      BY <1>2, <2>1, <2>2 DEF Safety
  <1>4. CASE Stop
    <2>1. TypeOK'
      BY <1>1, <1>4 DEF Stop, TypeOK
    <2>2. Lifecycle' /\ NobodyForgotten'
      BY <1>4, FS_EmptySet, BatcherAssumption DEF Stop, Lifecycle, NobodyForgotten
    <2>3. Ordered'
      BY <1>1, <1>4 DEF Stop, Ordered
    <2>. QED
      BY <1>2, <2>1, <2>2, <2>3 DEF Safety
  <1>5. CASE Shutdown \/ Closed
    <2>1. TypeOK'
      BY <1>1, <1>5 DEF Shutdown, Closed, TypeOK, NoOutput
    <2>2. Lifecycle' /\ NobodyForgotten'
      BY <1>5 DEF Shutdown, Closed, TypeOK, Lifecycle, NobodyForgotten
    <2>3. Ordered'
      BY <1>1, <1>5 DEF Shutdown, Closed, Ordered
    <2>. QED
      BY <1>2, <2>1, <2>2, <2>3 DEF Safety
  <1>. QED
    BY <1>3, <1>4, <1>5

\* A caller that has not submitted holds no place, and one that gives up keeps its place.
LEMMA CallerStep ==
    ASSUME IInv, NEW r \in Requests, Arrive(r) \/ Reject(r) \/ GiveUp(r)
    PROVE  IInv'
  <1>. USE DEF IInv
  <1>1. /\ UNCHANGED <<server, collector, queue, batch, worker, job, out, batches, answer, ticket,
                       submitted>>
        /\ Queued' = Queued
    BY DEF Arrive, Reject, GiveUp, Queued
  <1>2. /\ status' \in [Requests -> Status]
        /\ \A q \in Requests : q # r => status'[q] = status[q]
        /\ \/ status[r] = "new" /\ status'[r] = "decoding"
           \/ status[r] = "decoding" /\ status'[r] = "rejected"
           \/ status[r] \in {"decoding", "waiting"} /\ status'[r] = "cancelled"
    BY DEF Arrive, Reject, GiveUp, TypeOK, Status
  <1>3. TypeOK' /\ Lifecycle'
    BY <1>1, <1>2 DEF TypeOK, Lifecycle
  <1>4. Ordered'
    <2>1. \A q \in Queued \cup batch : q \in Requests
      BY DEF TypeOK, Queued
    <2>2. \A q \in Queued' \cup batch' :
             ticket'[q] \in 1..submitted' /\ status'[q] \in {"waiting", "cancelled"}
      BY <1>1, <1>2, <2>1 DEF Ordered
    <2>3. \A q \in Requests : status'[q] \in {"new", "decoding", "rejected"} => ticket'[q] = 0
      BY <1>1, <1>2 DEF Ordered
    <2>. QED
      BY <1>1, <2>2, <2>3 DEF Ordered
  <1>5. (OwnTranscript /\ NobodyForgotten /\ InOrder /\ BatchBound)'
    BY <1>1, <1>2 DEF Safety, OwnTranscript, NobodyForgotten, InOrder, BatchBound
  <1>6. OneFate'
    BY <1>1, <1>2 DEF Safety, OneFate
  <1>. QED
    BY <1>3, <1>4, <1>5, <1>6 DEF Safety

\* The new request gets the largest ticket, and had no place before.
LEMMA SubmitStep ==
    ASSUME IInv, NEW r \in Requests, Submit(r)
    PROVE  IInv'
  <1>. USE DEF IInv, Submit, Put
  <1>1. /\ status' \in [Requests -> Status] /\ ticket' \in [Requests -> Nat]
        /\ \A q \in Requests : q # r => status'[q] = status[q] /\ ticket'[q] = ticket[q]
        /\ status[r] = "decoding" /\ status'[r] = "waiting"
        /\ ticket'[r] = submitted + 1 /\ submitted' = submitted + 1 /\ submitted \in Nat
    BY DEF TypeOK, Status
  <1>2. /\ queue' \in Seq(Requests)
        /\ Len(queue) \in Nat
        /\ DOMAIN queue' = DOMAIN queue \cup {Len(queue) + 1}
        /\ \A i \in DOMAIN queue : queue'[i] = queue[i] /\ i < Len(queue) + 1 /\ i \in Nat
        /\ queue'[Len(queue) + 1] = r
    BY AppendedLast DEF TypeOK
  <1>3. Queued' = Queued \cup {r}
    BY <1>2 DEF Queued
  <1>4. Queued \subseteq Requests /\ batch \subseteq Requests
        /\ \A i \in DOMAIN batches : batches[i] \subseteq Requests
    BY DEF TypeOK, Queued
  <1>5. r \notin Queued /\ r \notin batch /\ \A i \in DOMAIN batches : r \notin batches[i]
    BY <1>1 DEF Ordered
  <1>6. TypeOK'
    BY <1>1, <1>2 DEF TypeOK
  <1>7. Lifecycle'
    BY DEF Lifecycle
  <1>8. Ordered'
    <2>1. \A q \in Queued' \cup batch' :
             ticket'[q] \in 1..submitted' /\ status'[q] \in {"waiting", "cancelled"}
      BY <1>1, <1>3, <1>4, <1>5 DEF Ordered
    <2>2. \A i, j \in DOMAIN queue' : i < j => ticket'[queue'[i]] < ticket'[queue'[j]]
      <3>1. \A i \in DOMAIN queue : /\ queue[i] \in Queued /\ queue[i] # r
                                    /\ ticket'[queue'[i]] = ticket[queue[i]]
                                    /\ ticket[queue[i]] \in 1..submitted
        BY <1>1, <1>2, <1>4, <1>5 DEF Ordered, Queued
      <3>. QED
        BY <1>1, <1>2, <3>1 DEF Ordered
    <2>3. \A q \in batch', p \in Queued' : ticket'[q] < ticket'[p]
      BY <1>1, <1>3, <1>4, <1>5 DEF Ordered
    <2>4. \A i \in DOMAIN batches' : \A q \in batches'[i] :
             ticket'[q] \in 1..submitted' /\ \A p \in Queued' : ticket'[q] < ticket'[p]
      BY <1>1, <1>3, <1>4, <1>5 DEF Ordered
    <2>5. collector' = "fill" =>
             \A i \in DOMAIN batches' : \A q \in batches'[i], p \in batch' : ticket'[q] < ticket'[p]
      BY <1>1, <1>4, <1>5 DEF Ordered
    <2>6. \A q \in Requests : status'[q] \in {"new", "decoding", "rejected"} => ticket'[q] = 0
      BY <1>1 DEF Ordered
    <2>. QED
      BY <2>1, <2>2, <2>3, <2>4, <2>5, <2>6 DEF Ordered
  <1>9. (OwnTranscript /\ NobodyForgotten)'
    BY <1>1, <1>3 DEF Safety, OwnTranscript, NobodyForgotten
  <1>10. InOrder' /\ BatchBound'
    BY <1>1, <1>4, <1>5 DEF Safety, InOrder, BatchBound
  <1>11. OneFate'
    BY <1>1, <1>4, <1>5 DEF Safety, OneFate
  <1>. QED
    BY <1>6, <1>7, <1>8, <1>9, <1>10, <1>11 DEF Safety

-----------------------------------------------------------------------------
(* The collector and the thread. *)

LEMMA TakeStep ==
    ASSUME IInv, TakeFirst \/ TakeMore
    PROVE  IInv'
  <1>. USE DEF IInv, callerVars
  <1>1. /\ queue # <<>> /\ queue \in Seq(Requests)
        /\ queue' = Tail(queue) /\ collector' = "fill"
        /\ collector \in {"first", "fill"}
        /\ batch' = batch \cup {Head(queue)}
        /\ UNCHANGED <<server, worker, job, out, batches, callerVars>>
    BY DEF TakeFirst, TakeMore, Lifecycle, TypeOK
  <1>2. /\ Head(queue) = queue[1] /\ 1 \in DOMAIN queue /\ Head(queue) \in Requests
        /\ queue' \in Seq(Requests)
        /\ \A i \in DOMAIN queue' : i + 1 \in DOMAIN queue /\ queue'[i] = queue[i + 1]
        /\ \A i \in DOMAIN queue :
              i = 1 \/ (i - 1 \in DOMAIN queue' /\ queue[i] = queue'[i - 1])
    BY <1>1, TakenQueue
  <1>3. DOMAIN queue \subseteq Nat \ {0} /\ DOMAIN queue' \subseteq Nat \ {0}
    BY <1>1, <1>2
  <1>4. /\ Queued' \subseteq Queued /\ Head(queue) \in Queued
        /\ Queued = Queued' \cup {Head(queue)}
    BY <1>2 DEF Queued
  <1>5. TypeOK'
    BY <1>1, <1>2 DEF TypeOK
  <1>6. Lifecycle'
    <2>1. Cardinality(batch') <= MaxBatch
      <3>1. /\ Cardinality({Head(queue)}) = 1
            /\ Cardinality(batch \cup {Head(queue)}) <= Cardinality(batch) + 1
            /\ Cardinality(batch) \in Nat
            /\ Cardinality(batch \cup {Head(queue)}) \in Nat
        BY <1>2, BatchSizes
      <3>2. CASE TakeFirst
        BY <3>1, <3>2, BatcherAssumption DEF TakeFirst
      <3>3. CASE TakeMore
        BY <3>1, <3>3, BatcherAssumption DEF TakeMore, Room
      <3>. QED
        BY <3>2, <3>3
    <2>. QED
      BY <1>1, <2>1 DEF Lifecycle
  <1>7. Ordered'
    <2>1. \A r \in Queued' \cup batch' :
             ticket'[r] \in 1..submitted' /\ status'[r] \in {"waiting", "cancelled"}
      BY <1>1, <1>4 DEF Ordered
    <2>2. \A i, j \in DOMAIN queue' : i < j => ticket'[queue'[i]] < ticket'[queue'[j]]
      <3>1. SUFFICES ASSUME NEW i \in DOMAIN queue', NEW j \in DOMAIN queue', i < j
                     PROVE  ticket[queue[i + 1]] < ticket[queue[j + 1]]
        BY <1>1, <1>2
      <3>2. i + 1 \in DOMAIN queue /\ j + 1 \in DOMAIN queue /\ i + 1 < j + 1
        BY <1>2, <1>3, <3>1
      <3>. QED
        BY <3>2 DEF Ordered
    <2>3. \A s \in Queued' : ticket[Head(queue)] < ticket[s]
      <3>1. \A i \in DOMAIN queue' : ticket[queue[1]] < ticket[queue[i + 1]]
        <4>1. SUFFICES ASSUME NEW i \in DOMAIN queue'
                       PROVE  ticket[queue[1]] < ticket[queue[i + 1]]
          OBVIOUS
        <4>2. 1 \in DOMAIN queue /\ i + 1 \in DOMAIN queue /\ 1 < i + 1
          BY <1>2, <1>3
        <4>. QED
          BY <4>2 DEF Ordered
      <3>. QED
        BY <1>2, <3>1 DEF Queued
    <2>4. \A r \in batch', s \in Queued' : ticket'[r] < ticket'[s]
      BY <1>1, <1>4, <2>3 DEF Ordered
    <2>5. \A i \in DOMAIN batches' : \A r \in batches'[i] :
             /\ ticket'[r] \in 1..submitted'
             /\ \A s \in Queued' : ticket'[r] < ticket'[s]
      BY <1>1, <1>4 DEF Ordered
    <2>6. \A i \in DOMAIN batches' : \A r \in batches'[i], s \in batch' : ticket'[r] < ticket'[s]
      BY <1>1, <1>4 DEF Ordered, Lifecycle
    <2>7. \A r \in Requests : status'[r] \in {"new", "decoding", "rejected"} => ticket'[r] = 0
      BY <1>1 DEF Ordered
    <2>. QED
      BY <2>1, <2>2, <2>4, <2>5, <2>6, <2>7 DEF Ordered
  <1>8. NobodyForgotten'
    BY <1>1, <1>4 DEF Safety, NobodyForgotten
  <1>9. (OwnTranscript /\ InOrder /\ BatchBound /\ OneFate)'
    BY <1>1 DEF Safety, OwnTranscript, InOrder, BatchBound, OneFate
  <1>. QED
    BY <1>5, <1>6, <1>7, <1>8, <1>9 DEF Safety

\* Closing a batch: who gave up is dropped, and the rest comes after every earlier batch.
LEMMA CloseStep ==
    ASSUME IInv, CloseFull \/ CloseEarly
    PROVE  IInv'
  <1>. USE DEF IInv, callerVars
  <1>1. /\ Dispatch /\ collector = "fill"
        /\ batch' = Undone /\ UNCHANGED <<server, queue, out, callerVars>>
        /\ Queued' = Queued
    BY DEF CloseFull, CloseEarly, Dispatch, Queued
  <1>2. /\ Undone \subseteq batch /\ batch \subseteq Requests
        /\ \A r \in batch : status[r] = "waiting" => r \in Undone
        /\ worker = "idle" /\ job = {}
        /\ Cardinality(Undone) <= MaxBatch
    <2>1. Cardinality(Undone) <= MaxBatch
      BY BatchSizes, BatcherAssumption DEF Lifecycle
    <2>. QED
      BY <1>1, <2>1 DEF Undone, TypeOK, Lifecycle
  <1>3. NobodyForgotten' /\ OwnTranscript'
    BY <1>1, <1>2 DEF Safety, NobodyForgotten, OwnTranscript
  <1>4. CASE Undone = {}
    <2>1. UNCHANGED <<worker, job, batches>> /\ collector' = "first"
      BY <1>1, <1>4 DEF Dispatch
    <2>2. TypeOK' /\ Lifecycle' /\ Ordered'
      BY <1>1, <1>2, <1>4, <2>1 DEF TypeOK, Lifecycle, Ordered
    <2>3. (InOrder /\ BatchBound /\ OneFate)'
      BY <1>1, <2>1 DEF Safety, InOrder, BatchBound, OneFate
    <2>. QED
      BY <1>3, <2>2, <2>3 DEF Safety
  <1>5. CASE Undone # {}
    <2>1. /\ collector' = "gpu" /\ worker' = "queued" /\ job' = Undone
          /\ batches' = Append(batches, Undone)
      BY <1>1, <1>5 DEF Dispatch
    <2>2. /\ batches' \in Seq(SUBSET Requests)
          /\ batches' # <<>>
          /\ Len(batches) \in Nat
          /\ Len(batches') = Len(batches) + 1
          /\ DOMAIN batches' = DOMAIN batches \cup {Len(batches) + 1}
          /\ \A i \in DOMAIN batches :
                batches'[i] = batches[i] /\ i < Len(batches) + 1 /\ i \in Nat
          /\ batches'[Len(batches) + 1] = Undone
      BY <1>2, <2>1, AppendedLast DEF TypeOK
    <2>3. TypeOK'
      BY <1>1, <1>2, <1>5, <2>1, <2>2 DEF TypeOK
    <2>4. Lifecycle'
      BY <1>1, <1>2, <2>1, <2>2 DEF Lifecycle
    <2>5. Ordered'
      BY <1>1, <1>2, <2>1, <2>2 DEF Ordered
    <2>6. InOrder'
      BY <1>1, <1>2, <2>2 DEF Ordered, Safety, InOrder
    <2>7. BatchBound'
      BY <1>2, <1>5, <2>2 DEF Safety, BatchBound
    <2>8. OneFate'
      BY <1>1, <1>2, <2>2 DEF Ordered, Safety, OneFate
    <2>. QED
      BY <1>3, <2>3, <2>4, <2>5, <2>6, <2>7, <2>8 DEF Safety
  <1>. QED
    BY <1>4, <1>5

\* The thread changes what it has produced, and nothing else.
LEMMA ThreadStep ==
    ASSUME IInv, WorkerStep
    PROVE  IInv'
  <1>. USE DEF IInv, callerVars, WorkerStep, WorkerStart, WorkerReturn, WorkerRaise
  <1>1. /\ UNCHANGED <<server, collector, queue, batch, job, batches, callerVars>>
        /\ Queued' = Queued /\ worker # "idle" /\ worker' # "idle"
    BY DEF Queued
  <1>2. TypeOK'
    BY <1>1 DEF TypeOK
  <1>3. Lifecycle' /\ Ordered'
    BY <1>1 DEF Lifecycle, Ordered
  <1>4. Safety'
    BY <1>1 DEF Safety, OwnTranscript, NobodyForgotten, InOrder, BatchBound, OneFate
  <1>. QED
    BY <1>2, <1>3, <1>4

\* Settling a batch: its members were all unsettled, and no other batch has any of them.
LEMMA SettleStep ==
    ASSUME IInv, Deliver \/ FailBatch
    PROVE  IInv'
  <1>. USE DEF IInv
  <1>1. PICK outcome \in {"answered", "failed"} :
           /\ Settle(Undone, outcome)
           /\ outcome = "answered" => Deliver
           /\ outcome = "failed" => UNCHANGED answer
    BY DEF Deliver, FailBatch
  <1>2. /\ collector = "gpu" /\ collector' = "first" /\ batch' = {} /\ worker' = "idle"
        /\ job' = {} /\ out' = NoOutput
        /\ UNCHANGED <<server, queue, batches, ticket, submitted>>
        /\ Queued' = Queued
    BY <1>1 DEF Settle, Deliver, FailBatch, BatchFailed, Queued
  <1>3. /\ Undone \subseteq batch /\ batch \subseteq Requests /\ Queued \subseteq Requests
        /\ \A r \in batch : r \in Undone <=> status[r] = "waiting"
    BY DEF Undone, TypeOK, Queued
  <1>4. /\ status' \in [Requests -> Status]
        /\ \A r \in Requests : status'[r] = IF r \in Undone THEN outcome ELSE status[r]
    BY <1>1, <1>3 DEF Settle, TypeOK, Status
  <1>5. /\ answer' \in [Requests -> Requests \cup {NoTranscript}]
        /\ \A r \in Requests : answer'[r] = IF r \in Undone /\ outcome = "answered"
                                            THEN r ELSE answer[r]
    <2>1. CASE outcome = "answered"
      <3>1. /\ worker = "returned" /\ Aligned
            /\ answer' = [r \in Requests |-> IF r \in Undone THEN out[r] ELSE answer[r]]
        BY <1>1, <2>1 DEF Deliver
      <3>2. \A r \in Undone : r \in Requests /\ out[r] = r
        BY <1>2, <1>3, <3>1 DEF Aligned, Lifecycle
      <3>. QED
        BY <2>1, <3>1, <3>2 DEF TypeOK
    <2>2. CASE outcome = "failed"
      BY <1>1, <2>2 DEF TypeOK
    <2>. QED
      BY <2>1, <2>2
  <1>6. TypeOK'
    BY <1>2, <1>4, <1>5 DEF TypeOK, NoOutput
  <1>7. Lifecycle'
    BY <1>2, FS_EmptySet, BatcherAssumption DEF Lifecycle
  <1>8. Queued \cap batch = {}
    BY <1>3 DEF Ordered, TypeOK
  <1>9. Ordered'
    BY <1>2, <1>3, <1>4, <1>8 DEF Ordered
  <1>10. OwnTranscript' /\ NobodyForgotten'
    BY <1>2, <1>3, <1>4, <1>5, <1>8 DEF Safety, OwnTranscript, NobodyForgotten
  <1>11. InOrder' /\ BatchBound'
    BY <1>2 DEF Safety, InOrder, BatchBound
  <1>12. OneFate'
    <2>. DEFINE n == Len(batches)
    <2>1. /\ n \in DOMAIN batches /\ batches[n] = batch
          /\ DOMAIN batches = 1..n /\ n \in Nat
      BY <1>2 DEF Lifecycle, TypeOK
    <2>2. \A i \in DOMAIN batches : batches[i] \subseteq Requests
      BY DEF TypeOK
    <2>3. \A i \in DOMAIN batches : i # n => batches[i] \cap batch = {}
      <3>1. SUFFICES ASSUME NEW i \in DOMAIN batches, i # n,
                            NEW r \in batches[i], r \in batches[n]
                     PROVE  FALSE
        BY <2>1
      <3>2. i < n /\ ticket[r] \in Nat
        BY <2>1, <2>2, <3>1 DEF TypeOK
      <3>. QED
        BY <2>1, <3>1, <3>2 DEF Safety, InOrder
    <2>4. \A r \in batch : status[r] \in {"waiting", "cancelled"}
      BY DEF Ordered
    <2>5. ASSUME NEW i \in DOMAIN batches, NEW r \in Requests, NEW s \in Requests,
                 {r, s} \subseteq batches[i]
          PROVE  ~(status'[r] = "answered" /\ status'[s] = "failed")
      <3>1. CASE i = n
        BY <1>3, <1>4, <2>1, <2>4, <2>5, <3>1
      <3>2. CASE i # n
        BY <1>3, <1>4, <2>3, <2>5, <3>2 DEF Safety, OneFate
      <3>. QED
        BY <3>1, <3>2
    <2>6. ASSUME NEW r \in Requests, status'[r] \in {"answered", "failed"}
          PROVE  \E i \in DOMAIN batches : r \in batches[i]
      BY <1>3, <1>4, <2>1, <2>6 DEF Safety, OneFate
    <2>. QED
      BY <1>2, <2>5, <2>6 DEF OneFate
  <1>. QED
    BY <1>6, <1>7, <1>9, <1>10, <1>11, <1>12 DEF Safety

-----------------------------------------------------------------------------
(* The theorems. *)

LEMMA StutterInv ==
    ASSUME IInv, UNCHANGED vars
    PROVE  IInv'
  <1>. USE DEF vars, callerVars
  <1>1. TypeOK' /\ Lifecycle' /\ Ordered'
    BY DEF IInv, TypeOK, Lifecycle, Ordered, Queued
  <1>2. Safety'
    BY DEF IInv, Safety, OwnTranscript, NobodyForgotten, InOrder, BatchBound, OneFate, Queued
  <1>. QED
    BY <1>1, <1>2 DEF IInv

LEMMA StepInv == IInv /\ [Next]_vars => IInv'
  <1>. SUFFICES ASSUME IInv, [Next]_vars PROVE IInv'
    OBVIOUS
  <1>1. CASE Start \/ Stop \/ StopStep
    BY <1>1, LifespanStep DEF StopStep
  <1>2. CASE \E r \in Requests : Arrive(r) \/ Reject(r) \/ GiveUp(r)
    BY <1>2, CallerStep
  <1>3. CASE \E r \in Requests : Submit(r)
    BY <1>3, SubmitStep
  <1>4. CASE CollectorStep
    BY <1>4, TakeStep, CloseStep, SettleStep DEF CollectorStep
  <1>5. CASE WorkerStep
    BY <1>5, ThreadStep
  <1>6. CASE Exited \/ UNCHANGED vars
    BY <1>6, StutterInv DEF Exited
  <1>. QED
    BY <1>1, <1>2, <1>3, <1>4, <1>5, <1>6 DEF Next

\* Everything that follows rests on this: the invariant holds in every reachable state of the
\* batcher (Batcher._collect, _run, submit, start and stop).
THEOREM Invariance == SafeSpec => []IInv
  <1>. QED
    BY InitInv, StepInv, PTL DEF SafeSpec

\* The state of the batcher keeps its shape; in particular the thread holds a job exactly when
\* it is not idle, and the engine's list has an entry for each member of that job.
THEOREM TypeCorrect == SafeSpec => []TypeOK
  <1>1. IInv => TypeOK
    BY DEF IInv
  <1>. QED
    BY <1>1, Invariance, PTL

\* A caller never gets another caller's transcript, even from an engine that mixes them up.
THEOREM TranscriptsReachTheirCallers == SafeSpec => []OwnTranscript
  <1>1. IInv => OwnTranscript
    BY DEF IInv, Safety
  <1>. QED
    BY <1>1, Invariance, PTL

\* While the server serves, every request that waits is in the queue or in the batch.
THEOREM NoRequestIsLost == SafeSpec => []NobodyForgotten
  <1>1. IInv => NobodyForgotten
    BY DEF IInv, Safety
  <1>. QED
    BY <1>1, Invariance, PTL

\* Batches keep the order of submission, and no request is in two of them.
THEOREM BatchesInOrder == SafeSpec => []InOrder
  <1>1. IInv => InOrder
    BY DEF IInv, Safety
  <1>. QED
    BY <1>1, Invariance, PTL

\* The engine never gets an empty batch, nor one larger than max_batch.
THEOREM BatchesBounded == SafeSpec => []BatchBound
  <1>1. IInv => BatchBound
    BY DEF IInv, Safety
  <1>. QED
    BY <1>1, Invariance, PTL

\* An engine failure reaches its own batch and nobody else.
THEOREM FailureStaysInItsBatch == SafeSpec => []OneFate
  <1>1. IInv => OneFate
    BY DEF IInv, Safety
  <1>. QED
    BY <1>1, Invariance, PTL

\* What a caller has been told is never changed: every action that settles a caller looks at
\* its future first.
THEOREM OutcomesAreFinal == SafeSpec => OutcomeIsFinal
  <1>. DEFINE Final == \A r \in Requests :
                          status[r] \in {"answered", "failed", "rejected", "cancelled"} =>
                              status'[r] = status[r] /\ answer'[r] = answer[r]
  <1>1. IInv /\ [Next]_vars => [Final]_vars
    <2>. SUFFICES ASSUME IInv, Next PROVE Final
      BY DEF vars
    <2>. USE DEF callerVars
    <2>1. CASE UNCHANGED <<status, answer>>
      BY <2>1
    <2>2. CASE \E r \in Requests : Arrive(r) \/ Reject(r) \/ Submit(r) \/ GiveUp(r)
      BY <2>2 DEF Arrive, Reject, Submit, GiveUp, IInv, TypeOK
    <2>3. CASE Deliver \/ FailBatch
      <3>1. \A r \in Undone : status[r] = "waiting"
        BY DEF Undone
      <3>2. \A r \in Requests : r \notin Undone => status'[r] = status[r] /\ answer'[r] = answer[r]
        BY <2>3 DEF Deliver, FailBatch, Settle, IInv, TypeOK
      <3>. QED
        BY <3>1, <3>2
    <2>. QED
      BY <2>1, <2>2, <2>3 DEF Next, Start, Stop, StopStep, Shutdown, Closed, CollectorStep, TakeFirst,
         TakeMore, CloseFull, CloseEarly, Dispatch, WorkerStep, WorkerStart, WorkerReturn,
         WorkerRaise, Exited, vars
  <1>. QED
    BY <1>1, Invariance, PTL DEF SafeSpec, OutcomeIsFinal

-----------------------------------------------------------------------------
(* The batcher implements the abstract service. *)

LEMMA ServiceInit == Init => Service!Init
  BY DEF Init, Service!Init

\* The one step of the abstract service that is not a caller's: taking the oldest group.
LEMMA DispatchServes ==
    ASSUME IInv, CloseFull \/ CloseEarly, Undone # {}
    PROVE  Service!Serve(Undone)
  <1>. USE DEF IInv
  <1>1. /\ collector = "fill" /\ collector' = "gpu" /\ batch' = Undone
        /\ UNCHANGED <<server, callerVars>>
        /\ server = "serving"
    BY DEF CloseFull, CloseEarly, Dispatch, Lifecycle
  <1>2. Undone \subseteq Service!Pending
    BY <1>1 DEF Undone, Service!Pending, TypeOK
  <1>3. Service!Cardinality(Undone) <= MaxBatch
    <2>1. Cardinality(Undone) <= MaxBatch
      BY BatchSizes, BatcherAssumption DEF Lifecycle
    <2>2. Service!Cardinality(Undone) = Cardinality(Undone)
      BY DEF Cardinality, Service!Cardinality
    <2>. QED
      BY <2>1, <2>2
  <1>4. \A r \in Undone, w \in Service!Pending \ Undone : ticket[r] < ticket[w]
    BY <1>1 DEF Undone, Service!Pending, Safety, NobodyForgotten, Ordered
  <1>5. /\ server \in {"new", "serving"}
        /\ (IF collector = "gpu" THEN batch ELSE {}) = {}
        /\ (IF collector' = "gpu" THEN batch' ELSE {}) = Undone
        /\ UNCHANGED <<status, answer, ticket, submitted, server>>
    BY <1>1 DEF callerVars
  <1>. QED
    BY <1>2, <1>3, <1>4, <1>5 DEF Service!Serve

LEMMA SettleSettles ==
    ASSUME IInv, Deliver \/ FailBatch
    PROVE  Service!Complete \/ Service!Fail
  <1>. USE DEF IInv
  <1>1. /\ collector = "gpu" /\ collector' = "first"
        /\ server = "serving" /\ server' = "serving" /\ UNCHANGED <<ticket, submitted>>
        /\ batch # {} /\ batch \subseteq Requests
        /\ \A r \in Requests : r \in Undone <=> r \in batch /\ status[r] = "waiting"
    BY DEF Deliver, FailBatch, BatchFailed, Settle, Lifecycle, TypeOK, Undone
  <1>2. CASE Deliver
    <2>1. \A r \in Undone : out[r] = r
      BY <1>1, <1>2 DEF Deliver, Aligned, Lifecycle, Undone
    <2>2. answer' = [r \in Requests |-> IF r \in batch /\ status[r] = "waiting" THEN r ELSE answer[r]]
      BY <1>1, <1>2, <2>1 DEF Deliver
    <2>3. status' = [r \in Requests |->
                        IF r \in batch /\ status[r] = "waiting" THEN "answered" ELSE status[r]]
      BY <1>1, <1>2 DEF Deliver, Settle
    <2>. QED
      BY <1>1, <2>2, <2>3 DEF Service!Complete, Service!Settle
  <1>3. CASE FailBatch
    <2>1. status' = [r \in Requests |->
                        IF r \in batch /\ status[r] = "waiting" THEN "failed" ELSE status[r]]
      BY <1>1, <1>3 DEF FailBatch, Settle
    <2>. QED
      BY <1>1, <1>3, <2>1 DEF FailBatch, Service!Fail, Service!Settle
  <1>. QED
    BY <1>2, <1>3

LEMMA ServiceStep == IInv /\ [Next]_vars => [Service!Next]_(Service!vars)
  <1>. SUFFICES ASSUME IInv, [Next]_vars PROVE [Service!Next]_(Service!vars)
    OBVIOUS
  <1>. USE DEF callerVars
  <1>1. CASE Start \/ StopStep \/ WorkerStep \/ Exited \/ UNCHANGED vars
    BY <1>1 DEF Start, StopStep, Shutdown, Closed, WorkerStep, WorkerStart, WorkerReturn,
       WorkerRaise, Exited, vars, Service!vars, IInv, Lifecycle
  <1>2. CASE Stop
    BY <1>2 DEF Stop, Service!Next, Service!Shut
  <1>3. ASSUME NEW r \in Requests, Arrive(r) \/ Reject(r) \/ Submit(r) \/ GiveUp(r)
        PROVE  Service!Next
    BY <1>3 DEF Arrive, Reject, Submit, GiveUp, Service!Next, Service!Arrive, Service!Reject,
       Service!Submit, Service!GiveUp
  <1>4. CASE TakeFirst \/ TakeMore
    BY <1>4 DEF TakeFirst, TakeMore, Service!vars
  <1>5. CASE CloseFull \/ CloseEarly
    <2>1. CASE Undone = {}
      BY <1>5, <2>1 DEF CloseFull, CloseEarly, Dispatch, Service!vars
    <2>2. CASE Undone # {}
      <3>1. Undone \in SUBSET Requests
        BY DEF Undone, IInv, TypeOK
      <3>. QED
        BY <1>5, <2>2, <3>1, DispatchServes DEF Service!Next
    <2>. QED
      BY <2>1, <2>2
  <1>6. CASE Deliver \/ FailBatch
    BY <1>6, SettleSettles DEF Service!Next
  <1>. QED
    BY <1>1, <1>2, <1>3, <1>4, <1>5, <1>6 DEF Next, CollectorStep

\* For its callers, the queue, the collector coroutine and the GPU thread are one engine that
\* takes the oldest requests in groups and settles each group at once.
THEOREM BatcherImplementsService == SafeSpec => ImplementsService
  BY ServiceInit, ServiceStep, Invariance, PTL DEF SafeSpec, ImplementsService, Service!SafeSpec

=============================================================================
