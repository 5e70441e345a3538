------------------------ MODULE TranscriptionService ------------------------
(***************************************************************************)
(* What the batching server promises its callers, with no queue, collector *)
(* or worker thread: an engine that serves one group of waiting requests   *)
(* at a time, oldest first and at most MaxBatch of them, and settles the   *)
(* whole group at once, each member with its own transcript or all of them *)
(* with the same failure.  A caller may give up at any time.  Once the     *)
(* service is shut nobody is served any more.                              *)
(***************************************************************************)
EXTENDS Integers, FiniteSets

CONSTANTS Requests,   \* the requests that may ever be sent
          MaxBatch,   \* the largest group the engine takes
          NoTranscript

VARIABLES status,     \* what each caller has seen so far
          answer,     \* whose transcript each caller was given
          ticket,     \* the position of each request in the order of submission
          submitted,  \* how many requests have been submitted
          serving,    \* the group the engine is working on
          open        \* FALSE once the service has been shut

vars == <<status, answer, ticket, submitted, serving, open>>

Status == {"new", "decoding", "waiting", "answered", "failed", "rejected", "cancelled"}

Init ==
    /\ status = [r \in Requests |-> "new"]
    /\ answer = [r \in Requests |-> NoTranscript]
    /\ ticket = [r \in Requests |-> 0]
    /\ submitted = 0
    /\ serving = {}
    /\ open = TRUE

Pending == {r \in Requests : status[r] = "waiting"} \ serving

-----------------------------------------------------------------------------

Arrive(r) ==
    /\ status[r] = "new"
    /\ status' = [status EXCEPT ![r] = "decoding"]
    /\ UNCHANGED <<answer, ticket, submitted, serving, open>>

Reject(r) ==
    /\ status[r] = "decoding"
    /\ status' = [status EXCEPT ![r] = "rejected"]
    /\ UNCHANGED <<answer, ticket, submitted, serving, open>>

Submit(r) ==
    /\ status[r] = "decoding"
    /\ status' = [status EXCEPT ![r] = "waiting"]
    /\ ticket' = [ticket EXCEPT ![r] = submitted + 1]
    /\ submitted' = submitted + 1
    /\ UNCHANGED <<answer, serving, open>>

GiveUp(r) ==
    /\ status[r] \in {"decoding", "waiting"}
    /\ status' = [status EXCEPT ![r] = "cancelled"]
    /\ UNCHANGED <<answer, ticket, submitted, serving, open>>

\* The engine takes the oldest pending requests.
Serve(S) ==
    /\ open
    /\ serving = {}
    /\ S # {}
    /\ S \subseteq Pending
    /\ Cardinality(S) <= MaxBatch
    /\ \A r \in S, w \in Pending \ S : ticket[r] < ticket[w]
    /\ serving' = S
    /\ UNCHANGED <<status, answer, ticket, submitted, open>>

Settle(outcome) ==
    /\ open
    /\ serving # {}
    /\ status' = [r \in Requests |->
                    IF r \in serving /\ status[r] = "waiting" THEN outcome ELSE status[r]]
    /\ serving' = {}
    /\ UNCHANGED <<ticket, submitted, open>>

Complete ==
    /\ Settle("answered")
    /\ answer' = [r \in Requests |->
                    IF r \in serving /\ status[r] = "waiting" THEN r ELSE answer[r]]

Fail ==
    /\ Settle("failed")
    /\ UNCHANGED answer

Shut ==
    /\ open
    /\ open' = FALSE
    /\ serving' = {}
    /\ UNCHANGED <<status, answer, ticket, submitted>>

Next ==
    \/ \E r \in Requests : Arrive(r) \/ Reject(r) \/ Submit(r) \/ GiveUp(r)
    \/ \E S \in SUBSET Requests : Serve(S)
    \/ Complete
    \/ Fail
    \/ Shut

SafeSpec == Init /\ [][Next]_vars

\* The engine always takes a group when somebody waits, and always settles it.
Fairness ==
    /\ WF_vars(\E S \in SUBSET Requests : Serve(S))
    /\ WF_vars(Complete \/ Fail)

Spec == SafeSpec /\ Fairness
=============================================================================
