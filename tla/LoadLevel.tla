----------------------------- MODULE LoadLevel ------------------------------
(***************************************************************************)
(* The repeats of one level of a load test: the drain before each repeat   *)
(* (loadtest._drain), its closed-loop streams or open-loop speakers        *)
(* (run_stream, run_session, run_level), the balancer that picks a server  *)
(* for each request (client.LeastOutstandingTransport), and what is kept   *)
(* of the requests (load_stats.in_window, summarize_level, is_sustainable).*)
(*                                                                         *)
(* Time is counted in ticks from the start of a repeat; the event loop may *)
(* be late, so that a step happens at any tick from its due time on.  A    *)
(* request the client gives up on may keep its server busy.                *)
(***************************************************************************)
EXTENDS Integers, Sequences, FiniteSets

CONSTANTS Clients,          \* the level's streams or speakers
          Servers,          \* the servers, numbered in the order of --url
          Modes,            \* the profile modes tried: "open", "closed"
          Due,              \* open loop: each client's schedule of send times, all before End
          MaxSends,         \* bound on the requests of one client in one repeat
          Repeats,          \* profile.repeats
          Warmup, End,      \* the steady state is [Warmup, End)
          Horizon,          \* bound on the clock
          MaxLag,           \* thresholds.max_client_lag_s
          DrainPolls,       \* request_timeout_s in drain periods
          SharedTransport,  \* one transport for all clients (--workers 1), or one each
          MetricsKinds,     \* whether the server has a /metrics endpoint, as tried
          ScrapeMayFail     \* a scrape of an existing endpoint may fail

ASSUME LevelAssumption ==
    /\ IsFiniteSet(Clients)
    /\ Servers \subseteq Nat \ {0}
    /\ Servers # {}
    /\ Modes \subseteq {"open", "closed"}
    /\ \A c \in Clients : \A k \in DOMAIN Due[c] : Due[c][k] < End
    /\ MaxSends \in Nat \ {0}
    /\ Repeats \in Nat \ {0}
    /\ Warmup < End
    /\ End <= Horizon
    /\ {Warmup, End} \subseteq Int /\ {Horizon, DrainPolls} \subseteq Nat
    /\ {SharedTransport, ScrapeMayFail} \cup MetricsKinds \subseteq BOOLEAN

VARIABLES mode,        \* profile.mode
          hasMetrics,  \* the server has a metrics endpoint
          stage,       \* drain, run or done
          repeat,      \* measure's loop over the repeats
          polls,       \* unsuccessful rounds of _drain
          why,         \* what ended the last drain: idle, timeout, or blind (no metrics text)
          now,         \* ticks since the repeat began
          status,      \* each request of this repeat: unsent, pending or settled
          target,      \* the server that has the request, 0 if none
          sentAt,      \* RequestRecord.sent, while the request is pending
          inFlight,    \* LeastOutstandingTransport._in_flight, of each transport
          working,     \* the requests of this repeat that their servers still work on
          backlog,     \* how many requests of earlier repeats each server still works on
          kept,        \* what the records kept so far contain: "ok", "failed", "lagged"
          late         \* history: how many requests due in the steady state were sent too late

given == <<mode, hasMetrics>>
drain == <<polls, why>>
client == <<now, status, target, sentAt, inFlight>>
server == <<working, backlog>>
results == <<kept, late>>

vars == <<given, stage, repeat, drain, client, server, results>>

Requests == Clients \X (1..MaxSends)

\* A client's transport: the parent's, or its own (workers._run_async).
TransportOf(c) == IF SharedTransport THEN "shared" ELSE c

Transports == {TransportOf(c) : c \in Clients}

Sends(c) == IF mode = "open" THEN Len(Due[c]) ELSE MaxSends

Init ==
    /\ mode \in Modes
    /\ hasMetrics \in MetricsKinds
    /\ stage = "drain"
    /\ repeat = 1
    /\ polls = 0
    /\ why = "idle"
    /\ now = 0
    /\ status = [q \in Requests |-> "unsent"]
    /\ target = [q \in Requests |-> 0]
    /\ sentAt = [q \in Requests |-> 0]
    /\ inFlight = [t \in Transports |-> [s \in Servers |-> 0]]
    /\ working = {}
    /\ backlog = [s \in Servers |-> 0]
    /\ kept = {}
    /\ late = 0

-----------------------------------------------------------------------------
(* The drain. *)

BeginRepeat(reason) ==
    /\ stage' = "run"
    /\ why' = reason
    /\ polls' = 0
    /\ UNCHANGED <<given, repeat, client, server, results>>

\* The servers whose metrics text a scrape returns; the others are left out of the sum.
Scraped == IF ~hasMetrics THEN {{}} ELSE IF ScrapeMayFail THEN SUBSET Servers ELSE {Servers}

\* A slip to rule out: the client's own requests in flight instead of the server's gauges.
Busy_ClientSide(up) == \E t \in Transports, s \in up : inFlight[t][s] > 0

Busy(up) == \E s \in up : backlog[s] > 0

Drain ==
    /\ stage = "drain"
    /\ \E up \in Scraped :
          \/ /\ up = {}
             /\ BeginRepeat("blind")
          \/ /\ up # {}
             /\ ~Busy(up)
             /\ BeginRepeat("idle")
          \/ /\ up # {}
             /\ Busy(up)
             /\ polls >= DrainPolls
             /\ BeginRepeat("timeout")
          \/ /\ up # {}
             /\ Busy(up)
             /\ polls < DrainPolls
             /\ polls' = polls + 1
             /\ UNCHANGED <<given, stage, repeat, why, client, server, results>>

-----------------------------------------------------------------------------
(* The clients. *)

Tick ==
    /\ stage = "run"
    /\ now < Horizon
    /\ now' = now + 1
    /\ UNCHANGED <<given, stage, repeat, drain, status, target, sentAt, inFlight, server, results>>

\* A slip to rule out: the server most recently freed comes first, busy or not.
Picks_Any(t, s) == s \in Servers

\* LeastOutstandingTransport.transcribe: the fewest in flight, ties to the first.
Picks(t, s) ==
    \A x \in Servers : \/ inFlight[t][s] < inFlight[t][x]
                       \/ inFlight[t][s] = inFlight[t][x] /\ s <= x

Bump(t, s, d) == inFlight' = [inFlight EXCEPT ![t][s] = @ + d]

\* When the client sends its k-th request.  run_stream: the last one is settled and the clock is
\* before stop_at.  run_session: the earlier ones were sent and the time has come.
MaySend(c, k) ==
    /\ k <= Sends(c)
    /\ \/ /\ mode = "closed"
          /\ k > 1 => status[<<c, k - 1>>] = "settled"
          /\ now < End
       \/ /\ mode = "open"
          /\ k > 1 => status[<<c, k - 1>>] # "unsent"
          /\ now >= Due[c][k]

Lag(c, k, t) == t - Due[c][k]

Send(c, k) ==
    /\ stage = "run"
    /\ status[<<c, k>>] = "unsent"
    /\ MaySend(c, k)
    /\ \E s \in Servers :
          /\ Picks(TransportOf(c), s)
          /\ Bump(TransportOf(c), s, 1)
          /\ target' = [target EXCEPT ![<<c, k>>] = s]
    /\ working' = working \cup {<<c, k>>}
    /\ status' = [status EXCEPT ![<<c, k>>] = "pending"]
    /\ sentAt' = [sentAt EXCEPT ![<<c, k>>] = now]
    /\ late' = IF mode = "open" /\ Due[c][k] >= Warmup /\ Lag(c, k, now) > MaxLag
               THEN late + 1
               ELSE late
    /\ UNCHANGED <<given, stage, repeat, drain, now, backlog, kept>>

\* in_window: a request counts if it was sent in the steady state, however late it finished.
InWindow(at) == Warmup <= at /\ at < End

\* What the level's summary will see in a record: a success or a failure, a lag.
Seen(c, k, outcome) ==
    IF ~InWindow(sentAt[<<c, k>>]) THEN {}
    ELSE {IF outcome = "ok" THEN "ok" ELSE "failed"}
         \cup {v \in {"lagged"} : mode = "open" /\ Lag(c, k, sentAt[<<c, k>>]) > MaxLag}

\* A slip to rule out: the answer to a request that has timed out is taken as well.
Settle_Late(c, k, outcome) ==
    /\ <<c, k>> \in working
    /\ status' = [status EXCEPT ![<<c, k>>] = "settled"]
    /\ sentAt' = [sentAt EXCEPT ![<<c, k>>] = 0]
    /\ kept' = kept \cup Seen(c, k, outcome)
    /\ Bump(TransportOf(c), target[<<c, k>>], -1)
    /\ UNCHANGED <<given, stage, repeat, drain, now, backlog, late>>

\* The client has a result and makes a record of it; the balancer's finally clause takes the
\* request off its count.
Settle(c, k, outcome) ==
    /\ status[<<c, k>>] = "pending"
    /\ status' = [status EXCEPT ![<<c, k>>] = "settled"]
    /\ sentAt' = [sentAt EXCEPT ![<<c, k>>] = 0]
    /\ kept' = kept \cup Seen(c, k, outcome)
    /\ Bump(TransportOf(c), target[<<c, k>>], -1)
    /\ UNCHANGED <<given, stage, repeat, drain, now, backlog, late>>

LetGo(q) ==
    /\ working' = working \ {q}
    /\ target' = [target EXCEPT ![q] = 0]

\* The server answers: a transcript, or an HTTP error or an unusable body.
Answer(c, k) == Settle(c, k, "ok") /\ LetGo(<<c, k>>)

Refuse(c, k) == Settle(c, k, "error") /\ LetGo(<<c, k>>)

\* A slip to rule out: the count is only taken back when the call returns normally.
TimeOut_NoFinally(c, k) ==
    /\ status[<<c, k>>] = "pending"
    /\ status' = [status EXCEPT ![<<c, k>>] = "settled"]
    /\ sentAt' = [sentAt EXCEPT ![<<c, k>>] = 0]
    /\ kept' = kept \cup Seen(c, k, "timeout")
    /\ UNCHANGED <<given, stage, repeat, drain, now, target, inFlight, server, late>>

\* A slip to rule out: httpx's own timeouts, which a server that keeps trickling bytes never hits.
TimeOut_PerOperation(c, k) ==
    /\ <<c, k>> \notin working
    /\ Settle(c, k, "timeout")
    /\ UNCHANGED <<working, target>>

\* The deadline for the whole request; the server is still at it.
TimeOut(c, k) == Settle(c, k, "timeout") /\ UNCHANGED <<working, target>>

\* The server is through with a request whose client has stopped waiting.
ServerLetsGo ==
    /\ \/ /\ \E q \in working : status[q] # "pending" /\ LetGo(q)
          /\ UNCHANGED backlog
       \/ /\ \E s \in Servers : backlog[s] > 0 /\ backlog' = [backlog EXCEPT ![s] = @ - 1]
          /\ UNCHANGED <<working, target>>
    /\ UNCHANGED <<given, stage, repeat, drain, now, status, sentAt, inFlight, results>>

-----------------------------------------------------------------------------
(* The end of a repeat, and what is kept of it. *)

ClientDone(c) ==
    /\ \A k \in 1..MaxSends : status[<<c, k>>] # "pending"
    /\ mode = "closed" => now >= End
    /\ mode = "open" => \A k \in 1..Sends(c) : status[<<c, k>>] # "unsent"

EndRepeat ==
    /\ stage = "run"
    /\ \A c \in Clients : ClientDone(c)
    /\ \/ /\ repeat < Repeats
          /\ repeat' = repeat + 1
          /\ stage' = "drain"
       \/ /\ repeat = Repeats
          /\ stage' = "done"
          /\ UNCHANGED repeat
    /\ now' = 0
    /\ status' = [q \in Requests |-> "unsent"]
    /\ target' = [q \in Requests |-> 0]
    /\ working' = {}
    /\ backlog' = [s \in Servers |-> backlog[s] + Cardinality({q \in working : target[q] = s})]
    /\ UNCHANGED <<given, drain, sentAt, inFlight, results>>

\* is_sustainable, for a server that is fast and accurate enough: something succeeded, nothing
\* failed, and no kept record of an open level lags.  (The code asks it of the 95th percentile
\* of the lag, which is at most the maximum: a level that passes here passes there.)
Sustainable == kept = {"ok"}

Finished == stage = "done" /\ UNCHANGED vars

Next ==
    \/ Drain
    \/ Tick
    \/ \E c \in Clients, k \in 1..MaxSends :
          Send(c, k) \/ Answer(c, k) \/ Refuse(c, k) \/ TimeOut(c, k)
    \/ ServerLetsGo
    \/ EndRepeat
    \/ Finished

\* The client's loop, its timers and its timeouts make progress; the servers need not.
Fairness ==
    /\ WF_vars(Drain)
    /\ WF_vars(Tick)
    /\ \A c \in Clients, k \in 1..MaxSends : WF_vars(Send(c, k)) /\ WF_vars(TimeOut(c, k))
    /\ WF_vars(EndRepeat)

Spec == Init /\ [][Next]_vars /\ Fairness

-----------------------------------------------------------------------------
(* Properties. *)

PendingAt(s) == {q \in Requests : status[q] = "pending" /\ target[q] = s}

TypeOK ==
    /\ stage \in {"drain", "run", "done"}
    /\ repeat \in 1..Repeats
    /\ polls \in 0..DrainPolls
    /\ why \in {"idle", "timeout", "blind"}
    /\ now \in 0..Horizon
    /\ status \in [Requests -> {"unsent", "pending", "settled"}]
    /\ target \in [Requests -> Servers \cup {0}]
    /\ \A q \in Requests : target[q] # 0 <=> status[q] = "pending" \/ q \in working
    /\ inFlight \in [Transports -> [Servers -> 0..Cardinality(Requests)]]

\* Whatever becomes of a request, it is taken off the balancer's count exactly once: the counts
\* are the requests their clients still wait for, and none are left between two repeats.
InFlightExact ==
    /\ \A t \in Transports, s \in Servers :
          inFlight[t][s] = Cardinality({q \in PendingAt(s) : TransportOf(q[1]) = t})
    /\ stage # "run" => \A t \in Transports, s \in Servers : inFlight[t][s] = 0

\* Each request goes to the server with the fewest requests in flight (client.py, cli.py).
LeastBusyServer ==
    [][\A q \in Requests : status[q] = "unsent" /\ status'[q] = "pending" =>
          \A s \in Servers : Cardinality(PendingAt(target'[q])) <= Cardinality(PendingAt(s))]_vars

\* A repeat starts on a server that still works for an earlier one only after the drain waited
\* request_timeout_s for it, or when the server has no metrics endpoint to ask.
StartsIdle ==
    stage = "run" /\ (\E s \in Servers : backlog[s] > 0) => why = "timeout" \/ ~hasMetrics

\* A level passes only if its client kept the timetable (is_sustainable: "a lagging client offered
\* less load than the level claims"): not when most of the requests due in the steady state went
\* out later than max_client_lag_s.
LagCannotHide ==
    stage = "done" /\ mode = "open" /\ Sustainable =>
        LET due == {q \in Requests : q[2] <= Sends(q[1]) /\ Due[q[1]][q[2]] >= Warmup}
        IN  2 * late <= Repeats * Cardinality(due)

\* The level ends even if no server ever answers.
LevelEnds == <>(stage = "done")
=============================================================================
