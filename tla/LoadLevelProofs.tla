-------------------------- MODULE LoadLevelProofs ---------------------------
(***************************************************************************)
(* Proofs about LoadLevel, for any number of clients, servers, repeats and *)
(* requests, any schedule and any thresholds: the balancer's counts are    *)
(* exact, so that with one transport it picks the least busy server, and a *)
(* drain that can ask the servers starts a repeat on idle ones.            *)
(***************************************************************************)
EXTENDS LoadLevel, FiniteSetTheorems, TLAPS

-----------------------------------------------------------------------------
(* The inductive invariant. *)

\* The requests that transport t has to count on server s.
Counted(t, s) == {q \in PendingAt(s) : TransportOf(q[1]) = t}

Exact == \A t \in Transports, s \in Servers : inFlight[t][s] = Cardinality(Counted(t, s))

\* Nobody waits for an answer outside a run.
Quiet == stage # "run" => \A q \in Requests : status[q] # "pending"

Types ==
    /\ stage \in {"drain", "run", "done"}
    /\ repeat \in 1..Repeats
    /\ polls \in 0..DrainPolls
    /\ why \in {"idle", "timeout", "blind"}
    /\ now \in 0..Horizon

Books ==
    /\ status \in [Requests -> {"unsent", "pending", "settled"}]
    /\ target \in [Requests -> Servers \cup {0}]
    /\ working \subseteq Requests
    /\ backlog \in [Servers -> Nat]
    /\ \A q \in Requests : status[q] = "pending" => q \in working
    /\ \A q \in Requests : target[q] # 0 <=> q \in working

Counts == inFlight \in [Transports -> [Servers -> Int]]

IInv == Types /\ Books /\ Counts /\ Exact /\ Quiet

-----------------------------------------------------------------------------
(* Requests and transports. *)

\* A client's requests are among the requests, and its transport among the transports.
LEMMA RequestFacts ==
    /\ \A c \in Clients, k \in 1..MaxSends :
          <<c, k>> \in Requests /\ <<c, k>>[1] = c /\ TransportOf(c) \in Transports
    /\ \A q \in Requests : q[1] \in Clients /\ q[2] \in 1..MaxSends /\ q = <<q[1], q[2]>>
    /\ 0 \notin Servers
BY LevelAssumption DEF Requests, Transports

\* There are finitely many requests.
LEMMA RequestsFinite == IsFiniteSet(Requests) /\ Cardinality(Requests) \in Nat
<1>1. IsFiniteSet(Clients) /\ MaxSends \in Int
  BY LevelAssumption
<1>2. IsFiniteSet(1..MaxSends)
  BY <1>1, FS_Interval
<1>3. IsFiniteSet(Clients \X (1..MaxSends))
  BY <1>1, <1>2, FS_Product
<1> QED
  BY <1>3, FS_CardinalityType DEF Requests

\* And so are those that are to be counted.
LEMMA CountedFinite ==
    ASSUME NEW t, NEW s
    PROVE  /\ IsFiniteSet(Counted(t, s)) /\ Cardinality(Counted(t, s)) \in Nat
           /\ Cardinality(Counted(t, s)) <= Cardinality(Requests)
<1>1. Counted(t, s) \in SUBSET Requests
  BY DEF Counted, PendingAt
<1> QED
  BY <1>1, RequestsFinite, FS_Subset, FS_CardinalityType

\* Exact counts, in the words of the properties.
LEMMA InvariantGives == IInv => TypeOK /\ InFlightExact
<1> SUFFICES ASSUME IInv PROVE TypeOK /\ InFlightExact
  OBVIOUS
<1>1. \A t \in Transports, s \in Servers :
        inFlight[t][s] = Cardinality({q \in PendingAt(s) : TransportOf(q[1]) = t})
  BY DEF IInv, Exact, Counted
<1>2. ASSUME stage # "run", NEW t \in Transports, NEW s \in Servers
      PROVE  inFlight[t][s] = 0
  <2>1. Counted(t, s) = {}
    BY <1>2 DEF IInv, Quiet, Counted, PendingAt
  <2> QED
    BY <2>1, FS_EmptySet DEF IInv, Exact
<1>3. inFlight \in [Transports -> [Servers -> 0..Cardinality(Requests)]]
  <2>1. \A t \in Transports, s \in Servers : inFlight[t][s] \in 0..Cardinality(Requests)
    BY RequestsFinite, CountedFinite DEF IInv, Exact
  <2> QED
    BY <2>1 DEF IInv, Counts
<1> QED
  BY <1>1, <1>2, <1>3 DEF IInv, Types, Books, TypeOK, InFlightExact

-----------------------------------------------------------------------------
(* The steps. *)

\* A step that moves one request in or out of the count of its transport on one server.
LEMMA CountMoves ==
    ASSUME IInv, NEW c \in Clients, NEW k \in 1..MaxSends, NEW s \in Servers,
           \A t, x : t # TransportOf(c) \/ x # s => Counted(t, x)' = Counted(t, x),
           \/ /\ Bump(TransportOf(c), s, 1) /\ <<c, k>> \notin Counted(TransportOf(c), s)
              /\ Counted(TransportOf(c), s)' = Counted(TransportOf(c), s) \cup {<<c, k>>}
           \/ /\ Bump(TransportOf(c), s, -1) /\ <<c, k>> \in Counted(TransportOf(c), s)
              /\ Counted(TransportOf(c), s)' = Counted(TransportOf(c), s) \ {<<c, k>>}
    PROVE  Counts' /\ Exact'
<1> DEFINE u == TransportOf(c)
<1>1. u \in Transports
  BY RequestFacts
<1>2. PICK d \in {1, -1} :
        /\ inFlight' = [inFlight EXCEPT ![u][s] = @ + d]
        /\ Cardinality(Counted(u, s)') = Cardinality(Counted(u, s)) + d
  <2>1. IsFiniteSet(Counted(u, s)) /\ Cardinality(Counted(u, s)) \in Nat
    BY CountedFinite
  <2>2. CASE /\ Bump(u, s, 1) /\ <<c, k>> \notin Counted(u, s)
             /\ Counted(u, s)' = Counted(u, s) \cup {<<c, k>>}
    <3>1. Cardinality(Counted(u, s) \cup {<<c, k>>}) = Cardinality(Counted(u, s)) + 1
      BY <2>1, <2>2, FS_AddElement
    <3> QED
      BY <2>2, <3>1 DEF Bump
  <2>3. CASE /\ Bump(u, s, -1) /\ <<c, k>> \in Counted(u, s)
             /\ Counted(u, s)' = Counted(u, s) \ {<<c, k>>}
    <3>1. Cardinality(Counted(u, s) \ {<<c, k>>}) = Cardinality(Counted(u, s)) - 1
      BY <2>1, <2>3, FS_RemoveElement
    <3>2. Cardinality(Counted(u, s)') = Cardinality(Counted(u, s)) + (-1)
      BY <2>1, <2>3, <3>1
    <3> QED
      BY <2>3, <3>2 DEF Bump
  <2> QED
    BY <2>2, <2>3
<1>3. inFlight \in [Transports -> [Servers -> Int]]
  BY DEF IInv, Counts
<1>4. /\ inFlight' \in [Transports -> [Servers -> Int]]
      /\ inFlight'[u][s] = inFlight[u][s] + d
      /\ \A t \in Transports, x \in Servers : t # u \/ x # s => inFlight'[t][x] = inFlight[t][x]
  BY <1>1, <1>2, <1>3
<1>5. Transports' = Transports
  BY DEF Transports, TransportOf
<1>6. \A t \in Transports, x \in Servers : inFlight'[t][x] = Cardinality(Counted(t, x)')
  <2> TAKE t \in Transports, x \in Servers
  <2>1. CASE t = u /\ x = s
    BY <1>1, <1>2, <1>4, <2>1 DEF IInv, Exact
  <2>2. CASE t # u \/ x # s
    BY <1>4, <2>2 DEF IInv, Exact
  <2> QED
    BY <2>1, <2>2
<1> QED
  BY <1>4, <1>5, <1>6 DEF Counts, Exact

\* Sending a request puts it on the count of the server that gets it.
LEMMA SendStep ==
    ASSUME IInv, NEW c \in Clients, NEW k \in 1..MaxSends, Send(c, k)
    PROVE  IInv'
<1>1. PICK s \in Servers : /\ Bump(TransportOf(c), s, 1)
                           /\ target' = [target EXCEPT ![<<c, k>>] = s]
  BY DEF Send
<1>2. /\ working' = working \cup {<<c, k>>}
      /\ status' = [status EXCEPT ![<<c, k>>] = "pending"]
      /\ status[<<c, k>>] = "unsent" /\ stage = "run"
      /\ UNCHANGED <<stage, repeat, polls, why, now, backlog>>
  BY DEF Send, drain
<1>3. <<c, k>> \in Requests /\ s # 0 /\ <<c, k>>[1] = c
  BY RequestFacts
<1>4. Types' /\ Quiet'
  BY <1>2 DEF IInv, Types, Quiet
<1>5. Books'
  BY <1>1, <1>2, <1>3 DEF IInv, Books
<1>6. /\ \A q \in Requests : q # <<c, k>> => status'[q] = status[q] /\ target'[q] = target[q]
      /\ status'[<<c, k>>] = "pending" /\ target'[<<c, k>>] = s
  BY <1>1, <1>2, <1>3 DEF IInv, Books
<1>7. \A t, x : t # TransportOf(c) \/ x # s => Counted(t, x)' = Counted(t, x)
  BY <1>2, <1>3, <1>6 DEF Counted, PendingAt, TransportOf
<1>8. /\ <<c, k>> \notin Counted(TransportOf(c), s)
      /\ Counted(TransportOf(c), s)' = Counted(TransportOf(c), s) \cup {<<c, k>>}
  BY <1>2, <1>3, <1>6 DEF Counted, PendingAt, TransportOf
<1>9. Counts' /\ Exact'
  BY <1>1, <1>7, <1>8, CountMoves
<1> QED
  BY <1>4, <1>5, <1>9 DEF IInv

\* Settling a request, with an answer or without, takes it off the count.
LEMMA SettleStep ==
    ASSUME IInv, NEW c \in Clients, NEW k \in 1..MaxSends, NEW outcome, Settle(c, k, outcome),
           LetGo(<<c, k>>) \/ UNCHANGED <<working, target>>
    PROVE  IInv'
<1>1. /\ status[<<c, k>>] = "pending" /\ status' = [status EXCEPT ![<<c, k>>] = "settled"]
      /\ Bump(TransportOf(c), target[<<c, k>>], -1)
      /\ UNCHANGED <<stage, repeat, polls, why, now, backlog>>
  BY DEF Settle, drain
<1>2. <<c, k>> \in Requests /\ <<c, k>>[1] = c
  BY RequestFacts
<1>3. target[<<c, k>>] \in Servers
  BY <1>1, <1>2 DEF IInv, Books
<1>4. Types' /\ Quiet'
  BY <1>1, <1>2 DEF IInv, Types, Quiet, Books
<1>5. Books'
  <2>1. CASE LetGo(<<c, k>>)
    BY <1>1, <1>2, <2>1 DEF IInv, Books, LetGo
  <2>2. CASE UNCHANGED <<working, target>>
    BY <1>1, <1>2, <2>2 DEF IInv, Books
  <2> QED
    BY <2>1, <2>2
<1>6. PICK r \in Requests, s \in Servers :
        /\ r = <<c, k>> /\ s = target[r] /\ r[1] = c
        /\ status[r] = "pending" /\ status'[r] = "settled"
        /\ \A q \in Requests : q # r => status'[q] = status[q] /\ target'[q] = target[q]
  BY <1>1, <1>2, <1>3 DEF IInv, Books, LetGo
<1>7. \A t, x : t # TransportOf(c) \/ x # s => Counted(t, x)' = Counted(t, x)
  BY <1>6 DEF Counted, PendingAt, TransportOf
<1>8. /\ r \in Counted(TransportOf(c), s)
      /\ Counted(TransportOf(c), s)' = Counted(TransportOf(c), s) \ {r}
  BY <1>6 DEF Counted, PendingAt, TransportOf
<1>9. Counts' /\ Exact'
  BY <1>1, <1>6, <1>7, <1>8, CountMoves
<1> QED
  BY <1>4, <1>5, <1>9 DEF IInv

\* The server that is through with a request nobody waits for changes no count.
LEMMA ServerStep ==
    ASSUME IInv, ServerLetsGo
    PROVE  IInv'
<1>1. UNCHANGED <<stage, repeat, polls, why, now, status, inFlight>>
  BY DEF ServerLetsGo, drain
<1>2. Types' /\ Counts' /\ Quiet'
  BY <1>1 DEF IInv, Types, Counts, Quiet
<1>3. CASE \E q \in working : status[q] # "pending" /\ LetGo(q) /\ UNCHANGED backlog
  <2>1. PICK q \in Requests : status[q] # "pending" /\ LetGo(q)
    BY <1>3 DEF IInv, Books
  <2>2. Books'
    BY <1>1, <1>3, <2>1 DEF IInv, Books, LetGo
  <2>3. \A r \in Requests : status[r] = "pending" => target'[r] = target[r]
    BY <2>1 DEF IInv, Books, LetGo
  <2>4. \A t, s : Counted(t, s)' = Counted(t, s)
    BY <1>1, <2>3 DEF Counted, PendingAt, TransportOf
  <2>5. Exact'
    BY <1>1, <2>4 DEF IInv, Exact, Transports, TransportOf
  <2> QED
    BY <1>2, <2>2, <2>5 DEF IInv
<1>4. CASE /\ \E s \in Servers : backlog[s] > 0 /\ backlog' = [backlog EXCEPT ![s] = @ - 1]
           /\ UNCHANGED <<working, target>>
  <2>1. backlog' \in [Servers -> Nat]
    BY <1>4 DEF IInv, Books
  <2>2. Books'
    BY <1>1, <1>4, <2>1 DEF IInv, Books
  <2>3. Exact'
    BY <1>1, <1>4 DEF IInv, Exact, Counted, PendingAt, Transports, TransportOf
  <2> QED
    BY <1>2, <2>2, <2>3 DEF IInv
<1> QED
  BY <1>3, <1>4 DEF ServerLetsGo

\* A repeat ends when nobody waits any more, and so with all counts at 0.
LEMMA EndStep ==
    ASSUME IInv, EndRepeat
    PROVE  IInv'
<1>1. /\ stage' \in {"drain", "done"} /\ repeat' \in 1..Repeats /\ now' = 0
      /\ UNCHANGED <<polls, why, inFlight>>
  BY LevelAssumption DEF EndRepeat, drain, IInv, Types
<1>2. /\ status' = [q \in Requests |-> "unsent"] /\ target' = [q \in Requests |-> 0]
      /\ working' = {}
      /\ backlog' = [s \in Servers |-> backlog[s] + Cardinality({q \in working : target[q] = s})]
  BY DEF EndRepeat
<1>3. Types' /\ Counts'
  BY <1>1, LevelAssumption DEF IInv, Types, Counts
<1>4. Quiet'
  BY <1>2 DEF Quiet
<1>5. Books'
  <2>1. \A s \in Servers : Cardinality({q \in working : target[q] = s}) \in Nat
    <3> TAKE s \in Servers
    <3>1. {q \in working : target[q] = s} \in SUBSET Requests
      BY DEF IInv, Books
    <3> QED
      BY <3>1, RequestsFinite, FS_Subset, FS_CardinalityType
  <2>2. backlog' \in [Servers -> Nat]
    BY <1>2, <2>1 DEF IInv, Books
  <2> QED
    BY <1>2, <2>2 DEF Books
<1>6. Exact'
  <2>1. \A q \in Requests : status[q] # "pending"
    BY RequestFacts DEF EndRepeat, ClientDone
  <2>2. \A t, s : Counted(t, s) = {} /\ Counted(t, s)' = {}
    BY <1>2, <2>1 DEF Counted, PendingAt
  <2> QED
    BY <1>1, <2>2 DEF IInv, Exact, Transports, TransportOf
<1> QED
  BY <1>3, <1>4, <1>5, <1>6 DEF IInv

\* The clock and the drain do not touch the requests.
LEMMA ClockStep ==
    ASSUME IInv, Tick \/ Drain \/ UNCHANGED vars
    PROVE  IInv'
<1>1. UNCHANGED <<repeat, status, target, inFlight, working, backlog>>
  BY DEF Tick, Drain, BeginRepeat, vars, client, server
<1>2. Books' /\ Counts' /\ Exact'
  BY <1>1 DEF IInv, Books, Counts, Exact, Counted, PendingAt, Transports, TransportOf
<1>3. Types' /\ Quiet'
  <2>1. CASE Tick
    BY <1>1, <2>1, LevelAssumption DEF Tick, IInv, Types, Quiet, drain
  <2>2. CASE Drain
    <3>1. \/ stage' = "run" /\ why' \in {"idle", "timeout", "blind"} /\ polls' = 0 /\ now' = now
          \/ /\ UNCHANGED <<stage, why, now>>
             /\ polls < DrainPolls /\ polls' = polls + 1
      BY <2>2 DEF Drain, BeginRepeat, client
    <3> QED
      BY <1>1, <3>1, LevelAssumption DEF IInv, Types, Quiet
  <2>3. CASE UNCHANGED vars
    BY <1>1, <2>3 DEF vars, drain, client, IInv, Types, Quiet
  <2> QED
    BY <2>1, <2>2, <2>3
<1> QED
  BY <1>2, <1>3 DEF IInv

\* Nothing has been sent at the start.
LEMMA InitIInv == Init => IInv
<1> SUFFICES ASSUME Init PROVE IInv
  OBVIOUS
<1>1. \A t, s : Counted(t, s) = {}
  BY DEF Init, Counted, PendingAt
<1>2. Exact
  BY <1>1, FS_EmptySet DEF Exact, Init
<1> QED
  BY <1>2, LevelAssumption DEF Init, IInv, Types, Books, Counts, Quiet

\* Every step keeps the invariant.
LEMMA StepIInv == IInv /\ [Next]_vars => IInv'
<1> SUFFICES ASSUME IInv, [Next]_vars PROVE IInv'
  OBVIOUS
<1>1. CASE Tick \/ Drain \/ UNCHANGED vars
  BY <1>1, ClockStep
<1>2. ASSUME NEW c \in Clients, NEW k \in 1..MaxSends,
             Send(c, k) \/ Answer(c, k) \/ Refuse(c, k) \/ TimeOut(c, k)
      PROVE  IInv'
  BY <1>2, SendStep, SettleStep DEF Answer, Refuse, TimeOut
<1>3. CASE ServerLetsGo
  BY <1>3, ServerStep
<1>4. CASE EndRepeat
  BY <1>4, EndStep
<1> QED
  BY <1>1, <1>2, <1>3, <1>4 DEF Next, Finished

-----------------------------------------------------------------------------
(* What the balancer and the drain keep. *)

\* The invariant holds at every moment of every repeat.
THEOREM Invariance == Spec => []IInv
<1>1. Init => IInv
  BY InitIInv
<1>2. IInv /\ [Next]_vars => IInv'
  BY StepIInv
<1> QED
  BY <1>1, <1>2, PTL DEF Spec

\* A request has a server exactly while a client waits for it or the server works on it.
THEOREM TypeCorrect == Spec => []TypeOK
<1>1. IInv => TypeOK
  BY InvariantGives
<1> QED
  BY <1>1, Invariance, PTL

\* The balancer's counts are the requests in flight, whatever becomes of a request: answered,
\* refused or timed out, it is taken off once (the finally clause of transcribe).
THEOREM CountsAreExact == Spec => []InFlightExact
<1>1. IInv => InFlightExact
  BY InvariantGives
<1> QED
  BY <1>1, Invariance, PTL

\* With one transport for all clients, the server with the fewest counted requests is the one
\* with the fewest requests in flight (LeastOutstandingTransport).
THEOREM BalancerPicksLeastBusy ==
    ASSUME SharedTransport
    PROVE  Spec => LeastBusyServer
<1>1. IInv /\ [Next]_vars =>
        [\A q \in Requests : status[q] = "unsent" /\ status'[q] = "pending" =>
            \A s \in Servers : Cardinality(PendingAt(target'[q])) <= Cardinality(PendingAt(s))]_vars
  <2> SUFFICES ASSUME IInv, Next, NEW q \in Requests,
                      status[q] = "unsent", status'[q] = "pending", NEW s \in Servers
               PROVE  Cardinality(PendingAt(target'[q])) <= Cardinality(PendingAt(s))
    OBVIOUS
  <2>1. PICK c \in Clients, k \in 1..MaxSends : Send(c, k)
    <3>1. ~(Drain \/ Tick \/ ServerLetsGo \/ EndRepeat \/ Finished)
      BY DEF Drain, BeginRepeat, Tick, ServerLetsGo, EndRepeat, Finished, client, vars
    <3>2. ASSUME NEW c \in Clients, NEW k \in 1..MaxSends
          PROVE  ~(Answer(c, k) \/ Refuse(c, k) \/ TimeOut(c, k))
      <4>1. status \in [Requests -> {"unsent", "pending", "settled"}]
        BY DEF IInv, Books
      <4> QED
        BY <4>1 DEF Answer, Refuse, TimeOut, Settle
    <3> QED
      BY <3>1, <3>2 DEF Next
  <2>2. PICK x \in Servers : /\ Picks(TransportOf(c), x)
                             /\ target' = [target EXCEPT ![<<c, k>>] = x]
    BY <2>1 DEF Send
  <2>3. q = <<c, k>> /\ target'[q] = x
    BY <2>1, <2>2, RequestFacts DEF Send, IInv, Books
  <2>4. \A d \in Clients : TransportOf(d) = "shared"
    BY DEF TransportOf
  <2>5. "shared" \in Transports /\ \A y : Counted("shared", y) = PendingAt(y)
    BY <2>4, RequestFacts DEF Counted, PendingAt, Transports
  <2>6. \A y \in Servers : /\ inFlight["shared"][y] = Cardinality(PendingAt(y))
                           /\ Cardinality(PendingAt(y)) \in Nat
    BY <2>5, CountedFinite DEF IInv, Exact
  <2>7. inFlight["shared"][x] <= inFlight["shared"][s]
    BY <2>2, <2>4, <2>6 DEF Picks
  <2> QED
    BY <2>3, <2>6, <2>7
<1> QED
  BY <1>1, Invariance, PTL DEF Spec, LeastBusyServer

\* If no scrape of an existing endpoint fails, a repeat starts on servers that are through with
\* the earlier ones, unless the drain has waited its time for them (_drain).
THEOREM DrainLeavesIdle ==
    ASSUME ~ScrapeMayFail
    PROVE  Spec => []StartsIdle
<1>1. Init => StartsIdle
  BY DEF Init, StartsIdle
<1>2. IInv /\ StartsIdle /\ [Next]_vars => StartsIdle'
  <2> SUFFICES ASSUME IInv, StartsIdle, [Next]_vars PROVE StartsIdle'
    OBVIOUS
  <2>0. backlog \in [Servers -> Nat]
    BY DEF IInv, Books
  <2>1. CASE Drain
    <3>1. UNCHANGED <<hasMetrics, backlog>>
      BY <2>1 DEF Drain, BeginRepeat, given, server
    <3>2. PICK up \in Scraped :
            stage' = "run" => \/ up = {}
                              \/ ~Busy(up)
                              \/ why' = "timeout"
      BY <2>1 DEF Drain, BeginRepeat
    <3>3. hasMetrics => up = Servers /\ up # {}
      BY LevelAssumption DEF Scraped
    <3> QED
      BY <3>1, <3>2, <3>3 DEF StartsIdle, Busy
  <2>2. CASE ServerLetsGo
    <3>1. UNCHANGED <<stage, why, hasMetrics>>
      BY <2>2 DEF ServerLetsGo, given, drain
    <3>2. \A s \in Servers : backlog'[s] > 0 => backlog[s] > 0
      BY <2>0, <2>2 DEF ServerLetsGo
    <3> QED
      BY <3>1, <3>2 DEF StartsIdle
  <2>3. CASE EndRepeat
    BY <2>3 DEF EndRepeat, StartsIdle
  <2>4. CASE UNCHANGED <<stage, why, hasMetrics, backlog>>
    BY <2>4 DEF StartsIdle
  <2>5. CASE Tick \/ UNCHANGED vars
    BY <2>4, <2>5 DEF Tick, given, drain, server, vars
  <2>6. ASSUME NEW c \in Clients, NEW k \in 1..MaxSends,
               Send(c, k) \/ Answer(c, k) \/ Refuse(c, k) \/ TimeOut(c, k)
        PROVE  StartsIdle'
    <3>1. UNCHANGED <<stage, why, hasMetrics, backlog>>
      BY <2>6 DEF Send, Answer, Refuse, TimeOut, Settle, given, drain
    <3> QED
      BY <2>4, <3>1
  <2> QED
    BY <2>1, <2>2, <2>3, <2>5, <2>6 DEF Next, Finished
<1> QED
  BY <1>1, <1>2, Invariance, PTL DEF Spec
=============================================================================
