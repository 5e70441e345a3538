-------------------------- MODULE EvaluationProofs --------------------------
(***************************************************************************)
(* What an evaluation computes, for any manifest, any model and any size   *)
(* of batches: transcripts that pass the checks are scored against their   *)
(* own references, an edit distance is 0 only between equal texts, and the *)
(* groups of a report add up to the whole.                                 *)
(***************************************************************************)
EXTENDS Evaluation, SumFacts, SequenceTheorems

-----------------------------------------------------------------------------
(* Edit distances. *)

\* The entry at p of the table of distances between prefixes, from the entries before it.
Entry(ref, hyp, e, p) ==
    IF p[1] = 0 \/ p[2] = 0 THEN p[1] + p[2]
    ELSE Least(e[<<p[1] - 1, p[2]>>] + 1, e[<<p[1], p[2] - 1>>] + 1,
               e[<<p[1] - 1, p[2] - 1>>] + IF ref[p[1]] = hyp[p[2]] THEN 0 ELSE 1)
Table(ref, hyp, D, e) == e = [p \in D |-> Entry(ref, hyp, e, p)]
Grid(m, n) == (0..m) \X (0..n)
Near(m, n, k) == {p \in Grid(m, n) : p[1] + p[2] <= k}

\* The entries before one.
Before(p) == {<<p[1] - 1, p[2]>>, <<p[1], p[2] - 1>>, <<p[1] - 1, p[2] - 1>>}

\* They are nearer to the corner, so that the table can be filled diagonal by diagonal.
LEMMA BeforeIsNearer ==
    ASSUME NEW m \in Nat, NEW n \in Nat, NEW p \in Grid(m, n), p[1] # 0, p[2] # 0
    PROVE  \A b \in Before(p) : b \in Grid(m, n) /\ b[1] + b[2] < p[1] + p[2]
<1>1. p[1] \in 1..m /\ p[2] \in 1..n
  BY DEF Grid
<1> QED
  BY <1>1 DEF Grid, Before

\* An entry depends only on those before it.
LEMMA EntryOfBefore ==
    ASSUME NEW ref, NEW hyp, NEW p, NEW e, NEW f,
           p[1] # 0 /\ p[2] # 0 => \A b \in Before(p) : e[b] = f[b]
    PROVE  Entry(ref, hyp, e, p) = Entry(ref, hyp, f, p)
BY DEF Entry, Before

\* The recursion has a solution on the first diagonals.
LEMMA TableUpTo ==
    ASSUME NEW ref, NEW hyp, NEW m \in Nat, NEW n \in Nat
    PROVE  \A k \in Nat : \E e : Table(ref, hyp, Near(m, n, k), e)
<1> DEFINE N == {k \in Nat : ~\E e : Table(ref, hyp, Near(m, n, k), e)}
<1>g. \A p \in Grid(m, n) : p[1] \in Nat /\ p[2] \in Nat
  BY DEF Grid
<1>1. SUFFICES ASSUME N # {} PROVE FALSE
  OBVIOUS
<1>2. PICK k \in N : \A j \in N : k <= j
  <2>1. N \in SUBSET Nat OBVIOUS
  <2> HIDE DEF N
  <2> QED BY <1>1, <2>1, LeastNumber
<1>3. \E e : \A p \in Near(m, n, k) : \A b \in Before(p) :
          p[1] # 0 /\ p[2] # 0 => b \in Near(m, n, k) /\ e[b] = Entry(ref, hyp, e, b)
  <2>1. CASE k = 0
    <3>1. \A p \in Near(m, n, k) : p[1] = 0
      BY <2>1, <1>g DEF Near
    <3> QED
      BY <3>1
  <2>2. CASE k # 0
    <3>1. k - 1 \in Nat /\ k - 1 \notin N
      <4>1. k \in Nat /\ ~(k <= k - 1)
        BY <2>2
      <4> HIDE DEF N
      <4> QED
        BY <4>1, <1>2, <2>2
    <3>2. PICK e : Table(ref, hyp, Near(m, n, k - 1), e)
      BY <3>1
    <3>3. ASSUME NEW p \in Near(m, n, k), p[1] # 0, p[2] # 0, NEW b \in Before(p)
          PROVE  b \in Near(m, n, k) /\ b \in Near(m, n, k - 1)
      <4>1. b \in Grid(m, n) /\ b[1] + b[2] < p[1] + p[2]
        BY <3>3, BeforeIsNearer DEF Near
      <4> QED
        BY <4>1, <1>g, <3>1 DEF Near
    <3>4. \A b \in Near(m, n, k - 1) : e[b] = Entry(ref, hyp, e, b)
      BY <3>2 DEF Table
    <3> QED
      BY <3>3, <3>4
  <2> QED
    BY <2>1, <2>2
<1>4. PICK e : \A p \in Near(m, n, k) : \A b \in Before(p) :
          p[1] # 0 /\ p[2] # 0 => b \in Near(m, n, k) /\ e[b] = Entry(ref, hyp, e, b)
  BY <1>3
<1> DEFINE f == [p \in Near(m, n, k) |-> Entry(ref, hyp, e, p)]
<1>5. ASSUME NEW p \in Near(m, n, k)
      PROVE  f[p] = Entry(ref, hyp, f, p)
  <2>1. p[1] # 0 /\ p[2] # 0 => \A b \in Before(p) : e[b] = f[b]
    BY <1>4
  <2>2. Entry(ref, hyp, e, p) = Entry(ref, hyp, f, p)
    BY <2>1, EntryOfBefore
  <2> QED
    BY <2>2
<1>6. Table(ref, hyp, Near(m, n, k), f)
  BY <1>5 DEF Table
<1> QED
  BY <1>6, <1>2

\* EditErrors is the last entry of a table that satisfies the recursion.
LEMMA EditTable ==
    ASSUME NEW ref, NEW hyp, Len(ref) \in Nat, Len(hyp) \in Nat
    PROVE  \E e : /\ Table(ref, hyp, Grid(Len(ref), Len(hyp)), e)
                  /\ EditErrors(ref, hyp) = e[<<Len(ref), Len(hyp)>>]
<1> DEFINE G == Grid(Len(ref), Len(hyp))
<1>1. Near(Len(ref), Len(hyp), Len(ref) + Len(hyp)) = G
  BY DEF Near, Grid
<1>2. Len(ref) + Len(hyp) \in Nat
  OBVIOUS
<1>3. \E e : Table(ref, hyp, Near(Len(ref), Len(hyp), Len(ref) + Len(hyp)), e)
  BY <1>2, TableUpTo
<1>4. \E e : Table(ref, hyp, G, e)
  BY <1>1, <1>3
<1>5. EditErrors(ref, hyp) = (CHOOSE e : Table(ref, hyp, G, e))[<<Len(ref), Len(hyp)>>]
  BY DEF EditErrors, Table, Entry, Grid
<1> QED
  BY <1>4, <1>5

\* In such a table, exactly the entries of equal prefixes are 0.
LEMMA ZeroEntries ==
    ASSUME NEW ref, NEW hyp, NEW m \in Nat, NEW n \in Nat, NEW e, Table(ref, hyp, Grid(m, n), e)
    PROVE  \A p \in Grid(m, n) :
              /\ e[p] \in Nat
              /\ e[p] = 0 <=> p[1] = p[2] /\ \A k \in 1..p[1] : ref[k] = hyp[k]
<1> DEFINE Right(p) == /\ e[p] \in Nat
                       /\ e[p] = 0 <=> p[1] = p[2] /\ \A k \in 1..p[1] : ref[k] = hyp[k]
<1> DEFINE N == {p[1] + p[2] : p \in {q \in Grid(m, n) : ~Right(q)}}
<1>g. \A p \in Grid(m, n) : p[1] \in Nat /\ p[2] \in Nat
  BY DEF Grid
<1>1. SUFFICES ASSUME N # {} PROVE FALSE
  OBVIOUS
<1>2. PICK k \in N : \A j \in N : k <= j
  <2>1. N \in SUBSET Nat BY <1>g
  <2> HIDE DEF N
  <2> QED BY <1>1, <2>1, LeastNumber
<1>3. PICK p \in Grid(m, n) : ~Right(p) /\ k = p[1] + p[2]
  OBVIOUS
<1>4. e[p] = Entry(ref, hyp, e, p)
  BY DEF Table
<1>5. p[1] # 0 /\ p[2] # 0
  <2>1. SUFFICES ASSUME p[1] = 0 \/ p[2] = 0 PROVE Right(p)
    BY <1>3
  <2>2. e[p] = p[1] + p[2]
    BY <1>4, <2>1 DEF Entry
  <2> QED
    BY <1>g, <2>1, <2>2
<1>6. \A b \in Before(p) : b \in Grid(m, n) /\ Right(b)
  <2>1. \A b \in Before(p) : b \in Grid(m, n) /\ b[1] + b[2] < k
    BY <1>3, <1>5, BeforeIsNearer
  <2>2. ASSUME NEW b \in Grid(m, n), b[1] + b[2] < k
        PROVE  Right(b)
    <3>1. b[1] + b[2] \notin N
      <4>1. b[1] + b[2] \in Nat /\ k \in Nat
        BY <1>3, <1>g
      <4> HIDE DEF N
      <4> QED
        BY <4>1, <2>2, <1>2
    <3> QED
      BY <3>1
  <2> QED
    BY <2>1, <2>2
<1> DEFINE a == e[<<p[1] - 1, p[2]>>]
           b == e[<<p[1], p[2] - 1>>]
           c == e[<<p[1] - 1, p[2] - 1>>]
           d == IF ref[p[1]] = hyp[p[2]] THEN 0 ELSE 1
<1>7. a \in Nat /\ b \in Nat /\ c \in Nat /\ d \in {0, 1}
  BY <1>6 DEF Before
<1>8. e[p] = Least(a + 1, b + 1, c + d)
  BY <1>4, <1>5 DEF Entry
<1>9. c = 0 <=> p[1] - 1 = p[2] - 1 /\ \A i \in 1..p[1] - 1 : ref[i] = hyp[i]
  <2>1. Right(<<p[1] - 1, p[2] - 1>>)
    BY <1>6 DEF Before
  <2> QED
    BY <2>1
<1>10. e[p] \in Nat /\ (e[p] = 0 <=> c = 0 /\ d = 0)
  <2> HIDE DEF a, b, c, d
  <2> QED
    BY <1>7, <1>8 DEF Least
<1>11. p[1] \in Nat \ {0} /\ p[2] \in Nat \ {0}
  BY <1>g, <1>5
<1>12. 1..p[1] = (1..p[1] - 1) \cup {p[1]}
  BY <1>11
<1>13. e[p] = 0 <=> p[1] = p[2] /\ \A i \in 1..p[1] : ref[i] = hyp[i]
  <2> HIDE DEF a, b, c
  <2> QED
    BY <1>9, <1>10, <1>11, <1>12
<1> QED
  BY <1>3, <1>10, <1>13

\* Counting errors: none exactly between equal texts, with and without words.
THEOREM NoErrorsOnlyIfEqual ==
    ASSUME NEW ref, NEW hyp, IsSequence(ref), IsSequence(hyp)
    PROVE  UtteranceErrors(ref, hyp) \in Nat /\ (UtteranceErrors(ref, hyp) = 0 <=> ref = hyp)
<1>1. Len(ref) \in Nat /\ Len(hyp) \in Nat
  BY DEF IsSequence
<1>2. CASE ref = <<>> \/ hyp = <<>>
  <2>1. (Len(ref) = 0 <=> ref = <<>>) /\ (Len(hyp) = 0 <=> hyp = <<>>)
    BY EmptySeq DEF IsSequence
  <2>2. UtteranceErrors(ref, hyp) = Len(ref) + Len(hyp)
    BY <1>2 DEF UtteranceErrors
  <2> QED
    BY <1>1, <1>2, <2>1, <2>2
<1>3. CASE ref # <<>> /\ hyp # <<>>
  <2>1. PICK e : /\ Table(ref, hyp, Grid(Len(ref), Len(hyp)), e)
                 /\ EditErrors(ref, hyp) = e[<<Len(ref), Len(hyp)>>]
    BY <1>1, EditTable
  <2> DEFINE p == <<Len(ref), Len(hyp)>>
  <2>2. p \in Grid(Len(ref), Len(hyp)) /\ p[1] = Len(ref) /\ p[2] = Len(hyp)
    BY <1>1 DEF Grid
  <2>3. e[p] \in Nat /\ (e[p] = 0 <=> p[1] = p[2] /\ \A k \in 1..p[1] : ref[k] = hyp[k])
    <3>1. \A q \in Grid(Len(ref), Len(hyp)) :
             /\ e[q] \in Nat
             /\ e[q] = 0 <=> q[1] = q[2] /\ \A k \in 1..q[1] : ref[k] = hyp[k]
      BY <1>1, <2>1, ZeroEntries
    <3> HIDE DEF p
    <3> QED
      BY <2>2, <3>1
  <2>4. Len(ref) = Len(hyp) /\ (\A k \in 1..Len(ref) : ref[k] = hyp[k]) <=> ref = hyp
    <3>1. \A S, T : S \subseteq S \cup T /\ T \subseteq S \cup T
      OBVIOUS
    <3>2. ref \in Seq(Range(ref) \cup Range(hyp)) /\ hyp \in Seq(Range(ref) \cup Range(hyp))
      BY <3>1, SeqMonotonic DEF IsSequence
    <3> QED
      BY <3>2, SeqEqual
  <2>5. UtteranceErrors(ref, hyp) = e[p]
    BY <1>3, <2>1 DEF UtteranceErrors
  <2> QED
    BY <2>2, <2>3, <2>4, <2>5
<1> QED
  BY <1>2, <1>3

-----------------------------------------------------------------------------
(* Batches and transcripts. *)

\* The lists that are chained together, from the first on.
Link(seqs, f, i) == IF i = 1 THEN seqs[i] ELSE f[i - 1] \o seqs[i]
Chained(seqs, D, f) == f = [i \in D |-> Link(seqs, f, i)]

\* The recursion has a solution.
LEMMA ChainUpTo ==
    ASSUME NEW seqs
    PROVE  \A n \in Nat : \E f : Chained(seqs, 1..n, f)
<1> DEFINE N == {n \in Nat : ~\E f : Chained(seqs, 1..n, f)}
<1>1. SUFFICES ASSUME N # {} PROVE FALSE
  OBVIOUS
<1>2. PICK n \in N : \A j \in N : n <= j
  <2>1. N \in SUBSET Nat OBVIOUS
  <2> HIDE DEF N
  <2> QED BY <1>1, <2>1, LeastNumber
<1>3. n \in Nat /\ n # 0
  <2>1. Chained(seqs, 1..0, [i \in 1..0 |-> 0])
    BY DEF Chained
  <2> QED
    BY <2>1
<1>4. n - 1 \in Nat /\ n - 1 \notin N
  <2> HIDE DEF N
  <2> QED
    BY <1>2, <1>3
<1>5. PICK f : Chained(seqs, 1..n - 1, f)
  BY <1>4
<1> DEFINE g == [i \in 1..n |-> Link(seqs, f, i)]
<1>6. \A i \in 1..n - 1 : g[i] = f[i]
  <2>1. \A i \in 1..n - 1 : f[i] = Link(seqs, f, i)
    BY <1>5 DEF Chained
  <2>2. \A i \in 1..n - 1 : i \in 1..n
    BY <1>3
  <2> QED
    BY <2>1, <2>2
<1>7. ASSUME NEW i \in 1..n
      PROVE  g[i] = Link(seqs, g, i)
  <2>1. i # 1 => i - 1 \in 1..n - 1
    BY <1>3
  <2>2. i # 1 => g[i - 1] = f[i - 1]
    BY <1>6, <2>1
  <2>3. g[i] = Link(seqs, f, i)
    OBVIOUS
  <2> HIDE DEF g
  <2> QED
    BY <2>2, <2>3 DEF Link
<1>8. Chained(seqs, 1..n, g)
  BY <1>7 DEF Chained
<1> QED
  BY <1>8, <1>2

\* run_batches collects the answers one after the other.
LEMMA Collecting ==
    ASSUME NEW S, NEW answers \in Seq(Seq(S)), Len(answers) # 0
    PROVE  \E f : /\ f[1] = answers[1]
                  /\ \A k \in 2..Len(answers) : f[k] = f[k - 1] \o answers[k]
                  /\ \A k \in 1..Len(answers) : f[k] \in Seq(S)
                  /\ Transcripts(answers) = f[Len(answers)]
<1> DEFINE n == Len(answers)
<1>1. n \in Nat \ {0}
  OBVIOUS
<1>2. PICK f : Chained(answers, 1..n, f) /\ Transcripts(answers) = f[n]
  <2>1. Transcripts(answers) = (CHOOSE f : Chained(answers, 1..n, f))[n]
    BY DEF Transcripts, FlattenSeq, Chained, Link
  <2>2. \E f : Chained(answers, 1..n, f)
    BY <1>1, ChainUpTo
  <2> QED
    BY <2>1, <2>2
<1>3. \A k \in 1..n : f[k] = IF k = 1 THEN answers[k] ELSE f[k - 1] \o answers[k]
  BY <1>2 DEF Chained, Link
<1> DEFINE N == {k \in 1..n : f[k] \notin Seq(S)}
<1>4. N = {}
  <2>1. SUFFICES ASSUME N # {} PROVE FALSE
    OBVIOUS
  <2>2. PICK k \in N : \A j \in N : k <= j
    <3>1. N \in SUBSET Nat OBVIOUS
    <3> HIDE DEF N
    <3> QED BY <2>1, <3>1, LeastNumber
  <2>3. k \in 1..n /\ answers[k] \in Seq(S)
    OBVIOUS
  <2>4. k # 1 => f[k - 1] \in Seq(S)
    <3>1. k # 1 => k - 1 \in 1..n /\ ~(k <= k - 1)
      BY <2>3, <1>1
    <3>2. k # 1 => k - 1 \notin N
      <4> HIDE DEF N
      <4> QED BY <3>1, <2>2
    <3> QED
      BY <3>1, <3>2
  <2>5. f[k] = IF k = 1 THEN answers[k] ELSE f[k - 1] \o answers[k]
    BY <1>3, <2>3
  <2>6. f[k] \in Seq(S)
    <3> HIDE DEF N
    <3> QED BY <2>3, <2>4, <2>5
  <2> QED
    BY <2>6
<1>5. f[1] = answers[1]
  <2>1. 1 \in 1..n
    BY <1>1
  <2> QED
    BY <1>3, <2>1
<1>6. ASSUME NEW k \in 2..n PROVE f[k] = f[k - 1] \o answers[k]
  <2>1. k \in 1..n /\ k # 1
    BY <1>1
  <2>2. f[k] = IF k = 1 THEN answers[k] ELSE f[k - 1] \o answers[k]
    BY <1>3, <2>1
  <2> QED
    BY <2>1, <2>2
<1> QED
  BY <1>2, <1>4, <1>5, <1>6

\* So they consist of what the engine answered.
LEMMA CollectedIsAnswered ==
    ASSUME NEW S, NEW answers \in Seq(Seq(S))
    PROVE  Transcripts(answers) \in Seq(S)
<1>1. CASE Len(answers) = 0
  <2>1. Transcripts(answers) = <<>>
    BY <1>1, EmptySeq DEF Transcripts, FlattenSeq
  <2> QED
    BY <2>1, EmptySeq
<1>2. CASE Len(answers) # 0
  <2>1. Len(answers) \in 1..Len(answers)
    BY <1>2
  <2> QED
    BY <1>2, <2>1, Collecting
<1> QED
  BY <1>1, <1>2

Entries == Range(Manifest)
SaidOf == {[id |-> x, text |-> Said[x]] : x \in {entry.id : entry \in Entries}}

\* The entries of the manifest, by position.
LEMMA ManifestFacts ==
    /\ Manifest \in Seq(Entries) /\ Len(Manifest) \in Nat \ {0}
    /\ DOMAIN Manifest = 1..Len(Manifest) /\ IsFiniteSet(DOMAIN Manifest)
    /\ \A i \in DOMAIN Manifest :
          IsSequence(Manifest[i].ref) /\ IsSequence(Said[Manifest[i].id])
<1>1. Manifest \in Seq(Entries) /\ Manifest # <<>>
  BY EvalAssumption DEF IsSequence, Entries
<1>2. Len(Manifest) \in Nat \ {0} /\ DOMAIN Manifest = 1..Len(Manifest)
  BY <1>1, EmptySeq
<1> QED
  BY <1>1, <1>2, EvalAssumption, FS_Interval

\* How many entries the first k batches hold.
UpTo(k) == IF k * BatchSize <= Len(Manifest) THEN k * BatchSize ELSE Len(Manifest)

\* The batches cut the manifest into pieces, none of them empty, without gaps and to its end.
LEMMA BatchFacts ==
    /\ UpTo(0) = 0 /\ UpTo(BatchCount(Manifest)) = Len(Manifest)
    /\ \A k \in 1..BatchCount(Manifest) :
          /\ UpTo(k - 1) \in 0..Len(Manifest) - 1 /\ UpTo(k) \in UpTo(k - 1) + 1..Len(Manifest)
          /\ Batch(Manifest, k) \in Seq(Entries) \ {<<>>}
          /\ Len(Batch(Manifest, k)) = UpTo(k) - UpTo(k - 1)
          /\ \A i \in 1..Len(Batch(Manifest, k)) :
                Batch(Manifest, k)[i] = Manifest[UpTo(k - 1) + i]
<1>1. BatchSize \in Nat \ {0} /\ Len(Manifest) \in Nat \ {0} /\ BatchCount(Manifest) \in Nat
  BY EvalAssumption, ManifestFacts DEF BatchCount
<1>2. UpTo(0) = 0
  BY <1>1 DEF UpTo
<1>3. UpTo(BatchCount(Manifest)) = Len(Manifest)
  <2>1. BatchCount(Manifest) * BatchSize >= Len(Manifest)
    BY <1>1 DEF BatchCount
  <2> QED
    BY <2>1, <1>1 DEF UpTo
<1>4. ASSUME NEW k \in 1..BatchCount(Manifest)
      PROVE  /\ UpTo(k - 1) \in 0..Len(Manifest) - 1 /\ UpTo(k) \in UpTo(k - 1) + 1..Len(Manifest)
             /\ Batch(Manifest, k) \in Seq(Entries) \ {<<>>}
             /\ Len(Batch(Manifest, k)) = UpTo(k) - UpTo(k - 1)
             /\ \A i \in 1..Len(Batch(Manifest, k)) :
                   Batch(Manifest, k)[i] = Manifest[UpTo(k - 1) + i]
  <2> DEFINE first == (k - 1) * BatchSize + 1
             last == UpTo(k)
  <2>1. k \in Nat \ {0} /\ k * BatchSize \in Nat /\ (k - 1) * BatchSize \in Nat
    BY <1>1
  <2>2. (k - 1) * BatchSize = k * BatchSize - BatchSize
    BY <1>1
  <2>3. k * BatchSize <= Len(Manifest) + BatchSize - 1
    BY <1>1 DEF BatchCount
  <2>4. UpTo(k - 1) = first - 1
    BY <1>1, <2>1, <2>2, <2>3 DEF UpTo
  <2>5. first \in 1..Len(Manifest) /\ last \in first..Len(Manifest)
    BY <1>1, <2>1, <2>2, <2>3 DEF UpTo
  <2>6. Batch(Manifest, k) = SubSeq(Manifest, first, last)
    BY DEF Batch, UpTo
  <2> HIDE DEF first, last
  <2>7. \A i \in first..last : Manifest[i] \in Entries
    BY <2>5, ManifestFacts
  <2>8. /\ SubSeq(Manifest, first, last) \in Seq(Entries)
        /\ Len(SubSeq(Manifest, first, last)) = last - first + 1
        /\ \A i \in 1..last - first + 1 : SubSeq(Manifest, first, last)[i] = Manifest[first + i - 1]
    BY <2>5, <2>7, SubSeqProperties
  <2>9. \A i \in 1..last - first + 1 : first + i - 1 = UpTo(k - 1) + i
    BY <2>4, <2>5
  <2>10. Len(SubSeq(Manifest, first, last)) # 0
    BY <2>5, <2>8
  <2> QED
    BY <1>1, <2>4, <2>5, <2>6, <2>8, <2>9, <2>10, EmptySeq DEF last
<1> QED
  BY <1>2, <1>3, <1>4

\* Whatever the engine does to the order of a batch, it pairs an id with what was said there.
LEMMA AnswerFacts ==
    ASSUME NEW k \in 1..BatchCount(Manifest)
    PROVE  Answers(Batch(Manifest, k)) \subseteq Seq(SaidOf)
<1> DEFINE batch == Batch(Manifest, k)
           inOrder == [i \in DOMAIN batch |-> [id |-> batch[i].id, text |-> Said[batch[i].id]]]
<1>1. batch \in Seq(Entries) /\ batch # <<>> /\ Len(batch) \in Nat \ {0}
  BY BatchFacts, EmptySeq
<1>2. DOMAIN batch = 1..Len(batch) /\ \A i \in 1..Len(batch) : batch[i] \in Entries
  BY <1>1
<1>3. Answers(batch) = {inOrder, Reverse(inOrder), Tail(inOrder)}
  BY DEF Answers
<1> HIDE DEF batch
<1>4. inOrder \in Seq(SaidOf) /\ Len(inOrder) = Len(batch) /\ inOrder # <<>>
  <2>1. \A i \in 1..Len(batch) : [id |-> batch[i].id, text |-> Said[batch[i].id]] \in SaidOf
    BY <1>2 DEF SaidOf
  <2>2. inOrder \in [1..Len(batch) -> SaidOf]
    BY <1>2, <2>1
  <2> HIDE DEF inOrder
  <2> QED
    BY <1>1, <2>2, EmptySeq
<1> HIDE DEF inOrder
<1>5. Reverse(inOrder) \in Seq(SaidOf)
  <2>1. \A i \in 1..Len(inOrder) : inOrder[Len(inOrder) - i + 1] \in SaidOf
    BY <1>1, <1>4
  <2>2. Reverse(inOrder) \in [1..Len(inOrder) -> SaidOf]
    BY <2>1 DEF Reverse
  <2> QED
    BY <1>1, <1>4, <2>2
<1>6. Tail(inOrder) \in Seq(SaidOf)
  BY <1>4, HeadTailProperties
<1> QED
  BY <1>3, <1>4, <1>5, <1>6 DEF batch

\* What an engine answers, batch by batch.
LEMMA AnswersTyped ==
    ASSUME NEW answers \in AnswersTo(Manifest)
    PROVE  answers \in Seq(Seq(SaidOf)) /\ Len(answers) = BatchCount(Manifest)
<1>1. BatchCount(Manifest) \in Nat
  BY EvalAssumption, ManifestFacts DEF BatchCount
<1>2. answers \in [1..BatchCount(Manifest) -> Seq(SaidOf)]
  BY AnswerFacts DEF AnswersTo
<1> QED
  BY <1>1, <1>2

\* When every batch passed check_alignment, the transcripts are those of the manifest, in order
\* and all of them: neither zip(strict=True) nor score_utterance can fail after that.
THEOREM AlignedBatchesMatch ==
    ASSUME NEW answers \in AnswersTo(Manifest), AllAligned(Manifest, answers)
    PROVE  Matched(Manifest, Transcripts(answers))
<1> DEFINE n == BatchCount(Manifest)
<1>1. answers \in Seq(Seq(SaidOf)) /\ Len(answers) = n /\ DOMAIN answers = 1..n
  BY AnswersTyped
<1>2. n \in Nat \ {0}
  <2>1. n \in Nat
    BY <1>1
  <2>2. UpTo(0) = 0 /\ UpTo(n) = Len(Manifest) /\ Len(Manifest) # 0
    BY BatchFacts, ManifestFacts
  <2> HIDE DEF n
  <2> QED
    BY <2>1, <2>2
<1>3. \A k \in 1..n :
         /\ Len(answers[k]) = UpTo(k) - UpTo(k - 1)
         /\ \A i \in 1..Len(answers[k]) : answers[k][i].id = Manifest[UpTo(k - 1) + i].id
  <2> SUFFICES ASSUME NEW k \in 1..n
               PROVE  /\ Len(answers[k]) = UpTo(k) - UpTo(k - 1)
                      /\ \A i \in 1..Len(answers[k]) :
                            answers[k][i].id = Manifest[UpTo(k - 1) + i].id
    OBVIOUS
  <2> DEFINE batch == Batch(Manifest, k)
  <2>1. Ids(answers[k]) = Ids(batch)
    BY <1>1 DEF AllAligned, Aligned
  <2>2. /\ DOMAIN answers[k] = DOMAIN batch
        /\ \A i \in DOMAIN batch : answers[k][i].id = batch[i].id
    BY <2>1 DEF Ids
  <2>3. /\ batch \in Seq(Entries) /\ Len(batch) = UpTo(k) - UpTo(k - 1)
        /\ \A i \in 1..Len(batch) : batch[i] = Manifest[UpTo(k - 1) + i]
    BY BatchFacts
  <2>4. answers[k] \in Seq(SaidOf)
    BY <1>1
  <2> HIDE DEF batch
  <2>5. Len(answers[k]) = Len(batch) /\ DOMAIN batch = 1..Len(batch)
    BY <2>2, <2>3, <2>4
  <2> QED
    BY <2>2, <2>3, <2>5
<1>4. PICK f : /\ f[1] = answers[1]
               /\ \A k \in 2..n : f[k] = f[k - 1] \o answers[k]
               /\ \A k \in 1..n : f[k] \in Seq(SaidOf)
               /\ Transcripts(answers) = f[n]
  <2>1. Len(answers) # 0
    BY <1>1, <1>2
  <2>2. \E g : /\ g[1] = answers[1]
               /\ \A k \in 2..Len(answers) : g[k] = g[k - 1] \o answers[k]
               /\ \A k \in 1..Len(answers) : g[k] \in Seq(SaidOf)
               /\ Transcripts(answers) = g[Len(answers)]
    BY <1>1, <2>1, Collecting
  <2> HIDE DEF n
  <2> QED
    BY <1>1, <2>2
<1>5. /\ UpTo(0) = 0 /\ UpTo(n) = Len(Manifest)
      /\ \A k \in 1..n : UpTo(k - 1) \in Nat /\ UpTo(k) \in Nat /\ UpTo(k - 1) < UpTo(k)
  BY BatchFacts, ManifestFacts
<1> DEFINE Right(k) == /\ Len(f[k]) = UpTo(k)
                       /\ \A i \in 1..UpTo(k) : f[k][i].id = Manifest[i].id
           N == {k \in 1..n : ~Right(k)}
<1> HIDE DEF n
<1>6. N = {}
  <2>1. SUFFICES ASSUME N # {} PROVE FALSE
    OBVIOUS
  <2>2. PICK k \in N : \A j \in N : k <= j
    <3>1. N \in SUBSET Nat BY <1>2
    <3> HIDE DEF N
    <3> QED BY <2>1, <3>1, LeastNumber
  <2>3. CASE k = 1
    <3>1. 1 - 1 = 0 /\ 1 \in 1..n /\ UpTo(1) \in Nat
      BY <1>2, <1>5
    <3>2. /\ Len(answers[1]) = UpTo(1)
          /\ \A i \in 1..Len(answers[1]) : answers[1][i].id = Manifest[i].id
      <4>1. /\ Len(answers[1]) = UpTo(1) - UpTo(1 - 1)
            /\ \A i \in 1..Len(answers[1]) : answers[1][i].id = Manifest[UpTo(1 - 1) + i].id
        BY <1>3, <3>1
      <4>2. UpTo(1 - 1) = 0
        BY <1>5
      <4>3. \A i \in 1..Len(answers[1]) : UpTo(1 - 1) + i = i
        BY <4>2
      <4> QED
        BY <3>1, <4>1, <4>2, <4>3
    <3> QED
      BY <1>4, <2>3, <3>2
  <2>4. CASE k # 1
    <3>1. k \in 2..n /\ k - 1 \in 1..n /\ k \in 1..n /\ ~(k <= k - 1)
      BY <1>2, <2>4
    <3>2. Right(k - 1)
      <4>1. k - 1 \notin N
        <5> HIDE DEF N
        <5> QED BY <2>2, <3>1
      <4> QED
        BY <3>1, <4>1
    <3> DEFINE a == UpTo(k - 1)
               b == UpTo(k)
    <3>3. a \in Nat /\ b \in Nat /\ a < b
      BY <1>5, <3>1
    <3>4. /\ f[k - 1] \in Seq(SaidOf) /\ answers[k] \in Seq(SaidOf) /\ f[k] = f[k - 1] \o answers[k]
          /\ Len(f[k - 1]) = a /\ Len(answers[k]) = b - a
      <4>1. f[k - 1] \in Seq(SaidOf)
        BY <1>4, <3>1
      <4>2. answers[k] \in Seq(SaidOf)
        BY <1>1, <3>1
      <4>3. f[k] = f[k - 1] \o answers[k]
        BY <1>4, <3>1
      <4>4. Len(f[k - 1]) = a
        BY <3>2
      <4>5. Len(answers[k]) = b - a
        BY <1>3, <3>1
      <4> QED
        BY <4>1, <4>2, <4>3, <4>4, <4>5
    <3>5. \A i \in 1..a : f[k - 1][i].id = Manifest[i].id
      BY <3>2
    <3>6. \A i \in 1..b - a : answers[k][i].id = Manifest[a + i].id
      BY <1>3, <3>1, <3>4
    <3> HIDE DEF a, b, N
    <3>7. Len(f[k]) = b /\ \A i \in 1..b : f[k][i] = IF i <= a THEN f[k - 1][i] ELSE answers[k][i - a]
      <4> DEFINE s == f[k - 1]
                 t == answers[k]
      <4>1. s \in Seq(SaidOf) /\ t \in Seq(SaidOf)
        BY <3>4
      <4> HIDE DEF s, t
      <4>2. /\ Len(s \o t) = Len(s) + Len(t)
            /\ \A i \in 1..Len(s) + Len(t) :
                  (s \o t)[i] = IF i <= Len(s) THEN s[i] ELSE t[i - Len(s)]
        BY <4>1, ConcatProperties
      <4>3. Len(s) = a /\ Len(t) = b - a /\ a + (b - a) = b
        BY <3>3, <3>4 DEF s, t
      <4>4. f[k] = s \o t
        BY <3>4 DEF s, t
      <4> QED
        BY <4>2, <4>3, <4>4 DEF s, t
    <3>8. \A i \in 1..b : ~(i <= a) => i - a \in 1..b - a /\ a + (i - a) = i
      BY <3>3
    <3>9. \A i \in 1..b : i <= a => i \in 1..a
      BY <3>3
    <3>10. \A i \in 1..b : f[k][i].id = Manifest[i].id
      BY <3>5, <3>6, <3>7, <3>8, <3>9
    <3>11. Right(k)
      BY <3>7, <3>10 DEF b
    <3> QED
      BY <3>11 DEF N
  <2> QED
    BY <2>3, <2>4
<1>7. n \in 1..n
  BY <1>2
<1>8. Right(n) /\ f[n] \in Seq(SaidOf)
  BY <1>4, <1>6, <1>7
<1>9. /\ DOMAIN f[n] = 1..Len(Manifest) /\ DOMAIN Manifest = 1..Len(Manifest)
      /\ \A i \in 1..Len(Manifest) : f[n][i].id = Manifest[i].id
  BY <1>5, <1>8, ManifestFacts
<1> QED
  BY <1>4, <1>9 DEF Matched, Ids

\* A transcript that passes score_utterance's check of the ids is what was said in the entry.
LEMMA MatchedSaid ==
    ASSUME NEW answers \in AnswersTo(Manifest), Matched(Manifest, Transcripts(answers))
    PROVE  \A i \in DOMAIN Manifest : Transcripts(answers)[i].text = Said[Manifest[i].id]
<1>4. Transcripts(answers) \in Seq(SaidOf)
  BY AnswersTyped, CollectedIsAnswered
<1>5. /\ DOMAIN Transcripts(answers) = DOMAIN Manifest
      /\ \A i \in DOMAIN Manifest : Transcripts(answers)[i].id = Manifest[i].id
  BY DEF Matched, Ids
<1> QED
  BY <1>4, <1>5 DEF SaidOf

-----------------------------------------------------------------------------
(* Reports. *)

\* The scores of a group, as sums over its positions.
LEMMA ScoresAreSums ==
    ASSUME NEW items, NEW group
    PROVE  /\ GroupScore(items, group).n = Cardinality(group)
           /\ GroupScore(items, group).errors
                = SumFunctionOnSet([i \in group |-> items[i].errors], group)
           /\ GroupScore(items, group).words
                = SumFunctionOnSet([i \in group |-> items[i].words], group)
BY DEF GroupScore, ErrorsOf, WordsOf, SumFunction

\* Over any grouping of the items, what is counted in the groups adds up to what is counted in
\* all items.
LEMMA GroupsAddUp ==
    ASSUME NEW S, IsFiniteSet(S), NEW fun \in [S -> Nat], NEW key, DOMAIN key = S,
           NEW sums, DOMAIN sums = Range(key),
           \A k \in Range(key) :
              LET group == {i \in S : key[i] = k}
              IN  sums[k] = SumFunctionOnSet([i \in group |-> fun[i]], group)
    PROVE  SumFunction(sums) = SumFunctionOnSet(fun, S)
<1> DEFINE Group(k) == {i \in S : key[i] = k}
<1>1. IsFiniteSet(Range(key))
  <2> DEFINE f == [i \in S |-> key[i]]
  <2>1. f \in Surjection(S, Range(key))
    BY DEF Surjection, Range
  <2> QED
    BY <2>1, FS_Surjection
<1>2. NatValued(fun, S)
  BY DEF NatValued
<1>3. ASSUME NEW k \in Range(key)
      PROVE  sums[k] = SumFunctionOnSet(fun, Group(k))
  <2>1. IsFiniteSet(Group(k))
    BY FS_Subset
  <2>2. Agree([i \in Group(k) |-> fun[i]], fun, Group(k))
    BY DEF Agree
  <2>3. SumFunctionOnSet([i \in Group(k) |-> fun[i]], Group(k)) = SumFunctionOnSet(fun, Group(k))
    <3> HIDE DEF Group
    <3> QED BY <2>1, <2>2, SumSame
  <2> QED
    BY <2>3
<1>4. SumFunctionOnSet(sums, Range(key)) = SumFunctionOnSet(fun, {i \in S : key[i] \in Range(key)})
  BY <1>1, <1>2, <1>3, SumOfClasses
<1>5. {i \in S : key[i] \in Range(key)} = S
  BY DEF Range
<1> QED
  BY <1>4, <1>5 DEF SumFunction

IsScored(items) ==
    /\ IsFiniteSet(DOMAIN items)
    /\ \A i \in DOMAIN items : items[i].errors \in Nat /\ items[i].words \in Nat

\* The total of a grouping is the score of the whole.
LEMMA TotalIsOverall ==
    ASSUME NEW items, IsScored(items), NEW key, DOMAIN key = DOMAIN items
    PROVE  Total(Grouped(items, key)) = GroupScore(items, DOMAIN items)
<1> DEFINE S == DOMAIN items
           Group(k) == {i \in S : key[i] = k}
           scores == Grouped(items, key)
           errors == [i \in S |-> items[i].errors]
           words == [i \in S |-> items[i].words]
           ones == [i \in S |-> 1]
<1>1. /\ IsFiniteSet(S)
      /\ errors \in [S -> Nat] /\ words \in [S -> Nat] /\ ones \in [S -> Nat]
  BY DEF IsScored
<1>2. DOMAIN scores = Range(key) /\ \A k \in Range(key) : scores[k] = GroupScore(items, Group(k))
  BY DEF Grouped
<1>3. SumFunction([k \in DOMAIN scores |-> scores[k].n]) = Cardinality(S)
  <2> DEFINE sums == [k \in DOMAIN scores |-> scores[k].n]
  <2>1. ASSUME NEW k \in Range(key)
        PROVE  sums[k] = SumFunctionOnSet([i \in Group(k) |-> ones[i]], Group(k))
    <3>1. sums[k] = Cardinality(Group(k))
      BY <1>2, ScoresAreSums
    <3>2. IsFiniteSet(Group(k)) /\ \A i \in Group(k) : [j \in Group(k) |-> ones[j]][i] = 1
      BY <1>1, FS_Subset
    <3> HIDE DEF sums, Group, ones
    <3> QED
      BY <3>1, <3>2, SumOfOnes
  <2>2. DOMAIN sums = Range(key)
    BY <1>2
  <2>3. SumFunction(sums) = SumFunctionOnSet(ones, S)
    <3> HIDE DEF sums, ones
    <3> QED BY <1>1, <2>1, <2>2, GroupsAddUp
  <2>4. SumFunctionOnSet(ones, S) = Cardinality(S)
    BY <1>1, SumOfOnes
  <2> QED
    BY <2>3, <2>4
<1>4. SumFunction([k \in DOMAIN scores |-> scores[k].errors]) = SumFunctionOnSet(errors, S)
  <2> DEFINE sums == [k \in DOMAIN scores |-> scores[k].errors]
  <2>1. ASSUME NEW k \in Range(key)
        PROVE  sums[k] = SumFunctionOnSet([i \in Group(k) |-> errors[i]], Group(k))
    <3>1. sums[k] = SumFunctionOnSet([i \in Group(k) |-> items[i].errors], Group(k))
      BY <1>2, ScoresAreSums
    <3>2. [i \in Group(k) |-> items[i].errors] = [i \in Group(k) |-> errors[i]]
      OBVIOUS
    <3> QED
      BY <3>1, <3>2
  <2>2. DOMAIN sums = Range(key)
    BY <1>2
  <2>3. SumFunction(sums) = SumFunctionOnSet(errors, S)
    <3> HIDE DEF sums, errors
    <3> QED BY <1>1, <2>1, <2>2, GroupsAddUp
  <2> QED
    BY <2>3
<1>5. SumFunction([k \in DOMAIN scores |-> scores[k].words]) = SumFunctionOnSet(words, S)
  <2> DEFINE sums == [k \in DOMAIN scores |-> scores[k].words]
  <2>1. ASSUME NEW k \in Range(key)
        PROVE  sums[k] = SumFunctionOnSet([i \in Group(k) |-> words[i]], Group(k))
    <3>1. sums[k] = SumFunctionOnSet([i \in Group(k) |-> items[i].words], Group(k))
      BY <1>2, ScoresAreSums
    <3>2. [i \in Group(k) |-> items[i].words] = [i \in Group(k) |-> words[i]]
      OBVIOUS
    <3> QED
      BY <3>1, <3>2
  <2>2. DOMAIN sums = Range(key)
    BY <1>2
  <2>3. SumFunction(sums) = SumFunctionOnSet(words, S)
    <3> HIDE DEF sums, words
    <3> QED BY <1>1, <2>1, <2>2, GroupsAddUp
  <2> QED
    BY <2>3
<1> HIDE DEF scores
<1> QED
  BY <1>3, <1>4, <1>5 DEF Total, GroupScore, ErrorsOf, WordsOf, SumFunction, scores

\* A report made of transcripts that passed the checks adds up: nobody's errors are counted
\* twice or against another clip's reference, and a clean report is one without any error.
THEOREM ReportAddsUp ==
    ASSUME NEW answers \in AnswersTo(Manifest), Matched(Manifest, Transcripts(answers))
    PROVE  AddsUp(Report(Scored(Manifest, Transcripts(answers))), Manifest)
<1> DEFINE items == Scored(Manifest, Transcripts(answers))
           S == DOMAIN Manifest
           errors == [i \in S |-> UtteranceErrors(Manifest[i].ref, Said[Manifest[i].id])]
<1>1. DOMAIN items = S /\ \A i \in S : /\ items[i].errors = errors[i]
                                       /\ items[i].words = Len(Manifest[i].ref)
  BY MatchedSaid DEF Scored
<1>2. \A i \in S : errors[i] \in Nat /\ (errors[i] = 0 <=> Manifest[i].ref = Said[Manifest[i].id])
  BY ManifestFacts, NoErrorsOnlyIfEqual
<1>3. IsScored(items)
  <2>1. \A i \in S : Len(Manifest[i].ref) \in Nat
    BY ManifestFacts DEF IsSequence
  <2> HIDE DEF items, errors
  <2> QED
    BY <1>1, <1>2, <2>1, ManifestFacts DEF IsScored
<1> HIDE DEF items
<1> DEFINE report == Report(items)
<1>4. /\ report.overall = GroupScore(items, S)
      /\ report.by_bucket = Grouped(items, [i \in S |-> items[i].bucket])
      /\ report.by_category = Grouped(items, [i \in S |-> items[i].category])
  BY <1>1 DEF Report
<1> HIDE DEF report
<1>5. Total(report.by_bucket) = report.overall /\ Total(report.by_category) = report.overall
  <2>1. \A key : DOMAIN key = S => Total(Grouped(items, key)) = GroupScore(items, S)
    BY <1>1, <1>3, TotalIsOverall
  <2>2. DOMAIN [i \in S |-> items[i].bucket] = S /\ DOMAIN [i \in S |-> items[i].category] = S
    OBVIOUS
  <2> HIDE DEF S
  <2> QED
    BY <1>4, <2>1, <2>2
<1>6. report.overall.n = Len(Manifest)
  <2>1. Cardinality(S) = Len(Manifest)
    BY ManifestFacts, FS_Interval
  <2>2. GroupScore(items, S).n = Cardinality(S)
    BY ScoresAreSums
  <2> QED
    BY <1>4, <2>1, <2>2
<1>7. report.overall.errors = SumFunctionOnSet(errors, S)
  <2>1. [i \in S |-> items[i].errors] = errors
    BY <1>1
  <2>2. GroupScore(items, S).errors = SumFunctionOnSet([i \in S |-> items[i].errors], S)
    BY ScoresAreSums
  <2> QED
    BY <1>4, <2>1, <2>2
<1>8. report.overall.errors = 0 <=> \A i \in S : Manifest[i].ref = Said[Manifest[i].id]
  <2>1. NatValued(errors, S) /\ IsFiniteSet(S)
    BY <1>2, ManifestFacts DEF NatValued
  <2> HIDE DEF errors
  <2> QED
    BY <1>2, <1>7, <2>1, SumZero
<1>9. SumFunction(errors) = SumFunctionOnSet(errors, S)
  BY DEF SumFunction
<1>10. AddsUp(report, Manifest)
  BY <1>5, <1>6, <1>7, <1>8, <1>9 DEF AddsUp
<1> QED
  BY <1>10 DEF report, items
=============================================================================
