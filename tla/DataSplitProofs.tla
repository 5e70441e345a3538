-------------------------- MODULE DataSplitProofs ---------------------------
(***************************************************************************)
(* What a plan of the dataset keeps, for any sources, any configuration    *)
(* and any order that the shuffles return.                                 *)
(*                                                                         *)
(* The inductive invariant follows the code's three levels: what the pools *)
(* of the category in work are made of, what the selection in work has     *)
(* chosen so far, and what the plans made before keep of both.             *)
(***************************************************************************)
EXTENDS DataSplit, SumFacts, SequenceTheorems

Selecting == phase \in {"shuffle", "fill", "topup"}

Categories == DOMAIN cfg.categories

\* The source that the clips of a split come from, and its usable clips.
SourceFor(s, i) ==
    IF s = "control" THEN cfg.control
    ELSE IF s = "eval" THEN cfg.categories[i].eval ELSE cfg.categories[i].train
Good(s) == {c \in Candidates(s, cfg.lines) : IsUsable(c)}

UsableAreGood == \A s \in DOMAIN Kind : usable[s] \subseteq Good(s)

\* The control set comes after the last category, nothing is selected for no split, and groups
\* are held out of a source that train and eval share.
InTurn ==
    /\ phase \in {"list", "pools", "hold", "failed"} => cat \in Categories
    /\ phase = "hold" => Category.train = Category.eval
    /\ Selecting => split # NoSplit /\ (split = "control" <=> cat \notin Categories)

\* The pools of a category come from its sources, and no origin is in both.
PoolsApart ==
    Selecting /\ split # "control" =>
        /\ trainPool \subseteq Good(Category.train)
        /\ evalPool \subseteq Good(Category.eval)
        /\ \A a \in trainPool, b \in evalPool : Origin(a) # Origin(b)

\* What a selection draws from.
PoolOfSplit ==
    Selecting =>
        /\ pool \subseteq Good(SourceFor(split, cat))
        /\ split = "train" => pool = trainPool
        /\ split = "eval" => pool = evalPool
        /\ split = "dev" => pool = DevPool(TrainClips) /\ overlap = DevFallsShort(TrainClips)

\* Which plans of the category in work, or of later ones, there are already.
InOrder ==
    /\ phase \in {"list", "pools", "hold", "failed"} => \A p \in plans : p.cat < cat
    /\ Selecting =>
        \A p \in plans :
            /\ p.cat <= cat
            /\ p.cat = cat => \/ split = "eval" /\ p.split = "train"
                              \/ split = "dev" /\ p.split \in {"train", "eval"}

\* What the plans made so far were chosen from.
PlansDrawn ==
    \A p \in plans :
        /\ p.clips \subseteq p.pool
        /\ p.pool \subseteq Good(SourceFor(p.split, p.cat))
        /\ p.split = "control" <=> p.cat \notin Categories
        /\ Selecting /\ p.cat = cat =>
              /\ p.split = "train" => p.pool = trainPool
              /\ p.split = "eval" => p.pool = evalPool

\* A category has one plan for train.
OneTrain ==
    \A p, q \in plans : p.split = "train" /\ q.split = "train" /\ p.cat = q.cat => p = q

\* Two sets of clips that share no speaker, no video and no sentence.
ClipsApart(A, B) ==
    Voices(A) \cap Voices(B) = {} /\ Sentences(A) \cap Sentences(B) = {}

\* Within a category, train and dev have nothing in common with eval.
ApartWithin ==
    \A p, q \in plans :
        p.cat = q.cat /\ p.split \in {"train", "dev"} /\ q.split = "eval" =>
            ClipsApart(p.clips, q.clips)

Draws ==
    /\ UsableAreGood /\ InTurn /\ PoolsApart /\ PoolOfSplit
    /\ InOrder /\ PlansDrawn /\ OneTrain /\ ApartWithin /\ DevHonest

\* A selection starts with nothing and runs over an order of its pool.
Started ==
    /\ phase = "shuffle" => chosen = {} /\ taken = {} /\ got = 0 /\ bucket = 1 /\ at = 1
    /\ phase \in {"fill", "topup"} => order \in Orders(pool)

\* No group of an eval selection exceeds its cap.
GroupsCapped ==
    Selecting /\ HasCap(split) =>
        \A c \in chosen : Amount(InGroup(chosen, Group(c))) <= Cap(split, cat)

\* What the top-up has passed is chosen, or its group has no room for it any more.
PassedOver ==
    phase = "topup" =>
        \A i \in DOMAIN order :
            i < at => order[i] \in chosen \/ Capped(order[i])

Selects == Started /\ GroupsCapped /\ PassedOver /\ NothingLeftOver /\ NobodyDominates

\* While the buckets are filled, none holds more than its share of the target.
BucketsFilled ==
    /\ phase \in {"shuffle", "fill"} =>
          /\ got <= Share[bucket] * Quota(split, cat)
          /\ Amount(chosen) <= SumFunctionOnSet(Share, 1..bucket - 1) * Quota(split, cat) + got
    /\ phase = "topup" =>
          \/ Amount(chosen) <= Target(split, cat)
          \/ \E c \in chosen : Amount(chosen \ {c}) < Target(split, cat)

IInv == TypeOK /\ Draws /\ Selects

-----------------------------------------------------------------------------
(* Configurations, clips and amounts. *)

\* What a configuration that was read guarantees of its categories.
LEMMA ConfigFacts ==
    ASSUME cfg \in Configs
    PROVE  /\ Len(cfg.categories) \in Nat \ {0} /\ Categories = 1..Len(cfg.categories)
           /\ cfg.lines \in Nat /\ cfg.lines <= Len(Index)
           /\ cfg.control \in DOMAIN Kind /\ cfg.controlQuota \in Nat \ {0}
           /\ \A i \in Categories :
                 /\ cfg.categories[i].train \in DOMAIN Kind
                 /\ cfg.categories[i].eval \in DOMAIN Kind
                 /\ cfg.categories[i].trainQuota \in Nat \ {0}
                 /\ cfg.categories[i].evalQuota \in Nat \ {0}
                 /\ cfg.categories[i].devQuota \in Nat
                 /\ cfg.control # cfg.categories[i].train
                 /\ cfg.control # cfg.categories[i].eval
<1>1. WellFormed(cfg)
  BY SplitAssumption
<1>2. /\ cfg.categories \in Seq(CategoryType) /\ cfg.categories # <<>>
      /\ cfg.control \in DOMAIN Kind /\ cfg.controlQuota \in Nat \ {0}
      /\ cfg.lines \in 0..Len(Index)
      /\ \A i \in DOMAIN cfg.categories : cfg.control \notin CategorySources(cfg.categories[i])
  BY <1>1 DEF WellFormed
<1>3. \A i \in Categories : cfg.categories[i] \in CategoryType
  BY <1>2 DEF Categories
<1>4. Len(cfg.categories) \in Nat \ {0} /\ Categories = 1..Len(cfg.categories)
  BY <1>2 DEF Categories
<1>5. cfg.lines \in Nat /\ cfg.lines <= Len(Index)
  BY <1>2
<1>6. \A i \in Categories : /\ cfg.control # cfg.categories[i].train
                            /\ cfg.control # cfg.categories[i].eval
  BY <1>2 DEF Categories, CategorySources
<1> QED
  BY <1>2, <1>3, <1>4, <1>5, <1>6 DEF CategoryType

\* The quota of a split in its turn is a positive number, and so is what it stands for.
LEMMA QuotaFacts ==
    ASSUME cfg \in Configs
    PROVE  /\ \A i \in Categories : Quota("train", i) \in Nat /\ Quota("eval", i) \in Nat \ {0}
                                    /\ Quota("dev", i) \in Nat
           /\ \A i : Quota("control", i) \in Nat
           /\ \A i \in Categories : Target("train", i) \in Nat /\ Target("eval", i) \in Nat
                                    /\ Target("dev", i) \in Nat /\ Cap("eval", i) \in Nat
           /\ \A i : Target("control", i) \in Nat
           /\ Whole \in Nat \ {0} /\ GroupShare \in Nat \ {0}
<1>1. Whole \in Nat \ {0} /\ GroupShare \in Nat \ {0}
  BY SplitAssumption
<1>2. /\ \A i \in Categories : Quota("train", i) \in Nat /\ Quota("eval", i) \in Nat \ {0}
                               /\ Quota("dev", i) \in Nat
      /\ \A i : Quota("control", i) \in Nat
  BY ConfigFacts DEF Quota
<1>3. \A a, b \in Nat : a * b \in Nat
  OBVIOUS
<1> QED
  BY <1>1, <1>2, <1>3 DEF Target, Cap

\* A clip that was listed is usable, of its source, and its group tells where it is from.
LEMMA GoodFacts ==
    ASSUME cfg \in Configs, NEW s \in DOMAIN Kind, NEW c \in Good(s)
    PROVE  /\ c \in Clips /\ SourceOf[c] = s /\ Length(c) \in Nat \ {0}
           /\ Origin(c) = <<s, Group(c)>>
<1>1. c \in Candidates(s, cfg.lines) /\ IsUsable(c)
  BY DEF Good
<1>2. c \in Listed(s) /\ (Kind[s] = "context" => InContext(c, cfg.lines))
  BY <1>1 DEF Candidates
<1>3. c \in Clips /\ SourceOf[c] = s
  BY <1>2 DEF Listed
<1>4. Length(c) \in Nat \ {0}
  BY <1>1, SplitAssumption DEF IsUsable
<1>5. Origin(c) = <<s, Group(c)>>
  <2>1. CASE Kind[s] = "context"
    <3>1. Row[c].at \in Nat /\ Row[c].at < Len(IndexHead(cfg.lines))
      BY <1>2, <1>3, <2>1, SourceAssumption DEF InContext
    <3>2. cfg.lines \in Nat
      BY ConfigFacts
    <3> DEFINE S == {Index[i] : i \in 1..cfg.lines}
    <3>3. \A i \in 1..cfg.lines : Index[i] \in S
      OBVIOUS
    <3>4. /\ Len(SubSeq(Index, 1, cfg.lines)) = IF 1 <= cfg.lines THEN cfg.lines - 1 + 1 ELSE 0
          /\ \A i \in 1..cfg.lines - 1 + 1 : SubSeq(Index, 1, cfg.lines)[i] = Index[1 + i - 1]
      <4> HIDE DEF S
      <4> QED BY <3>2, <3>3, SubSeqProperties
    <3>5. IndexHead(cfg.lines)[Row[c].at + 1] = Index[Row[c].at + 1]
      BY <3>1, <3>2, <3>4 DEF IndexHead
    <3> QED
      BY <1>3, <2>1, <3>5 DEF Origin, Group, GroupOf, Video
  <2>2. CASE Kind[s] = "conversational"
    BY <1>3, <2>2 DEF Origin, Group, GroupOf, Speaker
  <2>3. CASE Kind[s] = "fleurs"
    BY <1>3, <2>3 DEF Origin, Group, GroupOf, Sentence
  <2>4. CASE Kind[s] = "librispeech"
    BY <1>3, <2>4 DEF Origin, Group, GroupOf, Reader
  <2> QED
    BY <2>1, <2>2, <2>3, <2>4, SourceAssumption
<1> QED
  BY <1>3, <1>4, <1>5

\* Clips whose lengths can be added up.
Measured(clips) == clips \subseteq Clips /\ \A c \in clips : Length(c) \in Nat

\* The clips that a source lists have lengths.
LEMMA GoodMeasured ==
    ASSUME cfg \in Configs, NEW s \in DOMAIN Kind, NEW clips \in SUBSET Good(s)
    PROVE  Measured(clips)
BY GoodFacts DEF Measured

Lengths == [c \in Clips |-> Length(c)]

\* The amount of clips is a sum over them of one function.
LEMMA AmountIsSum ==
    ASSUME NEW clips, Measured(clips)
    PROVE  /\ Amount(clips) = SumFunctionOnSet(Lengths, clips)
           /\ IsFiniteSet(clips) /\ NatValued(Lengths, clips)
           /\ \A c \in clips : Lengths[c] = Length(c)
<1>1. IsFiniteSet(clips)
  BY SplitAssumption, FS_Subset DEF Measured
<1>2. \A c \in clips : Lengths[c] = Length(c) /\ Length(c) \in Nat
  BY DEF Measured, Lengths
<1>3. Agree([c \in clips |-> Length(c)], Lengths, clips)
  BY <1>2 DEF Agree
<1>4. Amount(clips) = SumFunctionOnSet([c \in clips |-> Length(c)], clips)
  BY DEF Amount, SumFunction
<1>5. Amount(clips) = SumFunctionOnSet(Lengths, clips)
  BY <1>1, <1>3, <1>4, SumSame
<1> QED
  BY <1>1, <1>2, <1>5 DEF NatValued

\* An amount is a natural number, and nothing amounts to 0.
LEMMA AmountType ==
    /\ \A clips : Measured(clips) => Amount(clips) \in Nat
    /\ Amount({}) = 0
<1>1. Measured({})
  BY DEF Measured
<1> QED
  BY <1>1, AmountIsSum, SumType, SumEmpty

\* One clip more adds its length.
LEMMA AmountAdd ==
    ASSUME NEW clips, NEW c, c \notin clips, Measured(clips \cup {c})
    PROVE  Amount(clips \cup {c}) = Amount(clips) + Length(c)
<1>1. Measured(clips)
  BY DEF Measured
<1>2. /\ Amount(clips \cup {c}) = SumFunctionOnSet(Lengths, clips \cup {c})
      /\ NatValued(Lengths, clips \cup {c}) /\ Lengths[c] = Length(c)
  BY AmountIsSum
<1>3. Amount(clips) = SumFunctionOnSet(Lengths, clips) /\ IsFiniteSet(clips)
  BY <1>1, AmountIsSum
<1>4. SumFunctionOnSet(Lengths, clips \cup {c}) = SumFunctionOnSet(Lengths, clips) + Lengths[c]
  BY <1>2, <1>3, SumAdd
<1> QED
  BY <1>2, <1>3, <1>4

\* Fewer clips do not amount to more.
LEMMA AmountMonotonic ==
    ASSUME NEW clips, Measured(clips), NEW part \in SUBSET clips
    PROVE  Amount(part) <= Amount(clips)
<1>1. Measured(part)
  BY DEF Measured
<1>2. SumFunctionOnSet(Lengths, part) <= SumFunctionOnSet(Lengths, clips)
  BY AmountIsSum, SumMonotonic
<1> QED
  BY <1>1, <1>2, AmountIsSum

-----------------------------------------------------------------------------
(* The pools and the plans. *)

\* Every step keeps the configuration.
LEMMA ConfigKept == [Next]_vars => cfg' = cfg
BY DEF Next, vars, List, TakeBothSources, StartHoldOut, HoldOut, EndHoldOut, FailHoldOut, Shuffle,
   Fill, NextBucket, TopUp, EndPlan, Finished

\* A step within a selection draws nothing.
LEMMA DrawsKept ==
    ASSUME Draws, Selecting, Selecting',
           UNCHANGED <<cfg, usable, cat, split, pools, pool, overlap, plans>>
    PROVE  Draws'
<1> USE DEF pools
<1>1. UsableAreGood' /\ InTurn'
  BY DEF Draws, UsableAreGood, InTurn, Selecting, Good, Categories, Category
<1>2. PoolsApart'
  BY DEF Draws, PoolsApart, Good, Category
<1>3. PoolOfSplit'
  <2>1. TrainClips' = TrainClips
    BY DEF TrainClips
  <2>2. DevPool(TrainClips)' = DevPool(TrainClips) /\ DevFallsShort(TrainClips)' = DevFallsShort(TrainClips)
    BY DEF DevPool, DevFallsShort, Unused, Group, GroupsOf, Target, Quota, TrainClips
  <2>3. Good(SourceFor(split, cat))' = Good(SourceFor(split, cat))
    BY DEF Good, SourceFor
  <2> QED
    BY <2>2, <2>3 DEF Draws, PoolOfSplit
<1>4. InOrder' /\ OneTrain' /\ ApartWithin'
  BY DEF Draws, InOrder, OneTrain, ApartWithin, Selecting
<1>5. PlansDrawn'
  BY DEF Draws, PlansDrawn, Good, SourceFor, Categories
<1>6. DevHonest'
  BY DEF Draws, DevHonest, Group, GroupsOf, Target, Quota
<1> QED
  BY <1>1, <1>2, <1>3, <1>4, <1>5, <1>6 DEF Draws

\* A step before or between the selections of a category draws nothing.
LEMMA DrawsQuiet ==
    ASSUME Draws, ~Selecting, phase # "done", phase' \in {"pools", "hold", "failed"},
           UNCHANGED <<cfg, cat, plans>>, UsableAreGood',
           phase \in {"list", "pools", "hold", "failed"},
           phase' = "hold" => Category.train = Category.eval
    PROVE  Draws'
<1>1. InTurn' /\ PoolsApart' /\ PoolOfSplit' /\ InOrder'
  BY DEF Draws, InTurn, PoolsApart, PoolOfSplit, InOrder, Selecting, Categories, Category
<1>2. PlansDrawn'
  BY DEF Draws, PlansDrawn, Good, SourceFor, Categories, Selecting
<1>3. OneTrain' /\ ApartWithin'
  BY DEF Draws, OneTrain, ApartWithin
<1>4. DevHonest'
  BY DEF Draws, DevHonest, Group, GroupsOf, Target, Quota
<1> QED
  BY <1>1, <1>2, <1>3, <1>4 DEF Draws

\* The fields of a plan.
LEMMA PlanFields ==
    ASSUME TypeOK
    PROVE  /\ cat \in Int
           /\ \A p \in plans : /\ p.cat \in Int
                               /\ p.split \in {"train", "eval", "dev", "control"}
                               /\ p.clips \in SUBSET Clips /\ p.pool \in SUBSET Clips
<1>1. /\ cat \in 1..Len(cfg.categories) + 1
      /\ plans \subseteq [split : {"train", "eval", "dev", "control"},
                          cat : 1..Len(cfg.categories) + 1, clips : SUBSET Clips,
                          pool : SUBSET Clips, overlap : BOOLEAN]
  BY DEF TypeOK
<1> QED
  BY <1>1

\* A category's selections start with train, on pools that nobody is heard in both of.
LEMMA DrawsEntered ==
    ASSUME TypeOK, Draws, phase \in {"pools", "hold"}, phase' = "shuffle", split' = "train",
           pool' = trainPool', UNCHANGED <<cfg, usable, cat, plans>>,
           trainPool' \subseteq Good(Category.train), evalPool' \subseteq Good(Category.eval),
           \A a \in trainPool', b \in evalPool' : Origin(a) # Origin(b)
    PROVE  Draws'
<1>0. cat \in Categories /\ Categories' = Categories
  BY DEF Draws, InTurn, Categories
<1>1. UsableAreGood' /\ InTurn'
  BY <1>0 DEF Draws, UsableAreGood, InTurn, Selecting, Good, Categories, NoSplit
<1>2. PoolsApart'
  BY DEF PoolsApart, Good, Category
<1>3. PoolOfSplit'
  BY DEF PoolOfSplit, SourceFor, Good, Category
<1>4. InOrder'
  <2>1. \A p \in plans : p.cat <= cat /\ p.cat # cat
    BY PlanFields DEF Draws, InOrder
  <2> QED
    BY <2>1 DEF InOrder, Selecting
<1>5. PlansDrawn'
  <2>1. \A p \in plans : p.cat # cat
    BY PlanFields DEF Draws, InOrder
  <2> QED
    BY <2>1 DEF Draws, PlansDrawn, Good, SourceFor, Categories
<1>6. OneTrain' /\ ApartWithin'
  BY DEF Draws, OneTrain, ApartWithin
<1>7. DevHonest'
  BY DEF Draws, DevHonest, Group, GroupsOf, Target, Quota
<1> QED
  BY <1>1, <1>2, <1>3, <1>4, <1>5, <1>6, <1>7 DEF Draws

\* The plan that a finished selection makes.
Made == [split |-> split, cat |-> cat, clips |-> chosen, pool |-> pool, overlap |-> overlap]

\* How the planning goes on after a plan.
LEMMA PlanCases ==
    ASSUME TypeOK, Draws, EndPlan
    PROVE  /\ plans' = plans \cup {Made} /\ UNCHANGED <<cfg, usable, pools, holding>>
           /\ Selecting /\ split \in {"train", "eval", "dev", "control"}
           /\ \/ /\ split = "train" /\ split' = "eval" /\ pool' = evalPool /\ cat' = cat
                 /\ phase' = "shuffle" /\ cat \in Categories
                 /\ overlap' = FALSE /\ NothingChosen
              \/ /\ split = "eval" /\ split' = "dev" /\ pool' = DevPool(TrainClips) /\ cat' = cat
                 /\ overlap' = DevFallsShort(TrainClips) /\ NothingChosen
                 /\ phase' = "shuffle" /\ cat \in Categories
              \/ /\ split \in {"eval", "dev"} /\ cat' = cat + 1 /\ split' = NoSplit
                 /\ phase' = "pools" /\ cat < Len(cfg.categories) /\ cat \in Categories
                 /\ pool' = {} /\ overlap' = FALSE /\ NothingChosen
              \/ /\ split \in {"eval", "dev"} /\ split' = "control" /\ cat' = cat + 1
                 /\ phase' = "shuffle" /\ pool' = usable[cfg.control]
                 /\ overlap' = FALSE /\ NothingChosen
                 /\ cat \in Categories /\ cat' \notin Categories
              \/ /\ split = "control" /\ phase' = "done" /\ cat' = cat
                 /\ cat \notin Categories /\ UNCHANGED <<split, selection>>
<1>1. Selecting /\ plans' = plans \cup {Made} /\ UNCHANGED <<cfg, usable, pools, holding>>
  BY DEF EndPlan, Selecting, Made
<1>2. split \in {"train", "eval", "dev", "control"} /\ (split = "control" <=> cat \notin Categories)
  BY <1>1 DEF Draws, InTurn, TypeOK
<1>3. cfg \in Configs /\ cat \in 1..Len(cfg.categories) + 1
  BY DEF TypeOK
<1>4. Len(cfg.categories) \in Nat \ {0} /\ Categories = 1..Len(cfg.categories)
  BY <1>3, ConfigFacts
<1>5. Category.devQuota > 0 \/ Category.devQuota = 0 \/ split # "eval"
  BY <1>2, <1>3, ConfigFacts DEF Category
<1>6. CASE split = "train"
  BY <1>1, <1>2, <1>6 DEF EndPlan, Select
<1>7. CASE split = "eval" /\ Category.devQuota > 0
  <2>0. ~(Category.devQuota = 0)
    <3>1. Category.devQuota \in Nat
      BY <1>2, <1>3, <1>7, ConfigFacts DEF Category
    <3> QED
      BY <1>7, <3>1
  <2>1. Select("dev", DevPool(TrainClips), DevFallsShort(TrainClips)) /\ UNCHANGED cat
    BY <1>7, <2>0 DEF EndPlan
  <2>2. /\ split' = "dev" /\ pool' = DevPool(TrainClips) /\ phase' = "shuffle" /\ cat' = cat
        /\ NothingChosen
    BY <2>1 DEF Select
  <2>3. overlap' = DevFallsShort(TrainClips)
    BY <2>1, Zenon DEF Select
  <2> QED
    BY <1>1, <1>2, <1>7, <2>2, <2>3
<1>8. CASE NextCategory /\ split \in {"eval", "dev"}
  <2>1. cat \in Categories
    BY <1>2, <1>8
  <2>2. CASE cat < Len(cfg.categories)
    BY <1>1, <1>2, <1>8, <2>1, <2>2 DEF NextCategory
  <2>3. CASE ~(cat < Len(cfg.categories))
    BY <1>1, <1>2, <1>3, <1>4, <1>8, <2>1, <2>3 DEF NextCategory, Select
  <2> QED
    BY <2>2, <2>3
<1>9. CASE split = "control"
  BY <1>1, <1>2, <1>9 DEF EndPlan
<1>10. split = "eval" /\ ~(Category.devQuota > 0) => NextCategory
  BY <1>5 DEF EndPlan
<1>11. split = "dev" => NextCategory
  BY DEF EndPlan
<1> QED
  BY <1>2, <1>6, <1>7, <1>8, <1>9, <1>10, <1>11

\* The same, without what becomes of the selection.
LEMMA AfterPlan ==
    ASSUME TypeOK, Draws, EndPlan
    PROVE  /\ plans' = plans \cup {Made} /\ UNCHANGED <<cfg, usable, pools, holding>>
           /\ Selecting /\ split \in {"train", "eval", "dev", "control"}
           /\ \/ /\ split = "train" /\ split' = "eval" /\ pool' = evalPool /\ cat' = cat
                 /\ phase' = "shuffle" /\ cat \in Categories
              \/ /\ split = "eval" /\ split' = "dev" /\ pool' = DevPool(TrainClips) /\ cat' = cat
                 /\ overlap' = DevFallsShort(TrainClips)
                 /\ phase' = "shuffle" /\ cat \in Categories
              \/ /\ split \in {"eval", "dev"} /\ cat' = cat + 1
                 /\ phase' = "pools" /\ cat < Len(cfg.categories) /\ cat \in Categories
              \/ /\ split \in {"eval", "dev"} /\ split' = "control" /\ cat' = cat + 1
                 /\ phase' = "shuffle" /\ pool' = usable[cfg.control]
                 /\ cat \in Categories /\ cat' \notin Categories
              \/ /\ split = "control" /\ phase' = "done" /\ cat' = cat
                 /\ cat \notin Categories
BY PlanCases

\* Two clips of one source have one origin exactly when they are of one group.
LEMMA OriginIsGroup ==
    ASSUME cfg \in Configs, NEW s \in DOMAIN Kind, NEW a \in Good(s), NEW b \in Good(s)
    PROVE  Origin(a) = Origin(b) <=> Group(a) = Group(b)
BY GoodFacts

\* What dev may draw from, next to a plan for train.
LEMMA DevPoolFacts ==
    ASSUME NEW clips
    PROVE  /\ DevPool(clips) \subseteq trainPool
           /\ DevPool(clips) \cap clips = {}
           /\ ~DevFallsShort(clips) =>
                 \A c \in DevPool(clips) : \A d \in clips : Group(c) # Group(d)
BY DEF DevPool, Unused, GroupsOf

\* The plan for train of the category in work.
LEMMA TrainPlan ==
    ASSUME OneTrain, NEW t \in plans, t.split = "train", t.cat = cat
    PROVE  TrainClips = t.clips
<1>1. {q \in plans : q.split = "train" /\ q.cat = cat} = {t}
  BY DEF OneTrain
<1>2. UNION {p.clips : p \in {t}} = t.clips
  OBVIOUS
<1> QED
  BY <1>1, <1>2 DEF TrainClips

\* Clips are apart when no two of them share an origin.
LEMMA OriginsApart ==
    ASSUME NEW A, NEW B, \A a \in A, b \in B : Origin(a) # Origin(b)
    PROVE  ClipsApart(A, B)
BY DEF ClipsApart, Voices, Sentences

\* A finished selection adds a plan that keeps what the plans before it keep.
LEMMA DrawsPlanned ==
    ASSUME TypeOK, Draws, EndPlan
    PROVE  Draws'
<1> USE AfterPlan
<1>c. cfg \in Configs /\ chosen \subseteq pool
  BY DEF TypeOK
<1>g. /\ Categories' = Categories
      /\ \A s : Good(s)' = Good(s)
      /\ \A s, i : SourceFor(s, i)' = SourceFor(s, i)
      /\ \A c : Group(c)' = Group(c)
      /\ \A clips : GroupsOf(clips)' = GroupsOf(clips)
      /\ \A s, i : Target(s, i)' = Target(s, i)
  BY DEF Categories, Good, SourceFor, Group, GroupsOf, Target, Quota
<1>m. /\ Made.split = split /\ Made.cat = cat /\ Made.clips = chosen /\ Made.pool = pool
      /\ Made.overlap = overlap
  BY DEF Made
<1>d. /\ split = "train" => pool = trainPool
      /\ split = "eval" => pool = evalPool
      /\ split = "dev" => pool = DevPool(TrainClips) /\ overlap = DevFallsShort(TrainClips)
      /\ pool \subseteq Good(SourceFor(split, cat))
  BY DEF Draws, PoolOfSplit
<1>o. \A p \in plans :
          /\ p.cat <= cat
          /\ p.cat = cat => \/ split = "eval" /\ p.split = "train"
                            \/ split = "dev" /\ p.split \in {"train", "eval"}
  BY DEF Draws, InOrder
<1>p. /\ split # "control" => /\ trainPool \subseteq Good(Category.train)
                              /\ evalPool \subseteq Good(Category.eval)
                              /\ \A a \in trainPool, b \in evalPool : Origin(a) # Origin(b)
  BY DEF Draws, PoolsApart
<1>q. \A p \in plans :
        /\ p.clips \subseteq p.pool
        /\ p.pool \subseteq Good(SourceFor(p.split, p.cat))
        /\ p.split = "control" <=> p.cat \notin Categories
        /\ p.cat = cat => /\ p.split = "train" => p.pool = trainPool
                          /\ p.split = "eval" => p.pool = evalPool
  BY DEF Draws, PlansDrawn
<1>t. \A p \in plans : p.split = "train" /\ p.cat = cat => TrainClips = p.clips
  BY TrainPlan DEF Draws
<1>1. UsableAreGood'
  BY <1>g DEF Draws, UsableAreGood
<1>2. InTurn'
  BY <1>c, <1>g, ConfigFacts DEF InTurn, Selecting, NoSplit, TypeOK
<1>3. PoolsApart'
  BY <1>g, <1>p DEF PoolsApart, Selecting, Category, pools
<1>4. PoolOfSplit'
  <2>1. CASE split' = "eval" /\ phase' = "shuffle" /\ cat' = cat /\ pool' = evalPool
    BY <1>g, <1>p, <2>1, ConfigFacts DEF PoolOfSplit, SourceFor, Category, pools
  <2>2. CASE /\ split = "eval" /\ split' = "dev" /\ phase' = "shuffle" /\ cat' = cat
             /\ pool' = DevPool(TrainClips) /\ overlap' = DevFallsShort(TrainClips)
    <3>1. {q \in plans' : q.split = "train" /\ q.cat = cat'}
            = {q \in plans : q.split = "train" /\ q.cat = cat}
      BY <1>m, <2>2
    <3>2. TrainClips' = TrainClips
      BY <3>1 DEF TrainClips
    <3>3. /\ DevPool(TrainClips)' = DevPool(TrainClips)
          /\ DevFallsShort(TrainClips)' = DevFallsShort(TrainClips)
      BY <1>g, <2>2, <3>2 DEF DevPool, DevFallsShort, Unused, pools
    <3>4. DevPool(TrainClips) \subseteq Good(Category.train)
      BY <1>p, <2>2, DevPoolFacts
    <3>5. SourceFor("dev", cat) = Category.train
      BY DEF SourceFor, Category
    <3> QED
      BY <1>g, <2>2, <3>3, <3>4, <3>5 DEF PoolOfSplit
  <2>3. CASE split' = "control" /\ phase' = "shuffle" /\ pool' = usable[cfg.control]
    <3>1. usable[cfg.control] \subseteq Good(cfg.control)
      BY <1>c, ConfigFacts DEF Draws, UsableAreGood
    <3> QED
      BY <1>g, <2>3, <3>1 DEF PoolOfSplit, SourceFor
  <2>4. CASE ~Selecting'
    BY <2>4 DEF PoolOfSplit
  <2> QED
    BY <2>1, <2>2, <2>3, <2>4 DEF Selecting
<1>5. InOrder'
  <2>1. cat \in Int /\ \A p \in plans : p.cat \in Int
    BY PlanFields
  <2>2. \A p \in plans' : p.cat <= cat /\ p.cat \in Int
    BY <1>m, <1>o, <2>1
  <2>3. CASE cat' = cat + 1
    <3>1. \A p \in plans' : p.cat < cat' /\ p.cat # cat' /\ p.cat <= cat'
      BY <2>1, <2>2, <2>3
    <3> QED
      BY <3>1 DEF InOrder
  <2>4. CASE cat' = cat
    BY <1>m, <1>o, <2>2, <2>4 DEF InOrder, Selecting
  <2> QED
    BY <2>3, <2>4
<1>6. PlansDrawn'
  <2>1. \A p \in plans' :
          /\ p.clips \subseteq p.pool
          /\ p.pool \subseteq Good(SourceFor(p.split, p.cat))
          /\ p.split = "control" <=> p.cat \notin Categories
    BY <1>c, <1>m, <1>d, <1>q
  <2>2. ASSUME NEW p \in plans', Selecting', p.cat = cat'
        PROVE  /\ p.split = "train" => p.pool = trainPool
               /\ p.split = "eval" => p.pool = evalPool
    <3>1. cat \in Int /\ \A r \in plans : r.cat \in Int /\ r.cat <= cat
      BY <1>o, PlanFields
    <3>2. cat' = cat
      BY <1>m, <2>2, <3>1
    <3> QED
      BY <1>m, <1>d, <1>q, <2>2, <3>2
  <2> QED
    BY <1>g, <2>1, <2>2 DEF PlansDrawn, pools
<1>7. OneTrain'
  BY <1>m, <1>o DEF Draws, OneTrain
<1>8. ApartWithin'
  <2>1. SUFFICES ASSUME NEW p \in plans', NEW q \in plans', p.cat = q.cat,
                        p.split \in {"train", "dev"}, q.split = "eval"
                 PROVE  ClipsApart(p.clips, q.clips)
    BY DEF ApartWithin
  <2>2. CASE p \in plans /\ q \in plans
    BY <2>1, <2>2 DEF Draws, ApartWithin
  <2>3. CASE p = Made
    <3>1. q \in plans /\ split = "dev"
      BY <1>m, <1>o, <2>1, <2>3
    <3>2. chosen \subseteq trainPool /\ q.clips \subseteq evalPool
      BY <1>c, <1>d, <1>m, <1>q, <2>1, <2>3, <3>1, DevPoolFacts
    <3> QED
      BY <1>m, <1>p, <2>3, <3>1, <3>2, OriginsApart
  <2>4. CASE q = Made
    <3>1. p \in plans /\ split = "eval" /\ p.split = "train"
      BY <1>m, <1>o, <2>1, <2>4
    <3>2. chosen \subseteq evalPool /\ p.clips \subseteq trainPool
      BY <1>c, <1>d, <1>m, <1>q, <2>1, <2>4, <3>1
    <3> QED
      BY <1>m, <1>p, <2>4, <3>1, <3>2, OriginsApart
  <2> QED
    BY <2>2, <2>3, <2>4
<1>9. DevHonest'
  <2>1. SUFFICES ASSUME NEW p \in plans', NEW t \in plans',
                        p.split = "dev", t.split = "train", p.cat = t.cat
                 PROVE  /\ p.clips \cap t.clips = {}
                        /\ ~p.overlap => ClipsApart(p.clips, t.clips)
                        /\ p.overlap => Amount({c \in t.pool : Group(c) \notin GroupsOf(t.clips)})
                                          < Target("dev", p.cat)
    BY <1>g DEF DevHonest, ClipsApart
  <2>2. CASE p \in plans /\ t \in plans
    BY <2>1, <2>2 DEF Draws, DevHonest, ClipsApart
  <2>3. CASE t = Made /\ p # Made
    BY <1>m, <1>o, <2>1, <2>3
  <2>4. CASE p = Made
    <3>1. t \in plans /\ split = "dev" /\ t.cat = cat
      BY <1>m, <2>1, <2>4
    <3>2. t.pool = trainPool /\ TrainClips = t.clips /\ t.clips \subseteq trainPool
      BY <1>q, <1>t, <2>1, <3>1
    <3>3. /\ chosen \subseteq DevPool(t.clips) /\ pool = DevPool(t.clips)
          /\ overlap = DevFallsShort(t.clips)
      BY <1>c, <1>d, <3>1, <3>2
    <3>4. p.clips \cap t.clips = {}
      BY <1>m, <2>4, <3>3, DevPoolFacts
    <3>5. ASSUME ~p.overlap PROVE ClipsApart(p.clips, t.clips)
      <4>1. \A c \in chosen : \A d \in t.clips : Group(c) # Group(d)
        BY <1>m, <2>4, <3>3, <3>5, DevPoolFacts
      <4>2. cat \in Categories
        BY <3>1
      <4>3. Category.train \in DOMAIN Kind
        BY <1>c, <4>2, ConfigFacts DEF Category
      <4>4. chosen \subseteq Good(Category.train) /\ t.clips \subseteq Good(Category.train)
        BY <1>p, <3>1, <3>2, <3>3, DevPoolFacts
      <4>5. \A c \in chosen, d \in t.clips : Origin(c) # Origin(d)
        BY <1>c, <4>1, <4>3, <4>4, OriginIsGroup
      <4> QED
        BY <1>m, <2>4, <4>5, OriginsApart
    <3>6. ASSUME p.overlap
          PROVE  Amount({c \in t.pool : Group(c) \notin GroupsOf(t.clips)}) < Target("dev", p.cat)
      <4>1. DevFallsShort(t.clips)
        BY <1>m, <2>4, <3>3, <3>6
      <4> QED
        BY <1>m, <2>4, <3>2, <4>1 DEF DevFallsShort, Unused
    <3> QED
      BY <3>4, <3>5, <3>6
  <2> QED
    BY <2>2, <2>3, <2>4
<1> QED
  BY <1>1, <1>2, <1>3, <1>4, <1>5, <1>6, <1>7, <1>8, <1>9 DEF Draws

\* Sources that differ give pools that share no origin.
LEMMA DrawsBothSources ==
    ASSUME TypeOK, Draws, TakeBothSources
    PROVE  Draws'
<1>1. cfg \in Configs /\ cat \in Categories
  BY DEF TypeOK, Draws, InTurn, TakeBothSources
<1>2. Category.train \in DOMAIN Kind /\ Category.eval \in DOMAIN Kind
  BY <1>1, ConfigFacts DEF Category
<1>3. /\ trainPool' \subseteq Good(Category.train) /\ evalPool' \subseteq Good(Category.eval)
      /\ Category.train # Category.eval
  BY <1>2 DEF TakeBothSources, Draws, UsableAreGood
<1>4. \A a \in trainPool', b \in evalPool' : Origin(a) # Origin(b)
  BY <1>1, <1>2, <1>3, GoodFacts
<1>5. /\ phase = "pools" /\ phase' = "shuffle" /\ split' = "train" /\ pool' = trainPool'
      /\ UNCHANGED <<cfg, usable, cat, plans>>
  BY DEF TakeBothSources, Select
<1> QED
  BY <1>3, <1>4, <1>5, DrawsEntered

\* Holding out whole groups of one source does so too.
LEMMA DrawsHeldOut ==
    ASSUME TypeOK, Draws, EndHoldOut
    PROVE  Draws'
<1>1. cfg \in Configs /\ cat \in Categories
  BY DEF TypeOK, Draws, InTurn, EndHoldOut
<1>2. Category.train \in DOMAIN Kind /\ Shared \subseteq Good(Category.train)
  BY <1>1, ConfigFacts DEF Category, Shared, Draws, UsableAreGood
<1>7. Category.eval = Category.train
  BY DEF Draws, InTurn, EndHoldOut
<1>3. trainPool' \subseteq Shared /\ evalPool' \subseteq Shared
  BY DEF EndHoldOut, EvalSide
<1>4. \A a \in trainPool', b \in evalPool' : Group(a) # Group(b)
  BY DEF EndHoldOut, EvalSide
<1>5. \A a \in trainPool', b \in evalPool' : Origin(a) # Origin(b)
  BY <1>1, <1>2, <1>3, <1>4, OriginIsGroup
<1>6. /\ phase = "hold" /\ phase' = "shuffle" /\ split' = "train" /\ pool' = trainPool'
      /\ UNCHANGED <<cfg, usable, cat, plans>>
  BY DEF EndHoldOut, Select
<1> QED
  BY <1>2, <1>3, <1>5, <1>6, <1>7, DrawsEntered

\* What is listed as usable is good; nothing else of the planning has begun.
LEMMA DrawsListed ==
    ASSUME TypeOK, Draws, List
    PROVE  Draws'
<1>1. UsableAreGood'
  BY DEF UsableAreGood, List, Good
<1> QED
  BY <1>1, DrawsQuiet DEF List, Selecting

\* The steps within a selection leave everything that was drawn as it is.
LEMMA WithinSelection ==
    ASSUME Shuffle \/ Fill \/ NextBucket \/ TopUp
    PROVE  /\ Selecting /\ Selecting'
           /\ UNCHANGED <<cfg, usable, cat, split, pools, pool, overlap, plans, holding>>
BY DEF Shuffle, Fill, NextBucket, TopUp, Selecting

\* Every step keeps what has been drawn in order.
LEMMA DrawsStep == TypeOK /\ Draws /\ [Next]_vars => Draws'
<1> SUFFICES ASSUME TypeOK, Draws, [Next]_vars PROVE Draws'
  OBVIOUS
<1>1. CASE List
  BY <1>1, DrawsListed
<1>2. CASE TakeBothSources
  BY <1>2, DrawsBothSources
<1>3. CASE StartHoldOut
  <2>1. UsableAreGood'
    BY <1>3 DEF StartHoldOut, Draws, UsableAreGood, Good
  <2> QED
    BY <1>3, <2>1, DrawsQuiet DEF StartHoldOut, Selecting
<1>4. ASSUME NEW g, HoldOut(g) PROVE Draws'
  <2>1. UsableAreGood'
    BY <1>4 DEF HoldOut, Draws, UsableAreGood, Good
  <2>2. Category.train = Category.eval
    BY <1>4 DEF HoldOut, Draws, InTurn
  <2> QED
    BY <1>4, <2>1, <2>2, DrawsQuiet DEF HoldOut, Selecting
<1>5. CASE EndHoldOut
  BY <1>5, DrawsHeldOut
<1>6. CASE FailHoldOut
  <2>1. UsableAreGood'
    BY <1>6 DEF FailHoldOut, Draws, UsableAreGood, Good
  <2> QED
    BY <1>6, <2>1, DrawsQuiet DEF FailHoldOut, Selecting
<1>7. CASE Shuffle \/ Fill \/ NextBucket \/ TopUp
  BY <1>7, WithinSelection, DrawsKept
<1>8. CASE EndPlan
  BY <1>8, DrawsPlanned
<1>9. CASE UNCHANGED vars
  <2>1. UNCHANGED <<cfg, usable, phase, cat, split, pools, pool, overlap, plans>>
    BY <1>9 DEF vars, selection
  <2>2. CASE Selecting
    BY <2>1, <2>2, DrawsKept DEF Selecting
  <2>3. CASE ~Selecting
    <3>1. UsableAreGood' /\ InTurn' /\ PoolsApart' /\ PoolOfSplit' /\ InOrder'
      BY <2>1, <2>3 DEF Draws, UsableAreGood, InTurn, PoolsApart, PoolOfSplit, InOrder, Selecting,
         Categories, Category, Good
    <3>2. PlansDrawn' /\ OneTrain' /\ ApartWithin'
      BY <2>1, <2>3 DEF Draws, PlansDrawn, Good, SourceFor, Categories, Selecting, OneTrain,
         ApartWithin
    <3>3. DevHonest'
      BY <2>1 DEF Draws, DevHonest, Group, GroupsOf, Target, Quota
    <3> QED
      BY <3>1, <3>2, <3>3 DEF Draws
  <2> QED
    BY <2>2, <2>3
<1> QED
  BY <1>1, <1>2, <1>3, <1>4, <1>5, <1>6, <1>7, <1>8, <1>9 DEF Next, Finished

-----------------------------------------------------------------------------
(* Types. *)

\* The clips of the pools, and of what is chosen from them, have lengths.
LEMMA PoolMeasured ==
    ASSUME TypeOK, Draws, Selecting
    PROVE  Measured(pool)
<1>1. cfg \in Configs /\ pool \subseteq Good(SourceFor(split, cat))
  BY DEF TypeOK, Draws, PoolOfSplit
<1>2. SourceFor(split, cat) \in DOMAIN Kind
  BY <1>1, ConfigFacts DEF SourceFor, Draws, InTurn
<1> QED
  BY <1>1, <1>2, GoodMeasured

\* The type invariant in two halves: of the plan, and of the selection in work.
PlanTyped ==
    /\ cfg \in Configs
    /\ usable \in [DOMAIN Kind -> SUBSET Clips]
    /\ phase \in {"list", "pools", "hold", "shuffle", "fill", "topup", "done", "failed"}
    /\ cat \in 1..Len(cfg.categories) + 1
    /\ split \in {NoSplit, "train", "eval", "dev", "control"}
    /\ trainPool \subseteq Clips /\ evalPool \subseteq Clips
    /\ held \in Nat
    /\ plans \subseteq [split : {"train", "eval", "dev", "control"},
                        cat : 1..Len(cfg.categories) + 1, clips : SUBSET Clips,
                        pool : SUBSET Clips, overlap : BOOLEAN]

SelectionTyped ==
    /\ pool \subseteq Clips /\ chosen \subseteq pool /\ taken \subseteq chosen
    /\ got \in Nat /\ at \in Nat \ {0} /\ bucket \in DOMAIN Buckets
    /\ overlap \in BOOLEAN

\* The halves make the whole.
LEMMA TypeHalves == TypeOK <=> PlanTyped /\ SelectionTyped
BY DEF TypeOK, PlanTyped, SelectionTyped

\* The buckets are numbered from 1.
LEMMA BucketFacts ==
    Len(Buckets) \in Nat \ {0} /\ DOMAIN Buckets = 1..Len(Buckets) /\ 1 \in DOMAIN Buckets
<1>1. Buckets \in Seq([min : Nat, max : Nat \ {0}]) /\ Buckets # <<>>
  BY SplitAssumption
<1> QED
  BY <1>1

\* A selection that begins has chosen nothing of a pool of clips.
LEMMA SelectionBegins ==
    ASSUME NothingChosen, pool' \subseteq Clips, overlap' \in BOOLEAN
    PROVE  SelectionTyped'
BY BucketFacts DEF NothingChosen, SelectionTyped

\* The order of a selection is one of its pool.
LEMMA OrderFacts ==
    ASSUME SelectionTyped, order \in Orders(pool)
    PROVE  /\ Len(order) = Cardinality(pool) /\ Len(order) \in Nat /\ DOMAIN order = 1..Len(order)
           /\ \A i \in DOMAIN order : order[i] \in pool
           /\ \A c \in pool : \E i \in DOMAIN order : order[i] = c
           /\ \A i, j \in DOMAIN order : order[i] = order[j] => i = j
<1>1. IsFiniteSet(pool) /\ Cardinality(pool) \in Nat
  BY SplitAssumption, FS_Subset, FS_CardinalityType DEF SelectionTyped
<1>2. /\ order \in [1..Cardinality(pool) -> pool]
      /\ \A c \in pool : \E i \in 1..Cardinality(pool) : order[i] = c
      /\ \A i, j \in 1..Cardinality(pool) : order[i] = order[j] => i = j
  BY DEF Orders, Bijection, Injection, Surjection, IsInjective
<1>3. order \in Seq(pool) /\ Len(order) = Cardinality(pool)
  BY <1>1, <1>2
<1> QED
  BY <1>1, <1>2, <1>3

\* Every step keeps the types of the planning.
LEMMA PlanTypeStep == TypeOK /\ Draws /\ [Next]_vars => PlanTyped'
<1> SUFFICES ASSUME TypeOK, Draws, [Next]_vars PROVE PlanTyped'
  OBVIOUS
<1>t. PlanTyped /\ SelectionTyped
  BY TypeHalves
<1>c. cfg \in Configs /\ cfg' = cfg
  BY <1>t, ConfigKept DEF PlanTyped
<1>i. cat \in Categories => Category.train \in DOMAIN Kind /\ Category.eval \in DOMAIN Kind
  BY <1>c, ConfigFacts DEF Category
<1>u. \A s \in DOMAIN Kind : usable[s] \in SUBSET Clips
  BY <1>t DEF PlanTyped
<1>1. CASE List
  <2>1. \A s : {c \in Candidates(s, cfg.lines) : IsUsable(c)} \in SUBSET Clips
    BY DEF Candidates, Listed
  <2> QED
    BY <1>1, <1>t, <1>c, <2>1 DEF List, PlanTyped, pools, holding
<1>2. CASE TakeBothSources
  <2>1. cat \in Categories
    BY <1>2 DEF TakeBothSources, Draws, InTurn
  <2>2. trainPool' \in SUBSET Clips /\ evalPool' \in SUBSET Clips
    BY <1>2, <1>i, <1>u, <2>1 DEF TakeBothSources
  <2>3. phase' = "shuffle" /\ split' = "train"
    BY <1>2 DEF TakeBothSources, Select
  <2>4. UNCHANGED <<usable, cat, held, plans>>
    BY <1>2 DEF TakeBothSources, holding
  <2> QED
    BY <1>t, <1>c, <2>2, <2>3, <2>4 DEF PlanTyped
<1>3. CASE StartHoldOut
  BY <1>3, <1>t, <1>c DEF StartHoldOut, PlanTyped, pools
<1>4. ASSUME NEW g, HoldOut(g) PROVE PlanTyped'
  <2>1. cat \in Categories
    BY <1>4 DEF HoldOut, Draws, InTurn
  <2>2. InGroup(Shared, g) \subseteq Good(Category.train)
    BY <1>i, <2>1 DEF InGroup, Shared, Draws, UsableAreGood
  <2>3. Amount(InGroup(Shared, g)) \in Nat
    BY <1>c, <1>i, <2>1, <2>2, GoodMeasured, AmountType
  <2>4. Cap("eval", cat) \in Nat
    BY <1>c, <2>1, QuotaFacts
  <2>5. AtMost(Amount(InGroup(Shared, g)), Cap("eval", cat)) \in Nat
    BY <2>3, <2>4 DEF AtMost
  <2>6. held' \in Nat
    <3>1. held \in Nat /\ held' = held + AtMost(Amount(InGroup(Shared, g)), Cap("eval", cat))
      BY <1>4, <1>t DEF HoldOut, PlanTyped
    <3> QED
      BY <2>5, <3>1
  <2> QED
    BY <1>4, <1>t, <1>c, <2>6 DEF HoldOut, PlanTyped, pools
<1>5. CASE EndHoldOut
  <2>1. cat \in Categories
    BY <1>5 DEF EndHoldOut, Draws, InTurn
  <2>2. Shared \in SUBSET Clips /\ EvalSide \in SUBSET Clips
    BY <1>i, <1>u, <2>1 DEF Shared, EvalSide
  <2>3. trainPool' \in SUBSET Clips /\ evalPool' \in SUBSET Clips
    BY <1>5, <2>2 DEF EndHoldOut
  <2>4. phase' = "shuffle" /\ split' = "train"
    BY <1>5 DEF EndHoldOut, Select
  <2>5. UNCHANGED <<usable, cat, held, plans>>
    BY <1>5 DEF EndHoldOut, holding
  <2> QED
    BY <1>t, <1>c, <2>3, <2>4, <2>5 DEF PlanTyped
<1>6. CASE FailHoldOut
  BY <1>6, <1>t, <1>c DEF FailHoldOut, PlanTyped, pools, holding
<1>7. CASE Shuffle \/ Fill \/ NextBucket \/ TopUp
  <2>1. UNCHANGED <<usable, cat, split, trainPool, evalPool, held, plans>>
    BY <1>7, WithinSelection DEF pools, holding
  <2>2. phase' \in {"shuffle", "fill", "topup"}
    BY <1>7, WithinSelection DEF Selecting
  <2> QED
    BY <1>t, <1>c, <2>1, <2>2 DEF PlanTyped
<1>8. CASE EndPlan
  <2>1. /\ plans' = plans \cup {Made} /\ UNCHANGED <<usable, trainPool, evalPool, held>>
        /\ split \in {"train", "eval", "dev", "control"}
    BY <1>8, AfterPlan DEF pools, holding
  <2>2. chosen \in SUBSET Clips /\ pool \in SUBSET Clips /\ overlap \in BOOLEAN
    BY <1>t DEF SelectionTyped
  <2>3. Made \in [split : {"train", "eval", "dev", "control"},
                  cat : 1..Len(cfg.categories) + 1, clips : SUBSET Clips,
                  pool : SUBSET Clips, overlap : BOOLEAN]
    BY <1>t, <2>1, <2>2 DEF Made, PlanTyped
  <2>4. cat' \in 1..Len(cfg.categories) + 1
    <3>1. Len(cfg.categories) \in Nat \ {0} /\ Categories = 1..Len(cfg.categories)
      BY <1>c, ConfigFacts
    <3> QED
      BY <1>8, <1>t, <3>1, AfterPlan DEF PlanTyped
  <2>5. /\ split' \in {NoSplit, "train", "eval", "dev", "control"}
        /\ phase' \in {"shuffle", "pools", "done"}
    BY <1>8, PlanCases
  <2> QED
    BY <1>t, <1>c, <2>1, <2>3, <2>4, <2>5 DEF PlanTyped
<1>9. CASE UNCHANGED vars
  BY <1>9, <1>t DEF vars, PlanTyped, pools, holding
<1> QED
  BY <1>1, <1>2, <1>3, <1>4, <1>5, <1>6, <1>7, <1>8, <1>9 DEF Next, Finished

\* Every step keeps the types of the selection.
LEMMA SelectionTypeStep == TypeOK /\ Draws /\ Started /\ [Next]_vars => SelectionTyped'
<1> SUFFICES ASSUME TypeOK, Draws, Started, [Next]_vars PROVE SelectionTyped'
  OBVIOUS
<1>t. PlanTyped /\ SelectionTyped
  BY TypeHalves
<1>c. cfg \in Configs
  BY <1>t DEF PlanTyped
<1>i. cat \in Categories => Category.train \in DOMAIN Kind /\ Category.eval \in DOMAIN Kind
  BY <1>c, ConfigFacts DEF Category
<1>u. \A s \in DOMAIN Kind : usable[s] \in SUBSET Clips
  BY <1>t DEF PlanTyped
<1>1. CASE UNCHANGED selection
  BY <1>1, <1>t DEF SelectionTyped, selection
<1>2. CASE TakeBothSources
  <2>1. cat \in Categories
    BY <1>2 DEF TakeBothSources, Draws, InTurn
  <2>2. pool' \subseteq Clips /\ overlap' \in BOOLEAN /\ NothingChosen
    BY <1>2, <1>i, <1>u, <2>1 DEF TakeBothSources, Select
  <2> QED
    BY <2>2, SelectionBegins
<1>3. CASE EndHoldOut
  <2>1. cat \in Categories
    BY <1>3 DEF EndHoldOut, Draws, InTurn
  <2>2. Shared \in SUBSET Clips
    BY <1>i, <1>u, <2>1 DEF Shared
  <2>3. pool' \subseteq Clips /\ overlap' \in BOOLEAN /\ NothingChosen
    BY <1>3, <2>2 DEF EndHoldOut, Select
  <2> QED
    BY <2>3, SelectionBegins
<1>4. CASE Shuffle
  BY <1>4, <1>t DEF Shuffle, SelectionTyped
<1>5. CASE Fill
  <2>1. order \in Orders(pool) /\ at \in DOMAIN order /\ at \in Nat
    BY <1>5, <1>t, OrderFacts DEF Fill, Started, SelectionTyped
  <2>2. order[at] \in pool /\ Length(order[at]) \in Nat
    BY <1>5, <1>t, <2>1, OrderFacts, PoolMeasured DEF Fill, Selecting, Measured
  <2>3. chosen' \in {chosen, chosen \cup {order[at]}} /\ got' \in {got, got + Length(order[at])}
    BY <1>5 DEF Fill
  <2>4. at' = at + 1 /\ UNCHANGED <<pool, bucket, taken, overlap>>
    BY <1>5 DEF Fill
  <2>5. got' \in Nat
    BY <1>t, <2>2, <2>3 DEF SelectionTyped
  <2> QED
    BY <1>t, <2>1, <2>2, <2>3, <2>4, <2>5 DEF SelectionTyped
<1>6. CASE NextBucket
  <2>1. CASE bucket < Len(Buckets)
    BY <1>6, <1>t, <2>1, BucketFacts DEF NextBucket, SelectionTyped
  <2>2. CASE ~(bucket < Len(Buckets))
    BY <1>6, <1>t, <2>2 DEF NextBucket, SelectionTyped
  <2> QED
    BY <2>1, <2>2
<1>7. CASE TopUp
  <2>1. order \in Orders(pool) /\ at \in DOMAIN order /\ at \in Nat
    BY <1>7, <1>t, OrderFacts DEF TopUp, Started, SelectionTyped
  <2>2. order[at] \in pool
    BY <1>7, <1>t, <2>1, OrderFacts
  <2> QED
    BY <1>7, <1>t, <2>1, <2>2 DEF TopUp, SelectionTyped
<1>8. CASE EndPlan
  <2>1. CASE UNCHANGED selection
    BY <1>1, <2>1
  <2>2. CASE /\ NothingChosen /\ overlap' \in {FALSE, DevFallsShort(TrainClips)}
             /\ pool' \in {{}, evalPool, DevPool(TrainClips), usable[cfg.control]}
    <3>1. DevFallsShort(TrainClips) \in BOOLEAN
      BY DEF DevFallsShort
    <3>2. overlap' \in BOOLEAN
      BY <2>2, <3>1
    <3>3. pool' \subseteq Clips
      BY <1>t, <1>c, <1>u, <2>2, ConfigFacts, DevPoolFacts DEF PlanTyped
    <3> QED
      BY <2>2, <3>2, <3>3, SelectionBegins
  <2> QED
    BY <1>8, <2>1, <2>2, PlanCases
<1> QED
  BY <1>1, <1>2, <1>3, <1>4, <1>5, <1>6, <1>7, <1>8 DEF Next, Finished, List, StartHoldOut, HoldOut,
     FailHoldOut, vars

-----------------------------------------------------------------------------
(* Selections. *)

\* One clip more in a group that has room for it.
LEMMA GroupGrows ==
    ASSUME Measured(pool), chosen \subseteq pool, NEW c \in pool, c \notin chosen
    PROVE  /\ \A g : g # Group(c) => InGroup(chosen \cup {c}, g) = InGroup(chosen, g)
           /\ Amount(InGroup(chosen \cup {c}, Group(c)))
                = Amount(InGroup(chosen, Group(c))) + Length(c)
           /\ Amount(InGroup(chosen, Group(c))) \in Nat /\ Length(c) \in Nat
<1>1. \A g : g # Group(c) => InGroup(chosen \cup {c}, g) = InGroup(chosen, g)
  BY DEF InGroup
<1>2. InGroup(chosen \cup {c}, Group(c)) = InGroup(chosen, Group(c)) \cup {c}
  BY DEF InGroup
<1>3. c \notin InGroup(chosen, Group(c)) /\ Measured(InGroup(chosen, Group(c)) \cup {c})
  BY DEF InGroup, Measured
<1>4. Measured(InGroup(chosen, Group(c)))
  BY <1>3 DEF Measured
<1> QED
  BY <1>1, <1>2, <1>3, <1>4, AmountAdd, AmountType DEF Measured

\* The amount of a group among fewer clips is not more.
LEMMA GroupMonotonic ==
    ASSUME Measured(pool), NEW clips \in SUBSET pool, NEW part \in SUBSET clips, NEW g
    PROVE  /\ Amount(InGroup(part, g)) <= Amount(InGroup(clips, g))
           /\ Amount(InGroup(part, g)) \in Nat /\ Amount(InGroup(clips, g)) \in Nat
<1>1. /\ Measured(InGroup(clips, g)) /\ Measured(InGroup(part, g))
      /\ InGroup(part, g) \in SUBSET InGroup(clips, g)
  BY DEF InGroup, Measured
<1> QED
  BY <1>1, AmountMonotonic, AmountType

\* A cap is a number.
LEMMA CapType ==
    ASSUME TypeOK, Draws, Selecting, HasCap(split)
    PROVE  Cap(split, cat) \in Nat /\ split = "eval" /\ cat \in Categories
<1>1. split = "eval" /\ cat \in Categories
  BY DEF HasCap, Draws, InTurn
<1> QED
  BY <1>1, QuotaFacts DEF TypeOK

\* Choosing a clip whose group has room keeps the groups within their caps.
LEMMA CapsKept ==
    ASSUME TypeOK, Draws, GroupsCapped, Selecting, UNCHANGED <<cfg, cat, split>>,
           NEW c \in pool, \/ chosen' = chosen
                           \/ chosen' = chosen \cup {c} /\ ~Capped(c)
    PROVE  GroupsCapped'
<1>1. /\ \A d : Group(d)' = Group(d)
      /\ Cap(split, cat)' = Cap(split, cat)
      /\ HasCap(split)' = HasCap(split)
      /\ \A clips, g : InGroup(clips, g)' = InGroup(clips, g)
  BY DEF Group, Cap, Quota, HasCap, InGroup
<1>2. CASE chosen' = chosen
  BY <1>1, <1>2 DEF GroupsCapped
<1>3. CASE chosen' = chosen \cup {c} /\ ~Capped(c) /\ c \notin chosen
  <2>1. SUFFICES ASSUME HasCap(split), NEW d \in chosen'
                 PROVE  Amount(InGroup(chosen', Group(d))) <= Cap(split, cat)
    BY <1>1 DEF GroupsCapped
  <2>2. Measured(pool) /\ chosen \subseteq pool
    BY PoolMeasured DEF TypeOK
  <2>3. CASE Group(d) = Group(c)
    <3>1. ~(Amount(InGroup(chosen, Group(c))) + Length(c) > Cap(split, cat))
      BY <1>3, <2>1 DEF Capped
    <3>2. /\ Amount(InGroup(chosen', Group(c))) = Amount(InGroup(chosen, Group(c))) + Length(c)
          /\ Amount(InGroup(chosen, Group(c))) \in Nat /\ Length(c) \in Nat
      BY <1>3, <2>2, GroupGrows
    <3>3. Cap(split, cat) \in Nat
      BY <2>1, CapType
    <3> QED
      BY <2>3, <3>1, <3>2, <3>3
  <2>4. CASE Group(d) # Group(c)
    <3>1. d \in chosen /\ InGroup(chosen', Group(d)) = InGroup(chosen, Group(d))
      BY <1>3, <2>2, <2>4, GroupGrows
    <3> QED
      BY <2>1, <3>1 DEF GroupsCapped
  <2> QED
    BY <2>3, <2>4
<1>4. CASE chosen' = chosen \cup {c} /\ c \in chosen
  BY <1>2, <1>4
<1> QED
  BY <1>2, <1>3, <1>4

\* A clip whose group has no room will not find any later.
LEMMA CappedStays ==
    ASSUME TypeOK, Draws, Selecting, UNCHANGED <<cfg, cat, split>>,
           chosen \subseteq chosen', chosen' \subseteq pool, NEW c \in pool, Capped(c)
    PROVE  Capped(c)'
<1>1. /\ Group(c)' = Group(c)
      /\ Cap(split, cat)' = Cap(split, cat)
      /\ HasCap(split)' = HasCap(split)
      /\ InGroup(chosen, Group(c))' = InGroup(chosen', Group(c))
  BY DEF Group, Cap, Quota, HasCap, InGroup
<1>2. HasCap(split) /\ Amount(InGroup(chosen, Group(c))) + Length(c) > Cap(split, cat)
  BY DEF Capped
<1>3. Measured(pool) /\ Length(c) \in Nat
  BY PoolMeasured DEF Measured
<1>4. /\ Amount(InGroup(chosen, Group(c))) <= Amount(InGroup(chosen', Group(c)))
      /\ Amount(InGroup(chosen, Group(c))) \in Nat /\ Amount(InGroup(chosen', Group(c))) \in Nat
  BY <1>3, GroupMonotonic
<1>5. Cap(split, cat) \in Nat
  BY <1>2, CapType
<1>6. Amount(InGroup(chosen', Group(c))) + Length(c) > Cap(split, cat)
  BY <1>2, <1>3, <1>4, <1>5
<1> QED
  BY <1>1, <1>2, <1>6 DEF Capped

\* A step keeps the selection in work orderly.
LEMMA StartedStep == TypeOK /\ Draws /\ Started /\ [Next]_vars => Started'
<1> SUFFICES ASSUME TypeOK, Draws, Started, [Next]_vars PROVE Started'
  OBVIOUS
<1>1. CASE TakeBothSources \/ EndHoldOut
  BY <1>1 DEF TakeBothSources, EndHoldOut, Select, NothingChosen, Started
<1>2. CASE Shuffle
  BY <1>2 DEF Shuffle, Started
<1>3. CASE Fill \/ NextBucket \/ TopUp
  <2>1. phase' \in {"fill", "topup"} /\ order' = order /\ pool' = pool /\ order \in Orders(pool)
    BY <1>3 DEF Fill, NextBucket, TopUp, Started
  <2> QED
    BY <2>1 DEF Started, Orders
<1>4. CASE EndPlan
  <2>1. NothingChosen \/ phase' = "done"
    BY <1>4, PlanCases
  <2>2. phase' \in {"shuffle", "pools", "done"}
    BY <1>4, AfterPlan
  <2> QED
    BY <2>1, <2>2 DEF Started, NothingChosen
<1>5. CASE UNCHANGED vars
  BY <1>5 DEF Started, Orders, vars, selection
<1>6. CASE phase' \in {"pools", "hold", "failed"}
  BY <1>6 DEF Started
<1> QED
  BY <1>1, <1>2, <1>3, <1>4, <1>5, <1>6 DEF Next, Finished, List, StartHoldOut, HoldOut, FailHoldOut

\* A step keeps the groups of an eval selection within their caps.
LEMMA CappedStep == TypeOK /\ Draws /\ Started /\ GroupsCapped /\ [Next]_vars => GroupsCapped'
<1> SUFFICES ASSUME TypeOK, Draws, Started, GroupsCapped, [Next]_vars PROVE GroupsCapped'
  OBVIOUS
<1>1. CASE TakeBothSources \/ EndHoldOut
  BY <1>1 DEF TakeBothSources, EndHoldOut, Select, NothingChosen, GroupsCapped
<1>2. CASE UNCHANGED <<cfg, cat, split, chosen>> /\ Selecting
  BY <1>2 DEF GroupsCapped, HasCap, Cap, Quota, InGroup, Group
<1>3. CASE Fill
  <2>1. order[at] \in pool
    BY <1>3, OrderFacts, TypeHalves DEF Fill, Started, SelectionTyped
  <2>2. \/ chosen' = chosen
        \/ chosen' = chosen \cup {order[at]} /\ ~Capped(order[at])
    BY <1>3 DEF Fill
  <2> QED
    BY <1>3, <2>1, <2>2, CapsKept DEF Fill, Selecting
<1>4. CASE TopUp
  <2>1. order[at] \in pool
    BY <1>4, OrderFacts, TypeHalves DEF TopUp, Started, SelectionTyped
  <2>2. \/ chosen' = chosen
        \/ chosen' = chosen \cup {order[at]} /\ ~Capped(order[at])
    <3>1. chosen' = chosen \cup {c \in {order[at]} : FitsTopUp(c)}
      BY <1>4 DEF TopUp
    <3>2. CASE FitsTopUp(order[at])
      BY <3>1, <3>2 DEF FitsTopUp
    <3>3. CASE ~FitsTopUp(order[at])
      BY <3>1, <3>3
    <3> QED
      BY <3>2, <3>3
  <2> QED
    BY <1>4, <2>1, <2>2, CapsKept DEF TopUp, Selecting
<1>5. CASE EndPlan
  <2>1. NothingChosen \/ phase' = "done"
    BY <1>5, PlanCases
  <2> QED
    BY <2>1 DEF GroupsCapped, NothingChosen, Selecting
<1>6. CASE UNCHANGED vars
  BY <1>6 DEF GroupsCapped, HasCap, Cap, Quota, InGroup, Group, vars, selection, Selecting
<1>7. CASE phase' \in {"pools", "hold", "failed"}
  BY <1>7 DEF GroupsCapped, Selecting
<1> QED
  BY <1>1, <1>2, <1>3, <1>4, <1>5, <1>6, <1>7 DEF Next, Finished, List, StartHoldOut, HoldOut,
     FailHoldOut, Shuffle, NextBucket, Selecting

\* A step keeps account of what the top-up has passed over.
LEMMA PassedStep == TypeOK /\ Draws /\ Started /\ PassedOver /\ [Next]_vars => PassedOver'
<1> SUFFICES ASSUME TypeOK, Draws, Started, PassedOver, [Next]_vars, phase' = "topup"
             PROVE  PassedOver'
  BY DEF PassedOver
<1>t. SelectionTyped
  BY TypeHalves
<1>1. CASE NextBucket
  <2>1. order \in Orders(pool) /\ order' = order /\ at' = 1
    BY <1>1 DEF NextBucket, Started
  <2>2. \A i \in DOMAIN order : ~(i < 1)
    BY <1>t, <2>1, OrderFacts
  <2> QED
    BY <2>1, <2>2 DEF PassedOver
<1>2. CASE TopUp
  <2>1. order \in Orders(pool) /\ order' = order /\ at' = at + 1 /\ at \in DOMAIN order /\ at \in Nat
    BY <1>2, <1>t, OrderFacts DEF TopUp, Started, SelectionTyped
  <2>2. chosen' = chosen \cup {c \in {order[at]} : FitsTopUp(c)}
    BY <1>2 DEF TopUp
  <2>3. /\ DOMAIN order = 1..Len(order) /\ Len(order) \in Nat
        /\ \A i \in DOMAIN order : order[i] \in pool
    BY <1>t, <2>1, OrderFacts
  <2>4. /\ chosen \subseteq chosen' /\ chosen' \subseteq pool /\ taken \subseteq chosen
        /\ chosen \subseteq pool
    BY <1>t, <2>1, <2>2, <2>3 DEF SelectionTyped
  <2>5. Selecting /\ phase = "topup" /\ UNCHANGED <<cfg, cat, split>>
    BY <1>2 DEF TopUp, Selecting
  <2>6. ASSUME NEW i \in DOMAIN order, i < at + 1
        PROVE  order[i] \in chosen' \/ Capped(order[i])'
    <3>1. order[i] \in chosen \/ Capped(order[i]) \/ order[i] \in chosen'
      <4>1. CASE i < at
        BY <2>5, <2>6, <4>1 DEF PassedOver
      <4>2. CASE i = at
        BY <2>2, <2>4, <4>2 DEF FitsTopUp
      <4> QED
        BY <2>1, <2>3, <2>6, <4>1, <4>2
    <3>2. CASE Capped(order[i])
      BY <2>3, <2>4, <2>5, <3>2, CappedStays, <2>1 DEF Capped, Group, InGroup, HasCap, Cap, Quota
    <3> QED
      BY <2>4, <3>1, <3>2
  <2> QED
    BY <2>1, <2>6 DEF PassedOver
<1>3. CASE UNCHANGED vars
  BY <1>3 DEF PassedOver, vars, selection, Capped, HasCap, Cap, Quota, InGroup, Group
<1>4. phase' # "topup" \/ NextBucket \/ TopUp \/ UNCHANGED vars
  <2>1. CASE EndPlan
    BY <2>1, AfterPlan
  <2>2. CASE TakeBothSources \/ EndHoldOut
    BY <2>2 DEF TakeBothSources, EndHoldOut, Select
  <2>3. CASE Fill
    BY <2>3 DEF Fill
  <2> QED
    BY <2>1, <2>2, <2>3 DEF Next, Finished, List, StartHoldOut, HoldOut, FailHoldOut, Shuffle
<1> QED
  BY <1>1, <1>2, <1>3, <1>4

\* A plan that was made keeps what it was, and a step within the planning makes none.
LEMMA PlansKept ==
    ASSUME UNCHANGED <<cfg, plans>>
    PROVE  /\ NothingLeftOver => NothingLeftOver'
           /\ NobodyDominates => NobodyDominates'
           /\ LessThanAClipOver => LessThanAClipOver'
BY DEF NothingLeftOver, NobodyDominates, LessThanAClipOver, Target, Cap, Quota, HasCap, InGroup,
   Group

\* Only the end of a plan makes one.
LEMMA PlansOnlyAtEnd == [Next]_vars => EndPlan \/ UNCHANGED <<cfg, plans>>
BY DEF Next, vars, List, TakeBothSources, StartHoldOut, HoldOut, EndHoldOut, FailHoldOut, Shuffle,
   Fill, NextBucket, TopUp, Finished

\* A finished selection that falls short of its target left nothing it might have taken.
LEMMA NothingLeftStep ==
    TypeOK /\ Draws /\ Started /\ PassedOver /\ NothingLeftOver /\ [Next]_vars => NothingLeftOver'
<1> SUFFICES ASSUME TypeOK, Draws, Started, PassedOver, NothingLeftOver, EndPlan
             PROVE  NothingLeftOver'
  BY PlansKept, PlansOnlyAtEnd
<1>g. /\ \A s, i : Target(s, i)' = Target(s, i) /\ Cap(s, i)' = Cap(s, i)
      /\ \A c : Group(c)' = Group(c)
      /\ \A clips, g : InGroup(clips, g)' = InGroup(clips, g)
  BY AfterPlan DEF Target, Cap, Quota, Group, InGroup
<1>m. /\ Made.split = split /\ Made.cat = cat /\ Made.clips = chosen /\ Made.pool = pool
      /\ plans' = plans \cup {Made}
  BY AfterPlan DEF Made
<1>1. ASSUME Amount(chosen) < Target(split, cat), NEW c \in pool \ chosen
      PROVE  /\ HasCap(split)
             /\ Amount(InGroup(chosen, Group(c))) + Length(c) > Cap(split, cat)
  <2>1. phase = "topup" /\ (Full \/ at > Len(order))
    BY DEF EndPlan
  <2>2. SelectionTyped /\ order \in Orders(pool)
    BY <2>1, TypeHalves DEF Started
  <2>3. Amount(chosen) \in Nat /\ Target(split, cat) \in Nat
    <3>1. Measured(chosen)
      BY <2>1, <2>2, PoolMeasured DEF Selecting, Measured, SelectionTyped
    <3>2. cfg \in Configs /\ (cat \in Categories \/ split = "control")
      BY <2>1, AfterPlan DEF TypeOK
    <3> QED
      BY <3>1, <3>2, AfterPlan, AmountType, QuotaFacts
  <2>4. ~Full
    BY <1>1, <2>3 DEF Full
  <2>5. PICK i \in DOMAIN order : order[i] = c
    BY <2>2, OrderFacts
  <2>6. i < at
    BY <2>1, <2>2, <2>4, <2>5, OrderFacts DEF SelectionTyped
  <2>7. Capped(c)
    BY <1>1, <2>1, <2>5, <2>6 DEF PassedOver
  <2> QED
    BY <2>7 DEF Capped
<1> QED
  BY <1>g, <1>m, <1>1 DEF NothingLeftOver, HasCap

\* The voices of finitely many clips are finitely many.
LEMMA VoicesFinite ==
    ASSUME NEW clips, IsFiniteSet(clips)
    PROVE  IsFiniteSet(Voices(clips))
<1> DEFINE heard == {c \in clips : HasVoice(c)}
<1> DEFINE f == [c \in heard |-> Origin(c)]
<1>1. f \in Surjection(heard, Voices(clips))
  BY DEF Surjection, Voices
<1>2. IsFiniteSet(heard)
  BY FS_Subset
<1> QED
  BY <1>1, <1>2, FS_Surjection

\* If no voice has more than a bound, all of them together have at most its multiple.
LEMMA AmountByVoice ==
    ASSUME NEW clips, Measured(clips), NEW bound \in Nat, \A c \in clips : HasVoice(c),
           \A v \in Voices(clips) : Amount({c \in clips : Origin(c) = v}) <= bound
    PROVE  Amount(clips) <= Cardinality(Voices(clips)) * bound
<1> DEFINE K == Voices(clips)
<1> DEFINE key == [c \in clips |-> Origin(c)]
<1>1. /\ Amount(clips) = SumFunctionOnSet(Lengths, clips)
      /\ IsFiniteSet(clips) /\ NatValued(Lengths, clips)
  BY AmountIsSum
<1>2. IsFiniteSet(K)
  BY <1>1, VoicesFinite
<1>3. \A k \in K : SumFunctionOnSet(Lengths, {c \in clips : key[c] = k}) <= bound
  <2> TAKE k \in K
  <2>1. {c \in clips : key[c] = k} = {c \in clips : Origin(c) = k}
    OBVIOUS
  <2>2. Measured({c \in clips : Origin(c) = k})
    BY DEF Measured
  <2>3. Amount({c \in clips : Origin(c) = k})
          = SumFunctionOnSet(Lengths, {c \in clips : Origin(c) = k})
    BY <2>2, AmountIsSum
  <2> QED
    BY <2>1, <2>3
<1>4. {c \in clips : key[c] \in K} = clips
  BY DEF Voices
<1>5. SumFunctionOnSet(Lengths, {c \in clips : key[c] \in K}) <= Cardinality(K) * bound
  <2> HIDE DEF K, key
  <2> QED BY <1>1, <1>2, <1>3, SumByClass
<1> QED
  BY <1>1, <1>4, <1>5

\* A finished eval selection has no voice with more than a share, and so enough if it is full.
LEMMA NobodyStep ==
    TypeOK /\ Draws /\ GroupsCapped /\ NobodyDominates /\ [Next]_vars => NobodyDominates'
<1> SUFFICES ASSUME TypeOK, Draws, GroupsCapped, NobodyDominates, EndPlan
             PROVE  NobodyDominates'
  BY PlansKept, PlansOnlyAtEnd
<1>g. \A s, i : Target(s, i)' = Target(s, i) /\ Cap(s, i)' = Cap(s, i)
  BY AfterPlan DEF Target, Cap, Quota
<1>m. /\ Made.split = split /\ Made.cat = cat /\ Made.clips = chosen
      /\ plans' = plans \cup {Made}
  BY AfterPlan DEF Made
<1>1. ASSUME split = "eval"
      PROVE  /\ \A v \in Voices(chosen) :
                    Amount({c \in chosen : Origin(c) = v}) <= Cap("eval", cat)
             /\ (\A c \in chosen : HasVoice(c)) /\ Amount(chosen) >= Target("eval", cat) =>
                    Cardinality(Voices(chosen)) * GroupShare >= Whole
  <2>1. cfg \in Configs /\ cat \in Categories /\ chosen \subseteq pool /\ Selecting
    BY <1>1, AfterPlan DEF TypeOK
  <2>2. Category.eval \in DOMAIN Kind /\ chosen \subseteq Good(Category.eval)
    BY <1>1, <2>1, ConfigFacts DEF Category, Draws, PoolsApart, PoolOfSplit
  <2>3. Measured(chosen) /\ IsFiniteSet(chosen)
    BY <2>1, <2>2, GoodMeasured, AmountIsSum
  <2>4. ASSUME NEW v \in Voices(chosen)
        PROVE  Amount({c \in chosen : Origin(c) = v}) <= Cap("eval", cat)
    <3>1. PICK d \in chosen : v = Origin(d)
      BY DEF Voices
    <3>2. {c \in chosen : Origin(c) = v} = InGroup(chosen, Group(d))
      BY <2>1, <2>2, <3>1, OriginIsGroup DEF InGroup
    <3> QED
      BY <1>1, <2>1, <3>1, <3>2 DEF GroupsCapped, HasCap
  <2>5. Cap("eval", cat) \in Nat
    BY <2>1, QuotaFacts
  <2>6. ASSUME \A c \in chosen : HasVoice(c)
        PROVE  Amount(chosen) <= Cardinality(Voices(chosen)) * Cap("eval", cat)
    BY <2>6, <2>3, <2>4, <2>5, AmountByVoice
  <2>7. /\ Quota("eval", cat) \in Nat \ {0} /\ Whole \in Nat /\ GroupShare \in Nat
        /\ Cardinality(Voices(chosen)) \in Nat /\ Amount(chosen) \in Nat
    BY <2>1, <2>3, QuotaFacts, VoicesFinite, FS_CardinalityType, AmountType
  <2>8. ASSUME \A c \in chosen : HasVoice(c), Amount(chosen) >= Target("eval", cat)
        PROVE  Cardinality(Voices(chosen)) * GroupShare >= Whole
    <3>1. \A n, g, q, w, a \in Nat : q # 0 /\ a <= n * (g * q) /\ a >= w * q => n * g >= w
      <4> SUFFICES ASSUME NEW n \in Nat, NEW g \in Nat, NEW q \in Nat, NEW w \in Nat,
                          q # 0, w * q <= (n * g) * q, ~(n * g >= w)
                   PROVE  FALSE
        OBVIOUS
      <4> DEFINE m == n * g
      <4>1. m \in Nat /\ w >= m + 1
        OBVIOUS
      <4> HIDE DEF m
      <4>2. w * q >= (m + 1) * q
        BY <4>1
      <4>3. (m + 1) * q = m * q + q
        BY <4>1
      <4> QED
        BY <4>1, <4>2, <4>3 DEF m
    <3> QED
      BY <2>6, <2>7, <2>8, <3>1 DEF Target, Cap
  <2> QED
    BY <2>4, <2>8
<1> QED
  BY <1>g, <1>m, <1>1 DEF NobodyDominates

-----------------------------------------------------------------------------
(* The invariant, and what follows from it. *)

\* Nothing is drawn or chosen when the planning begins.
LEMMA InitIInv == Init => IInv
<1> SUFFICES ASSUME Init PROVE IInv
  OBVIOUS
<1>1. cfg \in Configs /\ phase = "list" /\ cat = 1 /\ plans = {} /\ ~Selecting
  BY DEF Init, Selecting
<1>2. Len(cfg.categories) \in Nat \ {0} /\ Categories = 1..Len(cfg.categories)
  BY <1>1, ConfigFacts
<1>3. cat \in Categories
  BY <1>1, <1>2
<1>4. PlanTyped
  BY <1>1, <1>2 DEF Init, PlanTyped, NoSplit
<1>5. SelectionTyped
  <2>1. bucket = 1 /\ got = 0 /\ at = 1 /\ pool = {} /\ chosen = {} /\ taken = {}
    BY DEF Init
  <2>2. overlap \in BOOLEAN
    BY Zenon DEF Init
  <2> QED
    BY <2>1, <2>2, BucketFacts DEF SelectionTyped
<1>6. Draws
  BY <1>1, <1>3 DEF Draws, UsableAreGood, InTurn, PoolsApart, PoolOfSplit, InOrder, PlansDrawn,
     OneTrain, ApartWithin, DevHonest, Init
<1>7. Selects
  BY <1>1 DEF Selects, Started, GroupsCapped, PassedOver, NothingLeftOver, NobodyDominates
<1> QED
  BY <1>4, <1>5, <1>6, <1>7, TypeHalves DEF IInv

\* Every step keeps the invariant.
LEMMA StepIInv == IInv /\ [Next]_vars => IInv'
<1> SUFFICES ASSUME IInv, [Next]_vars PROVE IInv'
  OBVIOUS
<1>1. TypeOK /\ Draws /\ Started /\ GroupsCapped /\ PassedOver /\ NothingLeftOver /\ NobodyDominates
  BY DEF IInv, Selects
<1>2. PlanTyped' /\ SelectionTyped'
  BY <1>1, PlanTypeStep, SelectionTypeStep
<1>3. TypeOK'
  BY <1>2 DEF TypeOK, PlanTyped, SelectionTyped
<1>4. Draws'
  BY <1>1, DrawsStep
<1>5. Started' /\ GroupsCapped' /\ PassedOver' /\ NothingLeftOver' /\ NobodyDominates'
  BY <1>1, StartedStep, CappedStep, PassedStep, NothingLeftStep, NobodyStep
<1> QED
  BY <1>3, <1>4, <1>5 DEF IInv, Selects

\* The planning keeps the invariant, in whatever order clips and groups come.
THEOREM Invariance == Spec => []IInv
<1>1. Init => IInv
  BY InitIInv
<1>2. IInv /\ [Next]_vars => IInv'
  BY StepIInv
<1> QED
  BY <1>1, <1>2, PTL DEF Spec

\* A split is chosen from its pool, and a pool from the clips that were listed (plan_dataset).
THEOREM TypeCorrect == Spec => []TypeOK
<1>1. IInv => TypeOK
  BY DEF IInv
<1> QED
  BY <1>1, Invariance, PTL

\* A dev set has no clip of train and, unless it admits it, no speaker, no video and no FLEURS
\* sentence of train; who reads a sentence is not claimed (dev_pool).
THEOREM DevIsHonest == Spec => []DevHonest
<1>1. IInv => DevHonest
  BY DEF IInv, Draws
<1> QED
  BY <1>1, Invariance, PTL

\* A plan that falls short of its target left nothing it was allowed to take: the top-up
\* passes over a clip only for a cap that stays exhausted (select_by_minutes).
THEOREM TopUpIsThorough == Spec => []NothingLeftOver
<1>1. IInv => NothingLeftOver
  BY DEF IInv, Selects
<1> QED
  BY <1>1, Invariance, PTL

\* No speaker or video supplies more of an eval set than the cap, so a full one has many of
\* them; nothing is said of those who read for FLEURS (select_by_minutes).
THEOREM CapHolds == Spec => []NobodyDominates
<1>1. IInv => NobodyDominates
  BY DEF IInv, Selects
<1> QED
  BY <1>1, Invariance, PTL

\* Clips of different sources have different origins.
LEMMA SourcesApart ==
    ASSUME cfg \in Configs, NEW s \in DOMAIN Kind, NEW r \in DOMAIN Kind, s # r,
           NEW A \in SUBSET Good(s), NEW B \in SUBSET Good(r)
    PROVE  ClipsApart(A, B)
<1>1. \A a \in A, b \in B : Origin(a) # Origin(b)
  BY GoodFacts
<1> QED
  BY <1>1, OriginsApart

\* No speaker or video of train or dev is heard in eval or control, and no sentence of one
\* FLEURS source is in both: within a category the pools are apart, and across categories,
\* and for the control set, the sources are (split_groups).
THEOREM SplitsApart == Spec => []HeldOutApart
<1>1. IInv => HeldOutApart
  <2> SUFFICES ASSUME IInv, SharesNoSource(cfg), NEW p \in plans, NEW q \in plans,
                      p.split \in {"train", "dev"}, q.split \in {"eval", "control"}
               PROVE  ClipsApart(p.clips, q.clips)
    BY DEF HeldOutApart, ClipsApart
  <2>1. cfg \in Configs
    BY DEF IInv, TypeOK
  <2>2. /\ p.clips \subseteq Good(SourceFor(p.split, p.cat))
        /\ q.clips \subseteq Good(SourceFor(q.split, q.cat))
        /\ p.cat \in Categories /\ (q.split = "control" <=> q.cat \notin Categories)
    BY DEF IInv, Draws, PlansDrawn
  <2>3. SourceFor(p.split, p.cat) = cfg.categories[p.cat].train
    BY DEF SourceFor
  <2>4. SourceFor(p.split, p.cat) \in DOMAIN Kind /\ SourceFor(q.split, q.cat) \in DOMAIN Kind
    BY <2>1, <2>2, ConfigFacts DEF SourceFor
  <2>5. CASE p.cat = q.cat
    BY <2>2, <2>5 DEF IInv, Draws, ApartWithin
  <2>6. CASE p.cat # q.cat /\ q.split = "eval"
    <3>1. SourceFor(q.split, q.cat) = cfg.categories[q.cat].eval /\ q.cat \in Categories
      BY <2>2, <2>6 DEF SourceFor
    <3>2. SourceFor(p.split, p.cat) # SourceFor(q.split, q.cat)
      BY <2>2, <2>3, <2>6, <3>1 DEF SharesNoSource, CategorySources, Categories
    <3> QED
      BY <2>1, <2>2, <2>4, <3>2, SourcesApart
  <2>7. CASE q.split = "control"
    <3>1. SourceFor(p.split, p.cat) # SourceFor(q.split, q.cat)
      BY <2>1, <2>2, <2>3, <2>7, ConfigFacts DEF SourceFor
    <3> QED
      BY <2>1, <2>2, <2>4, <3>1, SourcesApart
  <2> QED
    BY <2>5, <2>6, <2>7
<1> QED
  BY <1>1, Invariance, PTL

-----------------------------------------------------------------------------
(* How far a plan passes its target. *)

NoNegativeShare == \A b \in DOMAIN Share : Share[b] \in Nat

\* What the shares of the first buckets come to.
LEMMA ShareFacts ==
    ASSUME NoNegativeShare
    PROVE  /\ SumFunctionOnSet(Share, 1..0) = 0
           /\ \A b \in DOMAIN Buckets :
                 /\ Share[b] \in Nat /\ SumFunctionOnSet(Share, 1..b - 1) \in Nat
                 /\ SumFunctionOnSet(Share, 1..b)
                      = SumFunctionOnSet(Share, 1..b - 1) + Share[b]
           /\ SumFunctionOnSet(Share, 1..Len(Buckets)) = Whole
<1>1. DOMAIN Share = DOMAIN Buckets /\ SumFunction(Share) = Whole
  BY SplitAssumption
<1>2. Len(Buckets) \in Nat \ {0} /\ DOMAIN Buckets = 1..Len(Buckets)
  BY BucketFacts
<1>3. SumFunctionOnSet(Share, 1..Len(Buckets)) = Whole
  BY <1>1, <1>2 DEF SumFunction
<1>4. SumFunctionOnSet(Share, 1..0) = 0
  <2>1. 1..0 = {}
    OBVIOUS
  <2> QED
    BY <2>1, SumEmpty
<1>5. ASSUME NEW b \in DOMAIN Buckets
      PROVE  /\ Share[b] \in Nat /\ SumFunctionOnSet(Share, 1..b - 1) \in Nat
             /\ SumFunctionOnSet(Share, 1..b) = SumFunctionOnSet(Share, 1..b - 1) + Share[b]
  <2>1. PICK S : S = 1..b - 1
    OBVIOUS
  <2>2. /\ b \in Nat /\ b \notin S /\ S \cup {b} = 1..b /\ S \subseteq DOMAIN Buckets
        /\ S \cup {b} \subseteq DOMAIN Buckets
    BY <1>2, <2>1
  <2>3. IsFiniteSet(S)
    BY <1>2, <2>1, FS_Interval
  <2>4. NatValued(Share, S) /\ NatValued(Share, S \cup {b}) /\ Share[b] \in Nat
    BY <1>1, <2>2 DEF NatValued, NoNegativeShare
  <2>5. SumFunctionOnSet(Share, S) \in Nat
    BY <2>3, <2>4, SumType
  <2>6. SumFunctionOnSet(Share, S \cup {b}) = SumFunctionOnSet(Share, S) + Share[b]
    BY <2>2, <2>3, <2>4, SumAdd
  <2> QED
    BY <2>1, <2>2, <2>4, <2>5, <2>6
<1> QED
  BY <1>3, <1>4, <1>5

\* The quota of the split in work is a number.
LEMMA QuotaType == TypeOK /\ Draws /\ Selecting => Quota(split, cat) \in Nat
<1> SUFFICES ASSUME TypeOK, Draws, Selecting PROVE Quota(split, cat) \in Nat
  OBVIOUS
<1>1. cfg \in Configs /\ split \in {"train", "eval", "dev", "control"}
  BY DEF TypeOK, Draws, InTurn
<1>2. split = "control" \/ cat \in Categories
  BY DEF Draws, InTurn
<1> QED
  BY <1>1, <1>2, QuotaFacts

\* And so it is after a step.
LEMMA QuotaTypeNext == (TypeOK /\ Draws /\ Selecting => Quota(split, cat) \in Nat)'
BY QuotaType, PTL

\* What was chosen amounts to a number, and one clip more adds at most its length.
LEMMA ChosenGrows ==
    ASSUME TypeOK, Draws, Selecting, NEW c \in pool
    PROVE  /\ Amount(chosen) \in Nat /\ Length(c) \in Nat /\ Amount(chosen \cup {c}) \in Nat
           /\ Amount(chosen \cup {c}) <= Amount(chosen) + Length(c)
<1>1. Measured(pool) /\ chosen \subseteq pool
  BY PoolMeasured DEF TypeOK
<1>2. Measured(chosen) /\ Measured(chosen \cup {c}) /\ Length(c) \in Nat
  BY <1>1 DEF Measured
<1>3. Amount(chosen) \in Nat /\ Amount(chosen \cup {c}) \in Nat
  BY <1>2, AmountType
<1>4. CASE c \in chosen
  <2>1. chosen \cup {c} = chosen
    BY <1>4
  <2>2. Amount(chosen \cup {c}) = Amount(chosen)
    BY <2>1
  <2> QED
    BY <1>2, <1>3, <2>2
<1>5. CASE c \notin chosen
  BY <1>2, <1>3, <1>5, AmountAdd
<1> QED
  BY <1>2, <1>3, <1>4, <1>5

\* A selection that begins is within every share.
LEMMA FilledBegins ==
    ASSUME NoNegativeShare, NothingChosen, Selecting' => Quota(split, cat)' \in Nat,
           phase' # "topup"
    PROVE  BucketsFilled'
<1>1. chosen' = {} /\ got' = 0 /\ bucket' = 1
  BY DEF NothingChosen
<1>2. SumFunctionOnSet(Share, 1..1 - 1) = 0 /\ Share[1] \in Nat /\ Amount({}) = 0
  BY ShareFacts, BucketFacts, AmountType
<1>3. \A q \in Nat, n \in Nat : 0 <= n * q /\ 0 <= 0 * q + 0
  OBVIOUS
<1>4. Selecting' => 0 <= Share[1] * Quota(split, cat)' /\ 0 <= 0 * Quota(split, cat)' + 0
  BY <1>2, <1>3
<1>5. phase' \in {"shuffle", "fill"} => Selecting'
  BY DEF Selecting
<1>6. phase' \in {"shuffle", "fill"} =>
        /\ got' <= Share[bucket'] * Quota(split, cat)'
        /\ Amount(chosen') <= SumFunctionOnSet(Share, 1..bucket' - 1) * Quota(split, cat)' + got'
  BY <1>1, <1>2, <1>4, <1>5
<1> QED
  BY <1>6 DEF BucketsFilled

\* A clip is put in a bucket only if it has room for it.
LEMMA FilledFill ==
    ASSUME NoNegativeShare, TypeOK, Draws, Started, BucketsFilled, Fill
    PROVE  BucketsFilled'
<1>1. order[at] \in pool /\ Selecting
  BY OrderFacts, TypeHalves DEF Fill, Started, SelectionTyped, Selecting
<1>2. /\ UNCHANGED <<cfg, bucket, split, cat>> /\ phase = "fill" /\ phase' = "fill"
      /\ \/ UNCHANGED <<chosen, got>>
         \/ /\ chosen' = chosen \cup {order[at]} /\ got' = got + Length(order[at])
            /\ Length(order[at]) <= Share[bucket] * Quota(split, cat) - got
  BY DEF Fill, Room
<1>3. Quota(split, cat)' = Quota(split, cat) /\ Quota(split, cat) \in Nat
  BY <1>1, <1>2, QuotaType DEF Quota
<1>4. PICK n \in Nat, m \in Nat : /\ n = Share[bucket] * Quota(split, cat)
                                  /\ m = SumFunctionOnSet(Share, 1..bucket - 1) * Quota(split, cat)
  <2>1. Share[bucket] \in Nat /\ SumFunctionOnSet(Share, 1..bucket - 1) \in Nat
    BY ShareFacts DEF TypeOK
  <2>2. \A a, b \in Nat : a * b \in Nat
    OBVIOUS
  <2> QED
    BY <1>3, <2>1, <2>2
<1>5. got \in Nat /\ got <= n /\ Amount(chosen) <= m + got
  BY <1>2, <1>4 DEF BucketsFilled, TypeOK
<1>6. got' <= n /\ Amount(chosen') <= m + got'
  <2>1. CASE UNCHANGED <<chosen, got>>
    BY <1>5, <2>1
  <2>2. CASE /\ chosen' = chosen \cup {order[at]} /\ got' = got + Length(order[at])
             /\ Length(order[at]) <= n - got
    <3>1. /\ Amount(chosen) \in Nat /\ Length(order[at]) \in Nat /\ Amount(chosen') \in Nat
          /\ Amount(chosen') <= Amount(chosen) + Length(order[at])
      BY <1>1, <2>2, ChosenGrows
    <3>2. got' = got + Length(order[at]) /\ Length(order[at]) <= n - got
      BY <2>2
    <3> QED
      BY <1>5, <3>1, <3>2
  <2> QED
    BY <1>2, <1>4, <2>1, <2>2
<1> QED
  BY <1>2, <1>3, <1>4, <1>6 DEF BucketsFilled

\* When a bucket is done, what was chosen is within the shares up to its own.
LEMMA FilledNext ==
    ASSUME NoNegativeShare, TypeOK, Draws, BucketsFilled, NextBucket
    PROVE  BucketsFilled'
<1>1. /\ Selecting /\ phase = "fill" /\ UNCHANGED <<cfg, split, cat, chosen>> /\ got' = 0
      /\ \/ bucket < Len(Buckets) /\ bucket' = bucket + 1 /\ phase' = "fill"
         \/ ~(bucket < Len(Buckets)) /\ bucket' = bucket /\ phase' = "topup"
  BY DEF NextBucket, Selecting
<1>2. Quota(split, cat)' = Quota(split, cat)
  BY <1>1 DEF Quota
<1>q. Quota(split, cat) \in Nat
  BY <1>1, QuotaType
<1>3. bucket \in 1..Len(Buckets) /\ Len(Buckets) \in Nat
  BY BucketFacts DEF TypeOK
<1>4. PICK s \in Nat, t \in Nat : /\ s = SumFunctionOnSet(Share, 1..bucket - 1) /\ t = Share[bucket]
                                  /\ SumFunctionOnSet(Share, 1..bucket) = s + t
  BY <1>3, ShareFacts, BucketFacts
<1>5. PICK q \in Nat : q = Quota(split, cat)
  BY <1>q
<1>6. got \in Nat /\ got <= t * q /\ Amount(chosen) <= s * q + got
  BY <1>1, <1>4, <1>5 DEF BucketsFilled, TypeOK
<1>7. Amount(chosen) \in Nat
  <2>1. Measured(pool) /\ chosen \subseteq pool
    BY <1>1, PoolMeasured DEF TypeOK
  <2> QED
    BY <2>1, AmountType DEF Measured
<1>8. Amount(chosen) <= (s + t) * q
  <2>1. (s + t) * q = s * q + t * q /\ s * q \in Nat /\ t * q \in Nat
    OBVIOUS
  <2>2. PICK m \in Nat, n \in Nat : m = s * q /\ n = t * q /\ (s + t) * q = m + n
    BY <2>1
  <2> QED
    BY <1>6, <1>7, <2>2
<1>9. CASE bucket' = bucket + 1 /\ phase' = "fill" /\ bucket < Len(Buckets)
  <2>1. bucket' - 1 = bucket /\ bucket' \in DOMAIN Buckets
    BY <1>3, <1>9, BucketFacts
  <2>2. Share[bucket'] \in Nat
    BY <2>1, ShareFacts
  <2>3. 0 <= Share[bucket'] * q
    BY <2>2
  <2>4. Amount(chosen) <= (s + t) * q + 0
    BY <1>7, <1>8
  <2> QED
    BY <1>1, <1>2, <1>4, <1>5, <1>9, <2>1, <2>3, <2>4 DEF BucketsFilled
<1>10. CASE ~(bucket < Len(Buckets)) /\ phase' = "topup"
  <2>1. bucket = Len(Buckets)
    BY <1>3, <1>10
  <2>2. s + t = Whole
    BY <1>4, <2>1, ShareFacts
  <2>3. Amount(chosen) <= Target(split, cat)
    BY <1>5, <1>8, <2>2 DEF Target
  <2>4. Target(split, cat)' = Target(split, cat)
    BY <1>2 DEF Target
  <2> QED
    BY <1>1, <1>10, <2>3, <2>4 DEF BucketsFilled
<1> QED
  BY <1>1, <1>9, <1>10

\* The top-up goes on only below the target, so it passes it with its last clip.
LEMMA FilledTopUp ==
    ASSUME TypeOK, Draws, Started, BucketsFilled, TopUp
    PROVE  BucketsFilled'
<1>1. /\ phase = "topup" /\ phase' = "topup" /\ UNCHANGED <<cfg, split, cat>> /\ Selecting
      /\ chosen' = chosen \cup {c \in {order[at]} : FitsTopUp(c)}
      /\ ~(Amount(chosen) >= Target(split, cat))
  BY DEF TopUp, Full, Selecting
<1>2. order[at] \in pool
  BY OrderFacts, TypeHalves DEF TopUp, Started, SelectionTyped
<1>3. Amount(chosen) \in Nat
  BY <1>1, <1>2, ChosenGrows
<1>4. Target(split, cat)' = Target(split, cat) /\ Target(split, cat) \in Nat
  <2>1. Quota(split, cat)' = Quota(split, cat) /\ Quota(split, cat) \in Nat
    BY <1>1, QuotaType DEF Quota
  <2>2. Whole \in Nat
    BY SplitAssumption
  <2> QED
    BY <2>1, <2>2 DEF Target
<1>5. Amount(chosen) < Target(split, cat)
  BY <1>1, <1>3, <1>4
<1>6. CASE chosen' = chosen
  BY <1>1, <1>3, <1>4, <1>5, <1>6 DEF BucketsFilled
<1>7. CASE chosen' = chosen \cup {order[at]} /\ order[at] \notin chosen
  <2>1. chosen' \ {order[at]} = chosen /\ order[at] \in chosen'
    BY <1>7
  <2>2. \E c \in chosen' : Amount(chosen' \ {c}) < Target(split, cat)
    BY <1>5, <2>1
  <2> QED
    BY <1>1, <1>4, <2>2 DEF BucketsFilled
<1> QED
  BY <1>1, <1>6, <1>7

\* Every step keeps the selection in work within its shares.
LEMMA FilledStep ==
    ASSUME NoNegativeShare
    PROVE  IInv /\ IInv' /\ BucketsFilled /\ [Next]_vars => BucketsFilled'
<1> SUFFICES ASSUME IInv, IInv', BucketsFilled, [Next]_vars PROVE BucketsFilled'
  OBVIOUS
<1>t. TypeOK /\ Draws /\ Started
  BY DEF IInv, Selects
<1>q. Selecting' => Quota(split, cat)' \in Nat
  BY QuotaTypeNext DEF IInv
<1>1. CASE TakeBothSources \/ EndHoldOut
  <2>1. NothingChosen /\ phase' = "shuffle"
    BY <1>1 DEF TakeBothSources, EndHoldOut, Select
  <2> QED
    BY <1>q, <2>1, FilledBegins
<1>2. CASE Shuffle
  BY <1>2 DEF Shuffle, BucketsFilled, Quota
<1>3. CASE Fill
  BY <1>t, <1>3, FilledFill
<1>4. CASE NextBucket
  BY <1>t, <1>4, FilledNext
<1>5. CASE TopUp
  BY <1>t, <1>5, FilledTopUp
<1>6. CASE EndPlan
  <2>1. (NothingChosen /\ phase' # "topup") \/ phase' = "done"
    BY <1>t, <1>6, PlanCases
  <2>2. CASE phase' = "done"
    BY <2>2 DEF BucketsFilled
  <2> QED
    BY <1>q, <2>1, <2>2, FilledBegins
<1>7. CASE UNCHANGED vars
  BY <1>7 DEF vars, selection, BucketsFilled, Quota, Target
<1>8. CASE phase' \in {"pools", "hold", "failed"}
  BY <1>8 DEF BucketsFilled
<1> QED
  BY <1>1, <1>2, <1>3, <1>4, <1>5, <1>6, <1>7, <1>8 DEF Next, Finished, List, StartHoldOut,
     HoldOut, FailHoldOut

\* A finished selection adds a plan that passes its target by less than a clip.
LEMMA LessThanAClipStep ==
    TypeOK /\ Draws /\ BucketsFilled /\ LessThanAClipOver /\ [Next]_vars => LessThanAClipOver'
<1> SUFFICES ASSUME TypeOK, Draws, BucketsFilled, LessThanAClipOver, EndPlan
             PROVE  LessThanAClipOver'
  BY PlansKept, PlansOnlyAtEnd
<1>1. \A s, i : Target(s, i)' = Target(s, i)
  BY AfterPlan DEF Target, Quota
<1>2. /\ Made.split = split /\ Made.cat = cat /\ Made.clips = chosen
      /\ plans' = plans \cup {Made}
  BY AfterPlan DEF Made
<1>3. phase = "topup"
  BY DEF EndPlan
<1> QED
  BY <1>1, <1>2, <1>3 DEF BucketsFilled, LessThanAClipOver

\* A plan passes its target by less than one of its clips, if no bucket's share is negative:
\* the buckets keep within their shares, and the top-up stops when the target is reached.
THEOREM TopUpStops ==
    ASSUME NoNegativeShare
    PROVE  Spec => []LessThanAClipOver
<1>1. Init => IInv /\ BucketsFilled /\ LessThanAClipOver
  BY InitIInv DEF Init, BucketsFilled, LessThanAClipOver
<1>2. IInv /\ BucketsFilled /\ LessThanAClipOver /\ [Next]_vars
        => (IInv /\ BucketsFilled /\ LessThanAClipOver)'
  <2> SUFFICES ASSUME IInv, BucketsFilled, LessThanAClipOver, [Next]_vars
               PROVE  IInv' /\ BucketsFilled' /\ LessThanAClipOver'
    OBVIOUS
  <2>1. IInv'
    BY StepIInv
  <2>2. BucketsFilled'
    BY <2>1, FilledStep
  <2>3. LessThanAClipOver'
    BY LessThanAClipStep DEF IInv
  <2> QED
    BY <2>1, <2>2, <2>3
<1> QED
  BY <1>1, <1>2, PTL DEF Spec
=============================================================================
