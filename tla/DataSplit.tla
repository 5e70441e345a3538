----------------------------- MODULE DataSplit ------------------------------
(***************************************************************************)
(* plan_dataset (data/build.py): from the candidates of the sources to the *)
(* clips of every split, category by category, before any audio is read.   *)
(* The loops of split_groups and select_by_minutes are steps; a shuffle is *)
(* a choice of any order.                                                  *)
(*                                                                         *)
(* Amounts of audio are counted in units such that a share of a quota is   *)
(* whole: a quota q stands for Whole * q units, of which a bucket gets     *)
(* Share[b] * q and a group of eval at most GroupShare * q.                *)
(***************************************************************************)
EXTENDS ClipSources, Integers

CONSTANTS Configs,    \* the configurations tried
          Buckets,    \* a sequence of [min, max]
          Whole, Share, GroupShare, MinGroups,
          MinLength, MaxLength, MinWords

\* A configuration is [categories, control, controlQuota, lines]: a category is [train,
\* eval, trainQuota, evalQuota, devQuota, factor], with devQuota 0 for none and the factor
\* that applies to it; lines is how much of the index the configured bytes hold.
CategoryType == [train : DOMAIN Kind, eval : DOMAIN Kind, trainQuota : Nat \ {0},
                 evalQuota : Nat \ {0}, devQuota : Nat, factor : Nat \ {0}]

CategorySources(k) == {k.train, k.eval}

\* DataConfig._consistent, for what a plan depends on.
WellFormed(c) ==
    /\ c.categories \in Seq(CategoryType) /\ c.categories # <<>>
    /\ c.control \in DOMAIN Kind /\ c.controlQuota \in Nat \ {0}
    /\ c.lines \in 0..Len(Index)
    /\ \A i \in DOMAIN c.categories : c.control \notin CategorySources(c.categories[i])

ASSUME SplitAssumption ==
    /\ IsFiniteSet(Clips)
    /\ \A c \in Configs : WellFormed(c)
    /\ Buckets \in Seq([min : Nat, max : Nat \ {0}]) /\ Buckets # <<>>
    /\ Share \in [DOMAIN Buckets -> Int]
    /\ Whole \in Nat \ {0} /\ SumFunction(Share) = Whole
    /\ MinLength \in Nat \ {0}
    /\ GroupShare \in 1..Whole
    /\ MinGroups * GroupShare >= Whole

VARIABLES cfg,        \* the configuration of this build
          usable,     \* source -> its usable candidates
          phase,      \* "list", "pools", "hold", "shuffle", "fill", "topup", "done", "failed"
          cat,        \* the category being planned; one more for the control set
          split,      \* the split being planned
          trainPool, evalPool,
          heldOut, held,     \* eval_groups and held_s
          pool, order, at,   \* what is being selected from, its order, the next position
          bucket, got,       \* the bucket being filled and what it holds
          chosen, taken,     \* clips chosen so far, and before the top-up
          overlap,           \* dev_pool's flag
          plans              \* the SplitPlans made, with the pool each was chosen from

pools == <<trainPool, evalPool>>
holding == <<heldOut, held>>
selection == <<pool, order, at, bucket, got, chosen, taken, overlap>>
vars == <<cfg, usable, phase, cat, split, pools, holding, selection, plans>>

Length(c) == Row[c].length
Amount(clips) == SumFunction([c \in clips |-> Length(c)])
Group(c) == GroupOf(c, cfg.lines)
GroupsOf(clips) == {Group(c) : c \in clips}
InGroup(clips, g) == {c \in clips : Group(c) = g}

Category == cfg.categories[cat]
NoSplit == "none"

Quota(s, i) ==
    CASE s = "train" -> cfg.categories[i].trainQuota
      [] s = "eval" -> cfg.categories[i].evalQuota
      [] s = "dev" -> cfg.categories[i].devQuota
      [] OTHER -> cfg.controlQuota
Target(s, i) == Whole * Quota(s, i)

\* The most a group may supply to a split; only eval is capped.
HasCap(s) == s = "eval"
Cap(s, i) == GroupShare * Quota(s, i)

\* is_usable
IsUsable(c) == Length(c) \in MinLength..MaxLength /\ Row[c].words >= MinWords

\* assign_bucket: the first bucket that holds the duration; the last has its upper edge too.
Fits(c, b) ==
    /\ Buckets[b].min <= Length(c)
    /\ Length(c) < Buckets[b].max \/ (b = Len(Buckets) /\ Length(c) = Buckets[b].max)
BucketIs(c, b) == Fits(c, b) /\ \A a \in 1..b - 1 : ~Fits(c, a)

\* What a shuffle may return.
Orders(clips) == Bijection(1..Cardinality(clips), clips)

Init ==
    /\ cfg \in Configs
    /\ usable = [s \in DOMAIN Kind |-> {}]
    /\ phase = "list" /\ cat = 1 /\ split = NoSplit
    /\ trainPool = {} /\ evalPool = {} /\ heldOut = {} /\ held = 0
    /\ pool = {} /\ order = <<>> /\ at = 1 /\ bucket = 1 /\ got = 0
    /\ chosen = {} /\ taken = {} /\ overlap = FALSE
    /\ plans = {}

(***************************************************************************)
(* Candidates and pools                                                    *)
(***************************************************************************)

List ==
    /\ phase = "list"
    /\ usable' = [s \in DOMAIN Kind |-> {c \in Candidates(s, cfg.lines) : IsUsable(c)}]
    /\ phase' = "pools"
    /\ UNCHANGED <<cfg, cat, split, pools, holding, selection, plans>>

\* Mutant of NothingChosen: what one selection chose is not forgotten before the next.
X_NothingChosen == order' = <<>> /\ at' = 1 /\ bucket' = 1 /\ got' = 0 /\ UNCHANGED <<chosen, taken>>

NothingChosen == order' = <<>> /\ at' = 1 /\ bucket' = 1 /\ got' = 0 /\ chosen' = {} /\ taken' = {}

\* The next selection: of split s, from the clips p.
Select(s, p, flag) ==
    /\ split' = s /\ pool' = p /\ overlap' = flag
    /\ phase' = "shuffle"
    /\ NothingChosen

\* _category_pools, with different sources.
TakeBothSources ==
    /\ phase = "pools" /\ Category.train # Category.eval
    /\ trainPool' = usable[Category.train] /\ evalPool' = usable[Category.eval]
    /\ Select("train", trainPool', FALSE)
    /\ UNCHANGED <<cfg, usable, cat, holding, plans>>

StartHoldOut ==
    /\ phase = "pools" /\ Category.train = Category.eval
    /\ phase' = "hold" /\ heldOut' = {} /\ held' = 0
    /\ UNCHANGED <<cfg, usable, cat, split, pools, selection, plans>>

Shared == usable[Category.train]

HeldEnough ==
    /\ held >= Category.factor * Target("eval", cat)
    /\ Cardinality(heldOut) >= MinGroups

AtMost(a, b) == IF a <= b THEN a ELSE b

\* split_groups: the next group of a random order goes to eval, whole.
HoldOut(g) ==
    /\ phase = "hold" /\ ~HeldEnough
    /\ g \in GroupsOf(Shared) \ heldOut
    /\ heldOut' = heldOut \cup {g}
    /\ held' = held + AtMost(Amount(InGroup(Shared, g)), Cap("eval", cat))
    /\ UNCHANGED <<cfg, usable, phase, cat, split, pools, selection, plans>>

EvalSide == {c \in Shared : Group(c) \in heldOut}

EndHoldOut ==
    /\ phase = "hold" /\ HeldEnough /\ heldOut # GroupsOf(Shared)
    /\ evalPool' = EvalSide /\ trainPool' = Shared \ EvalSide
    /\ Select("train", trainPool', FALSE)
    /\ UNCHANGED <<cfg, usable, cat, holding, plans>>

\* "Not enough groups to hold out": too little, or nothing left for train.
FailHoldOut ==
    /\ phase = "hold" /\ heldOut = GroupsOf(Shared)
    /\ phase' = "failed"
    /\ UNCHANGED <<cfg, usable, cat, split, pools, holding, selection, plans>>

(***************************************************************************)
(* select_by_minutes                                                       *)
(***************************************************************************)

Shuffle ==
    /\ phase = "shuffle"
    /\ order' \in Orders(pool)
    /\ phase' = "fill"
    /\ UNCHANGED <<cfg, usable, cat, split, pools, holding, plans>>
    /\ UNCHANGED <<pool, at, bucket, got, chosen, taken, overlap>>

\* Mutant of Capped: what the group holds is compared without the clip.
X_Capped(c) == HasCap(split) /\ Amount(InGroup(chosen, Group(c))) > Cap(split, cat)

\* group_s is what the chosen clips of a group amount to.
Capped(c) ==
    HasCap(split) /\ Amount(InGroup(chosen, Group(c))) + Length(c) > Cap(split, cat)

Room == Share[bucket] * Quota(split, cat) - got

\* One step of the loop over order, for the bucket being filled.
Fill ==
    /\ phase = "fill" /\ at <= Len(order)
    /\ LET c == order[at]
       IN  IF BucketIs(c, bucket) /\ Length(c) <= Room /\ ~Capped(c)
           THEN chosen' = chosen \cup {c} /\ got' = got + Length(c)
           ELSE UNCHANGED <<chosen, got>>
    /\ at' = at + 1
    /\ UNCHANGED <<cfg, usable, phase, cat, split, pools, holding, plans>>
    /\ UNCHANGED <<pool, order, bucket, taken, overlap>>

NextBucket ==
    /\ phase = "fill" /\ at > Len(order)
    /\ IF bucket < Len(Buckets)
       THEN bucket' = bucket + 1 /\ UNCHANGED <<phase, taken>>
       ELSE phase' = "topup" /\ taken' = chosen /\ UNCHANGED bucket
    /\ at' = 1 /\ got' = 0
    /\ UNCHANGED <<cfg, usable, cat, split, pools, holding, plans>>
    /\ UNCHANGED <<pool, order, chosen, overlap>>

\* Mutant of Full: the target has to be passed, not reached.
X_Full == Amount(chosen) > Target(split, cat)

Full == Amount(chosen) >= Target(split, cat)

\* Mutant of FitsTopUp: the top-up keeps to what is left of the target.
X_FitsTopUp(c) ==
    c \notin taken /\ ~Capped(c) /\ Amount(chosen) + Length(c) <= Target(split, cat)

FitsTopUp(c) == c \notin taken /\ ~Capped(c)

\* The same order again, from any bucket and with any room.
TopUp ==
    /\ phase = "topup" /\ at <= Len(order) /\ ~Full
    /\ chosen' = chosen \cup {c \in {order[at]} : FitsTopUp(c)}
    /\ at' = at + 1
    /\ UNCHANGED <<cfg, usable, phase, cat, split, pools, holding, plans>>
    /\ UNCHANGED <<pool, order, bucket, got, taken, overlap>>

(***************************************************************************)
(* plan_dataset: one plan after the other                                  *)
(***************************************************************************)

\* Mutant of Unused: clips that train did not take, whoever speaks in them.
X_Unused(clips) == trainPool \ clips

Unused(clips) == {c \in trainPool : Group(c) \notin GroupsOf(clips)}

\* dev_pool: the clips of groups that train does not use, or else any that it did not take.
DevFallsShort(clips) == Amount(Unused(clips)) < Target("dev", cat)
DevPool(clips) == IF DevFallsShort(clips) THEN trainPool \ clips ELSE Unused(clips)

TrainClips == UNION {p.clips : p \in {q \in plans : q.split = "train" /\ q.cat = cat}}

NextCategory ==
    /\ cat' = cat + 1
    /\ IF cat < Len(cfg.categories)
       THEN /\ phase' = "pools" /\ split' = NoSplit /\ pool' = {} /\ overlap' = FALSE
            /\ NothingChosen
       ELSE Select("control", usable[cfg.control], FALSE)

EndPlan ==
    /\ phase = "topup" /\ (Full \/ at > Len(order))
    /\ plans' = plans \cup {[split |-> split, cat |-> cat, clips |-> chosen,
                             pool |-> pool, overlap |-> overlap]}
    /\ CASE split = "train" -> Select("eval", evalPool, FALSE) /\ UNCHANGED cat
         [] split = "eval" /\ Category.devQuota > 0 ->
                 Select("dev", DevPool(TrainClips), DevFallsShort(TrainClips)) /\ UNCHANGED cat
         [] split = "eval" /\ Category.devQuota = 0 -> NextCategory
         [] split = "dev" -> NextCategory
         [] split = "control" -> phase' = "done" /\ UNCHANGED <<cat, split, selection>>
    /\ UNCHANGED <<cfg, usable, pools, holding>>

Finished == phase \in {"done", "failed"} /\ UNCHANGED vars

Next ==
    \/ List
    \/ TakeBothSources
    \/ StartHoldOut
    \/ \E g \in GroupsOf(UNION {usable[s] : s \in DOMAIN Kind}) : HoldOut(g)
    \/ EndHoldOut
    \/ FailHoldOut
    \/ Shuffle
    \/ Fill
    \/ NextBucket
    \/ TopUp
    \/ EndPlan
    \/ Finished

Spec == Init /\ [][Next]_vars

-----------------------------------------------------------------------------

\* Type: what is chosen comes from the pool, and a pool is one of usable clips.
TypeOK ==
    /\ cfg \in Configs
    /\ usable \in [DOMAIN Kind -> SUBSET Clips]
    /\ phase \in {"list", "pools", "hold", "shuffle", "fill", "topup", "done", "failed"}
    /\ cat \in 1..Len(cfg.categories) + 1
    /\ split \in {NoSplit, "train", "eval", "dev", "control"}
    /\ trainPool \subseteq Clips /\ evalPool \subseteq Clips /\ pool \subseteq Clips
    /\ chosen \subseteq pool /\ taken \subseteq chosen
    /\ held \in Nat /\ got \in Nat /\ at \in Nat \ {0} /\ bucket \in DOMAIN Buckets
    /\ overlap \in BOOLEAN
    /\ plans \subseteq [split : {"train", "eval", "dev", "control"},
                        cat : 1..Len(cfg.categories) + 1, clips : SUBSET Clips,
                        pool : SUBSET Clips, overlap : BOOLEAN]

\* No two categories draw from one source.  The configuration only keeps the control
\* source apart; two categories that share one split it each with its own random numbers.
SharesNoSource(c) ==
    \A i, j \in DOMAIN c.categories :
        i # j => CategorySources(c.categories[i]) \cap CategorySources(c.categories[j]) = {}

\* No speaker or video of train or dev is heard in eval or control, whatever the index, its
\* cut and the speaker table say (Candidate.group: "a group never spans train and eval").  A
\* FLEURS source that feeds both sides has no sentence on both; its readers are unknown.
HeldOutApart ==
    SharesNoSource(cfg) =>
        \A p, q \in plans :
            p.split \in {"train", "dev"} /\ q.split \in {"eval", "control"} =>
                /\ Voices(p.clips) \cap Voices(q.clips) = {}
                /\ Sentences(p.clips) \cap Sentences(q.clips) = {}

\* A dev set has no clip of train; unless it says that it shares its groups with train it has
\* none of train's speakers and videos, and of FLEURS none of its sentences (which may be read
\* by the same people); and it says so only when the unused ones could not fill it (dev_pool).
DevHonest ==
    \A p, t \in plans :
        p.split = "dev" /\ t.split = "train" /\ p.cat = t.cat =>
            /\ p.clips \cap t.clips = {}
            /\ ~p.overlap => /\ Voices(p.clips) \cap Voices(t.clips) = {}
                             /\ Sentences(p.clips) \cap Sentences(t.clips) = {}
            /\ p.overlap => Amount({c \in t.pool : Group(c) \notin GroupsOf(t.clips)})
                              < Target("dev", p.cat)

\* A plan that falls short of its target left nothing it was allowed to take: whatever the
\* order and the buckets, every clip of the pool is in it or would break a group's cap.
NothingLeftOver ==
    \A p \in plans :
        Amount(p.clips) < Target(p.split, p.cat) =>
            \A c \in p.pool \ p.clips :
                /\ HasCap(p.split)
                /\ Amount(InGroup(p.clips, Group(c))) + Length(c) > Cap(p.split, p.cat)

\* A plan passes its target by less than one of its clips, although the top-up has no room
\* to keep to.
LessThanAClipOver ==
    \A p \in plans :
        \/ Amount(p.clips) <= Target(p.split, p.cat)
        \/ \E c \in p.clips : Amount(p.clips \ {c}) < Target(p.split, p.cat)

\* Where speakers or videos are known, none supplies more of an eval set than its share of the
\* quota, so a filled one spans at least as many as it takes (data.yaml, "so one talkative
\* speaker cannot dominate the eval WER").  Of FLEURS only sentences are capped, not readers,
\* and nothing is claimed.
NobodyDominates ==
    \A p \in {q \in plans : q.split = "eval"} :
        /\ \A v \in Voices(p.clips) :
               Amount({c \in p.clips : Origin(c) = v}) <= Cap("eval", p.cat)
        /\ (\A c \in p.clips : HasVoice(c)) /\ Amount(p.clips) >= Target("eval", p.cat) =>
               Cardinality(Voices(p.clips)) * GroupShare >= Whole
=============================================================================
