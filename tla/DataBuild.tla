----------------------------- MODULE DataBuild ------------------------------
(***************************************************************************)
(* What build_dataset (data/build.py) leaves on disk, build after build,   *)
(* when a build may die at any point: the WAVs that materialize writes,    *)
(* the manifests of the splits, stats.json, and the removal of the WAVs    *)
(* that no manifest of this build names.                                   *)
(*                                                                         *)
(* The state is the file system (audio, manifest, stats), which outlives a *)
(* build, and the build in progress, which does not.  A WAV belongs to a   *)
(* split and a clip; its category folder is folded into the clip.  What a  *)
(* plan may hold (split_groups, dev_pool, plan_dataset) is IsPlan.  The    *)
(* clips are those of sources that feed train and eval alike.              *)
(***************************************************************************)
EXTENDS Naturals, FiniteSets

CONSTANTS Clips,      \* candidates, by key
          Group,      \* the speaker or video of each clip
          Plans,      \* the plans tried, as of several configurations: split -> clips
          MaxBuilds   \* bound on the number of builds

Splits == {"train", "eval", "dev", "control"}

\* The order in which by_split first sees the splits: a category's train and eval
\* come before its dev, and the control set last.
Rank(s) == CASE s = "train" -> 1 [] s = "eval" -> 2 [] s = "dev" -> 3 [] OTHER -> 4

GroupsOf(clips) == {Group[c] : c \in clips}

\* What plan_dataset returns for categories that do not share a source with one
\* another: dev is there only if a category asks for it, train and eval share no
\* group, and dev holds no clip of train, nor (as part of the train side) one of an
\* eval group.
IsPlan(p) ==
    /\ DOMAIN p \in {Splits, Splits \ {"dev"}}
    /\ \A s \in DOMAIN p : p[s] \subseteq Clips
    /\ GroupsOf(p["train"]) \cap GroupsOf(p["eval"]) = {}
    /\ "dev" \in DOMAIN p => /\ p["dev"] \cap p["train"] = {}
                             /\ GroupsOf(p["dev"]) \cap GroupsOf(p["eval"]) = {}

ASSUME BuildAssumption ==
    /\ \A p \in Plans : IsPlan(p)
    /\ MaxBuilds \in Nat

VARIABLES audio,     \* each WAV under audio/: "none", "torn" (half written) or "whole"
          manifest,  \* what read_manifest finds in each split's file
          stats,     \* the build stats.json tells of, 0 if none or unreadable
          phase,     \* where build_dataset is; "idle" when none runs and the last one died
          plan,      \* the plan being built
          todo,      \* planned WAVs not fetched yet
          openWav,       \* the WAV being written, if any
          openManifest,  \* the split whose manifest is being written, if any
          built,     \* the WAVs of this build's manifest entries: by_split, later keep
          left,      \* splits whose manifests are still to be written
          stale,     \* the WAVs remove_unreferenced_audio still has to delete
          builds     \* the number of builds begun

disk == <<audio, manifest, stats>>
build == <<plan, todo, built, left, stale>>
open == <<openWav, openManifest>>
vars == <<disk, phase, build, open, builds>>

Paths == Splits \X Clips

\* The WAVs a plan writes, and the entries of one split among some WAVs.
PathsOf(p) == {x \in Paths : x[1] \in DOMAIN p /\ x[2] \in p[x[1]]}
Entries(s, paths) == {c \in Clips : <<s, c>> \in paths}

Present == {x \in Paths : audio[x] # "none"}

Init ==
    /\ audio = [x \in Paths |-> "none"]
    /\ manifest = [s \in Splits |-> {}]
    /\ stats = 0
    /\ phase = "idle"
    /\ plan \in Plans
    /\ todo = {} /\ built = {} /\ left = {} /\ stale = {}
    /\ openWav = {} /\ openManifest = {}
    /\ builds = 0

-----------------------------------------------------------------------------
\* Mutant of Start: by_split outlives the build.
Start_KeepsBuilt(p) ==
    /\ phase \in {"idle", "done"}
    /\ builds < MaxBuilds
    /\ phase' = "fetch"
    /\ plan' = p
    /\ todo' = PathsOf(p)
    /\ left' = {} /\ stale' = {}
    /\ builds' = builds + 1
    /\ UNCHANGED <<disk, built, open>>

\* A build begins with the plan of the configuration it is given, which need not
\* be that of the builds before it.
Start(p) ==
    /\ phase \in {"idle", "done"}
    /\ builds < MaxBuilds
    /\ phase' = "fetch"
    /\ plan' = p
    /\ todo' = PathsOf(p)
    /\ built' = {} /\ left' = {} /\ stale' = {}
    /\ builds' = builds + 1
    /\ UNCHANGED <<disk, open>>

\* The plans are materialized category by category and the control set last; within
\* one plan the source decides the order.
InTurn(x) == x \in todo /\ \A y \in todo : x[1] = "control" => y[1] = "control"

\* write_wav begins: an existing WAV is truncated where it lies.
OpenWav(x) ==
    /\ phase = "fetch"
    /\ openWav = {}
    /\ InTurn(x)
    /\ audio' = [audio EXCEPT ![x] = "torn"]
    /\ todo' = todo \ {x}
    /\ openWav' = {x}
    /\ UNCHANGED <<manifest, stats, phase, plan, built, left, stale, openManifest, builds>>

\* The WAV is complete, and its entry is added to the plan's entries.
CloseWav(x) ==
    /\ phase = "fetch"
    /\ openWav = {x}
    /\ audio' = [audio EXCEPT ![x] = "whole"]
    /\ built' = built \cup {x}
    /\ openWav' = {}
    /\ UNCHANGED <<manifest, stats, phase, plan, todo, left, stale, openManifest, builds>>

\* A clip whose decoded duration is out of range, or that the source does not
\* yield, gets no WAV and no entry; an older WAV of that name stays.
DropClip(x) ==
    /\ phase = "fetch"
    /\ openWav = {}
    /\ InTurn(x)
    /\ todo' = todo \ {x}
    /\ UNCHANGED <<disk, phase, plan, built, left, stale, open, builds>>

\* Mutant of FetchDone: only splits with entries get a manifest.
FetchDone_SkipsEmpty ==
    /\ phase = "fetch"
    /\ openWav = {} /\ todo = {}
    /\ phase' = "manifests"
    /\ left' = {s \in DOMAIN plan : Entries(s, built) # {}}
    /\ UNCHANGED <<disk, plan, todo, built, stale, open, builds>>

\* Every plan has been materialized: by_split has a key for each split planned,
\* with entries or without.
FetchDone ==
    /\ phase = "fetch"
    /\ openWav = {} /\ todo = {}
    /\ phase' = "manifests"
    /\ left' = DOMAIN plan
    /\ UNCHANGED <<disk, plan, todo, built, stale, open, builds>>

\* write_manifest opens the next split's file for writing, which empties it.
OpenManifest(s) ==
    /\ phase = "manifests"
    /\ openManifest = {}
    /\ s \in left
    /\ \A t \in left : Rank(s) <= Rank(t)
    /\ manifest' = [manifest EXCEPT ![s] = {}]
    /\ left' = left \ {s}
    /\ openManifest' = {s}
    /\ UNCHANGED <<audio, stats, phase, plan, todo, built, stale, openWav, builds>>

CloseManifest(s) ==
    /\ phase = "manifests"
    /\ openManifest = {s}
    /\ manifest' = [manifest EXCEPT ![s] = Entries(s, built)]
    /\ openManifest' = {}
    /\ UNCHANGED <<audio, stats, phase, plan, todo, built, left, stale, openWav, builds>>

\* Mutant of Unreferenced: the audio kept is that of the plans, not of the entries.
Unreferenced_OfPlan == Present \ PathsOf(plan)

\* The WAVs to delete are listed once, before the first is deleted.
Unreferenced == Present \ built

\* _write_stats, then the list of remove_unreferenced_audio.
WriteStats ==
    /\ phase = "manifests"
    /\ openManifest = {} /\ left = {}
    /\ stats' = builds
    /\ stale' = Unreferenced
    /\ phase' = "clean"
    /\ UNCHANGED <<audio, manifest, plan, todo, built, left, open, builds>>

\* Mutant of Remove: left-over audio is removed while the manifests are written.
Remove_BeforeManifests(x) ==
    /\ phase \in {"manifests", "clean"}
    /\ x \in Present \ built
    /\ audio' = [audio EXCEPT ![x] = "none"]
    /\ stale' = stale \ {x}
    /\ UNCHANGED <<manifest, stats, phase, plan, todo, built, left, open, builds>>

Remove(x) ==
    /\ phase = "clean"
    /\ x \in stale
    /\ audio' = [audio EXCEPT ![x] = "none"]
    /\ stale' = stale \ {x}
    /\ UNCHANGED <<manifest, stats, phase, plan, todo, built, left, open, builds>>

CleanDone ==
    /\ phase = "clean"
    /\ stale = {}
    /\ phase' = "done"
    /\ UNCHANGED <<disk, build, open, builds>>

\* An error (a fetch, a full disk) or a kill ends the build.  Of a manifest being
\* written, any part may have reached the disk; a WAV being written stays torn.
\* stats.json, if it was being written, may be empty.
Interrupt ==
    /\ phase \in {"fetch", "manifests", "clean"}
    /\ phase' = "idle"
    /\ \/ \E s \in openManifest : \E part \in SUBSET Entries(s, built) :
            /\ manifest' = [manifest EXCEPT ![s] = part]
            /\ UNCHANGED stats
       \/ /\ openManifest = {}
          /\ stats' \in IF phase = "manifests" /\ left = {} THEN {stats, 0} ELSE {stats}
          /\ UNCHANGED manifest
    /\ todo' = {} /\ built' = {} /\ left' = {} /\ stale' = {}
    /\ openWav' = {} /\ openManifest' = {}
    /\ UNCHANGED <<audio, plan, builds>>

\* The bound on the builds is reached and none runs.
Finished ==
    /\ phase \in {"idle", "done"}
    /\ builds = MaxBuilds
    /\ UNCHANGED vars

Next ==
    \/ \E p \in Plans : Start(p)
    \/ \E x \in Paths : OpenWav(x) \/ CloseWav(x) \/ DropClip(x)
    \/ FetchDone
    \/ \E s \in Splits : OpenManifest(s) \/ CloseManifest(s)
    \/ WriteStats
    \/ \E x \in Paths : Remove(x)
    \/ CleanDone
    \/ Interrupt
    \/ Finished

Spec == Init /\ [][Next]_vars

-----------------------------------------------------------------------------
TypeOK ==
    /\ audio \in [Paths -> {"none", "torn", "whole"}]
    /\ manifest \in [Splits -> SUBSET Clips]
    /\ stats \in 0..MaxBuilds
    /\ phase \in {"idle", "fetch", "manifests", "clean", "done"}
    /\ plan \in Plans
    /\ todo \subseteq Paths /\ built \subseteq Paths /\ stale \subseteq Paths
    /\ left \subseteq Splits
    /\ openWav \subseteq Paths /\ openManifest \subseteq Splits
    /\ built \cap (todo \cup openWav) = {}
    /\ builds \in 0..MaxBuilds

\* The splits that every configuration plans: train, eval and control, and dev if
\* each of them asks for it.
Always == {s \in Splits : \A p \in Plans : s \in DOMAIN p}

Stranded(s) == \E c \in manifest[s] : audio[<<s, c>>] = "none"

\* However builds of different plans follow each other and wherever they die, no
\* manifest of a split that every plan has names a WAV that is not there: the old
\* WAVs go only once the manifests that named them are replaced.
NothingStranded == \A s \in Always : ~Stranded(s)

\* A build that ends leaves exactly its own dataset, whatever the builds before it
\* left: its manifests hold what it built, its WAVs are whole and the only ones, and
\* stats.json is its own.
BuildIsExact ==
    phase = "done" =>
        /\ \A s \in DOMAIN plan : manifest[s] = Entries(s, built)
        /\ Present = built
        /\ \A x \in built : audio[x] = "whole"
        /\ stats = builds

HeldOut == GroupsOf(manifest["train"]) \cap GroupsOf(manifest["eval"]) = {}

\* After a build that ended, no speaker or video is both in train and in eval.  (One that
\* dies between two manifests leaves the train set of one plan beside the eval set of another.)
DoneHeldOut == phase = "done" => HeldOut

\* Removing the audio that no manifest references keeps the audio of dev.jsonl, the
\* dev manifest of a build whose configuration had a dev split.
DevNotStranded == ~Stranded("dev")
=============================================================================
