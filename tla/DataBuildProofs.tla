-------------------------- MODULE DataBuildProofs ---------------------------
(***************************************************************************)
(* What every sequence of builds keeps, for any plans, any number of       *)
(* builds and any point at which a build dies.                             *)
(*                                                                         *)
(* The inductive invariant relates the files to the build in progress: the *)
(* WAVs of the entries made so far are whole, what a manifest that was     *)
(* already written holds is what was built, and only what was not built is *)
(* ever on the list of WAVs to delete.                                     *)
(***************************************************************************)
EXTENDS DataBuild, TLAPS

\* What is open belongs to the stage of the build, and what was not fetched is apart.
OpenInStage ==
    /\ openWav # {} => phase = "fetch"
    /\ openManifest # {} => phase = "manifests"
    /\ left # {} => phase = "manifests"
    /\ todo # {} => phase = "fetch"
    /\ todo \cap openWav = {}

\* The entries made so far are of planned clips, with their WAVs written.
BuiltIsWritten ==
    /\ built \cup todo \cup openWav \subseteq PathsOf(plan)
    /\ \A x \in built : audio[x] = "whole"

\* A manifest of this build that is not open or still to come holds what was built.
ManifestsWritten ==
    phase \in {"manifests", "clean", "done"} =>
        \A s \in DOMAIN plan \ (left \cup openManifest) : manifest[s] = Entries(s, built)

\* From the list on, the audio is what was built and what is still to be deleted.
ListIsExact ==
    phase \in {"clean", "done"} =>
        /\ Present = built \cup stale
        /\ built \cap stale = {}
        /\ stats = builds
        /\ phase = "done" => stale = {}

IInv == TypeOK /\ OpenInStage /\ BuiltIsWritten /\ ManifestsWritten /\ ListIsExact /\ NothingStranded

-----------------------------------------------------------------------------
\* A plan names splits and clips only.
LEMMA PlansAreOk ==
    ASSUME NEW p \in Plans
    PROVE  /\ DOMAIN p \subseteq Splits
           /\ PathsOf(p) \subseteq Paths
           /\ Always \subseteq DOMAIN p
           /\ GroupsOf(p["train"]) \cap GroupsOf(p["eval"]) = {}
           /\ "train" \in DOMAIN p /\ "eval" \in DOMAIN p
BY BuildAssumption DEF IsPlan, Splits, PathsOf, Always

LEMMA InitHolds == Init => IInv
BY BuildAssumption DEF Init, IInv, TypeOK, OpenInStage, BuiltIsWritten, ManifestsWritten, ListIsExact,
   NothingStranded, Stranded, Always, PathsOf

\* The type invariant is kept by every step.
LEMMA TypeStep == IInv /\ [Next]_vars => TypeOK'
<1> SUFFICES ASSUME IInv, [Next]_vars PROVE TypeOK'
  OBVIOUS
<1> USE DEF IInv, TypeOK, OpenInStage, disk, build, open
<1>1. ASSUME NEW p \in Plans, Start(p) PROVE TypeOK'
  BY <1>1, PlansAreOk, BuildAssumption DEF Start
<1>2. ASSUME NEW x \in Paths, OpenWav(x) PROVE TypeOK'
  BY <1>2 DEF OpenWav, InTurn
<1>3. ASSUME NEW x \in Paths, CloseWav(x) PROVE TypeOK'
  BY <1>3 DEF CloseWav
<1>4. ASSUME NEW x \in Paths, DropClip(x) PROVE TypeOK'
  BY <1>4 DEF DropClip, InTurn
<1>5. CASE FetchDone
  BY <1>5, PlansAreOk DEF FetchDone
<1>6. ASSUME NEW s \in Splits, OpenManifest(s) PROVE TypeOK'
  BY <1>6 DEF OpenManifest
<1>7. ASSUME NEW s \in Splits, CloseManifest(s) PROVE TypeOK'
  BY <1>7 DEF CloseManifest, Entries
<1>8. CASE WriteStats
  BY <1>8 DEF WriteStats, Unreferenced, Present
<1>9. ASSUME NEW x \in Paths, Remove(x) PROVE TypeOK'
  BY <1>9 DEF Remove
<1>10. CASE CleanDone
  BY <1>10 DEF CleanDone
<1>11. CASE Interrupt
  <2>1. manifest' \in [Splits -> SUBSET Clips]
    BY <1>11 DEF Interrupt, Entries
  <2>2. stats' \in 0..MaxBuilds
    BY <1>11, BuildAssumption DEF Interrupt
  <2> QED
    BY <1>11, <2>1, <2>2 DEF Interrupt
<1>12. CASE UNCHANGED vars
  BY <1>12 DEF vars
<1> QED
  BY <1>1, <1>2, <1>3, <1>4, <1>5, <1>6, <1>7, <1>8, <1>9, <1>10, <1>11, <1>12 DEF Next, Finished

\* Files are open, and splits and clips to come, only in their stage of the build.
LEMMA StageStep == IInv /\ [Next]_vars => OpenInStage'
<1> SUFFICES ASSUME IInv, [Next]_vars PROVE OpenInStage'
  OBVIOUS
<1> USE DEF IInv, OpenInStage, disk, build, open
<1>1. ASSUME NEW p \in Plans, Start(p) PROVE OpenInStage'
  BY <1>1 DEF Start
<1>2. ASSUME NEW x \in Paths, OpenWav(x) PROVE OpenInStage'
  BY <1>2 DEF OpenWav
<1>3. ASSUME NEW x \in Paths, CloseWav(x) PROVE OpenInStage'
  BY <1>3 DEF CloseWav
<1>4. ASSUME NEW x \in Paths, DropClip(x) PROVE OpenInStage'
  BY <1>4 DEF DropClip
<1>5. CASE FetchDone
  BY <1>5 DEF FetchDone
<1>6. ASSUME NEW s \in Splits, OpenManifest(s) PROVE OpenInStage'
  BY <1>6 DEF OpenManifest
<1>7. ASSUME NEW s \in Splits, CloseManifest(s) PROVE OpenInStage'
  BY <1>7 DEF CloseManifest
<1>8. CASE WriteStats
  BY <1>8 DEF WriteStats
<1>9. ASSUME NEW x \in Paths, Remove(x) PROVE OpenInStage'
  BY <1>9 DEF Remove
<1>10. CASE CleanDone
  BY <1>10 DEF CleanDone
<1>11. CASE Interrupt
  BY <1>11 DEF Interrupt
<1>12. CASE UNCHANGED vars
  BY <1>12 DEF vars
<1> QED
  BY <1>1, <1>2, <1>3, <1>4, <1>5, <1>6, <1>7, <1>8, <1>9, <1>10, <1>11, <1>12 DEF Next, Finished

\* An entry's WAV is whole when the entry is made, and no step of the same build
\* writes or deletes it again.
LEMMA BuiltStep == IInv /\ [Next]_vars => BuiltIsWritten'
<1> SUFFICES ASSUME IInv, [Next]_vars PROVE BuiltIsWritten'
  OBVIOUS
<1> USE DEF IInv, TypeOK, OpenInStage, BuiltIsWritten, disk, build, open
<1>1. ASSUME NEW p \in Plans, Start(p) PROVE BuiltIsWritten'
  BY <1>1 DEF Start
<1>2. ASSUME NEW x \in Paths, OpenWav(x) PROVE BuiltIsWritten'
  BY <1>2 DEF OpenWav, InTurn
<1>3. ASSUME NEW x \in Paths, CloseWav(x) PROVE BuiltIsWritten'
  BY <1>3 DEF CloseWav
<1>4. ASSUME NEW x \in Paths, DropClip(x) PROVE BuiltIsWritten'
  BY <1>4 DEF DropClip, InTurn
<1>5. CASE FetchDone
  BY <1>5 DEF FetchDone
<1>6. ASSUME NEW s \in Splits, OpenManifest(s) PROVE BuiltIsWritten'
  BY <1>6 DEF OpenManifest
<1>7. ASSUME NEW s \in Splits, CloseManifest(s) PROVE BuiltIsWritten'
  BY <1>7 DEF CloseManifest
<1>8. CASE WriteStats
  BY <1>8 DEF WriteStats
<1>9. ASSUME NEW x \in Paths, Remove(x) PROVE BuiltIsWritten'
  <2>1. x \notin built
    BY <1>9 DEF Remove, ListIsExact
  <2> QED
    BY <1>9, <2>1 DEF Remove
<1>10. CASE CleanDone
  BY <1>10 DEF CleanDone
<1>11. CASE Interrupt
  BY <1>11 DEF Interrupt
<1>12. CASE UNCHANGED vars
  BY <1>12 DEF vars
<1> QED
  BY <1>1, <1>2, <1>3, <1>4, <1>5, <1>6, <1>7, <1>8, <1>9, <1>10, <1>11, <1>12 DEF Next, Finished

\* A manifest once written stays what was built.
LEMMA ManifestStep == IInv /\ [Next]_vars => ManifestsWritten'
<1> SUFFICES ASSUME IInv, [Next]_vars PROVE ManifestsWritten'
  OBVIOUS
<1> USE DEF IInv, TypeOK, OpenInStage, ManifestsWritten, disk, build, open
<1>1. ASSUME NEW p \in Plans, Start(p) PROVE ManifestsWritten'
  BY <1>1 DEF Start
<1>2. ASSUME NEW x \in Paths, OpenWav(x) PROVE ManifestsWritten'
  BY <1>2 DEF OpenWav
<1>3. ASSUME NEW x \in Paths, CloseWav(x) PROVE ManifestsWritten'
  BY <1>3 DEF CloseWav
<1>4. ASSUME NEW x \in Paths, DropClip(x) PROVE ManifestsWritten'
  BY <1>4 DEF DropClip
<1>5. CASE FetchDone
  BY <1>5 DEF FetchDone
<1>6. ASSUME NEW s \in Splits, OpenManifest(s) PROVE ManifestsWritten'
  BY <1>6, PlansAreOk DEF OpenManifest, Entries
<1>7. ASSUME NEW s \in Splits, CloseManifest(s) PROVE ManifestsWritten'
  BY <1>7, PlansAreOk DEF CloseManifest, Entries
<1>8. CASE WriteStats
  BY <1>8 DEF WriteStats, Entries
<1>9. ASSUME NEW x \in Paths, Remove(x) PROVE ManifestsWritten'
  BY <1>9 DEF Remove, Entries
<1>10. CASE CleanDone
  BY <1>10 DEF CleanDone, Entries
<1>11. CASE Interrupt
  BY <1>11 DEF Interrupt
<1>12. CASE UNCHANGED vars
  BY <1>12 DEF vars, Entries
<1> QED
  BY <1>1, <1>2, <1>3, <1>4, <1>5, <1>6, <1>7, <1>8, <1>9, <1>10, <1>11, <1>12 DEF Next, Finished

\* What is on the list is what was not built, and shrinks with the audio.
LEMMA ListStep == IInv /\ [Next]_vars => ListIsExact'
<1> SUFFICES ASSUME IInv, [Next]_vars PROVE ListIsExact'
  OBVIOUS
<1> USE DEF IInv, TypeOK, ListIsExact, disk, build, open
<1>1. ASSUME NEW p \in Plans, Start(p) PROVE ListIsExact'
  BY <1>1 DEF Start
<1>2. ASSUME NEW x \in Paths, OpenWav(x) PROVE ListIsExact'
  BY <1>2 DEF OpenWav
<1>3. ASSUME NEW x \in Paths, CloseWav(x) PROVE ListIsExact'
  BY <1>3 DEF CloseWav
<1>4. ASSUME NEW x \in Paths, DropClip(x) PROVE ListIsExact'
  BY <1>4 DEF DropClip
<1>5. CASE FetchDone
  BY <1>5 DEF FetchDone
<1>6. ASSUME NEW s \in Splits, OpenManifest(s) PROVE ListIsExact'
  BY <1>6 DEF OpenManifest
<1>7. ASSUME NEW s \in Splits, CloseManifest(s) PROVE ListIsExact'
  BY <1>7 DEF CloseManifest
<1>8. CASE WriteStats
  <2>1. built \subseteq Present
    BY DEF BuiltIsWritten, Present
  <2> QED
    BY <1>8, <2>1 DEF WriteStats, Unreferenced, Present
<1>9. ASSUME NEW x \in Paths, Remove(x) PROVE ListIsExact'
  <2>1. Present' = Present \ {x}
    BY <1>9 DEF Remove, Present
  <2> QED
    BY <1>9, <2>1 DEF Remove
<1>10. CASE CleanDone
  BY <1>10 DEF CleanDone, Present
<1>11. CASE Interrupt
  BY <1>11 DEF Interrupt
<1>12. CASE UNCHANGED vars
  BY <1>12 DEF vars, Present
<1> QED
  BY <1>1, <1>2, <1>3, <1>4, <1>5, <1>6, <1>7, <1>8, <1>9, <1>10, <1>11, <1>12 DEF Next, Finished

\* A WAV disappears only when the manifests of all planned splits hold what was built,
\* and a manifest gets only entries whose WAVs are there.
LEMMA StrandedStep == IInv /\ [Next]_vars => NothingStranded'
<1> SUFFICES ASSUME IInv, [Next]_vars, NEW t \in Always, NEW c \in manifest'[t]
             PROVE  audio'[<<t, c>>] # "none"
  BY DEF NothingStranded, Stranded
<1> USE DEF IInv, TypeOK, disk, build, open
<1>1. t \in Splits /\ t \in DOMAIN plan
  BY PlansAreOk DEF Always
<1>2. \A d \in manifest[t] : <<t, d>> \in Paths /\ audio[<<t, d>>] # "none"
  BY <1>1 DEF NothingStranded, Stranded, Paths
<1>3. \A d \in Entries(t, built) : <<t, d>> \in Paths /\ audio[<<t, d>>] # "none"
  BY DEF Entries, BuiltIsWritten
<1>4. ASSUME UNCHANGED <<audio, manifest>> PROVE audio'[<<t, c>>] # "none"
  BY <1>2, <1>4
<1>5. ASSUME NEW p \in Plans, Start(p) PROVE audio'[<<t, c>>] # "none"
  BY <1>4, <1>5 DEF Start
<1>6. ASSUME NEW x \in Paths, OpenWav(x) \/ CloseWav(x) PROVE audio'[<<t, c>>] # "none"
  BY <1>2, <1>6 DEF OpenWav, CloseWav
<1>7. ASSUME NEW x \in Paths, DropClip(x) PROVE audio'[<<t, c>>] # "none"
  BY <1>4, <1>7 DEF DropClip
<1>8. CASE FetchDone
  BY <1>4, <1>8 DEF FetchDone
<1>9. ASSUME NEW s \in Splits, OpenManifest(s) PROVE audio'[<<t, c>>] # "none"
  BY <1>1, <1>2, <1>9 DEF OpenManifest
<1>10. ASSUME NEW s \in Splits, CloseManifest(s) PROVE audio'[<<t, c>>] # "none"
  BY <1>1, <1>2, <1>3, <1>10 DEF CloseManifest
<1>11. CASE WriteStats
  BY <1>4, <1>11 DEF WriteStats
<1>12. ASSUME NEW x \in Paths, Remove(x) PROVE audio'[<<t, c>>] # "none"
  <2>1. manifest[t] = Entries(t, built)
    BY <1>1, <1>12 DEF Remove, ManifestsWritten, OpenInStage
  <2>2. <<t, c>> \in built
    BY <1>12, <2>1 DEF Remove, Entries
  <2>3. <<t, c>> # x
    BY <1>12, <2>2 DEF Remove, ListIsExact
  <2> QED
    BY <1>12, <2>2, <2>3 DEF Remove, BuiltIsWritten
<1>13. CASE CleanDone
  BY <1>4, <1>13 DEF CleanDone
<1>14. CASE Interrupt
  BY <1>1, <1>2, <1>3, <1>14 DEF Interrupt
<1>15. CASE UNCHANGED vars
  BY <1>4, <1>15 DEF vars
<1> QED
  BY <1>5, <1>6, <1>7, <1>8, <1>9, <1>10, <1>11, <1>12, <1>13, <1>14, <1>15 DEF Next, Finished

\* The inductive invariant holds in every build.
THEOREM DataBuildInvariant == Spec => []IInv
<1>1. IInv /\ [Next]_vars => IInv'
  BY TypeStep, StageStep, BuiltStep, ManifestStep, ListStep, StrandedStep DEF IInv
<1> QED
  BY <1>1, InitHolds, PTL DEF Spec

\* Types, and no entry is made twice in a build.
THEOREM DataBuildTypeOK == Spec => []TypeOK
<1>1. IInv => TypeOK
  BY DEF IInv
<1> QED
  BY <1>1, DataBuildInvariant, PTL

\* Whatever configurations follow each other and wherever their builds die, the
\* manifests of the splits they all plan name only WAVs that are there.
THEOREM DataBuildNothingStranded == Spec => []NothingStranded
<1>1. IInv => NothingStranded
  BY DEF IInv
<1> QED
  BY <1>1, DataBuildInvariant, PTL

\* If every configuration has a dev split, that includes dev.jsonl.
THEOREM DevSafeIfAlwaysPlanned ==
    (\A p \in Plans : "dev" \in DOMAIN p) => (Spec => []DevNotStranded)
<1> SUFFICES ASSUME \A p \in Plans : "dev" \in DOMAIN p PROVE Spec => []DevNotStranded
  OBVIOUS
<1>1. NothingStranded => DevNotStranded
  BY DEF NothingStranded, DevNotStranded, Always, Splits
<1> QED
  BY <1>1, DataBuildNothingStranded, PTL

\* A build that ends has repaired whatever the ones before it left.
THEOREM DataBuildIsExact == Spec => []BuildIsExact
<1>1. IInv => BuildIsExact
  BY DEF IInv, BuildIsExact, ManifestsWritten, ListIsExact, BuiltIsWritten, OpenInStage
<1> QED
  BY <1>1, DataBuildInvariant, PTL

\* Train and eval of a build that ended share no speaker or video.
THEOREM DataBuildHeldOut == Spec => []DoneHeldOut
<1>1. IInv => DoneHeldOut
  <2> SUFFICES ASSUME IInv, phase = "done" PROVE HeldOut
    BY DEF DoneHeldOut
  <2> USE DEF IInv
  <2>1. plan \in Plans /\ left = {} /\ openManifest = {}
    BY DEF TypeOK, OpenInStage
  <2>2. \A s \in {"train", "eval"} : manifest[s] = Entries(s, built)
    BY <2>1, PlansAreOk DEF ManifestsWritten
  <2>3. \A s \in {"train", "eval"} : Entries(s, built) \subseteq plan[s]
    BY DEF BuiltIsWritten, PathsOf, Entries
  <2> QED
    BY <2>1, <2>2, <2>3, PlansAreOk DEF HeldOut, GroupsOf
<1> QED
  BY <1>1, DataBuildInvariant, PTL
=============================================================================
