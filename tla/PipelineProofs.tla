--------------------------- MODULE PipelineProofs ---------------------------
(***************************************************************************)
(* Proofs about Pipeline, for every list of packages, every recipe, every  *)
(* set of targets and every bound on the faults.                           *)
(***************************************************************************)
EXTENDS Pipeline, TLAPS

-----------------------------------------------------------------------------
(* Facts about keys.                                                       *)

LEMMA LenIsNat ==
  ASSUME NEW p \in Pkg
  PROVE  Len(Recipe[p]) \in Nat /\ Len(Recipe[p]) > 0
BY PipelineAssumption

(* The key of a step of the current package is a key.                      *)
LEMMA KeyOfIsKey ==
  ASSUME NEW p \in Pkg, NEW i \in Steps(p), NEW t \in Targets
  PROVE  KeyOf(p, i, t) \in Key
BY DEF Key

(* Two steps that share a key are the same step of the same package.       *)
LEMMA KeyOfIsInjective ==
  ASSUME NEW p, NEW i, NEW t, NEW q, NEW j, NEW u, KeyOf(p, i, t) = KeyOf(q, j, u)
  PROVE  p = q /\ i = j
BY DEF KeyOf

LEMMA HereIsKey == TypeOK => Here \in Key
BY KeyOfIsKey DEF TypeOK, Here

-----------------------------------------------------------------------------
(* Type correctness.                                                       *)

LEMMA AdvanceType ==
  ASSUME TypeOK, Advance
  PROVE  /\ pc' \in {"enter", "idle"}
         /\ target' \in Targets /\ left' \in SUBSET Targets
         /\ pkg' \in Pkg /\ step' \in Steps(pkg')
<1>1. \A p \in Pkg : 1 \in Steps(p)
  BY LenIsNat DEF Steps
<1>2. CASE NextStep
  BY <1>2, LenIsNat DEF NextStep, TypeOK, Steps
<1>3. CASE NextPackage
  BY <1>1, <1>3, PipelineAssumption DEF NextPackage, TypeOK, Pkg
<1>4. CASE NextTarget
  BY <1>1, <1>4, PipelineAssumption DEF NextTarget, TypeOK, Pkg
<1>5. CASE Finish
  BY <1>5 DEF Finish, Exit, where, TypeOK, Steps
<1>. QED
  BY <1>2, <1>3, <1>4, <1>5 DEF Advance

LEMMA TypeInit == Init => TypeOK
<1>1. 1 \in Pkg /\ 1 \in Steps(1)
  BY LenIsNat, PipelineAssumption DEF Steps, Pkg
<1>. SUFFICES ASSUME Init PROVE TypeOK
  OBVIOUS
<1>2. product \in [Key -> Quality] /\ applied \in [Patch -> Progress]
  BY DEF Init, Quality, Progress
<1>3. faults \in 0..MaxFaults
  BY PipelineAssumption DEF Init
<1>4. update \in BOOLEAN
  BY Zenon DEF Init
<1>5. pkg \in Pkg /\ step \in Steps(pkg)
  BY <1>1 DEF Init
<1>. QED
  BY <1>2, <1>3, <1>4, <1>5 DEF Init, TypeOK

LEMMA TypeNext == TypeOK /\ [Next]_vars => TypeOK'
<1>. SUFFICES ASSUME TypeOK, [Next]_vars PROVE TypeOK'
  OBVIOUS
<1>h. Here \in Key
  BY HereIsKey
<1>f. ASSUME NEW f, Fault(f) PROVE faults' \in 0..MaxFaults
  BY <1>f, PipelineAssumption DEF Fault, TypeOK
<1>n. ASSUME NoFault PROVE faults' \in 0..MaxFaults
  BY <1>n DEF NoFault, TypeOK
<1>1. ASSUME NEW ts \in SUBSET Targets, NEW u \in BOOLEAN, StartRun(ts, u)
      PROVE  TypeOK'
  <2>1. 1 \in Pkg /\ 1 \in Steps(1)
    BY LenIsNat, PipelineAssumption DEF Steps, Pkg
  <2>. QED
    BY <1>1, <2>1 DEF StartRun, TypeOK, disk
<1>2. CASE Skip
  BY <1>2, AdvanceType DEF Skip, TypeOK, disk
<1>3. CASE StartTool
  BY <1>3, <1>h DEF StartTool, TypeOK, where, Quality, Cleared
<1>4. CASE ToolSucceeds
  BY <1>4, <1>h DEF ToolSucceeds, TypeOK, where, Quality, Made
<1>5. CASE Touch
  BY <1>5, <1>h, AdvanceType DEF Touch, TypeOK
<1>6. CASE StartUpdate
  BY <1>6 DEF StartUpdate, TypeOK, disk, where
<1>7. CASE CleanOne
  BY <1>7 DEF CleanOne, TypeOK, where
<1>8. CASE CleanEnds
  BY <1>8, <1>f, <1>n DEF CleanEnds, TypeOK, disk, where
<1>9. CASE Revert
  BY <1>9, <1>f, <1>n DEF Revert, TypeOK, where, SetPatches, Progress
<1>10. CASE Pull
  BY <1>10, <1>h DEF Pull, TypeOK, where, Quality
<1>11. CASE StartPatching
  BY <1>11 DEF StartPatching, TypeOK, disk, where
<1>12. CASE PatchAlreadyMarked
  BY <1>12 DEF PatchAlreadyMarked, TypeOK, disk, where
<1>13. CASE DryRunSucceeds
  <2>1. HerePatch \in Patch /\ HerePatch' = HerePatch
    BY <1>13, PipelineAssumption DEF DryRunSucceeds, TypeOK, where, HerePatch, Patch
  <2>. QED
    BY <1>13, <2>1 DEF DryRunSucceeds, TypeOK, disk, where
<1>14. CASE DryRunFails
  BY <1>14 DEF DryRunFails, TypeOK, disk, where, Exit
<1>15. CASE ApplyPatch
  BY <1>15, <1>f, <1>n DEF ApplyPatch, TypeOK, where, Progress, HerePatch
<1>16. CASE MarkPatch
  BY <1>16 DEF MarkPatch, TypeOK, where
<1>17. CASE PatchingEnds
  BY <1>17, AdvanceType DEF PatchingEnds, TypeOK, disk
<1>18. CASE ToolFails
  BY <1>18, <1>h, <1>f, <1>n
  DEF ToolFails, StopHalfWay, AfterFailure, TypeOK, where, Quality
<1>19. CASE Kill
  BY <1>19, <1>h, <1>f
  DEF Kill, StopHalfWay, SetPatches, Exit, TypeOK, where, Quality, Progress
<1>20. CASE UNCHANGED vars
  BY <1>20 DEF vars, TypeOK, HerePatch
<1>. QED
  BY <1>1, <1>2, <1>3, <1>4, <1>5, <1>6, <1>7, <1>8, <1>9, <1>10, <1>11, <1>12,
     <1>13, <1>14, <1>15, <1>16, <1>17, <1>18, <1>19, <1>20
  DEF Next, RunStep

(* The types of the disk and of the shell's variables.                     *)
THEOREM TypeCorrect == Spec => []TypeOK
BY TypeInit, TypeNext, PTL DEF Spec

-----------------------------------------------------------------------------
(* What the invariant says of a step that is about to be taken.            *)

LEMMA LastIsMake ==
  ASSUME NEW p \in Pkg
  PROVE  Len(Recipe[p]) \in Steps(p) /\ Kind(p, Len(Recipe[p])) = "make"
BY LenIsNat, PipelineAssumption DEF Steps, Kind

(* What a helper skips has been done.                                      *)
LEMMA SkippableIsSound ==
  ASSUME PipelineInv, Skippable(pkg, step, target)
  PROVE  Sound(pkg, step, target)
<1>. USE DEF PipelineInv, TypeOK
<1>1. CASE Kind(pkg, step) = "patch" /\ PatchesMarked(pkg)
  <2>1. FullyPatched(pkg)
    <3>1. CASE NPatches[pkg] = 0
      BY <3>1 DEF FullyPatched
    <3>2. CASE NPatches[pkg] > 0
      BY <1>1, <3>2 DEF PatchMarkerSound
    <3>. QED
      BY <3>1, <3>2, PipelineAssumption
  <2>. QED
    BY <1>1, <2>1 DEF Sound
<1>2. CASE Kind(pkg, step) = "unpack" /\ pkg \in Vcs
  BY <1>2 DEF Sound
<1>3. CASE Kind(pkg, step) # "patch" /\ KeyOf(pkg, step, target) \in marker
  BY <1>3 DEF Sound, MarkerSound
<1>. QED
  BY <1>1, <1>2, <1>3 DEF Skippable

(* What a live run works on is complete.                                   *)
LEMMA ReachedInputs ==
  ASSUME PipelineInv, pc # "idle"
  PROVE  InputsGood(pkg, step, target)
BY DEF PipelineInv, Reached, MarkerSound, InputsGood

(* A tool that runs has not been marked yet.                               *)
LEMMA StartToolUnmarked ==
  ASSUME PipelineInv, StartTool
  PROVE  Here \notin marker
BY DEF PipelineInv, StartTool, Skippable, MarkerSound, Here, HereKind

(* Advance leads from a finished step to a place that has been reached.    *)
LEMMA AdvanceReached ==
  ASSUME PipelineInv, Advance, pc # "idle",
         Sound(pkg, step, target),
         step = Len(Recipe[pkg]) => InstallKey(pkg, target) \in marker',
         marker \subseteq marker',
         UNCHANGED <<product, applied>>
  PROVE  Reached'
<1>. USE DEF PipelineInv, TypeOK
<1>1. CASE NextStep
  <2>1. \A j \in 1..step : Sound(pkg, j, target)
    BY LenIsNat DEF Reached, Steps
  <2>2. (\A j \in 1..(step - 1) : Sound(pkg, j, target))'
    BY <1>1, <2>1, LenIsNat DEF NextStep, Sound, FullyPatched, KeyOf, Place, Steps
  <2>3. (\A q \in 1..(pkg - 1) : InstallKey(q, target) \in marker)'
    BY <1>1 DEF NextStep, Reached, InstallKey, KeyOf, Place
  <2>. QED
    BY <2>2, <2>3 DEF Reached
<1>2. CASE NextPackage
  <2>1. \A q \in 1..pkg : InstallKey(q, target) \in marker'
    BY <1>2, PipelineAssumption DEF NextPackage, Reached, Pkg
  <2>2. (\A q \in 1..(pkg - 1) : InstallKey(q, target) \in marker)'
    BY <1>2, <2>1, PipelineAssumption
    DEF NextPackage, Pkg, InstallKey, KeyOf, Place
  <2>. QED
    BY <1>2, <2>2 DEF NextPackage, Reached
<1>3. CASE NextTarget
  BY <1>3 DEF NextTarget, Reached
<1>4. CASE Finish
  BY <1>4 DEF Finish, Exit, Reached
<1>. QED
  BY <1>1, <1>2, <1>3, <1>4 DEF Advance

-----------------------------------------------------------------------------
(* MarkerSound is preserved.                                               *)
LEMMA MarkerSoundNext ==
  ASSUME PipelineInv, SoundTools, Next
  PROVE  MarkerSound'
<1>. USE DEF PipelineInv, TypeOK
<1>1. ASSUME Here \notin marker, marker' = marker,
             NEW q, product' = [product EXCEPT ![Here] = q]
      PROVE  MarkerSound'
  BY <1>1 DEF MarkerSound
<1>2. ASSUME UNCHANGED <<marker, product>>
      PROVE  MarkerSound'
  BY <1>2 DEF MarkerSound
<1>3. CASE StartTool
  BY <1>1, <1>2, <1>3, StartToolUnmarked DEF StartTool
<1>4. CASE ToolSucceeds
  BY <1>1, <1>4 DEF ToolSucceeds, ToolInv
<1>5. CASE Touch
  BY <1>5 DEF Touch, ToolInv, MarkerSound
<1>6. CASE Pull
  BY <1>6 DEF Pull, UpdateInv, MarkerSound
<1>7. CASE ToolFails
  BY <1>1, <1>2, <1>7 DEF ToolFails, StopHalfWay, ToolInv
<1>8. CASE Kill
  <2>1. CASE pc = "work"
    BY <1>1, <1>2, <1>8, <2>1 DEF Kill, StopHalfWay, ToolInv
  <2>2. CASE pc = "pull"
    BY <1>2, <1>8, <2>2 DEF Kill, StopHalfWay, MayTear, SoundTools, UpdateInv
  <2>. QED
    BY <1>2, <1>8, <2>1, <2>2 DEF Kill
<1>9. CASE \/ \E ts \in SUBSET Targets, u \in BOOLEAN : StartRun(ts, u)
           \/ Skip \/ StartUpdate \/ CleanOne \/ CleanEnds \/ Revert
           \/ StartPatching \/ PatchAlreadyMarked \/ DryRunSucceeds \/ DryRunFails
           \/ ApplyPatch \/ MarkPatch \/ PatchingEnds
  BY <1>2, <1>9
  DEF StartRun, Skip, StartUpdate, CleanOne, CleanEnds, Revert, StartPatching,
      PatchAlreadyMarked, DryRunSucceeds, DryRunFails, ApplyPatch, MarkPatch,
      PatchingEnds, disk
<1>. QED
  BY <1>3, <1>4, <1>5, <1>6, <1>7, <1>8, <1>9 DEF Next, RunStep

(* PatchMarkerSound is preserved.                                          *)
LEMMA PatchMarkerSoundNext ==
  ASSUME PipelineInv, SoundTools, Next
  PROVE  PatchMarkerSound'
<1>. USE DEF PipelineInv, TypeOK
<1>1. ASSUME UNCHANGED <<pmarker, applied>>
      PROVE  PatchMarkerSound'
  BY <1>1 DEF PatchMarkerSound, PatchesMarked, FullyPatched
<1>2. CASE CleanOne
  BY <1>2 DEF CleanOne, PatchMarkerSound, PatchesMarked, FullyPatched
<1>3. ASSUME pc = "revert", pmarker' = pmarker, NEW v, applied' = SetPatches(pkg, v)
      PROVE  PatchMarkerSound'
  <2>1. \A n \in 1..NPatches[pkg] : <<pkg, n>> \notin pmarker
    BY <1>3, PipelineAssumption DEF UpdateInv, PatchesOf, Patch
  <2>2. ASSUME NEW a \in Patch, a[1] # pkg PROVE applied'[a] = applied[a]
    BY <1>3, <2>2 DEF SetPatches
  <2>3. ASSUME NEW a \in pmarker PROVE applied'[a] = "yes"
    <3>1. a[1] # pkg
      BY <1>3 DEF UpdateInv, PatchesOf
    <3>. QED
      BY <2>2, <3>1 DEF PatchMarkerSound
  <2>4. ASSUME NEW p \in Pkg, NPatches[p] > 0, PatchesMarked(p)
        PROVE  FullyPatched(p)'
    <3>1. p # pkg
      BY <2>1, <2>4, PipelineAssumption DEF PatchesMarked
    <3>2. \A n \in 1..NPatches[p] : <<p, n>> \in Patch
      BY DEF Patch
    <3>. QED
      BY <2>2, <2>4, <3>1, <3>2 DEF PatchMarkerSound, FullyPatched
  <2>. QED
    BY <1>3, <2>3, <2>4 DEF PatchMarkerSound, PatchesMarked
<1>4. ASSUME pc = "apply", pmarker' = pmarker,
             NEW v, applied' = [applied EXCEPT ![HerePatch] = v]
      PROVE  PatchMarkerSound'
  <2>1. HerePatch \notin pmarker /\ applied[HerePatch] = "no"
    BY <1>4 DEF PatchInv
  <2>2. ASSUME NEW p \in Pkg, NPatches[p] > 0, PatchesMarked(p)
        PROVE  FullyPatched(p)'
    <3>1. \A n \in 1..NPatches[p] : applied[<<p, n>>] = "yes"
      BY <2>2 DEF PatchMarkerSound, FullyPatched
    <3>. QED
      BY <1>4, <2>1, <3>1 DEF FullyPatched
  <2>. QED
    BY <1>4, <2>1, <2>2 DEF PatchMarkerSound, PatchesMarked
<1>5. CASE MarkPatch
  <2>1. applied[HerePatch] = "yes"
    BY <1>5 DEF MarkPatch, PatchInv
  <2>2. ASSUME NEW p \in Pkg, NPatches[p] > 0, PatchesMarked(p)'
        PROVE  FullyPatched(p)
    <3>1. CASE PatchesMarked(p)
      BY <2>2, <3>1 DEF PatchMarkerSound
    <3>2. CASE HerePatch = <<p, NPatches[p]>>
      <4>1. p = pkg /\ cur = NPatches[pkg]
        BY <3>2 DEF HerePatch
      <4>2. \A n \in 1..(cur - 1) : applied[<<pkg, n>>] = "yes"
        BY <1>5, <4>1 DEF MarkPatch, PatchInv, PatchMarkerSound
      <4>. QED
        BY <2>1, <4>1, <4>2 DEF FullyPatched, HerePatch
    <3>. QED
      BY <1>5, <2>2, <3>1, <3>2 DEF MarkPatch, PatchesMarked
  <2>. QED
    BY <1>5, <2>1, <2>2 DEF MarkPatch, PatchMarkerSound, FullyPatched
<1>6. CASE Revert
  BY <1>1, <1>3, <1>6 DEF Revert
<1>7. CASE ApplyPatch
  BY <1>4, <1>7 DEF ApplyPatch
<1>8. CASE Kill
  BY <1>1, <1>3, <1>4, <1>8 DEF Kill
<1>9. CASE \/ \E ts \in SUBSET Targets, u \in BOOLEAN : StartRun(ts, u)
           \/ Skip \/ StartTool \/ ToolSucceeds \/ ToolFails \/ Touch
           \/ StartUpdate \/ CleanEnds \/ Pull
           \/ StartPatching \/ PatchAlreadyMarked \/ DryRunSucceeds \/ DryRunFails
           \/ PatchingEnds
  BY <1>1, <1>9
  DEF StartRun, Skip, StartTool, ToolSucceeds, ToolFails, Touch, StartUpdate,
      CleanEnds, Pull, StartPatching, PatchAlreadyMarked, DryRunSucceeds,
      DryRunFails, PatchingEnds, disk
<1>. QED
  BY <1>2, <1>5, <1>6, <1>7, <1>8, <1>9 DEF Next, RunStep

-----------------------------------------------------------------------------
(* Reached is preserved.                                                   *)

(* The earlier steps and packages have other keys than the current step.   *)
LEMMA ReachedElsewhere ==
  ASSUME PipelineInv, UNCHANGED <<where, marker, applied>>, pc # "idle",
         NEW q, product' = [product EXCEPT ![Here] = q]
  PROVE  Reached'
<1>. USE DEF PipelineInv, TypeOK, where
<1>1. \A j \in 1..(step - 1) : KeyOf(pkg, j, target) # Here
  BY LenIsNat DEF KeyOf, Here, Steps
<1>2. \A j \in 1..(step - 1) : KeyOf(pkg, j, target) \in Key
  BY LenIsNat, KeyOfIsKey DEF Steps
<1>3. \A j \in 1..(step - 1) :
         product'[KeyOf(pkg, j, target)] = product[KeyOf(pkg, j, target)]
  BY <1>1, <1>2
<1>4. (\A j \in 1..(step - 1) : Sound(pkg, j, target))'
  BY <1>3 DEF Reached, Sound, FullyPatched, KeyOf, Place
<1>. QED
  BY <1>4 DEF Reached, InstallKey, KeyOf, Place

LEMMA ReachedFrame ==
  ASSUME PipelineInv, UNCHANGED <<where, marker, product, applied>>, pc # "idle"
  PROVE  Reached'
BY DEF PipelineInv, Reached, Sound, FullyPatched, where, InstallKey, KeyOf, Place

(* While a checkout is updated nothing of the package is behind the run    *)
(* but downloads.                                                          *)
LEMMA RevertReached ==
  ASSUME PipelineInv, Revert
  PROVE  Reached'
<1>. USE DEF PipelineInv, TypeOK, Revert, where
<1>1. ASSUME NEW j \in 1..(step - 1) PROVE Kind(pkg, j) = "download"
  <2>1. j \in Steps(pkg) /\ j < step
    BY LenIsNat DEF Steps
  <2>2. Kind(pkg, j) \in SharedKinds \union TargetKinds
    BY <2>1, PipelineAssumption DEF Kind, Steps
  <2>3. Phase[Kind(pkg, j)] <= Phase[Kind(pkg, step)]
    BY <2>1, PipelineAssumption DEF Kind
  <2>4. Kind(pkg, step) = "download"
    BY DEF UpdateInv, HereKind
  <2>5. Phase["download"] = 1
    BY DEF Phase, SharedKinds
  <2>6. Kind(pkg, j) # "download" => Phase[Kind(pkg, j)] \in 2..4
    BY <2>2 DEF Phase, SharedKinds, TargetKinds
  <2>. QED
    BY <2>3, <2>4, <2>5, <2>6
<1>2. (\A j \in 1..(step - 1) : Sound(pkg, j, target))'
  BY <1>1 DEF Reached, Sound, KeyOf, Place
<1>. QED
  BY <1>2 DEF Reached, InstallKey, KeyOf, Place

LEMMA ApplyReached ==
  ASSUME PipelineInv, SoundTools, ApplyPatch
  PROVE  Reached'
<1>. USE DEF PipelineInv, TypeOK, ApplyPatch, where
<1>1. applied' = [applied EXCEPT ![HerePatch] = "yes"]
  BY DEF SoundTools, Fault
<1>2. \A p \in Pkg : FullyPatched(p) => FullyPatched(p)'
  <2>. SUFFICES ASSUME NEW p \in Pkg, FullyPatched(p), NEW n \in 1..NPatches[p]
                PROVE  applied'[<<p, n>>] = "yes"
    BY DEF FullyPatched
  <2>1. <<p, n>> \in Patch
    BY DEF Patch
  <2>. QED
    BY <1>1, <2>1 DEF FullyPatched
<1>3. (\A j \in 1..(step - 1) : Sound(pkg, j, target))'
  BY <1>2 DEF Reached, Sound, KeyOf, Place
<1>. QED
  BY <1>3 DEF Reached, InstallKey, KeyOf, Place

LEMMA ReachedNext ==
  ASSUME PipelineInv, SoundTools, Next
  PROVE  Reached'
<1>. USE DEF PipelineInv, TypeOK
<1>1. ASSUME NEW ts \in SUBSET Targets, NEW u \in BOOLEAN, StartRun(ts, u)
      PROVE  Reached'
  BY <1>1 DEF StartRun, Reached
<1>2. CASE Skip
  <2>1. Sound(pkg, step, target)
    BY <1>2, SkippableIsSound DEF Skip
  <2>2. ASSUME step = Len(Recipe[pkg]) PROVE InstallKey(pkg, target) \in marker
    BY <1>2, <2>2, LastIsMake DEF Skip, Skippable, InstallKey
  <2>. QED
    BY <1>2, <2>1, <2>2, AdvanceReached DEF Skip, disk
<1>3. CASE Touch
  <2>1. Sound(pkg, step, target)
    BY <1>3 DEF Touch, ToolInv, Sound, Here, HereKind
  <2>2. ASSUME step = Len(Recipe[pkg]) PROVE InstallKey(pkg, target) \in marker'
    BY <1>3, <2>2 DEF Touch, InstallKey, Here
  <2>. QED
    BY <1>3, <2>1, <2>2, AdvanceReached DEF Touch
<1>4. CASE PatchingEnds
  <2>1. FullyPatched(pkg)
    BY <1>4, PipelineAssumption
    DEF PatchingEnds, PatchInv, PatchMarkerSound, FullyPatched
  <2>2. Kind(pkg, step) = "patch"
    BY <1>4 DEF PatchingEnds, PatchInv, HereKind
  <2>3. step # Len(Recipe[pkg])
    BY <2>2, LastIsMake
  <2>. QED
    BY <1>4, <2>1, <2>2, <2>3, AdvanceReached DEF PatchingEnds, disk, Sound
<1>5. CASE StartTool \/ ToolSucceeds \/ Pull
  BY <1>5, ReachedElsewhere, ReachedFrame DEF StartTool, ToolSucceeds, Pull
<1>6. CASE ToolFails
  BY <1>6 DEF ToolFails, AfterFailure, SoundTools, Reached
<1>7. CASE Kill \/ DryRunFails
  BY <1>7 DEF Kill, DryRunFails, Exit, Reached
<1>8. CASE Revert
  BY <1>8, RevertReached
<1>9. CASE ApplyPatch
  BY <1>9, ApplyReached
<1>10. CASE \/ StartUpdate \/ CleanOne \/ CleanEnds \/ StartPatching
            \/ PatchAlreadyMarked \/ DryRunSucceeds \/ MarkPatch
  BY <1>10, ReachedFrame
  DEF StartUpdate, CleanOne, CleanEnds, StartPatching, PatchAlreadyMarked,
      DryRunSucceeds, MarkPatch, disk
<1>. QED
  BY <1>1, <1>2, <1>3, <1>4, <1>5, <1>6, <1>7, <1>8, <1>9, <1>10 DEF Next, RunStep

-----------------------------------------------------------------------------
(* The parts of the invariant about the running tool, the update and the   *)
(* patch loop are preserved.                                               *)

LEMMA ToolInvNext ==
  ASSUME PipelineInv, SoundTools, Next
  PROVE  ToolInv'
<1>. USE DEF PipelineInv, TypeOK
<1>1. CASE StartTool
  <2>1. pc' = "work" /\ Here' = Here /\ HereKind' = HereKind /\ HereKind # "patch"
    BY <1>1 DEF StartTool, where, Here, HereKind, KeyOf, Place
  <2>2. Here \notin marker'
    BY <1>1, StartToolUnmarked DEF StartTool
  <2>3. HereKind = "download" => product'[Here] = "none"
    BY <1>1, HereIsKey DEF StartTool, Cleared
  <2>. QED
    BY <2>1, <2>2, <2>3 DEF ToolInv
<1>2. CASE ToolSucceeds
  <2>1. pc' = "touch" /\ Here' = Here /\ HereKind' = HereKind
    BY <1>2 DEF ToolSucceeds, where, Here, HereKind, KeyOf, Place
  <2>2. Made(product[Here]) = "good"
    BY <1>2, ReachedInputs DEF ToolSucceeds, Made, ToolInv
  <2>3. product'[Here] = "good"
    BY <1>2, <2>2, HereIsKey DEF ToolSucceeds
  <2>. QED
    BY <1>2, <2>1, <2>3 DEF ToolInv, ToolSucceeds
<1>3. CASE Pull
  <2>1. pc' = "touch" /\ Here' = Here /\ HereKind' = HereKind
    BY <1>3 DEF Pull, where, Here, HereKind, KeyOf, Place
  <2>2. product'[Here] = "good" /\ HereKind = "download"
    BY <1>3, HereIsKey DEF Pull, UpdateInv
  <2>. QED
    BY <2>1, <2>2 DEF ToolInv
<1>4. ASSUME pc' \notin {"work", "touch"} PROVE ToolInv'
  BY <1>4 DEF ToolInv
<1>5. CASE \/ \E ts \in SUBSET Targets, u \in BOOLEAN : StartRun(ts, u)
           \/ CleanOne \/ CleanEnds \/ StartUpdate \/ Revert \/ StartPatching
           \/ PatchAlreadyMarked \/ DryRunSucceeds \/ DryRunFails
           \/ ApplyPatch \/ MarkPatch \/ Kill
  BY <1>4, <1>5
  DEF StartRun, CleanOne, CleanEnds, StartUpdate, Revert, StartPatching,
      PatchAlreadyMarked, DryRunSucceeds, DryRunFails, ApplyPatch, MarkPatch,
      Kill, Exit
<1>6. CASE Skip \/ Touch \/ PatchingEnds
  BY <1>4, <1>6, AdvanceType DEF Skip, Touch, PatchingEnds
<1>7. CASE ToolFails
  BY <1>4, <1>7 DEF ToolFails, AfterFailure, SoundTools
<1>. QED
  BY <1>1, <1>2, <1>3, <1>5, <1>6, <1>7 DEF Next, RunStep

(* A step leaves the checkout of every package there in full or not at all.*)
LEMMA CheckoutsNext ==
  ASSUME PipelineInv, SoundTools, Next,
         NEW p \in Vcs, NEW i \in Steps(p), Kind(p, i) = "download"
  PROVE  product'[<<p, i, Common>>] \in {"none", "good"}
<1>. USE DEF PipelineInv, TypeOK
<1>. DEFINE k == <<p, i, Common>>
<1>1. product[k] \in {"none", "good"}
  BY DEF UpdateInv
<1>2. k \in Key
  <2>1. PICK t \in Targets : TRUE
    BY PipelineAssumption
  <2>. QED
    BY <2>1, PipelineAssumption, KeyOfIsKey DEF KeyOf, Place, SharedKinds
<1>3. k = Here => HereKind = "download" /\ pkg \in Vcs
  BY DEF Here, HereKind, KeyOf
<1>4. CASE StartTool
  BY <1>1, <1>2, <1>4 DEF StartTool, Cleared
<1>5. CASE ToolSucceeds
  <2>1. Made(product[Here]) = "good"
    BY <1>5, ReachedInputs DEF ToolSucceeds, Made, ToolInv
  <2>. QED
    BY <1>1, <1>2, <1>5, <2>1 DEF ToolSucceeds
<1>6. CASE Pull
  BY <1>1, <1>2, <1>6 DEF Pull
<1>7. CASE ToolFails
  BY <1>1, <1>2, <1>3, <1>7 DEF ToolFails, StopHalfWay, MayTear, SoundTools
<1>8. CASE Kill
  BY <1>1, <1>2, <1>3, <1>8 DEF Kill, StopHalfWay, MayTear, SoundTools
<1>9. CASE product' = product
  BY <1>1, <1>9
<1>. QED
  BY <1>4, <1>5, <1>6, <1>7, <1>8, <1>9
  DEF Next, RunStep, StartRun, Skip, StartUpdate, CleanOne, CleanEnds, Revert,
      StartPatching, PatchAlreadyMarked, DryRunSucceeds, DryRunFails, Touch,
      ApplyPatch, MarkPatch, PatchingEnds, disk

LEMMA UpdateInvNext ==
  ASSUME PipelineInv, SoundTools, Next
  PROVE  UpdateInv'
<1>. USE DEF PipelineInv, TypeOK
<1>1. (\A p \in Vcs : \A i \in Steps(p) :
          Kind(p, i) = "download" => product[<<p, i, Common>>] \in {"none", "good"})'
  BY CheckoutsNext
<1>2. ASSUME pc' \notin {"clean", "revert", "pull"} PROVE UpdateInv'
  BY <1>1, <1>2 DEF UpdateInv
<1>3. CASE StartUpdate
  <2>1. Here = <<pkg, step, Common>> /\ HereKind = "download" /\ pkg \in Vcs
    BY <1>3 DEF StartUpdate, Here, HereKind, KeyOf, Place, SharedKinds
  <2>2. product[Here] = "good"
    BY <1>3, <2>1 DEF StartUpdate, UpdateInv, HereKind
  <2>. QED
    BY <1>1, <1>3, <2>1, <2>2
    DEF StartUpdate, UpdateInv, disk, where, Here, HereKind, KeyOf, Place
<1>4. CASE CleanOne
  BY <1>1, <1>4 DEF CleanOne, UpdateInv, where, Here, HereKind, KeyOf, Place
<1>5. CASE CleanEnds
  <2>1. PatchesOf(pkg) \intersect pmarker = {}
    BY <1>5 DEF CleanEnds, UpdateInv, SoundTools, Fault
  <2>. QED
    BY <1>1, <1>5, <2>1
    DEF CleanEnds, UpdateInv, disk, where, Here, HereKind, KeyOf, Place, PatchesOf
<1>6. CASE Revert
  BY <1>1, <1>6 DEF Revert, UpdateInv, where, Here, HereKind, KeyOf, Place
<1>7. CASE Skip \/ Touch \/ PatchingEnds
  BY <1>2, <1>7, AdvanceType DEF Skip, Touch, PatchingEnds
<1>8. CASE \/ \E ts \in SUBSET Targets, u \in BOOLEAN : StartRun(ts, u)
           \/ StartTool \/ ToolSucceeds \/ ToolFails \/ Pull \/ StartPatching
           \/ PatchAlreadyMarked \/ DryRunSucceeds \/ DryRunFails
           \/ ApplyPatch \/ MarkPatch \/ Kill
  BY <1>2, <1>8
  DEF StartRun, StartTool, ToolSucceeds, ToolFails, AfterFailure, Pull,
      StartPatching, PatchAlreadyMarked, DryRunSucceeds, DryRunFails,
      ApplyPatch, MarkPatch, Kill, Exit
<1>. QED
  BY <1>3, <1>4, <1>5, <1>6, <1>7, <1>8 DEF Next, RunStep

LEMMA PatchInvNext ==
  ASSUME PipelineInv, SoundTools, Next
  PROVE  PatchInv'
<1>. USE DEF PipelineInv, TypeOK
<1>1. ASSUME pc' \notin {"patch", "apply", "mark"} PROVE PatchInv'
  BY <1>1 DEF PatchInv
<1>2. CASE StartPatching
  BY <1>2 DEF StartPatching, PatchInv, disk, where, HereKind
<1>3. CASE PatchAlreadyMarked
  BY <1>3 DEF PatchAlreadyMarked, PatchInv, disk, where, HereKind, HerePatch
<1>4. CASE DryRunSucceeds
  BY <1>4 DEF DryRunSucceeds, PatchInv, disk, where, HereKind, HerePatch
<1>5. CASE ApplyPatch
  <2>1. applied' = [applied EXCEPT ![HerePatch] = "yes"] /\ HerePatch \in Patch
    BY <1>5 DEF ApplyPatch, SoundTools, Fault
  <2>. QED
    BY <1>5, <2>1 DEF ApplyPatch, PatchInv, where, HereKind, HerePatch
<1>6. CASE MarkPatch
  BY <1>6 DEF MarkPatch, PatchInv, where, HereKind, HerePatch
<1>7. CASE Skip \/ Touch \/ PatchingEnds
  BY <1>1, <1>7, AdvanceType DEF Skip, Touch, PatchingEnds
<1>8. CASE \/ \E ts \in SUBSET Targets, u \in BOOLEAN : StartRun(ts, u)
           \/ StartTool \/ ToolSucceeds \/ ToolFails \/ DryRunFails \/ Kill
           \/ StartUpdate \/ CleanOne \/ CleanEnds \/ Revert \/ Pull
  BY <1>1, <1>8
  DEF StartRun, StartTool, ToolSucceeds, ToolFails, AfterFailure, DryRunFails,
      Kill, Exit, StartUpdate, CleanOne, CleanEnds, Revert, Pull
<1>. QED
  BY <1>2, <1>3, <1>4, <1>5, <1>6, <1>7, <1>8 DEF Next, RunStep

-----------------------------------------------------------------------------
(* The theorems.                                                           *)

LEMMA InvInit == Init => PipelineInv
<1>. SUFFICES ASSUME Init PROVE PipelineInv
  OBVIOUS
<1>1. TypeOK
  BY TypeInit
<1>2. MarkerSound /\ Reached /\ ToolInv /\ PatchInv
  BY DEF Init, MarkerSound, Reached, ToolInv, PatchInv
<1>3. PatchMarkerSound
  BY DEF Init, PatchMarkerSound, PatchesMarked
<1>4. UpdateInv
  <2>1. ASSUME NEW p \in Vcs, NEW i \in Steps(p), Kind(p, i) = "download"
        PROVE  <<p, i, Common>> \in Key
    <3>1. PICK t \in Targets : TRUE
      BY PipelineAssumption
    <3>. QED
      BY <2>1, <3>1, PipelineAssumption, KeyOfIsKey DEF KeyOf, Place, SharedKinds
  <2>. QED
    BY <2>1 DEF Init, UpdateInv
<1>. QED
  BY <1>1, <1>2, <1>3, <1>4 DEF PipelineInv

LEMMA InvNext ==
  ASSUME SoundTools
  PROVE  PipelineInv /\ [Next]_vars => PipelineInv'
<1>. SUFFICES ASSUME PipelineInv, [Next]_vars PROVE PipelineInv'
  OBVIOUS
<1>1. CASE Next
  <2>1. TypeOK'
    BY TypeNext DEF PipelineInv
  <2>. QED
    BY <1>1, <2>1, MarkerSoundNext, PatchMarkerSoundNext, ReachedNext, ToolInvNext,
       UpdateInvNext, PatchInvNext
    DEF PipelineInv
<1>2. CASE UNCHANGED vars
  BY <1>2
  DEF vars, PipelineInv, TypeOK, MarkerSound, PatchMarkerSound, PatchesMarked,
      FullyPatched, Reached, Sound, InstallKey, ToolInv, UpdateInv, PatchInv,
      Here, HereKind, HerePatch, KeyOf, Place, PatchesOf
<1>. QED
  BY <1>1, <1>2

THEOREM PipelineInvariant ==
  ASSUME SoundTools
  PROVE  Spec => []PipelineInv
<1>1. PipelineInv /\ [Next]_vars => PipelineInv'
  BY InvNext
<1>. QED
  BY <1>1, InvInit, PTL DEF Spec

(* If the tools do what their exit status says and no archive is unpacked  *)
(* with --ignore, every marker file, whatever the runs, targets, failures  *)
(* and kills before it, vouches for complete output.                       *)
THEOREM MarkersAreSound ==
  ASSUME SoundTools
  PROVE  Spec => []MarkerSound
<1>1. PipelineInv => MarkerSound
  BY DEF PipelineInv
<1>. QED
  BY <1>1, PipelineInvariant, PTL

(* The marker of the last patch is enough to skip the whole patch list.    *)
THEOREM PatchMarkersAreSound ==
  ASSUME SoundTools
  PROVE  Spec => []PatchMarkerSound
<1>1. PipelineInv => PatchMarkerSound
  BY DEF PipelineInv
<1>. QED
  BY <1>1, PipelineInvariant, PTL

(* Nothing is configured, built or installed over missing sources, patches *)
(* or packages.                                                            *)
THEOREM InputsAreReady ==
  ASSUME SoundTools
  PROVE  Spec => []InputsReady
<1>1. PipelineInv => InputsReady
  BY ReachedInputs DEF InputsReady
<1>. QED
  BY <1>1, PipelineInvariant, PTL

-----------------------------------------------------------------------------
(* The pipeline implements BuildPlan, under every fault.                   *)

(* What the refinement needs: the packages behind a live run are in the    *)
(* prefix, and the patch loop runs only for a patch step.                  *)
InOrder == pc # "idle" => \A q \in 1..(pkg - 1) : InstallKey(q, target) \in marker
PatchLoop == pc \in {"patch", "apply", "mark"} => HereKind = "patch"
PlanInv == TypeOK /\ InOrder /\ PatchLoop

LEMMA AdvanceInOrder ==
  ASSUME PlanInv, Advance, pc # "idle", marker \subseteq marker',
         step = Len(Recipe[pkg]) => InstallKey(pkg, target) \in marker'
  PROVE  InOrder'
<1>. USE DEF PlanInv, TypeOK
<1>1. CASE NextStep
  BY <1>1 DEF NextStep, InOrder, InstallKey, KeyOf, Place
<1>2. CASE NextPackage
  <2>1. \A q \in 1..pkg : InstallKey(q, target) \in marker'
    BY <1>2, PipelineAssumption DEF NextPackage, InOrder, Pkg
  <2>. QED
    BY <1>2, <2>1, PipelineAssumption
    DEF NextPackage, InOrder, Pkg, InstallKey, KeyOf, Place
<1>3. CASE NextTarget
  BY <1>3 DEF NextTarget, InOrder
<1>4. CASE Finish
  BY <1>4 DEF Finish, Exit, InOrder
<1>. QED
  BY <1>1, <1>2, <1>3, <1>4 DEF Advance

LEMMA PlanInvNext == PlanInv /\ [Next]_vars => PlanInv'
<1>. SUFFICES ASSUME PlanInv, [Next]_vars PROVE InOrder' /\ PatchLoop'
  BY TypeNext DEF PlanInv
<1>. USE DEF PlanInv, TypeOK
<1>1. CASE \E ts \in SUBSET Targets, u \in BOOLEAN : StartRun(ts, u)
  BY <1>1 DEF StartRun, InOrder, PatchLoop
<1>2. CASE Skip
  <2>1. ASSUME step = Len(Recipe[pkg]) PROVE InstallKey(pkg, target) \in marker
    BY <1>2, <2>1, LastIsMake DEF Skip, Skippable, InstallKey
  <2>. QED
    BY <1>2, <2>1, AdvanceInOrder, AdvanceType DEF Skip, disk, PatchLoop
<1>3. CASE Touch
  <2>1. ASSUME step = Len(Recipe[pkg]) PROVE InstallKey(pkg, target) \in marker'
    BY <1>3, <2>1 DEF Touch, InstallKey, Here
  <2>. QED
    BY <1>3, <2>1, AdvanceInOrder, AdvanceType DEF Touch, PatchLoop
<1>4. CASE PatchingEnds
  <2>1. step # Len(Recipe[pkg])
    BY <1>4, LastIsMake DEF PatchingEnds, PatchLoop, HereKind
  <2>. QED
    BY <1>4, <2>1, AdvanceInOrder, AdvanceType DEF PatchingEnds, disk, PatchLoop
<1>5. CASE \/ StartTool \/ ToolSucceeds \/ ToolFails \/ StartUpdate
           \/ CleanOne \/ CleanEnds \/ Revert \/ Pull
  BY <1>5
  DEF StartTool, ToolSucceeds, ToolFails, AfterFailure, StartUpdate, CleanOne,
      CleanEnds, Revert, Pull, disk, where, InOrder, PatchLoop, InstallKey, KeyOf, Place
<1>6. CASE \/ StartPatching \/ PatchAlreadyMarked \/ DryRunSucceeds
           \/ ApplyPatch \/ MarkPatch
  BY <1>6
  DEF StartPatching, PatchAlreadyMarked, DryRunSucceeds, ApplyPatch, MarkPatch,
      disk, where, HereKind, InOrder, PatchLoop, InstallKey, KeyOf, Place
<1>7. CASE DryRunFails \/ Kill
  BY <1>7 DEF DryRunFails, Kill, Exit, InOrder, PatchLoop
<1>8. CASE UNCHANGED vars
  BY <1>8 DEF vars, HereKind, InOrder, PatchLoop, InstallKey, KeyOf, Place
<1>. QED
  BY <1>1, <1>2, <1>3, <1>4, <1>5, <1>6, <1>7, <1>8 DEF Next, RunStep

(* Touching a marker installs the current package for the current target,  *)
(* or nothing.                                                             *)
LEMMA TouchInstalls ==
  ASSUME PlanInv, Touch
  PROVE  Installed' = Installed \/ Plan!Install(target, pkg)
<1>. USE DEF PlanInv, TypeOK, Touch
<1>1. \A p \in Pkg, t \in Targets : InstallKey(p, t) = <<p, Len(Recipe[p]), t>>
  BY LastIsMake DEF InstallKey, KeyOf, Place, SharedKinds
<1>2. Here[1] = pkg /\ Here[2] = step
  BY DEF Here, KeyOf
<1>3. CASE step # Len(Recipe[pkg])
  <2>1. \A p \in Pkg, t \in Targets : InstallKey(p, t) # Here
    BY <1>1, <1>2, <1>3
  <2>. QED
    BY <2>1 DEF Installed
<1>4. CASE step = Len(Recipe[pkg])
  <2>1. Here = InstallKey(pkg, target)
    BY <1>4 DEF Here, InstallKey
  <2>2. \A p \in Pkg, t \in Targets :
           InstallKey(p, t) = Here <=> p = pkg /\ t = target
    BY <1>1, <2>1
  <2>3. Installed' = [Installed EXCEPT ![target] = @ \union {pkg}]
    BY <2>2 DEF Installed
  <2>4. \A q \in 1..(pkg - 1) : q \in Installed[target]
    BY PipelineAssumption DEF InOrder, Installed, Pkg
  <2>5. CASE pkg \in Installed[target]
    <3>1. InstallKey(pkg, target) \in marker
      BY <2>5 DEF Installed
    <3>. QED
      BY <2>1, <3>1 DEF Installed
  <2>6. CASE pkg \notin Installed[target]
    BY <2>3, <2>4, <2>6 DEF Plan!Install
  <2>. QED
    BY <2>5, <2>6
<1>. QED
  BY <1>3, <1>4

LEMMA PlanStep == PlanInv /\ [Next]_vars => [Plan!Next]_Installed
<1>. SUFFICES ASSUME PlanInv, [Next]_vars PROVE [Plan!Next]_Installed
  OBVIOUS
<1>1. CASE Touch
  BY <1>1, TouchInstalls DEF Plan!Next, PlanInv, TypeOK, Pkg
<1>2. CASE marker' = marker
  BY <1>2 DEF Installed
<1>. QED
  BY <1>1, <1>2
  DEF Next, RunStep, StartRun, Skip, StartTool, ToolSucceeds, ToolFails,
      StartUpdate, CleanOne, CleanEnds, Revert, Pull, StartPatching,
      PatchAlreadyMarked, DryRunSucceeds, DryRunFails, ApplyPatch, MarkPatch,
      PatchingEnds, Kill, disk, vars

(* For each target the packages are installed one by one in the order of   *)
(* PACKAGES, and none is lost: whatever fails, is killed or is repeated.   *)
THEOREM PipelineImplementsPlan == Spec => ImplementsPlan
<1>1. Init => PlanInv /\ Plan!Init
  BY TypeInit DEF Init, PlanInv, InOrder, PatchLoop, Installed, Plan!Init
<1>. QED
  BY <1>1, PlanInvNext, PlanStep, PTL DEF Spec, ImplementsPlan, Plan!Spec

-----------------------------------------------------------------------------
(* The sources of an archive package stay as they are, under every fault.  *)

(* Marks stay, but for the patch markers of a checkout.                    *)
LEMMA MarkedStays ==
  ASSUME NEW p \in Pkg, NEW i \in Steps(p), NEW t \in Targets, Marked(p, i, t),
         marker \subseteq marker',
         pmarker \subseteq pmarker'
  PROVE  Marked(p, i, t)'
BY DEF Marked, PatchesMarked, KeyOf, Place

(* The shared steps of a package come before those of a target.            *)
LEMMA SharedFirst ==
  ASSUME NEW p \in Pkg, NEW i \in Steps(p), NEW j \in Steps(p),
         Kind(p, i) \in SharedKinds, Kind(p, j) \in TargetKinds
  PROVE  i < j
<1>1. Phase[Kind(p, i)] \in 1..3 /\ Phase[Kind(p, j)] = 4
  BY DEF Phase, SharedKinds, TargetKinds
<1>2. j < i => Phase[Kind(p, j)] <= Phase[Kind(p, i)]
  BY PipelineAssumption DEF Kind
<1>3. i # j
  BY <1>1
<1>. QED
  BY <1>1, <1>2, <1>3, LenIsNat DEF Steps

(* The key of a shared step is the same for all targets.                   *)
LEMMA SharedKey ==
  ASSUME NEW p, NEW i, NEW t, NEW u, Kind(p, i) \in SharedKinds
  PROVE  KeyOf(p, i, t) = KeyOf(p, i, u) /\ KeyOf(p, i, t) = <<p, i, Common>>
BY DEF KeyOf, Place

(* What is skipped in a package that is no checkout has its mark.          *)
LEMMA SkippableIsMarked ==
  ASSUME pkg \notin Vcs, Skippable(pkg, step, target)
  PROVE  Marked(pkg, step, target)
BY DEF Skippable, Marked

(* While marks stay and no target has a new one, only the last four parts  *)
(* of FrozenInv are at stake.                                              *)
LEMMA UsedMarked ==
  ASSUME FrozenInv, UNCHANGED marker,
         \A p \in Pkg \ Vcs : \A n \in 1..NPatches[p] :
             <<p, n>> \in pmarker => <<p, n>> \in pmarker'
  PROVE  (\A p \in Pkg \ Vcs : Used(p) =>
            \A i \in Steps(p), t \in Targets :
               Kind(p, i) \in SharedKinds => Marked(p, i, t))'
<1>. SUFFICES ASSUME NEW p \in Pkg \ Vcs, Used(p)', NEW i \in Steps(p), NEW t \in Targets,
                     Kind(p, i) \in SharedKinds
              PROVE  Marked(p, i, t)'
  BY DEF Steps, Kind
<1>1. Used(p)
  BY DEF Used, KeyOf, Place
<1>2. Marked(p, i, t)
  BY <1>1 DEF FrozenInv
<1>3. PatchesMarked(p) => PatchesMarked(p)'
  BY PipelineAssumption DEF PatchesMarked
<1>. QED
  BY <1>2, <1>3 DEF Marked, KeyOf, Place

(* Advance leads from a step with its mark to one before which all have.   *)
LEMMA AdvanceMarked ==
  ASSUME FrozenInv, Advance, pc # "idle", marker \subseteq marker', pmarker' = pmarker,
         pkg \notin Vcs => IF HereKind = "patch" THEN PatchesMarked(pkg) ELSE Here \in marker'
  PROVE  pc' # "idle" /\ pkg' \notin Vcs => (\A j \in 1..(step - 1) : Marked(pkg, j, target))'
<1>. USE DEF FrozenInv, TypeOK
<1>1. CASE NextStep
  <2>. SUFFICES ASSUME pkg \notin Vcs, NEW j \in 1..(step' - 1)
                PROVE  Marked(pkg, j, target)'
    BY <1>1 DEF NextStep, Marked, PatchesMarked, Kind, KeyOf, Place
  <2>1. step' - 1 = step /\ step \in Nat
    BY <1>1, LenIsNat DEF NextStep, Steps
  <2>2. CASE j = step
    BY <1>1, <2>2
    DEF NextStep, Marked, PatchesMarked, Kind, KeyOf, Place, Here, HereKind
  <2>3. CASE j # step
    <3>1. j \in 1..(step - 1) /\ j \in Steps(pkg)
      BY <2>1, <2>3, LenIsNat DEF Steps
    <3>2. Marked(pkg, j, target)
      BY <3>1
    <3>. QED
      BY <1>1, <3>1, <3>2 DEF NextStep, Marked, PatchesMarked, Kind, KeyOf, Place
  <2>. QED
    BY <2>2, <2>3
<1>2. CASE NextPackage \/ NextTarget
  BY <1>2 DEF NextPackage, NextTarget
<1>3. CASE Finish
  BY <1>3 DEF Finish, Exit
<1>. QED
  BY <1>1, <1>2, <1>3 DEF Advance

LEMMA FrozenInit == Init => FrozenInv
<1>. SUFFICES ASSUME Init PROVE FrozenInv
  OBVIOUS
<1>1. TypeOK
  BY TypeInit
<1>2. \A p \in Pkg : ~Used(p)
  BY DEF Init, Used
<1>3. pc = "idle"
  BY DEF Init
<1>. QED
  BY <1>1, <1>2, <1>3 DEF FrozenInv

LEMMA FrozenNext == FrozenInv /\ [Next]_vars => FrozenInv'
<1>. SUFFICES ASSUME FrozenInv, [Next]_vars PROVE FrozenInv'
  OBVIOUS
<1>t. TypeOK'
  BY TypeNext DEF FrozenInv
<1>. DEFINE UsedDone == \A p \in Pkg \ Vcs : Used(p) =>
                 \A i \in Steps(p), t \in Targets : Kind(p, i) \in SharedKinds => Marked(p, i, t)
             BehindDone == pc # "idle" /\ pkg \notin Vcs =>
                 \A j \in 1..(step - 1) : Marked(pkg, j, target)
             Inside ==
                 /\ pc \in {"work", "touch"} => HereKind # "patch"
                 /\ pc = "work" /\ pkg \notin Vcs => Here \notin marker
                 /\ pc \in {"clean", "revert", "pull"} => pkg \in Vcs /\ HereKind = "download"
                 /\ pc \in {"patch", "apply", "mark"} =>
                       /\ HereKind = "patch"
                       /\ \A n \in 1..(cur - 1) : n <= NPatches[pkg] => <<pkg, n>> \in pmarker
                       /\ cur <= NPatches[pkg] => ~PatchesMarked(pkg)
<1>. SUFFICES UsedDone' /\ BehindDone' /\ Inside'
  BY <1>t DEF FrozenInv
<1>. USE DEF FrozenInv, TypeOK
<1>i. ASSUME pc' \in {"idle", "enter"} PROVE Inside'
  BY <1>i
<1>s. ASSUME UNCHANGED <<where, marker>>, pc # "idle",
             pkg \notin Vcs => pmarker \subseteq pmarker'
      PROVE  BehindDone'
  <2>1. PatchesMarked(pkg) /\ pkg \notin Vcs => PatchesMarked(pkg)'
    BY <1>s DEF PatchesMarked, where
  <2>. QED
    BY <1>s, <2>1 DEF where, Marked, Kind, KeyOf, Place
<1>1. CASE \E ts \in SUBSET Targets, u \in BOOLEAN : StartRun(ts, u)
  BY <1>1, <1>i, UsedMarked DEF StartRun, disk
<1>2. CASE Skip
  <2>1. BehindDone'
    BY <1>2, SkippableIsMarked, AdvanceMarked DEF Skip, disk, Marked, Here, HereKind
  <2>. QED
    BY <1>2, <1>i, <2>1, UsedMarked, AdvanceType DEF Skip, disk
<1>3. CASE StartTool
  <2>1. pc' = "work" /\ Here' = Here /\ HereKind' = HereKind /\ HereKind # "patch"
    BY <1>3 DEF StartTool, where, Here, HereKind, KeyOf, Place
  <2>2. pkg \notin Vcs => Here \notin marker
    BY <1>3 DEF StartTool, Skippable, Here, HereKind
  <2>. QED
    BY <1>3, <1>s, <2>1, <2>2, UsedMarked DEF StartTool, where
<1>4. CASE ToolSucceeds \/ ToolFails
  BY <1>4, <1>i, <1>s, UsedMarked
  DEF ToolSucceeds, ToolFails, AfterFailure, where, HereKind, Kind
<1>5. CASE Touch
  <2>. USE DEF Touch
  <2>1. UsedDone'
    <3>. SUFFICES ASSUME NEW p \in Pkg \ Vcs, Used(p)', NEW i \in Steps(p), NEW t \in Targets,
                         Kind(p, i) \in SharedKinds
                  PROVE  Marked(p, i, t)'
      BY DEF Steps, Kind
    <3>1. CASE Used(p)
      <4>1. Marked(p, i, t)
        BY <3>1
      <4>. QED
        BY <1>5, <4>1, MarkedStays
    <3>2. CASE ~Used(p)
      <4>1. p = pkg /\ HereKind \in TargetKinds
        BY <1>5, <3>2, KeyOfIsInjective DEF Used, Here, HereKind, KeyOf, Place
      <4>2. i < step
        BY <4>1, SharedFirst DEF HereKind
      <4>3. Marked(pkg, i, target)
        BY <1>5, <4>1, <4>2, LenIsNat DEF Steps
      <4>4. Marked(pkg, i, t)
        BY <4>1, <4>3, SharedKey DEF Marked
      <4>. QED
        BY <1>5, <4>1, <4>4, MarkedStays
    <3>. QED
      BY <3>1, <3>2
  <2>2. BehindDone'
    BY <1>5, AdvanceMarked
  <2>. QED
    BY <1>5, <1>i, <2>1, <2>2, AdvanceType
<1>6. CASE StartUpdate \/ CleanEnds \/ Revert \/ Pull
  <2>1. UNCHANGED <<where, marker, pmarker>> /\ pc # "idle" /\ pkg \in Vcs
    BY <1>6 DEF StartUpdate, CleanEnds, Revert, Pull, disk
  <2>2. Inside'
    <3>1. HereKind = "download" /\ HereKind' = HereKind
      BY <1>6, <2>1 DEF StartUpdate, CleanEnds, Revert, Pull, where, HereKind
    <3>. QED
      BY <1>6, <2>1, <3>1 DEF StartUpdate, CleanEnds, Revert, Pull, where
  <2>. QED
    BY <1>s, <2>1, <2>2, UsedMarked
<1>7. CASE CleanOne
  <2>1. pkg \in Vcs
    BY <1>7 DEF CleanOne
  <2>2. \A p \in Pkg \ Vcs : \A n \in 1..NPatches[p] :
           <<p, n>> \in pmarker => <<p, n>> \in pmarker'
    BY <1>7, <2>1 DEF CleanOne, PatchesOf
  <2>. QED
    BY <1>7, <1>s, <2>1, <2>2, UsedMarked DEF CleanOne, where, HereKind
<1>8. CASE StartPatching
  <2>1. ~PatchesMarked(pkg) /\ HereKind = "patch" /\ HereKind' = HereKind
    BY <1>8 DEF StartPatching, Skippable, HereKind, where
  <2>2. Inside'
    BY <1>8, <2>1 DEF StartPatching, disk, where, PatchesMarked
  <2>. QED
    BY <1>8, <1>s, <2>2, UsedMarked DEF StartPatching, disk
<1>9. CASE PatchAlreadyMarked
  <2>1. Inside'
    BY <1>9 DEF PatchAlreadyMarked, disk, where, HereKind, HerePatch, PatchesMarked
  <2>. QED
    BY <1>9, <1>s, <2>1, UsedMarked DEF PatchAlreadyMarked, disk
<1>10. CASE DryRunSucceeds \/ ApplyPatch
  <2>1. Inside'
    BY <1>10 DEF DryRunSucceeds, ApplyPatch, disk, where, HereKind, PatchesMarked
  <2>. QED
    BY <1>10, <1>s, <2>1, UsedMarked DEF DryRunSucceeds, ApplyPatch, disk
<1>11. CASE MarkPatch
  <2>1. HereKind' = HereKind /\ HerePatch = <<pkg, cur>> /\ cur <= NPatches[pkg]
    BY <1>11 DEF MarkPatch, where, HereKind, HerePatch, Patch
  <2>2. cur' <= NPatches[pkg] => ~PatchesMarked(pkg)'
    BY <1>11, <2>1, PipelineAssumption DEF MarkPatch, where, PatchesMarked
  <2>3. Inside'
    BY <1>11, <2>1, <2>2 DEF MarkPatch, where
  <2>. QED
    BY <1>11, <1>s, <2>3, UsedMarked DEF MarkPatch
<1>12. CASE PatchingEnds
  <2>1. PatchesMarked(pkg) /\ HereKind = "patch"
    BY <1>12, PipelineAssumption DEF PatchingEnds, PatchesMarked
  <2>2. BehindDone'
    BY <1>12, <2>1, AdvanceMarked DEF PatchingEnds, disk
  <2>. QED
    BY <1>12, <1>i, <2>2, UsedMarked, AdvanceType DEF PatchingEnds, disk
<1>13. CASE DryRunFails \/ Kill
  BY <1>13, <1>i, UsedMarked DEF DryRunFails, Kill, Exit, disk
<1>14. CASE UNCHANGED vars
  BY <1>14 DEF vars, Used, Marked, PatchesMarked, Here, HereKind, KeyOf, Place
<1>. QED
  BY <1>1, <1>2, <1>3, <1>4, <1>5, <1>6, <1>7, <1>8, <1>9, <1>10, <1>11, <1>12, <1>13, <1>14
  DEF Next, RunStep

(* A step that changes a shared tree of an archive package finds it not    *)
(* used by any target.                                                     *)
LEMMA FrozenStep ==
  ASSUME FrozenInv, [Next]_vars, NEW p \in Pkg \ Vcs, Used(p)
  PROVE  SharedTree(p)' = SharedTree(p)
<1>. USE DEF FrozenInv, TypeOK
<1>1. ASSUME UNCHANGED <<product, applied>> PROVE SharedTree(p)' = SharedTree(p)
  BY <1>1 DEF SharedTree, Steps, Kind
<1>2. \A i \in Steps(p) : Kind(p, i) \in SharedKinds /\ Kind(p, i) # "patch" =>
         <<p, i, Common>> \in marker
  <2>1. PICK t \in Targets : TRUE
    BY PipelineAssumption
  <2>2. \A i \in Steps(p) : Kind(p, i) \in SharedKinds => Marked(p, i, t)
    OBVIOUS
  <2>. QED
    BY <2>2, SharedKey DEF Marked
<1>3. ASSUME (Here \notin marker /\ HereKind # "patch") \/ pkg \in Vcs, UNCHANGED applied,
             NEW q, product' = [product EXCEPT ![Here] = q]
      PROVE  SharedTree(p)' = SharedTree(p)
  <2>1. \A i \in Steps(p) : Kind(p, i) \in SharedKinds => <<p, i, Common>> # Here
    BY <1>2, <1>3 DEF Here, HereKind, KeyOf
  <2>2. \A i \in Steps(p) : Kind(p, i) \in SharedKinds =>
           product'[<<p, i, Common>>] = product[<<p, i, Common>>]
    BY <1>3, <2>1
  <2>. QED
    BY <1>3, <2>2 DEF SharedTree, Steps, Kind
<1>4. ASSUME pkg # p, UNCHANGED product,
             \A a \in Patch : a[1] # pkg => applied'[a] = applied[a]
      PROVE  SharedTree(p)' = SharedTree(p)
  <2>1. \A n \in 1..NPatches[p] : applied'[<<p, n>>] = applied[<<p, n>>]
    BY <1>4 DEF Patch
  <2>. QED
    BY <1>4, <2>1 DEF SharedTree, Steps, Kind
<1>5. pc = "apply" => pkg # p
  <2>. SUFFICES ASSUME pc = "apply", pkg = p PROVE FALSE
    OBVIOUS
  <2>1. PatchesMarked(p)
    BY PipelineAssumption DEF Marked, HereKind, SharedKinds
  <2>2. cur <= NPatches[pkg]
    BY DEF HerePatch, Patch
  <2>. QED
    BY <2>1, <2>2
<1>6. CASE StartTool
  <2>1. pkg \notin Vcs => Here \notin marker
    BY <1>6 DEF StartTool, Skippable, Here, HereKind
  <2>. QED
    BY <1>1, <1>3, <1>6, <2>1 DEF StartTool
<1>7. CASE ToolSucceeds
  BY <1>3, <1>7 DEF ToolSucceeds
<1>8. CASE ToolFails
  BY <1>1, <1>3, <1>8 DEF ToolFails, StopHalfWay
<1>9. CASE Revert
  BY <1>1, <1>4, <1>9 DEF Revert, SetPatches
<1>10. CASE Pull
  BY <1>3, <1>10 DEF Pull
<1>11. CASE ApplyPatch
  BY <1>4, <1>5, <1>11 DEF ApplyPatch, HerePatch
<1>12. CASE Kill
  <2>1. CASE pc \in {"work", "pull"}
    BY <1>1, <1>3, <1>12, <2>1 DEF Kill, StopHalfWay
  <2>2. CASE pc = "apply"
    BY <1>1, <1>4, <1>5, <1>12, <2>2 DEF Kill, HerePatch
  <2>3. CASE pc = "revert"
    BY <1>1, <1>4, <1>12, <2>3 DEF Kill, SetPatches
  <2>. QED
    BY <1>1, <1>12, <2>1, <2>2, <2>3 DEF Kill
<1>13. CASE UNCHANGED <<product, applied>>
  BY <1>1, <1>13
<1>. QED
  BY <1>6, <1>7, <1>8, <1>9, <1>10, <1>11, <1>12, <1>13
  DEF Next, RunStep, StartRun, Skip, StartUpdate, CleanOne, CleanEnds, StartPatching,
      PatchAlreadyMarked, DryRunSucceeds, DryRunFails, MarkPatch, PatchingEnds, Touch, disk, vars

(* Once a target was configured or built from the sources of an archive    *)
(* package, no run and no other target changes them, under every fault.    *)
THEOREM SourcesStayFrozen == Spec => SourcesFrozen
<1>1. FrozenInv /\ [Next]_vars =>
         [\A p \in Pkg \ Vcs : Used(p) => SharedTree(p)' = SharedTree(p)]_vars
  BY FrozenStep
<1>. QED
  BY <1>1, FrozenInit, FrozenNext, PTL DEF Spec, SourcesFrozen

-----------------------------------------------------------------------------
(* A package from an archive with a patch that is in the tree, in full or  *)
(* in part, and has no marker is never built again, under every fault.     *)

LEMMA WedgeInit == Init => WedgeInv
<1>. SUFFICES ASSUME Init PROVE WedgeInv
  OBVIOUS
<1>1. FrozenInv
  BY FrozenInit
<1>2. \A p \in Pkg \ Vcs : \A n \in 1..NPatches[p] : applied[<<p, n>>] = "no" /\ ~PatchesMarked(p)
  BY PipelineAssumption DEF Init, Patch, PatchesMarked
<1>. QED
  BY <1>1, <1>2 DEF WedgeInv

LEMMA WedgeNext == WedgeInv /\ [Next]_vars => WedgeInv'
<1>. SUFFICES ASSUME WedgeInv, [Next]_vars, NEW p \in Pkg \ Vcs, NEW n \in 1..NPatches[p]
              PROVE  /\ PatchesMarked(p)' => <<p, n>> \in pmarker'
                     /\ applied'[<<p, n>>] # "no" => \E i \in Steps(p) : Kind(p, i) = "patch"
  BY FrozenNext DEF WedgeInv, Steps, Kind
<1>. USE DEF WedgeInv, FrozenInv, TypeOK
<1>1. ASSUME UNCHANGED <<pmarker, applied>>
      PROVE  /\ PatchesMarked(p)' => <<p, n>> \in pmarker'
             /\ applied'[<<p, n>>] # "no" => \E i \in Steps(p) : Kind(p, i) = "patch"
  BY <1>1 DEF PatchesMarked
<1>2. pc \in {"apply", "mark"} => HereKind = "patch" /\ HerePatch \in Patch
  OBVIOUS
<1>3. ASSUME p # pkg, UNCHANGED pmarker, \A a \in Patch : a[1] # pkg => applied'[a] = applied[a]
      PROVE  /\ PatchesMarked(p)' => <<p, n>> \in pmarker'
             /\ applied'[<<p, n>>] # "no" => \E i \in Steps(p) : Kind(p, i) = "patch"
  BY <1>3 DEF PatchesMarked, Patch
<1>4. CASE \/ \E ts \in SUBSET Targets, u \in BOOLEAN : StartRun(ts, u)
           \/ Skip \/ StartTool \/ ToolSucceeds \/ ToolFails \/ Touch \/ StartUpdate
           \/ CleanEnds \/ Pull \/ StartPatching \/ PatchAlreadyMarked \/ DryRunSucceeds
           \/ DryRunFails \/ PatchingEnds \/ UNCHANGED vars
  BY <1>1, <1>4
  DEF StartRun, Skip, StartTool, ToolSucceeds, ToolFails, Touch, StartUpdate, CleanEnds,
      Pull, StartPatching, PatchAlreadyMarked, DryRunSucceeds, DryRunFails,
      PatchingEnds, disk, vars
<1>5. CASE CleanOne
  <2>1. pkg # p
    BY <1>5 DEF CleanOne
  <2>2. \A m \in 1..NPatches[p] : <<p, m>> \in pmarker' <=> <<p, m>> \in pmarker
    BY <1>5, <2>1 DEF CleanOne, PatchesOf
  <2>. QED
    BY <1>5, <2>2, PipelineAssumption DEF CleanOne, PatchesMarked
<1>6. CASE Revert
  BY <1>3, <1>6 DEF Revert, SetPatches
<1>7. CASE ApplyPatch
  <2>1. CASE p = pkg
    BY <1>2, <1>7, <2>1 DEF ApplyPatch, HereKind, PatchesMarked
  <2>2. CASE p # pkg
    BY <1>3, <1>7, <2>2 DEF ApplyPatch, HerePatch
  <2>. QED
    BY <2>1, <2>2
<1>8. CASE MarkPatch
  <2>1. applied' = applied /\ pmarker' = pmarker \union {<<pkg, cur>>} /\ pc = "mark"
    BY <1>8 DEF MarkPatch, HerePatch
  <2>2. ASSUME PatchesMarked(p)', ~PatchesMarked(p) PROVE <<p, n>> \in pmarker'
    <3>1. p = pkg /\ cur = NPatches[p]
      BY <2>1, <2>2 DEF PatchesMarked
    <3>2. n < cur => <<p, n>> \in pmarker
      BY <2>1, <3>1, PipelineAssumption
    <3>. QED
      BY <2>1, <3>1, <3>2, PipelineAssumption
  <2>. QED
    BY <2>1, <2>2
<1>9. CASE Kill
  <2>1. CASE pc = "apply" \/ pc = "revert"
    <3>1. CASE p = pkg
      BY <1>2, <1>9, <2>1, <3>1 DEF Kill, HereKind, PatchesMarked
    <3>2. CASE p # pkg
      BY <1>3, <1>9, <2>1, <3>2 DEF Kill, HerePatch, SetPatches
    <3>. QED
      BY <3>1, <3>2
  <2>2. CASE pc # "apply" /\ pc # "revert"
    BY <1>1, <1>9, <2>2 DEF Kill
  <2>. QED
    BY <2>1, <2>2
<1>. QED
  BY <1>4, <1>5, <1>6, <1>7, <1>8, <1>9 DEF Next, RunStep

(* Patch n of p is in the tree without a marker, and is not being applied. *)
Stranded(p, n) ==
    /\ applied[<<p, n>>] # "no" /\ <<p, n>> \notin pmarker
    /\ ~(pc \in {"apply", "mark"} /\ HerePatch = <<p, n>>)

LEMMA StrandedStays ==
  ASSUME WedgeInv, [Next]_vars, NEW p \in Pkg \ Vcs, NEW n \in 1..NPatches[p], Stranded(p, n)
  PROVE  Stranded(p, n)'
<1>. USE DEF WedgeInv, FrozenInv, TypeOK, Stranded
<1>p. <<p, n>> \in Patch
  BY DEF Patch
<1>1. CASE \/ \E ts \in SUBSET Targets, u \in BOOLEAN : StartRun(ts, u)
           \/ Skip \/ StartTool \/ ToolSucceeds \/ ToolFails \/ Touch \/ StartUpdate
           \/ CleanEnds \/ Pull \/ StartPatching \/ PatchAlreadyMarked
           \/ DryRunFails \/ PatchingEnds \/ UNCHANGED vars
  BY <1>1, AdvanceType
  DEF StartRun, Skip, StartTool, ToolSucceeds, ToolFails, AfterFailure, Touch, StartUpdate,
      CleanEnds, Pull, StartPatching, PatchAlreadyMarked, DryRunFails, PatchingEnds,
      Exit, disk, vars, HerePatch
<1>2. CASE DryRunSucceeds
  BY <1>2 DEF DryRunSucceeds, disk, where, HerePatch
<1>3. CASE CleanOne
  BY <1>3 DEF CleanOne, where, HerePatch
<1>4. CASE Revert
  BY <1>4, <1>p DEF Revert, SetPatches, where, HerePatch
<1>5. CASE ApplyPatch
  BY <1>5, <1>p DEF ApplyPatch, where, HerePatch
<1>6. CASE MarkPatch
  BY <1>6 DEF MarkPatch, where, HerePatch
<1>7. CASE Kill
  BY <1>7, <1>p DEF Kill, Exit, SetPatches, HerePatch
<1>. QED
  BY <1>1, <1>2, <1>3, <1>4, <1>5, <1>6, <1>7 DEF Next, RunStep

(* No target has installed a package with a stranded patch.                *)
LEMMA StrandedNotInstalled ==
  ASSUME WedgeInv, NEW p \in Pkg \ Vcs, NEW n \in 1..NPatches[p], Stranded(p, n)
  PROVE  \A t \in Targets : InstallKey(p, t) \notin marker
<1>. SUFFICES ASSUME NEW t \in Targets, InstallKey(p, t) \in marker PROVE FALSE
  OBVIOUS
<1>1. Len(Recipe[p]) \in Steps(p) /\ Kind(p, Len(Recipe[p])) \in TargetKinds
  BY LenIsNat, PipelineAssumption DEF Steps, Kind, TargetKinds
<1>2. Used(p)
  BY <1>1 DEF Used, InstallKey
<1>3. PICK i \in Steps(p) : Kind(p, i) = "patch"
  BY DEF WedgeInv, Stranded
<1>4. PatchesMarked(p)
  BY <1>2, <1>3 DEF WedgeInv, FrozenInv, Marked, SharedKinds
<1>. QED
  BY <1>4 DEF WedgeInv, Stranded

(* Of an archive package with a patch that is in the tree and has no       *)
(* marker, as a kill in func_apply_patches may leave it, nothing is ever   *)
(* built again.                                                            *)
THEOREM WedgedStaysUnbuilt == Spec => WedgeIsFinal
<1>. SUFFICES ASSUME NEW p \in Pkg \ Vcs
              PROVE  Spec => [](Wedged(p) => [](\A t \in Targets : InstallKey(p, t) \notin marker))
  BY DEF WedgeIsFinal
<1>. DEFINE Stuck == \E n \in 1..NPatches[p] : Stranded(p, n)
            Never == \A t \in Targets : InstallKey(p, t) \notin marker
<1>1. Wedged(p) => Stuck
  BY DEF Wedged, Stranded
<1>2. WedgeInv /\ Stuck => Never
  BY StrandedNotInstalled
<1>3. WedgeInv /\ Stuck /\ [Next]_vars => Stuck'
  BY StrandedStays
<1>4. Spec => []WedgeInv
  BY WedgeInit, WedgeNext, PTL DEF Spec
<1>. HIDE DEF Stuck, Never
<1>5. Spec => [](Wedged(p) => []Never)
  BY <1>1, <1>2, <1>3, <1>4, PTL DEF Spec
<1>. QED
  BY <1>5 DEF Never
=============================================================================
