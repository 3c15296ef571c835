---------------------------- MODULE DamageProofs -----------------------------
(***************************************************************************)
(* Proofs about Pipeline under every fault, torn checkouts, patches that   *)
(* go wrong unnoticed and archives unpacked with --ignore among them: the  *)
(* damage does not reach back to the packages before it.                   *)
(***************************************************************************)
EXTENDS PipelineProofs

-----------------------------------------------------------------------------
(* Verified packages.                                                      *)

LEMMA VerifiedIs ==
  ASSUME NEW p \in Pkg, Verified(p)
  PROVE  /\ p \notin Vcs /\ p \notin Lenient
         /\ \A n \in 1..NPatches[p] : applied[<<p, n>>] # "torn"
<1>1. p \in 1..p
  BY DEF Pkg
<1>. QED
  BY <1>1 DEF Verified, Unverified

LEMMA VerifiedBefore ==
  ASSUME NEW p \in Pkg, Verified(p), NEW q \in 1..p
  PROVE  q \in Pkg /\ Verified(q)
<1>1. q \in Pkg /\ \A r \in 1..q : r \in 1..p
  BY PipelineAssumption DEF Pkg
<1>. QED
  BY <1>1 DEF Verified

(* A patch that went wrong in a package from an archive stays.             *)
LEMMA TornStays ==
  ASSUME DamageInv, [Next]_vars, NEW p \in Pkg \ Vcs, NEW n \in 1..NPatches[p],
         applied[<<p, n>>] = "torn"
  PROVE  applied'[<<p, n>>] = "torn"
<1>. USE DEF DamageInv, WedgeInv, FrozenInv, TypeOK
<1>p. <<p, n>> \in Patch
  BY DEF Patch
<1>1. CASE Revert
  BY <1>1, <1>p DEF Revert, SetPatches
<1>2. CASE ApplyPatch
  BY <1>2, <1>p DEF ApplyPatch
<1>3. CASE Kill
  BY <1>3, <1>p DEF Kill, SetPatches
<1>4. CASE UNCHANGED applied
  BY <1>4
<1>. QED
  BY <1>1, <1>2, <1>3, <1>4
  DEF Next, RunStep, StartRun, Skip, StartTool, ToolSucceeds, ToolFails, Touch, StartUpdate,
      CleanOne, CleanEnds, Pull, StartPatching, PatchAlreadyMarked, DryRunSucceeds,
      DryRunFails, MarkPatch, PatchingEnds, disk, vars

LEMMA VerifiedStays ==
  ASSUME DamageInv, [Next]_vars, NEW p \in Pkg, Verified(p)'
  PROVE  Verified(p)
<1>. SUFFICES ASSUME NEW q \in 1..p, Unverified(q) PROVE FALSE
  BY DEF Verified
<1>1. q \in Pkg /\ ~Unverified(q)'
  BY PipelineAssumption DEF Verified, Pkg
<1>2. q \notin Vcs \union Lenient
  BY <1>1 DEF Unverified
<1>3. PICK n \in 1..NPatches[q] : applied[<<q, n>>] = "torn"
  BY <1>2 DEF Unverified
<1>4. applied'[<<q, n>>] = "torn"
  BY <1>1, <1>2, <1>3, TornStays
<1>. QED
  BY <1>1, <1>4 DEF Unverified

(* In a verified package the marker of the last patch vouches for all.     *)
LEMMA PatchesVerified ==
  ASSUME DamageInv, NEW p \in Pkg, Verified(p), PatchesMarked(p)
  PROVE  FullyPatched(p)
<1>. SUFFICES ASSUME NEW n \in 1..NPatches[p] PROVE applied[<<p, n>>] = "yes"
  BY DEF FullyPatched
<1>1. p \notin Vcs /\ applied[<<p, n>>] # "torn"
  BY VerifiedIs
<1>2. applied[<<p, n>>] \in Progress
  BY DEF DamageInv, WedgeInv, FrozenInv, TypeOK, Patch
<1>. QED
  BY <1>1, <1>2 DEF DamageInv, WedgeInv, Progress

LEMMA MarkedIsGood ==
  ASSUME DamageInv, NEW k \in marker, Verified(k[1])
  PROVE  product[k] = "good"
BY DEF DamageInv, DamageConfined, Verified

LEMMA VerifiedSkip ==
  ASSUME DamageInv, Verified(pkg), Skippable(pkg, step, target)
  PROVE  Sound(pkg, step, target)
<1>1. pkg \in Pkg /\ pkg \notin Vcs
  BY VerifiedIs DEF DamageInv, WedgeInv, FrozenInv, TypeOK
<1>2. CASE Kind(pkg, step) = "patch" /\ PatchesMarked(pkg)
  BY <1>1, <1>2, PatchesVerified DEF Sound
<1>3. CASE Kind(pkg, step) # "patch" /\ KeyOf(pkg, step, target) \in marker
  BY <1>3, MarkedIsGood DEF Sound, KeyOf
<1>. QED
  BY <1>1, <1>2, <1>3 DEF Skippable

LEMMA PastInputs ==
  ASSUME PastGood
  PROVE  InputsGood(pkg, step, target)
BY DEF PastGood, InputsGood

-----------------------------------------------------------------------------
(* The products of a verified package only change while it is built.       *)

LEMMA ConfinedNext == DamageInv /\ TypeOK' /\ [Next]_vars => DamageConfined'
<1>. SUFFICES ASSUME DamageInv, TypeOK', [Next]_vars,
                     NEW k \in marker', Verified(k[1])'
              PROVE  product'[k] = "good"
  BY DEF DamageConfined, Verified
<1>t. TypeOK /\ FrozenInv
  BY DEF DamageInv, WedgeInv, FrozenInv
<1>k. k \in Key /\ k[1] \in Pkg
  <2>1. k \in Key
    BY DEF TypeOK
  <2>. QED
    BY <2>1 DEF Key, KeyOf
<1>v. Verified(k[1]) /\ k[1] \notin Vcs
  BY <1>k, VerifiedStays, VerifiedIs
<1>h. Here[1] = pkg
  BY DEF Here, KeyOf
<1>1. ASSUME UNCHANGED <<marker, product>> PROVE product'[k] = "good"
  BY <1>1, <1>v, MarkedIsGood
<1>2. ASSUME marker' = marker, Here \notin marker \/ pkg \in Vcs,
             NEW q, product' = [product EXCEPT ![Here] = q]
      PROVE  product'[k] = "good"
  BY <1>2, <1>k, <1>v, <1>h, <1>t, MarkedIsGood DEF TypeOK
<1>3. pc = "work" => Here \notin marker \/ pkg \in Vcs
  BY <1>t DEF FrozenInv
<1>4. CASE StartTool
  <2>1. Here \notin marker \/ pkg \in Vcs
    BY <1>4 DEF StartTool, Skippable, Here, HereKind
  <2>. QED
    BY <1>1, <1>2, <1>4, <2>1 DEF StartTool
<1>5. CASE ToolSucceeds
  BY <1>2, <1>3, <1>5 DEF ToolSucceeds
<1>6. CASE ToolFails
  BY <1>1, <1>2, <1>3, <1>6 DEF ToolFails, StopHalfWay
<1>7. CASE Pull
  <2>1. pkg \in Vcs
    BY <1>7, <1>t DEF Pull, FrozenInv
  <2>. QED
    BY <1>2, <1>7, <2>1 DEF Pull
<1>8. CASE Kill
  <2>1. pc \in {"work", "pull"} => Here \notin marker \/ pkg \in Vcs
    BY <1>3, <1>t DEF FrozenInv
  <2>. QED
    BY <1>1, <1>2, <1>8, <2>1 DEF Kill, StopHalfWay
<1>9. CASE Touch
  <2>1. CASE k \in marker
    BY <1>9, <1>v, <2>1, MarkedIsGood DEF Touch
  <2>2. CASE k = Here
    BY <1>9, <1>v, <1>h, <2>2 DEF Touch, DamageInv
  <2>. QED
    BY <1>9, <2>1, <2>2 DEF Touch
<1>. QED
  BY <1>1, <1>4, <1>5, <1>6, <1>7, <1>8, <1>9
  DEF Next, RunStep, StartRun, Skip, StartUpdate, CleanOne, CleanEnds, Revert, StartPatching,
      PatchAlreadyMarked, DryRunSucceeds, DryRunFails, ApplyPatch, MarkPatch, PatchingEnds,
      disk, vars

-----------------------------------------------------------------------------
(* Patches and their markers.                                              *)

PatchesKept ==
    /\ \A p \in Pkg \ Vcs : \A n \in 1..NPatches[p] :
          <<p, n>> \in pmarker => applied[<<p, n>>] # "no"
    /\ pc = "apply" => HerePatch \notin pmarker /\ applied[HerePatch] = "no"
    /\ pc = "mark" => applied[HerePatch] # "no"

LEMMA PatchesKeptNext == DamageInv /\ TypeOK' /\ [Next]_vars => PatchesKept'
<1>. SUFFICES ASSUME DamageInv, TypeOK', [Next]_vars PROVE PatchesKept'
  OBVIOUS
<1>. USE DEF PatchesKept
<1>t. TypeOK /\ FrozenInv /\ PatchesKept
  BY DEF DamageInv, WedgeInv, FrozenInv
<1>p. \A p \in Pkg : \A n \in 1..NPatches[p] : <<p, n>> \in Patch
  BY DEF Patch
<1>1. ASSUME UNCHANGED <<pmarker, applied>>, pc' \notin {"apply", "mark"} PROVE PatchesKept'
  BY <1>1, <1>t
<1>2. CASE DryRunSucceeds
  BY <1>2, <1>t DEF DryRunSucceeds, disk, where, HerePatch
<1>3. CASE ApplyPatch
  <2>1. HerePatch \in Patch /\ HerePatch' = HerePatch
    BY <1>3, <1>t DEF ApplyPatch, TypeOK, where, HerePatch
  <2>. QED
    BY <1>3, <1>t, <1>p, <2>1 DEF ApplyPatch, TypeOK
<1>4. CASE MarkPatch
  BY <1>4, <1>t DEF MarkPatch, HerePatch
<1>5. CASE CleanOne
  BY <1>5, <1>t DEF CleanOne
<1>6. CASE Revert
  <2>1. pkg \in Vcs
    BY <1>6, <1>t DEF Revert, FrozenInv
  <2>. QED
    BY <1>6, <1>t, <1>p, <2>1 DEF Revert, SetPatches
<1>7. CASE Kill
  <2>1. CASE pc = "revert"
    BY <1>7, <1>t, <1>p, <2>1 DEF Kill, Exit, SetPatches
  <2>2. CASE pc = "apply"
    BY <1>7, <1>t, <1>p, <2>2 DEF Kill, Exit, TypeOK
  <2>3. CASE pc \notin {"revert", "apply"}
    BY <1>1, <1>7, <2>3 DEF Kill, Exit
  <2>. QED
    BY <2>1, <2>2, <2>3
<1>8. CASE UNCHANGED vars
  BY <1>8, <1>t DEF vars, HerePatch
<1>9. CASE Skip \/ Touch \/ PatchingEnds
  BY <1>1, <1>9, <1>t, AdvanceType DEF Skip, Touch, PatchingEnds, disk
<1>10. CASE \/ \E ts \in SUBSET Targets, u \in BOOLEAN : StartRun(ts, u)
            \/ StartTool \/ ToolSucceeds \/ ToolFails \/ StartUpdate \/ CleanEnds \/ Pull
            \/ StartPatching \/ PatchAlreadyMarked \/ DryRunFails
  BY <1>1, <1>10
  DEF StartRun, StartTool, ToolSucceeds, ToolFails, AfterFailure, StartUpdate, CleanEnds,
      Pull, StartPatching, PatchAlreadyMarked, DryRunFails, Exit, disk
<1>. QED
  BY <1>2, <1>3, <1>4, <1>5, <1>6, <1>7, <1>8, <1>9, <1>10 DEF Next, RunStep

-----------------------------------------------------------------------------
(* What a run has come past in a verified package.                         *)

(* Advance leads from a step that is done to one before which all are.     *)
LEMMA AdvancePast ==
  ASSUME DamageInv, TypeOK', [Next]_vars, Advance, pc # "idle", UNCHANGED <<product, applied>>,
         Verified(pkg) => Sound(pkg, step, target),
         Verified(pkg)'
  PROVE  pc' # "idle" => PastGood'
<1>t. TypeOK
  BY DEF DamageInv, WedgeInv, FrozenInv
<1>n. pkg \in Nat /\ step \in Nat /\ step >= 1 /\ pkg >= 1 /\ pkg \in Pkg /\ pkg' \in Pkg
  BY <1>t, LenIsNat, PipelineAssumption DEF TypeOK, Steps, Pkg
<1>v. Verified(pkg')
  BY <1>n, VerifiedStays DEF Verified, Unverified
<1>1. CASE NextStep
  <2>1. pkg' = pkg /\ step' = step + 1 /\ target' = target
    BY <1>1 DEF NextStep
  <2>2. PastGood /\ Sound(pkg, step, target)
    BY <1>v, <2>1 DEF DamageInv
  <2>3. \A j \in 1..(step' - 1) : Sound(pkg, j, target)
    BY <1>n, <2>1, <2>2 DEF PastGood
  <2>4. (\A j \in 1..(step - 1) : Sound(pkg, j, target))'
    BY <2>1, <2>3 DEF Sound, FullyPatched, KeyOf, Place, Kind
  <2>5. (\A q \in 1..(pkg - 1) : product[InstallKey(q, target)] = "good")'
    BY <2>1, <2>2 DEF PastGood, InstallKey, KeyOf, Place, Kind
  <2>. QED
    BY <2>4, <2>5 DEF PastGood
<1>2. CASE NextPackage
  <2>1. pkg' = pkg + 1 /\ step' = 1 /\ target' = target /\ step = Len(Recipe[pkg])
    BY <1>2 DEF NextPackage
  <2>2. Verified(pkg)
    BY <1>n, <1>v, <2>1, VerifiedBefore
  <2>3. PastGood /\ Sound(pkg, step, target)
    BY <2>2 DEF DamageInv
  <2>4. product[InstallKey(pkg, target)] = "good"
    BY <1>n, <2>1, <2>3, LastIsMake DEF Sound, InstallKey
  <2>5. \A q \in 1..(pkg' - 1) : product[InstallKey(q, target)] = "good"
    BY <1>n, <2>1, <2>3, <2>4 DEF PastGood
  <2>6. (\A q \in 1..(pkg - 1) : product[InstallKey(q, target)] = "good")'
    BY <2>1, <2>5 DEF InstallKey, KeyOf, Place, Kind
  <2>. QED
    BY <2>1, <2>6 DEF PastGood
<1>3. CASE NextTarget
  BY <1>3 DEF NextTarget, PastGood
<1>4. CASE Finish
  BY <1>4 DEF Finish, Exit
<1>. QED
  BY <1>1, <1>2, <1>3, <1>4 DEF Advance

(* A step at work changes nothing that the run has come past.              *)
LEMMA PastElsewhere ==
  ASSUME TypeOK, PastGood, UNCHANGED where,
         UNCHANGED product \/ \E q : product' = [product EXCEPT ![Here] = q],
         \/ UNCHANGED applied
         \/ \E p \in Patch : \E v : /\ applied[p] = "no" /\ p[1] = pkg
                                   /\ applied' = [applied EXCEPT ![p] = v]
  PROVE  PastGood'
<1>n. pkg \in Nat /\ step \in Nat /\ step \in Steps(pkg) /\ pkg \in Pkg
  BY LenIsNat, PipelineAssumption DEF TypeOK, Steps, Pkg
<1>1. ASSUME NEW k \in Key, k # Here PROVE product'[k] = product[k]
  BY <1>1 DEF TypeOK
<1>2. FullyPatched(pkg) => applied' = applied
  BY DEF FullyPatched, Patch
<1>3. ASSUME NEW j \in 1..(step - 1) PROVE Sound(pkg, j, target)'
  <2>1. Sound(pkg, j, target) /\ j \in Steps(pkg) /\ j # step
    BY <1>n, LenIsNat DEF PastGood, Steps
  <2>2. KeyOf(pkg, j, target) \in Key /\ KeyOf(pkg, j, target) # Here
    BY <1>n, <2>1, KeyOfIsKey, KeyOfIsInjective DEF Here, TypeOK
  <2>3. product'[KeyOf(pkg, j, target)] = product[KeyOf(pkg, j, target)]
    BY <1>1, <2>2
  <2>. QED
    BY <1>2, <2>1, <2>3 DEF Sound, FullyPatched, where, KeyOf, Place, Kind
<1>4. ASSUME NEW q \in 1..(pkg - 1) PROVE product'[InstallKey(q, target)] = "good"
  <2>1. q \in Pkg /\ q # pkg
    BY <1>n, PipelineAssumption DEF Pkg
  <2>2. InstallKey(q, target) \in Key /\ InstallKey(q, target) # Here
    BY <2>1, LastIsMake, KeyOfIsKey, KeyOfIsInjective DEF InstallKey, Here, TypeOK
  <2>. QED
    BY <1>1, <2>2 DEF PastGood
<1>. QED
  BY <1>3, <1>4 DEF PastGood, where, InstallKey, KeyOf, Place, Kind

RunKept ==
    Verified(pkg) =>
        /\ pc # "idle" => PastGood
        /\ pc = "work" /\ HereKind = "download" => product[Here] = "none"
        /\ pc = "touch" => product[Here] = "good"

LEMMA RunKeptNext == DamageInv /\ TypeOK' /\ [Next]_vars => RunKept'
<1>. SUFFICES ASSUME DamageInv, TypeOK', [Next]_vars, Verified(pkg)'
              PROVE  /\ pc' # "idle" => PastGood'
                     /\ pc' = "work" /\ HereKind' = "download" => product'[Here'] = "none"
                     /\ pc' = "touch" => product'[Here'] = "good"
  BY DEF RunKept
<1>t. TypeOK /\ FrozenInv /\ pkg \in Pkg /\ pkg' \in Pkg /\ Here \in Key
  BY HereIsKey DEF DamageInv, WedgeInv, FrozenInv, TypeOK
<1>v. UNCHANGED where => Verified(pkg) /\ pkg \notin Vcs /\ pkg \notin Lenient
  BY <1>t, VerifiedStays, VerifiedIs DEF where, Verified, Unverified
<1>h. UNCHANGED where => Here' = Here /\ HereKind' = HereKind
  BY DEF where, Here, HereKind, KeyOf, Place, Kind
<1>1. CASE \E ts \in SUBSET Targets, u \in BOOLEAN : StartRun(ts, u)
  BY <1>1 DEF StartRun, PastGood
<1>2. CASE Skip
  BY <1>2, <1>t, VerifiedSkip, AdvancePast, AdvanceType DEF Skip, disk
<1>3. CASE StartTool
  <2>1. PastGood
    BY <1>3, <1>v DEF StartTool, DamageInv
  <2>2. PastGood'
    BY <1>3, <1>t, <2>1, PastElsewhere DEF StartTool
  <2>3. HereKind = "download" => product'[Here] = "none"
    BY <1>3, <1>t DEF StartTool, Cleared, TypeOK
  <2>. QED
    BY <1>3, <1>h, <2>2, <2>3 DEF StartTool
<1>4. CASE ToolSucceeds
  <2>1. PastGood /\ Made(product[Here]) = "good"
    BY <1>4, <1>v, PastInputs DEF ToolSucceeds, DamageInv, Made
  <2>2. PastGood'
    BY <1>4, <1>t, <2>1, PastElsewhere DEF ToolSucceeds
  <2>. QED
    BY <1>4, <1>t, <1>h, <2>1, <2>2 DEF ToolSucceeds, TypeOK
<1>5. CASE ToolFails
  BY <1>5, <1>v DEF ToolFails, AfterFailure
<1>6. CASE Touch
  <2>1. Verified(pkg) => Sound(pkg, step, target)
    BY <1>6, <1>t DEF Touch, DamageInv, Sound, Here, HereKind, FrozenInv
  <2>. QED
    BY <1>6, <1>t, <2>1, AdvancePast, AdvanceType DEF Touch
<1>7. CASE StartUpdate \/ CleanOne \/ CleanEnds \/ Revert \/ Pull
  <2>1. pkg \in Vcs /\ UNCHANGED where
    BY <1>7, <1>t DEF StartUpdate, CleanOne, CleanEnds, Revert, Pull, FrozenInv
  <2>. QED
    BY <1>v, <2>1
<1>8. CASE StartPatching \/ PatchAlreadyMarked \/ DryRunSucceeds \/ MarkPatch
  <2>1. UNCHANGED <<where, product, applied>> /\ pc # "idle" /\ pc' \notin {"work", "touch"}
    BY <1>8 DEF StartPatching, PatchAlreadyMarked, DryRunSucceeds, MarkPatch, disk
  <2>2. PastGood
    BY <1>v, <2>1 DEF DamageInv
  <2>. QED
    BY <1>t, <2>1, <2>2, PastElsewhere
<1>9. CASE ApplyPatch
  <2>1. PastGood
    BY <1>9, <1>v DEF ApplyPatch, DamageInv
  <2>2. HerePatch \in Patch /\ HerePatch[1] = pkg /\ applied[HerePatch] = "no"
    BY <1>9, <1>t DEF ApplyPatch, TypeOK, DamageInv, HerePatch
  <2>. QED
    BY <1>9, <1>t, <2>1, <2>2, PastElsewhere DEF ApplyPatch
<1>10. CASE PatchingEnds
  <2>1. HereKind = "patch" /\ PatchesMarked(pkg)
    BY <1>10, <1>t, PipelineAssumption DEF PatchingEnds, FrozenInv, TypeOK, PatchesMarked
  <2>2. Verified(pkg) => Sound(pkg, step, target)
    BY <1>t, <2>1, PatchesVerified DEF Sound, HereKind
  <2>. QED
    BY <1>10, <1>t, <2>2, AdvancePast, AdvanceType DEF PatchingEnds, disk
<1>11. CASE DryRunFails \/ Kill
  BY <1>11 DEF DryRunFails, Kill, Exit
<1>12. CASE UNCHANGED vars
  <2>1. UNCHANGED <<where, product, applied, pc>>
    BY <1>12 DEF vars, where
  <2>2. pc # "idle" => PastGood'
    BY <1>t, <1>v, <2>1, PastElsewhere DEF DamageInv
  <2>. QED
    BY <1>v, <1>h, <2>1, <2>2 DEF DamageInv
<1>. QED
  BY <1>1, <1>2, <1>3, <1>4, <1>5, <1>6, <1>7, <1>8, <1>9, <1>10, <1>11, <1>12
  DEF Next, RunStep

-----------------------------------------------------------------------------
LEMMA DamageInit == Init => DamageInv
<1>. SUFFICES ASSUME Init PROVE DamageInv
  OBVIOUS
<1>1. WedgeInv
  BY WedgeInit
<1>2. marker = {} /\ pmarker = {} /\ pc = "idle"
  BY DEF Init
<1>. QED
  BY <1>1, <1>2 DEF DamageInv, DamageConfined

LEMMA DamageNext == DamageInv /\ [Next]_vars => DamageInv'
<1>. SUFFICES ASSUME DamageInv, [Next]_vars PROVE DamageInv'
  OBVIOUS
<1>1. WedgeInv' /\ TypeOK'
  BY WedgeNext DEF DamageInv, WedgeInv, FrozenInv
<1>2. DamageConfined' /\ PatchesKept' /\ RunKept'
  BY <1>1, ConfinedNext, PatchesKeptNext, RunKeptNext
<1>. QED
  BY <1>1, <1>2 DEF DamageInv, PatchesKept, RunKept

(* Under every fault: damage does not reach back.  A marker that vouches   *)
(* for a bad product has a package at or before it whose sources the code  *)
(* does not verify.                                                        *)
THEOREM DamageIsConfined == Spec => []DamageConfined
<1>1. DamageInv => DamageConfined
  BY DEF DamageInv
<1>. QED
  BY <1>1, DamageInit, DamageNext, PTL DEF Spec
=============================================================================
