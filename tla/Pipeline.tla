------------------------------ MODULE Pipeline -------------------------------
(***************************************************************************)
(* The resumable build of src/buildall and src/helpers_functions.sh.       *)
(*                                                                         *)
(* A run visits the requested targets, and for each one the packages of    *)
(* PACKAGES in order; a package is a sequence of helper calls, its recipe. *)
(* A helper call is skipped when its marker file exists; otherwise it runs *)
(* a tool, and touches the marker if the tool exits with 0 or ends the run *)
(* (die) if not.  Runs are repeated by hand, over the same ROOT_DIR, until *)
(* everything is built: what carries over is the disk, i.e. the markers    *)
(* and the trees, and never the shell's variables.                         *)
(*                                                                         *)
(* download, unpack and patch work on trees all targets share; lndirs,     *)
(* configure and make work below the target's BUILD_DIR.                   *)
(***************************************************************************)
EXTENDS Naturals, Sequences

CONSTANTS
    N,          \* number of packages; package p is the p-th entry of PACKAGES
    Recipe,     \* Recipe[p]: the kinds of the helper calls of p, in order
    Vcs,        \* packages whose EXT is "git" or "svn": no archive, no unpack
    Lenient,    \* packages that pass --ignore to func_uncompress
    NPatches,   \* NPatches[p]: length of the _patches list of p
    Targets,    \* architecture/suffix pairs, each with its own BUILD_DIR
    Common,     \* the place of the trees that all targets share
    Faults,     \* the faults of the environment, a subset of AllFaults
    MaxFaults   \* how many of them one behaviour may contain

Pkg == 1..N
SharedKinds == {"download", "unpack", "patch"}
TargetKinds == {"lndirs", "configure", "make"}

(***************************************************************************)
(* "exit"      a tool whose exit status the code tests returns non-zero    *)
(* "kill"      the shell is killed, or the machine stops                   *)
(* "checkout"  a checkout or pull that stops leaves a torn working copy    *)
(* "vcs"       clean, reset/revert or pull/up of a working copy fails      *)
(* "patch"     patch fails after its own --dry-run succeeded               *)
(***************************************************************************)
AllFaults == {"exit", "kill", "checkout", "vcs", "patch"}

(* The order in which buildall calls src_download, src_unpack, src_patch   *)
(* and then src_configure, pkg_build and pkg_install.                      *)
Phase == [k \in SharedKinds \union TargetKinds |->
             IF k = "download" THEN 1 ELSE IF k = "unpack" THEN 2
             ELSE IF k = "patch" THEN 3 ELSE 4]

Steps(p) == 1..Len(Recipe[p])

ASSUME PipelineAssumption ==
    /\ N \in Nat \ {0}
    /\ Targets # {} /\ Common \notin Targets
    /\ Vcs \subseteq Pkg /\ Lenient \subseteq Pkg
    /\ NPatches \in [Pkg -> Nat]
    /\ Faults \subseteq AllFaults /\ MaxFaults \in Nat
    /\ Recipe \in [Pkg -> Seq(SharedKinds \union TargetKinds)]
    /\ \A p \in Pkg :
          /\ Len(Recipe[p]) > 0
          /\ Recipe[p][Len(Recipe[p])] = "make"
          /\ \A i, j \in Steps(p) :
                i < j => Phase[Recipe[p][i]] <= Phase[Recipe[p][j]]

VARIABLES
    (* durable *)
    marker,     \* the steps whose marker file exists
    product,    \* product[k]: what step k has left on the disk
    pmarker,    \* the patches whose _patch-N.marker exists
    applied,    \* applied[<<p, n>>]: how far patch n of p is in the tree
    (* volatile: the shell of the current run *)
    pc,         \* where the run is, "idle" when there is none
    target,     \* ARCHITECTURE
    left,       \* the elements of BUILD_ARCHITECTURES still to come
    pkg,        \* the package of the inner loop
    step,       \* the helper call within its recipe
    cur,        \* the patch func_apply_patches is at
    update,     \* UPDATE_SOURCES
    (* bound *)
    faults      \* faults so far

disk == <<marker, product, pmarker, applied>>
where == <<target, left, pkg, step>>
vars == <<marker, product, pmarker, applied,
          pc, target, left, pkg, step, cur, update, faults>>

-----------------------------------------------------------------------------
(* The places where steps leave their marker and their product.            *)

Kind(p, i) == Recipe[p][i]
Place(p, i, t) == IF Kind(p, i) \in SharedKinds THEN Common ELSE t
KeyOf(p, i, t) == <<p, i, Place(p, i, t)>>
Key == UNION {{KeyOf(p, i, t) : i \in Steps(p), t \in Targets} : p \in Pkg}
Patch == UNION {{<<p, n>> : n \in 1..NPatches[p]} : p \in Pkg}

Here == KeyOf(pkg, step, target)
HereKind == Kind(pkg, step)
HerePatch == <<pkg, cur>>

(* "bad" is the output of a tool that exited with 0 on broken inputs.      *)
Quality == {"none", "torn", "bad", "good"}
Progress == {"no", "torn", "yes"}

TypeOK ==
    /\ marker \in SUBSET Key
    /\ product \in [Key -> Quality]
    /\ pmarker \in SUBSET Patch
    /\ applied \in [Patch -> Progress]
    /\ pc \in {"idle", "enter", "work", "touch",
               "clean", "revert", "pull", "patch", "apply", "mark"}
    /\ target \in Targets
    /\ left \in SUBSET Targets
    /\ pkg \in Pkg
    /\ step \in Steps(pkg)
    /\ cur \in Nat \ {0}
    /\ pc \in {"apply", "mark"} => HerePatch \in Patch
    /\ update \in BOOLEAN
    /\ faults \in 0..MaxFaults

Init ==
    /\ marker = {} /\ pmarker = {}
    /\ product = [k \in Key |-> "none"]
    /\ applied = [a \in Patch |-> "no"]
    /\ pc = "idle" /\ target \in Targets /\ left = {}
    /\ pkg = 1 /\ step = 1 /\ cur = 1 /\ update = FALSE
    /\ faults = 0

-----------------------------------------------------------------------------
(* The inputs of a step.                                                   *)

FullyPatched(p) == \A n \in 1..NPatches[p] : applied[<<p, n>>] = "yes"

(* Step i of p has done its work; func_uncompress has none for a checkout. *)
Sound(p, i, t) ==
    \/ Kind(p, i) = "patch" /\ FullyPatched(p)
    \/ Kind(p, i) = "unpack" /\ p \in Vcs
    \/ Kind(p, i) # "patch" /\ product[KeyOf(p, i, t)] = "good"

(* Package p is in the prefix of t: its last step, make install, is done.  *)
InstallKey(p, t) == KeyOf(p, Len(Recipe[p]), t)

InputsGood(p, i, t) ==
    /\ \A j \in 1..(i - 1) : Sound(p, j, t)
    /\ Kind(p, i) \in TargetKinds =>
          \A q \in 1..(p - 1) : product[InstallKey(q, t)] = "good"

(* The if of every helper: is there nothing to do for this step?           *)
PatchesMarked(p) == NPatches[p] = 0 \/ <<p, NPatches[p]>> \in pmarker

SkippableUnlessUpdate(p, i, t) ==   \* mutant: --update-sources also for archives
    \/ Kind(p, i) = "patch" /\ PatchesMarked(p)
    \/ Kind(p, i) = "unpack" /\ p \in Vcs
    \/ /\ Kind(p, i) # "patch" /\ KeyOf(p, i, t) \in marker
       /\ ~(Kind(p, i) = "download" /\ update)

Skippable(p, i, t) ==
    \/ Kind(p, i) = "patch" /\ PatchesMarked(p)
    \/ Kind(p, i) = "unpack" /\ p \in Vcs
    \/ /\ Kind(p, i) # "patch" /\ KeyOf(p, i, t) \in marker
       /\ ~(Kind(p, i) = "download" /\ p \in Vcs /\ update)

-----------------------------------------------------------------------------
(* Control flow of buildall.                                               *)

Fault(f) == f \in Faults /\ faults < MaxFaults /\ faults' = faults + 1
NoFault == faults' = faults

(* The shell ends: after the last package of the last target, or in die.   *)
Exit == pc' = "idle" /\ UNCHANGED where

NextStepTooFar ==   \* mutant: off by one at the end of the recipe
    /\ step <= Len(Recipe[pkg])
    /\ step' = step + 1 /\ pc' = "enter" /\ UNCHANGED <<target, left, pkg>>

NextStep ==
    /\ step < Len(Recipe[pkg])
    /\ step' = step + 1 /\ pc' = "enter" /\ UNCHANGED <<target, left, pkg>>

NextPackage ==
    /\ step = Len(Recipe[pkg]) /\ pkg < N
    /\ pkg' = pkg + 1 /\ step' = 1 /\ pc' = "enter" /\ UNCHANGED <<target, left>>

NextTargetMidway ==   \* mutant: the package loop does not start over
    /\ step = Len(Recipe[pkg]) /\ pkg = N
    /\ \E t \in left : target' = t /\ left' = left \ {t}
    /\ UNCHANGED pkg /\ step' = 1 /\ pc' = "enter"

NextTarget ==
    /\ step = Len(Recipe[pkg]) /\ pkg = N
    /\ \E t \in left : target' = t /\ left' = left \ {t}
    /\ pkg' = 1 /\ step' = 1 /\ pc' = "enter"

Finish ==
    /\ step = Len(Recipe[pkg]) /\ pkg = N /\ left = {}
    /\ Exit

Advance == NextStep \/ NextPackage \/ NextTarget \/ Finish

(* buildall [--update-sources] <architectures>                             *)
StartRun(ts, u) ==
    /\ pc = "idle" /\ pc' = "enter"
    /\ ts # {}
    /\ \E t \in ts : target' = t /\ left' = ts \ {t}
    /\ pkg' = 1 /\ step' = 1 /\ cur' = 1 /\ update' = u
    /\ UNCHANGED <<disk, faults>>

Skip ==
    /\ pc = "enter" /\ Skippable(pkg, step, target)
    /\ Advance
    /\ UNCHANGED <<disk, cur, update, faults>>

-----------------------------------------------------------------------------
(* The steps that run one tool and test its exit status.                   *)

(* func_download removes what an earlier download has left, because wget   *)
(* would keep it and store the new file under another name.                *)
NotCleared(old) == old   \* mutant: the corrupted download stays
Cleared(old) == "none"

StartTool ==
    /\ pc = "enter" /\ ~Skippable(pkg, step, target)
    /\ HereKind # "patch"
    /\ HereKind = "download" /\ pkg \in Vcs => product[Here] = "none"
    /\ product' = IF HereKind = "download"
                  THEN [product EXCEPT ![Here] = Cleared(@)] ELSE product
    /\ pc' = "work"
    /\ UNCHANGED <<where, cur, update, faults, marker, pmarker, applied>>

(* What a tool that exits with 0 leaves in the place of old.               *)
Made(old) ==
    IF HereKind = "download" /\ old # "none" THEN old
    ELSE IF InputsGood(pkg, step, target) THEN "good" ELSE "bad"

ToolSucceeds ==
    /\ pc = "work"
    /\ product' = [product EXCEPT ![Here] = Made(@)]
    /\ pc' = "touch"
    /\ UNCHANGED <<where, cur, update, faults, marker, pmarker, applied>>

(* What a tool that stops half-way leaves.  A checkout that fails or is    *)
(* killed leaves nothing, or what was there, but for the fault "checkout". *)
MayTear == HereKind = "download" /\ pkg \in Vcs => "checkout" \in Faults

StopHalfWay ==
    \/ UNCHANGED product
    \/ MayTear /\ product' = [product EXCEPT ![Here] = "torn"]

(* A tool fails by itself, or because its inputs are broken.  Only         *)
(* func_uncompress --ignore goes on.                                       *)
NoDie == "touch"   \* mutant: the exit status is ignored
AfterFailure == IF HereKind = "unpack" /\ pkg \in Lenient THEN "touch" ELSE "idle"

ToolFails ==
    /\ pc = "work"
    /\ Fault("exit") \/ (NoFault /\ ~InputsGood(pkg, step, target))
    /\ StopHalfWay
    /\ pc' = AfterFailure
    /\ UNCHANGED <<where, cur, update, marker, pmarker, applied>>

TouchNothing ==   \* mutant: the marker is never created
    /\ pc = "touch"
    /\ Advance
    /\ UNCHANGED <<disk, cur, update, faults>>

Touch ==
    /\ pc = "touch"
    /\ marker' = marker \union {Here}
    /\ Advance
    /\ UNCHANGED <<product, pmarker, applied, cur, update, faults>>

-----------------------------------------------------------------------------
(* func_download on an existing working copy: svn-clean or git clean,      *)
(* svn revert or git reset, svn up or git pull.  None of the three is      *)
(* tested, so each may fail and the next one still runs.  On a torn        *)
(* working copy the first two fail; the third may complete it (svn up) or  *)
(* fail too (a lock, a .git without HEAD).                                 *)

StartUpdate ==
    /\ pc = "enter" /\ HereKind = "download" /\ pkg \in Vcs
    /\ ~Skippable(pkg, step, target) /\ product[Here] # "none"
    /\ pc' = "clean"
    /\ UNCHANGED <<disk, where, cur, update, faults>>

PatchesOf(p) == {a \in Patch : a[1] = p}

(* The patch markers are unversioned files: the clean removes them, one    *)
(* after the other.                                                        *)
CleanOne ==
    /\ pc = "clean" /\ product[Here] = "good"
    /\ \E a \in PatchesOf(pkg) \intersect pmarker : pmarker' = pmarker \ {a}
    /\ UNCHANGED <<marker, product, applied, pc, where, cur, update, faults>>

CleanEndsEarly ==   \* mutant: no clean before the revert
    /\ pc = "clean" /\ pc' = "revert" /\ NoFault
    /\ UNCHANGED <<disk, where, cur, update>>

CleanEnds ==
    /\ pc = "clean" /\ pc' = "revert"
    /\ \/ NoFault /\ (PatchesOf(pkg) \intersect pmarker = {} \/ product[Here] # "good")
       \/ Fault("vcs")
    /\ UNCHANGED <<disk, where, cur, update>>

SetPatches(p, v) == [a \in Patch |-> IF a[1] = p THEN v ELSE applied[a]]

Revert ==
    /\ pc = "revert" /\ pc' = "pull"
    /\ \/ NoFault /\ product[Here] = "good" /\ applied' = SetPatches(pkg, "no")
       \/ (Fault("vcs") \/ (NoFault /\ product[Here] # "good")) /\ UNCHANGED applied
    /\ UNCHANGED <<marker, product, pmarker, where, cur, update>>

(* The exit status that is looked at is that of the popd that follows.     *)
Pull ==
    /\ pc = "pull" /\ pc' = "touch"
    /\ \E q \in {product[Here], "good"} : product' = [product EXCEPT ![Here] = q]
    /\ UNCHANGED <<marker, pmarker, applied, where, cur, update, faults>>

-----------------------------------------------------------------------------
(* func_apply_patches: a loop over the list, one marker file per patch.    *)

StartPatching ==
    /\ pc = "enter" /\ HereKind = "patch" /\ ~Skippable(pkg, step, target)
    /\ pc' = "patch" /\ cur' = 1
    /\ UNCHANGED <<disk, where, update, faults>>

PatchAlreadyMarkedStays ==   \* mutant: the index is not incremented
    /\ pc = "patch" /\ cur <= NPatches[pkg] /\ HerePatch \in pmarker
    /\ UNCHANGED vars

PatchAlreadyMarked ==
    /\ pc = "patch" /\ cur <= NPatches[pkg] /\ HerePatch \in pmarker
    /\ cur' = cur + 1
    /\ UNCHANGED <<disk, pc, where, update, faults>>

(* The dry run refuses a patch that is in the tree already, in full or in  *)
(* part.  On a broken tree it may refuse or not.                           *)
DryRunSucceeds ==
    /\ pc = "patch" /\ cur <= NPatches[pkg] /\ HerePatch \notin pmarker
    /\ applied[HerePatch] = "no"
    /\ pc' = "apply"
    /\ UNCHANGED <<disk, where, cur, update, faults>>

DryRunFailsGoesOn ==   \* mutant: no break after a patch that does not apply
    /\ pc = "patch" /\ cur <= NPatches[pkg] /\ HerePatch \notin pmarker
    /\ applied[HerePatch] # "no" \/ ~InputsGood(pkg, step, target)
    /\ cur' = cur + 1
    /\ UNCHANGED <<disk, pc, where, update, faults>>

DryRunFails ==
    /\ pc = "patch" /\ cur <= NPatches[pkg] /\ HerePatch \notin pmarker
    /\ \/ applied[HerePatch] # "no"
       \/ ~InputsGood(pkg, step, target)
    /\ Exit
    /\ UNCHANGED <<disk, cur, update, faults>>

(* The exit status of this second call of patch is not tested.             *)
ApplyPatch ==
    /\ pc = "apply" /\ pc' = "mark"
    /\ \/ NoFault /\ applied' = [applied EXCEPT ![HerePatch] = "yes"]
       \/ Fault("patch") /\ applied' = [applied EXCEPT ![HerePatch] = "torn"]
    /\ UNCHANGED <<marker, product, pmarker, where, cur, update>>

MarkPatch ==
    /\ pc = "mark" /\ pc' = "patch"
    /\ pmarker' = pmarker \union {HerePatch}
    /\ cur' = cur + 1
    /\ UNCHANGED <<marker, product, applied, where, update, faults>>

PatchingEnds ==
    /\ pc = "patch" /\ cur > NPatches[pkg]
    /\ Advance
    /\ UNCHANGED <<disk, cur, update, faults>>

-----------------------------------------------------------------------------
(* The run is killed.  What the running tool was writing may be torn: the  *)
(* product of a step, the patch being applied, the patches being reverted. *)

Kill ==
    /\ pc # "idle" /\ Fault("kill")
    /\ \/ UNCHANGED <<product, applied>>
       \/ pc \in {"work", "pull"} /\ StopHalfWay /\ UNCHANGED applied
       \/ /\ pc = "apply" /\ UNCHANGED product
          /\ \E q \in Progress : applied' = [applied EXCEPT ![HerePatch] = q]
       \/ /\ pc = "revert" /\ UNCHANGED product
          /\ applied' = SetPatches(pkg, "torn")
    /\ Exit
    /\ UNCHANGED <<marker, pmarker, cur, update>>

-----------------------------------------------------------------------------
RunStep ==
    \/ Skip \/ StartTool \/ ToolSucceeds \/ Touch
    \/ StartUpdate \/ CleanOne \/ CleanEnds \/ Revert \/ Pull
    \/ StartPatching \/ PatchAlreadyMarked \/ DryRunSucceeds \/ DryRunFails
    \/ ApplyPatch \/ MarkPatch \/ PatchingEnds

Next ==
    \/ \E ts \in SUBSET Targets, u \in BOOLEAN : StartRun(ts, u)
    \/ RunStep
    \/ ToolFails
    \/ Kill

Spec == Init /\ [][Next]_vars

(***************************************************************************)
(* A run that is not killed goes on, because the tools return; and the     *)
(* user starts buildall again for the same targets until all is built.     *)
(***************************************************************************)
Fairness == WF_vars(RunStep) /\ SF_vars(StartRun(Targets, FALSE))
FairSpec == Spec /\ Fairness

-----------------------------------------------------------------------------
(* Properties.                                                             *)

(* A marker vouches for what its step has left on the disk: no run skips a *)
(* step whose output is missing, torn, or made from broken inputs.         *)
MarkerSound == \A k \in marker : product[k] = "good"

(* The shortcut of func_apply_patches looks at the marker of the last      *)
(* patch only: that marker implies that every patch of the list is in the  *)
(* tree; and a single marker implies that its own patch is.                *)
PatchMarkerSound ==
    /\ \A a \in pmarker : applied[a] = "yes"
    /\ \A p \in Pkg : NPatches[p] > 0 /\ PatchesMarked(p) => FullyPatched(p)

(* Under every fault: damage does not reach back.  A marker that vouches   *)
(* for a bad product has a package at or before it whose sources the code  *)
(* does not verify: a checkout, an archive unpacked with --ignore, or a    *)
(* tree in which a patch went wrong.                                       *)
Unverified(p) == p \in Vcs \union Lenient
                 \/ \E n \in 1..NPatches[p] : applied[<<p, n>>] = "torn"
DamageConfined ==
    \A k \in marker : product[k] # "good" => \E p \in 1..k[1] : Unverified(p)

(* src/helpers_functions.sh:382 ends the run with "Failed to apply patch": *)
(* no patch that went wrong is recorded as applied.                        *)
FailedPatchDies == \A a \in pmarker : applied[a] # "torn"

(* lndirs, configure and make run for a target only over complete inputs:  *)
(* the patched sources of the package, its earlier steps for this target,  *)
(* and every package before it in PACKAGES installed for this target.      *)
InputsReady ==
    pc \in {"work", "touch"} => InputsGood(pkg, step, target)

(* Once one target has used the sources of an archive package, no later    *)
(* run and no other target changes them again.                             *)
Used(p) == \E t \in Targets, i \in Steps(p) :
               Kind(p, i) \in TargetKinds /\ KeyOf(p, i, t) \in marker
SharedTree(p) == <<[i \in Steps(p) |->
                       IF Kind(p, i) \in SharedKinds
                       THEN product[<<p, i, Common>>] ELSE "none"],
                   [n \in 1..NPatches[p] |-> applied[<<p, n>>]]>>
SourcesFrozen ==
    [][\A p \in Pkg \ Vcs : Used(p) => SharedTree(p)' = SharedTree(p)]_vars

(* A patch that is in the tree, in full or in part, without its marker     *)
(* makes func_apply_patches die in every later run.                        *)
Wedged(p) ==
    /\ pc = "idle"
    /\ \E n \in 1..NPatches[p] : applied[<<p, n>>] # "no" /\ <<p, n>> \notin pmarker

(* Of an archive package in that state nothing is ever built again.        *)
WedgeIsFinal ==
    \A p \in Pkg \ Vcs :
        [](Wedged(p) => [](\A t \in Targets : InstallKey(p, t) \notin marker))

(* Every run ends, whatever the tools and the faults do.                   *)
RunEnds == pc # "idle" ~> pc = "idle"

(* Repeated runs build everything, unless a kill has wedged a package.     *)
AllInstalled == \A t \in Targets, p \in Pkg : InstallKey(p, t) \in marker
EventuallyBuilt == <>(AllInstalled \/ \E p \in Pkg : Wedged(p))

(***************************************************************************)
(* The inductive invariant behind MarkerSound, PatchMarkerSound and        *)
(* InputsReady.  It needs tools that do what their exit status says, and   *)
(* no --ignore.                                                            *)
(***************************************************************************)
SoundTools == Faults \subseteq {"exit", "kill"} /\ Lenient = {}

(* A live run has everything behind it done, for the current target.       *)
Reached ==
    pc # "idle" =>
        /\ \A j \in 1..(step - 1) : Sound(pkg, j, target)
        /\ \A q \in 1..(pkg - 1) : InstallKey(q, target) \in marker

ToolInv ==
    /\ pc \in {"work", "touch"} => HereKind # "patch"
    /\ pc = "work" => /\ Here \notin marker
                      /\ HereKind = "download" => product[Here] = "none"
    /\ pc = "touch" => product[Here] = "good"

(* A working copy is there in full or not at all, and no patch marker      *)
(* survives until its patches are reverted.                                *)
UpdateInv ==
    /\ \A p \in Vcs : \A i \in Steps(p) :
          Kind(p, i) = "download" => product[<<p, i, Common>>] \in {"none", "good"}
    /\ pc \in {"clean", "revert", "pull"} =>
          HereKind = "download" /\ pkg \in Vcs /\ product[Here] = "good"
    /\ pc = "revert" => PatchesOf(pkg) \intersect pmarker = {}

(* func_apply_patches has marked every patch before the current one.       *)
PatchInv ==
    /\ pc \in {"patch", "apply", "mark"} =>
          /\ HereKind = "patch"
          /\ \A n \in 1..(cur - 1) : n <= NPatches[pkg] => <<pkg, n>> \in pmarker
    /\ pc = "apply" => applied[HerePatch] = "no" /\ HerePatch \notin pmarker
    /\ pc = "mark" => applied[HerePatch] = "yes"

PipelineInv ==
    /\ TypeOK /\ MarkerSound /\ PatchMarkerSound
    /\ Reached /\ ToolInv /\ UpdateInv /\ PatchInv

(***************************************************************************)
(* The inductive invariant behind SourcesFrozen, under every fault: of an  *)
(* archive package what has a marker is not worked on again, and a target  *)
(* gets to its own steps only past the markers of the shared ones.         *)
(***************************************************************************)
Marked(p, i, t) ==
    IF Kind(p, i) = "patch" THEN PatchesMarked(p) ELSE KeyOf(p, i, t) \in marker

FrozenInv ==
    /\ TypeOK
    /\ \A p \in Pkg \ Vcs : Used(p) =>
          \A i \in Steps(p), t \in Targets : Kind(p, i) \in SharedKinds => Marked(p, i, t)
    /\ pc # "idle" /\ pkg \notin Vcs => \A j \in 1..(step - 1) : Marked(pkg, j, target)
    /\ pc \in {"work", "touch"} => HereKind # "patch"
    /\ pc = "work" /\ pkg \notin Vcs => Here \notin marker
    /\ pc \in {"clean", "revert", "pull"} => pkg \in Vcs /\ HereKind = "download"
    /\ pc \in {"patch", "apply", "mark"} =>
          /\ HereKind = "patch"
          /\ \A n \in 1..(cur - 1) : n <= NPatches[pkg] => <<pkg, n>> \in pmarker
          /\ cur <= NPatches[pkg] => ~PatchesMarked(pkg)

(***************************************************************************)
(* The inductive invariant behind WedgeIsFinal, under every fault: the     *)
(* marker of the last patch of an archive package is made after all the    *)
(* others, and only func_apply_patches touches the patches of the tree.    *)
(***************************************************************************)
WedgeInv ==
    /\ FrozenInv
    /\ \A p \in Pkg \ Vcs : \A n \in 1..NPatches[p] :
          /\ PatchesMarked(p) => <<p, n>> \in pmarker
          /\ applied[<<p, n>>] # "no" => \E i \in Steps(p) : Kind(p, i) = "patch"

(***************************************************************************)
(* The inductive invariant behind DamageConfined, under every fault: in a  *)
(* package at and before which all sources are verified, what a marker     *)
(* vouches for and what the run has come past is good.                     *)
(***************************************************************************)
Verified(p) == \A q \in 1..p : ~Unverified(q)

PastGood ==
    /\ \A j \in 1..(step - 1) : Sound(pkg, j, target)
    /\ \A q \in 1..(pkg - 1) : product[InstallKey(q, target)] = "good"

DamageInv ==
    /\ WedgeInv /\ DamageConfined
    /\ \A p \in Pkg \ Vcs : \A n \in 1..NPatches[p] :
          <<p, n>> \in pmarker => applied[<<p, n>>] # "no"
    /\ pc = "apply" => HerePatch \notin pmarker /\ applied[HerePatch] = "no"
    /\ pc = "mark" => applied[HerePatch] # "no"
    /\ Verified(pkg) =>
          /\ pc # "idle" => PastGood
          /\ pc = "work" /\ HereKind = "download" => product[Here] = "none"
          /\ pc = "touch" => product[Here] = "good"

(* The pipeline implements the plan: packages are installed in order.      *)
Installed == [t \in Targets |-> {p \in Pkg : InstallKey(p, t) \in marker}]
Plan == INSTANCE BuildPlan WITH installed <- Installed
ImplementsPlan == Plan!Spec
=============================================================================
