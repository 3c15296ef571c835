---------------------------- MODULE SourceUpdate -----------------------------
(***************************************************************************)
(* Qt from git, src/scenarios/qt-git.sh, while the repositories go on: the *)
(* working copies that all targets share, --update-sources, and qmake.conf *)
(* in them, which src_configure rewrites in place for each target.         *)
(*                                                                         *)
(* Of the working copies there are two here: qt5, which holds the markers  *)
(* of the patches, and its submodule qtbase, which holds what is patched.  *)
(* A revision is one that changes the patched files, qmake.conf with them; *)
(* the list of patches counts as one.  Module Pipeline has the patches one *)
(* by one, and the other kinds of steps.                                   *)
(***************************************************************************)
EXTENDS Naturals, FiniteSets

CONSTANTS
    Targets,   \* the architecture/suffix pairs
    Faults,    \* what may go wrong: a subset of {"exit", "kill", "git"}
    MaxRev,    \* bound on the revisions of the repository
    MaxFaults  \* bound on the faults

ASSUME UpdateAssumption ==
    /\ Targets # {} /\ "none" \notin Targets
    /\ MaxRev \in Nat \ {0} /\ MaxFaults \in Nat

Rev == 1..MaxRev

(* A qmake.conf of some revision: as it is in the repository, with the     *)
(* placeholders the patches put in, or with the flags of a target there.   *)
Text == [rev: Rev, flags: Targets \union {"original", "template"}, whole: BOOLEAN]
None == [rev |-> 0]
Original(r) == [rev |-> r, flags |-> "original", whole |-> TRUE]

VARIABLES
    head,       \* the newest revision of qtbase
    (* durable *)
    cloned,     \* there is a working copy of qt5
    wc,         \* the revision of the one of qtbase, 0 if there is none
    marker,     \* the working copies with a download marker
    patched,    \* the patches are in the tree of qtbase
    pmarker,    \* their markers are in that of qt5
    unclean,    \* history: a git clean has failed to remove these, or the
                \* files of configure, and no reset since has found them gone
    conf,       \* qmake.conf
    kept,       \* qmake.conf.patched
    tmp,        \* qmake.conf.tmp
    configured, \* the targets with a configure.marker
    installed,  \* the ones that are installed
    used,       \* used[t]: the revisions configure and make of t have read
    (* volatile: the run *)
    pc, target, \* ARCHITECTURE
    left,       \* the elements of BUILD_ARCHITECTURES still to come
    update,     \* UPDATE_SOURCES
    status,     \* how the last run ended: "none", "ok", "died" or "killed"
    faults,
    (* history *)
    asked,      \* the newest revision when the run was started
    updated     \* some run had --update-sources

copies == <<cloned, wc, marker, patched, pmarker, unclean>>
confs == <<conf, kept, tmp>>
builds == <<configured, installed, used>>
run == <<target, left, update, asked, updated>>
vars == <<head, copies, confs, builds, run, pc, status, faults>>

TypeOK ==
    /\ head \in Rev /\ wc \in 0..head /\ (wc > 0 => cloned)
    /\ marker \subseteq {"qt5", "qtbase"} /\ {patched, pmarker, unclean, update, updated} \subseteq BOOLEAN
    /\ {conf, kept, tmp} \subseteq Text \union {None}
    /\ installed \subseteq configured /\ configured \subseteq Targets
    /\ used \in [Targets -> SUBSET Rev]
    /\ target \in Targets /\ left \subseteq Targets \ {target}
    /\ status \in {"none", "ok", "died", "killed"} /\ faults \in 0..MaxFaults

Init ==
    /\ head = 1 /\ cloned = FALSE /\ wc = 0 /\ marker = {}
    /\ patched = FALSE /\ pmarker = FALSE /\ unclean = FALSE
    /\ conf = None /\ kept = None /\ tmp = None
    /\ configured = {} /\ installed = {} /\ used = [t \in Targets |-> {}]
    /\ pc = "idle" /\ target \in Targets /\ left = {} /\ update = FALSE
    /\ status = "none" /\ faults = 0 /\ asked = 1 /\ updated = FALSE

-----------------------------------------------------------------------------
Commit ==
    /\ head < MaxRev /\ head' = head + 1
    /\ UNCHANGED <<copies, confs, builds, run, pc, status, faults>>

StartRun(ts, u) ==
    /\ pc = "idle" /\ ts # {}
    /\ pc' = "qt5" /\ status' = "none"
    /\ \E t \in ts : target' = t /\ left' = ts \ {t}
    /\ update' = u /\ asked' = head /\ updated' = (updated \/ u)
    /\ UNCHANGED <<head, copies, confs, builds, faults>>

Fault(f) == f \in Faults /\ faults < MaxFaults /\ faults' = faults + 1
NoFault == UNCHANGED faults
Goto(l) == pc' = l /\ UNCHANGED status
Return(s) == pc' = "idle" /\ status' = s

(* Only the working copies change, or nothing: no files for configure.     *)
InCopies == UNCHANGED <<head, builds, run>>

-----------------------------------------------------------------------------
(* src_download: func_download for qt5, then for qtbase.                   *)

DownloadAlways(repo) == FALSE   \* mutant: the marker is ignored
UpToDate(repo) == repo \in marker /\ ~update

Downloaded ==
    /\ \/ pc = "qt5" /\ UpToDate("qt5") /\ Goto("qtbase")
       \/ pc = "qtbase" /\ UpToDate("qtbase") /\ Goto("patch")
    /\ InCopies /\ NoFault /\ UNCHANGED <<copies, confs>>

(* git clone: all or nothing, with its exit status tested.                 *)
CloneFails ==
    /\ (pc = "qt5" /\ ~cloned) \/ (pc = "qtbase" /\ wc = 0)
    /\ ~UpToDate(pc) /\ Fault("exit") /\ Return("died")
    /\ InCopies /\ UNCHANGED <<copies, confs>>

CloneTop ==
    /\ pc = "qt5" /\ ~UpToDate(pc) /\ ~cloned
    /\ cloned' = TRUE /\ Goto("got qt5")
    /\ InCopies /\ NoFault /\ UNCHANGED <<wc, marker, patched, pmarker, unclean, confs>>

Clone ==
    /\ pc = "qtbase" /\ ~UpToDate(pc) /\ wc = 0
    /\ wc' = head /\ conf' = Original(head) /\ Goto("got qtbase")
    /\ InCopies /\ NoFault /\ UNCHANGED <<cloned, marker, patched, pmarker, unclean, kept, tmp>>

(* git clean: the markers of the patches are no files of qt5, and          *)
(* qmake.conf.patched is none of qtbase.  Of clean, reset and pull any may *)
(* fail and count as done: the exit status that is tested is that of popd. *)
CleanNothing ==   \* mutant: qt5 is not cleaned
    /\ pc = "qt5" /\ ~UpToDate(pc) /\ cloned /\ Goto("got qt5")
    /\ InCopies /\ NoFault /\ UNCHANGED <<copies, confs>>

CleanTop ==
    /\ pc = "qt5" /\ ~UpToDate(pc) /\ cloned /\ Goto("got qt5")
    /\ \/ pmarker' = FALSE /\ NoFault /\ UNCHANGED unclean
       \/ Fault("git") /\ unclean' = (unclean \/ pmarker) /\ UNCHANGED pmarker
    /\ InCopies /\ UNCHANGED <<cloned, wc, marker, patched, confs>>

Clean ==
    /\ pc = "qtbase" /\ ~UpToDate(pc) /\ wc > 0 /\ Goto("reset")
    /\ \/ kept' = None /\ tmp' = None /\ NoFault /\ UNCHANGED unclean
       \/ Fault("git") /\ unclean' = (unclean \/ kept # None) /\ UNCHANGED <<kept, tmp>>
    /\ InCopies /\ UNCHANGED <<cloned, wc, marker, patched, pmarker, conf>>

(* git reset --hard, and git pull, which does nothing over files that are  *)
(* not as in the repository; one that is missing is no obstacle.           *)
ResetNothing ==   \* mutant: what is patched stays patched
    /\ pc = "reset" /\ Goto("pull") /\ NoFault
    /\ UNCHANGED <<copies, confs>> /\ InCopies

Reset ==
    /\ pc = "reset" /\ Goto("pull")
    /\ \/ /\ conf' = Original(wc) /\ patched' = FALSE /\ NoFault
          /\ unclean' = (unclean /\ (pmarker \/ kept # None))
       \/ Fault("git") /\ UNCHANGED <<conf, patched, unclean>>
    /\ InCopies /\ UNCHANGED <<cloned, wc, marker, pmarker, kept, tmp>>

Changed == patched \/ conf \notin {None, Original(wc)}

Pull ==
    /\ pc = "pull" /\ Goto("got qtbase")
    /\ \/ /\ ~Changed /\ wc' = head /\ NoFault
          /\ conf' = IF wc = head THEN conf ELSE Original(head)
       \/ Changed /\ NoFault /\ UNCHANGED <<wc, conf>>
       \/ ~Changed /\ Fault("git") /\ UNCHANGED <<wc, conf>>
    /\ InCopies /\ UNCHANGED <<cloned, marker, patched, pmarker, unclean, kept, tmp>>

Mark ==
    /\ \/ pc = "got qt5" /\ marker' = marker \union {"qt5"} /\ Goto("qtbase")
       \/ pc = "got qtbase" /\ marker' = marker \union {"qtbase"} /\ Goto("patch")
    /\ InCopies /\ NoFault /\ UNCHANGED <<cloned, wc, patched, pmarker, unclean, confs>>

-----------------------------------------------------------------------------
(* src_patch                                                               *)

PatchMarked ==
    /\ pc = "patch" /\ pmarker /\ Goto("save")
    /\ InCopies /\ NoFault /\ UNCHANGED <<copies, confs>>

(* A patch does not apply where it has been applied, nor to a qmake.conf   *)
(* that is missing or another one; to a torn one it may.                   *)
DryRunFails ==
    /\ pc = "patch" /\ ~pmarker /\ (patched \/ conf # Original(wc)) /\ Return("died")
    /\ InCopies /\ NoFault /\ UNCHANGED <<copies, confs>>

(* A copy that is killed has written a part.                               *)
Torn(text) == [text EXCEPT !.whole = FALSE]

ApplyPatch ==
    /\ pc = "patch" /\ ~pmarker /\ ~patched /\ Goto("mark")
    /\ conf \in {Original(wc), Torn(Original(wc))}
    /\ patched' = TRUE /\ conf' = [conf EXCEPT !.flags = "template"]
    /\ InCopies /\ NoFault /\ UNCHANGED <<cloned, wc, marker, pmarker, unclean, kept, tmp>>

MarkPatch ==
    /\ pc = "mark" /\ pmarker' = TRUE /\ Goto("save")
    /\ InCopies /\ NoFault /\ UNCHANGED <<cloned, wc, marker, patched, unclean, confs>>

-----------------------------------------------------------------------------
(* src_configure: qmake.conf is made anew from qmake.conf.patched, which   *)
(* the first target has kept.  No command's exit status is tested: of a    *)
(* file that is missing nothing is kept, and the edited one is empty.      *)

InConfs == UNCHANGED <<head, copies, builds, run>>
Empty == Torn(Original(wc))
Filled(text) == IF text.flags = "template" THEN [text EXCEPT !.flags = target] ELSE text

Keep ==
    /\ pc = "save" /\ kept = None
    /\ kept' = conf /\ Goto("edit")
    /\ InConfs /\ NoFault /\ UNCHANGED <<conf, tmp>>

RemoveConfNot ==   \* mutant: what is there is edited again
    /\ pc = "save" /\ kept # None /\ Goto("edit")
    /\ InConfs /\ NoFault /\ UNCHANGED confs

RemoveConf ==
    /\ pc = "save" /\ kept # None
    /\ conf' = None /\ Goto("restore")
    /\ InConfs /\ NoFault /\ UNCHANGED <<kept, tmp>>

Restore ==
    /\ pc = "restore" /\ conf' = kept /\ Goto("edit")
    /\ InConfs /\ NoFault /\ UNCHANGED <<kept, tmp>>

Edit ==
    /\ pc = "edit" /\ conf' = None /\ Goto("move")
    /\ tmp' = IF conf = None THEN Empty ELSE Filled(conf)
    /\ InConfs /\ NoFault /\ UNCHANGED kept

MoveConf ==
    /\ pc = "move" /\ conf' = tmp /\ tmp' = None /\ Goto("configure")
    /\ InConfs /\ NoFault /\ UNCHANGED kept

Kill ==
    /\ pc # "idle" /\ Fault("kill") /\ Return("killed")
    /\ \/ UNCHANGED confs
       \/ /\ pc = "save" /\ kept = None /\ conf # None
          /\ kept' = Torn(conf) /\ UNCHANGED <<conf, tmp>>
       \/ pc = "restore" /\ conf' = Torn(kept) /\ UNCHANGED <<kept, tmp>>
       \/ pc = "edit" /\ conf # None /\ tmp' = Torn(conf) /\ UNCHANGED <<conf, kept>>
    /\ UNCHANGED <<head, copies, builds, run>>

-----------------------------------------------------------------------------
(* configure, and make with make install, which run qmake again: both read *)
(* qmake.conf and the sources, and may fail over a torn one, the flags of  *)
(* another target or sources without the patches.                          *)

InBuild == UNCHANGED <<head, copies, confs, update, asked, updated>>
Reads == used' = [used EXCEPT ![target] = @ \union {wc}]

NextTarget ==
    \/ \E t \in left : target' = t /\ left' = left \ {t} /\ Goto("qt5")
    \/ left = {} /\ Return("ok") /\ UNCHANGED <<target, left>>

Configured ==
    /\ pc = "configure" /\ target \in configured /\ Goto("make")
    /\ InBuild /\ NoFault /\ UNCHANGED <<builds, target, left>>

Configure ==
    /\ pc = "configure" /\ target \notin configured /\ Goto("make")
    /\ Reads /\ configured' = configured \union {target}
    /\ InBuild /\ NoFault /\ UNCHANGED <<installed, target, left>>

Made ==
    /\ pc = "make" /\ target \in installed /\ NextTarget
    /\ InBuild /\ NoFault /\ UNCHANGED builds

Make ==
    /\ pc = "make" /\ target \notin installed /\ NextTarget
    /\ Reads /\ installed' = installed \union {target}
    /\ InBuild /\ NoFault /\ UNCHANGED configured

Fit == patched /\ conf.whole /\ conf.flags = target

BuildFails ==
    /\ \/ pc = "configure" /\ target \notin configured
       \/ pc = "make" /\ target \notin installed
    /\ Fault("exit") \/ (~Fit /\ NoFault)
    /\ Reads /\ Return("died")
    /\ InBuild /\ UNCHANGED <<configured, installed, target, left>>

RunStep ==
    \/ Downloaded \/ CloneFails \/ CloneTop \/ Clone \/ CleanTop \/ Clean \/ Reset \/ Pull \/ Mark
    \/ PatchMarked \/ DryRunFails \/ ApplyPatch \/ MarkPatch
    \/ Keep \/ RemoveConf \/ Restore \/ Edit \/ MoveConf
    \/ Configured \/ Configure \/ Made \/ Make \/ BuildFails

Next ==
    \/ Commit \/ \E ts \in SUBSET Targets, u \in BOOLEAN : StartRun(ts, u)
    \/ RunStep \/ Kill

(* A run goes on, and somebody who starts it again and again asks, now and *)
(* then, for everything with --update-sources.                             *)
Spec == Init /\ [][Next]_vars
FairSpec == Spec /\ WF_vars(RunStep) /\ SF_vars(StartRun(Targets, TRUE))

-----------------------------------------------------------------------------
(* README:34: --update-sources updates the sources from the repositories:  *)
(* a run that ends well has sources as new as the repository was when the  *)
(* run was started.                                                        *)
UpdateUpdates == status = "ok" /\ update => wc >= asked

(* Without --update-sources all that is built, for all targets, configure  *)
(* and make, is from the same revision, however often the runs were killed *)
(* and whatever was committed in between.                                  *)
DriftNeedsUpdate ==
    ~updated => Cardinality(UNION {used[t] : t \in Targets}) <= 1

(* configure and make read patched sources and a qmake.conf that is made   *)
(* from the one of the sources there are, with the flags of their target   *)
(* and not of the one before, whatever runs were killed and whichever      *)
(* steps were skipped.  It is whole, unless the template was torn as it    *)
(* was kept; that lasts only until an update.  The exception are runs      *)
(* after a git clean has failed unnoticed, until the next update that      *)
(* cleans and resets: its leavings are taken for those of the patches and  *)
(* of the first target.                                                    *)
ConfIsCurrent ==
    pc \in {"configure", "make"} /\ ~unclean =>
        /\ patched /\ conf # None /\ kept # None
        /\ conf.rev = wc /\ conf.flags = target
        /\ conf.whole = kept.whole /\ (update => kept.whole)

-----------------------------------------------------------------------------
(* An inductive invariant: why the two properties above hold.              *)

Updating == {"reset", "pull", "got qtbase"}
Saved == {"save", "restore", "edit", "move", "configure", "make"}
Template(r) == [Original(r) EXCEPT !.flags = "template"]

(* What is patched has been downloaded; nothing is patched in qtbase       *)
(* before it has its marker.  What is not patched is as in the repository, *)
(* but after a git clean that failed.                                      *)
CopiesInv ==
    /\ "qt5" \in marker \/ pc \notin {"idle", "qt5"} => cloned
    /\ wc = 0 => "qtbase" \notin marker
    /\ "qtbase" \notin marker => ~patched
    /\ ~unclean =>
        /\ pmarker => patched
        /\ ~patched => kept = None /\ (wc # 0 => conf = Original(wc))

(* The markers of the patches are gone before a working copy is changed,   *)
(* if they can be removed, and are there when it is used.                  *)
PatchInv ==
    /\ pc \in Updating => wc # 0 /\ ~UpToDate("qtbase")
    /\ pc \in {"patch", "mark"} \union Saved => "qtbase" \in marker
    /\ pc = "mark" => patched
    /\ pc \in Saved => pmarker
    /\ ~unclean =>
        /\ pc \in {"qtbase"} \union Updating /\ ~UpToDate("qtbase") => ~pmarker
        /\ pc = "got qt5" => ~pmarker
        /\ pc = "mark" => conf = Template(wc)

(* The template is that of the sources, and qmake.conf is made from it.    *)
ConfInv ==
    /\ pc = "restore" => kept # None
    /\ ~unclean =>
        /\ kept # None => kept.rev = wc /\ kept.flags = "template"
        /\ pc \in Updating => kept = None
        /\ pmarker /\ kept = None => conf = Template(wc)
        /\ pc \in Saved \ {"save"} => kept # None
        /\ pc = "edit" => conf = kept
        /\ pc = "move" => tmp = [kept EXCEPT !.flags = target]
        /\ pc \in {"configure", "make"} => conf = [kept EXCEPT !.flags = target]
        /\ update /\ pc \notin {"idle", "qt5", "got qt5", "qtbase"} /\ kept # None => kept.whole

(* Before qtbase has its marker nothing is built from it, and after that   *)
(* it stays the same if no run is to update it; configure comes before     *)
(* make.                                                                   *)
DriftInv ==
    /\ pc = "make" => target \in configured
    /\ ~updated => ~update /\ \A t \in Targets : used[t] \subseteq {wc}
    /\ "qtbase" \notin marker => \A t \in Targets : used[t] = {}

UpdateInv == TypeOK /\ CopiesInv /\ PatchInv /\ ConfInv /\ DriftInv

-----------------------------------------------------------------------------
(* Patches without markers, and a torn template or what else a git clean   *)
(* has left, make every run die, but the ones with --update-sources: with  *)
(* one now and then all gets installed.                                    *)
EventuallyInstalled == <>(installed = Targets)
=============================================================================
