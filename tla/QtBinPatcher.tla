---------------------------- MODULE QtBinPatcher ----------------------------
(***************************************************************************)
(* src/progs/qtbinpatcher: after the Qt directory has been moved, the      *)
(* patcher asks qmake for the path that is compiled into it and replaces   *)
(* that path by the present one in a list of binary and text files.        *)
(*                                                                         *)
(* Nothing but the files carries over from one run to the next: qmake      *)
(* itself, the first file to be patched of all binaries, is what tells a   *)
(* later run whether there is anything left to do.                         *)
(***************************************************************************)
EXTENDS Naturals

CONSTANTS
    NBin,            \* number of binary files, of which the first is qmake
    NTxt,            \* number of text files; they come after the binaries
    Place,           \* the paths at which the Qt directory may be
    Contains,        \* pairs of paths: the second is part of the first
    Spaced,          \* the paths with a space in them
    RenameReplaces,  \* rename() replaces an existing file (not on Windows)
    Backups,         \* whether a run makes backups: FALSE is --nobackup
    Faults,          \* the faults of the environment, a subset of AllFaults
    MaxFaults        \* how many of them one behaviour may contain

NFile == NBin + NTxt
File == 1..NFile
QMake == 1
Binary == 1..NBin

(* "io"    a file cannot be opened, read or written, or there is no pipe,  *)
(*         or qmake does not run: the patcher fails, or never ends         *)
(* "slip"  the same in a call whose status nobody tests: what is left of   *)
(*         a file is written by fclose, a text is cut off before it is     *)
(*         written, its size is asked for, a directory is listed           *)
(* "lock"  a file cannot be removed or renamed                             *)
(* "kill"  the patcher is killed, or the machine stops, or the size of a   *)
(*         file that cannot be told (-1) is that of a buffer, and nobody   *)
(*         catches the exception                                           *)
AllFaults == {"io", "slip", "lock", "kill"}

(* A file is gone, half-written, or names a path nobody meant.             *)
Damage == {"absent", "torn", "mangled"}
Content == Place \union Damage

(* What a qmake that is not whole may write, and still end with 0: what    *)
(* does not parse, nothing, or more than the pipe holds.                   *)
Strange == {"garbage", "nothing", "flood"}

ASSUME PatcherAssumption ==
    /\ NBin \in Nat \ {0} /\ NTxt \in Nat
    /\ Place # {} /\ Place \intersect (Damage \union Strange \union {"none"}) = {}
    /\ Contains \subseteq Place \X Place /\ Spaced \subseteq Place
    /\ RenameReplaces \in BOOLEAN
    /\ Backups \in SUBSET BOOLEAN
    /\ Faults \subseteq AllFaults /\ MaxFaults \in Nat

VARIABLES
    (* durable *)
    name,      \* name[f]: the path that file f names
    bak,       \* the same of the file with the suffix .bak
    conf,      \* bin/qt.conf exists
    confbak,   \* bin/qt.conf.bak exists
    loc,       \* where the Qt directory is: NewQtPath
    (* volatile: the run *)
    pc,        \* where the run is, "idle" when there is none
    backup,    \* Backup
    force,     \* --force
    old,       \* PipeBuffer, then OldQtPath: "none" if there is no answer
    listed,    \* AllFilesList
    i,         \* the file that the loop is at
    buf,       \* Buf: what is to be written to that file
    result,    \* how the last run ended
    (* history and bound *)
    before,    \* name, at the start of the run
    hadConf,   \* conf, at the start of the run
    unsaved,   \* files whose backup, made in this run, is torn unnoticed
    spoiled,   \* files at which an error has slipped, in any run
    locked,    \* a fault was a lock
    faults     \* how many faults so far

files == <<name, bak>>
confs == <<conf, confbak>>
given == <<backup, force, before, hadConf, loc>>
run == <<given, listed, unsaved, spoiled>>
vars == <<name, bak, conf, confbak, loc, pc, backup, force, old, listed, i, buf,
          result, before, hadConf, unsaved, spoiled, locked, faults>>

TypeOK ==
    /\ name \in [File -> Content] /\ bak \in [File -> Content]
    /\ conf \in BOOLEAN /\ confbak \in BOOLEAN
    /\ loc \in Place
    /\ pc \in {"idle", "hide", "query", "system", "read", "hung", "unhide", "decide", "proceed",
               "backup", "copy", "spin", "hideAgain", "text", "bin", "write",
               "restore", "rename", "restoreConf"}
    /\ backup \in BOOLEAN /\ force \in BOOLEAN
    /\ old \in Place \union {"none"} \union Strange
    /\ pc \notin {"idle", "read", "hung"} => old \notin Strange
    /\ i \in 1..(NFile + 1)
    /\ pc \in {"copy", "write", "rename"} => i \in File
    /\ listed \subseteq File /\ unsaved \subseteq File /\ spoiled \subseteq File
    /\ buf \in Content
    /\ result \in {"none", "patched", "notNeeded", "failed", "killed"}
    /\ before \in [File -> Content] /\ hadConf \in BOOLEAN
    /\ locked \in BOOLEAN /\ faults \in 0..MaxFaults

(* Qt as it was built for some path, in some other place perhaps.          *)
Init ==
    /\ \E p \in Place : name = [f \in File |-> p]
    /\ bak = [f \in File |-> "absent"]
    /\ conf \in BOOLEAN /\ confbak = FALSE /\ loc \in Place
    /\ pc = "idle" /\ backup = TRUE /\ force = FALSE /\ old = "none"
    /\ listed = {} /\ i = 1 /\ buf = "absent" /\ result = "none"
    /\ before = name /\ hadConf = conf /\ unsaved = {} /\ spoiled = {}
    /\ locked = FALSE /\ faults = 0

-----------------------------------------------------------------------------
Fault(f) ==
    /\ f \in Faults /\ faults < MaxFaults
    /\ faults' = faults + 1 /\ locked' = (locked \/ f = "lock")
NoFault == UNCHANGED <<locked, faults>>
Slip(fs) == Fault("slip") /\ spoiled' = spoiled \union fs

Return(r) == pc' = "idle" /\ result' = r
Goto(l) == pc' = l /\ UNCHANGED result
Loop(l) == Goto(l) /\ i' = i + 1
Stay(l) == Goto(l) /\ UNCHANGED i

(* Between two runs: the directory is moved, or a qt.conf is put into it.  *)
Move ==
    /\ pc = "idle"
    /\ loc' \in Place \ {loc} /\ result' = "none"
    /\ UNCHANGED <<files, confs, pc, backup, force, old, listed, i, buf, before, hadConf,
                   unsaved, spoiled, locked, faults>>

WriteConf ==
    /\ pc = "idle" /\ ~conf /\ conf' = TRUE /\ result' = "none"
    /\ UNCHANGED <<run, files, confbak, pc, old, i, buf, locked, faults>>

Start(b, f) ==
    /\ pc = "idle" /\ pc' = "hide" /\ result' = "none"
    /\ backup' = b /\ force' = f /\ before' = name /\ hadConf' = conf
    /\ old' = "none" /\ listed' = {} /\ i' = 1 /\ buf' = "absent" /\ unsaved' = {}
    /\ UNCHANGED <<files, confs, loc, spoiled, locked, faults>>

-----------------------------------------------------------------------------
(* qt.conf would make qmake answer with the present path: it is renamed    *)
(* while qmake runs.                                                       *)

Blocked(target) == target /\ ~RenameReplaces

(* rename() of qt.conf fails, or, next, there is nothing to rename or it   *)
(* succeeds.                                                               *)
RenameFails(from, to) ==
    /\ from /\ ((NoFault /\ Blocked(to)) \/ Fault("lock"))
    /\ UNCHANGED confs

BackupConfLost ==   \* mutant: qt.conf is removed where it should be renamed
    NoFault /\ conf' = FALSE /\ UNCHANGED confbak

BackupConf ==
    /\ NoFault
    /\ IF conf THEN ~Blocked(confbak) /\ conf' = FALSE /\ confbak' = TRUE
       ELSE UNCHANGED confs

RestoreConf ==
    /\ NoFault
    /\ IF confbak THEN ~Blocked(conf) /\ conf' = TRUE /\ confbak' = FALSE
       ELSE UNCHANGED confs

RemoveConf == NoFault /\ conf' = FALSE /\ UNCHANGED confbak
RemoveFails == conf /\ Fault("lock") /\ UNCHANGED confs

HideConf ==
    /\ pc = "hide"
    /\ \/ BackupConf /\ Goto("query")
       \/ RenameFails(conf, confbak) /\ Return("failed")
    /\ UNCHANGED <<run, files, old, i, buf>>

(***************************************************************************)
(* get_qmake_output: the standard output becomes a pipe, system() runs     *)
(* qmake to its end, and then the pipe is read once, while this process    *)
(* still has its other end.  A qmake that writes more than the pipe holds  *)
(* waits for a reader, which waits for it; a reader of a pipe into which   *)
(* nothing was written waits for itself.  If qmake fails the standard      *)
(* output remains the pipe, so that nothing more is seen of the run.       *)
(***************************************************************************)
Outputs ==
    IF name[QMake] \in Place THEN {name[QMake]}
    ELSE IF name[QMake] = "torn" THEN Place \union Strange ELSE {}

Redirect ==
    /\ pc = "query"
    /\ \/ NoFault /\ Goto("system")
       \/ Fault("io") /\ Goto("unhide")
    /\ UNCHANGED <<run, files, confs, old, i, buf>>

RunQMake ==
    /\ pc = "system"
    /\ \/ NoFault /\ old' \in Outputs \ {"flood"} /\ Goto("read")
       \/ NoFault /\ "flood" \in Outputs /\ Goto("hung") /\ UNCHANGED old
       \/ /\ Fault("io") \/ (NoFault /\ name[QMake] \notin Place)
          /\ Goto("unhide") /\ UNCHANGED old
    /\ UNCHANGED <<run, files, confs, i, buf>>

(* parse_qmake_output: each word has to have a colon, and a path with a    *)
(* space in it is two words.                                               *)
ParsedAsIs(output) == output   \* mutant: the answer is taken as it comes
ParsedNever(output) == "none"   \* mutant: the buffer is never looked at
Parsed(output) == IF output \in Place \ Spaced THEN output ELSE "none"

ReadOutput ==
    /\ pc = "read" /\ NoFault
    /\ IF old = "nothing" THEN Goto("hung") /\ UNCHANGED old
       ELSE Goto("unhide") /\ old' = Parsed(old)
    /\ UNCHANGED <<run, files, confs, i, buf>>

(* The user ends a run that waits for ever.                                *)
Interrupt ==
    /\ pc \in {"hung", "spin"} /\ NoFault /\ Return("killed")
    /\ UNCHANGED <<run, files, confs, old, i, buf>>

UnhideConf ==
    /\ pc = "unhide"
    /\ \/ RestoreConf /\ Goto("decide")
       \/ RenameFails(confbak, conf) /\ Return("failed")
    /\ UNCHANGED <<run, files, old, i, buf>>

NoAnswer ==
    /\ pc = "decide" /\ old = "none" /\ Return("failed") /\ NoFault
    /\ UNCHANGED <<run, files, confs, old, i, buf>>

SamePlace == old = loc /\ ~force

NotNeeded ==
    /\ pc = "decide" /\ old # "none" /\ SamePlace
    /\ \/ RemoveConf /\ Return("notNeeded")
       \/ RemoveFails /\ Return("failed")
    /\ UNCHANGED <<run, files, old, i, buf>>

(* patch_text_files comes first, patch_bin_files second.                   *)
SecondText == NBin + 2   \* mutant: the loop skips the first text file
FirstText == NBin + 1

(* find_files takes what it sees: a directory that cannot be listed, or    *)
(* the rest of one, has no files.  A call is for files of one kind.        *)
Calls == {{QMake}, Binary \ {QMake}, File \ Binary}
FindFiles ==
    /\ pc = "decide" /\ old # "none" /\ ~SamePlace /\ Stay("proceed")
    /\ LET found == {f \in File : name[f] # "absent"} IN
       \/ NoFault /\ listed' = found /\ UNCHANGED spoiled
       \/ \E call \in Calls : \E missed \in SUBSET (call \intersect found) :
             missed # {} /\ Slip(missed) /\ listed' = found \ missed
    /\ UNCHANGED <<given, unsaved, files, confs, old, buf>>

Proceed ==
    /\ pc = "proceed"
    /\ \/ backup /\ Goto("backup") /\ i' = 1 /\ NoFault /\ UNCHANGED confs
       \/ ~backup /\ Goto("text") /\ i' = FirstText /\ (RemoveConf \/ RemoveFails)
    /\ UNCHANGED <<run, files, old, buf>>

-----------------------------------------------------------------------------
(* backup_files: copy_file empties the backup and then writes it.  Its     *)
(* loop ends at the end of the file, which one that cannot be read never   *)
(* reaches, and nobody knows whether fclose has written the rest.          *)

SkipFile ==
    /\ \/ pc \in {"backup", "restore", "text"} /\ i \in File \ listed
       \/ pc = "bin" /\ i \in Binary \ listed
    /\ Loop(pc) /\ NoFault
    /\ UNCHANGED <<run, files, confs, old, buf>>

BackupFile ==
    /\ pc = "backup" /\ i \in listed
    /\ \/ NoFault /\ bak' = [bak EXCEPT ![i] = "torn"] /\ Stay("copy")
       \/ Fault("io") /\ Return("failed") /\ UNCHANGED <<bak, i>>
    /\ UNCHANGED <<run, name, confs, old, buf>>

CopyFile ==
    /\ pc = "copy"
    /\ \/ /\ NoFault /\ bak' = [bak EXCEPT ![i] = name[i]] /\ Loop("backup")
          /\ UNCHANGED <<unsaved, spoiled>>
       \/ /\ Slip({i}) /\ unsaved' = unsaved \union {i} /\ Loop("backup")
          /\ UNCHANGED bak
       \/ /\ Fault("io") /\ (Return("failed") \/ Goto("spin"))
          /\ UNCHANGED <<unsaved, spoiled, bak, i>>
    /\ UNCHANGED <<given, listed, name, confs, old, buf>>

LastBackupBinary == NBin   \* mutant: only the binaries are backed up
LastBackup == NFile

BackupEnds ==
    /\ pc = "backup" /\ i > LastBackup
    /\ Goto("hideAgain") /\ NoFault
    /\ UNCHANGED <<run, files, confs, old, i, buf>>

HideConfAgain ==
    /\ pc = "hideAgain"
    /\ \/ BackupConf /\ Goto("text") /\ i' = FirstText
       \/ RenameFails(conf, confbak) /\ Return("failed") /\ UNCHANGED i
    /\ UNCHANGED <<run, files, old, buf>>

-----------------------------------------------------------------------------
(* patch_text_files and patch_bin_files: a file is read, changed in the    *)
(* memory, and written over itself.  Only fopen, fread and fwrite are      *)
(* tested.  A text whose size is unknown counts as patched, and so does a  *)
(* file of which the end is not written, or a text that keeps its old end; *)
(* a binary that is empty cannot be read.                                  *)

(* The old path is replaced wherever it stands, inside of another path     *)
(* too; in a binary the new path itself is written over with the same.     *)
Patched(f, c) ==
    IF c = old THEN loc
    ELSE IF c \in Damage \/ <<c, old>> \notin Contains THEN c
    ELSE IF f \in Binary /\ c = loc THEN c ELSE "mangled"

(* One of the files failed: restore them all if there are backups.         *)
GiveUp == Return("failed") /\ UNCHANGED i   \* mutant: nothing is restored
PatchFails ==
    \/ backup /\ Goto("restore") /\ i' = 1
    \/ ~backup /\ Return("failed") /\ UNCHANGED i

InPhase == (pc = "text" /\ i \in File \ Binary) \/ (pc = "bin" /\ i \in Binary)

PatchFile ==
    /\ InPhase /\ i \in listed
    /\ \/ /\ NoFault /\ Stay("write")
          /\ buf' = Patched(i, name[i])
          /\ name' = [name EXCEPT ![i] = "torn"] /\ UNCHANGED spoiled
       \/ /\ Fault("io") \/ (NoFault /\ i \in Binary /\ name[i] = "torn")
          /\ PatchFails /\ UNCHANGED <<name, buf, spoiled>>
       \/ i \notin Binary /\ Slip({i}) /\ Loop("text") /\ UNCHANGED <<name, buf>>
    /\ UNCHANGED <<given, listed, unsaved, bak, confs, old>>

WriteFile ==
    /\ pc = "write"
    /\ \/ /\ \/ NoFault /\ name' = [name EXCEPT ![i] = buf] /\ UNCHANGED spoiled
             \/ Slip({i}) /\ UNCHANGED name
          /\ Loop(IF i \in Binary THEN "bin" ELSE "text")
       \/ Fault("io") /\ PatchFails /\ UNCHANGED <<name, spoiled>>
    /\ buf' = "absent"
    /\ UNCHANGED <<given, listed, unsaved, bak, confs, old>>

TextEnds ==
    /\ pc = "text" /\ i \notin File
    /\ Goto("bin") /\ i' = 1 /\ NoFault
    /\ UNCHANGED <<run, files, confs, old, buf>>

BinEnds ==
    /\ pc = "bin" /\ i \notin Binary
    /\ Return("patched") /\ NoFault
    /\ UNCHANGED <<run, files, confs, old, i, buf>>

-----------------------------------------------------------------------------
(* restore_files: remove the file and rename its backup, and go on with    *)
(* the next file whatever happens.                                         *)

RemoveFile ==
    /\ pc = "restore" /\ i \in listed
    /\ \/ NoFault /\ name' = [name EXCEPT ![i] = "absent"]
       \/ Fault("lock") /\ UNCHANGED name
    /\ Stay("rename")
    /\ UNCHANGED <<run, bak, confs, old, buf>>

RenameBackup ==
    /\ pc = "rename" /\ Loop("restore")
    /\ \/ /\ NoFault /\ bak[i] # "absent" /\ ~Blocked(name[i] # "absent")
          /\ name' = [name EXCEPT ![i] = bak[i]]
          /\ bak' = [bak EXCEPT ![i] = "absent"]
       \/ /\ Fault("lock") \/ (NoFault /\ (bak[i] = "absent" \/ Blocked(name[i] # "absent")))
          /\ UNCHANGED files
    /\ UNCHANGED <<run, confs, old, buf>>

RestoreEndsForGood ==   \* mutant: qt.conf is not restored
    /\ pc = "restore" /\ i \notin File
    /\ Return("failed") /\ NoFault
    /\ UNCHANGED <<run, files, confs, old, i, buf>>

RestoreEnds ==
    /\ pc = "restore" /\ i \notin File
    /\ Stay("restoreConf") /\ NoFault
    /\ UNCHANGED <<run, files, confs, old, buf>>

RestoreConfLast ==
    /\ pc = "restoreConf" /\ Return("failed")
    /\ RestoreConf \/ RenameFails(confbak, conf)
    /\ UNCHANGED <<run, files, old, i, buf>>

Kill ==
    /\ pc # "idle" /\ Fault("kill") /\ Return("killed")
    /\ UNCHANGED <<run, files, confs, old, i, buf>>

-----------------------------------------------------------------------------
RunStep ==
    \/ HideConf \/ Redirect \/ RunQMake \/ ReadOutput \/ UnhideConf \/ NoAnswer \/ NotNeeded
    \/ FindFiles \/ Proceed
    \/ SkipFile \/ BackupFile \/ CopyFile \/ BackupEnds \/ HideConfAgain
    \/ PatchFile \/ WriteFile \/ TextEnds \/ BinEnds
    \/ RemoveFile \/ RenameBackup \/ RestoreEnds \/ RestoreConfLast

Next ==
    \/ Move \/ WriteConf
    \/ \E b \in Backups, f \in BOOLEAN : Start(b, f)
    \/ RunStep
    \/ Interrupt
    \/ Kill

Spec == Init /\ [][Next]_vars

(* A run goes on unless it is killed; the user ends one that waits for     *)
(* ever, and starts it again.                                              *)
Fairness == WF_vars(RunStep) /\ WF_vars(Interrupt) /\ \A b \in Backups : SF_vars(Start(b, FALSE))
FairSpec == Spec /\ Fairness

-----------------------------------------------------------------------------
(* Properties.                                                             *)

(* Line 1060 and 1120: when qtbinpatcher has ended with 0, "Patching not   *)
(* needed" included, every file names the place of the Qt directory.  All  *)
(* that an error nobody noticed spoils, in this run or an earlier one, is  *)
(* the file it was met at, as long as that is not qmake.                   *)
RelocatedWhenDone ==
    result \in {"patched", "notNeeded"} /\ QMake \notin spoiled =>
        \A f \in File \ spoiled : name[f] = loc

(* The same of "Patching not needed" alone, and of the files that are      *)
(* whole: none of them names another place.                                *)
NotNeededIsTrue ==
    result = "notNeeded" => \A f \in File : name[f] \in Place => name[f] = loc

(* A run with backups that fails has changed nothing: unless a file was    *)
(* locked, it leaves qt.conf, and each file but those that have no good    *)
(* backup without knowing it, as it has found them.                        *)
FailureUndone ==
    result = "failed" /\ backup /\ ~locked =>
        (\A f \in File \ unsaved : name[f] = before[f]) /\ (hadConf => conf)

(* Whenever a run with backups is stopped, each file it has found is there *)
(* in full, under its own name or as its backup, with the same exception.  *)
NothingLost ==
    backup => \A f \in File \ unsaved : before[f] \in {name[f], bak[f]}

(* A failed or killed run never loses a qt.conf that it has found: it is   *)
(* there, or it is qt.conf.bak.                                            *)
ConfKept ==
    backup /\ hadConf /\ result \in {"failed", "killed"} => conf \/ confbak

(* Every run ends by itself, although it waits for qmake before it reads   *)
(* what qmake writes, and for output that may never come, unless a file    *)
(* cannot be read while it is copied, or qmake itself was spoiled.  This   *)
(* needs that a run that fails leaves qmake whole.                         *)
Endless == pc = "spin" \/ (pc = "hung" /\ QMake \in spoiled)
RunEnds == pc # "idle" ~> (pc = "idle" /\ result # "killed") \/ Endless

(* Two states that no later run gets past, to change any file: a new       *)
(* qt.conf beside the qt.conf.bak of an earlier success, where rename()    *)
(* does not replace, and a directory that was once relocated to a path     *)
(* with a space, which qmake's answer now has in it.                       *)
ConfInTheWay == Blocked(conf /\ confbak)
SpaceInTheWay == name[QMake] \in Spaced
Wedged == pc = "idle" /\ (ConfInTheWay \/ SpaceInTheWay)
WedgedForGood ==
    [](Wedged => [](pc \notin {"backup", "copy", "spin", "text", "bin", "write"}))

(* Otherwise repeated runs with backups relocate the directory, unless an  *)
(* error that slipped has torn a binary, which is perhaps empty now: the   *)
(* run that tore it has ended well, and the next one has no other copy.    *)
TornBinary == pc = "idle" /\ \E f \in Binary \intersect spoiled : name[f] = "torn"
EventuallyRelocated ==
    []<>(Wedged \/ TornBinary \/ result \in {"patched", "notNeeded"})

(***************************************************************************)
(* The inductive invariant behind FailureUndone, NothingLost and ConfKept, *)
(* under every fault.  Until the first file is patched the files are those *)
(* the run has found, and from then on each on the list has its backup, or *)
(* an error slipped; qt.conf is hidden while qmake is asked and from the   *)
(* first patch on.                                                         *)
(***************************************************************************)
Saved(f) == f \in listed \ unsaved => bak[f] = before[f]
Kept(f) == f \notin listed => name[f] = before[f]
Undone(f) == f \notin unsaved =>
    /\ before[f] \in {name[f], bak[f]}
    /\ ~locked => name[f] = before[f]

Asking == {"query", "system", "read", "hung", "unhide"}
Saving == {"backup", "copy", "spin", "hideAgain"}
Untouched == Asking \union Saving \union {"hide", "decide", "proceed"}
Patching == {"text", "bin", "write"}
Restoring == {"restore", "rename", "restoreConf"}

RunInv ==
    /\ pc # "idle" => result = "none"
    /\ pc \in Saving \union Restoring => backup
    /\ pc \in Untouched => name = before
    /\ pc \in Saving \union Patching \union Restoring \union {"proceed"} =>
          \A f \in listed : before[f] # "absent"

ConfInv ==
    /\ pc = "hide" => conf = hadConf
    /\ pc \in Saving \union {"decide", "proceed"} => (hadConf => conf)
    /\ pc \in Asking \/ (backup /\ pc \in Patching \union Restoring) =>
          ~conf /\ (hadConf => confbak)

BackupInv ==
    /\ pc \in {"backup", "copy"} => \A f \in File : f < i => Saved(f)
    /\ pc = "hideAgain" => \A f \in File : Saved(f)
    /\ backup /\ pc \in Patching => \A f \in File : Saved(f) /\ Kept(f)
    /\ pc = "write" => i \in listed

RestoreInv ==
    /\ pc \in {"restore", "rename"} => \A f \in File :
          /\ f < i => Undone(f)
          /\ f >= i => Saved(f) /\ Kept(f)
    /\ pc = "rename" => i \in listed /\ (~locked => name[i] = "absent")
    /\ pc = "restoreConf" => \A f \in File : Undone(f)

PatcherInv ==
    /\ TypeOK /\ RunInv /\ ConfInv /\ BackupInv /\ RestoreInv
    /\ FailureUndone /\ NothingLost /\ ConfKept

(***************************************************************************)
(* What is more when there are backups, no kill and nothing is locked: all *)
(* files that nothing spoiled name one path, but for those that the run    *)
(* has come past.  If qmake is spoiled, its answer may be anything.        *)
(***************************************************************************)
Careful == Backups = {TRUE} /\ Faults \subseteq {"io", "slip"}
Sound == File \ spoiled

InText == pc = "text" \/ (pc = "write" /\ i \notin Binary)
InBin == pc = "bin" \/ (pc = "write" /\ i \in Binary)
Past(f) == IF InText THEN f \in FirstText..(i - 1) ELSE f < i \/ f \notin Binary

OldInv ==
    /\ pc \in {"hide", "query", "system"} => old = "none"
    /\ pc \in {"read", "unhide", "decide"} => old \in {"none", before[QMake]}
    /\ pc \in {"proceed"} \union Saving \union Patching => old = before[QMake]
    /\ pc # "hung"

PastInv ==
    /\ pc \in {"proceed"} \union Saving \union Patching => Sound \subseteq listed
    /\ InText => i \in FirstText..(NFile + 1)
    /\ InBin => i \in 1..(NBin + 1)
    /\ pc \in Patching => \A f \in Sound :
          \/ name[f] = IF Past(f) THEN loc ELSE before[f]
          \/ pc = "write" /\ f = i
    /\ pc = "write" /\ i \in Sound => buf = loc

(* With backups the directory is relocated as a whole or not at all.       *)
Running == pc # "idle"
Relocate == INSTANCE Relocation WITH
                Key <- QMake, name <- IF Running THEN before ELSE name
AllOrNothing == Relocate!Spec

RelocationInv ==
    /\ PatcherInv /\ backup /\ ~locked /\ unsaved \subseteq spoiled
    /\ QMake \in Sound => Relocate!Uniform /\ OldInv /\ PastInv
    /\ RelocatedWhenDone
=============================================================================
