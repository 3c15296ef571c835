------------------------ MODULE QtBinPatcherProofs -------------------------
(***************************************************************************)
(* Proofs about QtBinPatcher, for any number of files, any paths, and any  *)
(* number of faults.  Under every fault, and but for files with a backup   *)
(* that is torn unnoticed, nothing is lost and a failed run is undone, and *)
(* qt.conf is kept; with backups, and without kills and locked files, the  *)
(* patcher implements Relocation.                                          *)
(***************************************************************************)
EXTENDS QtBinPatcher, TLAPS

-----------------------------------------------------------------------------
(* Files and their content.                                                *)

LEMMA Numbers ==
    /\ NFile \in Nat /\ NBin \in Nat \ {0} /\ NBin <= NFile /\ NFile = NBin + NTxt
    /\ QMake \in File /\ QMake \in Binary /\ Binary \subseteq File
    /\ FirstText \in 1..(NFile + 1)
BY PatcherAssumption DEF NFile, File, QMake, Binary, FirstText

LEMMA Contents ==
    /\ Place \subseteq Content
    /\ "torn" \in Content /\ "absent" \in Content /\ "mangled" \in Content
    /\ "absent" \notin Place /\ "torn" \notin Place /\ "none" \notin Place
    /\ Strange \intersect Place = {} /\ "none" \notin Strange
BY PatcherAssumption DEF Content, Damage, Strange

(* What a file is patched to is content, and never makes it absent.        *)
LEMMA PatchedContent ==
  ASSUME NEW f \in File, NEW c \in Content, loc \in Place
  PROVE  Patched(f, c) \in Content /\ (c # "absent" => Patched(f, c) # "absent")
BY Contents DEF Patched

(* Faults are counted, and locks are told from the others.                 *)
LEMMA FaultCounts ==
  ASSUME TypeOK, NEW f, Fault(f)
  PROVE  /\ locked' \in BOOLEAN /\ faults' \in 0..MaxFaults
         /\ f = "lock" => locked'
         /\ f # "lock" => locked' = locked
<1>1. faults' \in 0..MaxFaults
  BY PatcherAssumption DEF Fault, TypeOK
<1>2. locked' \in BOOLEAN /\ (f = "lock" => locked') /\ (f # "lock" => locked' = locked)
  BY DEF Fault, TypeOK
<1>. QED
  BY <1>1, <1>2

(* What find_files leaves: a list without the files that are not there,    *)
(* from which only spoiled ones may be missing.                            *)
LEMMA FindFilesDoes ==
  ASSUME TypeOK, FindFiles
  PROVE  /\ pc = "decide" /\ pc' = "proceed" /\ old # "none" /\ UNCHANGED <<result, i>>
         /\ listed' \subseteq File /\ \A f \in listed' : name[f] # "absent"
         /\ spoiled \subseteq spoiled' /\ spoiled' \subseteq File
         /\ \A f \in File \ spoiled' : name[f] # "absent" => f \in listed'
         /\ locked' = locked /\ faults' \in 0..MaxFaults
         /\ UNCHANGED <<given, unsaved, files, confs, old, buf>>
<1>. DEFINE found == {f \in File : name[f] # "absent"}
<1>1. /\ pc = "decide" /\ pc' = "proceed" /\ old # "none" /\ UNCHANGED <<result, i>>
      /\ UNCHANGED <<given, unsaved, files, confs, old, buf>>
  BY DEF FindFiles, Stay, Goto
<1>2. CASE NoFault /\ listed' = found /\ UNCHANGED spoiled
  BY <1>1, <1>2 DEF NoFault, TypeOK
<1>3. ASSUME NEW missed \in SUBSET found, Slip(missed), listed' = found \ missed
      PROVE  /\ listed' \subseteq File /\ \A f \in listed' : name[f] # "absent"
             /\ spoiled \subseteq spoiled' /\ spoiled' \subseteq File
             /\ \A f \in File \ spoiled' : name[f] # "absent" => f \in listed'
             /\ locked' = locked /\ faults' \in 0..MaxFaults
  BY <1>3, FaultCounts DEF Slip, TypeOK
<1>4. (NoFault /\ listed' = found /\ UNCHANGED spoiled)
      \/ \E missed \in SUBSET found : Slip(missed) /\ listed' = found \ missed
  BY DEF FindFiles
<1>. QED
  BY <1>1, <1>2, <1>3, <1>4

(* A backup is made, or it is torn and an error has slipped, or the run    *)
(* fails or never ends.                                                    *)
LEMMA CopyFileDoes ==
  ASSUME TypeOK, CopyFile
  PROVE  /\ pc = "copy" /\ i \in File /\ bak' \in [File -> Content]
         /\ \A f \in File : f # i => bak'[f] = bak[f]
         /\ unsaved \subseteq unsaved' /\ unsaved' \subseteq unsaved \union {i}
         /\ spoiled \subseteq spoiled' /\ spoiled' \subseteq File
         /\ unsaved' \ unsaved \subseteq spoiled'
         /\ \/ Loop("backup") /\ (bak'[i] = name[i] \/ i \in unsaved')
            \/ (Return("failed") \/ Goto("spin")) /\ i' = i
         /\ locked' = locked /\ faults' \in 0..MaxFaults
         /\ UNCHANGED <<given, listed, name, confs, old, buf>>
<1>1. /\ pc = "copy" /\ i \in File
      /\ UNCHANGED <<given, listed, name, confs, old, buf>>
  BY DEF CopyFile, TypeOK
<1>2. CASE NoFault /\ bak' = [bak EXCEPT ![i] = name[i]] /\ Loop("backup")
           /\ UNCHANGED <<unsaved, spoiled>>
  BY <1>1, <1>2 DEF NoFault, TypeOK
<1>3. CASE Slip({i}) /\ unsaved' = unsaved \union {i} /\ Loop("backup") /\ UNCHANGED bak
  BY <1>1, <1>3, FaultCounts DEF Slip, TypeOK
<1>4. CASE Fault("io") /\ (Return("failed") \/ Goto("spin"))
           /\ UNCHANGED <<unsaved, spoiled, bak, i>>
  BY <1>1, <1>4, FaultCounts DEF TypeOK
<1>. QED
  BY <1>1, <1>2, <1>3, <1>4 DEF CopyFile

(* A file is emptied and its new content is in the memory, or it is as it  *)
(* was, and the run fails, or goes on as an error has slipped.             *)
LEMMA PatchFileDoes ==
  ASSUME TypeOK, PatchFile
  PROVE  /\ InPhase /\ i \in listed /\ name' \in [File -> Content]
         /\ \A f \in File : f # i => name'[f] = name[f]
         /\ spoiled \subseteq spoiled' /\ spoiled' \subseteq File
         /\ \/ buf' = Patched(i, name[i]) /\ Stay("write")
            \/ UNCHANGED <<name, buf, spoiled>> /\ PatchFails
            \/ /\ UNCHANGED <<name, buf>> /\ i \notin Binary /\ i \in spoiled'
               /\ Loop("text")
         /\ locked' = locked /\ faults' \in 0..MaxFaults
         /\ UNCHANGED <<given, listed, unsaved, bak, confs, old>>
<1>1. /\ InPhase /\ i \in listed /\ i \in File
      /\ UNCHANGED <<given, listed, unsaved, bak, confs, old>>
  BY DEF PatchFile, TypeOK
<1>2. CASE /\ NoFault /\ Stay("write") /\ buf' = Patched(i, name[i])
           /\ name' = [name EXCEPT ![i] = "torn"] /\ UNCHANGED spoiled
  BY <1>1, <1>2, Contents DEF NoFault, TypeOK
<1>3. CASE /\ Fault("io") \/ (NoFault /\ i \in Binary /\ name[i] = "torn")
           /\ PatchFails /\ UNCHANGED <<name, buf, spoiled>>
  BY <1>1, <1>3, FaultCounts DEF NoFault, TypeOK
<1>4. CASE i \notin Binary /\ Slip({i}) /\ Loop("text") /\ UNCHANGED <<name, buf>>
  BY <1>1, <1>4, FaultCounts DEF Slip, TypeOK
<1>. QED
  BY <1>1, <1>2, <1>3, <1>4 DEF PatchFile

(* A file has its new content, or is torn and the run goes on or fails.    *)
LEMMA WriteFileDoes ==
  ASSUME TypeOK, WriteFile
  PROVE  /\ pc = "write" /\ i \in File /\ name' \in [File -> Content]
         /\ \A f \in File : f # i => name'[f] = name[f]
         /\ spoiled \subseteq spoiled' /\ spoiled' \subseteq File
         /\ \/ /\ name'[i] = buf \/ i \in spoiled'
               /\ Loop(IF i \in Binary THEN "bin" ELSE "text")
            \/ UNCHANGED <<name, spoiled>> /\ PatchFails
         /\ locked' = locked /\ faults' \in 0..MaxFaults /\ buf' = "absent"
         /\ UNCHANGED <<given, listed, unsaved, bak, confs, old>>
<1>1. /\ pc = "write" /\ i \in File /\ buf' = "absent"
      /\ UNCHANGED <<given, listed, unsaved, bak, confs, old>>
  BY DEF WriteFile, TypeOK
<1>2. CASE /\ NoFault /\ name' = [name EXCEPT ![i] = buf] /\ UNCHANGED spoiled
           /\ Loop(IF i \in Binary THEN "bin" ELSE "text")
  BY <1>1, <1>2 DEF NoFault, TypeOK
<1>3. CASE Slip({i}) /\ UNCHANGED name /\ Loop(IF i \in Binary THEN "bin" ELSE "text")
  BY <1>1, <1>3, FaultCounts DEF Slip, TypeOK
<1>4. CASE Fault("io") /\ PatchFails /\ UNCHANGED <<name, spoiled>>
  BY <1>1, <1>4, FaultCounts DEF TypeOK
<1>. QED
  BY <1>1, <1>2, <1>3, <1>4 DEF WriteFile

-----------------------------------------------------------------------------
(* Type correctness.                                                       *)

LEMMA TypeInit == Init => TypeOK
<1>. SUFFICES ASSUME Init PROVE TypeOK
  OBVIOUS
<1>1. PICK p \in Place : name = [f \in File |-> p]
  BY DEF Init
<1>2. name \in [File -> Content] /\ before \in [File -> Content]
  BY <1>1, Contents DEF Init
<1>3. bak \in [File -> Content] /\ buf \in Content
  BY Contents DEF Init
<1>4. i \in 1..(NFile + 1)
  BY Numbers DEF Init
<1>5. faults \in 0..MaxFaults
  BY PatcherAssumption DEF Init
<1>. QED
  BY <1>2, <1>3, <1>4, <1>5 DEF Init, TypeOK

LEMMA TypeNext == TypeOK /\ [Next]_vars => TypeOK'
<1>. SUFFICES ASSUME TypeOK, [Next]_vars
              PROVE  TypeOK'
  OBVIOUS
<1>. USE DEF TypeOK, NoFault
<1>f. ASSUME NEW f, Fault(f) PROVE locked' \in BOOLEAN /\ faults' \in 0..MaxFaults
  BY <1>f, FaultCounts
<1>n. i \in File => i + 1 \in 1..(NFile + 1)
  BY Numbers DEF File
<1>Move. CASE Move
  BY <1>Move, <1>f DEF Move, files, confs
<1>WriteConf. CASE WriteConf
  BY <1>WriteConf, <1>f DEF WriteConf, run, given, files
<1>HideConf. CASE HideConf
  BY <1>HideConf, <1>f, ZenonT(30)
  DEF HideConf, BackupConf, Goto, RenameFails, Return, run, given, files, confs
<1>Redirect. CASE Redirect
  BY <1>Redirect, <1>f DEF Redirect, Goto, run, given, files, confs
<1>RunQMake. CASE RunQMake
  BY <1>RunQMake, <1>f, Contents DEF RunQMake, Outputs, Goto, run, given, files, confs
<1>ReadOutput. CASE ReadOutput
  BY <1>ReadOutput, <1>f, Contents DEF ReadOutput, Goto, Parsed, run, given, files, confs
<1>UnhideConf. CASE UnhideConf
  BY <1>UnhideConf, <1>f, ZenonT(30)
  DEF UnhideConf, RestoreConf, Goto, RenameFails, Return, run, given, files, confs
<1>NoAnswer. CASE NoAnswer
  BY <1>NoAnswer, <1>f DEF NoAnswer, Return, run, given, files, confs
<1>NotNeeded. CASE NotNeeded
  BY <1>NotNeeded, <1>f DEF NotNeeded, RemoveConf, Return, RemoveFails, run, given, files, confs
<1>Proceed. CASE Proceed
  <2>. USE <1>Proceed DEF Proceed, Goto, files, run, given
  <2>1. locked' \in BOOLEAN /\ faults' \in 0..MaxFaults
    BY <1>f DEF RemoveConf, RemoveFails
  <2>2. i' \in 1..(NFile + 1)
    BY Numbers
  <2>3. conf' \in BOOLEAN /\ confbak' \in BOOLEAN
    BY DEF RemoveConf, RemoveFails, confs
  <2>. QED
    BY <2>1, <2>2, <2>3
<1>SkipFile. CASE SkipFile
  BY <1>SkipFile, <1>f, Numbers, <1>n DEF SkipFile, Loop, run, given, files, confs, Goto
<1>BackupFile. CASE BackupFile
  BY <1>BackupFile, <1>f, Contents DEF BackupFile, Stay, Return, run, given, confs, Goto
<1>CopyFile. CASE CopyFile
  BY <1>CopyFile, <1>n, CopyFileDoes DEF Loop, Return, given, confs, Goto
<1>BackupEnds. CASE BackupEnds
  BY <1>BackupEnds, <1>f DEF BackupEnds, Goto, run, given, files, confs
<1>HideConfAgain. CASE HideConfAgain
  BY <1>HideConfAgain, <1>f, Numbers, ZenonT(30)
  DEF HideConfAgain, BackupConf, Goto, RenameFails, Return, run, given, files,
      confs
<1>PatchFile. CASE PatchFile
  BY <1>PatchFile, <1>n, PatchFileDoes, Numbers, PatchedContent
  DEF InPhase, Stay, Loop, PatchFails, given, confs, Goto, Return
<1>WriteFile. CASE WriteFile
  BY <1>WriteFile, <1>n, WriteFileDoes, Numbers, Contents
  DEF Loop, PatchFails, given, confs, Goto, Return
<1>TextEnds. CASE TextEnds
  BY <1>TextEnds, <1>f, Numbers DEF TextEnds, Goto, run, given, files, confs
<1>BinEnds. CASE BinEnds
  BY <1>BinEnds, <1>f, Numbers DEF BinEnds, Return, run, given, files, confs
<1>RemoveFile. CASE RemoveFile
  BY <1>RemoveFile, <1>f, Contents DEF RemoveFile, Stay, run, given, confs, Goto
<1>RenameBackup. CASE RenameBackup
  <2>. USE <1>RenameBackup DEF RenameBackup, Loop, Goto, files, confs, run, given
  <2>1. name' \in [File -> Content] /\ bak' \in [File -> Content]
    BY Contents
  <2>2. locked' \in BOOLEAN /\ faults' \in 0..MaxFaults
    BY <1>f
  <2>3. i' \in 1..(NFile + 1)
    BY <1>n
  <2>. QED
    BY <2>1, <2>2, <2>3
<1>RestoreEnds. CASE RestoreEnds
  BY <1>RestoreEnds, <1>f, Numbers DEF RestoreEnds, Stay, run, given, files, confs, Goto
<1>RestoreConfLast. CASE RestoreConfLast
  BY <1>RestoreConfLast, <1>f
  DEF RestoreConfLast, Return, RestoreConf, RenameFails, run, given, files, confs
<1>Interrupt. CASE Interrupt
  BY <1>Interrupt, <1>f DEF Interrupt, Return, run, given, files, confs
<1>Kill. CASE Kill
  BY <1>Kill, <1>f DEF Kill, Return, run, given, files, confs
<1>Start. ASSUME NEW b \in Backups, NEW f \in BOOLEAN, Start(b, f) PROVE TypeOK'
  <2>1. b \in BOOLEAN
    BY PatcherAssumption
  <2>2. 1 \in 1..(NFile + 1)
    BY Numbers
  <2>. QED
    BY <1>Start, <2>1, <2>2, Contents DEF Start, files, confs
<1>ff. CASE FindFiles
  BY <1>ff, FindFilesDoes DEF given, files, confs
<1>Stutter. CASE UNCHANGED vars
  BY <1>Stutter DEF vars
<1>. QED
  BY <1>ff, <1>Start, <1>Stutter, <1>Move, <1>WriteConf, <1>HideConf, <1>Redirect,
     <1>RunQMake, <1>ReadOutput, <1>UnhideConf, <1>NoAnswer, <1>NotNeeded,
     <1>Proceed, <1>SkipFile, <1>BackupFile, <1>CopyFile, <1>BackupEnds,
     <1>HideConfAgain, <1>PatchFile, <1>WriteFile, <1>TextEnds, <1>BinEnds,
     <1>RemoveFile, <1>RenameBackup, <1>RestoreEnds, <1>RestoreConfLast,
     <1>Interrupt, <1>Kill
  DEF Next, RunStep

(* Every variable keeps its type, under every fault.                       *)
THEOREM TypeCorrect == Spec => []TypeOK
BY TypeInit, TypeNext, PTL DEF Spec

-----------------------------------------------------------------------------
(* The invariant of the files, their backups and qt.conf.                  *)

LEMMA RunInvNext == PatcherInv /\ TypeOK' /\ [Next]_vars => RunInv'
<1>. SUFFICES ASSUME PatcherInv, TypeOK', [Next]_vars
              PROVE  RunInv'
  OBVIOUS
<1>. USE DEF PatcherInv, NoFault, RunInv, Asking, Saving, Untouched, Patching, Restoring
<1>1. CASE HideConf \/ Redirect \/ RunQMake \/ ReadOutput \/ UnhideConf
          \/ NoAnswer \/ NotNeeded \/ Proceed
  BY <1>1
  DEF HideConf, BackupConf, Goto, RenameFails, Return, run, given, files, confs,
      Redirect, RunQMake, ReadOutput, UnhideConf, RestoreConf, NoAnswer,
      NotNeeded, RemoveConf, RemoveFails, Proceed, TypeOK
<1>2. CASE SkipFile \/ BackupFile \/ BackupEnds \/ HideConfAgain
  BY <1>2
  DEF SkipFile, Loop, run, given, files, confs, Goto, BackupFile, Stay, Return,
      BackupEnds, HideConfAgain, BackupConf, RenameFails, TypeOK
<1>3. CASE TextEnds \/ BinEnds \/ RemoveFile \/ RenameBackup \/ RestoreEnds
          \/ RestoreConfLast
  BY <1>3
  DEF Stay, run, given, confs, Goto, Return,
      Loop, TextEnds, files, BinEnds, RemoveFile, RenameBackup,
      RestoreEnds, RestoreConfLast, RestoreConf, RenameFails, TypeOK
<1>4. CASE Move \/ WriteConf \/ Interrupt \/ Kill
  BY <1>4
  DEF Move, files, confs, WriteConf, run, given, Interrupt, Return, run, given, Kill, TypeOK
<1>s. ASSUME NEW b \in Backups, NEW f \in BOOLEAN, Start(b, f) PROVE RunInv'
  BY <1>s DEF Start, files, confs, TypeOK
<1>cp. CASE CopyFile
  BY <1>cp, CopyFileDoes
  DEF Loop, Stay, Goto, Return, PatchFails, InPhase, given, confs, TypeOK
<1>pf. CASE PatchFile
  BY <1>pf, PatchFileDoes
  DEF Loop, Stay, Goto, Return, PatchFails, InPhase, given, confs, TypeOK
<1>wf. CASE WriteFile
  BY <1>wf, WriteFileDoes
  DEF Loop, Stay, Goto, Return, PatchFails, InPhase, given, confs, TypeOK
<1>ff. CASE FindFiles
  BY <1>ff, FindFilesDoes DEF given, files, confs, TypeOK
<1>u. CASE UNCHANGED vars
  BY <1>u DEF vars
<1>. QED
  BY <1>ff, <1>cp, <1>pf, <1>wf, <1>1, <1>2, <1>3, <1>4, <1>s, <1>u DEF Next, RunStep

LEMMA ConfInvNext == PatcherInv /\ TypeOK' /\ [Next]_vars => ConfInv'
<1>. SUFFICES ASSUME PatcherInv, TypeOK', [Next]_vars
              PROVE  ConfInv'
  OBVIOUS
<1>. USE DEF PatcherInv, NoFault, ConfInv, Asking, Saving, Patching, Restoring
<1>1. CASE HideConf \/ Redirect \/ RunQMake \/ ReadOutput \/ UnhideConf
          \/ NoAnswer \/ NotNeeded \/ Proceed
  BY <1>1
  DEF HideConf, BackupConf, Goto, RenameFails, Return, run, given, files, confs,
      Redirect, RunQMake, ReadOutput, UnhideConf, RestoreConf, NoAnswer,
      NotNeeded, RemoveConf, RemoveFails, Proceed, TypeOK
<1>2. CASE SkipFile \/ BackupFile \/ BackupEnds \/ HideConfAgain
  BY <1>2
  DEF SkipFile, Loop, run, given, files, confs, Goto, BackupFile, Stay, Return,
      BackupEnds, HideConfAgain, BackupConf, RenameFails, TypeOK
<1>3. CASE TextEnds \/ BinEnds \/ RemoveFile \/ RenameBackup \/ RestoreEnds
          \/ RestoreConfLast
  BY <1>3
  DEF Stay, run, given, confs, Goto, Return,
      Loop, TextEnds, files, BinEnds, RemoveFile, RenameBackup,
      RestoreEnds, RestoreConfLast, RestoreConf, RenameFails, TypeOK
<1>4. CASE Move \/ WriteConf \/ Interrupt \/ Kill
  BY <1>4
  DEF Move, files, confs, WriteConf, run, given, Interrupt, Return, run, given, Kill, TypeOK
<1>s. ASSUME NEW b \in Backups, NEW f \in BOOLEAN, Start(b, f) PROVE ConfInv'
  BY <1>s DEF Start, files, confs, TypeOK
<1>cp. CASE CopyFile
  BY <1>cp, CopyFileDoes
  DEF Loop, Stay, Goto, Return, PatchFails, InPhase, given, confs, TypeOK
<1>pf. CASE PatchFile
  BY <1>pf, PatchFileDoes
  DEF Loop, Stay, Goto, Return, PatchFails, InPhase, given, confs, TypeOK
<1>wf. CASE WriteFile
  BY <1>wf, WriteFileDoes
  DEF Loop, Stay, Goto, Return, PatchFails, InPhase, given, confs, TypeOK
<1>ff. CASE FindFiles
  BY <1>ff, FindFilesDoes DEF given, files, confs, TypeOK
<1>u. CASE UNCHANGED vars
  BY <1>u DEF vars
<1>. QED
  BY <1>ff, <1>cp, <1>pf, <1>wf, <1>1, <1>2, <1>3, <1>4, <1>s, <1>u DEF Next, RunStep

LEMMA BackupInvNext == PatcherInv /\ TypeOK' /\ [Next]_vars => BackupInv'
<1>. SUFFICES ASSUME PatcherInv, TypeOK', [Next]_vars
              PROVE  BackupInv'
  OBVIOUS
<1>. USE DEF PatcherInv, NoFault, BackupInv, Saved, Kept, Patching, Saving, Restoring
<1>1. CASE Proceed \/ BackupEnds
  BY <1>1, Numbers
  DEF Proceed, Goto, confs, RemoveConf, RemoveFails, run, given, files, BackupEnds,
      TypeOK, File, LastBackup
<1>2. CASE SkipFile
  BY <1>2, Numbers
  DEF SkipFile, Loop, run, given, files, confs, Goto, TypeOK, RunInv, Untouched,
      File
<1>3. CASE BackupFile
  BY <1>3, Numbers
  DEF BackupFile, Stay, Return, run, given, confs, Goto, Loop, TypeOK,
      RunInv, Untouched, File
<1>4. CASE HideConfAgain
  BY <1>4
  DEF HideConfAgain, BackupConf, Goto, RenameFails, Return, run, given, files,
      confs, TypeOK, RunInv, Untouched
<1>7. CASE Move \/ WriteConf \/ HideConf \/ Redirect \/ RunQMake \/ ReadOutput
          \/ UnhideConf \/ NoAnswer \/ NotNeeded \/ TextEnds \/ BinEnds
          \/ RemoveFile \/ RenameBackup \/ RestoreEnds \/ RestoreConfLast
          \/ Interrupt \/ Kill
  BY <1>7
  DEF Move, files, confs, WriteConf, run, given, HideConf, BackupConf, Goto, RenameFails,
      Return, Redirect, RunQMake, ReadOutput, UnhideConf, RestoreConf,
      NoAnswer, NotNeeded, RemoveConf, RemoveFails, TextEnds, BinEnds,
      RemoveFile, Stay, RenameBackup, Loop, RestoreEnds, RestoreConfLast,
      Interrupt, Kill, TypeOK
<1>s. ASSUME NEW b \in Backups, NEW f \in BOOLEAN, Start(b, f) PROVE BackupInv'
  BY <1>s DEF Start, files, confs, TypeOK
<1>cp. CASE CopyFile
  BY <1>cp, CopyFileDoes, Numbers, SMTT(30)
  DEF Loop, Goto, Return, given, TypeOK, RunInv, Untouched, File
<1>pf. CASE PatchFile
  BY <1>pf, PatchFileDoes
  DEF Loop, Stay, Goto, Return, PatchFails, InPhase, given, confs, TypeOK
<1>wf. CASE WriteFile
  BY <1>wf, WriteFileDoes
  DEF Loop, Stay, Goto, Return, PatchFails, InPhase, given, confs, TypeOK
<1>ff. CASE FindFiles
  BY <1>ff, FindFilesDoes DEF given, files, confs, TypeOK
<1>u. CASE UNCHANGED vars
  BY <1>u DEF vars
<1>. QED
  BY <1>ff, <1>cp, <1>pf, <1>wf, <1>1, <1>2, <1>3, <1>4, <1>7, <1>s, <1>u DEF Next, RunStep

LEMMA RestoreInvNext == PatcherInv /\ TypeOK' /\ [Next]_vars => RestoreInv'
<1>. SUFFICES ASSUME PatcherInv, TypeOK', [Next]_vars
              PROVE  RestoreInv'
  OBVIOUS
<1>. USE DEF PatcherInv, NoFault, RestoreInv, Saved, Kept, Undone
<1>l. ASSUME NEW f, Fault(f)
      PROVE  /\ f = "lock" => locked'
             /\ f # "lock" => locked' = locked
  BY <1>l, FaultCounts
<1>1. CASE SkipFile
  BY <1>1, Numbers
  DEF SkipFile, Loop, run, given, files, confs, Goto, TypeOK, File
<1>4. CASE RemoveFile
  BY <1>4, <1>l, Numbers
  DEF RemoveFile, Stay, run, given, confs, Goto, TypeOK, File
<1>5. CASE RenameBackup
  BY <1>5, <1>l, Numbers
  DEF RenameBackup, Loop, files, run, given, confs, Goto, TypeOK, File, Blocked
<1>6. CASE RestoreEnds
  BY <1>6, Numbers
  DEF RestoreEnds, Stay, run, given, files, confs, Goto, TypeOK, File
<1>7. CASE Move \/ WriteConf \/ HideConf \/ Redirect \/ RunQMake
          \/ ReadOutput \/ UnhideConf \/ NoAnswer \/ NotNeeded \/ Proceed
          \/ BackupFile \/ BackupEnds \/ HideConfAgain \/ TextEnds
          \/ BinEnds \/ RestoreConfLast \/ Interrupt \/ Kill
  BY <1>7
  DEF Move, files, confs, WriteConf, run, given, HideConf, BackupConf, Goto, RenameFails,
      Return, Redirect, RunQMake, ReadOutput, UnhideConf, RestoreConf,
      NoAnswer, NotNeeded, RemoveConf, RemoveFails, Proceed, BackupFile,
      Stay, Loop, BackupEnds, HideConfAgain, TextEnds, BinEnds,
      RestoreConfLast, Interrupt, Kill, TypeOK
<1>s. ASSUME NEW b \in Backups, NEW f \in BOOLEAN, Start(b, f) PROVE RestoreInv'
  BY <1>s DEF Start, files, confs, TypeOK
<1>cp. CASE CopyFile
  BY <1>cp, CopyFileDoes
  DEF Loop, Stay, Goto, Return, PatchFails, InPhase, given, confs, TypeOK
<1>pf. CASE PatchFile
  BY <1>pf, PatchFileDoes, Numbers, SMTT(30)
  DEF Loop, Stay, Goto, Return, PatchFails, InPhase, given, TypeOK,
      BackupInv, Patching, File
<1>wf. CASE WriteFile
  BY <1>wf, WriteFileDoes, Numbers, SMTT(30)
  DEF Loop, Stay, Goto, Return, PatchFails, InPhase, given, TypeOK,
      BackupInv, Patching, File
<1>ff. CASE FindFiles
  BY <1>ff, FindFilesDoes DEF given, files, confs, TypeOK
<1>u. CASE UNCHANGED vars
  BY <1>u DEF vars
<1>. QED
  BY <1>ff, <1>cp, <1>pf, <1>wf, <1>1, <1>4, <1>5, <1>6, <1>7, <1>s, <1>u DEF Next, RunStep

LEMMA FailureUndoneNext == PatcherInv /\ TypeOK' /\ [Next]_vars => FailureUndone'
<1>. SUFFICES ASSUME PatcherInv, TypeOK', [Next]_vars
              PROVE  FailureUndone'
  OBVIOUS
<1>. USE DEF PatcherInv, NoFault, FailureUndone
<1>l. ASSUME NEW f, Fault(f)
      PROVE  /\ f = "lock" => locked'
             /\ f # "lock" => locked' = locked
  BY <1>l, FaultCounts
<1>1. CASE HideConf \/ UnhideConf \/ NoAnswer \/ NotNeeded \/ BackupFile
          \/ HideConfAgain
  BY <1>1, <1>l
  DEF HideConf, BackupConf, Goto, RenameFails, Return, run, given, files, confs,
      UnhideConf, RestoreConf, NoAnswer, NotNeeded, RemoveConf, RemoveFails,
      BackupFile, Stay, Loop, HideConfAgain, TypeOK, RunInv,
      ConfInv, Untouched, Saving, Asking, Blocked
<1>3. CASE RestoreConfLast
  <2>1. result' = "failed" /\ ~locked' => (\A f \in File \ unsaved' : name'[f] = before'[f])
    BY <1>3, <1>l
    DEF RestoreConfLast, RestoreConf, RenameFails, run, given, files, TypeOK,
        RestoreInv, Undone
  <2>2. result' = "failed" /\ backup' /\ ~locked' => (hadConf' => conf')
    BY <1>3, <1>l
    DEF RestoreConfLast, RestoreConf, RenameFails, Blocked, run, given, TypeOK, ConfInv, Restoring
  <2>. QED
    BY <2>1, <2>2
<1>4. CASE Move \/ WriteConf \/ Redirect \/ RunQMake \/ ReadOutput \/ Proceed
          \/ SkipFile \/ BackupEnds \/ TextEnds \/ BinEnds \/ RemoveFile
          \/ RenameBackup \/ RestoreEnds \/ Interrupt \/ Kill
  BY <1>4
  DEF Move, files, confs, WriteConf, run, given, Redirect, Goto, run, given, RunQMake,
      ReadOutput, Proceed, RemoveConf, RemoveFails, SkipFile, Loop,
      BackupEnds, TextEnds, BinEnds, Return, RemoveFile, Stay, RenameBackup,
      RestoreEnds, Interrupt, Kill, RunInv, TypeOK
<1>s. ASSUME NEW b \in Backups, NEW f \in BOOLEAN, Start(b, f) PROVE FailureUndone'
  BY <1>s DEF Start, files, confs, TypeOK
<1>cp. CASE CopyFile
  BY <1>cp, CopyFileDoes
  DEF Loop, Goto, Return, given, confs, TypeOK, RunInv, ConfInv, Untouched, Saving
<1>pf. CASE PatchFile
  BY <1>pf, PatchFileDoes
  DEF Loop, Stay, Goto, Return, PatchFails, InPhase, given, TypeOK, RunInv
<1>wf. CASE WriteFile
  BY <1>wf, WriteFileDoes
  DEF Loop, Stay, Goto, Return, PatchFails, InPhase, given, TypeOK, RunInv
<1>ff. CASE FindFiles
  BY <1>ff, FindFilesDoes DEF given, files, confs, TypeOK
<1>u. CASE UNCHANGED vars
  BY <1>u DEF vars
<1>. QED
  BY <1>ff, <1>cp, <1>pf, <1>wf, <1>1, <1>3, <1>4, <1>s, <1>u DEF Next, RunStep

LEMMA NothingLostNext == PatcherInv /\ TypeOK' /\ [Next]_vars => NothingLost'
<1>. SUFFICES ASSUME PatcherInv, TypeOK', [Next]_vars
              PROVE  NothingLost'
  OBVIOUS
<1>. USE DEF PatcherInv, NoFault, NothingLost
<1>1. CASE BackupFile
  BY <1>1
  DEF BackupFile, Stay, Return, run, given, confs, Goto, Loop, RunInv,
      Untouched, Saving, TypeOK
<1>3. CASE RemoveFile
  BY <1>3
  DEF RemoveFile, Stay, run, given, confs, Goto, RestoreInv, Saved, Kept, Undone,
      TypeOK, File
<1>4. CASE RenameBackup
  BY <1>4
  DEF RenameBackup, Loop, files, run, given, confs, Goto, RestoreInv, Saved, TypeOK
<1>5. CASE Move \/ WriteConf \/ HideConf \/ Redirect \/ RunQMake \/ ReadOutput
          \/ UnhideConf \/ NoAnswer \/ NotNeeded \/ Proceed \/ SkipFile
          \/ BackupEnds \/ HideConfAgain \/ TextEnds \/ BinEnds \/ RestoreEnds
          \/ RestoreConfLast \/ Interrupt \/ Kill
  BY <1>5
  DEF Move, files, confs, WriteConf, run, given, HideConf, BackupConf, Goto, RenameFails,
      Return, Redirect, RunQMake, ReadOutput, UnhideConf, RestoreConf,
      NoAnswer, NotNeeded, RemoveConf, RemoveFails, Proceed, SkipFile, Loop,
      BackupEnds, HideConfAgain, TextEnds, BinEnds, RestoreEnds, Stay,
      RestoreConfLast, Interrupt, Kill
<1>s. ASSUME NEW b \in Backups, NEW f \in BOOLEAN, Start(b, f) PROVE NothingLost'
  BY <1>s DEF Start, files, confs, TypeOK
<1>cp. CASE CopyFile
  BY <1>cp, CopyFileDoes
  DEF given, TypeOK, RunInv, Untouched, Saving
<1>pf. CASE PatchFile
  BY <1>pf, PatchFileDoes
  DEF given, InPhase, TypeOK, BackupInv, Saved, Kept, Patching
<1>wf. CASE WriteFile
  BY <1>wf, WriteFileDoes
  DEF given, TypeOK, BackupInv, Saved, Kept, Patching
<1>ff. CASE FindFiles
  BY <1>ff, FindFilesDoes DEF given, files, confs, TypeOK
<1>u. CASE UNCHANGED vars
  BY <1>u DEF vars
<1>. QED
  BY <1>ff, <1>cp, <1>pf, <1>wf, <1>1, <1>3, <1>4, <1>5, <1>s, <1>u DEF Next, RunStep

LEMMA ConfKeptNext == PatcherInv /\ TypeOK' /\ [Next]_vars => ConfKept'
<1>. SUFFICES ASSUME PatcherInv, TypeOK', [Next]_vars
              PROVE  ConfKept'
  OBVIOUS
<1>. USE DEF PatcherInv, NoFault, ConfKept
<1>1. CASE HideConf \/ UnhideConf \/ NoAnswer \/ NotNeeded \/ BackupFile
          \/ HideConfAgain
  BY <1>1
  DEF HideConf, BackupConf, Goto, RenameFails, Return, run, given, files, confs,
      UnhideConf, RestoreConf, NoAnswer, NotNeeded, RemoveConf, RemoveFails,
      BackupFile, Stay, Loop, HideConfAgain, TypeOK, ConfInv,
      Asking, Saving, Patching, Restoring
<1>2. CASE RestoreConfLast
  BY <1>2
  DEF Stay, run, given, confs, Goto, Return,
      Loop, RestoreConfLast, RestoreConf, RenameFails, files,
      TypeOK, ConfInv, Asking, Saving, Patching, Restoring
<1>3. CASE Interrupt \/ Kill
  BY <1>3
  DEF Interrupt, Return, run, given, files, confs, Kill, TypeOK, ConfInv, Asking,
      Saving, Patching, Restoring
<1>4. CASE Move \/ WriteConf \/ Redirect \/ RunQMake \/ ReadOutput \/ Proceed
          \/ SkipFile \/ BackupEnds \/ TextEnds \/ BinEnds \/ RemoveFile
          \/ RenameBackup \/ RestoreEnds
  BY <1>4
  DEF Move, files, confs, WriteConf, run, given, Redirect, Goto, run, given, RunQMake,
      ReadOutput, Proceed, RemoveConf, RemoveFails, SkipFile, Loop,
      BackupEnds, TextEnds, BinEnds, Return, RemoveFile, Stay, RenameBackup,
      RestoreEnds, RunInv, TypeOK
<1>s. ASSUME NEW b \in Backups, NEW f \in BOOLEAN, Start(b, f) PROVE ConfKept'
  BY <1>s DEF Start, files, confs, TypeOK
<1>cp. CASE CopyFile
  BY <1>cp, CopyFileDoes
  DEF Loop, Goto, Return, given, confs, TypeOK, ConfInv, Saving
<1>pf. CASE PatchFile
  BY <1>pf, PatchFileDoes
  DEF Loop, Stay, Goto, Return, PatchFails, InPhase, given, confs, TypeOK
<1>wf. CASE WriteFile
  BY <1>wf, WriteFileDoes
  DEF Loop, Stay, Goto, Return, PatchFails, InPhase, given, confs, TypeOK
<1>ff. CASE FindFiles
  BY <1>ff, FindFilesDoes DEF given, files, confs, TypeOK
<1>u. CASE UNCHANGED vars
  BY <1>u DEF vars
<1>. QED
  BY <1>ff, <1>cp, <1>pf, <1>wf, <1>1, <1>2, <1>3, <1>4, <1>s, <1>u DEF Next, RunStep

LEMMA PatcherInit == Init => PatcherInv
<1>. SUFFICES ASSUME Init PROVE PatcherInv
  OBVIOUS
<1>1. TypeOK
  BY TypeInit
<1>2. RunInv /\ ConfInv /\ BackupInv /\ RestoreInv
  BY
  DEF Init, RunInv, ConfInv, BackupInv, RestoreInv, Asking, Untouched, Saving,
      Patching, Restoring
<1>3. FailureUndone /\ NothingLost /\ ConfKept
  BY DEF Init, FailureUndone, NothingLost, ConfKept
<1>. QED
  BY <1>1, <1>2, <1>3 DEF PatcherInv

LEMMA PatcherNext == PatcherInv /\ [Next]_vars => PatcherInv'
<1>. SUFFICES ASSUME PatcherInv, [Next]_vars PROVE PatcherInv'
  OBVIOUS
<1>1. TypeOK'
  BY TypeNext DEF PatcherInv
<1>2. RunInv' /\ ConfInv' /\ BackupInv' /\ RestoreInv'
  BY <1>1, RunInvNext, ConfInvNext, BackupInvNext, RestoreInvNext
<1>3. FailureUndone' /\ NothingLost' /\ ConfKept'
  BY <1>1, FailureUndoneNext, NothingLostNext, ConfKeptNext
<1>. QED
  BY <1>1, <1>2, <1>3 DEF PatcherInv

(* Under every fault each file is as it was found until it has its backup, *)
(* and qt.conf is hidden exactly while qmake is asked or files are patched.*)
THEOREM PatcherInvariant == Spec => []PatcherInv
BY PatcherInit, PatcherNext, PTL DEF Spec

(* Whenever a run with backups is stopped, each file it has found is there *)
(* in full, under its own name or as its backup, but for those whose       *)
(* backup copy_file left torn without an error (fclose at 553).            *)
THEOREM NothingIsLost == Spec => []NothingLost
<1>1. PatcherInv => NothingLost
  BY DEF PatcherInv
<1>. QED
  BY <1>1, PatcherInvariant, PTL

(* A run with backups that fails, and finds no file locked, leaves qt.conf *)
(* and every file with a good backup as it has found them; a backup that   *)
(* is torn unnoticed is restored like any other.                           *)
THEOREM FailuresAreUndone == Spec => []FailureUndone
<1>1. PatcherInv => FailureUndone
  BY DEF PatcherInv
<1>. QED
  BY <1>1, PatcherInvariant, PTL

(* A failed or killed run with backups never loses a qt.conf: it is there, *)
(* or it is qt.conf.bak.                                                   *)
THEOREM ConfIsKept == Spec => []ConfKept
<1>1. PatcherInv => ConfKept
  BY DEF PatcherInv
<1>. QED
  BY <1>1, PatcherInvariant, PTL

-----------------------------------------------------------------------------
(* With backups, and unless the patcher is killed or a file is locked, it  *)
(* implements Relocation.                                                  *)

LEMMA OnlyIo ==
  ASSUME Careful, NEW f, Fault(f)
  PROVE  f \in {"io", "slip"}
BY DEF Careful, Fault

(* What is spoiled stays spoiled, and backups that are torn are of files   *)
(* that are spoiled.                                                       *)
LEMMA SpoiledGrows ==
  ASSUME TypeOK, [Next]_vars
  PROVE  /\ spoiled \subseteq spoiled'
         /\ unsaved \subseteq spoiled => unsaved' \subseteq spoiled'
<1>1. CASE Move \/ WriteConf \/ HideConf \/ Redirect \/ RunQMake \/ ReadOutput
          \/ UnhideConf \/ NoAnswer \/ NotNeeded \/ Proceed
  BY <1>1
  DEF Move, WriteConf, run, HideConf, Redirect, RunQMake, ReadOutput,
      UnhideConf, NoAnswer, NotNeeded, Proceed
<1>2. CASE SkipFile \/ BackupFile \/ BackupEnds \/ HideConfAgain \/ TextEnds
          \/ BinEnds \/ RemoveFile \/ RenameBackup \/ RestoreEnds
          \/ RestoreConfLast \/ Interrupt \/ Kill
  BY <1>2
  DEF SkipFile, BackupFile, BackupEnds, HideConfAgain, TextEnds, BinEnds,
      RemoveFile, RenameBackup, RestoreEnds, RestoreConfLast, Interrupt,
      Kill, run
<1>s. ASSUME NEW b \in Backups, NEW f \in BOOLEAN, Start(b, f)
      PROVE  unsaved' = {} /\ spoiled' = spoiled
  BY <1>s DEF Start
<1>cp. CASE CopyFile
  BY <1>cp, CopyFileDoes
<1>pf. CASE PatchFile
  BY <1>pf, PatchFileDoes
<1>wf. CASE WriteFile
  BY <1>wf, WriteFileDoes
<1>ff. CASE FindFiles
  BY <1>ff, FindFilesDoes
<1>u. CASE UNCHANGED vars
  BY <1>u DEF vars
<1>. QED
  BY <1>1, <1>2, <1>s, <1>cp, <1>pf, <1>wf, <1>ff, <1>u DEF Next, RunStep

(* The sound files name one path, which is not one of the special values.  *)
LEMMA OnePath ==
  ASSUME RelocationInv, QMake \in Sound
  PROVE  /\ Running => before[QMake] \in Place
         /\ Running => \A f \in Sound : before[f] = before[QMake]
<1>1. PICK p \in Place : \A f \in Sound : (IF Running THEN before ELSE name)[f] = p
  BY DEF RelocationInv, Relocate!Uniform, Relocate!Sound, Sound
<1>. QED
  BY <1>1

LEMMA OldNext ==
  Careful /\ RelocationInv /\ PatcherInv' /\ QMake \in Sound' /\ [Next]_vars => OldInv'
<1>. SUFFICES ASSUME Careful, RelocationInv, PatcherInv', QMake \in Sound', [Next]_vars
              PROVE  OldInv'
  OBVIOUS
<1>. USE DEF OldInv, NoFault, Running, Patching, Saving
<1>t. TypeOK /\ RunInv
  BY DEF RelocationInv, PatcherInv
<1>q. QMake \in Sound /\ OldInv
  BY <1>t, SpoiledGrows DEF Sound, RelocationInv
<1>p. Running => before[QMake] \in Place
  BY <1>q, OnePath
<1>1. CASE RunQMake
  BY <1>1, <1>q, <1>p, <1>t, Contents
  DEF RunQMake, Goto, run, given, files, confs, Outputs, Strange, TypeOK, RunInv,
      Untouched, Asking
<1>2. CASE ReadOutput
  BY <1>2, <1>q, <1>p, <1>t, Contents
  DEF ReadOutput, Goto, run, given, files, confs, Parsed, Strange, TypeOK
<1>3. CASE NoAnswer \/ NotNeeded \/ Proceed
  BY <1>3, <1>q, <1>t
  DEF NoAnswer, Return, run, given, files, confs, NotNeeded, RemoveConf,
      RemoveFails, Proceed, Goto, TypeOK
<1>4. CASE Move \/ WriteConf \/ HideConf \/ Redirect \/ UnhideConf
          \/ Interrupt \/ Kill
  BY <1>4, <1>q, <1>t
  DEF Move, files, confs, WriteConf, run, given, HideConf, BackupConf, Goto, RenameFails,
      Return, Redirect, UnhideConf, RestoreConf, Interrupt, Kill,
      TypeOK
<1>5. CASE SkipFile \/ BackupFile \/ BackupEnds \/ HideConfAgain \/ TextEnds
          \/ BinEnds \/ RemoveFile \/ RenameBackup \/ RestoreEnds
          \/ RestoreConfLast
  BY <1>5, <1>q, <1>t
  DEF SkipFile, Loop, run, given, files, confs, Goto, BackupFile, Stay, Return,
      BackupEnds, HideConfAgain, BackupConf, RenameFails,
      TextEnds, BinEnds,
      RemoveFile, RenameBackup, RestoreEnds, RestoreConfLast, RestoreConf,
      TypeOK
<1>s. ASSUME NEW b \in Backups, NEW f \in BOOLEAN, Start(b, f) PROVE OldInv'
  BY <1>s, <1>q DEF Start, files, confs
<1>cp. CASE CopyFile
  BY <1>cp, <1>q, CopyFileDoes, <1>t
  DEF Loop, Stay, Goto, Return, PatchFails, InPhase, given, confs, TypeOK
<1>pf. CASE PatchFile
  BY <1>pf, <1>q, PatchFileDoes, <1>t
  DEF Loop, Stay, Goto, Return, PatchFails, InPhase, given, confs, TypeOK
<1>wf. CASE WriteFile
  BY <1>wf, <1>q, WriteFileDoes, <1>t
  DEF Loop, Stay, Goto, Return, PatchFails, InPhase, given, confs, TypeOK
<1>ff. CASE FindFiles
  BY <1>ff, <1>q, FindFilesDoes, <1>t DEF given, files, confs, TypeOK
<1>u. CASE UNCHANGED vars
  BY <1>u, <1>q DEF vars
<1>. QED
  BY <1>ff, <1>cp, <1>pf, <1>wf, <1>1, <1>2, <1>3, <1>4, <1>5, <1>s, <1>u DEF Next, RunStep

LEMMA PastNext ==
  Careful /\ RelocationInv /\ PatcherInv' /\ QMake \in Sound' /\ [Next]_vars => PastInv'
<1>. SUFFICES ASSUME Careful, RelocationInv, PatcherInv', QMake \in Sound', [Next]_vars
              PROVE  PastInv'
  OBVIOUS
<1>. USE DEF PastInv, Past, InText, InBin, NoFault, Running, Patching, Saving
<1>t. TypeOK /\ RunInv
  BY DEF RelocationInv, PatcherInv
<1>g. Sound' \subseteq Sound /\ Sound \subseteq File
  BY <1>t, SpoiledGrows DEF Sound
<1>q. OldInv /\ PastInv /\ QMake \in Sound
  BY <1>g DEF RelocationInv
<1>p. Running => \A f \in Sound : before[f] = before[QMake] /\ before[f] \in Place
  BY <1>q, OnePath
<1>1. CASE HideConfAgain
  BY <1>1, <1>q, <1>g, <1>t, Numbers
  DEF HideConfAgain, BackupConf, Goto, RenameFails, Return, run, given, files,
      confs, RunInv, Untouched, FirstText, File, Binary, TypeOK, Sound
<1>2. CASE SkipFile
  BY <1>2, <1>q, <1>g, <1>t, Numbers
  DEF SkipFile, Loop, run, given, files, confs, Goto, TypeOK, FirstText, File,
      Binary, Sound
<1>3. CASE PatchFile
  <2>1. PatchFile /\ pc \in {"text", "bin"} /\ i \in File
    BY <1>3, <1>t, PatchFileDoes DEF InPhase, TypeOK
  <2>2. i \in Sound => name[i] = old
    <3>1. ~Past(i) /\ pc \in Patching /\ pc # "write"
      <4>1. CASE pc = "text"
        BY <2>1, <4>1, Numbers DEF FirstText, File, Binary
      <4>2. CASE pc = "bin" /\ i \in Binary
        BY <4>2, Numbers DEF Binary
      <4>. QED
        BY <2>1, <4>1, <4>2, <1>3, <1>t, PatchFileDoes DEF InPhase
    <3>2. i \in Sound => name[i] = before[i]
      BY <3>1, <1>q
    <3>3. Running /\ old = before[QMake]
      BY <3>1, <1>q DEF OldInv
    <3>. QED
      BY <3>2, <3>3, <1>p
  <2>3. i \in Sound => Patched(i, name[i]) = loc
    BY <2>2 DEF Patched
  <2>4. CASE buf' = Patched(i, name[i]) /\ Stay("write")
    BY <2>1, <2>3, <2>4, <1>q, <1>g, <1>t, PatchFileDoes, Numbers
    DEF Stay, Goto, given, InPhase, FirstText, File, Binary, Sound
  <2>5. CASE UNCHANGED <<name, buf, spoiled>> /\ PatchFails
    BY <2>1, <2>5, <1>t, PatchFileDoes DEF PatchFails, Goto, given, InPhase, Return, RelocationInv
  <2>6. CASE UNCHANGED <<name, buf>> /\ i \notin Binary /\ i \in spoiled' /\ Loop("text")
    BY <2>1, <2>6, <1>q, <1>g, <1>t, PatchFileDoes, Numbers
    DEF Loop, Goto, given, InPhase, FirstText, File, Binary, Sound
  <2>. QED
    BY <2>1, <2>4, <2>5, <2>6, <1>t, PatchFileDoes
<1>4. CASE WriteFile
  <2>. USE <1>4, <1>t DEF TypeOK, File, Binary, FirstText
  <2>1. CASE /\ name'[i] = buf \/ i \in spoiled'
             /\ Loop(IF i \in Binary THEN "bin" ELSE "text")
    <3>1. /\ i' = i + 1 /\ loc' = loc /\ before' = before /\ listed' = listed /\ pc = "write"
          /\ pc' = IF i \in Binary THEN "bin" ELSE "text"
      BY <2>1, WriteFileDoes DEF Loop, Goto, given
    <3>2. i \in Sound' => name'[i] = loc
      BY <2>1, <3>1, <1>q, <1>g DEF Sound
    <3>3. \A f \in Sound' : f # i =>
             name'[f] = name[f] /\ name[f] = (IF Past(f) THEN loc ELSE before[f])
      BY <3>1, <1>q, <1>g, WriteFileDoes DEF Sound
    <3>l. Sound' \subseteq listed'
      BY <3>1, <1>q, <1>g
    <3>4. CASE i \in Binary
      <4>1. ~InText /\ InBin /\ ~InText' /\ InBin' /\ i' \in 1..(NBin + 1)
        BY <3>1, <3>4, Numbers
      <4>2. \A f \in File : /\ Past(f)' = (f <= i \/ f \notin Binary)
                            /\ Past(f) = (f < i \/ f \notin Binary)
        BY <3>1, <4>1, Numbers
      <4>. QED
        BY <3>1, <3>2, <3>3, <3>l, <4>1, <4>2, <1>g, Numbers
    <3>5. CASE i \notin Binary
      <4>1. InText /\ ~InBin /\ InText' /\ ~InBin' /\ i' \in FirstText..(NFile + 1)
        BY <3>1, <3>5, <1>q, Numbers
      <4>2. \A f \in File : /\ Past(f)' = (f \in FirstText..i)
                            /\ Past(f) = (f \in FirstText..(i - 1))
        BY <3>1, <4>1, Numbers
      <4>. QED
        BY <3>1, <3>2, <3>3, <3>l, <4>1, <4>2, <1>g, Numbers
    <3>. QED
      BY <3>4, <3>5
  <2>2. CASE UNCHANGED <<name, spoiled>> /\ PatchFails
    BY <2>2, WriteFileDoes DEF PatchFails, Goto, given, Return, RelocationInv
  <2>. QED
    BY <2>1, <2>2, WriteFileDoes
<1>5. CASE TextEnds
  BY <1>5, <1>q, <1>g, <1>t, Numbers
  DEF TextEnds, Goto, run, given, files, confs, TypeOK, FirstText, File, Binary, Sound
<1>6. CASE Proceed
  BY <1>6, <1>t, <1>q, <1>g
  DEF Proceed, Goto, confs, RemoveConf, RemoveFails, run, given, files, TypeOK, RelocationInv,
      Sound
<1>7. CASE CopyFile
  BY <1>7, <1>t, <1>q, <1>g, CopyFileDoes DEF Loop, Goto, Return, given
<1>8. CASE FindFiles
  BY <1>8, <1>t, <1>q, <1>g, <1>p, FindFilesDoes, Contents
  DEF given, files, Sound, RunInv, Untouched
<1>9. CASE Move \/ WriteConf \/ HideConf \/ Redirect \/ RunQMake
          \/ ReadOutput \/ UnhideConf \/ NoAnswer \/ NotNeeded \/ BackupFile
          \/ BackupEnds \/ BinEnds \/ RemoveFile \/ RenameBackup
          \/ RestoreEnds \/ RestoreConfLast \/ Interrupt \/ Kill
  BY <1>9, <1>t, <1>q, <1>g
  DEF Move, files, confs, WriteConf, run, given, HideConf, BackupConf, Goto, RenameFails,
      Return, Redirect, RunQMake, ReadOutput, UnhideConf, RestoreConf,
      NoAnswer, NotNeeded, RemoveConf, RemoveFails, BackupFile, Stay,
      Loop, BackupEnds, BinEnds, RemoveFile, RenameBackup,
      RestoreEnds, RestoreConfLast, Interrupt, Kill, TypeOK
<1>s. ASSUME NEW b \in Backups, NEW f \in BOOLEAN, Start(b, f) PROVE PastInv'
  BY <1>s DEF Start, files, confs
<1>u. CASE UNCHANGED vars
  BY <1>u, <1>q DEF vars, Sound
<1>. QED
  BY <1>1, <1>2, <1>3, <1>4, <1>5, <1>6, <1>7, <1>8, <1>9, <1>s, <1>u DEF Next, RunStep

(* At the end of patch_bin_files every sound file names the present place. *)
LEMMA AllPast ==
  ASSUME RelocationInv, BinEnds, QMake \in Sound
  PROVE  \A f \in Sound : name[f] = loc
<1>1. i = NBin + 1 /\ pc = "bin" /\ PastInv
  BY Numbers DEF RelocationInv, PastInv, InBin, BinEnds, Binary
<1>. QED
  BY <1>1, Numbers DEF PastInv, InBin, InText, Past, Patching, Binary, File, Sound

(* What each step shows of the files is relocated, or as before it but for *)
(* what is spoiled.                                                        *)
LEMMA Shown ==
  ASSUME Careful, RelocationInv, PatcherInv', backup', ~locked', QMake \in Sound', [Next]_vars
  PROVE  \/ \A f \in Sound' : (IF Running' THEN before' ELSE name')[f]
                              = (IF Running THEN before ELSE name)[f]
         \/ /\ \A f \in Sound : (IF Running' THEN before' ELSE name')[f] = loc
            /\ loc' = loc /\ spoiled' = spoiled
<1>. USE DEF NoFault, Running
<1>t. TypeOK /\ RunInv /\ FailureUndone' /\ unsaved' \subseteq spoiled'
  BY SpoiledGrows DEF RelocationInv, PatcherInv
<1>g. Sound' \subseteq Sound /\ Sound \subseteq File /\ QMake \in Sound
  BY <1>t, SpoiledGrows DEF Sound
<1>1. CASE Move \/ WriteConf
  BY <1>1
  DEF Move, files, confs, run, given, WriteConf
<1>2. CASE BinEnds
  BY <1>2, <1>g, AllPast DEF BinEnds, Return, run, given, files
<1>3. CASE NoAnswer \/ NotNeeded
  BY <1>3, <1>t
  DEF NoAnswer, Return, run, given, files, confs, NotNeeded, RemoveConf,
      RemoveFails, RunInv, Untouched
<1>4. CASE HideConf \/ UnhideConf \/ BackupFile \/ HideConfAgain
          \/ RestoreConfLast
  <2>1. before' = before /\ Running /\ (Running' \/ result' = "failed")
    BY <1>4
    DEF HideConf, BackupConf, Goto, RenameFails, Return, run, given,
        UnhideConf, BackupFile, Stay, HideConfAgain, RestoreConfLast
  <2>. QED
    BY <2>1, <1>t DEF FailureUndone, Sound
<1>5. CASE CopyFile
  <2>1. before' = before /\ Running /\ (Running' \/ result' = "failed")
    BY <1>5, <1>t, CopyFileDoes DEF Loop, Goto, Return, given
  <2>. QED
    BY <2>1, <1>t DEF FailureUndone, Sound
<1>6. CASE Interrupt
  BY <1>6, <1>t DEF Interrupt, Return, run, given, files, RunInv, Untouched, Asking, Saving
<1>7. CASE Kill
  BY <1>7, OnlyIo DEF Kill
<1>8. CASE PatchFile
  BY <1>8, <1>t, PatchFileDoes
  DEF InPhase, Stay, Loop, Goto, PatchFails, given, RelocationInv
<1>9. CASE WriteFile
  BY <1>9, <1>t, WriteFileDoes DEF Loop, Goto, PatchFails, given, RelocationInv
<1>10. CASE FindFiles
  BY <1>10, <1>t, FindFilesDoes DEF given
<1>11. CASE Redirect \/ RunQMake \/ ReadOutput \/ Proceed \/ SkipFile
          \/ BackupEnds \/ TextEnds \/ RemoveFile \/ RenameBackup
          \/ RestoreEnds
  BY <1>11
  DEF Redirect, Goto, run, given, RunQMake, ReadOutput, Proceed, SkipFile,
      Loop, BackupEnds, TextEnds, RemoveFile, Stay, RenameBackup, RestoreEnds
<1>s. ASSUME NEW b \in Backups, NEW f \in BOOLEAN, Start(b, f)
      PROVE  before' = name /\ Running' /\ ~Running
  BY <1>s DEF Start
<1>u. CASE UNCHANGED vars
  BY <1>u DEF vars
<1>. QED
  BY <1>1, <1>2, <1>3, <1>4, <1>5, <1>6, <1>7, <1>8, <1>9, <1>10, <1>11, <1>s, <1>u
  DEF Next, RunStep

LEMMA DoneNext == Careful /\ RelocationInv /\ PatcherInv' /\ [Next]_vars => RelocatedWhenDone'
<1>. SUFFICES ASSUME Careful, RelocationInv, PatcherInv', [Next]_vars, QMake \notin spoiled'
              PROVE  result' \in {"patched", "notNeeded"} =>
                         \A f \in File \ spoiled' : name'[f] = loc'
  BY DEF RelocatedWhenDone
<1>. USE DEF RelocatedWhenDone, NoFault
<1>t. TypeOK /\ RunInv /\ RelocatedWhenDone
  BY DEF RelocationInv, PatcherInv
<1>g. spoiled \subseteq spoiled' /\ QMake \in Sound
  BY <1>t, SpoiledGrows, Numbers DEF Sound, File, QMake
<1>1. CASE BinEnds
  BY <1>1, <1>g, AllPast DEF BinEnds, run, given, files, Sound
<1>2. CASE NotNeeded
  <2>1. Running /\ name = before /\ (result' = "notNeeded" => loc = before[QMake])
    BY <1>2, <1>t, <1>g
    DEF NotNeeded, Return, SamePlace, RunInv, Untouched, OldInv, Running, RelocationInv,
        RemoveFails, RemoveConf
  <2>2. \A f \in Sound : before[f] = before[QMake]
    BY <2>1, <1>g, OnePath
  <2>. QED
    BY <1>2, <2>1, <2>2 DEF NotNeeded, Return, run, given, files, Sound
<1>3. CASE HideConf \/ Redirect \/ RunQMake
          \/ ReadOutput \/ UnhideConf \/ NoAnswer \/ Proceed \/ SkipFile
          \/ BackupFile \/ BackupEnds \/ HideConfAgain
  BY <1>3, <1>t
  DEF run, given, HideConf, Goto, Return, Redirect, RunQMake, ReadOutput, UnhideConf,
      NoAnswer, Proceed, SkipFile, Loop, BackupFile, Stay, BackupEnds, HideConfAgain, RunInv
<1>4. CASE TextEnds \/ RemoveFile \/ RenameBackup \/ RestoreEnds
          \/ RestoreConfLast \/ Interrupt \/ Kill
  BY <1>4, <1>t
  DEF Stay, Goto, Return, Loop, TextEnds, RemoveFile, RenameBackup,
      RestoreEnds, RestoreConfLast, Interrupt, Kill, RunInv
<1>5. CASE Move \/ WriteConf
  BY <1>5 DEF Move, WriteConf
<1>s. ASSUME NEW b \in Backups, NEW f \in BOOLEAN, Start(b, f) PROVE result' = "none"
  BY <1>s DEF Start
<1>cp. CASE CopyFile
  BY <1>cp, CopyFileDoes, <1>t DEF Loop, Goto, Return, RunInv
<1>pf. CASE PatchFile
  BY <1>pf, PatchFileDoes, <1>t DEF Loop, Stay, Goto, Return, PatchFails, InPhase, RunInv
<1>wf. CASE WriteFile
  BY <1>wf, WriteFileDoes, <1>t DEF Loop, Goto, Return, PatchFails, RunInv
<1>ff. CASE FindFiles
  BY <1>ff, FindFilesDoes, <1>t DEF Goto, RunInv
<1>u. CASE UNCHANGED vars
  BY <1>u, <1>t DEF vars
<1>. QED
  BY <1>ff, <1>cp, <1>pf, <1>wf, <1>1, <1>2, <1>3, <1>4, <1>5, <1>s, <1>u DEF Next, RunStep

(* No lock fails, and every run makes backups.                             *)
LEMMA CarefulNext ==
  Careful /\ RelocationInv /\ [Next]_vars => backup' /\ ~locked'
<1>. SUFFICES ASSUME Careful, RelocationInv, [Next]_vars
              PROVE  backup' /\ ~locked'
  OBVIOUS
<1>. USE DEF RelocationInv
<1>t. TypeOK
  BY DEF PatcherInv
<1>1. ASSUME NEW f, Fault(f) PROVE ~locked'
  BY <1>1, <1>t, OnlyIo, FaultCounts
<1>2. NoFault => ~locked'
  BY DEF NoFault
<1>3. CASE HideConf \/ Redirect \/ RunQMake \/ ReadOutput \/ UnhideConf
          \/ NoAnswer \/ NotNeeded \/ Proceed
  BY <1>3, <1>1, <1>2
  DEF HideConf, BackupConf, Goto, RenameFails, Return, run, given, files, confs,
      Redirect, RunQMake, ReadOutput, UnhideConf, RestoreConf, NoAnswer,
      NotNeeded, RemoveConf, RemoveFails, Proceed
<1>4. CASE SkipFile \/ BackupFile \/ BackupEnds \/ HideConfAgain
  BY <1>4, <1>1, <1>2
  DEF SkipFile, Loop, run, given, files, confs, Goto, BackupFile, Stay, Return,
      BackupEnds, HideConfAgain, BackupConf, RenameFails
<1>5. CASE TextEnds \/ BinEnds \/ RemoveFile \/ RenameBackup \/ RestoreEnds
          \/ RestoreConfLast
  BY <1>5, <1>1, <1>2
  DEF Stay, run, given, confs, Goto, Return,
      Loop, TextEnds, files, BinEnds, RemoveFile, RenameBackup,
      RestoreEnds, RestoreConfLast, RestoreConf, RenameFails
<1>b. backup /\ ~locked
  OBVIOUS
<1>6. CASE Move
  BY <1>6, <1>b DEF Move
<1>9. CASE WriteConf
  BY <1>9, <1>b DEF WriteConf, run, given
<1>8. CASE Interrupt \/ Kill
  BY <1>8, <1>1, <1>2 DEF Interrupt, run, given, Kill
<1>s. ASSUME NEW b \in Backups, NEW f \in BOOLEAN, Start(b, f) 
      PROVE  backup' /\ ~locked'
  BY <1>s DEF Start, Careful
<1>7. CASE CopyFile \/ PatchFile \/ WriteFile \/ FindFiles
  BY <1>7, <1>1, <1>2
  DEF CopyFile, PatchFile, WriteFile, FindFiles, Slip, given
<1>u. CASE UNCHANGED vars
  BY <1>u DEF vars
<1>. QED
  BY <1>3, <1>4, <1>5, <1>6, <1>7, <1>8, <1>9, <1>s, <1>u DEF Next, RunStep

(* Nothing but Move changes the place.                                     *)
LEMMA LocMoves == [Next]_vars => loc' = loc \/ Move
<1>. SUFFICES ASSUME [Next]_vars, ~Move PROVE loc' = loc
  OBVIOUS
<1>. USE DEF run, given
<1>1. CASE WriteConf \/ HideConf \/ Redirect \/ RunQMake \/ ReadOutput
          \/ UnhideConf \/ NoAnswer \/ NotNeeded \/ Proceed \/ FindFiles
  BY <1>1
  DEF WriteConf, HideConf, Redirect, RunQMake, ReadOutput, UnhideConf, NoAnswer,
      NotNeeded, Proceed, FindFiles
<1>2. CASE SkipFile \/ BackupFile \/ CopyFile \/ BackupEnds \/ HideConfAgain
          \/ PatchFile \/ WriteFile \/ TextEnds \/ BinEnds \/ RemoveFile
          \/ RenameBackup \/ RestoreEnds \/ RestoreConfLast \/ Interrupt \/ Kill
  BY <1>2
  DEF SkipFile, BackupFile, CopyFile, BackupEnds, HideConfAgain, PatchFile,
      WriteFile, TextEnds, BinEnds, RemoveFile, RenameBackup, RestoreEnds,
      RestoreConfLast, Interrupt, Kill
<1>s. ASSUME NEW b \in Backups, NEW f \in BOOLEAN, Start(b, f) PROVE loc' = loc
  BY <1>s DEF Start
<1>u. CASE UNCHANGED vars
  BY <1>u DEF vars
<1>. QED
  BY <1>1, <1>2, <1>s, <1>u DEF Next, RunStep

LEMMA RelocationInit == Init => RelocationInv
<1>. SUFFICES ASSUME Init PROVE RelocationInv
  OBVIOUS
<1>1. PatcherInv
  BY PatcherInit
<1>2. Relocate!Uniform
  BY DEF Init, Relocate!Uniform, Relocate!Sound, Running
<1>3. OldInv /\ PastInv /\ RelocatedWhenDone
  BY DEF Init, OldInv, PastInv, InText, InBin, Patching, Saving, RelocatedWhenDone
<1>. QED
  BY <1>1, <1>2, <1>3 DEF Init, RelocationInv

(* A step of the patcher relocates the directory as a whole, moves it,     *)
(* spoils some files, or changes nothing that is shown; all files that     *)
(* nothing spoiled then name one path.                                     *)
LEMMA RelocationStep ==
  ASSUME Careful, RelocationInv, [Next]_vars
  PROVE  RelocationInv' /\ [Relocate!Next]_<<IF Running THEN before ELSE name, loc, spoiled>>
<1>1. PatcherInv' /\ backup' /\ ~locked'
  BY PatcherNext, CarefulNext DEF RelocationInv
<1>t. TypeOK
  BY DEF RelocationInv, PatcherInv
<1>2. loc \in Place /\ loc' \in Place
  BY <1>1, <1>t DEF PatcherInv, TypeOK
<1>3. spoiled \subseteq spoiled' /\ unsaved' \subseteq spoiled'
  BY <1>t, SpoiledGrows DEF RelocationInv
<1>d. RelocatedWhenDone'
  BY <1>1, DoneNext
<1>4. ASSUME QMake \in Sound'
      PROVE  Relocate!Uniform' /\ OldInv' /\ PastInv'
  <2>1. \/ \A f \in Sound' : (IF Running' THEN before' ELSE name')[f]
                              = (IF Running THEN before ELSE name)[f]
        \/ /\ \A f \in Sound : (IF Running' THEN before' ELSE name')[f] = loc
           /\ loc' = loc /\ spoiled' = spoiled
    BY <1>1, <1>4, Shown
  <2>2. QMake \in Sound /\ Sound' \subseteq Sound
    BY <1>3, <1>4 DEF Sound
  <2>3. PICK p \in Place : \A f \in Sound : (IF Running THEN before ELSE name)[f] = p
    BY <2>2 DEF RelocationInv, Relocate!Uniform, Relocate!Sound, Sound
  <2>4. Relocate!Uniform'
    BY <1>2, <2>1, <2>2, <2>3 DEF Relocate!Uniform, Relocate!Sound, Sound
  <2>5. OldInv' /\ PastInv'
    BY <1>1, <1>4, OldNext, PastNext
  <2>. QED
    BY <2>4, <2>5
<1>5. RelocationInv'
  BY ONLY <1>1, <1>3, <1>d, <1>4 DEF RelocationInv
<1>6. loc' = loc \/ Move
  BY LocMoves
<1>7. [Relocate!Next]_<<IF Running THEN before ELSE name, loc, spoiled>>
  <2>1. CASE Move
    BY <2>1, <1>2 DEF Move, files, Running, Relocate!Next, Relocate!Move
  <2>2. CASE loc' = loc /\ QMake \in Sound'
    <3>1. \/ \A f \in Sound' : (IF Running' THEN before' ELSE name')[f]
                                = (IF Running THEN before ELSE name)[f]
          \/ /\ \A f \in Sound : (IF Running' THEN before' ELSE name')[f] = loc
             /\ loc' = loc /\ spoiled' = spoiled
      BY <1>1, <2>2, Shown
    <3>. QED
      BY <3>1, <2>2, <1>3
      DEF Relocate!Next, Relocate!Relocate, Relocate!Spoil, Relocate!Sound, Sound
  <2>3. CASE loc' = loc /\ QMake \notin Sound'
    <3>1. QMake \in spoiled'
      BY <2>3, Numbers DEF Sound, File, QMake
    <3>. QED
      BY <3>1, <2>3, <1>3 DEF Relocate!Next, Relocate!Spoil
  <2>. QED
    BY <1>6, <2>1, <2>2, <2>3
<1>. QED
  BY <1>5, <1>7

(* With backups, and without kills and locked files, all files name one    *)
(* path whenever no run is going on, but for those that an unnoticed error *)
(* has spoiled, and as long as qmake is not among these.                   *)
THEOREM RelocationInvariant ==
  ASSUME Careful
  PROVE  Spec => []RelocationInv
<1>1. RelocationInv /\ [Next]_vars => RelocationInv'
  BY RelocationStep
<1>. QED
  BY <1>1, RelocationInit, PTL DEF Spec

(* When qtbinpatcher has ended with 0, "Patching not needed" included,     *)
(* every file names the place of the Qt directory, but for those at which  *)
(* an error slipped, in any run so far, if qmake is not one of them.       *)
THEOREM DoneMeansRelocated ==
  ASSUME Careful
  PROVE  Spec => []RelocatedWhenDone
<1>1. RelocationInv => RelocatedWhenDone
  BY DEF RelocationInv
<1>. QED
  BY <1>1, RelocationInvariant, PTL

(* With backups the directory is relocated as a whole or not at all; an    *)
(* error that nobody notices spoils its own file and no other, or qmake.   *)
THEOREM PatcherImplementsRelocation ==
  ASSUME Careful
  PROVE  Spec => AllOrNothing
<1>1. Init => Relocate!Init
  BY DEF Init, Relocate!Init, Relocate!Uniform, Relocate!Sound, Running
<1>2. RelocationInv /\ [Next]_vars =>
          [Relocate!Next]_<<IF Running THEN before ELSE name, loc, spoiled>>
  BY RelocationStep
<1>. QED
  BY <1>1, <1>2, RelocationInvariant, PTL DEF Spec, AllOrNothing, Relocate!Spec

-----------------------------------------------------------------------------
(* The two states in which the patcher is stuck, under every fault.        *)

(* A run gets no further than to where it would decide what to do.         *)
Stuck ==
    \/ ConfInTheWay /\ pc \in {"idle", "hide"}
    \/ /\ SpaceInTheWay
       /\ pc \in {"idle", "hide", "query", "system", "read", "unhide", "decide"}
       /\ pc \in {"hide", "query", "system", "unhide", "decide"} => old = "none"
       /\ pc = "read" => old \in Spaced

LEMMA StuckNext == TypeOK /\ Stuck /\ [Next]_vars => Stuck'
<1>. SUFFICES ASSUME TypeOK, Stuck, [Next]_vars
              PROVE  Stuck'
  OBVIOUS
<1>. USE DEF Stuck, ConfInTheWay, SpaceInTheWay, Blocked, NoFault
<1>1. CASE HideConf
  BY <1>1
  DEF HideConf, BackupConf, Goto, RenameFails, Return, run, given, files, confs,
      TypeOK
<1>2. CASE RunQMake \/ ReadOutput
  BY <1>2, Contents, PatcherAssumption
  DEF RunQMake, Goto, run, given, files, confs, ReadOutput, Outputs, Parsed,
      Strange, TypeOK
<1>3. CASE Redirect \/ UnhideConf \/ NoAnswer \/ NotNeeded \/ Proceed
  BY <1>3
  DEF Redirect, Goto, run, given, files, confs, UnhideConf, RestoreConf,
      RenameFails, Return, NoAnswer, NotNeeded, RemoveConf, RemoveFails,
      Proceed, TypeOK
<1>4. CASE SkipFile \/ BackupFile \/ BackupEnds \/ HideConfAgain \/ TextEnds
          \/ BinEnds \/ RemoveFile \/ RenameBackup \/ RestoreEnds
          \/ RestoreConfLast
  BY <1>4, Numbers
  DEF SkipFile, Loop, run, given, files, confs, Goto, BackupFile, Stay, Return,
      BackupEnds, HideConfAgain, BackupConf, RenameFails,
      TextEnds, BinEnds,
      RemoveFile, RenameBackup, RestoreEnds, RestoreConfLast, RestoreConf,
      TypeOK
<1>5. CASE Move \/ WriteConf \/ Interrupt \/ Kill
  BY <1>5
  DEF Move, files, confs, WriteConf, run, given, Interrupt, Return, run, given, Kill, TypeOK
<1>s. ASSUME NEW b \in Backups, NEW f \in BOOLEAN, Start(b, f) PROVE Stuck'
  BY <1>s DEF Start, files, confs
<1>cp. CASE CopyFile
  BY <1>cp, CopyFileDoes
  DEF Loop, Stay, Goto, Return, PatchFails, InPhase, given, confs, TypeOK
<1>pf. CASE PatchFile
  BY <1>pf, PatchFileDoes
  DEF Loop, Stay, Goto, Return, PatchFails, InPhase, given, confs, TypeOK
<1>wf. CASE WriteFile
  BY <1>wf, WriteFileDoes
  DEF Loop, Stay, Goto, Return, PatchFails, InPhase, given, confs, TypeOK
<1>ff. CASE FindFiles
  BY <1>ff, FindFilesDoes DEF given, files, confs, TypeOK
<1>u. CASE UNCHANGED vars
  BY <1>u DEF vars
<1>. QED
  BY <1>ff, <1>cp, <1>pf, <1>wf, <1>1, <1>2, <1>3, <1>4, <1>5, <1>s, <1>u DEF Next, RunStep

(* From either state no later run changes any file.                        *)
THEOREM WedgedStaysWedged == Spec => WedgedForGood
<1>1. Wedged => Stuck
  BY DEF Wedged, Stuck
<1>2. Stuck => pc \notin {"backup", "copy", "spin", "text", "bin", "write"}
  BY DEF Stuck
<1>3. TypeOK /\ Stuck /\ [Next]_vars => Stuck'
  BY StuckNext
<1>. QED
  BY <1>1, <1>2, <1>3, TypeCorrect, PTL DEF Spec, WedgedForGood
=============================================================================
