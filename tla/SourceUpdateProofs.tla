------------------------- MODULE SourceUpdateProofs -------------------------
(***************************************************************************)
(* Proofs about SourceUpdate, for every set of targets, every number of    *)
(* revisions and of faults: the invariant UpdateInv is inductive, and with *)
(* it what is built without --update-sources is of one revision, and       *)
(* qmake.conf is that of the target and of the sources.                    *)
(***************************************************************************)
EXTENDS SourceUpdate, FiniteSetTheorems, TLAPS

-----------------------------------------------------------------------------
(* Facts about qmake.conf and revisions.                                   *)

(* A file that is there is told from one that is not.                      *)
LEMMA NoneIsNoText == None \notin Text
<1>. SUFFICES ASSUME None \in Text PROVE FALSE
  OBVIOUS
<1>1. None.rev \in Rev
  BY DEF Text
<1>2. None.rev = 0
  BY DEF None
<1>. QED
  BY <1>1, <1>2, UpdateAssumption DEF Rev

(* What is in the repository, and the template made from it.               *)
LEMMA TextOf ==
  ASSUME NEW r \in Rev
  PROVE  /\ Original(r) \in Text /\ Template(r) \in Text
         /\ Template(r).rev = r /\ Template(r).flags = "template" /\ Template(r).whole
<1>1. Original(r) \in Text
  BY DEF Text, Original
<1>2. Original(r).rev = r /\ Original(r).whole
  BY DEF Original
<1>. QED
  BY <1>1, <1>2 DEF Text, Template

(* A torn copy is of the same revision.                                    *)
LEMMA TornOf ==
  ASSUME NEW text \in Text
  PROVE  Torn(text) \in Text /\ Torn(text).rev = text.rev /\ Torn(text).flags = text.flags
<1>1. Torn(text) \in Text
  BY DEF Torn, Text
<1>2. Torn(text).rev = text.rev /\ Torn(text).flags = text.flags
  BY DEF Torn
<1>. QED
  BY <1>1, <1>2

(* Revisions; there is a working copy of qtbase only inside of qt5.        *)
LEMMA RevOf ==
  ASSUME TypeOK
  PROVE  /\ head \in Rev /\ head # 0 /\ head \in 0..head /\ wc \in 0..head
         /\ wc # 0 => wc \in Rev /\ cloned
<1>1. head \in Rev /\ wc \in 0..head /\ (wc > 0 => cloned)
  BY DEF TypeOK
<1>2. head \in Nat /\ head # 0 /\ head <= MaxRev /\ MaxRev \in Nat
  BY <1>1, UpdateAssumption DEF Rev
<1>3. wc \in Nat /\ wc <= head
  BY <1>1, <1>2
<1>. QED
  BY <1>1, <1>2, <1>3 DEF Rev
-----------------------------------------------------------------------------
(* The invariant is inductive.                                             *)

LEMMA UpdateInit == Init => UpdateInv
<1>. SUFFICES ASSUME Init PROVE UpdateInv
  OBVIOUS
<1>1. 1 \in Rev /\ 0 \in 0..1 /\ 0 \in 0..MaxFaults
  BY UpdateAssumption DEF Rev
<1>2. TypeOK
  <2>1. head \in Rev /\ wc \in 0..head /\ wc = 0
    BY <1>1 DEF Init
  <2>2. {conf, kept, tmp} \subseteq Text \union {None}
    BY DEF Init
  <2>3. used \in [Targets -> SUBSET Rev] /\ faults \in 0..MaxFaults
    BY <1>1 DEF Init
  <2>4. {patched, pmarker, unclean, update, updated} \subseteq BOOLEAN
    BY DEF Init
  <2>. QED
    BY <2>1, <2>2, <2>3, <2>4 DEF Init, TypeOK
<1>3. CopiesInv /\ PatchInv
  BY DEF Init, CopiesInv, PatchInv, Updating, Saved
<1>4. ConfInv
  BY DEF Init, ConfInv, Updating, Saved
<1>5. DriftInv
  BY DEF Init, DriftInv
<1>. QED
  BY <1>2, <1>3, <1>4, <1>5 DEF UpdateInv

LEMMA UpdateNext == UpdateInv /\ [Next]_vars => UpdateInv'
<1>. SUFFICES ASSUME TypeOK, CopiesInv, PatchInv, ConfInv, DriftInv, [Next]_vars
              PROVE  UpdateInv'
  BY DEF UpdateInv
<1>. USE DEF copies, confs, builds, run, InCopies, InConfs, InBuild, Goto, Return, NoFault,
             Updating, Saved
<1>1. CASE Downloaded
  <2>1. TypeOK'
    BY <1>1, UpdateAssumption DEF Downloaded, UpToDate, TypeOK
  <2>2. CopiesInv'
    BY <1>1 DEF Downloaded, UpToDate, CopiesInv
  <2>3. PatchInv'
    BY <1>1 DEF Downloaded, UpToDate, PatchInv, CopiesInv
  <2>4. ConfInv'
    BY <1>1 DEF Downloaded, UpToDate, ConfInv
  <2>5. DriftInv'
    BY <1>1 DEF Downloaded, UpToDate, DriftInv
  <2>. QED
    BY <2>1, <2>2, <2>3, <2>4, <2>5 DEF UpdateInv
<1>2. CASE CloneFails
  <2>1. TypeOK'
    BY <1>2, UpdateAssumption DEF CloneFails, UpToDate, Fault, TypeOK
  <2>2. CopiesInv'
    BY <1>2 DEF CloneFails, UpToDate, Fault, CopiesInv
  <2>3. PatchInv'
    BY <1>2 DEF CloneFails, UpToDate, Fault, PatchInv
  <2>4. ConfInv'
    BY <1>2 DEF CloneFails, UpToDate, Fault, ConfInv
  <2>5. DriftInv'
    BY <1>2 DEF CloneFails, UpToDate, Fault, DriftInv
  <2>. QED
    BY <2>1, <2>2, <2>3, <2>4, <2>5 DEF UpdateInv
<1>3. CASE CloneTop
  <2>1. TypeOK'
    BY <1>3, UpdateAssumption DEF CloneTop, UpToDate, TypeOK
  <2>2. CopiesInv'
    BY <1>3 DEF CloneTop, UpToDate, CopiesInv
  <2>3. PatchInv'
    <3>1. ~unclean => ~pmarker'
      BY <1>3, RevOf DEF CloneTop, CopiesInv
    <3>. QED
      BY <1>3, <3>1 DEF CloneTop, PatchInv
  <2>4. ConfInv'
    BY <1>3 DEF CloneTop, UpToDate, ConfInv
  <2>5. DriftInv'
    BY <1>3 DEF CloneTop, UpToDate, DriftInv
  <2>. QED
    BY <2>1, <2>2, <2>3, <2>4, <2>5 DEF UpdateInv
<1>4. CASE Clone
  <2>1. TypeOK'
    <3>1. head \in Rev /\ head \in 0..head /\ cloned
      BY <1>4, RevOf DEF Clone, CopiesInv
    <3>2. conf' \in Text
      BY <1>4, <3>1, TextOf DEF Clone
    <3>. QED
      BY <1>4, <3>1, <3>2 DEF Clone, TypeOK
  <2>2. CopiesInv'
    BY <1>4 DEF Clone, UpToDate, CopiesInv
  <2>3. PatchInv'
    <3>1. wc' # 0
      BY <1>4, RevOf DEF Clone
    <3>2. ~UpToDate("qtbase")' /\ (~unclean => ~pmarker')
      BY <1>4 DEF Clone, UpToDate, PatchInv
    <3>. QED
      BY <1>4, <3>1, <3>2 DEF Clone, PatchInv
  <2>4. ConfInv'
    BY <1>4 DEF Clone, UpToDate, ConfInv, PatchInv, CopiesInv
  <2>5. DriftInv'
    BY <1>4 DEF Clone, UpToDate, DriftInv
  <2>. QED
    BY <2>1, <2>2, <2>3, <2>4, <2>5 DEF UpdateInv
<1>5. CASE CleanTop
  <2>0. /\ ~unclean' => ~unclean /\ ~pmarker'
        /\ pmarker' => pmarker
        /\ pmarker' \in BOOLEAN /\ unclean' \in BOOLEAN
    <3>1. pmarker \in BOOLEAN /\ unclean \in BOOLEAN
      BY DEF TypeOK
    <3>2. \/ pmarker' = FALSE /\ unclean' = unclean
          \/ unclean' = (unclean \/ pmarker) /\ pmarker' = pmarker
      BY <1>5 DEF CleanTop
    <3>3. CASE pmarker' = FALSE /\ unclean' = unclean
      BY <3>1, <3>3
    <3>4. CASE unclean' = (unclean \/ pmarker) /\ pmarker' = pmarker
      <4>1. CASE pmarker = TRUE
        BY <3>1, <3>4, <4>1
      <4>2. CASE pmarker = FALSE
        BY <3>1, <3>4, <4>2
      <4>. QED
        BY <3>1, <4>1, <4>2
    <3>. QED
      BY <3>2, <3>3, <3>4
  <2>1. TypeOK'
    <3>1. faults' \in 0..MaxFaults
      <4>1. faults \in 0..MaxFaults
        BY DEF TypeOK
      <4>2. faults' = faults \/ (faults < MaxFaults /\ faults' = faults + 1)
        BY <1>5, Zenon DEF CleanTop, Fault
      <4>. QED
        BY <4>1, <4>2, UpdateAssumption
    <3>. QED
      BY <1>5, <2>0, <3>1 DEF CleanTop, TypeOK
  <2>2. CopiesInv'
    BY <1>5, <2>0 DEF CleanTop, CopiesInv
  <2>3. PatchInv'
    BY <1>5, <2>0 DEF CleanTop, UpToDate, PatchInv
  <2>4. ConfInv'
    BY <1>5, <2>0 DEF CleanTop, ConfInv
  <2>5. DriftInv'
    BY <1>5 DEF CleanTop, UpToDate, DriftInv
  <2>. QED
    BY <2>1, <2>2, <2>3, <2>4, <2>5 DEF UpdateInv
<1>6. CASE Clean
  <2>0. /\ ~unclean' => ~unclean /\ kept' = None
        /\ kept' \in {None, kept} /\ tmp' \in {None, tmp}
        /\ unclean' \in BOOLEAN
    <3>1. unclean \in BOOLEAN
      BY DEF TypeOK
    <3>2. \/ kept' = None /\ tmp' = None /\ unclean' = unclean
          \/ unclean' = (unclean \/ kept # None) /\ kept' = kept /\ tmp' = tmp
      BY <1>6 DEF Clean
    <3>. QED
      BY <3>1, <3>2
  <2>1. TypeOK'
    <3>1. faults' \in 0..MaxFaults
      <4>1. faults \in 0..MaxFaults
        BY DEF TypeOK
      <4>2. faults' = faults \/ (faults < MaxFaults /\ faults' = faults + 1)
        BY <1>6, Zenon DEF Clean, Fault
      <4>. QED
        BY <4>1, <4>2, UpdateAssumption
    <3>. QED
      BY <1>6, <2>0, <3>1 DEF Clean, TypeOK
  <2>2. CopiesInv'
    BY <1>6, <2>0 DEF Clean, CopiesInv
  <2>3. PatchInv'
    BY <1>6, <2>0 DEF Clean, UpToDate, PatchInv
  <2>4. ConfInv'
    BY <1>6, <2>0 DEF Clean, ConfInv, PatchInv
  <2>5. DriftInv'
    BY <1>6 DEF Clean, UpToDate, DriftInv
  <2>. QED
    BY <2>1, <2>2, <2>3, <2>4, <2>5 DEF UpdateInv
<1>7. CASE Reset
  <2>1. TypeOK'
    <3>1. wc \in Rev
      BY <1>7, RevOf DEF Reset, PatchInv
    <3>2. conf' \in Text \union {None} /\ patched' \in BOOLEAN
      BY <1>7, <3>1, TextOf DEF Reset, TypeOK
    <3>3. faults' \in 0..MaxFaults
      BY <1>7, UpdateAssumption DEF Reset, TypeOK, Fault
    <3>. QED
      BY <1>7, <3>2, <3>3 DEF Reset, TypeOK
  <2>2. CopiesInv'
    BY <1>7 DEF Reset, Fault, CopiesInv, TypeOK, PatchInv, UpToDate, ConfInv
  <2>3. PatchInv'
    BY <1>7 DEF Reset, Fault, PatchInv, UpToDate
  <2>4. ConfInv'
    BY <1>7 DEF Reset, Fault, ConfInv, PatchInv, UpToDate
  <2>5. DriftInv'
    BY <1>7 DEF Reset, Fault, DriftInv
  <2>. QED
    BY <2>1, <2>2, <2>3, <2>4, <2>5 DEF UpdateInv
<1>8. CASE Pull
  <2>1. TypeOK'
    <3>1. cloned /\ wc' \in 0..head
      BY <1>8, RevOf DEF Pull, CopiesInv
    <3>2. conf' \in Text \union {None}
      BY <1>8, RevOf, TextOf DEF Pull, TypeOK
    <3>3. faults' \in 0..MaxFaults
      <4>1. faults \in 0..MaxFaults
        BY DEF TypeOK
      <4>2. faults' = faults \/ (faults < MaxFaults /\ faults' = faults + 1)
        BY <1>8 DEF Pull, Fault
      <4>. QED
        BY <4>1, <4>2, UpdateAssumption
    <3>. QED
      BY <1>8, <3>1, <3>2, <3>3 DEF Pull, TypeOK
  <2>2. CopiesInv'
    <3>1. wc' # 0
      BY <1>8, RevOf DEF Pull, PatchInv
    <3>2. ~unclean /\ ~patched => conf' = Original(wc') /\ kept = None
      BY <1>8, RevOf DEF Pull, Changed, CopiesInv, PatchInv
    <3>. QED
      BY <1>8, <3>1, <3>2 DEF Pull, CopiesInv
  <2>3. PatchInv'
    <3>1. wc' # 0
      BY <1>8, RevOf DEF Pull, PatchInv
    <3>2. ~UpToDate("qtbase")' /\ (~unclean => ~pmarker')
      BY <1>8 DEF Pull, UpToDate, PatchInv
    <3>. QED
      BY <1>8, <3>1, <3>2 DEF Pull, PatchInv
  <2>4. ConfInv'
    BY <1>8 DEF Pull, Fault, ConfInv, PatchInv, UpToDate
  <2>5. DriftInv'
    BY <1>8 DEF Pull, Fault, DriftInv, PatchInv, UpToDate
  <2>. QED
    BY <2>1, <2>2, <2>3, <2>4, <2>5 DEF UpdateInv
<1>9. CASE Mark
  <2>1. TypeOK'
    BY <1>9, UpdateAssumption DEF Mark, TypeOK
  <2>2. CopiesInv'
    BY <1>9 DEF Mark, CopiesInv, PatchInv, UpToDate
  <2>3. PatchInv'
    BY <1>9 DEF Mark, PatchInv, UpToDate
  <2>4. ConfInv'
    BY <1>9 DEF Mark, ConfInv
  <2>5. DriftInv'
    BY <1>9 DEF Mark, DriftInv
  <2>. QED
    BY <2>1, <2>2, <2>3, <2>4, <2>5 DEF UpdateInv
<1>10. CASE PatchMarked
  <2>1. TypeOK'
    BY <1>10, UpdateAssumption DEF PatchMarked, TypeOK
  <2>2. CopiesInv'
    BY <1>10 DEF PatchMarked, CopiesInv
  <2>3. PatchInv'
    BY <1>10 DEF PatchMarked, PatchInv, UpToDate
  <2>4. ConfInv'
    BY <1>10 DEF PatchMarked, ConfInv
  <2>5. DriftInv'
    BY <1>10 DEF PatchMarked, DriftInv
  <2>. QED
    BY <2>1, <2>2, <2>3, <2>4, <2>5 DEF UpdateInv
<1>11. CASE DryRunFails
  <2>1. TypeOK'
    BY <1>11, UpdateAssumption DEF DryRunFails, TypeOK
  <2>2. CopiesInv'
    BY <1>11 DEF DryRunFails, CopiesInv
  <2>3. PatchInv'
    BY <1>11 DEF DryRunFails, PatchInv, UpToDate
  <2>4. ConfInv'
    BY <1>11 DEF DryRunFails, ConfInv
  <2>5. DriftInv'
    BY <1>11 DEF DryRunFails, DriftInv
  <2>. QED
    BY <2>1, <2>2, <2>3, <2>4, <2>5 DEF UpdateInv
<1>12. CASE ApplyPatch
  <2>1. TypeOK'
    BY <1>12, UpdateAssumption DEF ApplyPatch, TypeOK, Text, None
  <2>2. CopiesInv'
    BY <1>12 DEF ApplyPatch, CopiesInv, PatchInv, UpToDate
  <2>3. PatchInv'
    BY <1>12 DEF ApplyPatch, PatchInv, UpToDate, Template, CopiesInv
  <2>4. ConfInv'
    BY <1>12 DEF ApplyPatch, ConfInv
  <2>5. DriftInv'
    BY <1>12 DEF ApplyPatch, DriftInv
  <2>. QED
    BY <2>1, <2>2, <2>3, <2>4, <2>5 DEF UpdateInv
<1>13. CASE MarkPatch
  <2>1. TypeOK'
    BY <1>13, UpdateAssumption DEF MarkPatch, TypeOK
  <2>2. CopiesInv'
    BY <1>13 DEF MarkPatch, CopiesInv, PatchInv, UpToDate
  <2>3. PatchInv'
    BY <1>13 DEF MarkPatch, PatchInv, UpToDate
  <2>4. ConfInv'
    BY <1>13 DEF MarkPatch, ConfInv, PatchInv, UpToDate
  <2>5. DriftInv'
    BY <1>13 DEF MarkPatch, DriftInv
  <2>. QED
    BY <2>1, <2>2, <2>3, <2>4, <2>5 DEF UpdateInv
<1>14. CASE Keep
  <2>1. TypeOK'
    BY <1>14, UpdateAssumption DEF Keep, TypeOK
  <2>2. CopiesInv'
    BY <1>14 DEF Keep, CopiesInv, PatchInv, UpToDate
  <2>3. PatchInv'
    BY <1>14 DEF Keep, PatchInv, UpToDate
  <2>4. ConfInv'
    BY <1>14 DEF Keep, None, ConfInv, Template, Original, PatchInv, UpToDate
  <2>5. DriftInv'
    BY <1>14 DEF Keep, DriftInv
  <2>. QED
    BY <2>1, <2>2, <2>3, <2>4, <2>5 DEF UpdateInv
<1>15. CASE RemoveConf
  <2>1. TypeOK'
    BY <1>15, UpdateAssumption DEF RemoveConf, TypeOK
  <2>2. CopiesInv'
    BY <1>15 DEF RemoveConf, CopiesInv
  <2>3. PatchInv'
    BY <1>15 DEF RemoveConf, PatchInv, UpToDate
  <2>4. ConfInv'
    BY <1>15 DEF RemoveConf, ConfInv
  <2>5. DriftInv'
    BY <1>15 DEF RemoveConf, DriftInv
  <2>. QED
    BY <2>1, <2>2, <2>3, <2>4, <2>5 DEF UpdateInv
<1>16. CASE Restore
  <2>1. TypeOK'
    BY <1>16, UpdateAssumption DEF Restore, TypeOK
  <2>2. CopiesInv'
    BY <1>16 DEF Restore, CopiesInv, PatchInv, UpToDate
  <2>3. PatchInv'
    BY <1>16 DEF Restore, PatchInv, UpToDate
  <2>4. ConfInv'
    BY <1>16 DEF Restore, ConfInv
  <2>5. DriftInv'
    BY <1>16 DEF Restore, DriftInv
  <2>. QED
    BY <2>1, <2>2, <2>3, <2>4, <2>5 DEF UpdateInv
<1>17. CASE Edit
  <2>1. TypeOK'
    <3>1. conf \in Text => Filled(conf) \in Text
      BY DEF Filled, TypeOK, Text
    <3>2. Empty \in Text
      BY <1>17, RevOf, TextOf, TornOf DEF Edit, Empty, PatchInv, CopiesInv
    <3>. QED
      BY <1>17, <3>1, <3>2 DEF Edit, TypeOK
  <2>2. CopiesInv'
    BY <1>17 DEF Edit, Filled, CopiesInv, PatchInv, UpToDate
  <2>3. PatchInv'
    BY <1>17 DEF Edit, Filled, PatchInv, UpToDate
  <2>4. ConfInv'
    BY <1>17 DEF Edit, Filled, ConfInv
  <2>5. DriftInv'
    BY <1>17 DEF Edit, Filled, DriftInv
  <2>. QED
    BY <2>1, <2>2, <2>3, <2>4, <2>5 DEF UpdateInv
<1>18. CASE MoveConf
  <2>1. TypeOK'
    BY <1>18, UpdateAssumption DEF MoveConf, TypeOK
  <2>2. CopiesInv'
    BY <1>18 DEF MoveConf, CopiesInv, PatchInv, UpToDate
  <2>3. PatchInv'
    BY <1>18 DEF MoveConf, PatchInv, UpToDate
  <2>4. ConfInv'
    BY <1>18 DEF MoveConf, ConfInv
  <2>5. DriftInv'
    BY <1>18 DEF MoveConf, DriftInv
  <2>. QED
    BY <2>1, <2>2, <2>3, <2>4, <2>5 DEF UpdateInv
<1>19. CASE Configured
  <2>1. TypeOK'
    BY <1>19, UpdateAssumption DEF Configured, TypeOK
  <2>2. CopiesInv'
    BY <1>19 DEF Configured, CopiesInv
  <2>3. PatchInv'
    BY <1>19 DEF Configured, PatchInv, UpToDate
  <2>4. ConfInv'
    BY <1>19 DEF Configured, ConfInv
  <2>5. DriftInv'
    BY <1>19 DEF Configured, DriftInv
  <2>. QED
    BY <2>1, <2>2, <2>3, <2>4, <2>5 DEF UpdateInv
<1>20. CASE Configure
  <2>1. TypeOK'
    BY <1>20, UpdateAssumption DEF Configure, Reads, TypeOK, Rev, CopiesInv, PatchInv, UpToDate
  <2>2. CopiesInv'
    BY <1>20 DEF Configure, Reads, CopiesInv
  <2>3. PatchInv'
    BY <1>20 DEF Configure, Reads, PatchInv, UpToDate
  <2>4. ConfInv'
    BY <1>20 DEF Configure, Reads, ConfInv
  <2>5. DriftInv'
    BY <1>20 DEF Configure, Reads, DriftInv, PatchInv, UpToDate
  <2>. QED
    BY <2>1, <2>2, <2>3, <2>4, <2>5 DEF UpdateInv
<1>21. CASE Made
  <2>1. TypeOK'
    BY <1>21, UpdateAssumption DEF Made, NextTarget, TypeOK
  <2>2. CopiesInv'
    BY <1>21 DEF Made, NextTarget, CopiesInv
  <2>3. PatchInv'
    BY <1>21 DEF Made, NextTarget, PatchInv, UpToDate
  <2>4. ConfInv'
    BY <1>21 DEF Made, NextTarget, ConfInv
  <2>5. DriftInv'
    BY <1>21 DEF Made, NextTarget, DriftInv
  <2>. QED
    BY <2>1, <2>2, <2>3, <2>4, <2>5 DEF UpdateInv
<1>22. CASE Make
  <2>1. TypeOK'
    <3>1. wc \in Rev
      BY <1>22, RevOf DEF Make, PatchInv, CopiesInv
    <3>2. used' \in [Targets -> SUBSET Rev]
      BY <1>22, <3>1 DEF Make, TypeOK, Reads
    <3>3. /\ target' \in Targets /\ left' \subseteq Targets \ {target'}
          /\ installed' \subseteq configured' /\ configured' \subseteq Targets
      BY <1>22 DEF Make, TypeOK, NextTarget, DriftInv
    <3>4. status' \in {"none", "ok", "died", "killed"} /\ faults' \in 0..MaxFaults
      BY <1>22, UpdateAssumption DEF Make, TypeOK, NextTarget, Fault
    <3>. QED
      BY <1>22, <3>2, <3>3, <3>4 DEF Make, TypeOK
  <2>2. CopiesInv'
    BY <1>22 DEF Make, NextTarget, Reads, CopiesInv
  <2>3. PatchInv'
    BY <1>22 DEF Make, NextTarget, Reads, PatchInv, UpToDate
  <2>4. ConfInv'
    BY <1>22 DEF Make, NextTarget, Reads, ConfInv
  <2>5. DriftInv'
    BY <1>22 DEF Make, NextTarget, Reads, DriftInv, PatchInv, UpToDate
  <2>. QED
    BY <2>1, <2>2, <2>3, <2>4, <2>5 DEF UpdateInv
<1>23. CASE BuildFails
  <2>1. TypeOK'
    <3>1. wc \in Rev
      BY <1>23, RevOf DEF BuildFails, PatchInv, CopiesInv
    <3>2. used' \in [Targets -> SUBSET Rev]
      BY <1>23, <3>1 DEF BuildFails, TypeOK, Reads
    <3>3. /\ target' \in Targets /\ left' \subseteq Targets \ {target'}
          /\ installed' \subseteq configured' /\ configured' \subseteq Targets
      BY <1>23 DEF BuildFails, TypeOK, NextTarget, DriftInv
    <3>4. status' \in {"none", "ok", "died", "killed"} /\ faults' \in 0..MaxFaults
      BY <1>23, UpdateAssumption DEF BuildFails, TypeOK, NextTarget, Fault
    <3>. QED
      BY <1>23, <3>2, <3>3, <3>4 DEF BuildFails, TypeOK
  <2>2. CopiesInv'
    BY <1>23 DEF BuildFails, Fault, Reads, CopiesInv
  <2>3. PatchInv'
    BY <1>23 DEF BuildFails, Fault, Reads, PatchInv, UpToDate
  <2>4. ConfInv'
    BY <1>23 DEF BuildFails, Fault, Reads, ConfInv
  <2>5. DriftInv'
    BY <1>23 DEF BuildFails, Fault, Reads, DriftInv, TypeOK, PatchInv, UpToDate
  <2>. QED
    BY <2>1, <2>2, <2>3, <2>4, <2>5 DEF UpdateInv
<1>24. CASE Kill
  <2>1. TypeOK'
    <3>1. pc = "restore" => kept # None
      BY DEF ConfInv
    <3>2. {conf', kept', tmp'} \subseteq Text \union {None}
      <4>1. {conf, kept, tmp} \subseteq Text \union {None}
        BY DEF TypeOK
      <4>. QED
        BY <1>24, <3>1, <4>1, TornOf DEF Kill
    <3>3. faults' \in 0..MaxFaults
      BY <1>24, UpdateAssumption DEF Kill, TypeOK, Fault
    <3>. QED
      BY <1>24, <3>2, <3>3 DEF Kill, TypeOK
  <2>2. CopiesInv'
    BY <1>24 DEF Kill, Fault, Torn, CopiesInv, PatchInv, UpToDate
  <2>3. PatchInv'
    BY <1>24 DEF Kill, Fault, Torn, PatchInv, UpToDate
  <2>4. ConfInv'
    BY <1>24 DEF Kill, Fault, Torn, ConfInv, Template, Original, PatchInv, UpToDate
  <2>5. DriftInv'
    BY <1>24 DEF Kill, Fault, Torn, DriftInv
  <2>. QED
    BY <2>1, <2>2, <2>3, <2>4, <2>5 DEF UpdateInv
<1>25. CASE Commit
  <2>1. TypeOK'
    BY <1>25, UpdateAssumption DEF Commit, TypeOK, Rev
  <2>2. CopiesInv'
    BY <1>25 DEF Commit, CopiesInv
  <2>3. PatchInv'
    BY <1>25 DEF Commit, PatchInv, UpToDate
  <2>4. ConfInv'
    BY <1>25 DEF Commit, ConfInv
  <2>5. DriftInv'
    BY <1>25 DEF Commit, DriftInv
  <2>. QED
    BY <2>1, <2>2, <2>3, <2>4, <2>5 DEF UpdateInv
<1>26. ASSUME NEW ts \in SUBSET Targets, NEW u \in BOOLEAN, StartRun(ts, u)
      PROVE  UpdateInv'
  <2>1. TypeOK'
    BY <1>26 DEF StartRun, TypeOK
  <2>2. CopiesInv'
    BY <1>26 DEF StartRun, CopiesInv
  <2>3. PatchInv'
    BY <1>26 DEF StartRun, PatchInv, UpToDate
  <2>4. ConfInv'
    BY <1>26 DEF StartRun, ConfInv
  <2>5. DriftInv'
    BY <1>26 DEF StartRun, DriftInv
  <2>. QED
    BY <2>1, <2>2, <2>3, <2>4, <2>5 DEF UpdateInv
<1>27. CASE UNCHANGED vars
  <2>1. TypeOK'
    BY <1>27 DEF vars, TypeOK
  <2>2. CopiesInv'
    BY <1>27 DEF vars, CopiesInv
  <2>3. PatchInv'
    BY <1>27 DEF vars, PatchInv, UpToDate
  <2>4. ConfInv'
    BY <1>27 DEF vars, ConfInv
  <2>5. DriftInv'
    BY <1>27 DEF vars, DriftInv
  <2>. QED
    BY <2>1, <2>2, <2>3, <2>4, <2>5 DEF UpdateInv
<1>. QED
  BY <1>1, <1>2, <1>3, <1>4, <1>5, <1>6, <1>7, <1>8, <1>9, <1>10, <1>11, <1>12, <1>13, <1>14,
     <1>15, <1>16, <1>17, <1>18, <1>19, <1>20, <1>21, <1>22, <1>23, <1>24, <1>25, <1>26, <1>27 DEF Next, RunStep

-----------------------------------------------------------------------------
(* At every moment, whatever was killed: the markers, the patches and      *)
(* qmake.conf fit each other and the revision that is there (CopiesInv,    *)
(* PatchInv, ConfInv), but from a git clean that fails unnoticed to the    *)
(* next update that cleans and resets; and so does, without exception,     *)
(* what was built from them (DriftInv).                                    *)
THEOREM UpdateInvariant == Spec => []UpdateInv
BY UpdateInit, UpdateNext, PTL DEF Spec

(* Without --update-sources no two targets are built from different        *)
(* revisions: a working copy without its marker may be pulled again, but   *)
(* nothing has been built from it; one with a marker is left alone.        *)
THEOREM DriftOnlyByUpdate == Spec => []DriftNeedsUpdate
<1>1. ASSUME UpdateInv PROVE DriftNeedsUpdate
  <2>1. SUFFICES ASSUME ~updated
                 PROVE  Cardinality(UNION {used[t] : t \in Targets}) <= 1
    BY DEF DriftNeedsUpdate
  <2>2. UNION {used[t] : t \in Targets} \in SUBSET {wc}
    BY <1>1, <2>1 DEF UpdateInv, DriftInv
  <2>3. IsFiniteSet({wc}) /\ Cardinality({wc}) = 1
    BY FS_Singleton
  <2>. QED
    BY <2>2, <2>3, FS_Subset
<1>. QED
  BY <1>1, UpdateInvariant, PTL

(* configure and make of a target read patched sources and a qmake.conf    *)
(* with the flags of that target, from the revision the sources have,      *)
(* unless they read what a failed git clean has left.                      *)
THEOREM ConfAlwaysCurrent == Spec => []ConfIsCurrent
<1>1. ASSUME UpdateInv PROVE ConfIsCurrent
  <2>. SUFFICES ASSUME pc \in {"configure", "make"}, ~unclean
                PROVE  /\ patched /\ conf # None /\ kept # None
                       /\ conf.rev = wc /\ conf.flags = target
                       /\ conf.whole = kept.whole /\ (update => kept.whole)
    BY DEF ConfIsCurrent
  <2>1. kept # None /\ conf = [kept EXCEPT !.flags = target] /\ (update => kept.whole)
    BY <1>1 DEF UpdateInv, ConfInv, Saved
  <2>2. kept \in Text /\ kept.rev = wc /\ patched
    BY <1>1, <2>1 DEF UpdateInv, CopiesInv, PatchInv, ConfInv, TypeOK, Saved
  <2>3. target \in Targets
    BY <1>1 DEF UpdateInv, TypeOK
  <2>4. conf \in Text
    BY <2>1, <2>2, <2>3 DEF Text
  <2>5. conf.rev = wc /\ conf.flags = target /\ conf.whole = kept.whole
    BY <2>1, <2>2
  <2>. QED
    BY <2>1, <2>2, <2>4, <2>5, NoneIsNoText
<1>. QED
  BY <1>1, UpdateInvariant, PTL
=============================================================================
