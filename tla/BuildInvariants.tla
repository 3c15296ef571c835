--------------------------- MODULE BuildInvariants ---------------------------
(***************************************************************************)
(* Why the properties of module Build hold: what they need of the          *)
(* scenarios and of the list, which are conditions on constants, and the   *)
(* inductive invariants that follow from it for the shell and the disk.    *)
(***************************************************************************)
EXTENDS Build

(* A place in a run is <<k, f, n>>: the n-th step of the f-th function of  *)
(* the k-th package.                                                       *)
StepsOf(o, a, k, f) == Recipes[o][a][k][Functions[f]]
Places(o, a) ==
    UNION {UNION {{<<k, f, n>> : n \in DOMAIN StepsOf(o, a, k, f)} : f \in 1..6} :
           k \in DOMAIN PackageList(o)}
Earlier(p, q) ==
    \/ p[1] < q[1]
    \/ p[1] = q[1] /\ (p[2] < q[2] \/ (p[2] = q[2] /\ p[3] < q[3]))

Entry(o, a, p) ==
    [package |-> PackageList(o)[p[1]], fn |-> p[2], at |-> p[3],
     step |-> StepsOf(o, a, p[1], p[2])[p[3]]]
Entries == UNION {{Entry(o, a, p) : p \in Places(o, a)} : o \in Options, a \in Archs}
Before(o, a, p) == {Entry(o, a, q) : q \in {r \in Places(o, a) : Earlier(r, p)}}

-----------------------------------------------------------------------------
(* What is needed of the scenarios.                                        *)

FileNames == Seq(STRING)
Effects ==
    {"none", "change_paths", "restore_paths", "hideQtDir", "PYTHONHOME", "unset QTDIR"}
StepType ==
    [mark : FileNames, needs : SUBSET FileNames, makes : SUBSET FileNames, gives : SUBSET FileNames,
     fails : SUBSET {"die", "ignore"}, early : BOOLEAN, always : BOOLEAN,
     qtdir : BOOLEAN, isolated : BOOLEAN, effect : Effects,
     stamps : SUBSET FileNames, reads : SUBSET FileNames, inplace : SUBSET FileNames]

(* Every file defines all of the six functions (qt-5.0.1.sh does not);     *)
(* what changes the environment does nothing else; and a marker that is    *)
(* there before the work vouches for nothing.                              *)
WellFormed ==
    /\ \A o \in Options, a \in Archs : \A k \in DOMAIN PackageList(o) : \A f \in 1..6 :
          /\ Functions[f] \in DOMAIN Recipes[o][a][k]
          /\ StepsOf(o, a, k, f) \in Seq(StepType)
    /\ \A e \in Entries :
          /\ e.step.effect # "none" => e.step = [Plain EXCEPT !.effect = e.step.effect]
          /\ e.step.early => e.step.mark # <<>> /\ e.step.makes = {} /\ e.step.gives = {}

(* PATH is saved in one variable: between change_paths and restore_paths   *)
(* of a function it is not saved again, and it is always restored.         *)
Opening == {"change_paths", "hideQtDir"}
Open(s, n) ==
    \E j \in DOMAIN s :
        /\ j < n /\ s[j].effect \in Opening
        /\ \A l \in DOMAIN s : j < l /\ l < n => s[l].effect # "restore_paths"
Balanced ==
    \A o \in Options, a \in Archs : \A k \in DOMAIN PackageList(o) : \A f \in 1..6 :
        LET s == StepsOf(o, a, k, f)
        IN /\ ~Open(s, Len(s) + 1)
           /\ \A n \in DOMAIN s :
                 /\ s[n].effect \in Opening \/ s[n].isolated => ~Open(s, n)
                 /\ s[n].effect = "restore_paths" => Open(s, n)

(* Whatever the options: steps with the same marker are the same step of   *)
(* the same scenario, and do the same.                                     *)
OwnMarkers ==
    \A d, e \in Entries :
        d.step.mark = e.step.mark /\ d.step.mark # <<>> =>
            /\ d.package = e.package /\ d.fn = e.fn /\ d.at = e.at
            /\ d.step.makes = e.step.makes /\ d.step.gives = e.step.gives

(* An installation that fails is an error.                                 *)
InstallsDie == \A e \in Entries : e.step.gives # {} => e.step.fails = {"die"}

(* Installing is done by pkg_install.                                      *)
InstallsLast == \A e \in Entries : e.step.gives # {} => e.fn = 6

(* A step works on what earlier steps of the run are for, or nobody looks  *)
(* at its failure and nobody works on what it makes (the workaround of     *)
(* qt-git.sh).                                                             *)
NeedsAreMadeWith(o) ==
    \A a \in Archs : \A p \in Places(o, a) :
        LET s == Entry(o, a, p).step
        IN \/ s.needs \subseteq UNION {e.step.makes : e \in Before(o, a, p)}
           \/ s.fails = {"ignore"} /\ s.makes = {}
NeedsAreMade == \A o \in Options : NeedsAreMadeWith(o)

(* Nothing unsets QTDIR before it is used, and python, if it is built, is  *)
(* built before Qt.                                                        *)
QtDirIsKept ==
    \A o \in Options, a \in Archs : \A p \in Places(o, a) :
        Entry(o, a, p).step.qtdir =>
            \A e \in Before(o, a, p) : e.step.effect # "unset QTDIR"
PythonIsSet ==
    \A o \in Options, a \in Archs : \A k \in DOMAIN PackageList(o) :
        PackageList(o)[k] = "qt" /\ o.python \notin {"msys", "toolchain"} =>
            \E e \in Before(o, a, <<k, 1, 1>>) : e.step.effect = "PYTHONHOME"

(* What is read was rewritten before, by a step that is never skipped.     *)
ConfIsRewritten ==
    \A o \in Options, a \in Archs : \A p \in Places(o, a) :
        \A c \in Entry(o, a, p).step.reads :
            \E e \in Before(o, a, p) : e.step.mark = <<>> /\ c \in e.step.stamps

(* A package comes after those of the list that it depends on.             *)
DependsComeFirst ==
    \A o \in Options, a \in Archs : \A k, l \in DOMAIN PackageList(o) :
        PackageList(o)[l] \in Recipes[o][a][k].depends =>
            l < k \/ <<PackageList(o)[k], PackageList(o)[l]>> \in OutOfOrder

-----------------------------------------------------------------------------
(* The inductive invariants.                                               *)

Place == <<pi, fn, i>>
Past == Before(opts, arch, Place)
Current == Entry(opts, arch, Place)

(* Between runs there is no position; in a run the functions are those of  *)
(* the scenario sourced last, and a step at work is one of its steps.      *)
EnvType ==
    [path : Seq(Archs \X BOOLEAN), old : Seq(Archs \X BOOLEAN),
     qtdir : Archs \union {"none"}, python : Archs \union {"none"}]
InFunction == pc \in {"enter", "busy", "touch"}
ShellInv ==
    /\ env \in EnvType
    /\ pc = "idle" => ai = 1 /\ pi = 1
    /\ pc \in {"idle", "source"} => fn = 1 /\ i = 1
    /\ InFunction => funcs = [f \in FunctionNames |-> sub] /\ i <= Len(Steps) + 1
    /\ pc \in {"busy", "touch"} => i <= Len(Steps) /\ Step.effect = "none"
    /\ pc = "touch" => Step.mark # <<>>
TypeInv == TypeOK /\ ShellInv

(* PATH is that of the loop, or it is in OLD_PATH.                         *)
FullPath == [k \in 1..ai |-> Own(archs[ai + 1 - k])]
Saved == (InFunction /\ Open(Steps, i)) \/ (pc = "busy" /\ Step.isolated)
PathInv ==
    pc # "idle" =>
        IF Saved THEN env.old = FullPath ELSE env.old = <<>> /\ env.path = FullPath

(* A marker was made by the step whose marker it is.                       *)
OwnInv ==
    /\ <<>> \notin DOMAIN marks
    /\ \A e \in Entries :
          e.step.mark \in DOMAIN marks =>
              marks[e.step.mark] = <<e.package, Functions[e.fn], e.at>>

(* What the run has come past, or found marked, is done: installed, and    *)
(* unless anything has gone wrong by itself, there for others to work on.  *)
Finished ==
    Past \union {e \in Entries : e.step.mark \in DOMAIN marks}
         \union (IF pc = "touch" THEN {Current} ELSE {})
GivenInv == \A e \in Finished : \A d \in e.step.gives : <<d, e.package>> \in delivered
MadeInv == faults = 0 => torn = {} /\ \A e \in Finished : e.step.makes \subseteq trees

(* So the architectures that are done have all of their packages.          *)
DoneInv ==
    /\ \A n \in 1..(ai - 1) : \A k \in DOMAIN PackageList(opts) : Installed(archs[n], k)
    /\ RunDelivers

(* The variables are those of the architecture from where they are set.    *)
VariablesInv ==
    pc # "idle" =>
        /\ (\A e \in Past : e.step.effect # "unset QTDIR") => env.qtdir = arch
        /\ opts.python = "toolchain" \/ (\E e \in Past : e.step.effect = "PYTHONHOME") =>
              env.python = arch

(* What was rewritten in this run is for its target, whoever else has      *)
(* rewritten it before.                                                    *)
StampInv ==
    ignored = {} =>
        \A e \in Past : e.step.mark = <<>> =>
            \A c \in e.step.stamps : c \in DOMAIN stamp /\ stamp[c] = <<arch, opts.static>>
=============================================================================
