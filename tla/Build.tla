------------------------------- MODULE Build --------------------------------
(***************************************************************************)
(* The main loops of src/buildall over the real list of packages and the   *)
(* real scenarios: one shell, that sources a scenario file after the other *)
(* and calls the six functions the last one that defines them has left, in *)
(* an environment that scenarios change; and one disk, on which runs with  *)
(* different options and for different architectures share directories.    *)
(* Pipeline models what the helpers do inside of a step; here a step of a  *)
(* scenario is one command with a marker.                                  *)
(***************************************************************************)
EXTENDS Scenarios, PackageOrder, Naturals, FiniteSets, TLC

CONSTANTS
    Options,         \* the options the user may give
    ArchLists,       \* and the architectures, in the order they are given in
    PackageList(_),  \* PACKAGES for some options: Packages(o), or a part of it
    Faults,          \* a subset of {"exit", "kill"}: tools that fail, killed runs
    MaxFaults,       \* bound: how many of them
    MaxChanges       \* bound: how often the user changes the options

Archs == {"i686", "x86_64"}

ASSUME BuildAssumption ==
    /\ Options # {} /\ \A o \in Options : PackageList(o) \in Seq(STRING) \ {<<>>}
    /\ ArchLists # {} /\ ArchLists \subseteq Seq(Archs) \ {<<>>}
    /\ Faults \subseteq {"exit", "kill"} /\ MaxFaults \in Nat /\ MaxChanges \in Nat

VARIABLES
    (* the disk *)
    marks,      \* the marker files, and which step has made each
    trees,      \* the files and directories that steps have left
    delivered,  \* <<directory, package>>: what is installed where
    stamp,      \* the target a rewritten file was rewritten for
    ignored,    \* the steps that failed and have their marker all the same
    torn,       \* the files that a kill has left half-way, for good
    (* the shell *)
    pc,         \* "idle", "source", "enter", "busy" or "touch"
    opts, archs, ai, pi,    \* the options; the positions in the two loops
    fn, i,      \* the position in Functions, and in the steps of that function
    funcs,      \* the package whose scenario has defined each function
    env,        \* PATH, OLD_PATH, QTDIR and PYTHONHOME
    (* the user *)
    last,       \* how the last run ended: "none", "done", "died" or "killed"
    faults, changes

disk == <<marks, trees, delivered, stamp, ignored, torn>>
loops == <<opts, archs, ai, pi, funcs>>
user == <<last, faults, changes>>
vars == <<disk, pc, loops, fn, i, env, user>>

Functions == <<"src_download", "src_unpack", "src_patch",
               "src_configure", "pkg_build", "pkg_install">>
FunctionNames == {Functions[k] : k \in 1..6}

-----------------------------------------------------------------------------
(* The place in the loops.                                                 *)

Context(o, arch) == o @@ [arch |-> arch, desktop |-> o.opengl \/ o.static]

(* The scenarios of each list, in each context.                            *)
Recipes ==
    [o \in Options |-> [a \in Archs |->
        [k \in DOMAIN PackageList(o) |-> ScenarioOf(PackageList(o)[k], Context(o, a))]]]

arch == archs[ai]
sub == PackageList(opts)[pi]
Sourced == Recipes[opts][arch][pi]
Here == <<sub, Functions[fn], i>>

(* A function left by an earlier scenario works on the names of this one,  *)
(* which do not fit: it dies, or goes on after an error. There may be none.*)
Foreign == Partly(<<>>, {<<"nowhere">>})

Steps == IF funcs[Functions[fn]] = sub THEN Sourced[Functions[fn]]
         ELSE Foreign
Step == Steps[i]

(* The environment.  An element of PATH stands for the directories of a    *)
(* toolchain and of the prefix, and says whether QTDIR/bin is with them.   *)
Own(a) == <<a, TRUE>>
EnvStart == [path |-> <<>>, old |-> <<>>, qtdir |-> "none", python |-> "none"]
EnvFor(a, o, e) ==
    [e EXCEPT !.path = <<Own(a)>> \o @, !.qtdir = a,
              !.python = IF o.python = "toolchain" THEN a ELSE @]

ChangePaths(e) == [e EXCEPT !.old = e.path, !.path = <<Own(arch)>>]
RestorePaths(e) == [e EXCEPT !.path = e.old, !.old = <<>>]
HideQtDir(e) ==
    [e EXCEPT !.old = e.path,
              !.path = [k \in DOMAIN @ |-> IF @[k] = Own(e.qtdir) THEN <<e.qtdir, FALSE>>
                                           ELSE @[k]]]
EnvAfter(effect) ==
    CASE effect = "change_paths" -> ChangePaths(env)
      [] effect = "restore_paths" -> RestorePaths(env)
      [] effect = "hideQtDir" -> HideQtDir(env)
      [] effect = "PYTHONHOME" -> [env EXCEPT !.python = arch]
      [] effect = "unset QTDIR" -> [env EXCEPT !.qtdir = "none"]

-----------------------------------------------------------------------------
Init ==
    /\ marks = <<>> /\ trees = {} /\ delivered = {} /\ stamp = <<>> /\ ignored = {} /\ torn = {}
    /\ pc = "idle" /\ opts \in Options /\ archs \in ArchLists
    /\ ai = 1 /\ pi = 1 /\ fn = 1 /\ i = 1
    /\ funcs = [f \in FunctionNames |-> "none"] /\ env = EnvStart
    /\ last = "none" /\ faults = 0 /\ changes = 0

NoFault == UNCHANGED faults
Fault(f) == f \in Faults /\ faults < MaxFaults /\ faults' = faults + 1

(* The shell ends and takes everything with it but the disk.               *)
Exit(how) ==
    /\ pc' = "idle" /\ last' = how
    /\ ai' = 1 /\ pi' = 1 /\ fn' = 1 /\ i' = 1
    /\ funcs' = [f \in FunctionNames |-> "none"] /\ env' = EnvStart
    /\ UNCHANGED <<opts, archs, changes>>

StartRun(o, as) ==
    /\ pc = "idle" /\ pc' = "source"
    /\ IF <<o, as>> = <<opts, archs>> THEN UNCHANGED changes
       ELSE changes < MaxChanges /\ changes' = changes + 1
    /\ opts' = o /\ archs' = as /\ env' = EnvFor(as[1], o, EnvStart)
    /\ UNCHANGED <<disk, ai, pi, fn, i, funcs, last, faults>>

(* source ${SCENARIOS}/${sub}.sh: what the file does not get to define     *)
(* stays as it was.                                                        *)
SourceScenario ==
    /\ pc = "source" /\ pc' = "enter"
    /\ funcs' = [f \in FunctionNames |->
                    IF f \in DOMAIN Sourced THEN sub ELSE funcs[f]]
    /\ UNCHANGED <<disk, opts, archs, ai, pi, fn, i, env, user>>

-----------------------------------------------------------------------------
(* The steps of a function.                                                *)

Entered == pc = "enter" /\ i <= Len(Steps)

(* An assignment to the environment, done by every run.                    *)
SetEnvironment ==
    /\ Entered /\ Step.effect # "none"
    /\ env' = EnvAfter(Step.effect) /\ i' = i + 1
    /\ UNCHANGED <<disk, pc, loops, fn, user>>

Skippable == Step.mark \in DOMAIN marks /\ ~Step.always

Skip ==
    /\ Entered /\ Step.effect = "none" /\ Skippable
    /\ i' = i + 1
    /\ UNCHANGED <<disk, pc, loops, fn, env, user>>

(* The function f, with v for the keys.                                    *)
RecordedFirst(f, keys, v) ==   \* mutant: what is there is not replaced
    [x \in keys \union DOMAIN f |-> IF x \in DOMAIN f THEN f[x] ELSE v]
Recorded(f, keys, v) == [x \in keys \union DOMAIN f |-> IF x \in keys THEN v ELSE f[x]]

Mark == marks' = Recorded(marks, {Step.mark}, Here)

BeginMarked ==   \* mutant: the marker is made before the work
    /\ Entered /\ Step.effect = "none" /\ ~Skippable
    /\ pc' = "busy"
    /\ IF Step.mark # <<>> THEN Mark ELSE UNCHANGED marks
    /\ env' = IF Step.isolated THEN ChangePaths(env) ELSE env
    /\ UNCHANGED <<trees, delivered, stamp, ignored, torn, loops, fn, i, user>>

Begin ==
    /\ Entered /\ Step.effect = "none" /\ ~Skippable
    /\ pc' = "busy"
    /\ IF Step.early THEN Mark ELSE UNCHANGED marks
    /\ env' = IF Step.isolated THEN ChangePaths(env) ELSE env
    /\ UNCHANGED <<trees, delivered, stamp, ignored, torn, loops, fn, i, user>>

(* On to the next step, which a step without a marker to make does by      *)
(* itself.                                                                 *)
After ==
    /\ IF Step.mark = <<>> \/ Step.early THEN pc' = "enter" /\ i' = i + 1
       ELSE pc' = "touch" /\ UNCHANGED i
    /\ env' = IF Step.isolated THEN RestorePaths(env) ELSE env
    /\ UNCHANGED <<loops, fn>>

Able == Step.needs \subseteq trees /\ Step.inplace \intersect torn = {}

Succeed ==
    /\ pc = "busy" /\ Able
    /\ trees' = trees \union Step.makes
    /\ delivered' = delivered \union {<<d, sub>> : d \in Step.gives}
    /\ stamp' = Recorded(stamp, Step.stamps, <<arch, opts.static>>)
    /\ After
    /\ UNCHANGED <<marks, ignored, torn, user>>

(* A command fails by itself, or for what it works on.                     *)
Fails == IF Able THEN Fault("exit") ELSE NoFault

Die ==
    /\ pc = "busy" /\ Fails /\ "die" \in Step.fails
    /\ Exit("died")
    /\ UNCHANGED disk

GoOnAlways ==   \* mutant: no exit status is looked at
    /\ pc = "busy" /\ Fails
    /\ ignored' = ignored \union {Here}
    /\ After
    /\ UNCHANGED <<marks, trees, delivered, stamp, torn, last, changes>>

GoOn ==
    /\ pc = "busy" /\ Fails /\ "ignore" \in Step.fails
    /\ ignored' = ignored \union {Here}
    /\ After
    /\ UNCHANGED <<marks, trees, delivered, stamp, torn, last, changes>>

Touch ==
    /\ pc = "touch" /\ pc' = "enter"
    /\ Mark /\ i' = i + 1
    /\ UNCHANGED <<trees, delivered, stamp, ignored, torn, loops, fn, env, user>>

-----------------------------------------------------------------------------
(* The loops.                                                              *)

Returned == pc = "enter" /\ i > Len(Steps)

NextFunction ==
    /\ Returned /\ fn < 6
    /\ fn' = fn + 1 /\ i' = 1
    /\ UNCHANGED <<disk, pc, loops, env, user>>

PackageDone == Returned /\ fn = 6

NextPackageTooFar ==   \* mutant: one package too many
    /\ PackageDone /\ pi <= Len(PackageList(opts))
    /\ pi' = pi + 1 /\ pc' = "source" /\ fn' = 1 /\ i' = 1
    /\ UNCHANGED <<disk, opts, archs, ai, funcs, env, user>>

NextPackage ==
    /\ PackageDone /\ pi < Len(PackageList(opts))
    /\ pi' = pi + 1 /\ pc' = "source" /\ fn' = 1 /\ i' = 1
    /\ UNCHANGED <<disk, opts, archs, ai, funcs, env, user>>

ArchDone == PackageDone /\ pi = Len(PackageList(opts))

NextArch ==
    /\ ArchDone /\ ai < Len(archs)
    /\ ai' = ai + 1 /\ env' = EnvFor(archs[ai + 1], opts, env)
    /\ pi' = 1 /\ pc' = "source" /\ fn' = 1 /\ i' = 1
    /\ UNCHANGED <<disk, opts, archs, funcs, user>>

Finish ==
    /\ ArchDone /\ ai = Len(archs)
    /\ Exit("done")
    /\ UNCHANGED <<disk, faults>>

(* A command that is killed can be repeated, unless it has begun to change *)
(* files in place: patches that have no marker yet (helpers:367), the      *)
(* makefile of perl and the template of qmake.conf.                        *)
HalfDone == IF pc \in {"busy", "touch"} THEN Step.inplace \ trees ELSE {}
Kill ==
    /\ pc # "idle" /\ Fault("kill") /\ Exit("killed")
    /\ \/ torn' = torn \union HalfDone
       \/ pc = "busy" /\ UNCHANGED torn
    /\ UNCHANGED <<marks, trees, delivered, stamp, ignored>>

RunStep ==
    \/ SourceScenario \/ SetEnvironment \/ Skip \/ Begin \/ Succeed \/ Die \/ GoOn \/ Touch
    \/ NextFunction \/ NextPackage \/ NextArch \/ Finish

Restart == StartRun(opts, archs)

Next ==
    \/ \E o \in Options, as \in ArchLists : StartRun(o, as)
    \/ RunStep
    \/ Kill

Spec == Init /\ [][Next]_vars

(* Commands return, and the user starts the run again until it ends well.  *)
FairSpec == Spec /\ WF_vars(RunStep) /\ WF_vars(Restart)

-----------------------------------------------------------------------------
(* Properties.                                                             *)

TypeOK ==
    /\ pc \in {"idle", "source", "enter", "busy", "touch"}
    /\ opts \in Options /\ archs \in ArchLists
    /\ ai \in 1..Len(archs) /\ pi \in 1..Len(PackageList(opts))
    /\ fn \in 1..6 /\ i \in Nat \ {0}
    /\ DOMAIN funcs = FunctionNames
    /\ env.qtdir \in {"none", "i686", "x86_64"} /\ env.python \in {"none", "i686", "x86_64"}
    /\ \A k \in DOMAIN env.path : env.path[k] \in {"i686", "x86_64"} \X BOOLEAN
    /\ last \in {"none", "done", "died", "killed"}
    /\ faults \in 0..MaxFaults /\ changes \in 0..MaxChanges

(* What installing the k-th package of the list puts where: the package in *)
(* the prefix, or in the Qt directory.                                     *)
Where(o, a, k) ==
    LET s == Recipes[o][a][k]
    IN IF "pkg_install" \in DOMAIN s
       THEN UNION {s.pkg_install[n].gives : n \in DOMAIN s.pkg_install}
       ELSE {QtDir(Context(o, a))}
Wanted ==
    [o \in Options |-> [a \in Archs |->
        [k \in DOMAIN PackageList(o) |-> {<<d, PackageList(o)[k]>> : d \in Where(o, a, k)}]]]
Installed(a, k) == Wanted[opts][a][k] \subseteq delivered

(* No run dies by itself: every command finds what it works on, left by    *)
(* an earlier step, of this or another package, in this or another run,    *)
(* which may have had other options.                                       *)
CleanRunCompletes == last = "died" => faults > 0

(* A run that ends well has delivered: every package of its list is in the *)
(* prefix, or the Qt directory, of these options, for each architecture.   *)
AllInstalled ==
    \A n \in DOMAIN archs : \A k \in DOMAIN PackageList(opts) : Installed(archs[n], k)
RunDelivers == pc = "idle" /\ last = "done" => AllInstalled

(* Seen from its installations only, with the shell, the markers and the   *)
(* environment hidden, this is Delivery: in any sequence of runs, with     *)
(* whatever options, nothing is installed before the packages that come    *)
(* before it, and what is installed stays; also what a run has skipped     *)
(* counts among these.                                                     *)
Deliver == INSTANCE Delivery WITH running <- pc # "idle"
ImplementsDelivery == Deliver!Spec

(* A step is skipped because it was done: its marker was made by that very *)
(* step of the same scenario, never by another one that happens to use the *)
(* same directory and name.                                                *)
SkipsOwnWork ==
    Entered /\ Step.effect = "none" /\ Skippable => marks[Step.mark] = Here

(* A scenario leaves PATH as buildall has set it, whatever it does to it,  *)
(* and whatever steps it skips: the tools of this architecture first, then *)
(* those of the ones before it.                                            *)
PathRestored ==
    pc = "source" =>
        /\ env.old = <<>>
        /\ env.path = [k \in 1..ai |-> Own(archs[ai + 1 - k])]

(* Qt is built by the qmake.conf rewritten for this target, also where two *)
(* targets share the file (qt-git.sh), unless the rewriting has failed,    *)
(* which nothing tests.                                                    *)
ConfIsOwn ==
    pc = "busy" /\ ignored = {} =>
        \A f \in Step.reads : f \in DOMAIN stamp /\ stamp[f] = <<arch, opts.static>>

(* The list is an order of dependencies: when a package is configured, the *)
(* packages of the list that its DEPENDS names are installed, but for icu, *)
(* which sqlite names and which comes after it.                            *)
OutOfOrder == {<<"sqlite", "icu">>}
DependsInstalled ==
    pc = "busy" /\ fn >= 4 =>
        \A k \in DOMAIN PackageList(opts) :
            PackageList(opts)[k] \in Sourced.depends =>
                <<sub, PackageList(opts)[k]>> \in OutOfOrder \/ Installed(arch, k)

(* The variables that scenarios set and unset, run after run, skipping     *)
(* where they may, are those of this architecture where they are used.     *)
(* PYTHONHOME while Qt is built: "build Python and use it when building    *)
(* Qt" (buildall:168), also in a run that finds python built already.      *)
(* QTDIR wherever a scenario says --with-qt=${QTDIR} or ${QTDIR}/bin/qmake.*)
EnvIsOwn ==
    pc = "busy" =>
        /\ sub = "qt" /\ opts.python # "msys" => env.python = arch
        /\ Step.qtdir => env.qtdir = arch

(* After any failures and kills, and when they have ended, repeated runs   *)
(* install everything, unless a failure has been ignored, or a kill has    *)
(* fallen into one of the three commands that no run can repeat.           *)
EventuallyInstalled == <>(AllInstalled \/ ignored # {} \/ torn # {})
=============================================================================
