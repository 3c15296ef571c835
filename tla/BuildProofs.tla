----------------------------- MODULE BuildProofs -----------------------------
(***************************************************************************)
(* Theorems about module Build, for every set of options, list of packages *)
(* and scenarios that meet the conditions of BuildInvariants, any order    *)
(* and number of architectures, and any number of runs, failures and kills.*)
(***************************************************************************)
EXTENDS BuildInvariants, SequenceTheorems, TLAPS

(* The facts about sequences that the environment needs.                   *)
LEMMA Prepended ==
    ASSUME NEW S, NEW x \in S, NEW s \in Seq(S)
    PROVE  /\ <<x>> \o s \in Seq(S)
           /\ Len(<<x>> \o s) = 1 + Len(s)
           /\ \A k \in 1..(1 + Len(s)) : (<<x>> \o s)[k] = IF k = 1 THEN x ELSE s[k - 1]
OBVIOUS

LEMMA SeqIsFunction ==
    ASSUME NEW S, NEW s \in Seq(S)
    PROVE  s = [k \in 1..Len(s) |-> s[k]]
OBVIOUS

LEMMA NonEmpty ==
    ASSUME NEW S, NEW s \in Seq(S) \ {<<>>}
    PROVE  Len(s) \in Nat /\ 1 \in 1..Len(s) /\ s[1] \in S
OBVIOUS

-----------------------------------------------------------------------------
(* Places and entries.                                                     *)

LEMMA PlaceIn ==
    ASSUME NEW o, NEW a, NEW k \in DOMAIN PackageList(o), NEW f \in 1..6,
           NEW n \in DOMAIN StepsOf(o, a, k, f)
    PROVE  <<k, f, n>> \in Places(o, a)
BY DEF Places

LEMMA PlaceOut ==
    ASSUME NEW o, NEW a, NEW p \in Places(o, a)
    PROVE  \E k \in DOMAIN PackageList(o), f \in 1..6 :
               \E n \in DOMAIN StepsOf(o, a, k, f) : p = <<k, f, n>>
BY DEF Places

LEMMA EntryIn ==
    ASSUME NEW o \in Options, NEW a \in Archs, NEW p \in Places(o, a)
    PROVE  Entry(o, a, p) \in Entries
<1>. DEFINE E(u, b) == {Entry(u, b, q) : q \in Places(u, b)}
<1>1. Entry(o, a, p) \in E(o, a)
  OBVIOUS
<1>2. E(o, a) \in {E(u, b) : u \in Options, b \in Archs}
  OBVIOUS
<1>. HIDE DEF E
<1>3. Entry(o, a, p) \in UNION {E(u, b) : u \in Options, b \in Archs}
  BY <1>1, <1>2
<1>. QED
  BY <1>3 DEF Entries, E

LEMMA BeforeIn ==
    ASSUME NEW o \in Options, NEW a \in Archs, NEW p
    PROVE  Before(o, a, p) \subseteq Entries
BY EntryIn DEF Before

(* Every entry has a step.                                                 *)
LEMMA EntryStep ==
    ASSUME WellFormed, NEW e \in Entries
    PROVE  e.step \in StepType
<1>1. PICK o \in Options, a \in Archs : \E p \in Places(o, a) : e = Entry(o, a, p)
  BY DEF Entries
<1>4. PICK p \in Places(o, a) : e = Entry(o, a, p)
  BY <1>1
<1>2. PICK k \in DOMAIN PackageList(o), f \in 1..6 :
           \E n \in DOMAIN StepsOf(o, a, k, f) : p = <<k, f, n>>
  BY PlaceOut
<1>3. StepsOf(o, a, k, f) \in Seq(StepType)
  BY DEF WellFormed
<1>. QED
  BY <1>4, <1>2, <1>3 DEF Entry

-----------------------------------------------------------------------------
(* The types of the environment.                                           *)

LEMMA EnvForType ==
    ASSUME NEW a \in Archs, NEW o, NEW e \in EnvType
    PROVE  /\ EnvFor(a, o, e) \in EnvType
           /\ EnvFor(a, o, e).path = <<Own(a)>> \o e.path
           /\ EnvFor(a, o, e).old = e.old
           /\ EnvFor(a, o, e).qtdir = a
           /\ EnvFor(a, o, e).python = IF o.python = "toolchain" THEN a ELSE e.python
<1>1. Own(a) \in Archs \X BOOLEAN
  BY DEF Own
<1>2. <<Own(a)>> \o e.path \in Seq(Archs \X BOOLEAN)
  BY <1>1, Prepended DEF EnvType
<1>. QED
  BY <1>2 DEF EnvFor, EnvType

LEMMA EnvForStart ==
    ASSUME NEW a \in Archs, NEW o
    PROVE  /\ EnvFor(a, o, EnvStart).path = <<Own(a)>> \o <<>> /\ EnvFor(a, o, EnvStart).old = <<>>
           /\ EnvFor(a, o, EnvStart).qtdir = a
           /\ o.python = "toolchain" => EnvFor(a, o, EnvStart).python = a
BY DEF EnvFor, EnvStart

LEMMA HiddenType ==
    ASSUME NEW e \in EnvType
    PROVE  HideQtDir(e) \in EnvType
<1>. DEFINE p == [k \in DOMAIN e.path |-> IF e.path[k] = Own(e.qtdir) THEN <<e.qtdir, FALSE>>
                                          ELSE e.path[k]]
<1>1. e.path \in Seq(Archs \X BOOLEAN) /\ e.qtdir \in Archs \union {"none"}
  BY DEF EnvType
<1>2. ASSUME NEW k \in DOMAIN e.path
      PROVE  p[k] \in Archs \X BOOLEAN
  <2>1. e.path[k] \in Archs \X BOOLEAN
    BY <1>1
  <2>2. CASE e.path[k] = Own(e.qtdir)
    <3>1. e.qtdir \in Archs
      BY <2>1, <2>2 DEF Own
    <3>. QED
      BY <3>1, <2>2
  <2>. QED
    BY <2>1, <2>2
<1>3. p \in Seq(Archs \X BOOLEAN)
  <2>1. DOMAIN e.path = 1..Len(e.path) /\ Len(e.path) \in Nat
    BY <1>1
  <2>2. p \in [1..Len(e.path) -> Archs \X BOOLEAN]
    BY <1>2, <2>1
  <2>. QED
    BY <2>1, <2>2, SeqDef
<1>4. HideQtDir(e) = [e EXCEPT !.old = e.path, !.path = p]
  BY DEF HideQtDir
<1>. HIDE DEF p
<1>. QED
  BY <1>1, <1>3, <1>4 DEF EnvType

LEMMA ChangedType ==
    ASSUME NEW e \in EnvType, arch \in Archs
    PROVE  ChangePaths(e) \in EnvType /\ RestorePaths(e) \in EnvType
<1>1. Own(arch) \in Archs \X BOOLEAN
  BY DEF Own
<1>2. <<Own(arch)>> \in Seq(Archs \X BOOLEAN)
  BY <1>1
<1>3. <<>> \in Seq(Archs \X BOOLEAN)
  OBVIOUS
<1>. HIDE DEF Archs, Own
<1>4. ChangePaths(e) \in EnvType
  BY <1>2 DEF ChangePaths, EnvType
<1>5. RestorePaths(e) \in EnvType
  BY <1>3 DEF RestorePaths, EnvType
<1>. QED
  BY <1>4, <1>5

LEMMA EnvAfterType ==
    ASSUME env \in EnvType, arch \in Archs, NEW effect \in Effects, effect # "none"
    PROVE  EnvAfter(effect) \in EnvType
<1>1. [env EXCEPT !.python = arch] \in EnvType /\ [env EXCEPT !.qtdir = "none"] \in EnvType
  BY DEF EnvType
<1>. QED
  BY <1>1, HiddenType, ChangedType DEF EnvAfter, Effects

LEMMA EnvStartType == EnvStart \in EnvType
BY DEF EnvStart, EnvType

-----------------------------------------------------------------------------
(* The position of a run.                                                  *)

LEMMA Positions ==
    ASSUME TypeInv
    PROVE  /\ opts \in Options /\ archs \in Seq(Archs) /\ archs \in ArchLists
           /\ ai \in 1..Len(archs) /\ arch \in Archs
           /\ PackageList(opts) \in Seq(STRING) /\ pi \in 1..Len(PackageList(opts))
           /\ DOMAIN PackageList(opts) = 1..Len(PackageList(opts))
           /\ Len(PackageList(opts)) \in Nat /\ Len(archs) \in Nat
           /\ fn \in 1..6 /\ i \in Nat \ {0} /\ Functions[fn] \in FunctionNames
BY BuildAssumption DEF TypeInv, TypeOK, arch, FunctionNames

LEMMA InFunctionSteps ==
    ASSUME WellFormed, TypeInv, InFunction
    PROVE  /\ Steps = StepsOf(opts, arch, pi, fn) /\ Steps \in Seq(StepType)
           /\ Len(Steps) \in Nat /\ DOMAIN Steps = 1..Len(Steps)
<1>1. funcs[Functions[fn]] = sub
  BY Positions DEF TypeInv, ShellInv
<1>2. Steps = StepsOf(opts, arch, pi, fn)
  BY <1>1 DEF Steps, StepsOf, Sourced
<1>3. StepsOf(opts, arch, pi, fn) \in Seq(StepType)
  BY Positions DEF WellFormed
<1>. QED
  BY <1>2, <1>3

LEMMA AtStep ==
    ASSUME WellFormed, TypeInv, InFunction, i <= Len(Steps)
    PROVE  /\ Place \in Places(opts, arch) /\ Current \in Entries
           /\ Current = [package |-> sub, fn |-> fn, at |-> i, step |-> Step]
           /\ Step \in StepType
<1>1. i \in DOMAIN StepsOf(opts, arch, pi, fn)
  BY Positions, InFunctionSteps
<1>2. Place \in Places(opts, arch)
  BY <1>1, Positions, PlaceIn DEF Place
<1>3. Current \in Entries
  BY <1>2, Positions, EntryIn DEF Current
<1>4. Current = [package |-> sub, fn |-> fn, at |-> i, step |-> Step]
  BY InFunctionSteps DEF Current, Entry, Place, sub, Step
<1>. QED
  BY <1>1, <1>2, <1>3, <1>4, InFunctionSteps DEF Step

LEMMA StepShape ==
    ASSUME WellFormed, TypeInv, InFunction, i <= Len(Steps)
    PROVE  /\ Current.step = Step /\ Step.effect \in Effects
           /\ Step.early => Step.mark # <<>> /\ Step.makes = {} /\ Step.gives = {}
           /\ Step.effect # "none" =>
                  Step.mark = <<>> /\ Step.makes = {} /\ Step.gives = {} /\ Step.stamps = {}
<1>1. Current \in Entries /\ Current.step = Step /\ Step \in StepType
  BY AtStep
<1>2. /\ Step.effect # "none" => Step = [Plain EXCEPT !.effect = Step.effect]
      /\ Step.early => Step.mark # <<>> /\ Step.makes = {} /\ Step.gives = {}
  BY <1>1 DEF WellFormed
<1>3. ASSUME NEW x
      PROVE  LET s == [Plain EXCEPT !.effect = x]
             IN s.mark = <<>> /\ s.makes = {} /\ s.gives = {} /\ s.stamps = {}
  BY DEF Plain
<1>. QED
  BY <1>1, <1>2, <1>3 DEF StepType

(* What leaves the position alone leaves the functions alone.              *)
LEMMA SamePlace ==
    ASSUME UNCHANGED <<opts, archs, ai, pi, fn, funcs>>
    PROVE  /\ Steps' = Steps /\ sub' = sub /\ arch' = arch
           /\ i' = i => Step' = Step /\ Here' = Here /\ Place' = Place
BY DEF Steps, Step, Sourced, sub, arch, Here, Place

-----------------------------------------------------------------------------
(* Type correctness.                                                       *)

LEMMA EnvTyped ==
    ASSUME NEW e \in EnvType
    PROVE  /\ e.qtdir \in {"none", "i686", "x86_64"} /\ e.python \in {"none", "i686", "x86_64"}
           /\ \A k \in DOMAIN e.path : e.path[k] \in {"i686", "x86_64"} \X BOOLEAN
BY DEF EnvType, Archs

LEMMA TypeInit == Init => TypeInv
<1>. SUFFICES ASSUME Init PROVE TypeInv
  OBVIOUS
<1>1. archs \in Seq(Archs) \ {<<>>} /\ PackageList(opts) \in Seq(STRING) \ {<<>>}
  BY BuildAssumption DEF Init
<1>2. 1 \in 1..Len(archs) /\ 1 \in 1..Len(PackageList(opts))
  BY <1>1, NonEmpty
<1>3. env \in EnvType
  BY EnvStartType DEF Init
<1>4. TypeOK
  BY <1>2, <1>3, EnvTyped, BuildAssumption DEF Init, TypeOK
<1>5. ShellInv
  BY <1>3 DEF Init, ShellInv, InFunction
<1>. QED
  BY <1>4, <1>5 DEF TypeInv

LEMMA ExitType ==
    ASSUME TypeInv, NEW how \in {"done", "died", "killed"}, Exit(how),
           faults' \in 0..MaxFaults
    PROVE  TypeInv'
<1>1. archs \in Seq(Archs) \ {<<>>} /\ PackageList(opts) \in Seq(STRING) \ {<<>>}
  BY BuildAssumption DEF TypeInv, TypeOK
<1>2. 1 \in 1..Len(archs) /\ 1 \in 1..Len(PackageList(opts))
  BY <1>1, NonEmpty
<1>3. env' \in EnvType
  BY EnvStartType DEF Exit
<1>4. TypeOK'
  BY <1>2, <1>3, EnvTyped DEF TypeInv, TypeOK, Exit
<1>5. ShellInv'
  BY <1>3 DEF ShellInv, InFunction, Exit
<1>. QED
  BY <1>4, <1>5 DEF TypeInv

LEMMA FaultType ==
    ASSUME TypeInv, NEW f, Fault(f) \/ NoFault
    PROVE  faults' \in 0..MaxFaults
BY BuildAssumption DEF TypeInv, TypeOK, Fault, NoFault

LEMMA StartRunType ==
    ASSUME WellFormed, TypeInv, NEW o \in Options, NEW list \in ArchLists, StartRun(o, list)
    PROVE  TypeInv'
<1>1. list \in Seq(Archs) \ {<<>>} /\ PackageList(o) \in Seq(STRING) \ {<<>>}
  BY BuildAssumption
<1>2. 1 \in 1..Len(list) /\ 1 \in 1..Len(PackageList(o)) /\ list[1] \in Archs
  <2>1. 1 \in 1..Len(list) /\ list[1] \in Archs
    BY <1>1, NonEmpty
  <2>2. 1 \in 1..Len(PackageList(o))
    BY <1>1, NonEmpty
  <2>. QED
    BY <2>1, <2>2
<1>3. env' \in EnvType
  BY <1>2, EnvStartType, EnvForType DEF StartRun
<1>4. changes' \in 0..MaxChanges
  <2>1. changes' = changes \/ (changes < MaxChanges /\ changes' = changes + 1)
    BY DEF StartRun
  <2>. QED
    BY <2>1, BuildAssumption DEF TypeInv, TypeOK
<1>5. ai' = 1 /\ pi' = 1 /\ fn' = 1 /\ i' = 1
  BY DEF StartRun, TypeInv, ShellInv
<1>6. TypeOK'
  BY <1>2, <1>3, <1>4, <1>5, EnvTyped DEF TypeInv, TypeOK, StartRun
<1>7. ShellInv'
  BY <1>3, <1>5 DEF ShellInv, InFunction, StartRun
<1>. QED
  BY <1>6, <1>7 DEF TypeInv

LEMMA SourceScenarioType ==
    ASSUME WellFormed, TypeInv, SourceScenario
    PROVE  TypeInv' /\ funcs' = [f \in FunctionNames |-> sub] /\ Steps' \in Seq(StepType)
<1>1. fn = 1 /\ i = 1
  BY DEF SourceScenario, TypeInv, ShellInv
<1>2. funcs' = [f \in FunctionNames |-> sub]
  <2>1. \A f \in 1..6 : Functions[f] \in DOMAIN Sourced
    BY Positions DEF WellFormed, Sourced
  <2>2. \A f \in FunctionNames : f \in DOMAIN Sourced
    BY <2>1 DEF FunctionNames
  <2>. QED
    BY <2>2 DEF SourceScenario
<1>3. Steps' \in Seq(StepType)
  <2>1. funcs'[Functions[fn]] = sub
    BY <1>2, Positions
  <2>2. Steps' = StepsOf(opts, arch, pi, fn)
    BY <2>1 DEF Steps, StepsOf, Sourced, sub, arch, SourceScenario
  <2>. QED
    BY <2>2, Positions DEF WellFormed
<1>4. TypeOK'
  BY <1>2 DEF TypeInv, TypeOK, SourceScenario, user
<1>5. ShellInv'
  <2>1. sub' = sub
    BY DEF sub, SourceScenario
  <2>2. 1 <= Len(Steps') + 1
    BY <1>3
  <2>. QED
    BY <1>1, <1>2, <2>1, <2>2 DEF TypeInv, ShellInv, InFunction, SourceScenario
<1>. QED
  BY <1>2, <1>3, <1>4, <1>5 DEF TypeInv

(* The actions inside of a function.                                       *)
Inside == SetEnvironment \/ Skip \/ Begin \/ Succeed \/ GoOn \/ Touch

LEMMA InsideEnv ==
    ASSUME WellFormed, TypeInv, Inside
    PROVE  env' \in EnvType
<1>1. env \in EnvType /\ arch \in Archs
  BY Positions DEF TypeInv, ShellInv
<1>2. CASE SetEnvironment
  <2>1. Step.effect \in Effects
    BY <1>2, AtStep DEF SetEnvironment, Entered, InFunction, StepType
  <2>. QED
    BY <1>1, <1>2, <2>1, EnvAfterType DEF SetEnvironment
<1>3. CASE Skip \/ Touch
  BY <1>1, <1>3 DEF Skip, Touch
<1>4. CASE Begin \/ Succeed \/ GoOn
  BY <1>1, <1>4, ChangedType DEF Begin, Succeed, GoOn, After
<1>. QED
  BY <1>2, <1>3, <1>4 DEF Inside

LEMMA InsideLoops ==
    ASSUME TypeInv, Inside
    PROVE  /\ UNCHANGED <<opts, archs, ai, pi, fn, funcs>>
           /\ InFunction /\ InFunction' /\ i <= Len(Steps)
           /\ i' = i \/ i' = i + 1
           /\ pc' \in {"busy", "touch"} => i' = i /\ Step.effect = "none"
           /\ pc' = "touch" => Step.mark # <<>>
<1>1. CASE SetEnvironment \/ Skip \/ Begin
  BY <1>1 DEF SetEnvironment, Skip, Begin, Entered, InFunction, loops
<1>2. CASE Succeed \/ GoOn \/ Touch
  BY <1>2 DEF Succeed, GoOn, Touch, After, InFunction, loops, TypeInv, ShellInv
<1>. QED
  BY <1>1, <1>2 DEF Inside

LEMMA InsideType ==
    ASSUME WellFormed, TypeInv, Inside
    PROVE  TypeInv'
<1>1. env' \in EnvType
  BY InsideEnv
<1>2. /\ UNCHANGED <<opts, archs, ai, pi, fn, funcs>>
      /\ InFunction /\ InFunction' /\ i <= Len(Steps)
      /\ i' = i \/ i' = i + 1
      /\ pc' \in {"busy", "touch"} => i' = i /\ Step.effect = "none"
      /\ pc' = "touch" => Step.mark # <<>>
  BY InsideLoops
<1>3. Steps' = Steps /\ sub' = sub /\ (i' = i => Step' = Step)
  BY <1>2, SamePlace
<1>4. Len(Steps) \in Nat /\ i \in Nat \ {0}
  BY <1>2, InFunctionSteps, Positions
<1>5. last' = last /\ changes' = changes /\ faults' \in 0..MaxFaults
  <2>1. CASE SetEnvironment \/ Skip \/ Begin \/ Succeed \/ Touch
    BY <2>1 DEF SetEnvironment, Skip, Begin, Succeed, Touch, user, TypeInv, TypeOK
  <2>2. CASE GoOn
    <3>1. Fault("exit") \/ NoFault
      BY <2>2 DEF GoOn, Fails
    <3>. QED
      BY <2>2, <3>1, FaultType DEF GoOn
  <2>. QED
    BY <2>1, <2>2 DEF Inside
<1>6. TypeOK'
  BY <1>1, <1>2, <1>4, <1>5, EnvTyped DEF TypeInv, TypeOK, InFunction
<1>7. ShellInv'
  <2>1. i' <= Len(Steps') + 1
    BY <1>2, <1>3, <1>4
  <2>. QED
    BY <1>1, <1>2, <1>3, <2>1 DEF TypeInv, ShellInv, InFunction
<1>. QED
  BY <1>6, <1>7 DEF TypeInv

(* The loops.                                                              *)
LEMMA NextFunctionType ==
    ASSUME WellFormed, TypeInv, NextFunction
    PROVE  TypeInv' /\ Steps' \in Seq(StepType)
<1>1. pc' = "enter" /\ fn' = fn + 1 /\ i' = 1 /\ fn' \in 1..6
  BY Positions DEF NextFunction, Returned
<1>2. funcs = [f \in FunctionNames |-> sub]
  BY DEF NextFunction, Returned, TypeInv, ShellInv, InFunction
<1>3. Steps' \in Seq(StepType)
  <2>1. funcs'[Functions[fn']] = sub
    BY <1>1, <1>2 DEF NextFunction, loops, FunctionNames
  <2>2. Steps' = StepsOf(opts, arch, pi, fn')
    BY <2>1 DEF Steps, StepsOf, Sourced, sub, arch, NextFunction, loops
  <2>. QED
    BY <1>1, <2>2, Positions DEF WellFormed
<1>4. TypeOK'
  BY <1>1 DEF TypeInv, TypeOK, NextFunction, loops, user
<1>5. ShellInv'
  <2>1. sub' = sub
    BY DEF sub, NextFunction, loops
  <2>2. 1 <= Len(Steps') + 1
    BY <1>3
  <2>. QED
    BY <1>1, <1>2, <2>1, <2>2 DEF TypeInv, ShellInv, InFunction, NextFunction, loops
<1>. QED
  BY <1>3, <1>4, <1>5 DEF TypeInv

LEMMA NextPackageType ==
    ASSUME TypeInv, NextPackage
    PROVE  TypeInv'
<1>1. pi' \in 1..Len(PackageList(opts))
  BY Positions DEF NextPackage
<1>2. TypeOK'
  BY <1>1 DEF TypeInv, TypeOK, NextPackage, user
<1>3. ShellInv'
  BY DEF TypeInv, ShellInv, InFunction, NextPackage
<1>. QED
  BY <1>2, <1>3 DEF TypeInv

LEMMA NextArchType ==
    ASSUME TypeInv, NextArch
    PROVE  TypeInv'
<1>1. ai' = ai + 1 /\ ai' \in 1..Len(archs) /\ 1 \in 1..Len(PackageList(opts))
  BY Positions DEF NextArch
<1>2. env' \in EnvType
  <2>1. archs[ai + 1] \in Archs /\ env \in EnvType
    BY <1>1, Positions DEF TypeInv, ShellInv
  <2>. QED
    BY <2>1, EnvForType DEF NextArch
<1>3. TypeOK'
  BY <1>1, <1>2, EnvTyped DEF TypeInv, TypeOK, NextArch, user
<1>4. ShellInv'
  BY <1>2 DEF TypeInv, ShellInv, InFunction, NextArch
<1>. QED
  BY <1>3, <1>4 DEF TypeInv

(* All ways in which a run ends: the disk stays, but for files in place.   *)
Ends ==
    /\ \E how \in {"done", "died", "killed"} : Exit(how)
    /\ UNCHANGED <<marks, trees, delivered, stamp, ignored>>

LEMMA EndsWith ==
    ASSUME Die \/ Finish \/ Kill
    PROVE  Ends /\ (\E f : Fault(f) \/ NoFault)
<1>1. CASE Die
  BY <1>1 DEF Die, Fails, Ends, disk
<1>2. CASE Finish
  BY <1>2 DEF Finish, NoFault, Ends, disk
<1>3. CASE Kill
  BY <1>3 DEF Kill, Ends
<1>. QED
  BY <1>1, <1>2, <1>3

LEMMA TypeNext ==
    ASSUME WellFormed, TypeInv, [Next]_vars
    PROVE  TypeInv'
<1>1. ASSUME NEW o \in Options, NEW list \in ArchLists, StartRun(o, list)
      PROVE  TypeInv'
  BY <1>1, StartRunType
<1>2. CASE SourceScenario
  BY <1>2, SourceScenarioType
<1>3. CASE Inside
  BY <1>3, InsideType
<1>4. CASE NextFunction \/ NextPackage \/ NextArch
  BY <1>4, NextFunctionType, NextPackageType, NextArchType
<1>5. CASE Die \/ Finish \/ Kill
  BY <1>5, EndsWith, FaultType, ExitType DEF Ends
<1>6. CASE UNCHANGED vars
  BY <1>6, SamePlace DEF vars, disk, loops, user, TypeInv, TypeOK, ShellInv, InFunction
<1>. QED
  BY <1>1, <1>2, <1>3, <1>4, <1>5, <1>6 DEF Next, RunStep, Inside

(* Type correctness, for scenarios that define all six functions: whatever *)
(* they do to the environment, whatever fails or is killed.                *)
THEOREM TypeInvariant ==
    ASSUME WellFormed
    PROVE  Spec => []TypeInv
<1>1. TypeInv /\ [Next]_vars => TypeInv'
  BY TypeNext
<1>. QED
  BY <1>1, TypeInit, PTL DEF Spec

(* In particular the variables of Build have their types.                  *)
THEOREM TypeCorrect ==
    ASSUME WellFormed
    PROVE  Spec => []TypeOK
<1>1. TypeInv => TypeOK
  BY DEF TypeInv
<1>. QED
  BY <1>1, TypeInvariant, PTL

-----------------------------------------------------------------------------
(* PATH.                                                                   *)

(* A function begins with a path that is not saved, and a step saves it,   *)
(* restores it, or leaves it as it is.                                     *)
LEMMA OpenFirst ==
    ASSUME NEW s \in Seq(StepType)
    PROVE  ~Open(s, 1)
BY DEF Open

LEMMA OpenNext ==
    ASSUME NEW s \in Seq(StepType), NEW n \in DOMAIN s
    PROVE  Open(s, n + 1) <=>
               \/ s[n].effect \in Opening
               \/ Open(s, n) /\ s[n].effect # "restore_paths"
<1>1. n \in Nat /\ \A j \in DOMAIN s : j \in Nat
  OBVIOUS
<1>2. ASSUME s[n].effect \in Opening
      PROVE  Open(s, n + 1)
  <2>1. \A l \in DOMAIN s : ~(n < l /\ l < n + 1)
    BY <1>1
  <2>. QED
    BY <1>1, <1>2, <2>1 DEF Open
<1>3. ASSUME Open(s, n), s[n].effect # "restore_paths"
      PROVE  Open(s, n + 1)
  <2>1. PICK j \in DOMAIN s :
            /\ j < n /\ s[j].effect \in Opening
            /\ \A l \in DOMAIN s : j < l /\ l < n => s[l].effect # "restore_paths"
    BY <1>3 DEF Open
  <2>2. \A l \in DOMAIN s : l < n + 1 => l < n \/ l = n
    BY <1>1
  <2>3. j < n + 1
    BY <1>1, <2>1
  <2>. QED
    BY <1>3, <2>1, <2>2, <2>3 DEF Open
<1>4. ASSUME Open(s, n + 1), s[n].effect \notin Opening
      PROVE  Open(s, n) /\ s[n].effect # "restore_paths"
  <2>1. PICK j \in DOMAIN s :
            /\ j < n + 1 /\ s[j].effect \in Opening
            /\ \A l \in DOMAIN s : j < l /\ l < n + 1 => s[l].effect # "restore_paths"
    BY <1>4 DEF Open
  <2>2. j # n
    BY <1>4, <2>1
  <2>3. j < n
    BY <1>1, <2>1, <2>2
  <2>4. \A l \in DOMAIN s : l < n => l < n + 1
    BY <1>1
  <2>5. n < n + 1
    BY <1>1
  <2>. QED
    BY <2>1, <2>3, <2>4, <2>5 DEF Open
<1>. QED
  BY <1>2, <1>3, <1>4

LEMMA BalancedHere ==
    ASSUME WellFormed, Balanced, TypeInv, InFunction
    PROVE  /\ ~Open(Steps, Len(Steps) + 1)
           /\ i <= Len(Steps) =>
                /\ Step.effect \in Opening \/ Step.isolated => ~Open(Steps, i)
                /\ Step.effect = "restore_paths" => Open(Steps, i)
                /\ Open(Steps, i + 1) <=> \/ Step.effect \in Opening
                                          \/ Open(Steps, i) /\ Step.effect # "restore_paths"
<1>1. Steps = StepsOf(opts, arch, pi, fn) /\ Steps \in Seq(StepType) /\ Len(Steps) \in Nat
      /\ DOMAIN Steps = 1..Len(Steps)
  BY InFunctionSteps
<1>2. /\ ~Open(Steps, Len(Steps) + 1)
      /\ \A n \in DOMAIN Steps :
            /\ Steps[n].effect \in Opening \/ Steps[n].isolated => ~Open(Steps, n)
            /\ Steps[n].effect = "restore_paths" => Open(Steps, n)
  BY <1>1, Positions DEF Balanced
<1>3. i <= Len(Steps) => i \in DOMAIN Steps
  BY <1>1, Positions
<1>. QED
  BY <1>1, <1>2, <1>3, OpenNext DEF Step

LEMMA PathInside ==
    ASSUME WellFormed, Balanced, TypeInv, PathInv, Inside
    PROVE  PathInv'
<1>1. /\ UNCHANGED <<opts, archs, ai, pi, fn, funcs>>
      /\ InFunction /\ InFunction' /\ i <= Len(Steps)
  BY InsideLoops
<1>2. Steps' = Steps /\ (i' = i => Step' = Step) /\ FullPath' = FullPath
  BY <1>1, SamePlace DEF FullPath
<1>3. /\ Step.effect \in Opening \/ Step.isolated => ~Open(Steps, i)
      /\ Step.effect = "restore_paths" => Open(Steps, i)
      /\ Open(Steps, i + 1) <=> \/ Step.effect \in Opening
                                \/ Open(Steps, i) /\ Step.effect # "restore_paths"
  BY <1>1, BalancedHere
<1>4. env \in EnvType /\ pc # "idle"
  BY <1>1 DEF TypeInv, ShellInv, InFunction
<1>5. Saved' <=> Open(Steps, i') \/ (pc' = "busy" /\ Step'.isolated)
  BY <1>1, <1>2 DEF Saved
<1>6. Saved <=> Open(Steps, i) \/ (pc = "busy" /\ Step.isolated)
  BY <1>1 DEF Saved
<1>7. ChangePaths(env).old = env.path /\ RestorePaths(env).path = env.old
      /\ RestorePaths(env).old = <<>>
  BY <1>4 DEF ChangePaths, RestorePaths, EnvType
<1>8. CASE SetEnvironment
  <2>1. pc = "enter" /\ pc' = "enter" /\ i' = i + 1 /\ env' = EnvAfter(Step.effect)
        /\ Step.effect \in Effects \ {"none"}
    BY <1>1, <1>8, AtStep DEF SetEnvironment, Entered, StepType
  <2>2. CASE Step.effect \in Opening
    <3>1. env'.old = env.path
      BY <1>4, <1>7, <2>1, <2>2 DEF EnvAfter, Opening, HideQtDir, EnvType
    <3>. QED
      BY <1>2, <1>3, <1>4, <1>5, <1>6, <2>1, <2>2, <3>1 DEF PathInv
  <2>3. CASE Step.effect = "restore_paths"
    <3>1. env' = RestorePaths(env)
      BY <2>1, <2>3 DEF EnvAfter
    <3>. QED
      BY <1>2, <1>3, <1>4, <1>5, <1>6, <1>7, <2>1, <2>3, <3>1 DEF PathInv, Opening
  <2>4. CASE Step.effect \in {"PYTHONHOME", "unset QTDIR"}
    <3>1. env'.old = env.old /\ env'.path = env.path
      BY <1>4, <2>1, <2>4 DEF EnvAfter, EnvType
    <3>. QED
      BY <1>2, <1>3, <1>4, <1>5, <1>6, <2>1, <2>4, <3>1 DEF PathInv, Opening
  <2>. QED
    BY <2>1, <2>2, <2>3, <2>4 DEF Effects, Opening
<1>9. CASE Skip
  <2>1. pc = "enter" /\ pc' = "enter" /\ i' = i + 1 /\ env' = env /\ Step.effect = "none"
    BY <1>9 DEF Skip, Entered
  <2>. QED
    BY <1>2, <1>3, <1>4, <1>5, <1>6, <2>1 DEF PathInv, Opening
<1>10. CASE Begin
  <2>1. pc = "enter" /\ pc' = "busy" /\ i' = i
        /\ env' = IF Step.isolated THEN ChangePaths(env) ELSE env
    BY <1>10 DEF Begin, Entered
  <2>. QED
    BY <1>2, <1>3, <1>4, <1>5, <1>6, <1>7, <2>1 DEF PathInv
<1>11. CASE Succeed \/ GoOn
  <2>1. pc = "busy" /\ Step.effect = "none"
    BY <1>11 DEF Succeed, GoOn, TypeInv, ShellInv
  <2>2. /\ \/ pc' = "enter" /\ i' = i + 1
           \/ pc' = "touch" /\ i' = i
        /\ env' = IF Step.isolated THEN RestorePaths(env) ELSE env
    BY <1>11 DEF Succeed, GoOn, After
  <2>3. ~Saved' <=> ~Open(Steps, i)
    BY <1>3, <1>5, <2>1, <2>2 DEF Opening
  <2>. QED
    BY <1>2, <1>3, <1>4, <1>6, <1>7, <2>1, <2>2, <2>3 DEF PathInv
<1>12. CASE Touch
  <2>1. pc = "touch" /\ pc' = "enter" /\ i' = i + 1 /\ env' = env /\ Step.effect = "none"
    BY <1>12 DEF Touch, TypeInv, ShellInv
  <2>. QED
    BY <1>2, <1>3, <1>4, <1>5, <1>6, <2>1 DEF PathInv, Opening
<1>. QED
  BY <1>8, <1>9, <1>10, <1>11, <1>12 DEF Inside

(* When a function has returned, the path is restored.                     *)
LEMMA PathReturned ==
    ASSUME WellFormed, Balanced, TypeInv, PathInv, Returned
    PROVE  env.old = <<>> /\ env.path = FullPath
<1>1. InFunction /\ pc = "enter"
  BY DEF Returned, InFunction
<1>2. i = Len(Steps) + 1
  BY <1>1, InFunctionSteps, Positions DEF Returned, TypeInv, ShellInv
<1>. QED
  BY <1>1, <1>2, BalancedHere DEF PathInv, Saved

LEMMA PathNext ==
    ASSUME WellFormed, Balanced, TypeInv, TypeInv', PathInv, [Next]_vars
    PROVE  PathInv'
<1>1. ASSUME NEW o \in Options, NEW list \in ArchLists, StartRun(o, list)
      PROVE  PathInv'
  <2>1. pc' = "source" /\ ai' = 1 /\ archs' = list /\ env' = EnvFor(list[1], o, EnvStart)
    BY <1>1 DEF StartRun, TypeInv, ShellInv
  <2>2. list[1] \in Archs
    BY BuildAssumption, NonEmpty
  <2>3. env'.old = <<>> /\ env'.path = <<Own(list[1])>> \o <<>>
    BY <2>1, <2>2, EnvForStart
  <2>4. FullPath' = <<Own(list[1])>>
    BY <2>1 DEF FullPath
  <2>5. <<Own(list[1])>> \o <<>> = <<Own(list[1])>>
    OBVIOUS
  <2>. QED
    BY <2>1, <2>3, <2>4, <2>5 DEF PathInv, Saved, InFunction
<1>2. CASE SourceScenario
  <2>1. pc = "source" /\ pc' = "enter" /\ i' = 1 /\ UNCHANGED <<env, ai, archs>>
    BY <1>2 DEF SourceScenario, TypeInv, ShellInv
  <2>2. ~Open(Steps', i')
    BY <1>2, <2>1, SourceScenarioType, OpenFirst
  <2>. QED
    BY <2>1, <2>2 DEF PathInv, Saved, InFunction, FullPath
<1>3. CASE Inside
  BY <1>3, PathInside
<1>4. CASE NextFunction
  <2>1. pc' = "enter" /\ i' = 1 /\ UNCHANGED <<env, ai, archs>>
    BY <1>4 DEF NextFunction, Returned, loops
  <2>2. ~Open(Steps', i')
    BY <1>4, <2>1, NextFunctionType, OpenFirst
  <2>. QED
    BY <1>4, <2>1, <2>2, PathReturned DEF PathInv, Saved, InFunction, FullPath, NextFunction
<1>5. CASE NextPackage
  <2>1. pc' = "source" /\ UNCHANGED <<env, ai, archs>>
    BY <1>5 DEF NextPackage
  <2>. QED
    BY <1>5, <2>1, PathReturned
       DEF PathInv, Saved, InFunction, FullPath, NextPackage, PackageDone
<1>6. CASE NextArch
  <2>1. pc' = "source" /\ ai' = ai + 1 /\ archs' = archs
        /\ env' = EnvFor(archs[ai + 1], opts, env)
    BY <1>6 DEF NextArch
  <2>2. env.old = <<>> /\ env.path = FullPath /\ env \in EnvType
    BY <1>6, PathReturned DEF NextArch, ArchDone, PackageDone, TypeInv, ShellInv
  <2>3. archs[ai + 1] \in Archs
    BY <1>6, Positions DEF NextArch
  <2>4. env'.old = <<>> /\ env'.path = <<Own(archs[ai + 1])>> \o FullPath
    BY <2>1, <2>2, <2>3, EnvForType
  <2>5. FullPath' = <<Own(archs[ai + 1])>> \o FullPath
    <3>. DEFINE next == [k \in 1..(ai + 1) |-> Own(archs[ai + 2 - k])]
    <3>1. ai \in Nat \ {0}
      BY Positions
    <3>2. FullPath' = next
      BY <2>1, <3>1 DEF FullPath
    <3>3. FullPath \in Seq(Archs \X BOOLEAN)
      BY <2>2 DEF EnvType
    <3>4. Len(FullPath) = ai
      BY <3>1 DEF FullPath
    <3>5. Own(archs[ai + 1]) \in Archs \X BOOLEAN
      BY <2>3 DEF Own
    <3>6. /\ <<Own(archs[ai + 1])>> \o FullPath \in Seq(Archs \X BOOLEAN)
          /\ Len(<<Own(archs[ai + 1])>> \o FullPath) = 1 + ai
          /\ \A k \in 1..(1 + ai) : (<<Own(archs[ai + 1])>> \o FullPath)[k] =
                 IF k = 1 THEN Own(archs[ai + 1]) ELSE FullPath[k - 1]
      BY <3>3, <3>4, <3>5, Prepended
    <3>7. \A k \in 1..(ai + 1) : next[k] = (<<Own(archs[ai + 1])>> \o FullPath)[k]
      <4>1. ASSUME NEW k \in 2..(ai + 1)
            PROVE  FullPath[k - 1] = Own(archs[ai + 2 - k])
        <5>1. k - 1 \in 1..ai /\ ai + 1 - (k - 1) = ai + 2 - k
          BY <3>1
        <5>. QED
          BY <5>1 DEF FullPath
      <4>2. next[1] = Own(archs[ai + 1])
        BY <3>1
      <4>. QED
        BY <3>1, <3>6, <4>1, <4>2
    <3>. DEFINE joined == <<Own(archs[ai + 1])>> \o FullPath
    <3>8. joined = [k \in 1..(ai + 1) |-> joined[k]]
      <4>1. joined = [k \in 1..Len(joined) |-> joined[k]]
        BY <3>6, SeqIsFunction
      <4>2. Len(joined) = ai + 1
        BY <3>1, <3>6
      <4>. QED
        BY <4>1, <4>2
    <3>. HIDE DEF joined
    <3>9. \A k \in 1..(ai + 1) : next[k] = joined[k]
      BY <3>7 DEF joined
    <3>10. next = joined
      BY <3>8, <3>9
    <3>. QED
      BY <3>2, <3>10 DEF joined
  <2>. QED
    BY <2>1, <2>4, <2>5 DEF PathInv, Saved, InFunction
<1>7. CASE Die \/ Finish \/ Kill
  BY <1>7, EndsWith DEF Ends, Exit, PathInv
<1>8. CASE UNCHANGED vars
  BY <1>8, SamePlace
     DEF vars, loops, PathInv, Saved, InFunction, FullPath
<1>. QED
  BY <1>1, <1>2, <1>3, <1>4, <1>5, <1>6, <1>7, <1>8 DEF Next, RunStep, Inside

(* Scenarios whose functions save PATH at most once before they restore it *)
(* leave it as buildall has set it: also when they skip the commands in    *)
(* between, when commands fail without an error, and in every later run.   *)
THEOREM PathAlwaysRestored ==
    ASSUME WellFormed, Balanced
    PROVE  Spec => []PathRestored
<1>1. Init => PathInv
  BY DEF Init, PathInv
<1>2. PathInv /\ TypeInv /\ TypeInv' /\ [Next]_vars => PathInv'
  BY PathNext
<1>3. PathInv => PathRestored
  BY DEF PathInv, PathRestored, Saved, InFunction, FullPath
<1>. QED
  BY <1>1, <1>2, <1>3, TypeInvariant, PTL DEF Spec

-----------------------------------------------------------------------------
(* What comes before a place.                                              *)

LEMMA PlaceShape ==
    ASSUME WellFormed, NEW o \in Options, NEW a \in Archs, NEW p \in Places(o, a)
    PROVE  /\ p = <<p[1], p[2], p[3]>> /\ p[1] \in DOMAIN PackageList(o)
           /\ p[1] \in Nat \ {0} /\ p[2] \in 1..6 /\ p[3] \in Nat \ {0}
           /\ StepsOf(o, a, p[1], p[2]) \in Seq(StepType)
           /\ p[3] <= Len(StepsOf(o, a, p[1], p[2]))
<1>1. PICK k \in DOMAIN PackageList(o), f \in 1..6 :
          \E n \in DOMAIN StepsOf(o, a, k, f) : p = <<k, f, n>>
  BY PlaceOut
<1>2. StepsOf(o, a, k, f) \in Seq(StepType)
  BY DEF WellFormed
<1>3. PICK n \in 1..Len(StepsOf(o, a, k, f)) : p = <<k, f, n>>
  BY <1>1, <1>2
<1>4. Len(StepsOf(o, a, k, f)) \in Nat /\ n \in Nat \ {0} /\ n <= Len(StepsOf(o, a, k, f))
  BY <1>2
<1>5. PackageList(o) \in Seq(STRING)
  BY BuildAssumption
<1>6. k \in Nat \ {0}
  BY <1>5
<1>. QED
  BY <1>2, <1>3, <1>4, <1>6

LEMMA BeforeFirst ==
    ASSUME WellFormed, NEW o \in Options, NEW a \in Archs
    PROVE  Before(o, a, <<1, 1, 1>>) = {}
<1>1. \A r \in Places(o, a) : ~Earlier(r, <<1, 1, 1>>)
  BY PlaceShape DEF Earlier
<1>. QED
  BY <1>1 DEF Before

LEMMA BeforeNext ==
    ASSUME WellFormed, NEW o \in Options, NEW a \in Archs,
           NEW k, NEW f, NEW n, <<k, f, n>> \in Places(o, a)
    PROVE  Before(o, a, <<k, f, n + 1>>)
               = Before(o, a, <<k, f, n>>) \union {Entry(o, a, <<k, f, n>>)}
<1>1. k \in Nat /\ f \in Nat /\ n \in Nat
  BY PlaceShape
<1>2. ASSUME NEW r \in Places(o, a)
      PROVE  Earlier(r, <<k, f, n + 1>>) <=> Earlier(r, <<k, f, n>>) \/ r = <<k, f, n>>
  <2>1. /\ r = <<r[1], r[2], r[3]>>
        /\ r[1] \in Nat /\ r[2] \in Nat /\ r[3] \in Nat
    BY PlaceShape
  <2>2. r = <<k, f, n>> <=> r[1] = k /\ r[2] = f /\ r[3] = n
    BY <2>1
  <2>3. r[3] < n + 1 <=> r[3] < n \/ r[3] = n
    BY <1>1, <2>1
  <2>. QED
    BY <1>1, <2>1, <2>2, <2>3 DEF Earlier
<1>3. {r \in Places(o, a) : Earlier(r, <<k, f, n + 1>>)}
          = {r \in Places(o, a) : Earlier(r, <<k, f, n>>)} \union {<<k, f, n>>}
  BY <1>2
<1>. QED
  BY <1>3 DEF Before

LEMMA BeforeFunction ==
    ASSUME WellFormed, NEW o \in Options, NEW a \in Archs,
           NEW k \in DOMAIN PackageList(o), NEW f \in 1..5, NEW n \in Nat,
           Len(StepsOf(o, a, k, f)) < n
    PROVE  Before(o, a, <<k, f + 1, 1>>) = Before(o, a, <<k, f, n>>)
<1>1. ASSUME NEW r \in Places(o, a)
      PROVE  Earlier(r, <<k, f + 1, 1>>) <=> Earlier(r, <<k, f, n>>)
  <2>1. /\ r[1] \in Nat /\ r[2] \in Nat /\ r[3] \in Nat \ {0}
        /\ r[3] <= Len(StepsOf(o, a, r[1], r[2]))
        /\ StepsOf(o, a, r[1], r[2]) \in Seq(StepType)
    BY PlaceShape
  <2>2. r[1] = k /\ r[2] = f => r[3] < n
    BY <2>1
  <2>3. ~(r[3] < 1) /\ (r[2] < f + 1 <=> r[2] < f \/ r[2] = f)
    BY <2>1
  <2>. QED
    BY <2>2, <2>3 DEF Earlier
<1>2. {r \in Places(o, a) : Earlier(r, <<k, f + 1, 1>>)}
          = {r \in Places(o, a) : Earlier(r, <<k, f, n>>)}
  BY <1>1
<1>. QED
  BY <1>2 DEF Before

LEMMA BeforePackage ==
    ASSUME WellFormed, NEW o \in Options, NEW a \in Archs,
           NEW k \in DOMAIN PackageList(o), NEW n \in Nat,
           Len(StepsOf(o, a, k, 6)) < n
    PROVE  Before(o, a, <<k + 1, 1, 1>>) = Before(o, a, <<k, 6, n>>)
<1>0. k \in Nat
  <2>1. PackageList(o) \in Seq(STRING)
    BY BuildAssumption
  <2>. QED
    BY <2>1
<1>1. ASSUME NEW r \in Places(o, a)
      PROVE  Earlier(r, <<k + 1, 1, 1>>) <=> Earlier(r, <<k, 6, n>>)
  <2>1. /\ r[1] \in Nat /\ r[2] \in 1..6 /\ r[3] \in Nat \ {0}
        /\ r[3] <= Len(StepsOf(o, a, r[1], r[2]))
        /\ StepsOf(o, a, r[1], r[2]) \in Seq(StepType)
    BY PlaceShape
  <2>2. r[1] = k /\ r[2] = 6 => r[3] < n
    BY <2>1
  <2>3. /\ ~(r[3] < 1) /\ ~(r[2] < 1) /\ (r[2] < 6 \/ r[2] = 6)
        /\ (r[1] < k + 1 <=> r[1] < k \/ r[1] = k)
    BY <1>0, <2>1
  <2>. QED
    BY <2>2, <2>3 DEF Earlier
<1>2. {r \in Places(o, a) : Earlier(r, <<k + 1, 1, 1>>)}
          = {r \in Places(o, a) : Earlier(r, <<k, 6, n>>)}
  BY <1>1
<1>. QED
  BY <1>2 DEF Before

(* The actions only ever add the current step to what the run has come     *)
(* past, and a run and an architecture begin with nothing.                 *)
LEMMA PastStart ==
    ASSUME WellFormed, TypeInv, pi = 1, fn = 1, i = 1
    PROVE  Past = {}
BY BeforeFirst, Positions DEF Past, Place

LEMMA PastInside ==
    ASSUME WellFormed, TypeInv, Inside
    PROVE  /\ Current' = Current \/ i' = i + 1
           /\ i' = i => Past' = Past /\ Current' = Current
           /\ i' = i + 1 => Past' = Past \union {Current}
<1>1. /\ UNCHANGED <<opts, archs, ai, pi, fn, funcs>>
      /\ InFunction /\ i <= Len(Steps) /\ (i' = i \/ i' = i + 1)
  BY InsideLoops
<1>2. arch' = arch /\ (i' = i => Place' = Place) /\ (i' = i + 1 => Place' = <<pi, fn, i + 1>>)
  BY <1>1 DEF arch, Place
<1>3. i' = i => Past' = Past /\ Current' = Current
  BY <1>1, <1>2 DEF Past, Current
<1>4. <<pi, fn, i>> \in Places(opts, arch)
  BY <1>1, AtStep DEF Place
<1>5. i' = i + 1 => Past' = Past \union {Current}
  BY <1>1, <1>2, <1>4, BeforeNext, Positions DEF Past, Current, Place
<1>. QED
  BY <1>1, <1>3, <1>5

LEMMA PastLoops ==
    ASSUME WellFormed, TypeInv, SourceScenario \/ NextFunction \/ NextPackage
    PROVE  Past' = Past
<1>1. arch' = arch /\ opts' = opts
  BY DEF SourceScenario, NextFunction, NextPackage, arch, loops
<1>2. CASE SourceScenario
  BY <1>1, <1>2 DEF SourceScenario, Past, Place
<1>3. Returned => Len(StepsOf(opts, arch, pi, fn)) < i
  BY InFunctionSteps, Positions DEF Returned, InFunction
<1>0. opts \in Options /\ arch \in Archs /\ pi \in DOMAIN PackageList(opts) /\ i \in Nat
  BY Positions
<1>4. CASE NextFunction
  <2>1. fn \in 1..5 /\ Place' = <<pi, fn + 1, 1>> /\ Returned
    BY <1>4, Positions DEF NextFunction, Place, loops
  <2>2. Before(opts, arch, <<pi, fn + 1, 1>>) = Before(opts, arch, <<pi, fn, i>>)
    <3>1. fn \in 1..5 /\ Len(StepsOf(opts, arch, pi, fn)) < i
      BY <1>3, <2>1
    <3>. QED
      BY <1>0, <3>1, BeforeFunction
  <2>. QED
    BY <1>1, <2>1, <2>2 DEF Past, Place
<1>5. CASE NextPackage
  <2>1. fn = 6 /\ Place' = <<pi + 1, 1, 1>> /\ Returned
    BY <1>5 DEF NextPackage, PackageDone, Place
  <2>2. Before(opts, arch, <<pi + 1, 1, 1>>) = Before(opts, arch, <<pi, fn, i>>)
    <3>1. Len(StepsOf(opts, arch, pi, 6)) < i
      BY <1>3, <2>1
    <3>2. Before(opts, arch, <<pi + 1, 1, 1>>) = Before(opts, arch, <<pi, 6, i>>)
      BY <1>0, <3>1, BeforePackage
    <3>. QED
      BY <2>1, <3>2
  <2>. QED
    BY <1>1, <2>1, <2>2 DEF Past, Place
<1>. QED
  BY <1>2, <1>4, <1>5

LEMMA PastRestart ==
    ASSUME WellFormed, TypeInv, TypeInv',
           \/ \E o \in Options, list \in ArchLists : StartRun(o, list)
           \/ NextArch \/ Die \/ Finish \/ Kill
    PROVE  Past' = {}
<1>1. pi' = 1 /\ fn' = 1 /\ i' = 1
  BY EndsWith DEF StartRun, NextArch, Ends, Exit, TypeInv, ShellInv
<1>2. opts' \in Options /\ arch' \in Archs
  <2>1. archs' \in Seq(Archs) /\ ai' \in 1..Len(archs') /\ opts' \in Options
    BY BuildAssumption DEF TypeInv, TypeOK
  <2>. QED
    BY <2>1 DEF arch
<1>. QED
  BY <1>1, <1>2, BeforeFirst DEF Past, Place

-----------------------------------------------------------------------------
(* QTDIR and PYTHONHOME.                                                   *)

LEMMA VariablesInside ==
    ASSUME WellFormed, TypeInv, Inside, VariablesInv
    PROVE  VariablesInv'
<1>1. /\ UNCHANGED <<opts, archs, ai, pi, fn, funcs>>
      /\ InFunction /\ i <= Len(Steps) /\ arch' = arch
  BY InsideLoops DEF arch
<1>2. /\ Current.step = Step /\ Step.effect \in Effects
  BY <1>1, AtStep DEF StepType
<1>3. env \in EnvType /\ pc # "idle"
  BY <1>1 DEF TypeInv, ShellInv, InFunction
<1>4. /\ (\A e \in Past : e.step.effect # "unset QTDIR") => env.qtdir = arch
      /\ opts.python = "toolchain" \/ (\E e \in Past : e.step.effect = "PYTHONHOME") =>
            env.python = arch
  BY <1>3 DEF VariablesInv
<1>5. CASE SetEnvironment
  <2>1. Past' = Past \union {Current} /\ env' = EnvAfter(Step.effect) /\ Step.effect # "none"
    BY <1>5, PastInside DEF SetEnvironment
  <2>2. CASE Step.effect = "unset QTDIR"
    <3>1. env'.python = env.python
      BY <1>3, <2>1, <2>2 DEF EnvAfter, EnvType
    <3>. QED
      BY <1>1, <1>2, <1>4, <2>1, <2>2, <3>1 DEF VariablesInv
  <2>3. CASE Step.effect = "PYTHONHOME"
    <3>1. env'.python = arch /\ env'.qtdir = env.qtdir
      BY <1>3, <2>1, <2>3 DEF EnvAfter, EnvType
    <3>. QED
      BY <1>1, <1>2, <1>4, <2>1, <2>3, <3>1 DEF VariablesInv
  <2>4. CASE Step.effect \in {"change_paths", "restore_paths", "hideQtDir"}
    <3>1. env'.python = env.python /\ env'.qtdir = env.qtdir
      BY <1>3, <2>1, <2>4 DEF EnvAfter, ChangePaths, RestorePaths, HideQtDir, EnvType
    <3>. QED
      BY <1>1, <1>2, <1>4, <2>1, <2>4, <3>1 DEF VariablesInv
  <2>. QED
    BY <1>2, <2>1, <2>2, <2>3, <2>4 DEF Effects
<1>6. CASE Skip \/ Begin \/ Succeed \/ GoOn \/ Touch
  <2>1. Step.effect = "none"
    BY <1>6 DEF Skip, Begin, Succeed, GoOn, Touch, TypeInv, ShellInv
  <2>2. env'.python = env.python /\ env'.qtdir = env.qtdir
    <3>1. env' \in {env, ChangePaths(env), RestorePaths(env)}
      BY <1>6 DEF Skip, Begin, Succeed, GoOn, Touch, After
    <3>. QED
      BY <1>3, <3>1 DEF ChangePaths, RestorePaths, EnvType
  <2>3. Past' = Past \/ Past' = Past \union {Current}
    BY PastInside, InsideLoops
  <2>. QED
    BY <1>1, <1>2, <1>4, <2>1, <2>2, <2>3 DEF VariablesInv
<1>. QED
  BY <1>5, <1>6 DEF Inside

LEMMA VariablesNext ==
    ASSUME WellFormed, TypeInv, TypeInv', VariablesInv, [Next]_vars
    PROVE  VariablesInv'
<1>1. ASSUME NEW o \in Options, NEW list \in ArchLists, StartRun(o, list)
      PROVE  VariablesInv'
  <2>1. arch' = list[1] /\ opts' = o /\ env' = EnvFor(list[1], o, EnvStart)
    BY <1>1 DEF StartRun, TypeInv, ShellInv, arch
  <2>2. list[1] \in Archs
    BY BuildAssumption, NonEmpty
  <2>3. env'.qtdir = arch' /\ (o.python = "toolchain" => env'.python = arch')
    BY <2>1, <2>2, EnvForStart
  <2>4. Past' = {}
    BY <1>1, PastRestart
  <2>. QED
    BY <2>1, <2>3, <2>4 DEF VariablesInv
<1>2. CASE SourceScenario \/ NextFunction \/ NextPackage
  <2>1. Past' = Past /\ arch' = arch /\ opts' = opts /\ env' = env /\ pc # "idle"
    BY <1>2, PastLoops
       DEF SourceScenario, NextFunction, NextPackage, PackageDone, Returned, arch, loops
  <2>. QED
    BY <2>1 DEF VariablesInv
<1>3. CASE Inside
  BY <1>3, VariablesInside
<1>4. CASE NextArch
  <2>1. arch' = archs[ai + 1] /\ opts' = opts /\ env' = EnvFor(archs[ai + 1], opts, env)
        /\ env \in EnvType
    BY <1>4 DEF NextArch, arch, TypeInv, ShellInv
  <2>2. archs[ai + 1] \in Archs
    BY <1>4, Positions DEF NextArch
  <2>3. env'.qtdir = arch' /\ (opts.python = "toolchain" => env'.python = arch')
    <3>1. ASSUME NEW a \in Archs
          PROVE  /\ EnvFor(a, opts, env).qtdir = a
                 /\ opts.python = "toolchain" => EnvFor(a, opts, env).python = a
      <4>1. env \in EnvType
        BY <2>1
      <4>2. EnvFor(a, opts, env).qtdir = a
        BY <4>1 DEF EnvFor, EnvType
      <4>3. EnvFor(a, opts, env).python = IF opts.python = "toolchain" THEN a ELSE env.python
        BY <4>1 DEF EnvFor, EnvType
      <4>. QED
        BY <4>2, <4>3
    <3>. QED
      BY <2>1, <2>2, <3>1
  <2>4. Past' = {}
    BY <1>4, PastRestart
  <2>. QED
    BY <2>1, <2>3, <2>4 DEF VariablesInv
<1>5. CASE Die \/ Finish \/ Kill
  BY <1>5, EndsWith DEF Ends, Exit, VariablesInv
<1>6. CASE UNCHANGED vars
  BY <1>6 DEF vars, loops, VariablesInv, Past, Place, arch
<1>. QED
  BY <1>1, <1>2, <1>3, <1>4, <1>5, <1>6 DEF Next, RunStep, Inside

(* Where a step reads QTDIR, and where Qt is built with a python, the      *)
(* variables are those of this architecture, in every run, if no scenario  *)
(* before unsets the one and python2, if it is built, comes before Qt.     *)
THEOREM EnvironmentIsOwn ==
    ASSUME WellFormed, QtDirIsKept, PythonIsSet
    PROVE  Spec => []EnvIsOwn
<1>1. Init => VariablesInv
  BY DEF Init, VariablesInv
<1>2. VariablesInv /\ TypeInv /\ TypeInv' /\ [Next]_vars => VariablesInv'
  BY VariablesNext
<1>3. VariablesInv /\ TypeInv => EnvIsOwn
  <2>. SUFFICES ASSUME VariablesInv, TypeInv, pc = "busy"
                PROVE  /\ sub = "qt" /\ opts.python # "msys" => env.python = arch
                       /\ Step.qtdir => env.qtdir = arch
    BY DEF EnvIsOwn
  <2>1. InFunction /\ i <= Len(Steps)
    BY DEF InFunction, TypeInv, ShellInv
  <2>2. Place \in Places(opts, arch) /\ Current.step = Step
    BY <2>1, AtStep
  <2>3. Step.qtdir => \A e \in Past : e.step.effect # "unset QTDIR"
    BY <2>2, Positions DEF QtDirIsKept, Past, Current
  <2>4. ASSUME sub = "qt", opts.python \notin {"msys", "toolchain"}
        PROVE  \E e \in Past : e.step.effect = "PYTHONHOME"
    <3>1. PICK e \in Before(opts, arch, <<pi, 1, 1>>) : e.step.effect = "PYTHONHOME"
      BY <2>4, Positions DEF PythonIsSet, sub
    <3>2. \A r \in Places(opts, arch) : Earlier(r, <<pi, 1, 1>>) => Earlier(r, Place)
      <4>1. ASSUME NEW r \in Places(opts, arch), Earlier(r, <<pi, 1, 1>>)
            PROVE  r[1] < pi
        <5>1. r[2] \in 1..6 /\ r[3] \in Nat \ {0}
          BY PlaceShape, Positions
        <5>2. ~(r[2] < 1) /\ ~(r[3] < 1)
          BY <5>1
        <5>. QED
          BY <4>1, <5>2 DEF Earlier
      <4>. QED
        BY <4>1 DEF Earlier, Place
    <3>. QED
      BY <3>1, <3>2 DEF Past, Before
  <2>. QED
    BY <2>3, <2>4 DEF VariablesInv
<1>. QED
  BY <1>1, <1>2, <1>3, TypeInvariant, PTL DEF Spec

-----------------------------------------------------------------------------
(* Markers.                                                                *)

(* Only two actions make a marker, that of the current step.               *)
LEMMA MarkedBy ==
    ASSUME WellFormed, TypeInv, [Next]_vars
    PROVE  \/ marks' = marks
           \/ /\ Mark /\ Step.mark # <<>> /\ InFunction /\ i <= Len(Steps)
              /\ Touch \/ (Begin /\ Step.early)
<1>1. CASE Begin
  <2>1. InFunction /\ i <= Len(Steps)
    BY <1>1 DEF Begin, Entered, InFunction
  <2>2. Step.early => Step.mark # <<>>
    BY <2>1, StepShape
  <2>. QED
    BY <1>1, <2>1, <2>2 DEF Begin
<1>2. CASE Touch
  BY <1>2 DEF Touch, TypeInv, ShellInv, InFunction
<1>3. CASE UNCHANGED marks
  BY <1>3
<1>. QED
  BY <1>1, <1>2, <1>3, EndsWith
     DEF Next, RunStep, StartRun, SourceScenario, SetEnvironment, Skip, Succeed, GoOn,
         NextFunction, NextPackage, NextArch, Ends, vars, disk

LEMMA OwnNext ==
    ASSUME WellFormed, OwnMarkers, TypeInv, OwnInv, [Next]_vars
    PROVE  OwnInv'
<1>1. CASE marks' = marks
  BY <1>1 DEF OwnInv
<1>2. ASSUME Mark, Step.mark # <<>>, InFunction, i <= Len(Steps)
      PROVE  OwnInv'
  <2>1. /\ DOMAIN marks' = {Step.mark} \union DOMAIN marks
        /\ marks'[Step.mark] = Here
        /\ \A m \in DOMAIN marks \ {Step.mark} : marks'[m] = marks[m]
    BY <1>2 DEF Mark, Recorded
  <2>2. /\ Current \in Entries /\ Current.package = sub /\ Current.fn = fn
        /\ Current.at = i /\ Current.step = Step
    BY <1>2, AtStep
  <2>3. ASSUME NEW e \in Entries, e.step.mark = Step.mark
        PROVE  <<e.package, Functions[e.fn], e.at>> = Here
    BY <1>2, <2>2, <2>3 DEF OwnMarkers, Here
  <2>. QED
    BY <1>2, <2>1, <2>3 DEF OwnInv
<1>. QED
  BY <1>1, <1>2, MarkedBy

LEMMA OwnInvariant ==
    ASSUME WellFormed, OwnMarkers
    PROVE  Spec => []OwnInv
<1>1. Init => OwnInv
  BY DEF Init, OwnInv
<1>2. OwnInv /\ TypeInv /\ [Next]_vars => OwnInv'
  BY OwnNext
<1>. QED
  BY <1>1, <1>2, TypeInvariant, PTL DEF Spec

(* If steps that share a marker under any options are the same step, then  *)
(* what is skipped was done by that very step: whatever other runs, with   *)
(* other options and for other architectures, have left on the disk.       *)
THEOREM OwnWorkIsSkipped ==
    ASSUME WellFormed, OwnMarkers
    PROVE  Spec => []SkipsOwnWork
<1>1. OwnInv /\ TypeInv => SkipsOwnWork
  <2>. SUFFICES ASSUME OwnInv, TypeInv, Entered, Skippable
                PROVE  marks[Step.mark] = Here
    BY DEF SkipsOwnWork
  <2>1. /\ Current \in Entries /\ Current.package = sub /\ Current.fn = fn
        /\ Current.at = i /\ Current.step = Step
    BY AtStep DEF Entered, InFunction
  <2>. QED
    BY <2>1 DEF OwnInv, Skippable, Here
<1>. QED
  BY <1>1, TypeInvariant, OwnInvariant, PTL

-----------------------------------------------------------------------------
(* qmake.conf.                                                             *)

LEMMA StampInside ==
    ASSUME WellFormed, TypeInv, OwnInv, Inside, StampInv
    PROVE  StampInv'
<1>1. /\ UNCHANGED <<opts, archs, ai, pi, fn, funcs>>
      /\ InFunction /\ i <= Len(Steps) /\ arch' = arch
  BY InsideLoops DEF arch
<1>2. Current.step = Step /\ Current \in Entries
  BY <1>1, AtStep
<1>3. /\ i' = i => Past' = Past
      /\ i' = i + 1 => Past' = Past \union {Current}
  BY PastInside
<1>4. CASE SetEnvironment
  <2>1. Step.stamps = {}
    BY <1>1, <1>4, StepShape DEF SetEnvironment
  <2>. QED
    BY <1>1, <1>2, <1>3, <1>4, <2>1 DEF SetEnvironment, disk, StampInv
<1>5. CASE Skip \/ Touch
  <2>1. Step.mark # <<>>
    BY <1>5 DEF Skip, Skippable, Touch, OwnInv, TypeInv, ShellInv
  <2>2. stamp' = stamp /\ ignored' = ignored /\ Past' = Past \union {Current}
    BY <1>3, <1>5 DEF Skip, Touch, disk
  <2>. QED
    BY <1>1, <1>2, <2>1, <2>2 DEF StampInv
<1>6. CASE Begin
  BY <1>1, <1>3, <1>6 DEF Begin, StampInv
<1>7. CASE Succeed
  <2>1. /\ DOMAIN stamp' = Step.stamps \union DOMAIN stamp
        /\ \A c \in Step.stamps : stamp'[c] = <<arch, opts.static>>
        /\ \A c \in DOMAIN stamp \ Step.stamps : stamp'[c] = stamp[c]
    BY <1>7 DEF Succeed, Recorded
  <2>2. ignored' = ignored
    BY <1>7 DEF Succeed
  <2>3. Past' = Past \/ Past' = Past \union {Current}
    BY <1>3, InsideLoops
  <2>. QED
    BY <1>1, <1>2, <2>1, <2>2, <2>3 DEF StampInv
<1>8. CASE GoOn
  BY <1>8 DEF GoOn, StampInv
<1>. QED
  BY <1>4, <1>5, <1>6, <1>7, <1>8 DEF Inside

LEMMA StampNext ==
    ASSUME WellFormed, TypeInv, TypeInv', OwnInv, StampInv, [Next]_vars
    PROVE  StampInv'
<1>1. CASE Inside
  BY <1>1, StampInside
<1>2. CASE SourceScenario \/ NextFunction \/ NextPackage
  <2>1. Past' = Past /\ arch' = arch /\ opts' = opts /\ UNCHANGED <<stamp, ignored>>
    BY <1>2, PastLoops DEF SourceScenario, NextFunction, NextPackage, arch, loops, disk
  <2>. QED
    BY <2>1 DEF StampInv
<1>3. CASE \/ \E o \in Options, list \in ArchLists : StartRun(o, list)
           \/ NextArch \/ Die \/ Finish \/ Kill
  BY <1>3, PastRestart DEF StampInv
<1>4. CASE UNCHANGED vars
  BY <1>4 DEF vars, loops, disk, StampInv, Past, Place, arch
<1>. QED
  BY <1>1, <1>2, <1>3, <1>4 DEF Next, RunStep, Inside

(* If a step that is never skipped rewrites what a later one reads, then   *)
(* Qt is built by the qmake.conf of its target, whichever target has used  *)
(* the file last, unless the rewriting has failed, which nothing tests.    *)
THEOREM ConfsAreOwn ==
    ASSUME WellFormed, OwnMarkers, ConfIsRewritten
    PROVE  Spec => []ConfIsOwn
<1>1. Init => StampInv
  <2>. SUFFICES ASSUME Init PROVE StampInv
    OBVIOUS
  <2>1. Past = {}
    BY TypeInit, PastStart DEF Init
  <2>. QED
    BY <2>1 DEF StampInv
<1>2. StampInv /\ OwnInv /\ TypeInv /\ TypeInv' /\ [Next]_vars => StampInv'
  BY StampNext
<1>3. StampInv /\ TypeInv => ConfIsOwn
  <2>. SUFFICES ASSUME StampInv, TypeInv, pc = "busy", ignored = {}, NEW c \in Step.reads
                PROVE  c \in DOMAIN stamp /\ stamp[c] = <<arch, opts.static>>
    BY DEF ConfIsOwn
  <2>1. Place \in Places(opts, arch) /\ Current.step = Step
    BY AtStep DEF InFunction, TypeInv, ShellInv
  <2>2. \E e \in Past : e.step.mark = <<>> /\ c \in e.step.stamps
    BY <2>1, Positions DEF ConfIsRewritten, Past, Current
  <2>. QED
    BY <2>2 DEF StampInv
<1>. QED
  BY <1>1, <1>2, <1>3, TypeInvariant, OwnInvariant, PTL DEF Spec

-----------------------------------------------------------------------------
(* What is finished.                                                       *)

SameWork(d, e) ==
    d.package = e.package /\ d.step.gives = e.step.gives /\ d.step.makes = e.step.makes
Nothing(e) == e.step.gives = {} /\ e.step.makes = {}

(* What a step of the run adds: an entry that does the same as one that is *)
(* finished already, one that does nothing, or the current one, whose      *)
(* command has just returned.                                              *)
Explained(e) ==
    \/ \E d \in Finished : SameWork(d, e)
    \/ Nothing(e)
    \/ (Succeed \/ GoOn) /\ e = Current

LEMMA NewlyMarked ==
    ASSUME WellFormed, OwnMarkers, TypeInv, [Next]_vars,
           NEW e \in Entries, e.step.mark \in DOMAIN marks'
    PROVE  Explained(e)
<1>1. CASE e.step.mark \in DOMAIN marks
  BY <1>1 DEF Explained, Finished, SameWork
<1>2. CASE e.step.mark \notin DOMAIN marks
  <2>1. /\ Mark /\ Step.mark # <<>> /\ InFunction /\ i <= Len(Steps)
        /\ Touch \/ (Begin /\ Step.early)
    BY <1>2, MarkedBy
  <2>2. e.step.mark = Step.mark
    BY <1>2, <2>1 DEF Mark, Recorded
  <2>3. Current \in Entries /\ Current.step = Step
    BY <2>1, AtStep
  <2>4. SameWork(Current, e)
    BY <2>1, <2>2, <2>3 DEF OwnMarkers, SameWork
  <2>5. CASE Touch
    <3>1. Current \in Finished
      BY <2>5 DEF Touch, Finished
    <3>. QED
      BY <2>4, <3>1 DEF Explained
  <2>6. CASE Begin /\ Step.early
    <3>1. Nothing(e)
      BY <2>1, <2>3, <2>4, <2>6, StepShape DEF Nothing, SameWork
    <3>. QED
      BY <3>1 DEF Explained
  <2>. QED
    BY <2>1, <2>5, <2>6
<1>. QED
  BY <1>1, <1>2

LEMMA CurrentFinished ==
    ASSUME WellFormed, TypeInv, Inside, i' = i + 1 \/ pc' = "touch"
    PROVE  Explained(Current)
<1>1. InFunction /\ i <= Len(Steps)
  BY InsideLoops
<1>2. Current \in Entries /\ Current.step = Step /\ i \in Nat
  BY <1>1, AtStep, Positions
<1>3. CASE SetEnvironment
  BY <1>1, <1>2, <1>3, StepShape DEF SetEnvironment, Explained, Nothing
<1>4. CASE Skip
  <2>1. Current \in Finished
    BY <1>2, <1>4 DEF Skip, Skippable, Finished
  <2>. QED
    BY <2>1 DEF Explained, SameWork
<1>5. CASE Begin
  <2>1. i' = i /\ pc' = "busy"
    BY <1>5 DEF Begin
  <2>. QED
    BY <1>2, <2>1
<1>6. CASE Touch
  <2>1. Current \in Finished
    BY <1>6 DEF Touch, Finished
  <2>. QED
    BY <2>1 DEF Explained, SameWork
<1>7. CASE Succeed \/ GoOn
  BY <1>7 DEF Explained
<1>. QED
  BY <1>3, <1>4, <1>5, <1>6, <1>7 DEF Inside

LEMMA FinishedNext ==
    ASSUME WellFormed, OwnMarkers, TypeInv, TypeInv', [Next]_vars, NEW e \in Finished'
    PROVE  Explained(e)
<1>1. CASE e \in Entries /\ e.step.mark \in DOMAIN marks'
  BY <1>1, NewlyMarked
<1>2. CASE e \in Past
  BY <1>2 DEF Explained, Finished, SameWork
<1>3. CASE e \in Past' /\ e \notin Past
  <2>1. CASE Inside
    <3>1. e = Current /\ i' = i + 1
      BY <1>3, <2>1, PastInside, InsideLoops
    <3>. QED
      BY <2>1, <3>1, CurrentFinished
  <2>2. CASE SourceScenario \/ NextFunction \/ NextPackage
    BY <1>3, <2>2, PastLoops
  <2>3. CASE \/ \E o \in Options, list \in ArchLists : StartRun(o, list)
             \/ NextArch \/ Die \/ Finish \/ Kill
    BY <1>3, <2>3, PastRestart
  <2>4. CASE UNCHANGED vars
    BY <1>3, <2>4 DEF vars, loops, Past, Place, arch
  <2>. QED
    BY <2>1, <2>2, <2>3, <2>4 DEF Next, RunStep, Inside
<1>4. CASE pc' = "touch" /\ e = Current'
  <2>1. CASE Inside
    <3>1. Current' = Current
      BY <1>4, <2>1, InsideLoops, PastInside
    <3>. QED
      BY <1>4, <2>1, <3>1, CurrentFinished
  <2>2. CASE UNCHANGED vars
    <3>1. Current' = Current /\ pc = "touch"
      BY <1>4, <2>2 DEF vars, loops, Current, Place, arch
    <3>. QED
      BY <1>4, <3>1 DEF Explained, Finished, SameWork
  <2>3. pc' # "touch" \/ Inside \/ UNCHANGED vars
    BY EndsWith
       DEF Next, RunStep, Inside, StartRun, SourceScenario, NextFunction, NextPackage,
           NextArch, PackageDone, Returned, Ends, Exit
  <2>. QED
    BY <1>4, <2>1, <2>2, <2>3
<1>. QED
  BY <1>1, <1>2, <1>3, <1>4 DEF Finished

(* At first nothing is.                                                    *)
LEMMA FinishedInit ==
    ASSUME WellFormed, Init
    PROVE  Finished = {}
<1>1. Past = {}
  BY TypeInit, PastStart DEF Init
<1>2. DOMAIN marks = {}
  BY DEF Init
<1>. QED
  BY <1>1, <1>2 DEF Finished, Init

-----------------------------------------------------------------------------
(* Installations.                                                          *)

LEMMA DiskGrows ==
    ASSUME [Next]_vars
    PROVE  trees \subseteq trees' /\ delivered \subseteq delivered'
BY EndsWith
   DEF Next, RunStep, StartRun, SourceScenario, SetEnvironment, Skip, Begin, Succeed, GoOn,
       Touch, NextFunction, NextPackage, NextArch, Ends, vars, disk

LEMMA GivenNext ==
    ASSUME WellFormed, OwnMarkers, InstallsDie, TypeInv, TypeInv', GivenInv, [Next]_vars
    PROVE  GivenInv'
<1>. SUFFICES ASSUME NEW e \in Finished', NEW d \in e.step.gives
              PROVE  <<d, e.package>> \in delivered'
  BY DEF GivenInv
<1>1. Explained(e)
  BY FinishedNext
<1>2. ASSUME NEW f \in Finished, SameWork(f, e)
      PROVE  <<d, e.package>> \in delivered'
  BY <1>2, DiskGrows DEF GivenInv, SameWork
<1>3. ASSUME Succeed \/ GoOn, e = Current
      PROVE  <<d, e.package>> \in delivered'
  <2>1. InFunction /\ i <= Len(Steps)
    BY <1>3, InsideLoops DEF Inside
  <2>2. Current \in Entries /\ Current.step = Step /\ Current.package = sub
    BY <2>1, AtStep
  <2>3. Step.fails = {"die"}
    BY <1>3, <2>2 DEF InstallsDie
  <2>4. Succeed
    BY <1>3, <2>3 DEF GoOn
  <2>. QED
    BY <1>3, <2>2, <2>4 DEF Succeed
<1>. QED
  BY <1>1, <1>2, <1>3 DEF Explained, Nothing

LEMMA GivenInvariant ==
    ASSUME WellFormed, OwnMarkers, InstallsDie
    PROVE  Spec => []GivenInv
<1>1. Init => GivenInv
  BY FinishedInit DEF GivenInv
<1>2. GivenInv /\ TypeInv /\ TypeInv' /\ [Next]_vars => GivenInv'
  BY GivenNext
<1>. QED
  BY <1>1, <1>2, TypeInvariant, PTL DEF Spec

(* What is wanted, of every package and of one with its pkg_install.       *)
LEMMA WantedOf ==
    ASSUME NEW o \in Options, NEW a \in Archs, NEW k \in DOMAIN PackageList(o)
    PROVE  /\ DOMAIN Wanted[o][a] = DOMAIN PackageList(o)
           /\ Wanted[o][a][k] = {<<d, PackageList(o)[k]>> : d \in Where(o, a, k)}
BY DEF Wanted

LEMMA WhereInstalled ==
    ASSUME WellFormed, NEW o \in Options, NEW a \in Archs, NEW k \in DOMAIN PackageList(o)
    PROVE  Where(o, a, k) =
               UNION {StepsOf(o, a, k, 6)[n].gives : n \in DOMAIN StepsOf(o, a, k, 6)}
<1>1. /\ "pkg_install" \in DOMAIN Recipes[o][a][k]
      /\ StepsOf(o, a, k, 6) = Recipes[o][a][k].pkg_install
  BY DEF WellFormed, StepsOf, Functions
<1>. QED
  BY <1>1 DEF Where

(* A package that the run has come past is installed.                      *)
LEMMA InstalledBefore ==
    ASSUME WellFormed, TypeInv, GivenInv, NEW k \in DOMAIN PackageList(opts),
           \A n \in DOMAIN StepsOf(opts, arch, k, 6) : Earlier(<<k, 6, n>>, Place)
    PROVE  Installed(arch, k)
<1>1. ASSUME NEW d \in Where(opts, arch, k)
      PROVE  <<d, PackageList(opts)[k]>> \in delivered
  <2>1. PICK n \in DOMAIN StepsOf(opts, arch, k, 6) : d \in StepsOf(opts, arch, k, 6)[n].gives
    BY <1>1, Positions, WhereInstalled
  <2>2. <<k, 6, n>> \in Places(opts, arch)
    BY PlaceIn
  <2>3. Entry(opts, arch, <<k, 6, n>>) \in Finished
    BY <2>1, <2>2 DEF Finished, Past, Before
  <2>4. /\ Entry(opts, arch, <<k, 6, n>>).package = PackageList(opts)[k]
        /\ Entry(opts, arch, <<k, 6, n>>).step = StepsOf(opts, arch, k, 6)[n]
    BY DEF Entry
  <2>. QED
    BY <2>1, <2>3, <2>4 DEF GivenInv
<1>. QED
  BY <1>1, Positions, WantedOf DEF Installed

(* The packages before the present one.                                    *)
LEMMA InstalledSoFar ==
    ASSUME WellFormed, TypeInv, GivenInv, NEW k \in DOMAIN PackageList(opts), k < pi
    PROVE  Installed(arch, k)
<1>1. \A n \in DOMAIN StepsOf(opts, arch, k, 6) : Earlier(<<k, 6, n>>, Place)
  BY DEF Earlier, Place
<1>. QED
  BY <1>1, InstalledBefore

LEMMA AllInstalledHere ==
    ASSUME WellFormed, TypeInv, GivenInv, ArchDone
    PROVE  \A k \in DOMAIN PackageList(opts) : Installed(arch, k)
<1>. SUFFICES ASSUME NEW k \in DOMAIN PackageList(opts) PROVE Installed(arch, k)
  OBVIOUS
<1>1. fn = 6 /\ pi = Len(PackageList(opts)) /\ InFunction /\ Returned
  BY DEF ArchDone, PackageDone, Returned, InFunction
<1>2. k \in Nat /\ k <= pi /\ pi \in Nat
  BY <1>1, Positions
<1>3. ASSUME NEW n \in DOMAIN StepsOf(opts, arch, k, 6)
      PROVE  Earlier(<<k, 6, n>>, Place)
  <2>1. CASE k = pi
    <3>1. n < i
      BY <1>1, <2>1, InFunctionSteps, Positions DEF Returned
    <3>. QED
      BY <1>1, <2>1, <3>1 DEF Earlier, Place
  <2>2. CASE k < pi
    BY <2>2 DEF Earlier, Place
  <2>. QED
    BY <1>2, <2>1, <2>2
<1>. QED
  BY <1>3, InstalledBefore

(* The architectures before the present one.                               *)
LEMMA InstalledStays ==
    ASSUME [Next]_vars, opts' = opts, NEW a, NEW k, Installed(a, k)
    PROVE  Installed(a, k)'
BY DiskGrows DEF Installed

LEMMA AllInstalledAtEnd ==
    ASSUME WellFormed, TypeInv, GivenInv, DoneInv, ArchDone, ai = Len(archs)
    PROVE  AllInstalled
<1>. SUFFICES ASSUME NEW n \in DOMAIN archs, NEW k \in DOMAIN PackageList(opts)
              PROVE  Installed(archs[n], k)
  BY DEF AllInstalled
<1>1. n \in 1..(ai - 1) \/ n = ai
  BY Positions
<1>. QED
  BY <1>1, AllInstalledHere DEF DoneInv, arch

LEMMA DoneInside ==
    ASSUME TypeInv, DoneInv, [Next]_vars, UNCHANGED <<opts, archs, ai>>,
           pc' # "idle" \/ UNCHANGED <<pc, last>>
    PROVE  DoneInv'
<1>1. ASSUME NEW n \in 1..(ai - 1), NEW k \in DOMAIN PackageList(opts)
      PROVE  Installed(archs[n], k)'
  BY <1>1, InstalledStays DEF DoneInv
<1>2. RunDelivers'
  <2>1. CASE pc' # "idle"
    BY <2>1 DEF RunDelivers
  <2>2. CASE pc' = "idle" /\ UNCHANGED <<pc, last>>
    <3>1. AllInstalled => AllInstalled'
      BY InstalledStays DEF AllInstalled
    <3>. QED
      BY <2>2, <3>1 DEF DoneInv, RunDelivers
  <2>. QED
    BY <2>1, <2>2
<1>. QED
  BY <1>1, <1>2 DEF DoneInv

LEMMA DoneNext ==
    ASSUME WellFormed, TypeInv, TypeInv', GivenInv, DoneInv, [Next]_vars
    PROVE  DoneInv'
<1>1. CASE \/ \E o \in Options, list \in ArchLists : StartRun(o, list)
           \/ Die \/ Kill
  <2>1. ai' = 1 /\ (pc' # "idle" \/ last' # "done")
    BY <1>1 DEF StartRun, Die, Kill, Exit, TypeInv, ShellInv
  <2>. QED
    BY <2>1 DEF DoneInv, RunDelivers
<1>2. CASE SourceScenario \/ Inside \/ NextFunction \/ NextPackage
  <2>1. CASE Inside
    BY <2>1, InsideLoops, DoneInside DEF InFunction
  <2>2. CASE SourceScenario \/ NextFunction \/ NextPackage
    <3>1. UNCHANGED <<opts, archs, ai>> /\ pc' # "idle"
      BY <2>2 DEF SourceScenario, NextFunction, NextPackage, PackageDone, Returned, loops
    <3>. QED
      BY <3>1, DoneInside
  <2>. QED
    BY <1>2, <2>1, <2>2
<1>3. CASE NextArch
  <2>1. UNCHANGED <<opts, archs, delivered>> /\ ai' = ai + 1 /\ pc' = "source" /\ ArchDone
    BY <1>3 DEF NextArch, disk
  <2>2. ASSUME NEW n \in 1..ai, NEW k \in DOMAIN PackageList(opts)
        PROVE  Installed(archs[n], k)
    <3>1. n \in 1..(ai - 1) \/ n = ai
      BY Positions
    <3>. QED
      BY <2>1, <3>1, AllInstalledHere DEF DoneInv, arch
  <2>3. 1..(ai' - 1) = 1..ai
    BY <2>1, Positions
  <2>4. RunDelivers'
    BY <2>1 DEF RunDelivers
  <2>5. ASSUME NEW n \in 1..(ai' - 1), NEW k \in DOMAIN PackageList(opts')
        PROVE  Installed(archs[n], k)'
    BY <2>1, <2>2, <2>3, InstalledStays
  <2>. QED
    BY <2>1, <2>4, <2>5 DEF DoneInv
<1>4. CASE Finish
  <2>1. UNCHANGED <<opts, archs, delivered>> /\ ai = Len(archs) /\ ai' = 1 /\ ArchDone
    BY <1>4 DEF Finish, Exit, disk
  <2>2. AllInstalled
    BY <2>1, AllInstalledAtEnd
  <2>3. AllInstalled'
    BY <2>1, <2>2, InstalledStays DEF AllInstalled
  <2>. QED
    BY <2>1, <2>3 DEF DoneInv, RunDelivers
<1>5. CASE UNCHANGED vars
  BY <1>5, DoneInside DEF vars, loops, user
<1>. QED
  BY <1>1, <1>2, <1>3, <1>4, <1>5 DEF Next, RunStep, Inside

(* A run that ends well has delivered every package of its list, into the  *)
(* prefix or the Qt directory of its options, for each architecture: if no *)
(* two installations share a marker and one that fails ends the run.  What *)
(* it has skipped was delivered by a run before.                           *)
THEOREM RunsDeliver ==
    ASSUME WellFormed, OwnMarkers, InstallsDie
    PROVE  Spec => []RunDelivers
<1>1. Init => DoneInv
  BY DEF Init, DoneInv, RunDelivers
<1>2. DoneInv /\ GivenInv /\ TypeInv /\ TypeInv' /\ [Next]_vars => DoneInv'
  BY DoneNext
<1>3. DoneInv => RunDelivers
  BY DEF DoneInv
<1>. QED
  BY <1>1, <1>2, <1>3, TypeInvariant, GivenInvariant, PTL DEF Spec

(* A package is configured when the packages of the list that its DEPENDS  *)
(* names are installed, in this run or before, if the list has them first. *)
THEOREM DependsAreInstalled ==
    ASSUME WellFormed, OwnMarkers, InstallsDie, DependsComeFirst
    PROVE  Spec => []DependsInstalled
<1>1. TypeInv /\ GivenInv => DependsInstalled
  <2>. SUFFICES ASSUME TypeInv, GivenInv, NEW k \in DOMAIN PackageList(opts),
                       PackageList(opts)[k] \in Sourced.depends,
                       <<sub, PackageList(opts)[k]>> \notin OutOfOrder
                PROVE  Installed(arch, k)
    BY DEF DependsInstalled
  <2>1. k < pi
    BY Positions DEF DependsComeFirst, Sourced, sub
  <2>. QED
    BY <2>1, InstalledSoFar
<1>. QED
  BY <1>1, TypeInvariant, GivenInvariant, PTL

-----------------------------------------------------------------------------
(* Runs in which nothing fails by itself.                                  *)

(* Faults are counted, and never forgotten.                                *)
LEMMA FaultsCounted ==
    ASSUME TypeInv, [Next]_vars, faults' = 0
    PROVE  faults = 0 /\ (\A f : ~Fault(f))
<1>1. faults \in Nat
  BY BuildAssumption DEF TypeInv, TypeOK
<1>2. \A f : ~Fault(f)
  BY <1>1 DEF Fault
<1>3. faults' = faults
  BY <1>2
     DEF Next, RunStep, StartRun, SourceScenario, SetEnvironment, Skip, Begin, Succeed, Die,
         GoOn, Fails, NoFault, Touch, NextFunction, NextPackage, NextArch, Finish, Kill,
         vars, user
<1>. QED
  BY <1>2, <1>3

(* No file is torn by anything but a kill.                                 *)
LEMMA NothingTorn ==
    ASSUME [Next]_vars, \A f : ~Fault(f)
    PROVE  torn' = torn
BY DEF Next, RunStep, StartRun, SourceScenario, SetEnvironment, Skip, Begin, Succeed, Die,
       GoOn, Touch, NextFunction, NextPackage, NextArch, Finish, Kill, vars, disk

(* A step at work finds what it needs, unless nobody looks at its failure. *)
LEMMA NeedsAreThere ==
    ASSUME WellFormed, NeedsAreMade, TypeInv, MadeInv, faults = 0, pc = "busy"
    PROVE  \/ Able
           \/ Step.fails = {"ignore"} /\ Step.makes = {}
<1>1. Place \in Places(opts, arch) /\ Current.step = Step
  BY AtStep DEF InFunction, TypeInv, ShellInv
<1>2. \/ Step.needs \subseteq UNION {e.step.makes : e \in Past}
      \/ Step.fails = {"ignore"} /\ Step.makes = {}
  BY <1>1, Positions DEF NeedsAreMade, NeedsAreMadeWith, Past, Current
<1>3. UNION {e.step.makes : e \in Past} \subseteq trees
  <2>1. \A e \in Past : e.step.makes \subseteq trees
    BY DEF MadeInv, Finished
  <2>. QED
    BY <2>1
<1>4. Step.inplace \intersect torn = {}
  BY DEF MadeInv
<1>. QED
  BY <1>2, <1>3, <1>4 DEF Able

LEMMA MadeNext ==
    ASSUME WellFormed, OwnMarkers, NeedsAreMade, TypeInv, TypeInv', MadeInv, [Next]_vars
    PROVE  MadeInv'
<1>t. faults' = 0 => torn' = {}
  BY FaultsCounted, NothingTorn DEF MadeInv
<1>. SUFFICES ASSUME faults' = 0, NEW e \in Finished'
              PROVE  e.step.makes \subseteq trees'
  BY <1>t DEF MadeInv
<1>1. faults = 0 /\ (\A f : ~Fault(f)) /\ Explained(e)
  BY FaultsCounted, FinishedNext
<1>2. ASSUME NEW f \in Finished, SameWork(f, e)
      PROVE  e.step.makes \subseteq trees'
  BY <1>1, <1>2, DiskGrows DEF MadeInv, SameWork
<1>3. ASSUME Succeed \/ GoOn, e = Current
      PROVE  e.step.makes \subseteq trees'
  <2>1. InFunction /\ i <= Len(Steps) /\ pc = "busy"
    BY <1>3, InsideLoops DEF Inside, Succeed, GoOn
  <2>2. Current.step = Step
    BY <2>1, AtStep
  <2>3. CASE Succeed
    BY <1>3, <2>2, <2>3 DEF Succeed
  <2>4. CASE GoOn
    <3>1. ~Able
      BY <1>1, <2>4 DEF GoOn, Fails
    <3>. QED
      BY <1>1, <1>3, <2>1, <2>2, <3>1, NeedsAreThere
  <2>. QED
    BY <1>3, <2>3, <2>4
<1>. QED
  BY <1>1, <1>2, <1>3 DEF Explained, Nothing

LEMMA CleanNext ==
    ASSUME WellFormed, NeedsAreMade, TypeInv, MadeInv, CleanRunCompletes, [Next]_vars
    PROVE  CleanRunCompletes'
<1>. SUFFICES ASSUME faults' = 0, last' = "died" PROVE FALSE
  <2>1. faults' \in Nat
    <3>1. faults' = faults \/ faults' = faults + 1
      BY EndsWith
         DEF Next, RunStep, StartRun, SourceScenario, SetEnvironment, Skip, Begin, Succeed,
             GoOn, Fails, Fault, NoFault, Touch, NextFunction, NextPackage, NextArch, vars, user
    <3>. QED
      BY <3>1, BuildAssumption DEF TypeInv, TypeOK
  <2>. QED
    BY <2>1 DEF CleanRunCompletes
<1>1. faults = 0 /\ (\A f : ~Fault(f))
  BY FaultsCounted
<1>2. last # "died"
  BY <1>1 DEF CleanRunCompletes
<1>3. Die
  BY <1>2
     DEF Next, RunStep, StartRun, SourceScenario, SetEnvironment, Skip, Begin, Succeed,
         GoOn, Touch, NextFunction, NextPackage, NextArch, Finish, Kill, Exit, vars, user
<1>4. ~Able /\ "die" \in Step.fails /\ pc = "busy"
  BY <1>1, <1>3 DEF Die, Fails
<1>. QED
  BY <1>1, <1>4, NeedsAreThere

(* Unless a tool fails by itself or a run is killed, no run dies: in any   *)
(* sequence of runs every command finds what it works on, if the steps     *)
(* before it in its own run are for that; also where those are skipped,    *)
(* for the markers of runs with other options.                             *)
THEOREM CleanRunsComplete ==
    ASSUME WellFormed, OwnMarkers, NeedsAreMade
    PROVE  Spec => []CleanRunCompletes
<1>1. Init => MadeInv /\ CleanRunCompletes
  BY FinishedInit DEF Init, MadeInv, CleanRunCompletes
<1>2. MadeInv /\ TypeInv /\ TypeInv' /\ [Next]_vars => MadeInv'
  BY MadeNext
<1>3. MadeInv /\ CleanRunCompletes /\ TypeInv /\ [Next]_vars => CleanRunCompletes'
  BY CleanNext
<1>. QED
  BY <1>1, <1>2, <1>3, TypeInvariant, PTL DEF Spec
-----------------------------------------------------------------------------
(* Build implements Delivery.                                              *)

DeliverVars == <<delivered, pc # "idle", opts, archs, last>>

LEMMA DeliverInit ==
    ASSUME Init
    PROVE  Deliver!Init
BY DEF Init, Deliver!Init

(* What Delivery says of a run is said of Wanted, as Installed is.         *)
LEMMA ThereIsInstalled ==
    ASSUME TypeInv
    PROVE  /\ Deliver!Packages = DOMAIN PackageList(opts)
           /\ \A n, k : Deliver!There(n, k) <=> Installed(archs[n], k)
<1>1. archs[1] \in Archs
  BY Positions, NonEmpty, BuildAssumption
<1>2. 1 \in DOMAIN PackageList(opts)
  BY Positions
<1>3. DOMAIN Wanted[opts][archs[1]] = DOMAIN PackageList(opts)
  BY <1>1, <1>2, Positions, WantedOf
<1>. QED
  BY <1>3 DEF Deliver!Packages, Deliver!There, Installed

(* A step that installs is one of pkg_install, and installs what is wanted *)
(* of its package, after all that comes before it.                         *)
LEMMA SucceedInstalls ==
    ASSUME WellFormed, InstallsLast, TypeInv, GivenInv, DoneInv, Succeed
    PROVE  Deliver!Install(ai, pi) \/ UNCHANGED DeliverVars
<1>. DEFINE new == {<<d, sub>> : d \in Step.gives}
<1>1. /\ pc = "busy" /\ pc' # "idle" /\ delivered' = delivered \union new
      /\ UNCHANGED <<opts, archs, last>>
  BY DEF Succeed, After, loops, user
<1>2. InFunction /\ i <= Len(Steps)
  BY <1>1 DEF InFunction, TypeInv, ShellInv
<1>3. CASE Step.gives = {}
  BY <1>1, <1>3 DEF DeliverVars
<1>4. CASE Step.gives # {}
  <2>1. fn = 6
    BY <1>2, <1>4, AtStep DEF InstallsLast
  <2>2. i \in DOMAIN StepsOf(opts, arch, pi, 6) /\ Step = StepsOf(opts, arch, pi, 6)[i]
    BY <1>2, <2>1, Positions, InFunctionSteps DEF Step
  <2>3. Step.gives \subseteq Where(opts, arch, pi)
    BY <2>2, Positions, WhereInstalled
  <2>4. new \in SUBSET Wanted[opts][archs[ai]][pi]
    BY <2>3, Positions, WantedOf DEF sub, arch
  <2>5. \A m \in 1..(ai - 1) : \A l \in Deliver!Packages : Deliver!There(m, l)
    BY ThereIsInstalled DEF DoneInv
  <2>6. ASSUME NEW l \in 1..(pi - 1)
        PROVE  Deliver!There(ai, l)
    <3>1. l \in DOMAIN PackageList(opts) /\ l < pi
      BY Positions
    <3>. QED
      BY <3>1, InstalledSoFar, ThereIsInstalled DEF arch
  <2>. HIDE DEF new
  <2>. QED
    BY <1>1, <2>4, <2>5, <2>6 DEF Deliver!Install
<1>. QED
  BY <1>3, <1>4

(* Each step of Build is one of Delivery, or none.                         *)
LEMMA DeliverNext ==
    ASSUME WellFormed, InstallsLast, TypeInv, GivenInv, DoneInv, [Next]_vars
    PROVE  Deliver!Next \/ UNCHANGED DeliverVars
<1>1. ASSUME NEW o \in Options, NEW list \in ArchLists, StartRun(o, list)
      PROVE  Deliver!Next
  <2>1. Deliver!Begin(o, list)
    BY <1>1 DEF StartRun, disk, Deliver!Begin
  <2>. QED
    BY <2>1 DEF Deliver!Next
<1>2. CASE SourceScenario \/ NextFunction \/ NextPackage \/ NextArch
  BY <1>2
     DEF SourceScenario, NextFunction, NextPackage, NextArch, ArchDone, PackageDone, Returned,
         disk, loops, user, DeliverVars
<1>3. CASE SetEnvironment \/ Skip \/ Begin \/ GoOn \/ Touch
  BY <1>3
     DEF SetEnvironment, Skip, Begin, GoOn, Touch, After, Entered, disk, loops, user,
         DeliverVars
<1>4. CASE Succeed
  <2>1. ai \in DOMAIN archs /\ pi \in Deliver!Packages
    BY Positions, ThereIsInstalled
  <2>. QED
    BY <1>4, <2>1, SucceedInstalls DEF Deliver!Next
<1>5. CASE Die \/ Kill
  <2>1. Deliver!Stop
    BY <1>5 DEF Die, Kill, Exit, disk, Deliver!Stop, Deliver!Ends
  <2>. QED
    BY <2>1 DEF Deliver!Next
<1>6. CASE Finish
  <2>1. Deliver!Ends("done")
    BY <1>6
       DEF Finish, ArchDone, PackageDone, Returned, Exit, disk, Deliver!Ends
  <2>2. AllInstalled
    BY <1>6, AllInstalledAtEnd DEF Finish
  <2>3. Deliver!Done
    BY <2>1, <2>2, ThereIsInstalled DEF AllInstalled, Deliver!Done
  <2>. QED
    BY <2>3 DEF Deliver!Next
<1>7. CASE UNCHANGED vars
  BY <1>7 DEF vars, disk, loops, user, DeliverVars
<1>. QED
  BY <1>1, <1>2, <1>3, <1>4, <1>5, <1>6, <1>7 DEF Next, RunStep

(* What Delivery promises, the main loops keep, whatever the markers make  *)
(* them skip and wherever failures and kills end them: installations come  *)
(* in the order of the list, stay, and are complete when a run is done; if *)
(* only pkg_install installs, and never goes on after a failure, and no    *)
(* two installations share a marker.                                       *)
THEOREM BuildImplementsDelivery ==
    ASSUME WellFormed, OwnMarkers, InstallsDie, InstallsLast
    PROVE  Spec => ImplementsDelivery
<1>1. Init => Deliver!Init
  BY DeliverInit
<1>2. Init => DoneInv
  BY DEF Init, DoneInv, RunDelivers
<1>3. DoneInv /\ GivenInv /\ TypeInv /\ TypeInv' /\ [Next]_vars => DoneInv'
  BY DoneNext
<1>4. TypeInv /\ GivenInv /\ DoneInv /\ [Next]_vars => [Deliver!Next]_(Deliver!vars)
  BY DeliverNext DEF DeliverVars, Deliver!vars
<1>. QED
  BY <1>1, <1>2, <1>3, <1>4, TypeInvariant, GivenInvariant, PTL
     DEF Spec, ImplementsDelivery, Deliver!Spec
=============================================================================
