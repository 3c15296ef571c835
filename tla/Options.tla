------------------------------ MODULE Options -------------------------------
(***************************************************************************)
(* The command line of src/buildall: the options are parsed one after the  *)
(* other, in the order they are given in, and the environment is looked at *)
(* when all are parsed; then the list of packages is made.  In between the *)
(* toolchains are prepared: module Toolchains, which has the whole start   *)
(* of a run, and of the runs that follow it.                               *)
(***************************************************************************)
EXTENDS PackageOrder, Naturals, FiniteSets, SequencesExt

CONSTANT Args   \* the options a command line may contain, a subset of AllArgs

(* Options with a value: of a directory, which must be there or be made,   *)
(* and the others; options that end the run; and all of them.              *)
Directories == {"--buildroot", "--install-top", "--toolchains-dir"}
Values == {"--buildroot", "--install-top", "--qt-version", "--qt-git-branch", "--make-jobs"}
Final == {"--version", "bad"}
AllArgs ==
    Values \union Final \union
    {"--toolchains-dir", "--update-sources", "--opengl-desktop", "--build-python",
     "--toolchain-python", "--build-ruby", "--no-qtcreator", "--static-qt", "--extra-stuff",
     "--osg", "--coin3d", "i686", "x86_64"}
ASSUME OptionsAssumption == Args \subseteq AllArgs

VARIABLES
    given,      \* the options of the command line
    todo,       \* the ones still to be parsed
    o,          \* the variables they set
    archs,      \* BUILD_ARCHITECTURES
    pc,         \* "parse", "toolchains", "check", "build" or "dead", and
                \* what module Toolchains adds
    list        \* PACKAGES

options == <<given, todo, o, archs, list>>

Defaults ==
    [static |-> FALSE, desktop |-> FALSE, opengl |-> FALSE, python |-> "msys",
     ruby |-> FALSE, creator |-> TRUE, extra |-> FALSE, osg |-> FALSE,
     coin3d |-> FALSE, toolchains |-> "posix", url |-> "posix", user |-> FALSE,
     update |-> FALSE, named |-> {}]   \* named: the options that a value was given for

(* A new shell, with the options args.                                     *)
Start(args) ==
    /\ given' = args /\ todo' = args
    /\ o' = Defaults /\ archs' = <<>> /\ pc' = "parse" /\ list' = <<>>

-----------------------------------------------------------------------------
(* What an option sets.                                                    *)

StaticQtAlways ==   \* mutant: whatever toolchains the user has
    [o EXCEPT !.static = TRUE, !.desktop = TRUE, !.creator = FALSE,
              !.toolchains = "win32", !.url = "win32"]

StaticQt ==
    [o EXCEPT !.static = TRUE, !.desktop = TRUE, !.creator = FALSE,
              !.toolchains = IF o.user THEN @ ELSE "win32", !.url = "win32"]

Set(arg) ==
    CASE arg = "--toolchains-dir" -> [o EXCEPT !.toolchains = "user", !.user = TRUE]
      [] arg = "--opengl-desktop" -> [o EXCEPT !.desktop = TRUE, !.opengl = TRUE]
      [] arg = "--build-python" -> [o EXCEPT !.python = "self"]
      [] arg = "--toolchain-python" -> [o EXCEPT !.python = "toolchain"]
      [] arg = "--build-ruby" -> [o EXCEPT !.ruby = TRUE]
      [] arg = "--no-qtcreator" -> [o EXCEPT !.creator = FALSE]
      [] arg = "--static-qt" -> StaticQt
      [] arg = "--extra-stuff" -> [o EXCEPT !.extra = TRUE]
      [] arg = "--osg" -> [o EXCEPT !.extra = TRUE, !.osg = TRUE]
      [] arg = "--coin3d" -> [o EXCEPT !.extra = TRUE, !.coin3d = TRUE]
      [] arg = "--update-sources" -> [o EXCEPT !.update = TRUE]
      [] arg \in Values -> [o EXCEPT !.named = @ \union {arg}]
      [] arg \in {"i686", "x86_64"} -> o

(* The run ends at --version, at an option there is not, and at a          *)
(* directory that cannot be made.                                          *)
Parse(arg, made) ==
    /\ pc = "parse" /\ arg \in todo /\ arg \notin Final
    /\ arg \in Directories => made
    /\ o' = Set(arg)
    /\ archs' = IF arg \in {"i686", "x86_64"} THEN Append(archs, arg) ELSE archs
    /\ todo' = todo \ {arg}
    /\ UNCHANGED <<given, pc, list>>

ParseEnds(arg, made) ==
    /\ pc = "parse" /\ arg \in todo
    /\ arg \in Final \/ (arg \in Directories /\ ~made)
    /\ pc' = "dead"
    /\ UNCHANGED options

(* There must be something to build, on this host, and a scenario for the  *)
(* version of Qt.                                                          *)
Parsed(host64, scenario) ==
    /\ pc = "parse" /\ todo = {}
    /\ pc' = IF \/ archs = <<>> \/ ~scenario
                \/ ~host64 /\ Contains(archs, "x86_64")
             THEN "dead" ELSE "toolchains"
    /\ UNCHANGED options

(* A python or ruby that is not on the system is built.                    *)
CheckFoundNothing(python, ruby) ==   \* mutant: python is built, the option or not
    /\ pc = "check"
    /\ o' = [o EXCEPT !.python = IF ~python THEN "self" ELSE @, !.ruby = @ \/ ~ruby]
    /\ list' = Packages(o')
    /\ pc' = "build"
    /\ UNCHANGED <<given, todo, archs>>

Check(python, ruby) ==
    /\ pc = "check"
    /\ o' = [o EXCEPT !.python = IF @ = "msys" /\ ~python THEN "self" ELSE @,
                      !.ruby = @ \/ ~ruby]
    /\ list' = Packages(o')
    /\ pc' = "build"
    /\ UNCHANGED <<given, todo, archs>>

-----------------------------------------------------------------------------
(* Properties.                                                             *)

On == {list[i] : i \in DOMAIN list}
Has(arg) == arg \in given
Position(p) == CHOOSE i \in DOMAIN list : list[i] = p

(* The options mean the same in every order: what is set when all are      *)
(* parsed depends on which were given (README:29-50) and on nothing else,  *)
(* but for the two that choose the python, of which the last one counts.   *)
OrderIrrelevant ==
    pc = "parse" /\ todo = {} =>
        /\ o.static = Has("--static-qt")
        /\ o.desktop = (Has("--opengl-desktop") \/ Has("--static-qt"))
        /\ o.opengl = Has("--opengl-desktop")
        /\ o.creator = ~(Has("--no-qtcreator") \/ Has("--static-qt"))
        /\ o.extra = (Has("--extra-stuff") \/ Has("--osg") \/ Has("--coin3d"))
        /\ o.update = Has("--update-sources") /\ o.named = given \intersect Values
        /\ o.toolchains = IF Has("--toolchains-dir") THEN "user"
                          ELSE IF Has("--static-qt") THEN "win32" ELSE "posix"
        /\ ~(Has("--build-python") /\ Has("--toolchain-python")) =>
              o.python = IF Has("--build-python") THEN "self"
                         ELSE IF Has("--toolchain-python") THEN "toolchain" ELSE "msys"

(* The list: nothing twice; python is built exactly if neither the system  *)
(* nor the toolchain is to provide it; what links with Qt comes after Qt,  *)
(* and a static build has neither ICU (README:48) nor the packages that    *)
(* need a shared Qt.                                                       *)
ListIsSound ==
    pc = "build" =>
        /\ \A i, j \in DOMAIN list : list[i] = list[j] => i = j
        /\ "python2" \in On <=> o.python = "self"
        /\ Has("--toolchain-python") /\ ~Has("--build-python") => "python2" \notin On
        /\ "qt" \in On
        /\ \A p \in On \intersect {"qtbinpatcher", "installer-framework", "qbs", "qt-creator",
                                   "poppler", "simage", "quarter", "openscenegraph"} :
              Position("qt") < Position(p)
        /\ Has("--static-qt") => On \intersect {"icu", "qbs", "qt-creator", "poppler"} = {}
        /\ Cardinality(On \intersect {"qbs", "installer-framework"}) = 1
=============================================================================
