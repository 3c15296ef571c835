------------------------------ MODULE MCBuild -------------------------------
(* Instances of Build for TLC.                                             *)
EXTENDS Build, Paths

(* Names of one and two characters, paths of up to five names.             *)
Names == {<<"a">>, <<"b">>, <<"a", "b">>, <<"b", "a">>}
ASSUME WaysAreRight == Leads(Names, 2) /\ Misleads(Names)

(* The options of a run without any option.                                *)
Default ==
    [static |-> FALSE, opengl |-> FALSE, version |-> "5.1.1", top |-> "QtSDK",
     python |-> "msys", ruby |-> FALSE, creator |-> TRUE, extra |-> FALSE,
     osg |-> FALSE, coin3d |-> FALSE, only |-> {}]
With(version) == [Default EXCEPT !.version = version]
Everything ==
    [Default EXCEPT !.python = "self", !.ruby = TRUE, !.extra = TRUE, !.osg = TRUE,
                    !.coin3d = TRUE]
StaticQt == [Default EXCEPT !.static = TRUE, !.creator = FALSE]

(* PACKAGES, or the part of it that a record names, postgresql included,   *)
(* which package_order.sh does not list.                                   *)
MCPackageList(o) ==
    IF o.only = {} THEN Packages(o)
    ELSE SelectSeq(Packages(o), LAMBDA p : p \in o.only)
         \o If("postgresql" \in o.only, <<"postgresql">>)

Both == <<"i686", "x86_64">>
BothOrder == {Both}
BothOrders == {Both, <<"x86_64", "i686">>}
OneArch == {<<"i686">>}

(* Complete builds, of Qt 5.1.1, of git and of a static Qt, and parts of   *)
(* builds with other options over the same disk.  Those that end in an     *)
(* error of the code are left out: coin3d, and installer-framework, the    *)
(* package only a static build has.                                        *)
Shared == {"zlib", "icu", "libxml2", "qt", "qtbinpatcher", "qbs"}
Static ==
    [StaticQt EXCEPT !.only = {Packages(StaticQt)[k] : k \in DOMAIN Packages(StaticQt)}
                              \ {"installer-framework"}]
BuildOptions ==
    {[Everything EXCEPT !.coin3d = FALSE],
     [With("git") EXCEPT !.python = "self", !.opengl = TRUE],
     Static}
    \union {[o EXCEPT !.only = Shared] :
               o \in {With("5.1.1"), [With("5.1.1") EXCEPT !.opengl = TRUE], With("git"),
                      With("5.2.0")}}

(* Every scenario by itself, with the ones that need Qt after Qt, and Qt   *)
(* after python2.                                                          *)
NeedsQt == {"installer-framework", "qbs", "qt-creator"}
Each ==
    LET all == {Packages(Everything)[k] : k \in DOMAIN Packages(Everything)}
    IN {[Everything EXCEPT !.only = {p}] :
           p \in (all \union {"postgresql"}) \ (NeedsQt \union {"qt"})}
       \union {[Everything EXCEPT !.only = {"python2", "qt"} \union p] :
                  p \in {{}, {"qbs"}, {"qt-creator"}}}
Versions ==
    {[With(v) EXCEPT !.only = {"qt"}] :
        v \in {"5.0.0", "5.0.2", "5.1.0", "5.2.0", "git"}}
StaticEach == {[o EXCEPT !.static = TRUE, !.creator = FALSE] : o \in Versions}
EachOptions == Each \union Versions \union StaticEach

(* What goes wrong: each of these makes TLC refute the property named.     *)
\* CleanRunCompletes
Qt4Options == {[With(v) EXCEPT !.only = {"zlib", "qt"}] : v \in {"4.8.4", "4.8.5"}}
Qt501Options == {[With("5.0.1") EXCEPT !.only = {"zlib", "qt"}]}
StaticOptions ==
    {[StaticQt EXCEPT !.only = {"zlib", "qt", "qtbinpatcher", "installer-framework"}]}
\* EnvIsOwn
Coin3dOptions ==
    {[Everything EXCEPT !.only = {"qt", "simage", "coin3d", "quarter"}]}
\* RunDelivers, with MaxChanges = 1
TopOptions == {[Default EXCEPT !.only = {"zlib"}, !.top = t] : t \in {"QtSDK", "elsewhere"}}
=============================================================================
