---------------------------- MODULE MCScenarios -----------------------------
(* The conditions of BuildInvariants, evaluated for the scenarios and the  *)
(* lists of packages of the repository.                                    *)
EXTENDS MCBuild, BuildInvariants

(* All of them hold, but for the two versions of Qt that are patched where *)
(* they are not unpacked.                                                  *)
ASSUME ScenariosAreSound ==
    /\ WellFormed /\ Balanced /\ OwnMarkers /\ InstallsDie /\ InstallsLast
    /\ QtDirIsKept /\ PythonIsSet /\ ConfIsRewritten /\ DependsComeFirst
    /\ \A o \in Options : NeedsAreMadeWith(o) <=> o \notin Qt4Options

(* These two beside complete builds of the other versions, with either way *)
(* to link, either OpenGL and two of the three pythons (without one of its *)
(* own the list is a part of these), and parts of builds.                  *)
CompleteOptions ==
    LET shared == {[Everything EXCEPT !.coin3d = FALSE, !.version = v, !.opengl = g,
                                      !.python = p] :
                      v \in {"5.0.0", "5.0.2", "5.1.0", "5.1.1", "5.2.0", "git"},
                      g \in BOOLEAN, p \in {"toolchain", "self"}}
        static == {[o EXCEPT !.static = TRUE, !.creator = FALSE] : o \in shared}
    IN shared \union
       {[o EXCEPT !.only = {Packages(o)[k] : k \in DOMAIN Packages(o)}
                           \ {"installer-framework"}] : o \in static}
AllOptions == CompleteOptions \union BuildOptions \union Qt4Options
=============================================================================
