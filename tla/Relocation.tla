----------------------------- MODULE Relocation ------------------------------
(***************************************************************************)
(* What qtbinpatcher promises when it keeps backups and is not killed:     *)
(* the directory of Qt is moved, and then all its files change, in one     *)
(* step, from the path they name to the path they are in, or none does.    *)
(* An error that nobody notices spoils the file it is met at, and no other *)
(* one, unless that file is the one whose path decides what is replaced.   *)
(***************************************************************************)
CONSTANTS
    File,    \* the files that hold the path of the Qt directory
    Key,     \* the one of them that is asked for the path
    Place    \* the paths at which the directory may be

VARIABLES
    name,    \* name[f]: the path that f names
    loc,     \* the path at which the directory is
    spoiled  \* the files that are spoiled

Sound == File \ spoiled
Uniform == \E p \in Place : \A f \in Sound : name[f] = p

Init == loc \in Place /\ spoiled = {} /\ Uniform

Move == loc' \in Place /\ UNCHANGED <<name, spoiled>>

Relocate == (\A f \in Sound : name'[f] = loc) /\ UNCHANGED <<loc, spoiled>>

(* Some more files are spoiled, and a spoiled one may become anything.     *)
Spoil ==
    /\ spoiled \subseteq spoiled' /\ UNCHANGED loc
    /\ Key \notin spoiled' => \A f \in File \ spoiled' : name'[f] = name[f]

Next == Move \/ Relocate \/ Spoil

Spec == Init /\ [][Next]_<<name, loc, spoiled>>
=============================================================================
