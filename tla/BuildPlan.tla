------------------------------ MODULE BuildPlan ------------------------------
(***************************************************************************)
(* What buildall promises, with the markers, the tools and the crashes     *)
(* left out: for every target it installs the packages of PACKAGES one at  *)
(* a time, each only when every package before it in the list is already   *)
(* in the prefix, and it never loses an installed package.                 *)
(***************************************************************************)
EXTENDS Naturals

CONSTANTS
    N,        \* number of packages; package p is the p-th entry of PACKAGES
    Targets   \* the architecture/suffix pairs that have a BUILD_DIR

VARIABLE installed   \* installed[t]: the packages installed for target t

TypeOK == installed \in [Targets -> SUBSET (1..N)]

Init == installed = [t \in Targets |-> {}]

(* The first missing package of a target is installed.                     *)
Install(t, p) ==
    /\ p \notin installed[t]
    /\ \A q \in 1..(p - 1) : q \in installed[t]
    /\ installed' = [installed EXCEPT ![t] = @ \union {p}]

Next == \E t \in Targets, p \in 1..N : Install(t, p)

Spec == Init /\ [][Next]_installed
=============================================================================
