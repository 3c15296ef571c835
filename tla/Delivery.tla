------------------------------ MODULE Delivery ------------------------------
(***************************************************************************)
(* What the main loops of buildall promise to a user who starts them again *)
(* and again, with any options: a run installs the packages of its list,   *)
(* for one architecture after the other, none before those that come       *)
(* before it are there, and says that it is done when all are.  Who has    *)
(* installed them, this run or one with other options, is not said, nor    *)
(* what the markers know of it.                                            *)
(***************************************************************************)
EXTENDS Naturals, Sequences

CONSTANTS
    Options,    \* the options the user may give
    ArchLists,  \* and the architectures, in their order
    Wanted      \* Wanted[o][a][k]: what installing package k of the list puts where

VARIABLES
    delivered,  \* what is installed where
    running,    \* whether a run is under way
    opts, archs,  \* its options and architectures, or those of the last run
    last        \* how the last run ended

vars == <<delivered, running, opts, archs, last>>

Packages == DOMAIN Wanted[opts][archs[1]]
There(n, k) == Wanted[opts][archs[n]][k] \subseteq delivered

Init ==
    /\ delivered = {} /\ running = FALSE /\ last = "none"
    /\ opts \in Options /\ archs \in ArchLists

Begin(o, as) ==
    /\ ~running /\ running' = TRUE
    /\ opts' = o /\ archs' = as
    /\ UNCHANGED <<delivered, last>>

(* Package k for the n-th architecture, or a part of it.                   *)
Install(n, k) ==
    /\ running
    /\ \A m \in 1..(n - 1) : \A l \in Packages : There(m, l)
    /\ \A l \in 1..(k - 1) : There(n, l)
    /\ \E new \in SUBSET Wanted[opts][archs[n]][k] : delivered' = delivered \union new
    /\ UNCHANGED <<running, opts, archs, last>>

Ends(how) ==
    /\ running /\ running' = FALSE /\ last' = how
    /\ UNCHANGED <<delivered, opts, archs>>

Done == Ends("done") /\ \A n \in DOMAIN archs : \A k \in Packages : There(n, k)
Stop == Ends("died") \/ Ends("killed")

Next ==
    \/ \E o \in Options, as \in ArchLists : Begin(o, as)
    \/ \E n \in DOMAIN archs : \E k \in Packages : Install(n, k)
    \/ Done
    \/ Stop

Spec == Init /\ [][Next]_vars
=============================================================================
