------------------------------- MODULE Paths ---------------------------------
(***************************************************************************)
(* func_absolute_to_relative of src/helpers_functions.sh: the way from a   *)
(* build directory to the sources, by which configure is called.           *)
(*                                                                         *)
(* A path is a sequence of names, a name is a sequence of characters.  The *)
(* function compares strings, and does not see where a name ends.          *)
(***************************************************************************)
EXTENDS Naturals, Sequences
LOCAL INSTANCE SequencesExt
LOCAL INSTANCE FiniteSetsExt

String(p) == IF p = <<>> THEN <<"/">> ELSE FlattenSeq([k \in DOMAIN p |-> <<"/">> \o p[k]])
Above(p, k) == SubSeq(p, 1, Len(p) - k)   \* dirname, k times

(* How often the loop goes up: until the target begins with what is left.  *)
Back(from, target) ==
    Min({k \in 0..Len(from) : IsPrefix(String(Above(from, k)), String(target))})

(* "../" so many times, and the rest of the target; it stays as it is if   *)
(* only the beginning of a name is common.                                 *)
Relative(from, target) ==
    LET k == Back(from, target)
        common == Above(from, k)
    IN [up |-> k,
        down |-> IF k = 0 THEN <<>>
                 ELSE IF IsPrefix(common, target)
                 THEN SubSeq(target, Len(common) + 1, Len(target)) ELSE target]

(* The reference: where such a way leads to.                               *)
Resolve(from, r) == Above(from, r.up) \o r.down

Apart(m, n) == ~IsPrefix(m, n) /\ ~IsPrefix(n, m)

(* The way leads to the target if that is the directory itself, or if the  *)
(* two are below directories of one root whose names do not begin with one *)
(* another, as build-i686 and unpack: whatever the root, and the rest.     *)
Leads(names, depth) ==
    LET below == UNION {[1..k -> names] : k \in 0..depth}
    IN /\ \A d \in below : Resolve(d, Relative(d, d)) = d
       /\ \A root, d, e \in below, m, n \in names : Apart(m, n) =>
             LET from == root \o <<m>> \o d
                 target == root \o <<n>> \o e
             IN Resolve(from, Relative(from, target)) = target

(* It does not if the one name begins the other, nor to what is below.     *)
Misleads(names) ==
    \A m, n \in names : m # n /\ IsPrefix(m, n) =>
        /\ Resolve(<<m>>, Relative(<<m>>, <<n>>)) # <<n>>
        /\ Resolve(<<m>>, Relative(<<m>>, <<m, n>>)) # <<m, n>>
=============================================================================
