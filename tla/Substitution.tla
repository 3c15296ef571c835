---------------------------- MODULE Substitution ----------------------------
(***************************************************************************)
(* src/progs/qtbinpatcher inside of a file: patch_text_file, which makes   *)
(* the contents longer or shorter, and patch_bin_file, which must not, as  *)
(* the Qt directory is moved again and again.  Module QtBinPatcher has the *)
(* run around it, in which a file just names a path.                       *)
(*                                                                         *)
(* This is the Windows build, which knows three spellings of a path.  A    *)
(* path, a text and a binary are sequences of characters.  The theorems    *)
(* are in SubstitutionProofs.                                              *)
(***************************************************************************)
EXTENDS Naturals, Sequences, SequencesExt, FiniteSetsExt

CONSTANTS
    Char,        \* the characters
    Paths,       \* where the Qt directory may be, with normal separators
    Params,      \* the parameters in a binary, a sequence of records; the
                 \* first one is the path itself
    Width,       \* the room that a binary has for the value of a parameter
    MaxPath,     \* QT_PATH_MAX_LEN
    Texts(_),    \* texts that mention a path in some way
    MaxRuns      \* bound on the number of runs

NUL == "NUL"
Slash == "/"
Backslash == "\\"

(* A path begins with a drive, which is nowhere else in a path, and has    *)
(* one separator behind it, as getcwd gives it; the values of the longest  *)
(* path fit into the room there is.                                        *)
Plain(s) == s \in Seq(Char) /\ \A n \in DOMAIN s : s[n] \notin {NUL, Backslash}

ASSUME SubstitutionAssumption ==
    /\ {NUL, Slash, Backslash} \subseteq Char
    /\ \A p \in Paths :
          /\ Plain(p) /\ Len(p) > 2 /\ p[2] = Slash /\ p[3] # Slash
          /\ \A q \in Paths : \A n \in 2..Len(p) : p[n] # q[1]
          /\ Texts(p) \subseteq Seq(Char)
    /\ Params \in Seq([prefix : Seq(Char), dir : Seq(Char)]) \ {<<>>}
    /\ Params[1].dir = <<>>
    /\ \A k \in DOMAIN Params :
          /\ Plain(Params[k].prefix) /\ Plain(Params[k].dir)
          /\ Len(Params[k].prefix) + MaxPath + 1 + Len(Params[k].dir) < Width
    /\ Width \in Nat /\ MaxPath \in Nat /\ MaxRuns \in Nat

-----------------------------------------------------------------------------
(* Spellings: C:/Qt, C:\Qt and, for strings in a program, C:\\Qt.          *)

Spellings == {"normal", "single", "double"}
Spelled(p, s) ==
    FlattenSeq([n \in DOMAIN p |->
        IF p[n] # Slash \/ s = "normal" THEN <<p[n]>>
        ELSE IF s = "single" THEN <<Backslash>> ELSE <<Backslash, Backslash>>])
Normal(p) == [n \in DOMAIN p |-> IF p[n] = Backslash THEN Slash ELSE p[n]]

(* get_text_patch_values: what a spelling is replaced by.                  *)
Replacement(p, s) == Spelled(p, IF s = "double" THEN "double" ELSE "normal")

(* The order of the map: "/" is less than a backslash; of the other two it *)
(* depends on the letter after the separator which one is less.            *)
Foremost(todo) == IF "normal" \in todo THEN {"normal"} ELSE todo

(* get_bin_patch_values: with native separators.                           *)
Value(a, p, separator) == a.prefix \o p \o (IF a.dir = <<>> THEN <<>> ELSE separator \o a.dir)
NewValue(k, p) == Value(Params[k], Spelled(p, "single"), <<Backslash>>)

At(buf, n, k) == n + Len(k) - 1 <= Len(buf) /\ SubSeq(buf, n, n + Len(k) - 1) = k
Occurrences(buf, k) == {n \in DOMAIN buf : At(buf, n, k)}

(* What a binary has for a path when it is built, and when it is patched;  *)
(* the prefix of a parameter, such as qt_prfxpath=, only at the beginning  *)
(* of its value.                                                           *)
BuiltValues(p) == [k \in DOMAIN Params |-> Value(Params[k], p, <<Slash>>)]
NewValues(p) == [k \in DOMAIN Params |-> NewValue(k, p)]

ASSUME PrefixAssumption ==
    \A p \in Paths : \A values \in {BuiltValues(p), NewValues(p)} :
        \A k, l \in DOMAIN Params :
            Occurrences(values[k], Params[l].prefix) \subseteq IF k = l THEN {1} ELSE {}

(* A binary as it was built: one value after the other, each filled up     *)
(* with zeros; and the k-th value in it: all up to the first zero.         *)
Padded(v) == v \o [n \in 1..(Width - Len(v)) |-> NUL]
Binary(p) == FlattenSeq([k \in DOMAIN Params |-> Padded(BuiltValues(p)[k])])
Reads(b, k) ==
    LET start == (k - 1) * Width + 1
        zeros == {n \in start..Len(b) : b[n] = NUL}
    IN SubSeq(b, start, Min(zeros \union {Len(b) + 1}) - 1)

-----------------------------------------------------------------------------
VARIABLES
    built, orig,  \* the path Qt was built for, and the text as it was built
    text, binary, \* the contents of a text file and of a binary, such as qmake
    asked,        \* the values qmake had at the start of the run
    new,          \* NewQtPath
    pc,           \* "idle", "text" or "bin": the file that is patched
    todo, key,    \* the entries of PatchValues to come, and the one at work
    at,           \* where the search goes on: Delta, First
    runs

vars == <<built, orig, text, binary, asked, new, pc, todo, key, at, runs>>

Mentions(t, p) == \E s \in Spellings : Occurrences(t, Spelled(p, s)) # {}

OldValues(b) == [k \in DOMAIN Params |-> Reads(b, k)]
Answer(old) == SubSeq(old[1], Len(Params[1].prefix) + 1, Len(old[1]))   \* QT_INSTALL_PREFIX

(* A text may mention the path it was built for, and what is below it, but *)
(* not another of the paths.                                               *)
Init ==
    /\ built \in {p \in Paths : Len(p) <= MaxPath} /\ orig \in Texts(built)
    /\ \A p \in Paths : Mentions(orig, p) => Mentions(p, built)
    /\ text = orig /\ binary = Binary(built) /\ asked = OldValues(binary) /\ new = built
    /\ pc = "idle" /\ todo = {} /\ key = {} /\ at = 1 /\ runs = 0

(* The directory is moved, perhaps, and the patcher is run: it is at its   *)
(* end if the path is too long, or if qmake answers that very path.        *)
RunUnchecked(p) ==   \* mutant: a path may have any length
    /\ pc = "idle" /\ runs < MaxRuns
    /\ Spelled(p, "single") # Answer(OldValues(binary))
    /\ asked' = OldValues(binary) /\ new' = p
    /\ pc' = "text" /\ todo' = Spellings /\ key' = {} /\ at' = 1 /\ runs' = runs + 1
    /\ UNCHANGED <<built, orig, text, binary>>

Run(p) ==
    /\ pc = "idle" /\ runs < MaxRuns /\ Len(p) <= MaxPath
    /\ Spelled(p, "single") # Answer(OldValues(binary))
    /\ asked' = OldValues(binary) /\ new' = p
    /\ pc' = "text" /\ todo' = Spellings /\ key' = {} /\ at' = 1 /\ runs' = runs + 1
    /\ UNCHANGED <<built, orig, text, binary>>

-----------------------------------------------------------------------------
(* The loop over the entries, and the search for each.                     *)

Old == Normal(Answer(asked))
Pattern(k) == IF pc = "text" THEN Spelled(Old, k) ELSE asked[k]
Buffer == IF pc = "text" THEN text ELSE binary
Ahead(k) == {n \in Occurrences(Buffer, Pattern(k)) : n >= at}

Exhausted == \A k \in key : Ahead(k) = {}

NextEntry ==
    /\ pc # "idle" /\ Exhausted
    /\ \E k \in IF pc = "text" THEN Foremost(todo) ELSE todo :
          key' = {k} /\ todo' = todo \ {k}
    /\ at' = 1
    /\ UNCHANGED <<built, orig, text, binary, asked, new, pc, runs>>

TextEnds ==
    /\ pc = "text" /\ Exhausted /\ todo = {}
    /\ pc' = "bin" /\ todo' = DOMAIN Params /\ key' = {} /\ at' = 1
    /\ UNCHANGED <<built, orig, text, binary, asked, new, runs>>

BinaryEnds ==
    /\ pc = "bin" /\ Exhausted /\ todo = {}
    /\ pc' = "idle"
    /\ UNCHANGED <<built, orig, text, binary, asked, new, todo, key, at, runs>>

(* The old value is erased, the new one is inserted, and the search goes   *)
(* on behind it.                                                           *)
BehindOld(n, old, v) == n + Len(old)   \* mutant: where the old value has ended
AtNew(n, old, v) == n   \* mutant: in the new value
Behind(n, old, v) == n + Len(v)

Spliced(buf, n, old, v) ==
    SubSeq(buf, 1, n - 1) \o v \o SubSeq(buf, n + Len(old), Len(buf))

ReplaceInText ==
    /\ pc = "text" /\ ~Exhausted
    /\ \E k \in key :
          LET n == Min(Ahead(k))
              v == Replacement(new, k)
          IN text' = Spliced(text, n, Pattern(k), v) /\ at' = Behind(n, Pattern(k), v)
    /\ UNCHANGED <<built, orig, binary, asked, new, pc, todo, key, runs>>

(* strcpy with its zero, and zeros to the end of the old value if that was *)
(* longer; the file keeps its length.                                      *)
Overwrite(buf, n, v, old) ==
    [k \in DOMAIN buf |->
        IF k \in n..(n + Len(v) - 1) THEN v[k - n + 1]
        ELSE IF k \in (n + Len(v))..Max({n + Len(v), n + Len(old) - 1}) THEN NUL
        ELSE buf[k]]

ReplaceInBinary ==
    /\ pc = "bin" /\ ~Exhausted
    /\ \E k \in key :
          LET n == Min(Ahead(k))
              v == NewValue(k, new)
          IN /\ binary' = Overwrite(binary, n, v, Pattern(k))
             /\ at' = n + Max({Len(v), Len(Pattern(k))})
    /\ UNCHANGED <<built, orig, text, asked, new, pc, todo, key, runs>>

PatchStep == NextEntry \/ TextEnds \/ BinaryEnds \/ ReplaceInText \/ ReplaceInBinary
Next == (\E p \in Paths : Run(p)) \/ PatchStep

Spec == Init /\ [][Next]_vars

-----------------------------------------------------------------------------
(* Properties.                                                             *)

TypeOK ==
    /\ built \in Paths /\ new \in Paths
    /\ pc \in {"idle", "text", "bin"} /\ runs \in 0..MaxRuns
    /\ todo \union key \subseteq IF pc = "text" THEN Spellings ELSE DOMAIN Params
    /\ at \in 1..(Len(Buffer) + 1)

(* The reference: all spellings of a path are replaced at once.  A text is *)
(* cut where it mentions the path: each mention is put at its beginning,   *)
(* nothing is left of what it covers, and the rest stays.                  *)
HowAt(t, p, n) == {s \in Spellings : At(t, n, Spelled(p, s))}
How(t, p, n) == CHOOSE s \in Spellings : s \in HowAt(t, p, n)
Covered(t, p) ==
    {n \in DOMAIN t : \E m \in 1..(n - 1) : \E s \in HowAt(t, p, m) : n < m + Len(Spelled(p, s))}
Mentioned(t, p) == {n \in DOMAIN t \ Covered(t, p) : HowAt(t, p, n) # {}}

Cut(t, p, v) ==
    [n \in DOMAIN t |-> IF n \in Mentioned(t, p) THEN v[n]
                        ELSE IF n \in Covered(t, p) THEN <<>> ELSE <<t[n]>>]
Substituted(t, p, q) ==
    FlattenSeq(Cut(t, p, [n \in DOMAIN t |-> Replacement(q, How(t, p, n))]))

(* After any number of runs a text is the one that was built, with the     *)
(* present path where the first one was: spelling by spelling, in the      *)
(* order of a map, comes to the same as all at once; no run replaces what  *)
(* an earlier entry, or run, has inserted, nor leaves anything out.        *)
TextFollows ==
    pc = "idle" /\ runs > 0 => text = Substituted(orig, built, new)

(* The values in a binary follow as well, whether the paths get longer or  *)
(* shorter; none of them runs into the next, and behind them are zeros,    *)
(* the room for the next path.                                             *)
BinaryFollows ==
    pc = "idle" => [n \in DOMAIN binary |-> IF binary[n] = Backslash THEN Slash ELSE binary[n]]
                       = Binary(new)

(* The search ends, although the new path may have the old one in it, or   *)
(* be the same: each step of it that stays at an entry leaves less of the  *)
(* text to be searched.                                                    *)
SearchShrinks ==
    [][pc = "text" /\ UNCHANGED <<pc, todo>> => Len(text') - at' < Len(text) - at]_vars

-----------------------------------------------------------------------------
(* The inductive invariants.                                               *)

(* The binary is the values v, each in its room, with zeros behind it.     *)
Layout(b, v) ==
    /\ Len(b) = Len(Params) * Width
    /\ \A k \in DOMAIN Params, j \in 1..Width :
          b[(k - 1) * Width + j] = IF j <= Len(v[k]) THEN v[k][j] ELSE NUL

Fitting == {p \in Paths : Len(p) <= MaxPath}
TypeInv ==
    /\ TypeOK
    /\ built \in Fitting /\ new \in Fitting
    /\ text \in Seq(Char) /\ binary \in Seq(Char)
    /\ \A k, l \in key : k = l

(* Between runs the values are those of the path of the last run, in a run *)
(* those that it has asked qmake for, until they are replaced; the search  *)
(* goes on behind what has been replaced.                                  *)
Replaced == [k \in DOMAIN Params |->
                IF k \in todo \/ (k \in key /\ at = 1) THEN asked[k] ELSE NewValue(k, new)]
BinaryInv ==
    /\ pc = "idle" =>
          Layout(binary, IF runs = 0 THEN BuiltValues(new) ELSE NewValues(new))
    /\ pc # "idle" =>
          /\ runs > 0
          /\ \E p \in Fitting : asked \in {BuiltValues(p), NewValues(p)}
    /\ pc = "text" => Layout(binary, asked)
    /\ pc = "bin" =>
          /\ Layout(binary, Replaced) /\ key \intersect todo = {}
          /\ \A k \in key : at = 1 \/ at > (k - 1) * Width + 1

(* In a run the text has the new path where it mentioned the first one,    *)
(* for the entries that are done and for that at work as far as the search *)
(* has come, and the path of the last run in the other places: as it was   *)
(* spelled at first, or as the earlier runs have spelled it.               *)
Places(s) ==
    LET from[n \in 1..(Len(s) + 1)] == IF n = 1 THEN 1 ELSE from[n - 1] + Len(s[n - 1])
    IN from
Form(s) == IF s = "double" THEN "double" ELSE "normal"
Now(n) == IF runs = 1 THEN How(orig, built, n) ELSE Form(How(orig, built, n))
Put(done) ==
    Cut(orig, built, [n \in DOMAIN orig |->
        IF n \in done THEN Replacement(new, Now(n)) ELSE Spelled(Old, Now(n))])
Changed(done) ==
    /\ text = FlattenSeq(Put(done))
    /\ \A n \in Mentioned(orig, built) :
          n \in done <=> \/ Now(n) \notin todo \union key
                         \/ Now(n) \in key /\ Places(Put(done))[n] < at
TextInv ==
    /\ orig \in Seq(Char) /\ \A p \in Paths : Mentions(orig, p) => Mentions(p, built)
    /\ runs = 0 => new = built /\ text = orig
    /\ pc # "text" /\ runs > 0 => text = Substituted(orig, built, new)
    /\ pc = "text" =>
          /\ Old \in Fitting /\ (runs = 1 => Old = built) /\ key \intersect todo = {}
          /\ "normal" \in todo \union key => {"single", "double"} \subseteq todo
          /\ \E done \in SUBSET Mentioned(orig, built) : Changed(done)

SubstitutionInv == TypeInv /\ BinaryInv /\ TextInv
=============================================================================
