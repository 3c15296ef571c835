----------------------------- MODULE Toolchains -----------------------------
(***************************************************************************)
(* The start of src/buildall, run after run: the options (module Options), *)
(* then toolchains_prepare of src/helpers_functions.sh, which installs the *)
(* compilers for both architectures, whichever are to be built, unless the *)
(* user has some; then the list of packages.                               *)
(*                                                                         *)
(* The marker of an unpacked toolchain has the name of its archive, the    *)
(* directory it is unpacked to has not: mingw32 is mingw32 whatever the    *)
(* version.  The versions are variables in buildall, GCC_VERSION and       *)
(* REV_VERSION, which change as the repository is updated.                 *)
(***************************************************************************)
EXTENDS Options

CONSTANTS
    MaxArgs,      \* bound on the options of the first run
    LaterArgs,    \* the options of later runs
    MaxVersion    \* bound on the versions of the toolchains

ASSUME ToolchainsAssumption ==
    LaterArgs \subseteq Args /\ MaxArgs \in Nat /\ MaxVersion \in Nat \ {0}

Bits == <<"mingw32", "mingw64">>   \* in the order they are prepared in
Versions == 1..MaxVersion

VARIABLES
    version,    \* the one buildall asks for
    back,       \* that was a newer one before
    (* durable *)
    files,      \* the archives that are whole in SRC_DIR
    fetched,    \* the archives with a marker in MARKERS_DIR
    unpacked,   \* <<TOOLCHAINS_DIR, archive>>: with a marker there
    tree,       \* tree[<<TOOLCHAINS_DIR, bits>>]: which archives it is from
    torn,       \* the ones of these that are not whole
    (* volatile *)
    n           \* the toolchain at work, an index of Bits

disk == <<files, fetched, unpacked, tree, torn>>
vars == <<options, pc, version, back, disk, n>>

Place == {"posix", "win32"} \X {Bits[i] : i \in DOMAIN Bits}
Here == <<o.toolchains, Bits[n]>>
Archive == <<Bits[n], o.url, version>>
Marker == <<o.toolchains, Archive>>

Init ==
    /\ given \in UNION {kSubset(k, Args) : k \in 0..MaxArgs} /\ todo = given
    /\ o = Defaults /\ archs = <<>> /\ pc = "parse" /\ list = <<>>
    /\ version = 1 /\ back = FALSE
    /\ files = {} /\ fetched = {} /\ unpacked = {} /\ torn = {}
    /\ tree = [p \in Place |-> {}]
    /\ n = 1

(* The run before has ended, in one way or another.                        *)
StartRun(args, v) ==
    /\ pc \in {"dead", "build"}
    /\ Start(args)
    /\ version' = v /\ back' = (back \/ v < version)
    /\ n' = 1
    /\ UNCHANGED disk

Command ==
    /\ \/ \E arg \in todo, made \in BOOLEAN : Parse(arg, made) \/ ParseEnds(arg, made)
       \/ \E host64, scenario \in BOOLEAN : Parsed(host64, scenario)
       \/ \E python, ruby \in BOOLEAN : Check(python, ruby)
    /\ UNCHANGED <<version, back, disk, n>>

-----------------------------------------------------------------------------
(* toolchains_prepare, for the 32-bit toolchain and then the 64-bit one.   *)

Prepare ==
    /\ pc = "toolchains" /\ ~o.user /\ n \in DOMAIN Bits
    /\ IF Marker \in unpacked THEN n' = n + 1 /\ UNCHANGED pc
                              ELSE pc' = "remove" /\ UNCHANGED n
    /\ UNCHANGED <<options, version, back, disk>>

RemoveNothing ==   \* mutant: the new one is unpacked over the old one
    /\ pc = "remove" /\ pc' = "download"
    /\ UNCHANGED <<options, version, back, disk, n>>

RemovePrevious ==
    /\ pc = "remove" /\ pc' = "download"
    /\ tree' = [tree EXCEPT ![Here] = {}] /\ torn' = torn \ {Here}
    /\ UNCHANGED <<options, version, back, files, fetched, unpacked, n>>

(* func_download: a file without a marker is removed and loaded again.     *)
Download ==
    /\ pc = "download"
    /\ IF Archive \in fetched THEN pc' = "unpack" /\ UNCHANGED files
       ELSE pc' = "fetched" /\ files' = files \union {Archive}
    /\ UNCHANGED <<options, version, back, fetched, unpacked, tree, torn, n>>

Downloaded ==
    /\ pc = "fetched" /\ pc' = "unpack"
    /\ fetched' = fetched \union {Archive}
    /\ UNCHANGED <<options, version, back, files, unpacked, tree, torn, n>>

(* func_uncompress                                                         *)
Unpack ==
    /\ pc = "unpack" /\ Archive \in files /\ pc' = "unpacked"
    /\ tree' = [tree EXCEPT ![Here] = @ \union {Archive}]
    /\ torn' = torn \ {Here}
    /\ UNCHANGED <<options, version, back, files, fetched, unpacked, n>>

Unpacked ==
    /\ pc = "unpacked" /\ pc' = "toolchains"
    /\ unpacked' = unpacked \union {Marker}
    /\ n' = n + 1
    /\ UNCHANGED <<options, version, back, files, fetched, tree, torn>>

(* A tool fails and the run dies, or is killed, with a tool half-way.      *)
Stop ==
    /\ pc \in {"remove", "download", "fetched", "unpack", "unpacked"} /\ pc' = "dead"
    /\ \/ UNCHANGED disk
       \/ /\ pc = "remove" /\ tree[Here] # {} /\ torn' = torn \union {Here}
          /\ UNCHANGED <<files, fetched, unpacked, tree>>
       \/ /\ pc = "download" /\ Archive \notin fetched /\ files' = files \ {Archive}
          /\ UNCHANGED <<fetched, unpacked, tree, torn>>
       \/ /\ pc = "unpack" /\ torn' = torn \union {Here}
          /\ tree' = [tree EXCEPT ![Here] = @ \union {Archive}]
          /\ UNCHANGED <<files, fetched, unpacked>>
    /\ UNCHANGED <<options, version, back, n>>

(* Both directories must be there, the user's or the ones prepared.        *)
Present(user) == IF o.user THEN user
                 ELSE \A i \in DOMAIN Bits : tree[<<o.toolchains, Bits[i]>>] # {}

Prepared(user) ==
    /\ pc = "toolchains" /\ (o.user \/ n > Len(Bits))
    /\ pc' = IF Present(user) THEN "check" ELSE "dead"
    /\ UNCHANGED <<options, version, back, disk, n>>

Next ==
    \/ \E args \in SUBSET LaterArgs, v \in Versions : StartRun(args, v)
    \/ Command
    \/ Prepare \/ RemovePrevious \/ Download \/ Downloaded \/ Unpack \/ Unpacked \/ Stop
    \/ \E user \in BOOLEAN : Prepared(user)

Spec == Init /\ [][Next]_vars

-----------------------------------------------------------------------------
(* Properties.                                                             *)

(* However often the runs before died or were killed, and whatever they    *)
(* were for: what is built, is built with toolchains each of which is from *)
(* a single archive; it is whole, and the one buildall asks for, as long   *)
(* as buildall has not gone back to an older version, whose marker is      *)
(* still there.                                                            *)
ToolchainIsWhole ==
    pc \in {"check", "build"} /\ ~o.user =>
        \A i \in DOMAIN Bits :
            LET here == <<o.toolchains, Bits[i]>>
            IN /\ Cardinality(tree[here]) = 1
               /\ ~back => /\ tree[here] = {<<Bits[i], IF o.static THEN "win32" ELSE "posix", version>>}
                           /\ here \notin torn

-----------------------------------------------------------------------------
(* An inductive invariant: why the toolchains are whole, and the options   *)
(* mean the same in every order.                                           *)

Work == {"remove", "download", "fetched", "unpack", "unpacked"}
ArchiveOf(p, v) == <<p[2], p[1], v>>
MarkerOf(p, v) == <<p[1], ArchiveOf(p, v)>>
Settings ==
    [static: BOOLEAN, desktop: BOOLEAN, opengl: BOOLEAN, python: {"msys", "self", "toolchain"},
     ruby: BOOLEAN, creator: BOOLEAN, extra: BOOLEAN, osg: BOOLEAN, coin3d: BOOLEAN,
     toolchains: {"posix", "win32", "user"}, url: {"posix", "win32"}, user: BOOLEAN,
     update: BOOLEAN, named: SUBSET Values]

TypeOK ==
    /\ given \subseteq Args /\ todo \subseteq given /\ o \in Settings
    /\ pc \in {"parse", "toolchains", "check", "build", "dead"} \union Work
    /\ version \in Versions /\ back \in BOOLEAN /\ n \in 1..3
    /\ tree \in [Place -> SUBSET {ArchiveOf(p, v) : p \in Place, v \in Versions}]
    /\ unpacked \subseteq {MarkerOf(p, v) : p \in Place, v \in Versions}

(* Toolchains of his own are never worked on; the directory of the others  *)
(* goes with the archive.                                                  *)
DirectoryInv ==
    /\ ~o.user => o.toolchains = o.url /\ o.url = IF o.static THEN "win32" ELSE "posix"
    /\ pc \in Work => ~o.user /\ n \in DOMAIN Bits

(* Of the options read so far.                                             *)
OptionsInv ==
    pc = "parse" =>
        LET Read(arg) == arg \in given \ todo
        IN  /\ (o.static <=> Read("--static-qt")) /\ (o.user <=> Read("--toolchains-dir"))
            /\ o.desktop <=> (Read("--opengl-desktop") \/ Read("--static-qt"))
            /\ o.opengl <=> Read("--opengl-desktop")
            /\ o.creator <=> ~(Read("--no-qtcreator") \/ Read("--static-qt"))
            /\ o.extra <=> (Read("--extra-stuff") \/ Read("--osg") \/ Read("--coin3d"))
            /\ o.update <=> Read("--update-sources")
            /\ o.named = (given \ todo) \intersect Values
            /\ Read("--toolchains-dir") => o.toolchains = "user"
            /\ Read("--build-python") /\ ~Read("--toolchain-python") => o.python = "self"
            /\ Read("--toolchain-python") /\ ~Read("--build-python") => o.python = "toolchain"
            /\ ~Read("--build-python") /\ ~Read("--toolchain-python") => o.python = "msys"

(* A directory has files of one archive at most; nothing is unpacked into  *)
(* files of another.                                                       *)
TreeInv ==
    /\ \A p \in Place : \E v \in Versions : tree[p] \subseteq {ArchiveOf(p, v)}
    /\ pc \in {"download", "fetched", "unpack"} => tree[Here] = {}
    /\ pc = "unpacked" => tree[Here] = {Archive} /\ Here \notin torn

(* There is no marker from the future, and that of the present version     *)
(* means that the directory is what the archive has; it is missing while   *)
(* the directory is worked on, and there when it is used.                  *)
MarkersInv ==
    /\ ~back => \A p \in Place, v \in Versions :
          MarkerOf(p, v) \in unpacked =>
              v <= version /\ (v = version => tree[p] = {ArchiveOf(p, v)} /\ p \notin torn)
    /\ pc \in Work => Marker \notin unpacked
    /\ pc = "parse" => n = 1
    /\ pc \in Work \union {"toolchains", "check", "build"} /\ ~o.user =>
          \A i \in 1..(n - 1) : MarkerOf(<<o.toolchains, Bits[i]>>, version) \in unpacked
    /\ pc \in {"check", "build"} /\ ~o.user =>
          n = 3 /\ \A i \in DOMAIN Bits : tree[<<o.toolchains, Bits[i]>>] # {}

ToolchainsInv == TypeOK /\ DirectoryInv /\ OptionsInv /\ TreeInv /\ MarkersInv

(* From the options to the list: what the list depends on is what the      *)
(* options were, but for the python and ruby that were looked for.         *)
ListInv ==
    /\ pc \in Work \union {"toolchains", "check", "build"} =>
          /\ (o.static <=> Has("--static-qt")) /\ (o.static => ~o.creator)
          /\ Has("--toolchain-python") /\ ~Has("--build-python") => o.python = "toolchain"
    /\ pc = "build" => list = Packages(o)
=============================================================================
