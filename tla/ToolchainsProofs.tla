-------------------------- MODULE ToolchainsProofs --------------------------
(***************************************************************************)
(* Theorems about module Toolchains, for every set of options, any number  *)
(* of runs and of versions of the toolchains.                              *)
(***************************************************************************)
EXTENDS Toolchains, PackageOrderProofs, FiniteSetTheorems, TLAPS

LEMMA FirstVersion == 1 \in Versions
BY ToolchainsAssumption DEF Versions

LEMMA ToolchainsInit == Init => ToolchainsInv
<1>. SUFFICES ASSUME Init PROVE ToolchainsInv
  OBVIOUS
<1>1. given \subseteq Args /\ todo = given
  BY DEF Init, kSubset
<1>2. o = Defaults /\ pc = "parse" /\ o \in Settings
  BY DEF Init, Defaults, Settings
<1>3. TypeOK
  <2>1. version \in Versions
    BY FirstVersion DEF Init
  <2>4. back \in BOOLEAN
    BY DEF Init
  <2>5. n \in 1..3
    BY DEF Init
  <2>2. tree \in [Place -> SUBSET {ArchiveOf(p, v) : p \in Place, v \in Versions}]
    BY DEF Init
  <2>3. unpacked = {}
    BY DEF Init
  <2>. QED
    BY <1>1, <1>2, <2>1, <2>2, <2>3, <2>4, <2>5 DEF TypeOK
<1>4. DirectoryInv
  BY <1>2 DEF DirectoryInv, Defaults, Work
<1>5. OptionsInv
  <2>1. given \ todo = {}
    BY <1>1
  <2>. QED
    BY <1>2, <2>1 DEF OptionsInv, Defaults
<1>7. TreeInv
  <2>1. tree = [p \in Place |-> {}]
    BY DEF Init
  <2>. QED
    BY <1>2, FirstVersion, <2>1 DEF TreeInv
<1>8. MarkersInv
  <2>1. unpacked = {} /\ n = 1
    BY DEF Init
  <2>2. \A p, v : MarkerOf(p, v) \notin unpacked
    BY <2>1
  <2>. QED
    BY <1>2, <2>1, <2>2 DEF MarkersInv, Work
<1>. QED
  BY <1>3, <1>4, <1>5, <1>7, <1>8 DEF ToolchainsInv

-----------------------------------------------------------------------------
(* The options: these actions leave everything on the disk alone.          *)

LEMMA SetSettings ==
    ASSUME o \in Settings, NEW arg \in AllArgs \ Final
    PROVE  Set(arg) \in Settings
<1>1. arg \in {"--buildroot", "--install-top", "--qt-version", "--qt-git-branch", "--make-jobs",
               "--toolchains-dir", "--update-sources", "--opengl-desktop", "--build-python",
               "--toolchain-python", "--build-ruby", "--no-qtcreator", "--static-qt",
               "--extra-stuff", "--osg", "--coin3d", "i686", "x86_64"}
  BY DEF AllArgs, Final, Values
<1>2. CASE arg = "--static-qt"
  BY <1>2 DEF Set, StaticQt, Settings, Values
<1>3. CASE arg \in Values
  BY <1>3 DEF Set, Settings, Values
<1>4. CASE arg = "--toolchains-dir"
  BY <1>4 DEF Set, Settings, Values
<1>5. CASE arg = "--update-sources"
  BY <1>5 DEF Set, Settings, Values
<1>6. CASE arg = "--opengl-desktop"
  BY <1>6 DEF Set, Settings, Values
<1>7. CASE arg = "--build-python"
  BY <1>7 DEF Set, Settings, Values
<1>8. CASE arg = "--toolchain-python"
  BY <1>8 DEF Set, Settings, Values
<1>9. CASE arg = "--build-ruby"
  BY <1>9 DEF Set, Settings, Values
<1>10. CASE arg = "--no-qtcreator"
  BY <1>10 DEF Set, Settings, Values
<1>11. CASE arg = "--extra-stuff"
  BY <1>11 DEF Set, Settings, Values
<1>12. CASE arg = "--osg"
  BY <1>12 DEF Set, Settings, Values
<1>13. CASE arg = "--coin3d"
  BY <1>13 DEF Set, Settings, Values
<1>14. CASE arg \in {"i686", "x86_64"}
  BY <1>14 DEF Set, Values
<1>. QED
  BY <1>1, <1>2, <1>3, <1>4, <1>5, <1>6, <1>7, <1>8, <1>9, <1>10, <1>11, <1>12, <1>13, <1>14
     DEF Values

LEMMA SetFields ==
    ASSUME o \in Settings, NEW arg \in AllArgs \ Final
    PROVE  /\ Set(arg).static = IF arg = "--static-qt" THEN TRUE ELSE o.static
           /\ Set(arg).user = IF arg = "--toolchains-dir" THEN TRUE ELSE o.user
           /\ Set(arg).desktop = IF arg \in {"--opengl-desktop", "--static-qt"}
                                 THEN TRUE ELSE o.desktop
           /\ Set(arg).opengl = IF arg = "--opengl-desktop" THEN TRUE ELSE o.opengl
           /\ Set(arg).creator = IF arg \in {"--no-qtcreator", "--static-qt"}
                                 THEN FALSE ELSE o.creator
           /\ Set(arg).extra = IF arg \in {"--extra-stuff", "--osg", "--coin3d"}
                               THEN TRUE ELSE o.extra
           /\ Set(arg).update = IF arg = "--update-sources" THEN TRUE ELSE o.update
           /\ Set(arg).named = o.named \union ({arg} \intersect Values)
           /\ Set(arg).toolchains = IF arg = "--toolchains-dir" THEN "user"
                                    ELSE IF arg = "--static-qt" /\ ~o.user THEN "win32"
                                    ELSE o.toolchains
           /\ Set(arg).url = IF arg = "--static-qt" THEN "win32" ELSE o.url
           /\ Set(arg).python = IF arg = "--build-python" THEN "self"
                                ELSE IF arg = "--toolchain-python" THEN "toolchain" ELSE o.python
<1>1. arg \in {"--buildroot", "--install-top", "--qt-version", "--qt-git-branch", "--make-jobs",
               "--toolchains-dir", "--update-sources", "--opengl-desktop", "--build-python",
               "--toolchain-python", "--build-ruby", "--no-qtcreator", "--static-qt",
               "--extra-stuff", "--osg", "--coin3d", "i686", "x86_64"}
  BY DEF AllArgs, Final, Values
<1>. USE <1>1 DEF Set, StaticQt, Settings, Values
<1>2. Set(arg).static = IF arg = "--static-qt" THEN TRUE ELSE o.static
  BY ZenonT(30)
<1>3. Set(arg).user = IF arg = "--toolchains-dir" THEN TRUE ELSE o.user
  BY ZenonT(30)
<1>4. Set(arg).desktop = IF arg \in {"--opengl-desktop", "--static-qt"} THEN TRUE ELSE o.desktop
  BY ZenonT(30)
<1>5. Set(arg).opengl = IF arg = "--opengl-desktop" THEN TRUE ELSE o.opengl
  BY ZenonT(30)
<1>6. Set(arg).creator = IF arg \in {"--no-qtcreator", "--static-qt"} THEN FALSE ELSE o.creator
  BY ZenonT(30)
<1>7. Set(arg).extra = IF arg \in {"--extra-stuff", "--osg", "--coin3d"} THEN TRUE ELSE o.extra
  BY ZenonT(30)
<1>8. Set(arg).update = IF arg = "--update-sources" THEN TRUE ELSE o.update
  BY ZenonT(30)
<1>9. Set(arg).named = o.named \union ({arg} \intersect Values)
  BY ZenonT(30)
<1>10. Set(arg).toolchains = IF arg = "--toolchains-dir" THEN "user"
                                    ELSE IF arg = "--static-qt" /\ ~o.user THEN "win32"
                                    ELSE o.toolchains
  BY ZenonT(30)
<1>11. Set(arg).url = IF arg = "--static-qt" THEN "win32" ELSE o.url
  BY ZenonT(30)
<1>12. Set(arg).python = IF arg = "--build-python" THEN "self"
                                ELSE IF arg = "--toolchain-python" THEN "toolchain" ELSE o.python
  BY ZenonT(30)
<1>. QED
  BY <1>2, <1>3, <1>4, <1>5, <1>6, <1>7, <1>8, <1>9, <1>10, <1>11, <1>12

LEMMA ParseKeeps ==
    ASSUME ToolchainsInv, NEW arg, NEW made, Parse(arg, made),
           UNCHANGED <<version, back, disk, n>>
    PROVE  ToolchainsInv'
<1>. USE DEF ToolchainsInv
<1>1. arg \in AllArgs \ Final /\ arg \in todo
  BY OptionsAssumption DEF Parse, TypeOK
<1>2. o' = Set(arg) /\ o' \in Settings
  BY <1>1, SetSettings DEF Parse, TypeOK
<1>3. TypeOK'
  BY <1>1, <1>2 DEF Parse, TypeOK, disk
<1>. o \in Settings
  BY DEF TypeOK
<1>4. /\ o'.static = IF arg = "--static-qt" THEN TRUE ELSE o.static
      /\ o'.user = IF arg = "--toolchains-dir" THEN TRUE ELSE o.user
      /\ o'.desktop = IF arg \in {"--opengl-desktop", "--static-qt"} THEN TRUE ELSE o.desktop
      /\ o'.opengl = IF arg = "--opengl-desktop" THEN TRUE ELSE o.opengl
      /\ o'.creator = IF arg \in {"--no-qtcreator", "--static-qt"} THEN FALSE ELSE o.creator
      /\ o'.extra = IF arg \in {"--extra-stuff", "--osg", "--coin3d"} THEN TRUE ELSE o.extra
      /\ o'.update = IF arg = "--update-sources" THEN TRUE ELSE o.update
      /\ o'.named = o.named \union ({arg} \intersect Values)
      /\ o'.toolchains = IF arg = "--toolchains-dir" THEN "user"
                      ELSE IF arg = "--static-qt" /\ ~o.user THEN "win32"
                      ELSE o.toolchains
      /\ o'.url = IF arg = "--static-qt" THEN "win32" ELSE o.url
      /\ o'.python = IF arg = "--build-python" THEN "self"
                      ELSE IF arg = "--toolchain-python" THEN "toolchain" ELSE o.python
  BY <1>1, <1>2, SetFields
<1>5. DirectoryInv'
  <2>1. pc' = "parse"
    BY DEF Parse
  <2>2. ASSUME ~o'.user
        PROVE  o'.toolchains = o'.url /\ o'.url = IF o'.static THEN "win32" ELSE "posix"
    <3>1. ~o.user /\ arg # "--toolchains-dir"
      BY <1>4, <2>2
    <3>2. o.toolchains = o.url /\ o.url = IF o.static THEN "win32" ELSE "posix"
      BY <3>1 DEF DirectoryInv
    <3>. QED
      BY <1>4, <3>1, <3>2
  <2>. QED
    BY <2>1, <2>2 DEF DirectoryInv, Work
<1>8. OptionsInv'
  <2>. DEFINE Read(x) == x \in given \ todo
              NowRead(x) == x \in given' \ todo'
  <2>1. \A x : NowRead(x) <=> Read(x) \/ x = arg
    BY <1>1 DEF Parse, TypeOK
  <2>2. /\ (o.static <=> Read("--static-qt"))
        /\ (o.user <=> Read("--toolchains-dir"))
        /\ (o.desktop <=> Read("--opengl-desktop") \/ Read("--static-qt"))
        /\ (o.opengl <=> Read("--opengl-desktop"))
        /\ (o.creator <=> ~(Read("--no-qtcreator") \/ Read("--static-qt")))
        /\ (o.extra <=> Read("--extra-stuff") \/ Read("--osg") \/ Read("--coin3d"))
        /\ (o.update <=> Read("--update-sources"))
        /\ o.named = (given \ todo) \intersect Values
        /\ Read("--toolchains-dir") => o.toolchains = "user"
        /\ Read("--build-python") /\ ~Read("--toolchain-python") => o.python = "self"
        /\ Read("--toolchain-python") /\ ~Read("--build-python") => o.python = "toolchain"
        /\ ~Read("--build-python") /\ ~Read("--toolchain-python") => o.python = "msys"
    BY DEF Parse, OptionsInv
  <2>3. o'.named = (given' \ todo') \intersect Values
    BY <1>1, <1>4, <2>2 DEF Parse, TypeOK
  <2>. HIDE DEF Read, NowRead
  <2>4. o'.static <=> NowRead("--static-qt")
    BY <1>4, <2>1, <2>2
  <2>5. o'.user <=> NowRead("--toolchains-dir")
    BY <1>4, <2>1, <2>2
  <2>6. o'.desktop <=> NowRead("--opengl-desktop") \/ NowRead("--static-qt")
    BY <1>4, <2>1, <2>2
  <2>7. o'.opengl <=> NowRead("--opengl-desktop")
    BY <1>4, <2>1, <2>2
  <2>8. o'.creator <=> ~(NowRead("--no-qtcreator") \/ NowRead("--static-qt"))
    BY <1>4, <2>1, <2>2
  <2>9. o'.extra <=> NowRead("--extra-stuff") \/ NowRead("--osg") \/ NowRead("--coin3d")
    BY <1>4, <2>1, <2>2
  <2>10. o'.update <=> NowRead("--update-sources")
    BY <1>4, <2>1, <2>2
  <2>11. NowRead("--toolchains-dir") => o'.toolchains = "user"
    BY <1>4, <2>1, <2>2
  <2>12. NowRead("--build-python") /\ ~NowRead("--toolchain-python") => o'.python = "self"
    BY <1>4, <2>1, <2>2
  <2>13. NowRead("--toolchain-python") /\ ~NowRead("--build-python") => o'.python = "toolchain"
    BY <1>4, <2>1, <2>2
  <2>14. ~NowRead("--build-python") /\ ~NowRead("--toolchain-python") => o'.python = "msys"
    BY <1>4, <2>1, <2>2
  <2>. QED
    BY <2>3, <2>4, <2>5, <2>6, <2>7, <2>8, <2>9, <2>10, <2>11, <2>12, <2>13, <2>14
    DEF OptionsInv, NowRead
<1>6. TreeInv'
  BY DEF Parse, TreeInv, disk
<1>7. MarkersInv'
  BY DEF Parse, MarkersInv, disk, Work
<1>. QED
  BY <1>3, <1>5, <1>6, <1>7, <1>8

LEMMA CheckSettings ==
    ASSUME o \in Settings, NEW python \in BOOLEAN, NEW ruby \in BOOLEAN, Check(python, ruby)
    PROVE  o' \in Settings
<1>1. o' = [o EXCEPT !.python = IF o.python = "msys" /\ ~python THEN "self" ELSE o.python,
                    !.ruby = o.ruby \/ ~ruby]
  BY DEF Check, Settings
<1>2. o'.python \in {"msys", "self", "toolchain"} /\ o'.ruby \in BOOLEAN
  BY DEF Check, Settings
<1>. QED
  BY <1>1, <1>2 DEF Settings

LEMMA CommandKeeps == ToolchainsInv /\ Command => ToolchainsInv'
<1>. SUFFICES ASSUME ToolchainsInv, Command PROVE ToolchainsInv'
  OBVIOUS
<1>. UNCHANGED <<version, back, disk, n>>
  BY DEF Command
<1>. USE DEF ToolchainsInv, options, disk
<1>1. ASSUME NEW arg \in todo, NEW made \in BOOLEAN, Parse(arg, made) PROVE ToolchainsInv'
  BY <1>1, ParseKeeps
<1>2. ASSUME pc' = "dead", UNCHANGED options PROVE ToolchainsInv'
  <2>1. TypeOK'
    BY <1>2 DEF TypeOK
  <2>2. DirectoryInv' /\ OptionsInv'
    BY <1>2 DEF DirectoryInv, OptionsInv, Work
  <2>3. TreeInv'
    BY <1>2 DEF TreeInv
  <2>4. MarkersInv'
    BY <1>2 DEF MarkersInv, Work
  <2>. QED
    BY <2>1, <2>2, <2>3, <2>4
<1>3. ASSUME pc = "parse", pc' = "toolchains", UNCHANGED options PROVE ToolchainsInv'
  <2>1. TypeOK'
    BY <1>3 DEF TypeOK
  <2>2. DirectoryInv' /\ OptionsInv'
    BY <1>3 DEF DirectoryInv, OptionsInv, Work
  <2>3. TreeInv'
    BY <1>3 DEF TreeInv
  <2>4. MarkersInv'
    BY <1>3 DEF MarkersInv, Work
  <2>. QED
    BY <2>1, <2>2, <2>3, <2>4
<1>4. ASSUME NEW python \in BOOLEAN, NEW ruby \in BOOLEAN, Check(python, ruby)
      PROVE  ToolchainsInv'
  <2>1. o' \in Settings
    BY <1>4, CheckSettings DEF TypeOK
  <2>2. TypeOK'
    BY <1>4, <2>1 DEF Check, TypeOK
  <2>3. o'.user = o.user /\ o'.toolchains = o.toolchains /\ o'.url = o.url /\ o'.static = o.static
    BY <1>4 DEF Check, TypeOK, Settings
  <2>4. DirectoryInv' /\ OptionsInv'
    BY <1>4, <2>3 DEF Check, DirectoryInv, OptionsInv, Work
  <2>5. TreeInv'
    BY <1>4 DEF Check, TreeInv
  <2>6. MarkersInv'
    BY <1>4, <2>3 DEF Check, MarkersInv, Work
  <2>. QED
    BY <2>2, <2>4, <2>5, <2>6
<1>. QED
  BY <1>1, <1>2, <1>3, <1>4 DEF Command, ParseEnds, Parsed

-----------------------------------------------------------------------------
(* toolchains_prepare: these actions leave the options alone.              *)

LEMMA MarkersDiffer ==
    ASSUME NEW p \in Place, NEW q \in Place, NEW v, NEW w
    PROVE  /\ MarkerOf(p, v) = MarkerOf(q, w) <=> p = q /\ v = w
           /\ ArchiveOf(p, v) = ArchiveOf(p, w) <=> v = w
BY DEF MarkerOf, ArchiveOf, Place, Bits

LEMMA PlaceOf ==
    ASSUME ToolchainsInv, ~o.user, NEW i \in DOMAIN Bits
    PROVE  /\ <<o.toolchains, Bits[i]>> \in Place
           /\ <<Bits[i], o.url, version>> = ArchiveOf(<<o.toolchains, Bits[i]>>, version)
<1>1. o.toolchains \in {"posix", "win32"} /\ o.toolchains = o.url
  BY DEF ToolchainsInv, TypeOK, DirectoryInv, Settings
<1>. QED
  BY <1>1 DEF Place, ArchiveOf

LEMMA AtWork ==
    ASSUME ToolchainsInv, pc \in Work
    PROVE  /\ ~o.user /\ n \in DOMAIN Bits /\ n \in 1..2 /\ version \in Versions
           /\ Here \in Place /\ Archive = ArchiveOf(Here, version)
           /\ Marker = MarkerOf(Here, version) /\ Marker \notin unpacked
<1>1. ~o.user /\ n \in DOMAIN Bits /\ version \in Versions
  BY DEF ToolchainsInv, DirectoryInv, TypeOK
<1>2. n \in 1..2
  BY <1>1 DEF Bits
<1>3. Here \in Place /\ Archive = ArchiveOf(Here, version)
  BY <1>1, PlaceOf DEF Here, Archive
<1>4. Marker = MarkerOf(Here, version)
  BY <1>3 DEF Marker, MarkerOf, Here
<1>. QED
  BY <1>1, <1>2, <1>3, <1>4 DEF ToolchainsInv, MarkersInv

LEMMA StartKeeps ==
    ASSUME ToolchainsInv, NEW args \in SUBSET LaterArgs, NEW v \in Versions, StartRun(args, v)
    PROVE  ToolchainsInv'
<1>. USE DEF ToolchainsInv, StartRun, Start
<1>1. o' = Defaults /\ o' \in Settings
  BY DEF Defaults, Settings
<1>2. TypeOK'
  BY <1>1, ToolchainsAssumption DEF TypeOK, disk
<1>3. DirectoryInv'
  BY <1>1 DEF DirectoryInv, Defaults, Work
<1>4. OptionsInv'
  <2>1. given' \ todo' = {}
    OBVIOUS
  <2>. QED
    BY <1>1, <2>1 DEF OptionsInv, Defaults
<1>5. TreeInv'
  BY DEF TreeInv, disk
<1>6. MarkersInv'
  <2>1. ASSUME ~back', NEW p \in Place, NEW w \in Versions, MarkerOf(p, w) \in unpacked'
        PROVE  w <= version' /\ (w = version' => tree'[p] = {ArchiveOf(p, w)} /\ p \notin torn')
    <3>1. ~back /\ ~(v < version)
      BY <2>1
    <3>2. w <= version /\ (w = version => tree[p] = {ArchiveOf(p, w)} /\ p \notin torn)
      BY <2>1, <3>1 DEF MarkersInv, disk
    <3>3. v \in Nat /\ w \in Nat /\ version \in Nat
      BY ToolchainsAssumption DEF TypeOK, Versions
    <3>. QED
      BY <3>1, <3>2, <3>3 DEF disk
  <2>. QED
    BY <2>1 DEF MarkersInv, Work
<1>. QED
  BY <1>2, <1>3, <1>4, <1>5, <1>6

LEMMA PrepareKeeps == ToolchainsInv /\ Prepare => ToolchainsInv'
<1>. SUFFICES ASSUME ToolchainsInv, Prepare PROVE ToolchainsInv'
  OBVIOUS
<1>. USE DEF ToolchainsInv, Prepare, options, disk
<1>1. n \in 1..2 /\ ~o.user /\ Marker = MarkerOf(<<o.toolchains, Bits[n]>>, version)
  BY PlaceOf DEF Bits, Marker, MarkerOf, Archive
<1>2. TypeOK'
  BY <1>1 DEF TypeOK, Work
<1>3. DirectoryInv'
  BY <1>1 DEF DirectoryInv, Work
<1>4. OptionsInv'
  BY DEF OptionsInv
<1>5. TreeInv'
  BY DEF TreeInv
<1>6. MarkersInv'
  <2>1. \A p \in Place, v \in Versions : ~back' /\ MarkerOf(p, v) \in unpacked' =>
            v <= version' /\ (v = version' => tree'[p] = {ArchiveOf(p, v)} /\ p \notin torn')
    BY DEF MarkersInv
  <2>2. pc' \in Work => Marker' \notin unpacked'
    BY DEF Work, Marker, Archive
  <2>3. \A i \in 1..(n' - 1) : MarkerOf(<<o.toolchains, Bits[i]>>, version) \in unpacked
    <3>1. \A i \in 1..(n - 1) : MarkerOf(<<o.toolchains, Bits[i]>>, version) \in unpacked
      BY <1>1 DEF MarkersInv
    <3>2. CASE Marker \in unpacked
      <4>1. n' = n + 1 /\ \A i \in 1..n : i \in 1..(n - 1) \/ i = n
        BY <1>1, <3>2
      <4>2. n' - 1 = n
        BY <1>1, <4>1
      <4>. QED
        BY <1>1, <3>1, <3>2, <4>1, <4>2
    <3>3. CASE Marker \notin unpacked
      BY <3>1, <3>3
    <3>. QED
      BY <3>2, <3>3
  <2>. QED
    BY <1>1, <2>1, <2>2, <2>3 DEF MarkersInv, Work
<1>. QED
  BY <1>2, <1>3, <1>4, <1>5, <1>6

LEMMA RemovePreviousKeeps == ToolchainsInv /\ RemovePrevious => ToolchainsInv'
<1>. SUFFICES ASSUME ToolchainsInv, RemovePrevious PROVE ToolchainsInv'
  OBVIOUS
<1>. USE DEF ToolchainsInv, RemovePrevious, options
<1>1. pc \in Work
  BY DEF Work
<1>2. /\ ~o.user /\ n \in DOMAIN Bits /\ n \in 1..2 /\ version \in Versions
      /\ Here \in Place /\ Archive = ArchiveOf(Here, version)
      /\ Marker = MarkerOf(Here, version) /\ Marker \notin unpacked
  BY <1>1, AtWork
<1>3. TypeOK'
  BY <1>2 DEF TypeOK, Work
<1>4. DirectoryInv' /\ OptionsInv'
  BY <1>2 DEF DirectoryInv, OptionsInv, Work
<1>5. TreeInv'
  <2>1. Here' = Here /\ Archive' = Archive
    BY DEF Here, Archive
  <2>2. \A p \in Place : \E v \in Versions : tree'[p] \subseteq {ArchiveOf(p, v)}
    BY <1>2 DEF TreeInv, TypeOK
  <2>. QED
    BY <1>2, <2>1, <2>2 DEF TreeInv, TypeOK
<1>6. MarkersInv'
  <2>1. ASSUME ~back, NEW p \in Place, NEW v \in Versions, MarkerOf(p, v) \in unpacked
        PROVE  v <= version /\ (v = version => tree'[p] = {ArchiveOf(p, v)} /\ p \notin torn')
    BY <1>2, <2>1 DEF MarkersInv, TypeOK
  <2>2. Marker' = Marker
    BY DEF Marker, Archive
  <2>. QED
    BY <1>1, <1>2, <2>1, <2>2 DEF MarkersInv, Work
<1>. QED
  BY <1>3, <1>4, <1>5, <1>6

LEMMA DownloadKeeps == ToolchainsInv /\ Download => ToolchainsInv'
<1>. SUFFICES ASSUME ToolchainsInv, Download PROVE ToolchainsInv'
  OBVIOUS
<1>. USE DEF ToolchainsInv, Download, options
<1>1. pc \in Work
  BY DEF Work
<1>2. /\ ~o.user /\ n \in DOMAIN Bits /\ n \in 1..2 /\ version \in Versions
      /\ Here \in Place /\ Archive = ArchiveOf(Here, version)
      /\ Marker = MarkerOf(Here, version) /\ Marker \notin unpacked
  BY <1>1, AtWork
<1>3. TypeOK'
  BY <1>2 DEF TypeOK, Work
<1>4. DirectoryInv' /\ OptionsInv'
  BY <1>2 DEF DirectoryInv, OptionsInv, Work
<1>5. TreeInv'
  <2>1. Here' = Here /\ Archive' = Archive
    BY DEF Here, Archive
  <2>2. \A p \in Place : \E v \in Versions : tree'[p] \subseteq {ArchiveOf(p, v)}
    BY <1>2 DEF TreeInv, TypeOK
  <2>. QED
    BY <1>2, <2>1, <2>2 DEF TreeInv, TypeOK
<1>6. MarkersInv'
  <2>1. ASSUME ~back, NEW p \in Place, NEW v \in Versions, MarkerOf(p, v) \in unpacked
        PROVE  v <= version /\ (v = version => tree'[p] = {ArchiveOf(p, v)} /\ p \notin torn')
    BY <1>2, <2>1 DEF MarkersInv, TypeOK
  <2>2. Marker' = Marker
    BY DEF Marker, Archive
  <2>. QED
    BY <1>1, <1>2, <2>1, <2>2 DEF MarkersInv, Work
<1>. QED
  BY <1>3, <1>4, <1>5, <1>6

LEMMA DownloadedKeeps == ToolchainsInv /\ Downloaded => ToolchainsInv'
<1>. SUFFICES ASSUME ToolchainsInv, Downloaded PROVE ToolchainsInv'
  OBVIOUS
<1>. USE DEF ToolchainsInv, Downloaded, options
<1>1. pc \in Work
  BY DEF Work
<1>2. /\ ~o.user /\ n \in DOMAIN Bits /\ n \in 1..2 /\ version \in Versions
      /\ Here \in Place /\ Archive = ArchiveOf(Here, version)
      /\ Marker = MarkerOf(Here, version) /\ Marker \notin unpacked
  BY <1>1, AtWork
<1>3. TypeOK'
  BY <1>2 DEF TypeOK, Work
<1>4. DirectoryInv' /\ OptionsInv'
  BY <1>2 DEF DirectoryInv, OptionsInv, Work
<1>5. TreeInv'
  <2>1. Here' = Here /\ Archive' = Archive
    BY DEF Here, Archive
  <2>2. \A p \in Place : \E v \in Versions : tree'[p] \subseteq {ArchiveOf(p, v)}
    BY <1>2 DEF TreeInv, TypeOK
  <2>. QED
    BY <1>2, <2>1, <2>2 DEF TreeInv, TypeOK
<1>6. MarkersInv'
  <2>1. ASSUME ~back, NEW p \in Place, NEW v \in Versions, MarkerOf(p, v) \in unpacked
        PROVE  v <= version /\ (v = version => tree'[p] = {ArchiveOf(p, v)} /\ p \notin torn')
    BY <1>2, <2>1 DEF MarkersInv, TypeOK
  <2>2. Marker' = Marker
    BY DEF Marker, Archive
  <2>. QED
    BY <1>1, <1>2, <2>1, <2>2 DEF MarkersInv, Work
<1>. QED
  BY <1>3, <1>4, <1>5, <1>6

LEMMA UnpackKeeps == ToolchainsInv /\ Unpack => ToolchainsInv'
<1>. SUFFICES ASSUME ToolchainsInv, Unpack PROVE ToolchainsInv'
  OBVIOUS
<1>. USE DEF ToolchainsInv, Unpack, options
<1>1. pc \in Work
  BY DEF Work
<1>2. /\ ~o.user /\ n \in DOMAIN Bits /\ n \in 1..2 /\ version \in Versions
      /\ Here \in Place /\ Archive = ArchiveOf(Here, version)
      /\ Marker = MarkerOf(Here, version) /\ Marker \notin unpacked
  BY <1>1, AtWork
<1>3. TypeOK'
  BY <1>2 DEF TypeOK, Work
<1>4. DirectoryInv' /\ OptionsInv'
  BY <1>2 DEF DirectoryInv, OptionsInv, Work
<1>5. TreeInv'
  <2>1. Here' = Here /\ Archive' = Archive
    BY DEF Here, Archive
  <2>2. \A p \in Place : \E v \in Versions : tree'[p] \subseteq {ArchiveOf(p, v)}
    BY <1>2 DEF TreeInv, TypeOK
  <2>. QED
    BY <1>2, <2>1, <2>2 DEF TreeInv, TypeOK
<1>6. MarkersInv'
  <2>1. ASSUME ~back, NEW p \in Place, NEW v \in Versions, MarkerOf(p, v) \in unpacked
        PROVE  v <= version /\ (v = version => tree'[p] = {ArchiveOf(p, v)} /\ p \notin torn')
    BY <1>2, <2>1 DEF MarkersInv, TypeOK
  <2>2. Marker' = Marker
    BY DEF Marker, Archive
  <2>. QED
    BY <1>1, <1>2, <2>1, <2>2 DEF MarkersInv, Work
<1>. QED
  BY <1>3, <1>4, <1>5, <1>6

LEMMA UnpackedKeeps == ToolchainsInv /\ Unpacked => ToolchainsInv'
<1>. SUFFICES ASSUME ToolchainsInv, Unpacked PROVE ToolchainsInv'
  OBVIOUS
<1>. USE DEF ToolchainsInv, Unpacked, options
<1>1. pc \in Work
  BY DEF Work
<1>2. /\ ~o.user /\ n \in 1..2 /\ version \in Versions
      /\ Here \in Place /\ Archive = ArchiveOf(Here, version) /\ Marker = MarkerOf(Here, version)
  BY <1>1, AtWork
<1>3. tree[Here] = {Archive} /\ Here \notin torn
  BY DEF TreeInv
<1>4. TypeOK'
  BY <1>2 DEF TypeOK
<1>5. DirectoryInv' /\ OptionsInv'
  BY <1>2 DEF DirectoryInv, OptionsInv, Work
<1>6. TreeInv'
  BY DEF TreeInv
<1>7. MarkersInv'
  <2>1. ASSUME ~back, NEW p \in Place, NEW v \in Versions, MarkerOf(p, v) \in unpacked'
        PROVE  v <= version /\ (v = version => tree[p] = {ArchiveOf(p, v)} /\ p \notin torn)
    <3>1. CASE MarkerOf(p, v) \in unpacked
      BY <2>1, <3>1 DEF MarkersInv
    <3>2. CASE MarkerOf(p, v) = Marker
      <4>1. p = Here /\ v = version
        BY <1>2, <3>2, MarkersDiffer
      <4>. QED
        BY <1>2, <1>3, <4>1 DEF Versions
    <3>. QED
      BY <2>1, <3>1, <3>2
  <2>2. \A i \in 1..(n' - 1) : MarkerOf(<<o.toolchains, Bits[i]>>, version) \in unpacked'
    <3>1. \A i \in 1..(n - 1) : MarkerOf(<<o.toolchains, Bits[i]>>, version) \in unpacked
      BY <1>1, <1>2 DEF MarkersInv
    <3>2. \A i \in 1..(n' - 1) : i \in 1..(n - 1) \/ i = n
      BY <1>2
    <3>. QED
      BY <1>2, <3>1, <3>2 DEF Here
  <2>. QED
    BY <2>1, <2>2 DEF MarkersInv, Work
<1>. QED
  BY <1>4, <1>5, <1>6, <1>7

LEMMA StopKeeps == ToolchainsInv /\ Stop => ToolchainsInv'
<1>. SUFFICES ASSUME ToolchainsInv, Stop PROVE ToolchainsInv'
  OBVIOUS
<1>. USE DEF ToolchainsInv, options, disk
<1>1. pc \in Work
  BY DEF Stop, Work
<1>2. /\ ~o.user /\ n \in 1..2 /\ version \in Versions
      /\ Here \in Place /\ Archive = ArchiveOf(Here, version)
      /\ Marker = MarkerOf(Here, version) /\ Marker \notin unpacked
  BY <1>1, AtWork
<1>3. /\ pc' = "dead" /\ UNCHANGED <<options, version, back, n, unpacked>>
      /\ \/ tree' = tree
         \/ pc = "unpack" /\ tree' = [tree EXCEPT ![Here] = @ \union {Archive}]
      /\ torn' \subseteq torn \union {Here}
  BY DEF Stop
<1>4. TypeOK'
  BY <1>2, <1>3 DEF TypeOK
<1>5. DirectoryInv' /\ OptionsInv'
  BY <1>3 DEF DirectoryInv, OptionsInv, Work
<1>6. TreeInv'
  BY <1>2, <1>3 DEF TreeInv, TypeOK
<1>7. MarkersInv'
  <2>1. ASSUME ~back, NEW p \in Place, NEW v \in Versions, MarkerOf(p, v) \in unpacked
        PROVE  v <= version /\ (v = version => tree'[p] = {ArchiveOf(p, v)} /\ p \notin torn')
    BY <1>2, <1>3, <2>1 DEF MarkersInv, TypeOK
  <2>. QED
    BY <1>3, <2>1 DEF MarkersInv, Work
<1>. QED
  BY <1>4, <1>5, <1>6, <1>7

LEMMA PreparedKeeps ==
    ASSUME ToolchainsInv, NEW user \in BOOLEAN, Prepared(user)
    PROVE  ToolchainsInv'
<1>. USE DEF ToolchainsInv, Prepared, options, disk
<1>1. TypeOK'
  BY DEF TypeOK
<1>2. DirectoryInv' /\ OptionsInv'
  BY DEF DirectoryInv, OptionsInv, Work
<1>3. TreeInv'
  BY DEF TreeInv
<1>4. MarkersInv'
  <2>1. ASSUME pc' = "check", ~o.user
        PROVE  n = 3 /\ \A i \in DOMAIN Bits : tree[<<o.toolchains, Bits[i]>>] # {}
    BY <2>1 DEF Present, TypeOK, Bits
  <2>. QED
    BY <2>1 DEF MarkersInv, Work
<1>. QED
  BY <1>1, <1>2, <1>3, <1>4

LEMMA ToolchainsNext == ToolchainsInv /\ [Next]_vars => ToolchainsInv'
<1>. SUFFICES ASSUME ToolchainsInv, [Next]_vars PROVE ToolchainsInv'
  OBVIOUS
<1>1. CASE UNCHANGED vars
  BY <1>1 DEF vars, options, disk, ToolchainsInv, TypeOK, DirectoryInv, OptionsInv, TreeInv,
    MarkersInv, Here, Archive, Marker
<1>2. CASE Next
  BY <1>2, StartKeeps, CommandKeeps, PrepareKeeps, RemovePreviousKeeps, DownloadKeeps,
     DownloadedKeeps, UnpackKeeps, UnpackedKeeps, StopKeeps, PreparedKeeps DEF Next
<1>. QED
  BY <1>1, <1>2

-----------------------------------------------------------------------------
(* However the runs before ended, and whatever they were for: markers,     *)
(* directories and options fit each other (TreeInv, MarkersInv,            *)
(* DirectoryInv, OptionsInv).                                              *)
THEOREM ToolchainsInvariant == Spec => []ToolchainsInv
BY ToolchainsInit, ToolchainsNext, PTL DEF Spec

(* A build begins only with toolchains each of which is from one archive,  *)
(* whole and of the version buildall asks for, unless that went back.      *)
THEOREM ToolchainsAreWhole == Spec => []ToolchainIsWhole
<1>1. ASSUME ToolchainsInv PROVE ToolchainIsWhole
  <2>. SUFFICES ASSUME pc \in {"check", "build"}, ~o.user, NEW i \in DOMAIN Bits,
                       NEW here, here = <<o.toolchains, Bits[i]>>
                PROVE  /\ Cardinality(tree[here]) = 1
                       /\ ~back =>
                             /\ tree[here] = {<<Bits[i], IF o.static THEN "win32" ELSE "posix",
                                                version>>}
                             /\ here \notin torn
    BY DEF ToolchainIsWhole
  <2>1. /\ here \in Place /\ <<Bits[i], o.url, version>> = ArchiveOf(here, version)
        /\ o.url = IF o.static THEN "win32" ELSE "posix"
    BY <1>1, PlaceOf DEF ToolchainsInv, DirectoryInv
  <2>2. n = 3 /\ tree[here] # {} /\ MarkerOf(here, version) \in unpacked /\ version \in Versions
    BY <1>1 DEF ToolchainsInv, MarkersInv, TypeOK, Bits
  <2>3. PICK v \in Versions : tree[here] \subseteq {ArchiveOf(here, v)}
    BY <1>1, <2>1 DEF ToolchainsInv, TreeInv
  <2>4. Cardinality(tree[here]) = 1
    <3>1. tree[here] = {ArchiveOf(here, v)}
      BY <2>2, <2>3
    <3>2. Cardinality({ArchiveOf(here, v)}) = 1
      BY FS_Singleton
    <3>. QED
      BY <3>1, <3>2
  <2>5. ~back => tree[here] = {ArchiveOf(here, version)} /\ here \notin torn
    BY <1>1, <2>1, <2>2 DEF ToolchainsInv, MarkersInv
  <2>. QED
    BY <2>1, <2>4, <2>5
<1>. QED
  BY <1>1, ToolchainsInvariant, PTL

(* The order of the options does not matter, whatever the options are.     *)
THEOREM OrderNeverMatters == Spec => []OrderIrrelevant
<1>1. ASSUME ToolchainsInv PROVE OrderIrrelevant
  <2>. SUFFICES ASSUME pc = "parse", todo = {} PROVE OrderIrrelevant
    BY DEF OrderIrrelevant
  <2>1. o \in Settings
    BY <1>1 DEF ToolchainsInv, TypeOK
  <2>. QED
    BY <1>1, <2>1 DEF ToolchainsInv, OptionsInv, DirectoryInv, OrderIrrelevant, Has, Settings
<1>. QED
  BY <1>1, ToolchainsInvariant, PTL

-----------------------------------------------------------------------------
(* The list.                                                               *)

LEMMA CheckLists ==
    ASSUME ToolchainsInv, ListInv, NEW python \in BOOLEAN, NEW ruby \in BOOLEAN,
           Check(python, ruby)
    PROVE  ListInv'
<1>1. o \in Settings /\ o' \in Settings
  BY CheckSettings DEF ToolchainsInv, TypeOK
<1>2. /\ o'.static = o.static /\ o'.creator = o.creator
      /\ o.python = "toolchain" => o'.python = "toolchain"
  BY <1>1 DEF Check, Settings
<1>. QED
  BY <1>2 DEF Check, ListInv, Has

LEMMA ListNext == ToolchainsInv /\ ListInv /\ [Next]_vars => ListInv'
<1>. SUFFICES ASSUME ToolchainsInv, ListInv, [Next]_vars PROVE ListInv'
  OBVIOUS
<1>. USE DEF ListInv, Has, options
<1>1. CASE UNCHANGED vars
  BY <1>1 DEF vars
<1>2. ASSUME NEW args \in SUBSET LaterArgs, NEW v \in Versions, StartRun(args, v) PROVE ListInv'
  BY <1>2 DEF StartRun, Start, Work
<1>3. CASE Command
  <2>1. ASSUME NEW arg \in todo, NEW made \in BOOLEAN, Parse(arg, made) PROVE ListInv'
    BY <2>1 DEF Parse, Work
  <2>2. CASE pc' = "dead"
    BY <2>2 DEF Work
  <2>3. ASSUME pc = "parse", todo = {}, pc' = "toolchains", UNCHANGED options PROVE ListInv'
    <3>1. /\ (o.static <=> Has("--static-qt")) /\ (o.static => ~o.creator)
          /\ Has("--toolchain-python") /\ ~Has("--build-python") => o.python = "toolchain"
      BY <2>3 DEF ToolchainsInv, OptionsInv
    <3>. QED
      BY <2>3, <3>1 DEF Work
  <2>4. ASSUME NEW python \in BOOLEAN, NEW ruby \in BOOLEAN, Check(python, ruby) PROVE ListInv'
    BY <2>4, CheckLists
  <2>. QED
    BY <1>3, <2>1, <2>2, <2>3, <2>4 DEF Command, ParseEnds, Parsed
<1>4. ASSUME pc \in Work \union {"toolchains"}, pc' # "build", UNCHANGED options PROVE ListInv'
  BY <1>4
<1>5. ASSUME NEW user \in BOOLEAN, Prepared(user) PROVE ListInv'
  BY <1>4, <1>5 DEF Prepared
<1>. QED
  BY <1>1, <1>2, <1>3, <1>4, <1>5
  DEF Next, Prepare, RemovePrevious, Download, Downloaded, Unpack, Unpacked, Stop, Work

LEMMA ListInvariant == Spec => []ListInv
<1>1. Init => ListInv
  BY DEF Init, ListInv, Work
<1>. QED
  BY <1>1, ListNext, ToolchainsInvariant, PTL DEF Spec

LEMMA PositionOf ==
    ASSUME NEW S, ListOf(list, S), NEW i \in DOMAIN list
    PROVE  Position(list[i]) = i
BY DEF ListOf, Position

(* Whatever the options, and whatever python and ruby are there: nothing   *)
(* is twice on the list, Qt comes before what links with it, and what is   *)
(* on it fits the options.                                                 *)
THEOREM ListsAreSound == Spec => []ListIsSound
<1>1. ASSUME ToolchainsInv, ListInv PROVE ListIsSound
  <2>. SUFFICES ASSUME pc = "build" PROVE ListIsSound
    BY DEF ListIsSound
  <2>1. o \in Settings /\ list = Packages(o)
    BY <1>1 DEF ToolchainsInv, TypeOK, ListInv
  <2>2. ListOf(list, Contents(o)) /\ Leads(list, "qt", NeedQt)
    BY <2>1, PackagesOnce DEF Switches, Settings
  <2>3. On = Contents(o)
    BY <2>2 DEF ListOf, Elements, On
  <2>. USE DEF StartSet, LibSet, SslSet, PySet, ToolsSet, FontsSet, ExtraSet, RubySet, QtSet,
           InstSet, QbsSet, CreatorSet, PopplerSet, CoinSet, OsgSet, Contents
  <2>4. \A i, j \in DOMAIN list : list[i] = list[j] => i = j
    BY <2>2 DEF ListOf
  <2>5. ("python2" \in On <=> o.python = "self") /\ "qt" \in On
    BY <2>3
  <2>6. Has("--toolchain-python") /\ ~Has("--build-python") => "python2" \notin On
    BY <1>1, <2>5 DEF ListInv
  <2>7. ASSUME NEW p \in On \intersect NeedQt PROVE Position("qt") < Position(p)
    <3>1. PICK i \in DOMAIN list : list[i] = p
      BY <2>7 DEF On
    <3>2. PICK k \in DOMAIN list : list[k] = "qt" /\ \A j \in DOMAIN list : list[j] \in NeedQt => k <= j
      BY <2>2 DEF Leads
    <3>3. i \in Nat /\ k \in Nat
      BY <2>2 DEF ListOf
    <3>4. p # "qt"
      BY <2>7 DEF NeedQt
    <3>5. k < i
      BY <3>1, <3>2, <3>3, <3>4
    <3>. QED
      BY <2>2, <3>1, <3>2, <3>5, PositionOf
  <2>8. Has("--static-qt") => On \intersect {"icu", "qbs", "qt-creator", "poppler"} = {}
    BY <1>1, <2>3 DEF ListInv
  <2>9. Cardinality(On \intersect {"qbs", "installer-framework"}) = 1
    <3>1. \/ On \intersect {"qbs", "installer-framework"} = {"qbs"}
          \/ On \intersect {"qbs", "installer-framework"} = {"installer-framework"}
      BY <2>1, <2>3 DEF Settings
    <3>. QED
      BY <3>1, FS_Singleton
  <2>. QED
    BY <2>4, <2>5, <2>6, <2>7, <2>8, <2>9 DEF ListIsSound, NeedQt
<1>. QED
  BY <1>1, ToolchainsInvariant, ListInvariant, PTL
=============================================================================
