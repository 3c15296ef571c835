----------------------------- MODULE Scenarios ------------------------------
(***************************************************************************)
(* The files of src/scenarios, as data.  A scenario defines the functions  *)
(* src_download ... pkg_install; here each is the sequence of the steps it *)
(* goes through, in the context c of a run: the architecture and the       *)
(* options.  Flags, versions and the commands' own work are left out.      *)
(*                                                                         *)
(* A directory or a marker file is the sequence of the parts of its name.  *)
(***************************************************************************)
EXTENDS Sequences

Suffix(c) == IF c.static THEN "-s" ELSE ""
QtDirPrefix(c) == IF c.opengl THEN "opengl" ELSE "angle"
QtVer(c) == IF c.version = "git" THEN <<"git", Suffix(c), "stable">> ELSE <<c.version, Suffix(c)>>

Unpacked(d) == <<"unpack">> \o d                     \* UNPACK_DIR/d
Source(d) == <<"src">> \o d                          \* SRC_DIR/d
Build(c, d) == <<"build", c.arch, Suffix(c)>> \o d   \* BUILD_DIR/d
Prefix(c) == <<c.top, "prerequisites", c.arch, Suffix(c)>>
QtDir(c) == <<c.top, "Qt">> \o QtVer(c) \o <<c.arch, QtDirPrefix(c)>>

(***************************************************************************)
(* A step: mark, its marker file (<<>>: none, the step is done anew by     *)
(* every run); needs and makes, the files and trees it reads and leaves;   *)
(* gives, where it installs; fails, what a failure may lead to: die, or    *)
(* the marker all the same (a step of several commands may do both);       *)
(* early, whether the marker is there before the work; always, whether     *)
(* the step is done although its marker exists; qtdir, whether it reads    *)
(* $QTDIR; isolated, whether change_paths and restore_paths are around it; *)
(* effect, what it does to the environment; stamps and reads, the files it *)
(* rewrites for the target and the ones it takes such contents from;       *)
(* inplace, the files it changes in place: until they are among what is    *)
(* left, a kill leaves them so that the step cannot be done again.         *)
(***************************************************************************)
Plain == [mark |-> <<>>, needs |-> {}, makes |-> {}, gives |-> {},
          fails |-> {"die"}, early |-> FALSE, always |-> FALSE,
          qtdir |-> FALSE, isolated |-> FALSE, effect |-> "none",
          stamps |-> {}, reads |-> {}, inplace |-> {}]

-----------------------------------------------------------------------------
(* The helper functions.  Each operator is a sequence of one step.         *)

Download(n, file) ==
    <<[Plain EXCEPT !.mark = <<"markers", n, "download">>, !.makes = {Source(<<file>>)}]>>
Clone(d) ==
    <<[Plain EXCEPT !.mark = <<"markers">> \o d \o <<"download">>, !.makes = {Unpacked(d)}]>>
Unpack(file, d) ==
    <<[Plain EXCEPT !.mark = <<"markers", file, "unpack">>,
                    !.needs = {Source(<<file>>)}, !.makes = {Unpacked(d)}]>>
UnpackAnyway(file, d) == <<[Unpack(file, d)[1] EXCEPT !.fails = {"ignore"}]>>
(* The marker is that of the last patch; over one without a marker no run  *)
(* gets, whatever is left of the tree.                                     *)
Patches(d, n) ==
    IF n = 0 THEN <<>>
    ELSE <<[Plain EXCEPT !.mark = Unpacked(d) \o <<"_patch">>, !.needs = {Unpacked(d)},
                         !.inplace = {Unpacked(d) \o <<"unmarked">>}]>>
LnDirsOneArgument(c, s, d) ==   \* mutant: the second argument is forgotten
    <<[Plain EXCEPT !.mark = Build(c, s) \o <<"lndirs">>,
                    !.needs = {Unpacked(s)}, !.makes = {Build(c, s)}]>>
LnDirs(c, s, d) ==
    <<[Plain EXCEPT !.mark = Build(c, d) \o <<"lndirs">>,
                    !.needs = {Unpacked(s)}, !.makes = {Build(c, d)}]>>
ConfigureIn(c, d, tree) ==
    <<[Plain EXCEPT !.mark = Build(c, d) \o <<"_configure">>,
                    !.needs = {tree}, !.makes = {Build(c, d)}]>>
Configure(c, d, s) == ConfigureIn(c, d, Unpacked(s))
Make(c, d, text) ==
    <<[Plain EXCEPT !.mark = Build(c, d) \o <<"_" \o text>>, !.needs = {Build(c, d)}]>>
Install(c, d, dest) == <<[Make(c, d, "installed")[1] EXCEPT !.gives = {dest}]>>

(* What the scenarios do by themselves.                                    *)
Checked(mark, needs) == <<[Plain EXCEPT !.mark = mark, !.needs = needs]>>
Unchecked(mark, needs) == <<[Checked(mark, needs)[1] EXCEPT !.fails = {"ignore"}]>>
Partly(mark, needs) == <<[Checked(mark, needs)[1] EXCEPT !.fails = {"die", "ignore"}]>>
InTree(d, name) == Unchecked(Unpacked(d) \o <<name>>, {Unpacked(d)})
InBuild(c, d, name) == Unchecked(Build(c, d) \o <<name>>, {Build(c, d)})
Rewrites(s, f) == <<[s[1] EXCEPT !.makes = {f}, !.inplace = {f}]>>
Effect(e) == <<[Plain EXCEPT !.effect = e]>>
Isolated(s) == <<[s[1] EXCEPT !.isolated = TRUE]>>
WithQtDir(s) == <<[s[1] EXCEPT !.qtdir = TRUE]>>

-----------------------------------------------------------------------------
(* The template, skelet.sh, and the scenarios that follow it.              *)

Scenario(depends, download, unpack, patch, configure, build, install) ==
    [depends |-> depends, src_download |-> download, src_unpack |-> unpack,
     src_patch |-> patch, src_configure |-> configure,
     pkg_build |-> build, pkg_install |-> install]

Standard(c, p, n, depends) ==
    Scenario(depends, Download(p, p), Unpack(p, <<p>>), Patches(<<p>>, n),
             Configure(c, <<p>>, <<p>>), Make(c, <<p>>, "built"),
             Install(c, <<p>>, Prefix(c)))

PkgConfig(c) == Standard(c, "pkg-config", 0, {})
Gperf(c) == Standard(c, "gperf", 0, {})
Lzo(c) == Standard(c, "lzo", 1, {})
Readline(c) == Standard(c, "readline", 4, {"ncurses"})
Xz(c) == Standard(c, "xz", 0, {})
Expat(c) == Standard(c, "expat", 0, {})
Libiconv(c) == Standard(c, "libiconv", 0, {})
Libffi(c) == Standard(c, "libffi", 0, {})
Yaml(c) == Standard(c, "yaml", 1, {})
Gettext(c) == Standard(c, "gettext", 0, {"expat", "libiconv", "libxml2", "readline"})
Libpng(c) == Standard(c, "libpng", 1, {})
Fontconfig(c) == Standard(c, "fontconfig", 0, {})
Hunspell(c) == Standard(c, "hunspell", 0, {})
LibjpegTurbo(c) == Standard(c, "libjpeg-turbo", 3, {})
Giflib(c) == Standard(c, "giflib", 0, {})
Freeglut(c) == Standard(c, "freeglut", 0, {})
Tiff(c) == Standard(c, "tiff", 0, {})
Lcms2(c) == Standard(c, "lcms2", 0, {})
Libidn(c) == Standard(c, "libidn", 0, {})
Libssh2(c) == Standard(c, "libssh2", 0, {})
Curl(c) == Standard(c, "curl", 0, {})
Libarchive(c) ==
    Standard(c, "libarchive", 1, {"bzip2", "expat", "libgnurx", "libxml2", "lzo", "xz"})
Ruby(c) == Standard(c, "ruby", 0, {})
Poppler(c) == Standard(c, "poppler", 0, {})
SDL(c) == Standard(c, "SDL", 0, {})
SDL2(c) == Standard(c, "SDL2", 1, {})

-----------------------------------------------------------------------------
(* A step of their own in the shared tree, before configure, or in the     *)
(* build directory after the installation.                                 *)

AfterInstall(c, s, p, name) == [s EXCEPT !.pkg_install = @ \o InBuild(c, <<p>>, name)]
BeforeConfigure(s, p) == [s EXCEPT !.src_configure = InTree(<<p>>, "pre-configure") \o @]
AfterPatch(s, p, name) == [s EXCEPT !.src_patch = @ \o InTree(<<p>>, name)]

Bzip2(c) == BeforeConfigure(Standard(c, "bzip2", 4, {}), "bzip2")
Libxml2(c) ==
    BeforeConfigure(Standard(c, "libxml2", 5, {"icu", "readline", "xz-utils", "zlib"}), "libxml2")
Libxslt(c) == BeforeConfigure(Standard(c, "libxslt", 4, {"libxml2"}), "libxslt")
Sqlite(c) == AfterPatch(Standard(c, "sqlite", 0, {"icu", "readline"}), "sqlite", "pre-configure")
Pcre(c) ==
    AfterPatch(Standard(c, "pcre", 1, {"bzip2", "readline", "zlib"}), "pcre", "pre-configure")
Ncurses(c) ==
    AfterInstall(c, Standard(c, "ncurses", 0, {"libgnurx"}), "ncurses", "post-install")
Dmake(c) == AfterInstall(c, Standard(c, "dmake", 1, {}), "dmake", "post-install")
Libgnurx(c) ==
    LET s == AfterPatch(Standard(c, "libgnurx", 1, {}), "libgnurx", "post-patch")
    IN AfterInstall(c,
           [s EXCEPT !.src_download = Download("libgnurx", "libgnurx-src"),
                     !.src_unpack = Unpack("libgnurx-src", <<"libgnurx">>)],
           "libgnurx", "post-install")
Python2NoHome(c) ==   \* mutant: PYTHONHOME is not exported
    AfterPatch(Standard(c, "Python", 32, {"expat", "libffi", "zlib"}), "Python", "post-patch")
Python2(c) ==
    LET s == AfterPatch(Standard(c, "Python", 32, {"expat", "libffi", "zlib"}),
                        "Python", "post-patch")
    IN [s EXCEPT !.pkg_install = @ \o Effect("PYTHONHOME")]
Freetype(c) ==
    LET s == Standard(c, "freetype", 2, {})
    IN [s EXCEPT !.src_download = @ \o Download("freetype-doc", "freetype-doc"),
                 !.src_unpack = @ \o Unpack("freetype-doc", <<"freetype-doc">>)]
Cmake(c) ==
    LET s == Standard(c, "cmake", 0,
                      {"curl", "expat", "libarchive", "ncurses", "pkg-config", "zlib"})
    IN [s EXCEPT !.src_configure = Effect("hideQtDir") \o @ \o Effect("restore_paths")]
Postgresql(c) ==
    LET s == Standard(c, "postgresql", 2, {})
    IN AfterInstall(c, [s EXCEPT !.src_configure = @ \o InBuild(c, <<"postgresql">>, "defs")],
                    "postgresql", "postinstall")

(* The archive holds a directory icu.  The test before the second block of *)
(* icu.sh runs in the background: every run goes through the block.        *)
Icu(c) ==
    LET s == Standard(c, "icu4c", 5, {})
        mv == [InTree(<<"icu4c">>, "post-unpack")[1]
                 EXCEPT !.needs = {Unpacked(<<"icu">>)}, !.makes = {Unpacked(<<"icu4c">>)}]
        autoconf == [InTree(<<"icu4c">>, "pre-configure")[1] EXCEPT !.always = TRUE]
    IN AfterInstall(c,
           [s EXCEPT !.src_unpack = Unpack("icu4c", <<"icu">>) \o <<mv>>,
                     !.src_configure = <<autoconf>> \o @],
           "icu4c", "post-install")

-----------------------------------------------------------------------------
(* Built in a tree of links to the sources.                                *)

(* minizip is configured and built inside of the build directory of zlib.  *)
Zlib(c) ==
    LET s == Standard(c, "zlib", 5, {})
        z == <<"zlib">>
        minizip == <<"zlib", "contrib/minizip">>
    IN [s EXCEPT
          !.src_configure = LnDirs(c, z, z) \o Configure(c, z, z),
          !.pkg_build = @ \o Checked(Build(c, z) \o <<"minizip_reconf">>, {Build(c, z)})
                          \o ConfigureIn(c, minizip, Build(c, z))
                          \o Make(c, minizip, "built")
                          \o Checked(Build(c, z) \o <<"pkgconfig">>, {Build(c, z)}),
          !.pkg_install = @ \o Make(c, minizip, "installed") \o InBuild(c, z, "pkg_install")]

Nasm(c) ==
    LET s == Standard(c, "nasm", 0, {})
    IN [s EXCEPT !.src_configure =
            LnDirs(c, <<"nasm">>, <<"nasm">>)
            \o ConfigureIn(c, <<"nasm">>, Build(c, <<"nasm">>))]

(* tcl and tk: the sources are in P_V-src, configured in win.              *)
TclTk(c, p, n) ==
    LET win == <<p, "win">>
        src == p \o "-src"
    IN Scenario({}, Download(p, src), Unpack(src, <<p>>), Patches(<<p>>, n),
                LnDirs(c, <<p>>, <<p>>) \o ConfigureIn(c, win, Build(c, <<p>>)),
                Make(c, win, "built"),
                Install(c, win, Prefix(c)) \o InBuild(c, <<p>>, "post-install"))
Tcl(c) == TclTk(c, "tcl", 5)
Tk(c) == [TclTk(c, "tk", 2) EXCEPT !.src_configure = @ \o InBuild(c, <<"tk">>, "post-conf")]

Openssl(c) ==
    LET s == Standard(c, "openssl", 7, {})
        d == <<"openssl">>
    IN [s EXCEPT !.src_configure = LnDirs(c, d, d)
                     \o Partly(Build(c, d) \o <<"configure">>, {Build(c, d)}),
                 !.pkg_build = Make(c, d, "built-depends") \o @]

(* makefile.mk is removed before its successor is renamed, and without it  *)
(* an empty one is made.                                                   *)
Perl(c) ==
    LET s == Standard(c, "perl", 2, {"dmake"})
        d == <<"perl">>
        makefile == Build(c, d) \o <<"win32", "makefile.mk">>
        win32(name) == Checked(Build(c, d) \o <<"win32", name>>, {Build(c, d), makefile})
    IN [s EXCEPT !.src_configure = LnDirs(c, d, d)
                     \o Rewrites(Unchecked(Build(c, d) \o <<"win32", "configure">>,
                                           {Build(c, d)}), makefile),
                 !.pkg_build = Isolated(win32("make")),
                 !.pkg_install = <<[Isolated(win32("install"))[1]
                                      EXCEPT !.gives = {Prefix(c)}]>>]

Jbigkit(c) ==
    LET s == Standard(c, "jbigkit", 1, {})
    IN [s EXCEPT !.src_configure = LnDirs(c, <<"jbigkit">>, <<"jbigkit">>)]
PopplerData(c) ==
    LET s == Standard(c, "poppler-data", 0, {})
    IN [s EXCEPT !.src_configure = LnDirs(c, <<"poppler-data">>, <<"poppler-data">>),
                 !.pkg_build = <<>>]

(* boost has markers of its own, and no test of its lndir.                 *)
Boost(c) ==
    LET s == Standard(c, "boost", 33, {})
        d == <<"boost">>
        own(name) == Checked(Build(c, d) \o <<name>>, {Build(c, d)})
        lndir == [Unchecked(Build(c, d) \o <<"lndir">>, {Unpacked(d)})[1]
                    EXCEPT !.makes = {Build(c, d)}]
    IN [s EXCEPT !.src_configure = <<lndir>> \o own("configure"),
                 !.pkg_build = own("build"),
                 !.pkg_install = <<[own("install")[1] EXCEPT !.gives = {Prefix(c)}]>>]

-----------------------------------------------------------------------------
(* Checkouts, and scenarios that use cmake or the qmake of Qt.             *)

Generated(c, d, needs) ==
    <<[Checked(Build(c, d) \o <<"configure">>, needs)[1] EXCEPT !.makes = {Build(c, d)}]>>

ColladaDom(c) ==
    LET s == Standard(c, "collada-dom", 1, {})
        d == <<"collada-dom">>
    IN AfterInstall(c,
           [s EXCEPT !.src_download = Clone(d), !.src_unpack = <<>>,
                     !.src_configure = Generated(c, d, {Unpacked(d)})],
           "collada-dom", "post-install")
OpenSceneGraph(c) ==
    LET s == Standard(c, "OpenSceneGraph", 1, {})
        d == <<"OpenSceneGraph">>
    IN [s EXCEPT !.src_configure =
            <<[Generated(c, d, {Unpacked(d)})[1] EXCEPT !.qtdir = ~c.desktop]>>]

Cloned(c, p) ==
    [Standard(c, p, 0, {}) EXCEPT !.src_download = Clone(<<p>>), !.src_unpack = <<>>]
Coin3d(c) == AfterInstall(c, Cloned(c, "coin3d"), "coin3d", "pkgconfig")

(* These export QTDIR for configure and unset it afterwards: the variable  *)
(* of buildall is gone.                                                    *)
UnsetsQtDir(s) == [s EXCEPT !.src_configure = WithQtDir(@) \o Effect("unset QTDIR")]
Simage(c) == UnsetsQtDir(AfterInstall(c, Cloned(c, "simage"), "simage", "pkgconfig"))
Simvoleon(c) ==
    LET s == UnsetsQtDir(AfterInstall(c, Cloned(c, "simvoleon"), "simvoleon", "pkgconfig"))
    IN [s EXCEPT !.src_download = @ \o Clone(<<"simvoleon", "lib/VolumeViz/Coin">>)]
Quarter(c) ==
    LET d == <<"quarter">> \o QtVer(c)
    IN UnsetsQtDir(
           [Cloned(c, "quarter") EXCEPT !.src_configure = Configure(c, d, <<"quarter">>),
                                        !.pkg_build = Make(c, d, "built"),
                                        !.pkg_install = Install(c, d, Prefix(c))])

(* qmake of the Qt just built generates the makefiles, and it is installed *)
(* into the directory of Qt.                                               *)
ForQt(c, download, unpack, d, tree, build) ==
    Scenario({"qt"}, download, unpack, <<>>, WithQtDir(Generated(c, d, {tree, QtDir(c)})),
             build, WithQtDir(Install(c, d, QtDir(c))))
PerQtVersion(c, p) == <<p>> \o QtVer(c)   \* mutant: no QTDIR_PREFIX in it
PerQt(c, p) == <<p>> \o QtVer(c) \o <<QtDirPrefix(c)>>

Qbs(c) ==
    LET d == PerQt(c, "qbs")
    IN [ForQt(c, Clone(<<"qbs">>), <<>>, d, Unpacked(<<"qbs">>),
              Make(c, d, "built") \o Make(c, d, "built-docs")) EXCEPT !.depends = {}]
QtCreator(c) ==
    LET d == PerQt(c, "qt-creator")
        src == "qt-creator-src"
    IN ForQt(c, Download(src, src), UnpackAnyway(src, <<src>>), d, Unpacked(<<src>>),
             Make(c, d, "built"))
(* It is cloned into UNPACK_DIR and configured from SRC_DIR.               *)
InstallerFramework(c) ==
    LET p == <<"installer-framework">>
        d == p \o QtVer(c)
    IN ForQt(c, Clone(p), <<>>, d, Source(p), Make(c, d, "built"))
QtBinPatcher(c) ==
    LET d == PerQt(c, "qtbinpatcher")
        lndir == [Checked(Build(c, d) \o <<"qtbinpatcher">>, {})[1]
                    EXCEPT !.makes = {Build(c, d)}]
        cp == [Checked(Build(c, d) \o <<"install">> \o QtVer(c), {Build(c, d)})[1]
                 EXCEPT !.gives = {QtDir(c)}, !.qtdir = TRUE]
    IN Scenario({}, <<>>, <<lndir>>, <<>>, <<>>, Make(c, d, "built"), <<cp>>)

-----------------------------------------------------------------------------
(* Qt.                                                                     *)

When(cond, s) == IF cond THEN s ELSE <<>>

(* The directory is made first and filled by rsync then: it is the marker. *)
Databases(c) ==
    When(~c.static,
         <<[Unchecked(QtDir(c) \o <<"databases">>, {})[1]
              EXCEPT !.early = TRUE, !.qtdir = TRUE]>>)

(* qmake.conf is made anew for the target, from qmake.conf.patched, which  *)
(* the first run copies from it: half a copy is never made again.          *)
QmakeConf(tree) == tree \o <<"qmake.conf">>
RewriteConf(tree) ==
    LET step == [Plain EXCEPT !.needs = {tree}, !.fails = {"ignore"},
                              !.stamps = {QmakeConf(tree)}]
    IN Rewrites(<<step>>, tree \o <<"qmake.conf.patched">>)
Reading(tree, s) == [k \in DOMAIN s |-> [s[k] EXCEPT !.reads = {QmakeConf(tree)}]]

WithinForGood(s) == Effect("change_paths") \o s   \* mutant: no restore_paths
Within(s) == Effect("change_paths") \o s \o Effect("restore_paths")
InstallQt(c, d) == <<[Install(c, d, QtDir(c))[1] EXCEPT !.makes = {QtDir(c)}]>>
DocsOneMarker(c, d) ==   \* mutant: the marker of make is used for its docs
    Make(c, d, "built") \o Make(c, d, "installed-docs")
Docs(c, d) == Make(c, d, "built-docs") \o Make(c, d, "installed-docs")
Workaround(c, d, tree) ==
    When(~c.desktop, Unchecked(Build(c, d) \o <<"libGLESv2", "workaround">>, {tree}))
Qwindows(c, d) == When(c.static, InBuild(c, d, "qwindows"))

QtDepends ==
    {"gperf", "icu", "fontconfig", "freetype", "libxml2", "libxslt", "pcre", "perl", "ruby"}

Qt5Configure(c, tree, d) ==
    Databases(c) \o LnDirs(c, tree, d) \o RewriteConf(Build(c, d))
    \o Reading(Build(c, d),
               WithQtDir(Isolated(Checked(Build(c, d) \o <<"configure">>, {Build(c, d)}))))
Qt5Build(c, d, tree) ==
    Within(Workaround(c, d, tree) \o Reading(tree, Make(c, d, "built")))
Qt5Install(c, d, tree, more) ==
    Within(Reading(tree, InstallQt(c, d) \o Docs(c, d)) \o Qwindows(c, d) \o more)

(* n patches; more, what an installation ends with.                        *)
Qt5(c, n, more) ==
    LET tree == <<"qt-everywhere", c.version>>
        d == <<"qt", c.version, QtDirPrefix(c)>>
        gitignore == <<[Plain EXCEPT !.needs = {Unpacked(tree)}, !.fails = {"ignore"}]>>
    IN Scenario(QtDepends, Download(tree[1] \o c.version, tree[1] \o c.version),
                Unpack(tree[1] \o c.version, tree), Patches(tree, n) \o gitignore,
                Qt5Configure(c, tree, d), Qt5Build(c, d, Build(c, d)),
                Qt5Install(c, d, Build(c, d), more))
PkgConfigFiles(c) == InBuild(c, <<"qt", c.version, QtDirPrefix(c)>>, "pkgconfig")

Qt500(c) == Qt5(c, 14, <<>>)
Qt502(c) == Qt5(c, 6, <<>>)
Qt510(c) == Qt5(c, 6, <<>>)
Qt511(c) == Qt5(c, 7, PkgConfigFiles(c))
Qt520(c) == Qt5(c, 5, PkgConfigFiles(c))

(* A bracket that is not a brace ends the file before src_configure.       *)
Qt501(c) ==
    LET s == Qt5(c, 8, <<>>)
    IN [f \in {"depends", "src_download", "src_unpack", "src_patch"} |-> s[f]]

(* Patched in one directory, linked from another.                          *)
Qt48(c, n) ==
    LET tree == <<"qt-everywhere", c.version>>
        d == <<"qt", c.version>>
        b == Build(c, d)
    IN Scenario({}, Download(tree[1] \o c.version, tree[1] \o c.version),
                Unpack(tree[1] \o c.version, tree), Patches(d, n),
                Databases(c) \o LnDirs(c, tree, d) \o RewriteConf(b)
                \o Reading(b, WithQtDir(Isolated(Partly(b \o <<"configure">>, {b})))),
                Within(Checked(b \o <<"declarative", "workaround">>, {b})
                       \o Reading(b, Make(c, d, "built"))),
                Within(Reading(b, InstallQt(c, d)))
                \o InBuild(c, d, "private_headers") \o InBuild(c, d, "pkgconfig_files"))
Qt484(c) == Qt48(c, 12)
Qt485(c) == Qt48(c, 13)

Submodules ==
    <<"qtactiveqt", "qtbase", "qtdeclarative", "qtdoc", "qtgraphicaleffects",
      "qtimageformats", "qtjsbackend", "qtmultimedia", "qtquick1", "qtquickcontrols",
      "qtscript", "qtserialport", "qtsvg", "qttools", "qttranslations", "qtwebkit",
      "qtwebkit-examples", "qtxmlpatterns">>

(* The sources are in UNPACK_DIR, and qmake.conf is rewritten there; the   *)
(* workaround looks for them in SRC_DIR, as do put_sha1 and the cleaning   *)
(* of src_download, which do nothing.                                      *)
QtGit(c) ==
    LET p == <<"qt">> \o QtVer(c)
        d == p \o <<QtDirPrefix(c)>>
        tree == Unpacked(p)
    IN Scenario(QtDepends,
                Clone(p) \o [k \in DOMAIN Submodules |-> Clone(p \o <<Submodules[k]>>)[1]],
                <<>>, Patches(p, 6),
                RewriteConf(tree) \o Databases(c)
                \o Reading(tree, WithQtDir(Isolated(Generated(c, d, {tree})))),
                Within(Workaround(c, d, Source(p)) \o Reading(tree, Make(c, d, "built"))),
                Qt5Install(c, d, tree, <<>>))

(* ${SCENARIOS}/qt-${QT_VERSION}.sh                                        *)
Qt(c) ==
    CASE c.version = "4.8.4" -> Qt484(c)
      [] c.version = "4.8.5" -> Qt485(c)
      [] c.version = "5.0.0" -> Qt500(c)
      [] c.version = "5.0.1" -> Qt501(c)
      [] c.version = "5.0.2" -> Qt502(c)
      [] c.version = "5.1.0" -> Qt510(c)
      [] c.version = "5.1.1" -> Qt511(c)
      [] c.version = "5.2.0" -> Qt520(c)
      [] c.version = "git" -> QtGit(c)

(* The scenario that buildall sources for an element of PACKAGES.          *)
ScenarioOf(name, c) ==
    CASE name = "pkg-config" -> PkgConfig(c) [] name = "bzip2" -> Bzip2(c)
      [] name = "zlib" -> Zlib(c)            [] name = "gperf" -> Gperf(c)
      [] name = "libgnurx" -> Libgnurx(c)    [] name = "lzo" -> Lzo(c)
      [] name = "ncurses" -> Ncurses(c)      [] name = "readline" -> Readline(c)
      [] name = "xz" -> Xz(c)                [] name = "expat" -> Expat(c)
      [] name = "sqlite" -> Sqlite(c)        [] name = "tcl" -> Tcl(c)
      [] name = "tk" -> Tk(c)                [] name = "pcre" -> Pcre(c)
      [] name = "icu" -> Icu(c)              [] name = "libiconv" -> Libiconv(c)
      [] name = "libxml2" -> Libxml2(c)      [] name = "libxslt" -> Libxslt(c)
      [] name = "openssl" -> Openssl(c)      [] name = "libffi" -> Libffi(c)
      [] name = "python2" -> Python2(c)      [] name = "yaml" -> Yaml(c)
      [] name = "dmake" -> Dmake(c)          [] name = "perl" -> Perl(c)
      [] name = "gettext" -> Gettext(c)      [] name = "libpng" -> Libpng(c)
      [] name = "freetype" -> Freetype(c)    [] name = "fontconfig" -> Fontconfig(c)
      [] name = "nasm" -> Nasm(c)            [] name = "hunspell" -> Hunspell(c)
      [] name = "libjpeg-turbo" -> LibjpegTurbo(c)
      [] name = "giflib" -> Giflib(c)        [] name = "jbigkit" -> Jbigkit(c)
      [] name = "freeglut" -> Freeglut(c)    [] name = "tiff" -> Tiff(c)
      [] name = "lcms2" -> Lcms2(c)          [] name = "libidn" -> Libidn(c)
      [] name = "libssh2" -> Libssh2(c)      [] name = "curl" -> Curl(c)
      [] name = "libarchive" -> Libarchive(c)
      [] name = "cmake" -> Cmake(c)          [] name = "ruby" -> Ruby(c)
      [] name = "qt" -> Qt(c)                [] name = "qtbinpatcher" -> QtBinPatcher(c)
      [] name = "installer-framework" -> InstallerFramework(c)
      [] name = "qbs" -> Qbs(c)              [] name = "qt-creator" -> QtCreator(c)
      [] name = "poppler-data" -> PopplerData(c)
      [] name = "poppler" -> Poppler(c)      [] name = "boost" -> Boost(c)
      [] name = "simage" -> Simage(c)        [] name = "coin3d" -> Coin3d(c)
      [] name = "quarter" -> Quarter(c)      [] name = "simvoleon" -> Simvoleon(c)
      [] name = "SDL" -> SDL(c)              [] name = "SDL2" -> SDL2(c)
      [] name = "collada-dom" -> ColladaDom(c)
      [] name = "openscenegraph" -> OpenSceneGraph(c)
      [] name = "postgresql" -> Postgresql(c)
=============================================================================
