---------------------------- MODULE PackageOrder ----------------------------
(***************************************************************************)
(* src/package_order.sh: the packages to build, in order, for options o.   *)
(***************************************************************************)
EXTENDS Sequences

If(cond, packages) == IF cond THEN packages ELSE <<>>

LibrariesSwapped(o) ==   \* mutant: libxslt before libxml2
    If(~o.static, <<"pcre", "icu", "libiconv", "libxslt", "libxml2">>)
Libraries(o) == If(~o.static, <<"pcre", "icu", "libiconv", "libxml2", "libxslt">>)

Packages(o) ==
    <<"pkg-config", "bzip2", "zlib", "gperf", "libgnurx", "lzo", "ncurses",
      "readline", "xz", "expat", "sqlite", "tcl", "tk">>
    \o Libraries(o)
    \o <<"openssl">>
    \o If(o.python = "self", <<"libffi", "python2">>)
    \o <<"yaml", "dmake", "perl", "gettext">>
    \o If(~o.static, <<"libpng", "freetype", "fontconfig">>)
    \o If(o.extra /\ ~o.static,
          <<"nasm", "hunspell", "libjpeg-turbo", "giflib", "jbigkit", "freeglut",
            "tiff", "lcms2", "libidn", "libssh2", "curl", "libarchive", "cmake">>)
    \o If(o.ruby, <<"ruby">>)
    \o <<"qt", "qtbinpatcher">>
    \o If(o.static, <<"installer-framework">>)
    \o If(~o.static, <<"qbs">>)
    \o If(o.creator, <<"qt-creator">>)
    \o If(o.extra /\ ~o.static, <<"poppler-data", "poppler", "boost">>)
    \o If(o.coin3d /\ ~o.static, <<"simage", "coin3d", "quarter", "simvoleon">>)
    \o If(o.osg /\ ~o.static, <<"SDL", "collada-dom", "openscenegraph">>)
=============================================================================
