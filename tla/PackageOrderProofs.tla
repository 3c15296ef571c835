------------------------- MODULE PackageOrderProofs -------------------------
(***************************************************************************)
(* What package_order.sh puts on the list, for all options: the packages,  *)
(* that there are no two of one name, and that Qt comes first of those     *)
(* that link with it.                                                      *)
(***************************************************************************)
EXTENDS PackageOrder, Naturals, TLAPS

Elements(s) == {s[i] : i \in DOMAIN s}

(* A list of the packages S, each of them once.                            *)
ListOf(s, S) ==
    /\ s \in Seq(S) /\ Elements(s) = S
    /\ \A i, j \in DOMAIN s : s[i] = s[j] => i = j

(* p is on the list, and nothing of S is before it.                        *)
Leads(s, p, S) ==
    \E k \in DOMAIN s : s[k] = p /\ \A j \in DOMAIN s : s[j] \in S => k <= j

LEMMA ConcatIndex ==
    ASSUME NEW P, NEW s \in Seq(P), NEW t \in Seq(P)
    PROVE  /\ s \o t \in Seq(P)
           /\ DOMAIN (s \o t) = 1..(Len(s) + Len(t))
           /\ \A i \in DOMAIN s : i \in DOMAIN (s \o t) /\ (s \o t)[i] = s[i]
           /\ \A i \in DOMAIN t : Len(s) + i \in DOMAIN (s \o t) /\ (s \o t)[Len(s) + i] = t[i]
           /\ \A i \in DOMAIN (s \o t) :
                 i \in DOMAIN s \/ \E j \in DOMAIN t : i = Len(s) + j
<1>1. Len(s) \in Nat /\ Len(t) \in Nat /\ DOMAIN s = 1..Len(s) /\ DOMAIN t = 1..Len(t)
  OBVIOUS
<1>2. s \o t \in Seq(P) /\ Len(s \o t) = Len(s) + Len(t)
  OBVIOUS
<1>3. DOMAIN (s \o t) = 1..(Len(s) + Len(t))
  BY <1>2
<1>4. \A i \in DOMAIN s : i \in DOMAIN (s \o t) /\ (s \o t)[i] = s[i]
  BY <1>1, <1>3
<1>5. \A i \in DOMAIN t : Len(s) + i \in DOMAIN (s \o t) /\ (s \o t)[Len(s) + i] = t[i]
  BY <1>1, <1>3
<1>6. ASSUME NEW i \in DOMAIN (s \o t)
      PROVE  i \in DOMAIN s \/ \E j \in DOMAIN t : i = Len(s) + j
  <2>1. CASE i <= Len(s)
    BY <1>1, <1>3, <2>1
  <2>2. CASE ~(i <= Len(s))
    <3>1. i - Len(s) \in DOMAIN t /\ i = Len(s) + (i - Len(s))
      BY <1>1, <1>3, <2>2
    <3>. QED
      BY <3>1
  <2>. QED
    BY <2>1, <2>2
<1>. QED
  BY <1>2, <1>3, <1>4, <1>5, <1>6

LEMMA Joined ==
    ASSUME NEW s, NEW S, NEW t, NEW T, ListOf(s, S), ListOf(t, T), S \intersect T = {}
    PROVE  ListOf(s \o t, S \union T)
<1>. DEFINE P == S \union T
<1>. s \in Seq(P) /\ t \in Seq(P) /\ Elements(s) = S /\ Elements(t) = T
  BY DEF ListOf
<1>. HIDE DEF P
<1>1. /\ s \o t \in Seq(P)
      /\ DOMAIN (s \o t) = 1..(Len(s) + Len(t))
      /\ \A i \in DOMAIN s : i \in DOMAIN (s \o t) /\ (s \o t)[i] = s[i]
      /\ \A i \in DOMAIN t : Len(s) + i \in DOMAIN (s \o t) /\ (s \o t)[Len(s) + i] = t[i]
      /\ \A i \in DOMAIN (s \o t) : i \in DOMAIN s \/ \E j \in DOMAIN t : i = Len(s) + j
  BY ConcatIndex
<1>2. Elements(s \o t) = S \union T
  <2>1. ASSUME NEW x \in S PROVE x \in Elements(s \o t)
    BY <1>1, <2>1 DEF Elements
  <2>2. ASSUME NEW x \in T PROVE x \in Elements(s \o t)
    <3>1. PICK j \in DOMAIN t : x = t[j]
      BY DEF Elements
    <3>2. Len(s) + j \in DOMAIN (s \o t) /\ (s \o t)[Len(s) + j] = x
      BY <1>1, <3>1
    <3>. QED
      BY <3>2 DEF Elements
  <2>3. ASSUME NEW i \in DOMAIN (s \o t) PROVE (s \o t)[i] \in S \union T
    BY <1>1, <2>3 DEF Elements
  <2>. QED
    BY <2>1, <2>2, <2>3 DEF Elements
<1>3. ASSUME NEW i \in DOMAIN (s \o t), NEW j \in DOMAIN (s \o t), (s \o t)[i] = (s \o t)[j]
      PROVE  i = j
  <2>1. \A k \in DOMAIN s, l \in DOMAIN t : s[k] # t[l]
    BY DEF Elements
  <2>2. CASE i \in DOMAIN s /\ j \in DOMAIN s
    BY <1>1, <1>3, <2>2 DEF ListOf
  <2>3. CASE \E k \in DOMAIN t, l \in DOMAIN t : i = Len(s) + k /\ j = Len(s) + l
    BY <1>1, <1>3, <2>3 DEF ListOf
  <2>. QED
    BY <1>1, <1>3, <2>1, <2>2, <2>3
<1>. QED
  BY <1>1, <1>2, <1>3 DEF ListOf, P

LEMMA Chosen ==
    ASSUME NEW c \in BOOLEAN, NEW s, NEW S, ListOf(s, S)
    PROVE  ListOf(If(c, s), IF c THEN S ELSE {})
<1>1. <<>> \in Seq({}) /\ DOMAIN <<>> = {}
  OBVIOUS
<1>2. ListOf(<<>>, {})
  BY <1>1 DEF ListOf, Elements
<1>. QED
  BY <1>2 DEF If

LEMMA LeadsOn ==
    ASSUME NEW P, NEW s \in Seq(P), NEW t \in Seq(P), NEW p, NEW N, Leads(s, p, N)
    PROVE  Leads(s \o t, p, N)
<1>1. PICK k \in DOMAIN s : s[k] = p /\ \A j \in DOMAIN s : s[j] \in N => k <= j
  BY DEF Leads
<1>2. k \in DOMAIN (s \o t) /\ (s \o t)[k] = p
  BY <1>1, ConcatIndex
<1>3. ASSUME NEW j \in DOMAIN (s \o t), (s \o t)[j] \in N PROVE k <= j
  <2>1. CASE j \in DOMAIN s
    BY <1>1, <1>3, <2>1, ConcatIndex
  <2>2. CASE \E l \in DOMAIN t : j = Len(s) + l
    BY <1>1, <2>2
  <2>. QED
    BY <1>3, <2>1, <2>2, ConcatIndex
<1>. QED
  BY <1>2, <1>3 DEF Leads

(* A part of the list that some options add.                              *)
LEMMA Added ==
    ASSUME NEW s, NEW S, NEW t, NEW T, NEW c \in BOOLEAN,
           ListOf(s, S), ListOf(t, T), S \intersect T = {}
    PROVE  /\ ListOf(s \o If(c, t), S \union (IF c THEN T ELSE {}))
           /\ \A p, N : Leads(s, p, N) => Leads(s \o If(c, t), p, N)
<1>. DEFINE u == If(c, t)
            U == IF c THEN T ELSE {}
<1>1. ListOf(u, U)
  BY Chosen
<1>2. S \intersect U = {}
  OBVIOUS
<1>. HIDE DEF u, U
<1>3. ListOf(s \o u, S \union U)
  BY <1>1, <1>2, Joined
<1>4. s \in Seq(S \union U) /\ u \in Seq(S \union U)
  BY <1>1 DEF ListOf
<1>5. \A p, N : Leads(s, p, N) => Leads(s \o u, p, N)
  BY <1>4, LeadsOn
<1>. QED
  BY <1>3, <1>5 DEF u, U

-----------------------------------------------------------------------------
(* The parts of the list, from its start: no two of them have a package in *)
(* common.                                                                 *)

StartSet == {"pkg-config", "bzip2", "zlib", "gperf", "libgnurx", "lzo",
             "ncurses", "readline", "xz", "expat", "sqlite", "tcl", "tk"}
LibSet == {"pcre", "icu", "libiconv", "libxml2", "libxslt"}
SslSet == {"openssl"}
PySet == {"libffi", "python2"}
ToolsSet == {"yaml", "dmake", "perl", "gettext"}
FontsSet == {"libpng", "freetype", "fontconfig"}
ExtraSet == {"nasm", "hunspell", "libjpeg-turbo", "giflib", "jbigkit",
             "freeglut", "tiff", "lcms2", "libidn", "libssh2", "curl",
             "libarchive", "cmake"}
RubySet == {"ruby"}
QtSet == {"qt", "qtbinpatcher"}
InstSet == {"installer-framework"}
QbsSet == {"qbs"}
CreatorSet == {"qt-creator"}
PopplerSet == {"poppler-data", "poppler", "boost"}
CoinSet == {"simage", "coin3d", "quarter", "simvoleon"}
OsgSet == {"SDL", "collada-dom", "openscenegraph"}

(* What is on the list, for options o.                                     *)
Contents(o) ==
    StartSet
    \union (IF ~o.static THEN LibSet ELSE {})
    \union SslSet
    \union (IF o.python = "self" THEN PySet ELSE {})
    \union ToolsSet
    \union (IF ~o.static THEN FontsSet ELSE {})
    \union (IF o.extra /\ ~o.static THEN ExtraSet ELSE {})
    \union (IF o.ruby THEN RubySet ELSE {})
    \union QtSet
    \union (IF o.static THEN InstSet ELSE {})
    \union (IF ~o.static THEN QbsSet ELSE {})
    \union (IF o.creator THEN CreatorSet ELSE {})
    \union (IF o.extra /\ ~o.static THEN PopplerSet ELSE {})
    \union (IF o.coin3d /\ ~o.static THEN CoinSet ELSE {})
    \union (IF o.osg /\ ~o.static THEN OsgSet ELSE {})

(* What is set to TRUE or FALSE, and what links with Qt.                   *)
Switches(o) ==
    /\ o.static \in BOOLEAN /\ o.extra \in BOOLEAN /\ o.ruby \in BOOLEAN
    /\ o.creator \in BOOLEAN /\ o.coin3d \in BOOLEAN /\ o.osg \in BOOLEAN
NeedQt == {"qtbinpatcher", "installer-framework", "qbs", "qt-creator",
           "poppler", "simage", "quarter", "openscenegraph"}

(* T1 to T15 are the parts of the list, L1 to L15 the list as far as it is *)
(* put together, S1 to S15 what is on it by then.                          *)
LEMMA PackagesOnce ==
    ASSUME NEW o, Switches(o)
    PROVE  ListOf(Packages(o), Contents(o)) /\ Leads(Packages(o), "qt", NeedQt)
<1>. DEFINE T1 == <<"pkg-config", "bzip2", "zlib", "gperf", "libgnurx", "lzo",
                   "ncurses", "readline", "xz", "expat", "sqlite", "tcl", "tk">>
            T2 == <<"pcre", "icu", "libiconv", "libxml2", "libxslt">>
            T3 == <<"openssl">>
            T4 == <<"libffi", "python2">>
            T5 == <<"yaml", "dmake", "perl", "gettext">>
            T6 == <<"libpng", "freetype", "fontconfig">>
            T7 == <<"nasm", "hunspell", "libjpeg-turbo", "giflib", "jbigkit",
                   "freeglut", "tiff", "lcms2", "libidn", "libssh2", "curl",
                   "libarchive", "cmake">>
            T8 == <<"ruby">>
            T9 == <<"qt", "qtbinpatcher">>
            T10 == <<"installer-framework">>
            T11 == <<"qbs">>
            T12 == <<"qt-creator">>
            T13 == <<"poppler-data", "poppler", "boost">>
            T14 == <<"simage", "coin3d", "quarter", "simvoleon">>
            T15 == <<"SDL", "collada-dom", "openscenegraph">>
            L1 == T1
            L2 == L1 \o If(~o.static, T2)
            L3 == L2 \o T3
            L4 == L3 \o If(o.python = "self", T4)
            L5 == L4 \o T5
            L6 == L5 \o If(~o.static, T6)
            L7 == L6 \o If(o.extra /\ ~o.static, T7)
            L8 == L7 \o If(o.ruby, T8)
            L9 == L8 \o T9
            L10 == L9 \o If(o.static, T10)
            L11 == L10 \o If(~o.static, T11)
            L12 == L11 \o If(o.creator, T12)
            L13 == L12 \o If(o.extra /\ ~o.static, T13)
            L14 == L13 \o If(o.coin3d /\ ~o.static, T14)
            L15 == L14 \o If(o.osg /\ ~o.static, T15)
            S1 == StartSet
            S2 == S1 \union (IF ~o.static THEN LibSet ELSE {})
            S3 == S2 \union SslSet
            S4 == S3 \union (IF o.python = "self" THEN PySet ELSE {})
            S5 == S4 \union ToolsSet
            S6 == S5 \union (IF ~o.static THEN FontsSet ELSE {})
            S7 == S6 \union (IF o.extra /\ ~o.static THEN ExtraSet ELSE {})
            S8 == S7 \union (IF o.ruby THEN RubySet ELSE {})
            S9 == S8 \union QtSet
            S10 == S9 \union (IF o.static THEN InstSet ELSE {})
            S11 == S10 \union (IF ~o.static THEN QbsSet ELSE {})
            S12 == S11 \union (IF o.creator THEN CreatorSet ELSE {})
            S13 == S12 \union (IF o.extra /\ ~o.static THEN PopplerSet ELSE {})
            S14 == S13 \union (IF o.coin3d /\ ~o.static THEN CoinSet ELSE {})
            S15 == S14 \union (IF o.osg /\ ~o.static THEN OsgSet ELSE {})
<1>. Packages(o) = L15 /\ Contents(o) = S15
  BY DEF Packages, Libraries, If, Contents
<1>t1. ListOf(T1, StartSet)
  BY DEF ListOf, Elements, StartSet
<1>t2. ListOf(T2, LibSet)
  BY DEF ListOf, Elements, LibSet
<1>t3. ListOf(T3, SslSet)
  BY DEF ListOf, Elements, SslSet
<1>t4. ListOf(T4, PySet)
  BY DEF ListOf, Elements, PySet
<1>t5. ListOf(T5, ToolsSet)
  BY DEF ListOf, Elements, ToolsSet
<1>t6. ListOf(T6, FontsSet)
  BY DEF ListOf, Elements, FontsSet
<1>t7. ListOf(T7, ExtraSet)
  BY DEF ListOf, Elements, ExtraSet
<1>t8. ListOf(T8, RubySet)
  BY DEF ListOf, Elements, RubySet
<1>t9. ListOf(T9, QtSet)
  BY DEF ListOf, Elements, QtSet
<1>t10. ListOf(T10, InstSet)
  BY DEF ListOf, Elements, InstSet
<1>t11. ListOf(T11, QbsSet)
  BY DEF ListOf, Elements, QbsSet
<1>t12. ListOf(T12, CreatorSet)
  BY DEF ListOf, Elements, CreatorSet
<1>t13. ListOf(T13, PopplerSet)
  BY DEF ListOf, Elements, PopplerSet
<1>t14. ListOf(T14, CoinSet)
  BY DEF ListOf, Elements, CoinSet
<1>t15. ListOf(T15, OsgSet)
  BY DEF ListOf, Elements, OsgSet
<1>. HIDE DEF T1, T2, T3, T4, T5, T6, T7, T8, T9, T10, T11, T12, T13, T14, T15
<1>1. ListOf(L1, S1)
  BY <1>t1
<1>2. ListOf(L2, S2)
  <2>1. S1 \intersect LibSet = {}
    BY DEF StartSet, LibSet
  <2>. HIDE DEF L1, S1
  <2>. QED
    BY <1>1, <1>t2, <2>1, Added DEF Switches
<1>3. ListOf(L3, S3)
  <2>1. S2 \intersect SslSet = {}
    BY DEF StartSet, LibSet, SslSet
  <2>. HIDE DEF L2, S2
  <2>. QED
    BY <1>2, <1>t3, <2>1, Joined
<1>4. ListOf(L4, S4)
  <2>1. S3 \intersect PySet = {}
    BY DEF StartSet, LibSet, SslSet, PySet
  <2>. HIDE DEF L3, S3
  <2>. QED
    BY <1>3, <1>t4, <2>1, Added DEF Switches
<1>5. ListOf(L5, S5)
  <2>1. S4 \intersect ToolsSet = {}
    BY DEF StartSet, LibSet, SslSet, PySet, ToolsSet
  <2>. HIDE DEF L4, S4
  <2>. QED
    BY <1>4, <1>t5, <2>1, Joined
<1>6. ListOf(L6, S6)
  <2>1. S5 \intersect FontsSet = {}
    BY DEF StartSet, LibSet, SslSet, PySet, ToolsSet, FontsSet
  <2>. HIDE DEF L5, S5
  <2>. QED
    BY <1>5, <1>t6, <2>1, Added DEF Switches
<1>7. ListOf(L7, S7)
  <2>1. S6 \intersect ExtraSet = {}
    BY DEF StartSet, LibSet, SslSet, PySet, ToolsSet, FontsSet, ExtraSet
  <2>. HIDE DEF L6, S6
  <2>. QED
    BY <1>6, <1>t7, <2>1, Added DEF Switches
<1>8. ListOf(L8, S8)
  <2>1. S7 \intersect RubySet = {}
    BY DEF StartSet, LibSet, SslSet, PySet, ToolsSet, FontsSet, ExtraSet, RubySet
  <2>. HIDE DEF L7, S7
  <2>. QED
    BY <1>7, <1>t8, <2>1, Added DEF Switches
<1>9. ListOf(L9, S9) /\ Leads(L9, "qt", NeedQt)
  <2>1. S8 \intersect QtSet = {}
    BY DEF StartSet, LibSet, SslSet, PySet, ToolsSet, FontsSet, ExtraSet,
           RubySet, QtSet
  <2>2. S8 \intersect (NeedQt \union {"qt"}) = {}
    BY DEF NeedQt, StartSet, LibSet, SslSet, PySet, ToolsSet, FontsSet, ExtraSet,
           RubySet, QtSet
  <2>. HIDE DEF L8, S8
  <2>3. ListOf(L9, S9)
    BY <1>8, <1>t9, <2>1, Joined
  <2>4. Leads(L9, "qt", NeedQt)
    <3>. L8 \in Seq(S8 \union QtSet) /\ T9 \in Seq(S8 \union QtSet)
      BY <1>8, <1>t9 DEF ListOf
    <3>1. T9[1] = "qt" /\ 1 \in DOMAIN T9 /\ \A j \in DOMAIN T9 : 1 <= j
      BY DEF T9
    <3>2. Len(L8) + 1 \in DOMAIN L9 /\ L9[Len(L8) + 1] = "qt"
      BY <3>1, ConcatIndex
    <3>3. ASSUME NEW j \in DOMAIN L9, L9[j] \in NeedQt PROVE Len(L8) + 1 <= j
      <4>1. j \notin DOMAIN L8
        <5>1. \A i \in DOMAIN L8 : L9[i] \in S8
          BY <1>8, ConcatIndex DEF ListOf, Elements
        <5>. QED
          BY <2>2, <3>3, <5>1
      <4>2. PICK l \in DOMAIN T9 : j = Len(L8) + l
        BY <4>1, ConcatIndex
      <4>. QED
        BY <3>1, <4>2
    <3>. QED
      BY <3>2, <3>3 DEF Leads
  <2>. QED
    BY <2>3, <2>4
<1>10. ListOf(L10, S10) /\ Leads(L10, "qt", NeedQt)
  <2>1. S9 \intersect InstSet = {}
    BY DEF StartSet, LibSet, SslSet, PySet, ToolsSet, FontsSet, ExtraSet,
           RubySet, QtSet, InstSet
  <2>. HIDE DEF L9, S9
  <2>. QED
    BY <1>9, <1>t10, <2>1, Added DEF Switches
<1>11. ListOf(L11, S11) /\ Leads(L11, "qt", NeedQt)
  <2>1. S10 \intersect QbsSet = {}
    BY DEF StartSet, LibSet, SslSet, PySet, ToolsSet, FontsSet, ExtraSet,
           RubySet, QtSet, InstSet, QbsSet
  <2>. HIDE DEF L10, S10
  <2>. QED
    BY <1>10, <1>t11, <2>1, Added DEF Switches
<1>12. ListOf(L12, S12) /\ Leads(L12, "qt", NeedQt)
  <2>1. S11 \intersect CreatorSet = {}
    BY DEF StartSet, LibSet, SslSet, PySet, ToolsSet, FontsSet, ExtraSet,
           RubySet, QtSet, InstSet, QbsSet, CreatorSet
  <2>. HIDE DEF L11, S11
  <2>. QED
    BY <1>11, <1>t12, <2>1, Added DEF Switches
<1>13. ListOf(L13, S13) /\ Leads(L13, "qt", NeedQt)
  <2>1. S12 \intersect PopplerSet = {}
    BY DEF StartSet, LibSet, SslSet, PySet, ToolsSet, FontsSet, ExtraSet,
           RubySet, QtSet, InstSet, QbsSet, CreatorSet, PopplerSet
  <2>. HIDE DEF L12, S12
  <2>. QED
    BY <1>12, <1>t13, <2>1, Added DEF Switches
<1>14. ListOf(L14, S14) /\ Leads(L14, "qt", NeedQt)
  <2>1. S13 \intersect CoinSet = {}
    BY DEF StartSet, LibSet, SslSet, PySet, ToolsSet, FontsSet, ExtraSet,
           RubySet, QtSet, InstSet, QbsSet, CreatorSet, PopplerSet, CoinSet
  <2>. HIDE DEF L13, S13
  <2>. QED
    BY <1>13, <1>t14, <2>1, Added DEF Switches
<1>15. ListOf(L15, S15) /\ Leads(L15, "qt", NeedQt)
  <2>1. S14 \intersect OsgSet = {}
    BY DEF StartSet, LibSet, SslSet, PySet, ToolsSet, FontsSet, ExtraSet,
           RubySet, QtSet, InstSet, QbsSet, CreatorSet, PopplerSet, CoinSet,
           OsgSet
  <2>. HIDE DEF L14, S14
  <2>. QED
    BY <1>14, <1>t15, <2>1, Added DEF Switches
<1>. QED
  BY <1>15
=============================================================================
