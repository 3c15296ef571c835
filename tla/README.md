# Qt-builds: a verification project

Qt-builds builds Qt and everything Qt needs, from source, for MinGW.  It is a
set of bash scripts (`src/buildall`, `src/helpers_functions.sh`,
`src/package_order.sh`, `src/versions.sh` and one scenario for each package
under `src/scenarios`), patches for the packages, and one program in C++,
`qtbinpatcher`, which makes the result relocatable.

A full build takes many hours, is stopped and started again many times, and
its only memory between two runs are empty marker files beside the trees they
speak of.  qtbinpatcher changes an installed Qt in place, file by file.  Both
are small programs whose difficulty is what is left behind: by a run that stops
in the middle, by a run with other options, by a scenario in the shell it shares
with the next one.  That is what is modelled, checked and proved here.

## The system

| Part | State it keeps | Operations | Talks to |
|---|---|---|---|
| main loop, `buildall:332-415` | `ARCHITECTURE`, the list `PACKAGES`; per architecture a `BUILD_DIR`, `LOG_DIR`, `PREFIX`, `QTDIR` | for each architecture and each package: source the scenario, call its six functions | scenarios, exported environment |
| option parsing, `buildall:202-330` | some thirty variables | one branch for each option, checks at the end | everything else, by variables |
| helpers, `helpers_functions.sh` | markers in `MARKERS_DIR`, in `BUILD_DIR/<package>` and in the unpacked trees | download, unpack, apply patches, lndirs, configure, make, die | wget, git, svn, tar, patch, configure, make |
| toolchains, `helpers_functions.sh:59-99` | `mingw32`, `mingw64`, two markers | replace a toolchain | download, unpack |
| package list, `package_order.sh` | none | which packages, in which order, for which options | options |
| scenarios, 68 files | `P`, `P_V`, `EXT`, `URL`, patch list | six functions over the helpers; some rewrite files in place | helpers |
| qtbinpatcher | the files of a Qt directory, their `.bak`, `bin/qt.conf` | ask qmake, back up, patch, restore | qmake over a pipe, the file system |
| patches, versions | data | - | - |

What is hard here, and where:

* **Kills and failures between two steps.**  A marker is touched after the work
  it vouches for; whatever is in between must be done again, and must not be
  skipped (`helpers_functions.sh:447`).  For patches doing it again is not
  possible (`helpers_functions.sh:354-372`).
* **Shared and separate trees.**  Download, unpack and patch work on trees that
  all architectures share; lndirs, configure and make work below one target's
  `BUILD_DIR`.  Runs for other targets come in between.
* **Exit statuses that nobody looks at**: the real `patch` call (367), clean,
  reset and pull of a working copy (180-203), unpack with `--ignore` (278), and
  all of `src_configure` that rewrites a file.
  In qtbinpatcher they are `fclose` (553, 867, 920), `zero_file` (862) and the
  size of a file (838).
* **Files that are changed in place.**  qtbinpatcher empties and rewrites text
  files, overwrites binaries, and decides from one of them, qmake, whether
  there is anything left to do.  qt-git.sh rewrites qmake.conf, which all
  architectures share, for each of them (132-144).
* **Replacing one path by another** that may be longer, or have the old one in
  it, in texts that spell it in three ways and in binaries with a fixed room.
* **Waiting for qmake before reading what it writes** (`QtBinPatcher.cpp:355`).
* **One shell.**  All scenarios are sourced into the shell of `buildall`, which
  has one `PATH`, one `QTDIR` and one set of six function names; steps that
  change them and change them back may be skipped, or die, in between.
* **One disk for all options.**  Versions, linkage, OpenGL and architecture are
  parts of some directory and marker names and not of others.
* **Order.**  The package list is the only dependency order there is.

The properties that make each part correct are the ones of the runs below; the
list of hazards, each at its line and with the properties that would catch it,
is in `PROJECT.json`.

## The modules

| Module | What it is |
|---|---|
| `BuildPlan` | abstract: packages are installed one at a time, in order, and stay |
| `Pipeline` | the main loop, the helpers, the markers and the trees; implements `BuildPlan` |
| `PipelineProofs` | theorems about `Pipeline` |
| `DamageProofs` | the theorem about `Pipeline` with all its faults |
| `MCPipeline` | instances of `Pipeline` for TLC |
| `Options` | the command line, one option after the other, and the checks after it |
| `Toolchains` | run after run of the start of `buildall`: `Options`, then `toolchains_prepare`, then the list |
| `ToolchainsProofs` | theorems about `Toolchains` |
| `PackageOrder` | the package list as a function of the options |
| `PackageOrderProofs` | lemmas about the list: what is on it, each package once, Qt before what links with it |
| `Delivery` | abstract: a run of any options installs its list in order, and is done when all is there |
| `Scenarios` | every scenario as data: the steps of its six functions |
| `Build` | the main loops over `PackageOrder` and `Scenarios`: one shell, one disk; implements `Delivery` |
| `BuildInvariants` | why the properties of `Build` hold: conditions on scenarios and list, and inductive invariants |
| `BuildProofs` | theorems about `Build`, for any scenarios and lists that satisfy the conditions |
| `Paths` | `func_absolute_to_relative` as a function on sequences, and where its result leads to |
| `MCBuild` | instances of `Build` for TLC, and the names on which `Paths` is evaluated |
| `MCScenarios` | evaluates the conditions of `BuildInvariants` for the scenarios and lists of the repository |
| `SourceUpdate` | Qt from git: revisions, submodules, `--update-sources`, patches and `qmake.conf` in the working copies that the targets share |
| `SourceUpdateProofs` | theorems about `SourceUpdate` |
| `Relocation` | abstract: all files of the Qt directory change to its path in one step, but for those that an error spoils which nobody tests |
| `QtBinPatcher` | one run of `main` after the other; implements `Relocation` while backups are made and nothing is killed |
| `QtBinPatcherProofs` | theorems about `QtBinPatcher` |
| `MCPatcher` | instances of `QtBinPatcher` for TLC |
| `Substitution` | what `patch_text_file` and `patch_bin_file` do to the characters of a file, move after move |
| `SubstitutionProofs` | theorems about `Substitution` |
| `MCSubstitution` | an instance of `Substitution` for TLC |

### Pipeline

A package is a *recipe*, the sequence of the helper calls of its scenario, such
as download, unpack, patch, configure, make, make (the shape of
`scenarios/skelet.sh`).  `Place` says in which tree a call leaves its marker
and its product.  State and code:

| Variable | Code |
|---|---|
| `marker`, `pmarker` | the marker files of helper calls; `_patch-N.marker` of patches |
| `product` | what a call has left: none, torn, bad (made from broken inputs by a tool that said 0) or good |
| `applied` | whether a patch is in the tree: no, in part, yes |
| `pc`, `target`, `left`, `pkg`, `step`, `cur`, `update` | the shell: position, `ARCHITECTURE`, the rest of `BUILD_ARCHITECTURES`, the loop over `PACKAGES`, the call, `_index`, `UPDATE_SOURCES` |

Each helper is a few actions: `Skip` when the marker exists, `StartTool`,
`ToolSucceeds` or `ToolFails` (die), `Touch`.  `StartUpdate`, `CleanOne`,
`CleanEnds`, `Revert` and `Pull` are the branch of func_download for a working
copy; `StartPatching` to `PatchingEnds` are func_apply_patches.  `Kill` may come
between any two of them and leave torn what the running tool was writing.
`StartRun` begins the next run for any set of targets: the disk stays, the
shell's variables do not.

Assumptions: make, configure and tar give good output when they are run again
over torn output and end with 0; on broken inputs a tool may fail or leave bad
output; `patch --dry-run` refuses a patch that is in the tree, in whole or in
part; a torn working copy cannot be cleaned or reverted, and pull may complete
it.  The order of `BUILD_ARCHITECTURES` is the user's, so any order is allowed.

Faults are a parameter: `exit` (a tested exit status is not 0), `kill`,
`checkout` (a checkout leaves a torn tree), `vcs` (an untested command on a
working copy fails) and `patch` (patch fails after its dry run).

### Build, Scenarios, PackageOrder

`Pipeline` is about any list of recipes and looks into the helpers.  `Build`
takes the real list and the real scenarios, and looks at what they share; there
a helper call is one command with a marker, `Begin`, then `Succeed`, `Die` or
`GoOn`, then `Touch`.

A scenario is a record of six sequences of steps (`Scenarios`).  A step says
which marker it has, which trees it needs and makes, where it installs, what a
failure leads to, and what it does to the environment; its comment lists the
fields.  Directories and markers are sequences of the parts of their names, so
that two steps have the same marker exactly if their files have the same name.
The number of patches and `DEPENDS` are those of each file.

| Variable | Code |
|---|---|
| `marks` | the marker files, and (for the properties) the step that has made each |
| `trees`, `delivered` | what steps leave on the disk; what is installed where |
| `stamp` | the target for which `qmake.conf` was rewritten last |
| `ignored` | steps that have failed and are marked all the same |
| `torn` | what a kill has left half-way and no later run makes good: patches without their marker (`helpers_functions.sh:367`), perl's `makefile.mk` (`perl.sh:97-104`), `qmake.conf.patched` (`qt-5.1.1.sh:114`) |
| `ai`, `pi`, `fn`, `i` | the positions in `BUILD_ARCHITECTURES`, `PACKAGES`, the six calls, and the function |
| `funcs` | which scenario each of the six functions is from: `source` replaces what the file gets to define, and nothing is ever unset |
| `env` | `PATH`, `OLD_PATH`, `QTDIR`, `PYTHONHOME` |
| `opts`, `archs` | the options and architectures of the run |

A command fails if what it needs is not there, or by a fault.  One that is killed
leaves the disk so that it can be repeated, unless it changes files in place (the
field `inplace` of a step): then it fails in every later run, or what reads the
file does (`Able`), as the dry run of a patch does over the patch, and make of
perl over an empty makefile.  An element of
`PATH` stands for the directories of one architecture.  `StartRun` begins a run
with any of the instance's options over the disk that is there.

`Build` itself depends on nothing that is particular to the scenarios.
`BuildInvariants` states what it needs of them, as conditions on constants: all
six functions are defined (`WellFormed`), `PATH` is saved once and restored
(`Balanced`), no two steps share a marker under any options (`OwnMarkers`), a
failed installation is an error (`InstallsDie`), only `pkg_install` installs
(`InstallsLast`), what a step works on is made by steps before it
(`NeedsAreMade`), and four more.  `MCScenarios` evaluates them for
what `Scenarios` and `PackageOrder` say (`ScenariosAreSound`), and TLC refutes
them where the code goes wrong: `qt-5.0.1.sh` is not `WellFormed`, with 4.8.4,
4.8.5 and `installer-framework` `NeedsAreMade` is false, with coin3d
`QtDirIsKept`, and with two values of `--install-top` `OwnMarkers`.

### Options, Toolchains

`given` is the set of options of a command line; `Parse` takes any one that is
left, so that all orders are explored.  `o` are the variables they set; of an
option that has a value it only says that it was given.  `ParseEnds` is what
ends a run at once: `--version`, an unknown option, a directory that cannot be
made.  `Parsed` is the three checks after the loop, for any host and with or
without a scenario for the version; `Check` looks for python and ruby, and the
list of packages is made.

`Toolchains` extends `Options` to whole runs: `StartRun` is a new shell, with
other options, and perhaps another version of the toolchains in `buildall`
(`GCC_VERSION` and `REV_VERSION`, which a newer checkout of the repository
changes).  `unpacked` are the markers, with the archive's name; `tree` says for
a directory, which does not have that name, of which archives its files are, and
`torn` that they are not complete.  `Prepare` to `Unpacked` are one toolchain
after the other; `Stop` is a failing or killed tool, half-way.

### QtBinPatcher

`name[f]` is the path that file `f` names, or that it is absent, torn or
mangled; `bak[f]` is the same of `f.bak`.  File 1 is qmake, files 1 to `NBin`
are the binaries of `get_bin_files_for_patch`, the others are the text files.
`conf` and `confbak` tell whether `bin/qt.conf` and its `.bak` exist.  Opening a
file for writing and writing it are two actions, and so are `remove` and
`rename` of a restore, so that faults and kills fall between them.
`RenameReplaces` is FALSE on Windows, where `rename` fails if its target
exists.  `Contains` are the pairs of paths of which one is part of the other:
replacing an old path that is part of the new one twice mangles a text file.
`listed` is `AllFilesList`, of what the directories show (`FindFiles`), and `buf`
what will be written, which is known before the file is opened.  `before`,
`hadConf`, `unsaved` and `spoiled` are history variables, for the properties.

Errors of files are of three kinds.  The ones that are tested (`io`) make the run
fail, except that `copy_file` (545) goes on until `feof`, which a file that cannot
be read never sets: then the run is in `spin` for ever.  Those that are not
(`slip`) count as success: what is left of a file is written by `fclose` (553, 867,
920), `zero_file` (862) opens it again, a text whose size is not known (838) is
taken for patched, a directory that cannot be listed has no files.  They tear the
file or leave it as it is, and the run goes on; `spoiled` are the files at which
one happened, and `unsaved` those of which the backup is torn.  The size -1 of a
binary (896) becomes `new char[-1]`, and the exception ends the run without a
restore: that is a `kill`.

`Redirect`, `RunQMake` and `ReadOutput` are `get_qmake_output`: qmake runs to its
end before the pipe is read, and the pipe has its other end in the same process.
A whole qmake answers the path that is compiled into it when there is no
`qt.conf`; a torn one may write anything, nothing, or more than the pipe holds,
and in the last two cases the run is `hung`, until the user ends it
(`Interrupt`, which also ends one in `spin`).  `Parsed` is `parse_qmake_output`, which splits at spaces:
`Spaced` are the paths that have one.

### Substitution

A path, a text and a binary are sequences of characters.  `key` is the entry of
`PatchValues` that is searched for, `at` where the search goes on (`Delta` and
`First`), `todo` the entries to come; those of a text in the order of the map,
those of a binary in any order.  `ReplaceInText` erases and inserts,
`ReplaceInBinary` is `strcpy` and `memset`, zero and all.  The binary holds the
values of `Params` one right behind the other, each in the room that Qt's
configure reserves for it.  `TextFollows` compares with `Substituted`, which
replaces all spellings at once: it cuts the text into pieces (`Cut`), one for each
mention of the path and one for each character outside of the mentions, and puts
the new path for the mentions.  Case is left out (Windows compares texts
without it), and so are texts that mention another of the paths, which would be
taken for the Qt directory later.  `SubstitutionAssumption` and `PrefixAssumption`
say what the code relies on: the longest path fits into the room for each value,
no path has a zero or a backslash in it once its separators are normal, there is
one separator behind its drive, as `getcwd` gives it (the spellings of `C:/Qt`
and `C://Qt` could not be told apart), and the prefix of a parameter
(`qt_prfxpath=`), which is part of what is searched for, is in no other value and
nowhere else in its own.

### Paths

`Relative` is the way from one directory to another that the shell function
returns; `Resolve` is where it leads.  The assumption `WaysAreRight` of `MCBuild`
evaluates both: the way is right (`Leads`) between a directory and itself and
between two below siblings neither of whose names begins the other's, as in all
calls of the scenarios (`build-i686` and `unpack` or `src`); and it is wrong
(`Misleads`) if one name begins the other, or if the target is below the
directory it starts from.

### SourceUpdate

The working copies of qt-git.sh: qt5, which has the markers of the patches, and
qtbase, which has what is patched.  `head` and `wc` are revisions of qtbase, `marker`
the download markers, `patched` and `pmarker` the patches and their markers;
`conf`, `kept` and `tmp` are `qmake.conf`, `qmake.conf.patched` and
`qmake.conf.tmp`, each from some revision, with the flags of some target or none,
and whole or not.  `unclean` is history: a git clean has failed, which nobody
tests, and left patch markers or `qmake.conf.patched` behind; it ends with the
reset that finds neither.  In between the patches may be skipped over a tree that
was reset, or an old `qmake.conf.patched` be taken for the template.  (`src_download`
of qt-git.sh also cleans in `SRC_DIR`, where no working copy ever is: they are in
`UNPACK_DIR`.)  `used[t]` is a history variable: the revisions that configure
and make of `t` have read.  The steps of `src_configure` are actions of their own,
so that a kill falls between any two of them and into the middle of a copy.

## What is checked

| Run | Shows | Bounds |
|---|---|---|
| `pipeline` | markers are sound (`MarkerSound`, `PatchMarkerSound`), steps run on complete inputs (`InputsReady`), sources do not change under a build (`SourcesFrozen`), packages are installed in order (`ImplementsPlan`), `PipelineInv` is an invariant; every run ends; repeated runs build everything unless a kill has wedged a package, and a wedged archive package is never built again | 2 targets, an archive package and a checkout with 2 patches each, 2 faults of exit and kill; `FairSpec` |
| `pipeline_faults` | all five faults: bad products are confined to packages at or after one whose sources nobody verifies | 3 packages (linked sources; an archive with `--ignore`; a checkout), 1 target, 3 faults |
| `update_sources` | targets drift apart only by `--update-sources`; each is configured and made from patched sources with the `qmake.conf` of its own flags and of the sources there are, but from a git clean that fails to the next update that cleans and resets; repeated runs, some of them with `--update-sources`, install everything; `UpdateInv` is an invariant | 2 targets, 2 revisions, 3 faults of exit, kill and git commands (clean, reset, pull) that fail unnoticed; `FairSpec` |
| `update_fails` | **violation**: a failed pull is reported as done | 1 target, 2 revisions |
| `options` | the meaning of a command line does not depend on its order, but for the two pythons; the list fits the options; a build begins only with toolchains that are whole and from one archive each | all sets of up to 5 of the 20 options in every order, then any number of runs with some of 2 options; 2 versions of the toolchains |
| `build` | no run dies by itself; each run installs its list in order, and all of it when it ends well (`ImplementsDelivery`); what is skipped was done by that very step; `PATH`, `QTDIR` and `PYTHONHOME` are those of the target wherever they are used; dependencies come first | complete builds (5.1.1 with all extras but coin3d, git, static) and parts of builds (4 versions and options), 2 architectures in both orders, each followed by every other; no faults |
| `build_each` | a run that ends well has delivered, Qt is built by the `qmake.conf` of its target, and repeated runs install everything, after a failure or a kill at every step and another one after it, unless a failure was ignored or a kill came into the patches, perl's makefile or the copy of `qmake.conf`; the conditions of the theorems hold for these | every scenario by itself, those that link with Qt and Qt itself after what they need, 6 versions of Qt, static and not, 2 architectures, 2 faults; `FairSpec` |
| `build_versions` | **violation**: two of the listed versions of Qt die in every run; the conditions of the theorems hold for complete builds of all others, and for these two all but `NeedsAreMade` | 4.8.4, 4.8.5, and 48 complete builds: 6 versions, either OpenGL, two of the three pythons, shared and static |
| `relocate` | a run that ends with 0 leaves all files naming the present place, and every run changes all files or none, but for the very files at which an error slipped, as long as qmake is not one; runs end, unless a file that is copied cannot be read or qmake was spoiled; repeated runs relocate, unless a binary was torn unnoticed, a new `qt.conf` is in the way, or a path with a space was; no run gets past the last two (`WedgedForGood`) | 2 binaries, 1 text file, 3 places (nested, with a space), 2 file errors, tested or not; `FairSpec` |
| `relocate_kill` | a run that fails undoes what it did, also after killed runs; no file and no `qt.conf` is lost; the exception are files whose backup was torn unnoticed in that run | 2 binaries, 1 text file, 2 faults (file errors tested or not, locked files, kills), with and without backups |
| `substitute` | after any moves a text is the one that was built, with the present path in it; the values of a binary follow, too, keep apart, and have zeros behind them; each step of a search leaves less to be searched | 5 paths (one below and one beside the first, one too long), 3 spellings, texts of up to 3 fragments, 2 parameters, 2 runs |
| `relocate_nobackup` | **violation**: "Patching not needed", while files name another place | 1 file error |

Why the bounds are enough to be interesting: two targets share trees; two
patches make the shortcut by the last marker differ from looking at each
marker; two packages, one of each kind, make the order between packages and
between a clean and a revert matter; two faults are a kill and a failure in the
run after it.  Every action fires in some passing run.  For qtbinpatcher two
binaries separate qmake from the rest, and two places of which one contains
the other include the double substitution.  For `Build` the list and the
scenarios are the real ones; two architectures share trees, and one change of
options is enough for a marker to be met by a run it was not made for.
For `Substitution` two runs are a move there and one back or on,
between paths of which each is shorter than, longer than or part of another.
For `Options` five are enough for any four that could interact, and an
architecture, which a run must have.
`MaxFaults`, `MaxRev`, `MaxChanges`, `MaxArgs`, `MaxVersion` and the `MaxRuns` of
`Substitution` are the only bounds on behaviours; elsewhere the number of runs
is not bounded.

**Fairness.**  `WF(RunStep)`: a run that is not killed goes on, since every
tool it waits for returns.  `SF(StartRun(Targets, FALSE))` and
`SF(Start(b, FALSE))`: the user starts the program again, with the same
arguments; strong, because between two runs the next one is enabled only until
it or another begins.  Faults are never fair, and their number is bounded, so
that "eventually" means when they are over.

In `SourceUpdate` the run that is started again and again is one for all targets
with `--update-sources`, and any others may come in between: without that
option a run never gets past patches whose markers a kill has kept from being
made.  In `QtBinPatcher` the user ends a run that hangs or copies nothing for ever
(`WF(Interrupt)`), as it does not end by itself.  `RunEnds` does not profit by it: a run that is ended so has the result `"killed"`, which `RunEnds` does not
accept as an end, except in the two cases that `Endless` names.

In `Build`, `WF(RunStep)` says that commands return, and `WF(Restart)` that the
user starts a run with the same options again; weak, because between two runs
it stays enabled.

**Findings.**  `update_fails`, `relocate_nobackup` and `build_versions` are
disagreements of the code with its own messages, its list of versions or
`src/README`; `PROJECT.json` quotes them.

**Left out of the passing runs.**  These configurations end in an error, or do
not deliver, by what the code does; the option sets of that name in `MCBuild`
show each of them when they are put in the place of `AllOptions` in
`MCBuildVersions.cfg`, with the property named, and module `MCBuild` is run:

| Options | Property refuted | Cause |
|---|---|---|
| `Qt501Options` | `CleanRunCompletes` | `qt-5.0.1.sh:104` closes `{` with `]`: the last three functions stay those of the package before |
| `StaticOptions` | `CleanRunCompletes` | `installer-framework.sh:77` configures from `SRC_DIR` what was cloned into `UNPACK_DIR` |
| `Coin3dOptions` | `EnvIsOwn` | `simage.sh:79` unsets the `QTDIR` of `buildall`; `quarter.sh:73` uses it |
| `TopOptions`, `MaxChanges = 1` | `RunDelivers` | the markers do not depend on `--install-top` (`buildall:214`): a run with another one skips everything |

Other things the code does that the properties leave out, by a condition in
them or in the instance:

* A patch that fails after its dry run is marked as applied
  (`helpers_functions.sh:367`): `FailedPatchDies` of `Pipeline` is refuted with
  `Faults = {"patch"}` in `MCPipelineFaults.cfg`.  The message of line 382 says
  otherwise.
* Going back to an older version of the toolchains finds its marker, and the
  files of the newer one (`back` in `ToolchainIsWhole`).
* A write of qtbinpatcher that fails in `fclose`, or a size that is not known,
  leaves a file torn or unpatched under a result of 0 (`spoiled` in
  `RelocatedWhenDone` and `Relocation`), and a torn backup is restored over a whole
  file (`unsaved` in `FailureUndone` and `NothingLost`); a file that cannot be read
  is copied for ever (`Endless`).
* Patches that are killed before they are marked, perl's makefile and the template
  of `qmake.conf` are never made good by a later run (`torn` in
  `EventuallyInstalled` of `Build`; `WedgeIsFinal` of `Pipeline`).
* After a git clean that fails unnoticed Qt may be built from unpatched sources, or
  by the `qmake.conf` of older ones (`unclean` in `ConfIsCurrent`).
* A directory that has once been relocated to a path with a space is never
  relocated again (`SpaceInTheWay`).
* A kill in the first copy of `qmake.conf` leaves a torn template until the next
  `--update-sources` (`ConfIsCurrent`).

`OutOfOrder` in `Build` is the one dependency that the list does not respect:
sqlite names icu, which is built after it (`package_order.sh:47`, `:52`).

## What is proved

`PipelineProofs` and `DamageProofs` are checked by TLAPS, for any number of
packages, recipes of the phases in order, any patch lists, targets and number of
faults:

| Theorem | Under | States |
|---|---|---|
| `TypeCorrect` | every fault | `TypeOK` |
| `PipelineInvariant` | `SoundTools` | `PipelineInv`, the inductive invariant |
| `MarkersAreSound` | `SoundTools` | a marker vouches for good output |
| `PatchMarkersAreSound` | `SoundTools` | the marker of the last patch implies all patches |
| `InputsAreReady` | `SoundTools` | no step runs on incomplete inputs |
| `PipelineImplementsPlan` | every fault | `Spec => Plan!Spec` |
| `SourcesStayFrozen` | every fault | `SourcesFrozen` |
| `WedgedStaysUnbuilt` | every fault | `WedgeIsFinal` |
| `DamageIsConfined` (in `DamageProofs`) | every fault | `DamageConfined` |

`SoundTools` says that the only faults are failing exit statuses and kills, and
that no package passes `--ignore`: under the other faults the three properties
are false, as the code does not look at the exit statuses in question, and
`DamageConfined` is what remains.

`MarkerSound` alone is not inductive: that a step's output is good depends on
its inputs, i.e. on the steps before it, which the current run may have skipped
by their markers.  `Reached` carries that along: in a live run everything
before the current step is sound, for the current target.  `ToolInv` and
`PatchInv` say what is known between work and marker.  `UpdateInv` is what makes
the reset of a working copy harmless: no patch marker survives to the moment at
which patches are reverted.  After a pull the unpacked sources are the same
directory, so the steps after it remain sound.

`SourcesFrozen` rests on an invariant of its own, `FrozenInv`: what a package
from an archive has marked stays marked, a target gets to its own steps only
past the marks of the shared ones, and shared sources are worked on only while
their mark is missing.  `WedgeInv` adds that the last patch marker of such a
package comes after all the others: then a patch without its marker means that
the shared steps are not done, and `WedgeIsFinal` follows, as the dry run never
succeeds on that patch again.  `DamageInv` is `PipelineInv` for packages at and
before which all sources are verified (`Verified`): what is unverified stays so,
so that a run's inputs are good as long as it has not come to the first
unverified package.  None of the three is in a run's list.

`SourceUpdateProofs`, for any targets, revisions and number of faults: failing
commands, kills, and clean, reset and pull that fail unnoticed:

| Theorem | States |
|---|---|
| `UpdateInvariant` | `UpdateInv`, the inductive invariant |
| `DriftOnlyByUpdate` | `DriftNeedsUpdate`: one revision for all targets without `--update-sources` |
| `ConfAlwaysCurrent` | `ConfIsCurrent`: patched sources, and the `qmake.conf` of this target and of these sources, unless `unclean` |

The two properties speak of the moment of use; `UpdateInv` says why it is safe.
`PatchInv`: the patch markers, which are in another working copy, are gone before
the patches are, so that patches are never skipped after a reset (unless `unclean`:
the half of each part that git clean has to provide is under that condition, and
comes back with the reset that ends it).  `ConfInv`:
`qmake.conf.patched` is the patched file of the present revision, and each later
step follows from it; a kill in between leaves the template.  `DriftInv`: nothing
is built before qtbase has its marker, and what has its marker is changed only by
an update.

`ToolchainsProofs`, for any set of options in any order, any number of runs that
die or are killed, and any versions:

| Theorem | States |
|---|---|
| `ToolchainsInvariant` | `ToolchainsInv`, the inductive invariant (not in a run's list; `ToolchainIsWhole` and `OrderIrrelevant` follow from it) |
| `ToolchainsAreWhole` | `ToolchainIsWhole`: a build begins with whole toolchains, each from one archive |
| `OrderNeverMatters` | `OrderIrrelevant`: the order of the options does not matter |
| `ListsAreSound` | `ListIsSound`: nothing twice on the list, Qt before what links with it, the rest as the options say |

`MarkersInv` carries the argument: unless `buildall` has gone back, no marker is of
a later version, so the marker of the present version was made after the directory
was last emptied; and while a directory is worked on its marker is missing, so
a run that stops leaves nothing that could be taken for done.  `ListInv` takes what
the options were to the moment at which the list is made.  For the list itself
`PackageOrderProofs` puts it together part by part: a list with each package once,
joined to one that has none of these (`Joined`), is such a list, and what comes
first in it stays first (`LeadsOn`).

`BuildProofs`, for any scenarios, lists, options, architectures and their orders,
number of runs, of changes of options and of faults.  Each theorem has the
conditions it needs as its hypotheses:

| Theorem | Under `WellFormed` and | States |
|---|---|---|
| `TypeInvariant` | - | `TypeInv`: types, and what is known of the shell at each position |
| `TypeCorrect` | - | `TypeOK` |
| `PathAlwaysRestored` | `Balanced` | `PathRestored` |
| `EnvironmentIsOwn` | `QtDirIsKept`, `PythonIsSet` | `EnvIsOwn` |
| `OwnWorkIsSkipped` | `OwnMarkers` | `SkipsOwnWork` |
| `ConfsAreOwn` | `OwnMarkers`, `ConfIsRewritten` | `ConfIsOwn` |
| `RunsDeliver` | `OwnMarkers`, `InstallsDie` | `RunDelivers` |
| `BuildImplementsDelivery` | `OwnMarkers`, `InstallsDie`, `InstallsLast` | `ImplementsDelivery`: `Spec => Deliver!Spec` |
| `DependsAreInstalled` | `OwnMarkers`, `InstallsDie`, `DependsComeFirst` | `DependsInstalled` |
| `CleanRunsComplete` | `OwnMarkers`, `NeedsAreMade` | `CleanRunCompletes` |

The conditions speak of single steps and pairs of steps, so that TLC evaluates
them for every scenario and for complete lists, where it could not explore all
sequences of runs: from `ScenariosAreSound` and the theorems the properties follow
for any number of runs and faults over these options.  One argument carries
them.  `Finished` are the steps that the run has come past, and those that have
a marker from whatever run.  `OwnInv`, with `OwnMarkers`, says that a marker was made
by the step whose marker it is, hence by one that makes and installs the same.
So all that is `Finished` is done, for what runs install (`GivenInv`) and, as long as
nothing has gone wrong by itself, for what they work on (`MadeInv`); a skipped step
is as good as one that was run.  `DoneInv` adds the architectures that are behind.
`RunDelivers` alone is not inductive, as it says nothing of a run that is under
way.  `BuildImplementsDelivery` says more than it: `Delivery` has only what is
installed, the options, and whether a run is under way, and each step of `Build`
is one of its steps or none.  Only `Succeed` in a `pkg_install` changes what is
installed, and then `GivenInv` and `DoneInv` say that all that comes before it is
there.  `PathInv` has `PATH` in `OLD_PATH` exactly between change and restore,
`VariablesInv` and `StampInv` say since when the variables and `qmake.conf` are those
of this target.

`QtBinPatcherProofs`, for any number of binary and text files, any paths, and any
number of faults:

| Theorem | Under | States |
|---|---|---|
| `TypeCorrect` | every fault | `TypeOK` |
| `PatcherInvariant` | every fault | `PatcherInv`, the inductive invariant (not in a run's list) |
| `NothingIsLost` | every fault | `NothingLost` |
| `FailuresAreUndone` | every fault | `FailureUndone` |
| `ConfIsKept` | every fault | `ConfKept` |
| `WedgedStaysWedged` | every fault | `WedgedForGood` |
| `RelocationInvariant` | `Careful` | `RelocationInv`, the inductive invariant (not in a run's list) |
| `DoneMeansRelocated` | `Careful` | `RelocatedWhenDone` |
| `PatcherImplementsRelocation` | `Careful` | `AllOrNothing`: `Spec => Relocate!Spec` |

`Careful` says that every run makes backups and that there are only errors of
reading and writing, tested or not, no kill and no file that is locked: the others are what
`relocate_kill` is about, and without backups a failed run leaves some files
patched and others not (`relocate_nobackup`).  `NothingLost` is not inductive:
that a file which is half-written has its backup depends on what
`backup_files` did before.  In `PatcherInv` the files are as the run has found
them until the first is patched (`RunInv`), those the loop has come past have
their backup, or are `unsaved` (`BackupInv`), and in `restore_files` those it has come past are
restored (`RestoreInv`); `ConfInv` says where `qt.conf` is meanwhile.
`RelocationInv` adds that all files that are not `spoiled` name one path, qmake's
answer, but for those that the run has come past (`PastInv`), which is why every file that the loops of
`patch_text_files` and `patch_bin_files` leave behind names the new one.
`WedgedForGood` needs no fairness, as it says what does not happen.

`SubstitutionProofs`, for any characters, paths, parameters, texts and room in a binary
that satisfy the assumptions, and any number of runs:

| Theorem | States |
|---|---|
| `InvariantHolds` | `SubstitutionInv`, the inductive invariant (not in a run's list): `TypeInv`, `BinaryInv` and `TextInv` |
| `TextAlwaysFollows` | `TextFollows`: a text is the one that was built with all that mentioned the first path naming the present one, as if replaced at once |
| `BinaryAlwaysFollows` | `BinaryFollows`: the values in a binary name the present path, keep apart, and have zeros behind them |
| `SearchAlwaysShrinks` | `SearchShrinks`: each step of a search in a text that stays at its entry leaves less of it to be searched, also where a path is replaced by itself |

`BinaryFollows` is not inductive, as it says nothing of a run that is under way.
`BinaryInv` has the `Layout` of the binary at each moment: each value in its room,
the one that qmake was asked for until its entry has been searched for, the new one
after that (`Replaced`).  A search finds a value only in its own room
(`OnlyInItsRoom`): what is found begins with the prefix of its parameter, has no
zero in it, so that it cannot reach from one room into the next, and the prefix is
nowhere else.  Hence nothing is overwritten but that room (`OverwriteIs`), and
what qmake reads from it afterwards is what was written (`ReadsIs`).  What the
model computes with `FlattenSeq`, which is defined by recursion, is proved for any
length from the least number for which it would not hold (`Least`,
`FlattenRooms`, `FlattenPieces`).

`TextFollows` is not inductive either: it has to be known which mentions a run has
replaced so far.  `TextInv` says that there is a set `done` of mentions such that
the text is the pieces of the text as it was built, with the new path for the
mentions in `done` and the old one for the others (`Put`), and that `done` are the
mentions whose entry the loop has left and those of the entry at work that the
search has come past (`Changed`).  The argument has three parts.  The old path is
found at the beginning of a piece and nowhere else (`FoundWhereMentioned`): the
drive is only at the beginning of a path, so that what is found cannot overlap two
pieces, the second and the third character tell the spelling (`OneSpelling`), and
where the new path has the old one in it, the text as it was built had none outside
of a mention.  To replace one piece is to splice the text (`SplicedRendered`, with
`Places` the place of each piece).  And no entry replaces what another one has
inserted: an inserted path is in the spelling `"normal"` or `"double"`; the search
for `"double"` goes on behind what it inserts, and `"normal"` is the first entry of
the map, when `"single"`, the only one that becomes `"normal"`, has not been
replaced yet.  With another order of the map that step of the proof
(`TextReplaced`) fails.

Model-checked only: what is to happen eventually (`RunEnds`, `EventuallyBuilt`,
`EventuallyRelocated`, `EventuallyInstalled`), which is beyond this prover with
its fairness; and `WaysAreRight`, whose recursion over paths `MCBuild` evaluates.

## Not modelled, and why

The patch files, vendored headers, libraries of database clients and specs are
data for other programs; they are nearly all of the repository's lines.
`versions.sh` is constants.  Flags, logs and messages are left out, as no
property tells them apart.  cvs and hg are branches of func_download that no
scenario uses.  `get_filename_extension` only splits the names of the two
toolchain archives.  What an option is set to is left out, so that
`--make-jobs=8`, which sets `MAKE_OPTS` to `8` where the help says `-jx`
(`buildall:172`, `:246`), looks right.  `rm -rf` of a toolchain is taken to succeed unless it is
killed, and a git clone that is killed to remove what it has made, as git does on
a signal.  unzip is called without `-o` (`helpers_functions.sh:273`): over a torn
tree it asks whether to overwrite, and the model takes the answer for given.  A
read of qmake's pipe that fails, where `get_qmake_output` writes before its buffer,
is not modelled.  The parser of the command line of qtbinpatcher, the
normalisation of a path in `buildall`, the text of perl's makefile and the filling
of the databases directory are not modelled.

## Plan

Done: `Pipeline` with `BuildPlan` and its proofs, `QtBinPatcher` with
`Relocation`, the pipe and its proofs, `Substitution`, `SourceUpdate` with `qmake.conf`,
`Options`, `Toolchains`, `PackageOrder`, `Scenarios`, `Build` with `Delivery`, `Paths`.

Their proofs: all invariants and all action properties of the passing runs.

Left: the databases directory, which a kill of rsync leaves incomplete for good, once
it is known what configure makes of that.
