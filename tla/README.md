# TLA+ models of the kenge boot-image build (gz/aos10)

These modules model the part of the kenge build system
(`src/src/tools/`) that places the kernel, the root task and the other
programs at consecutive addresses and turns them into a bootable image:
the relocation chain of `build.py`, the image composers and boot menu of
`bootimg.py`, and the build environments and library tables those steps are
declared in. It also models the template engine and the unit-test runner.
Each module is translated from the Python source. `PROJECT.json` maps every
definition that models code to the lines it stands for. It also lists the
runs, the mutants that show each checked property can fail, the findings
and the hazards.

## 1. Inventory

### Components, their state and operations

| Component | Source | State | Operations |
|---|---|---|---|
| Sequential relocator | `build.py` `Bootimage` 1222-1255, `buildreloc` 517-544 | the list `depends` (kernel first, each placed module appended), `last = depends[-1]`, the `.reloc` files and input binaries on disk | one `buildreloc` command per non-raw module: `ld -Ttext=<addr>`, or for flag `l` a Wombat `make LINUX_START_ADDR=<addr>` framed by `cp`s; on failure `os.remove(app)`; raw modules are appended to `depends` without a command |
| ELF extent reader | `build.py` `link_address` 490-515, `align` 265-270 | none (reads `readelf -l`) | scan LOAD lines (a line wrapped by readelf binds the size on the next line through `on_next`), end = phys + memsize of the **last** LOAD, +4 MiB for an arm kernel, round up to `ALIGNMENT` (0x10000); raises when there is no LOAD |
| Architecture policy | `machines.py` 1-271, `available_machines` 322-327, `link_address` 511-512, `KengeEnvironment.__init__` 823-828, `BootImageBuilder` 170-186 | the class table of machines (parent, attributes) | attribute lookup up the class chain; which machines are available; arm kernel reservation; per-architecture dite options |
| Embedded composer | `bootimg.py` `BootImageBuilder` 158-214 | the dite command line | read `kip` with nm, add one argument group per module and flag (`i`, `s`, `raw`, `l`), run dite, raise on a non-zero status |
| Disk-image composer | `bootimg.py` `GrubBootImage` 114-156, `GrubFloppyImage` 70-112 | `env.builddir/bmap`, `env.builddir/mtoolsrc` (shared by both builders), the image file, its filesystem, grub stages, boot sector, copied files | write bmap, write mtoolsrc, dd, partition/format, mmd + stage copies, grub install, then `mcopy -o` each source; only the copies' status is checked: a failed copy removes the image and raises "Bootimage disk full" |
| Boot menu descriptor | `bootimg.py` `BuildMenuLst` 53-68, `copy` 126-138; `build.py` `Bootimage` ia32 branch 1325-1368 | `depends`, the install targets, menu.lst's module lines, c.img's `/boot/grub` | one `module=` line per source whose path does not contain "kickstart", `.reloc` stripped; `copy` strips `.reloc` or `.gz` and copies with `mcopy -o` |
| Build environments | `build.py` `KengeEnvironment.__init__` 775-820, `Copy` 920-943, `KengeLibrary` 1448-1551, `get_libs` 1428-1446, `KengeProgram` 1557-1650 | per environment: `static`, `testenv`, toolchain, `libs` table (`util.OrderedDict`); `BUILD_TESTS` | make the base environment, `Copy` it, add a library (or one whose SConstruct returns its own description), link a program with the libraries `get_libs` finds |
| Template engine | `build.py` `markup` 546-625, called by the Template builder at 883 (`util.py` 104-183 is an unused copy) | window, state, recursive calls | scan `{{ }}`, `{{? }}`, `{{if ... fi}}`, `{{* *}}` |
| Test configuration enumerator and runner | `ut_config.py`, `ut_core.py` | generator trees, `OrderedDict` configurations, counters, log files | And/Or/Variable products and unions, `flatten`, constraint filter, count then run/show each configuration, log failures, Ctrl-C, exit status |
| Configuration phase | `build.py` 142-198 (`_add_arg`, `_add_bool`), 307-432, 627 | `opts` (what the config files set), the option globals | read `.conf`, `~/.sconf` and `<conf>.conf`; give each option its command-line, config-file or default value; check the machine and its endianness |
| Orchestration, tooling, benchmarks | the builders of `build.py`, `simulators.py`, `build_all.py`, `check_version.py`, `benchmarks/parse.py` | SCons graph, flags, processes | not part of the image pipeline's state |

### How they interact

`Bootimage` builds an SCons graph. The relocation commands form a
dependency chain: the command of module k reads the artifact of module k-1.
SCons therefore runs them one after another, even under `-j`. The
image commands depend on the whole `depends` list. On arm, mips64, alpha
and powerpc this is the dite image (`BootImageBuilder`). On ia32 it is
menu.lst files plus two disk images, `c.img` (`GrubBootImage`) and `usb.img`
(`GrubFloppyImage`). These two have no dependency on each other, so
`scons -j` may run them at once. Every step is a blocking `os.system` call.
The two builders share only the files `bmap` and `mtoolsrc` in
`env.builddir`.

Before any of this, `build.py`'s configuration phase fixes the machine,
the build directory and the tool options from the command line and the
user's config files. The unit-test runner (`ut_core.py`) drives whole
builds: it runs `scons name=value ...` once per test configuration.

### What is hard here

* **Raw modules in the chain.** A raw module becomes `last`. The next module is
  placed after the raw file's own extent. If the raw file is not an ELF, the
  build fails.
* **Exit statuses.** The Linux relink is a `;` shell sequence whose status is
  that of its last `cp`. The disk composers ignore every status except the
  copies'. A failed ld removes the input binary, not the output.
* **Shared configuration files** between two image builders running at once.
* **Numeric edges:** `align` at exact multiples, and the arm reservation that
  only applies to a file named `...kernel`.
* **Copied state:** `Copy` sets `static`, `testenv` and the toolchain on the
  environment it copies before cloning it; the library table must be copied
  and not shared.
* **Names:** the boot menu and the disk copy derive a module's file name by
  different rules.
* **Text scanning:** the readelf scan, and the template scanner's handling
  of missing terminators (non-termination).

### What makes each component correct

* Relocator: every linked address is the least aligned address that clears
  the artifact before it. Linked modules never overlap. A module that got
  through is linked where it was asked to be. A failed link leaves nothing
  that looks runnable (the comment at line 541; not checked, see Plan). The chain implements the spec's placement fold.
* Disk composer: all or nothing. A failed image is removed, and a finished
  image has every source on it. A finished image is bootable. Concurrent builders do not touch each other's image.
* Embedded composer: every file dite is given exists and is the relocated
  one exactly for the non-raw modules. A missing `kip` fails the build.
* Extent reader: the result is the aligned end of the file's LOAD
  segments, also when readelf wraps a LOAD line (64-bit ELF).
* Boot menu: every module line names a file that is on the image, and is
  the module it stands for.
* Build environments: a copy leaves its parent alone; the tables of two
  environments are separate; a program links the closure of its libraries.

## 2. Plan

Done: `Relocator` with `Placement` and the readelf scan of `link_address`;
`DiskImage`; `BootImage` (dite); `BootMenu`; `KengeEnv`; `Markup`;
`TestRunner`; `Machines`, the class table of `machines.py`, whose
available machines give `Relocator` and `BootImage` their architectures and
`KengeEnv` its machine; `Options`, the configuration phase of `build.py`,
composed with `TestRunner`. Open, in order of importance:

1. Compose `Relocator` with `DiskImage` and `BootMenu` on ia32, so that the
   copies are of the chain's own artifacts.
2. Runs for hazards that are modelled but not checked (the failed-link
   cleanup, `-K 0xNone`, the log-file collision and `log_name`'s KeyError,
   the template entry's IndexError in `get_libs`, the TypeError of a
   `KengeLibrary` `c` without startup objects, a user `conf` that
   redirects the runner's builds): each needs a violation run of its own.
3. Floppy geometry (`GrubFloppyImage` 95-100) as a numeric check.

## 3. Modules

### `Relocator.tla` (build.py)

The state is as follows. `depends` is the code's list, reduced to each
artifact's extent `[lo, hi)`, whether it is the kernel, and whether it is
an ELF.
`linkedAt[k]` is the address passed to ld or make. `relocAt[k]` is what
`<module>.reloc` on disk is linked at: `NoAddr` when absent, `Partial` when
truncated. `srcPresent[k]` says whether the input binary is on disk.
`status` is the build's outcome. `pc` is the next module.

The actions are `RelinkOk`, `RelinkFails` (ld path), `RelinkLinux` (flag
`l`, including the hidden make failure), `PassRaw`, `ExtentNotFound` (the
raise in `link_address`) and `Finish`. The inputs are chosen when they are
used: the module's footprint, the raw ELF's link address or a blob, the
address of the plain vmlinux build, and the tool outcomes. `Init` chooses
the architecture, the kernel's end and the flags. The root task always has
flag `""`, as in `Bootimage`.

`link_address` is modelled from the text it reads. `Readelf(art)` is the
`readelf -l` output of an artifact: a blank line, the header lines, two
LOAD segments (a one-byte one at `lo`, then the rest, whose memory size
exceeds its file size by `Bss` for the `.bss`), and the section mapping.
On a 32-bit architecture a LOAD line has eight words. On mips64 (64-bit
ELF) readelf wraps it, and the file and memory sizes are the first two
words of the next line. Words are tagged `Txt` or `Hex` records so that
`int(x, 16)` on a word that is not a number is visible. `ScanLine` is one
iteration of the loop (with `on_next`), `Scan` folds it over the lines,
`Found` says a LOAD was read without an error, and `LinkAddress` adds the
arm kernel reservation and aligns. `Wordsize` is the machine's
`wordsize`, read through `Machines`. Every architecture in `Archs` must be
that of an available machine, and every available machine of an
architecture must have that architecture's word size (both are ASSUMEs).

### `Machines.tla` (machines.py)

A constant module. `Classes` maps each class name of `machines.py` to its
parent and the attributes its body assigns. Only the attributes that
`build.py` and `bootimg.py` use to choose what to build are kept: `virtual`,
`wordsize`, `arch`, `endian`, `toolchain`, `platform`, `subplatform`,
`l4conf`, `sim`, `skyeye`, `elfloader`, `pidreloc`, `serial_console`,
`wombat_config` and `drivers`. Compiler flags, `cpu`, and the timer and
serial drivers only go into command lines and are left out. Python's
None is the string "None". `Owner(c, a)` is Python's attribute lookup:
the nearest class up the chain that assigns `a`, or "object" when no class
does. `HasAttr` and `Attr` are `hasattr` and `c.a`. `Available` is
`available_machines`, the classes that are not virtual. There are 17 of
them, and their architectures are ia32, arm, mips64, alpha and powerpc.

### `Placement.tla` (spec 3, 4.1, 4.2)

This is the abstract contract. A cursor starts at the rounded end of the
kernel plus the architecture's reservation. A non-raw module is placed at
the cursor, and the cursor moves to the rounded end of that module. A raw
module leaves the cursor alone. Any step may fail. `RoundUp` is defined
independently of the code's `align`, as the least multiple. `MC_Relocator`
maps `Relocator` onto it: `cursor = link_address(last)`,
`placed[k] = linkedAt[k]` for modules already passed, and
`outcome = status`.

### `DiskImage.tla` (bootimg.py)

Each builder `b` steps through `bmap`, `mtoolsrc`, `create`, `format`,
`stages`, `grub`, `copy` and ends in `done` or `failed`. An mtools command
acts on the image that `mtoolsrc` names for its drive letter, and fails if
`mtoolsrc` names another drive. Grub does the same with `bmap`. Every
external step may fail when `ToolsMayFail`; only a failed copy is acted on.

### `BootImage.tla` (bootimg.py `BootImageBuilder`)

This module extends `Relocator`. After a successful chain on a non-ia32
architecture, `RunDite` builds dite's argument list. There is one entry
per module. Its flag is the one `BootImageBuilder` computes: `i` for the
root task, otherwise the module's own flag. The entry names `<m>.reloc`
or the input file, following the same flag test as the code. The action
reads `kip` from the kernel: `NoKip` when the symbol is missing. `DiteArchOptions` is the
elif chain on the architecture: whether the kernel is given by its
physical address (`-p`) and which extra options are added. For an
architecture outside the chain, `phy_kernel` is unbound and the builder
raises (image `UnboundLocalError`). Otherwise it runs dite. dite fails when a named file is missing. With `-K 0xNone` the
outcome is either; no run checks that case now.

### `KengeEnv.tla` (build.py `KengeEnvironment`)

Environments are numbered, 1 being "base". Each has `static`, `testenv`,
`toolchain` and `linkStatic`, and refers to a table object through
`libsOf`, so that sharing a table can be expressed. `table[t]` maps a
library name to an `Entry`: whether it has code and its dependency list
(`NoDeps` for the 3-tuple template entry). `Init` is `__init__` with its
keyword arguments and `BaseLibs`. It chooses the machine from `Machines`,
and the toolchain default is that machine's `toolchain`. A machine with no
`platform` attribute, or with `endian` None, cannot be configured:
`__init__` raises AttributeError at lines 823-828 (`Configurable`), and
the state records that status. `ds20` is such a machine. `Copy` sets the flags and toolchain on
the copied environment first, as the code does, then makes a new
environment with a copy of the table (`CopyTable`, `OrderedDict.__copy__`).
A library is stored with `SetLib` (`OrderedDict.__setitem__`). `AddKengeLibrary` appends `check`
under `BUILD_TESTS` and raises UserError for a dependency that is not
there, and it stores the description with crt None. `AddOwnLibrary` is a
SConstruct that returns its own description: header-only, or, for `c`,
code with startup objects, as a C library provides.
`KengeProgram` runs `GetLibs`, the recursive `get_libs` with its shared
`seen` list, and records the request, the table and the result in `last`;
an unknown library is a UserError, the template entry an IndexError, and
a program without LIBS a KeyError. When the environment has a `c`, its
crt is prepended to the objects (lines 1632-1634). A `c` made by
`KengeLibrary` has crt None, so the link raises TypeError. Each exception
ends the read.

### `BootMenu.tla` (bootimg.py `BuildMenuLst`, `GrubBootImage`)

A file is a directory (model value), a base name and a sequence of
suffixes. `Init` chooses the root task and the other modules, plain or
gzipped, raw or not. `ReadBootimage` builds `depends` (`Placed`: the
`.reloc` of a non-raw module, else the binary), fails with UserError when
two install targets have one name and different sources (`Clash`),
writes the menu (`MenuLines`) and queues `simdeps`. `CopyEach` is one
`copy()`: the name `CopyName` gives the file replaces any file of that
name (`mcopy -o`). `Finish` ends the loop.

### `Markup.tla` (build.py `markup`, `build_from_template`)

A frame per active call of `markup` holds the template (a sequence of
characters), `window_start` (`ws`), the state, and for a waiting `if` or
loop the position of its terminator and the items left. `Normal`, `Code`
(eval and exec), `If` and `Loop` are the branches of the `while` body.
`Return` is the end of the `while` together with what the caller does
next: resume after `fi}}`, render the body for the next item, or resume
after `*}}`. `str.find` returns -1, and a slice to -1 drops the last
character, exactly as in Python. This is what makes a missing terminator
rewind the window. Templates are sequences of lexemes (`txt`, `:`, `{{`,
`{{?`, `{{if`, `{{*`, `}}`, `fi}}`, `*}}`, `{{ABORT}}`) that are
flattened into characters. Lexemes can therefore combine into other
openers, as in `{{` followed by `*}}`. `Render` is an independent
recursive definition of what a well-formed template means.

### `TestRunner.tla` (ut_config.py, ut_core.py)

`Gen`, `AndGen`, `OrGen`, `VarGen` and `Flatten` are the generators of
`Variable`, `And` and `Or` as recursive operators on sequences. A
generator yields either a tuple or a flat list, as `flatten` makes it.
`SetItem` and `Items` model `OrderedDict`, and `SetItem` appends a key it
already holds, as the code does. `Configs` is `ConfigTree`: `__to_dict`
followed by `check_options`. The actions are one iteration of `main`'s
loop, `ShowTest` (with `-n`) or `RunTest`, then `Interrupt` (Ctrl-C)
and `Finish`. `RunTest` runs the test with an outcome chosen by TLC.
With `-b`, or with `-n`, the command builds (`Target`); otherwise it
ends in `simulate_test`, which waits on the simulator. In that case the
outcome may also be `hung`: getstatusoutput has no timeout, so main
stays in phase `blocked` until Ctrl-C. A
logged test then goes through `do_logging`: a second `command_line`
(`CommandLine`, which stores `build_dir` in the configuration and then
formats the command from it) and `log_name`. The history `logs` keeps, for
each log file, the command written to it, the command that was run, and
the configuration. `log_name` raises
KeyError when the configuration has no `machine`, and the model
represents that as the phase `crashed`. `Meaning` is what the module
docstring says a tree stands for: a set of configurations built from
products and unions.

The runner is composed with `Options` (below). The variable `user` is the
user's config-file setup, chosen once. `ctree` (the configurations) and
`accepted` (whether `Configure` accepts each test's command) are computed
in `Init` from main's inputs and never change. `Results` forces a test to
fail when `Configure` raises for its command, because scons then exits
non-zero. `SconsArgs` is how scons reads the command into ARGUMENTS: a
later `name=value` replaces an earlier one.

### `Options.tla` (build.py configuration phase)

The configuration phase runs once, top to bottom, so it is modelled as
operators over a record `[status, opts, g]`: the exception raised so far,
the dict `opts`, and the option globals. `ReadUserConfig` is `execfile`
into `opts`, where a failing file is a UserError. `ArgOf` is
`ARGUMENTS.get(name, opts.get(name, default))`. `AddArg` and `AddBool`
are `_add_arg` (None or a value outside the options is a UserError) and
`_add_bool`. `_add_bool` drops the result of `x.lower()`, so it rejects
"True" from the command line. `ReadUserFiles` reads `.conf`, then
`~/.sconf`. `ReadConf` is `conf`: it sets `build_dir` to `build.<conf>`
and only then reads `<conf>.conf`. `CheckEndian` is the endianness check.
`Configure` is the whole sequence, through `print_sim_log`. A config file
is `[ok, sets]`. Values are names without commas, and a config file gives
a boolean option a Python bool. The help text and the `install_*` and
`boot_*` options only format strings and are left out.

## 4. Runs

| Run | Expect | Checks |
|---|---|---|
| `chain_build` | pass | `TypeOK`, `LinkedJustAfterPredecessor`, `DiteFilesExist`, `DiteArchKnown`. The chain followed by dite (`BootImage`): all flag mixes, the architecture of every available machine (ia32, arm, mips64 with wrapped readelf lines, alpha, powerpc), all ld, make and nm outcomes. dite never fails on an unbound `phy_kernel`: every architecture of an available machine has its branch. |
| `chain_refines` | pass | `PlacementRefined`: Relocator, with `link_address` computed from readelf's text, implements Placement (flags `""`/`l`, make succeeds, ld may fail). The spec is `MC_RelocSpec`, which is Relocator's `Next` without `PassRaw` and `ExtentNotFound`. Those two steps are enabled only by a raw module, and this run has none. |
| `raw_overlap` | violation | `RelocatedDisjoint`. Root task, then a raw ELF linked at 0x100000, then a module. That module is linked at 0x110000, inside the kernel. |
| `linux_make_fail` | violation | `LinkedWhereRequested`. make fails, the status is 0, and vmlinux.reloc sits at the old address. |
| `disk_concurrent` | pass | `TypeOK`, `ImageAllOrNothing`. Both builders, shared files, every tool may fail. |
| `disk_bootable_race` | violation | `SuccessMeansBootable`. No tool fails, yet the floppy builder's bmap write makes c.img's grub install miss, and c.img is reported built. |
| `menu_names` | violation | `MenuMatchesImage`. A relinked `ig_naming` and a raw `ig_naming.gz`: the menu lists `ig_naming.gz`, which is not on c.img, and `copy` writes the raw file over the relinked one as `ig_naming`. |
| `kenge_env` | pass | `TypeOK`, `ProgramLinksClosure`, `LibsIsolated`. Machines `pleb` and `ds20`, two environments, any four SConstruct calls: programs link the closure of their libraries, and only when every library it reaches exists, and no step changes two environments' tables. |
| `copy_mutates_parent` | violation | `CopyLeavesParent`. A `Copy` given `STATIC`, `TESTENV` or `TOOLCHAIN` sets it on the environment it copies before cloning. |
| `markup_render` | pass | `TypeOK`, `RendersAsDocumented`, `WellFormedTerminates`. Every template of up to 3 lexemes, and the well-formed ones of up to 5 lexemes (6 when an if and a loop meet). |
| `unittest_configs` | pass | `TypeOK`, `EveryConfigOnce`, `LoggedCommandIsRunCommand`, `SconsBuildsRequested`. Every And/Or tree of up to three variables and two levels, under each constraint and option: a run that is not cut short tries each allowed configuration exactly once, and the counts match the tests run. The command written to a failure's log, read the way scons reads `name=value` arguments, is the command that was run, and it names exactly the configuration's set variables and `build_dir`. `SconsBuildsRequested`: under five user config-file setups, when build.py's configuration phase accepts a test's command, it builds the test's machine. Unless a user file sets `conf`, it also uses the runner's build directory. A `simulate_test` that never returns leaves main blocked until Ctrl-C; no property is stated of it. |
| `markup_hangs` | violation | `Terminates`. `txt{{*}}`: `{{*` with no later `*}}` sets `window_start` to 2, and the scan returns to the same opener forever. |

Each property of a passing run has a mutant in `PROJECT.json`, written next
to the definition it replaces. The mutants are: the wrapped LOAD line's size
read from the wrong word; the arm reservation after every file; a raw module left
out of `depends`; both builders using one drive letter; the copy loop
running one source too far; the root task's dite entry naming the input
file; the powerpc branch missing from dite's elif chain; a false `if` that resumes one character early; and a loop that
renders one item too many, or never counts its items down; an And generator
whose tail is exhausted after the first item; a pass count that
counts failed tests too; a command line formatted before `build_dir` is stored; a config file's value preferred to the command line's; a `Copy` that shares its parent's table, or stores None for an
absent `STATIC`; and a `get_libs` that stops at a header-only library.
TLC finds each one.

### Bounds

The address unit is 0x4000. `ALIGNMENT` is 4 units. The kernel runs from
0x100000 (64) to 0x180000 (96), which is aligned, or to 0x188000 (98),
which is not. Module footprints are 4 units (a multiple of ALIGNMENT) and
9 units (the spec's 0x23400). Together they reach both branches of `align`
and the spec's end-to-end example. The arm reservation is 256 units
(4 MiB). There are three modules after the kernel. That is enough for a raw
module both between two linked modules and before a module, and for a Linux
module in every position. Raw ELFs are linked at 0x100000 or 0x800000. The architectures are those of the available machines: arm (kernel
reservation), ia32, powerpc, and the 64-bit mips64 and alpha (wrapped
readelf lines); `Bss` is one unit, so file and memory sizes
differ and reading the wrong one shows. The disk model has three sources. The floppy holds two of them and the disk
holds four. These capacities reach both the full-disk failure and the
copy-past-the-end mutant. The template runs go up to 5-6 lexemes, which
is up to 29 characters. That reaches an if inside a loop and the reverse,
ABORT inside bodies, stray closers as text, two-item loops, and both
missing-terminator rewinds. The output is capped at 32 characters.
That is more than any well-formed rendering in the run, so the cap only
cuts off the output of a scan that never ends. The test-runner trees
have up to three variables (machine, example, toolchain) with two
values each, or with none (an empty Variable). They are nested two
levels deep under And and Or, so an And holds an Or and the reverse. The
three constraint sets are none, one on a variable that is present, and
one on a variable that may be absent. Every combination of `-n`, `-b`,
`-l all` and `-m file` is tried.
`machine` is `pleb` or `ia32`, and scons rejects `ia32` as virtual. The
user setups are:
* no config files;
* a `.conf` that picks `pleb2` and sets `print_sim_log`;
* a `~/.sconf` that fails;
* a `.conf` that sets `conf=c`, with `c.conf` present (it picks `nslu2`
  and a `build_dir`) and a `~/.sconf` that picks a machine;
* `conf=c` with `c.conf` missing.
`KengeEnv` has the machines `pleb` (arm, a toolchain prefix) and `ds20`
(no `platform`, so `__init__` fails). It allows two environments and four SConstruct calls after the
first: enough to copy, add a library to either environment, add one that
depends on another or on itself, and link a program. Libraries are `c`,
`l4` and `check` beside the base ones (`idl4`, `gcc`, `template`); the
dependency lists include a missing library, and the programs ask for a
header-only library, two libraries, the template entry and a missing one.
`BootMenu` has two modules, two base names, plain or `.gz`, raw or not,
and two directories, one with "kickstart" in its path: that covers every
name the two rules derive differently.

### Fairness

`Markup` states weak fairness of `Next`. `markup` runs inside one SCons
action and nothing competes with it. `WellFormedTerminates` and
`Terminates` rely on that fairness. The build terminates: each run says
`CHECK_DEADLOCK FALSE`, because a finished or failed build is a final state.
`Relocator` also states weak fairness of `Next`. This is justified because SCons
runs the chain's commands one after another with nothing competing.
`KengeEnv` and `BootMenu` state no fairness and check safety only; SCons
reads the SConstructs in one thread, and their runs end at an exception or
the bound (`CHECK_DEADLOCK FALSE`).
`TestRunner` states no fairness, and its properties are safety
invariants. A liveness property that main reaches its summary would only
say that a bounded loop ends. The case that matters, a `simulate_test`
that never returns, is the phase `blocked`, which only Ctrl-C leaves.

## 5. Not modelled

* The configuration phase is modelled by `Options`, except the help
  text, the `install_*` and `boot_*` options, `idl4_command`, and the
  `c_flags` that the endianness check appends. The builders that only
  assemble command lines (compilers, IDL, ramdisks, busybox), simulators, `build_all.py`,
  `check_version.py`: process I/O and SCons graph construction with no
  state the image's correctness depends on. Two oddities of the
  configuration phase are not checked. `_add_bool` discards `x.lower()`,
  so "True" is rejected; the model has this, but no run asserts it. A list
  option given "a,b" silently takes the first item; values without commas
  leave this out. A user file that sets `conf` overrides the runner's
  `build_dir`; this is listed as a hazard with no run of its own.
* `util.py`: the `OrderedDict` is modelled in `KengeEnv` as a function
  (`CopyTable`, `SetLib`), because nothing reads its order. The unused copy
  of `markup` is not modelled.
* `benchmarks/parse.py`: offline floating-point statistics.
* `machines.py` is modelled as data by `Machines`. Its compiler flags and
  driver lists are left out. `ds20` has no `platform`, so choosing
  `machine=ds20` makes `KengeEnvironment.__init__` raise AttributeError.
  The model shows this in `KengeEnv` (status `AttributeError`), but no run
  asserts it, because a single build with that machine would show it.
* `simulators.py`: `qemu_sim` compares the qemu version as a string
  (`version <= '0.7.0'`), so a version such as "0.10.0" counts as older.
  `build_all.py` counts a configuration it cannot parse in `n_failures`
  but not in `n_tests`. Both are process and text handling with no model
  state, and they are listed as hazards.
* Byte contents of files: an artifact is its LOAD extent, an image is its
  set of sources plus flags.
