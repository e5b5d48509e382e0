# TLA+ models of the simpleperf report library

This directory holds TLA+ models of the parts of `src/` that carry state:
- the sample stream of `ReportLib` (`src/simpleperf/report_lib_interface.cpp`);
- the symbol table of a `Dso` (`src/simpleperf/dso.cpp`);
- the DEX reader it calls (`src/unnamed/part_001`);
- the `DebugElfFileFinder` that picks a Dso's debug file (`dso.cpp`);
- the process-wide `Dso` statics, shared by every `ReportLib` in the process (`dso.cpp`).

Every module is translated from the source. `PROJECT.json` maps each definition to the lines it models.

## The system

A client creates a `ReportLib`, configures it (`SetRecordFile`, `ShowArtFrames`, ...), and then calls `GetNextSample` repeatedly. The calls interact as follows:

* `OpenRecordFileIfNecessary` creates the `RecordFileReader` once. It reads the `META_INFO` feature, which sets `trace_offcpu_`. `GetFeatureSection` and `GetBuildIdForPath` open the file the same way.
* `GetNextSample` reads records until it reaches a SAMPLE. Every record first goes through `ThreadTree::Update`.
  * With `trace_offcpu_`, a sample is held in `next_sample_cache_[tid]`. It is emitted only when the next sample of the same tid arrives.
* `SetCurrentSample` fills the public `Sample`:
  * comm from the ThreadTree;
  * with trace_offcpu, period = `max(next.time, time + 1) - time`.
  * It also builds the call chain. Unless `show_art_frames_` is set, it removes the `libart.so` interpreter frames next to DEX frames.
* Each frame's symbol comes from `Dso::FindSymbol`:
  * The first call loads the table: `LoadSymbols` of the Dso's class, then `SortAndFixSymbols`, then a `set_union` with any symbols `SetSymbols` stored earlier.
  * The lookup uses `upper_bound`, steps back one entry, checks the range, and falls back to `unknown_symbols_`.
  * `ElfDso::AddDexFileOffset` turns an ELF Dso into a DEX Dso. From then on it loads symbols through a nested `DexFileDso`.
  * `ElfDso::MinVirtualAddress` caches `min_vaddr_`.

* `SetSymfs` and `SetKallsymsFile` write statics of `Dso`: the finder's `symfs_dir_` and `kallsyms_`. Opening a record file replaces the static `build_id_map_`. Every `Dso` increments `dso_count_`; the destructor that brings it to 0 resets all statics. A `ReportLib`'s ThreadTree holds an unknown Dso for its whole life (spec §4.4), so the reset happens only when no `ReportLib` is left.
* `DebugElfFileFinder::FindDebugFile` tries the `build_id_list` entry, `symfs + path` and `/usr/lib/debug + path`, in that order, and accepts a file only if its build id matches. When the caller passes no build id, `GetBuildIdFromDsoPath` fills it from the Dso's own file, but only when a symfs is set.

Nothing here runs concurrently: a `ReportLib` is single-threaded. The hard behaviours are orderings of calls and records: a record applied before or after the sample it concerns, a DEX offset added before or after the first lookup, a query before or after the type change. Partial failures and uint64 edges also matter.

## Modules

| module | models | state | actions |
|---|---|---|---|
| `FramePolicy` | the frame loop of `SetCurrentSample` (lines 270-296), `ShowArtFrames` | `ips` (frame kinds of the call chain), `show_art_frames`, `entries` (kept positions), `entries_show` (history) | `ShowArtFrames(show)`, `SetCurrentSample` |
| `ReportLib` | `OpenRecordFileIfNecessary`, `GetNextSample`, `SetCurrentSample` (period, comm), `GetFeatureSection` | `file` (the record file as the reader presents it), `reader_open`, `pos`, `trace_offcpu`, `next_sample_cache` (tid → record index), `current_record`, `current_sample`, `result`, `comm` (ThreadTree), the history variables `emitted` and `record_comm` | `GetNextSample` (three disjuncts: the open fails; end of file; a sample is emitted), `GetFeatureSection` |
| `DebugFileFinder` | `DebugElfFileFinder`: `Reset`, `SetSymFsDir`, `SetVdsoFile`, `FindDebugFile`; `GetBuildIdFromDsoPath` | `disk` (build ids of the files and the `build_id_list` of each root, fixed in Init), `symfs_dir`, `build_id_to_file_map`, `vdso_32bit`, `vdso_64bit`, `ret` | one action per method; the methods are also operators on a finder record (`SetSymFsDirOf`, `FindDebugFileOf`, ...) |
| `DsoGlobals` | the `Dso` statics as several `ReportLib`s use them: `CreateReportLib`, `SetKallsymsFile`, `SetSymfs`, `SetRecordFile`, the open (`SetBuildIds`), `GetBuildIdForPath`, `CreateDumpId`, `DestroyReportLib` with `~Dso` | per instance `status`, `file` (what `record_filename_` names), `reader` (the file `record_file_reader_` reads), `dsos`; per Dso slot `dump_id`; `build_id_map`, `kallsyms`, `symfs_dir`, `g_dump_id`, `dso_count`; history `kallsyms_set`, `symfs_set` (per instance, what its own call set) | one action per call |
| `DsoSymbols` | one `Dso` of any class: `FindSymbol`/`Load`, `LoadSymbols` per class (ELF, DEX, kernel with its vmlinux / kallsyms / `/proc/kallsyms` choice, kernel module, unknown), `SortAndFixSymbols`, `SetSymbols` (with a sorted table of recorded symbols), `AddUnknownSymbol`, `AddDexFileOffset`, `Set`/`MinVirtualAddress`, `ReadSymbolsFromDexFile` | `disk` (what the files hold and, for a kernel Dso, its configuration, fixed in Init), `cls`, `type`, `has_dex_dso`, `dex_file_offsets`, `is_loaded`, `symbols`, `unknown_symbols`, `min_vaddr`, `ret` (the last call's result), history `stored_symbols` (what `symbols_` held when `Load` ran) and `loaded_symbols` (the table `LoadSymbols` returned) | one action per public method |

Each `MC*.tla` module gives the constants their values for TLC.

Abstractions:
* A record is a record of the fields the stream uses: type, tid, time, period or comm.
* A frame is the kind of map its ip resolves to: DEX, libart or other.
* A symbol is `[name, addr, len]`.
* Addresses and times are `uint64_t` scaled down to a few bits. Wraparound is kept: `% 2^bits`.
* `std::sort` is unstable, so `SortedOrders` yields every order of symbols with equal addresses.
* Loops are `RECURSIVE` operators: the record loop of `GetNextSample`, the frame loop, and `set_union`.
* `ThreadTree::Update` is outside `src/`. It is modelled from the spec: a COMM record renames its thread.

## Runs

| run | cfg | expect | what it shows |
|---|---|---|---|
| frame_filter | `MCFramePolicy.cfg` | pass | Over every chain of up to 5 frames, the loop keeps exactly the frames of the declarative rule: a libart frame goes iff only libart frames separate it from a DEX frame. Filtering again is the identity. |
| sample_stream | `MCReportLib.cfg` | pass | Over every file of up to 4 records on 2 tids, with or without meta info and trace_offcpu, each sample is emitted once. Without trace_offcpu, emission is in file order. With it, emission is in the order of the next sample of the same tid. Each period is the gap to that sample, clamped to 1. |
| time_wrap | `MCReportLib_TimeWrap.cfg` | violation | With times allowed to reach the clock's maximum (`Times = {2, 3}` at `TimeBits = 2`), `time + 1` wraps to 0 and an off-CPU period is 0, where spec §8 says it is at least 1. |
| stale_comm | `MCReportLib_StaleComm.cfg` | violation | A deferred off-CPU sample gets the comm set by a later COMM record. |
| meta_retry | `MCReportLib_MetaRetry.cfg` | violation | After a failed meta-info read, a retried `GetNextSample` streams without trace_offcpu. |
| debug_file_finder | `MCDebugFileFinder.cfg` | pass | Over every disk of the bounds and every order of the finder's calls: the index always belongs to the current symfs's `build_id_list`, an invalid `SetSymFsDir` changes nothing, and `FindDebugFile` returns a file with the right build id, the first matching candidate in the order mapped file, symfs+path, /usr/lib/debug+path, falling back to `dso_path` only when no candidate matches. |
| dso_globals | `MCDsoGlobals.cfg` | pass | Two ReportLibs are created, configured, opened and destroyed in any order, and an address can be reused. The reset by the last `~Dso` never clears kallsyms or symfs while the ReportLib that set them lives. Live Dsos never share a dump id, even though `g_dump_id_` restarts at 0. `SetRecordFile` may name a new file at any time; the reader keeps the one it opened. |
| symbol_table | `MCDsoSymbols.cfg` | pass | For ELF (one function aliasing another's address), DEX, kernel (one configuration per branch of `KernelDso::LoadSymbols`), kernel-module and unknown Dsos, under every order of the public calls, including a `SetSymbols` of recorded symbols before the load: `FindSymbol(v)` returns a symbol covering `v` iff the table has one, else the unknown symbol at `v` (`FindSymbolIffCover`); and the table after the load is sorted and, at every address, holds the recorded symbols first and then the loaded ones beyond their count, the multiset `std::set_union` of spec §4.3 (`MergeIsSetUnion`). |
| kernel_proc | `MCDsoSymbols_KernelProc.cfg` | violation | An opted-in kernel Dso with a mismatching build id never reads a readable `/proc/kallsyms`. |
| nested_symbols | `MCDsoSymbols_Nested.cfg` | violation | With an ELF function nested in another, `FindSymbol` misses the outer one past the inner one's end. |
| dex_min_vaddr | `MCDsoSymbols_DexMinVaddr.cfg` | violation | `MinVirtualAddress` of a converted DEX Dso stays at the ELF value cached or set before the conversion. |
| late_dex_offset | `MCDsoSymbols_LateDexOffset.cfg` | violation | A DEX offset added after the first `FindSymbol` is never loaded. |

Every property of a passing run has a mutant in `PROJECT.json`: a plausible bug of the mapped code that TLC catches. Examples:
* `if` instead of `while` in the frame pop;
* a missing cache swap;
* `max(next, time)` without the `+ 1`;
* `lower_bound` instead of `upper_bound`;
* the zero-length fix left out;
* a `set_union` that advances only one range on equal addresses.

The findings are listed in `PROJECT.json`. In short:
* **comm of deferred samples:** spec §5 says a sample reports the comm at record time; the code reports the comm at emission time.
* **retry after a failed meta read:** it silently drops trace_offcpu.
* **nested symbols:** the upper_bound lookup checks only one predecessor.
* **stale `min_vaddr_`** after the ELF→DEX conversion. The test covers only the order offset-first.
* **DEX offsets added after the first lookup** are never loaded.
* **uint64 wrap of the off-CPU period** at a timestamp of UINT64_MAX.
* **/proc/kallsyms opt-in:** the comment and spec §4.3 say opting in suffices; the code also requires a non-empty build id to match.

Not runs, but seen while modelling:
* A kernel Dso extends its last symbol to `UINT64_MAX - addr`. A symbol recorded above that symbol's address, merged by `SetSymbols`, lies inside it, and `FindSymbol` then misses the outer symbol past the recorded one: the nested_symbols finding again. The recorded symbols of the passing run (addresses 0 and 1) stay below the last kernel symbol.
* The `Dso` statics (`kallsyms_`, the finder's symfs, `build_id_map_`) are shared by every `ReportLib` in a process. spec.md lines 128 and 134 declare them process-wide, so one instance's `SetKallsymsFile` replacing another's is the documented behaviour and is not checked as a fault.
* `SetBuildIds` uses `unordered_map::insert`, so for a path listed twice the first build id wins. Spec §8's round trip ("exactly what was inserted, for every pair") cannot hold then, and the spec does not say which pair wins.

## Bounds

* **FramePolicy:** `MaxFrames = 5`. That covers the spec's scenario `art,art,dex,art,native`, and runs of interpreter frames on both sides of one or two DEX frames. That is all 3^1..3^5 chains.
* **ReportLib:**
  * Files have up to 4 records, over 2 tids and 1 comm, with times in 0..2 of a 2-bit clock.
  * That is enough for interleaved tids, a tid with two successors, a COMM between a sample and its successor, equal and decreasing times, and every meta-info case.
* **DebugFileFinder:** one dso path and the vdso; the directories "", a valid one and an invalid one (with or without a trailing '/'); two relative paths, two build ids, and a `build_id_list` of up to 2 lines (1 in the working directory). Only one build id can be found in debug files, so a mapped file, symfs+path and /usr/lib/debug+path can each match or mismatch. That is 784,224 states.
* **DsoGlobals:** two instances, since the hazards are between instances. The passing run's `SetRecordFile` chooses among 4 files (missing; no build ids or features; `/a.so` with B1 and a feature Dso; `/a.so` with B2), which keeps it at 1.27M states. A file has one path and at most one file-feature Dso, and there are 3 dump ids. There are two kallsyms files and two symfs dirs, so one instance can overwrite another's setting. Addresses are reused, so the reset of `g_dump_id_` is followed by new ids.
* **DsoSymbols:** 3-bit addresses. The constants are chosen so that every branch of the code is reached:
  * ELF candidates: a function, a label in text with length 0, a label outside text (rejected), a function adjacent to others, and a function at the same address as another (so `set_union` meets equal addresses in both ranges).
* Recorded symbols for `SetSymbols`: at addresses 0 and 1, so a recorded symbol shares an address with a loaded one.
  * Two DEX offsets, each either a bad file or a file with one method.
  * Kallsyms lines of types T, t and d.
  * Kernel configurations: the passing run takes one per branch of `KernelDso::LoadSymbols` (vmlinux; kallsyms_ text; /proc/kallsyms readable with a matching build id or opted in; unreadable; mismatching build id; nothing). `MCDsoSymbols_KernelProc.cfg` enumerates all configurations and keeps only the kernel class.
  * A min-vaddr read that succeeds (2) or fails.
  * One unknown address.
  * The passing run uses symbols that do not nest. The nested case is the `nested_symbols` finding.

## Refinement and fairness

There is no abstract specification and no liveness property. The abstract stream that `GetNextSample` could refine (read on, emit at most one read sample) says less than `EmittedInSuccessorOrder`, which the sample_stream run checks directly. Liveness would need fairness on `GetNextSample`, and the code gives none: spec §7 lets a client stop at the first null, and nothing obliges it to call again. All runs check the plain `Spec`.

## Not modelled (yet), and the plan for later

1. `SetRecordFile` in `ReportLib` itself: it is an action of `DsoGlobals`, where the file is a record; in `ReportLib` a second record file in every state would multiply the stream's state space.
2. Event attrs and `SetEventOfCurrentSample`: the attr index per sample multiplies the ReportLib state space.
3. `demangle_`, `vmlinux_` and `read_kernel_symbols_from_proc_`: no ReportLib call sets them, so only their reset is in the code path. `CreateSymbolDumpId`.
4. The uint32_t wrap of `g_dump_id_`: it needs 2^32 dump ids.

These are out of reach for good:
* Demangling and names: string conversion that no property depends on.
* ELF, APK and DEX parsing: I/O outside `src/`.
* The memset benchmark.
