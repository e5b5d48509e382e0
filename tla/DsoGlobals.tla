------------------------------ MODULE DsoGlobals ------------------------------
(***************************************************************************)
(* The process-wide state of src/simpleperf/dso.cpp (build_id_map_,        *)
(* kallsyms_, the DebugElfFileFinder's symfs_dir_, g_dump_id_, dso_count_) *)
(* as several ReportLib objects of report_lib_interface.cpp use it: each   *)
(* sets kallsyms and symfs, opens its record file (which stores the file's *)
(* build ids with Dso::SetBuildIds and creates a Dso per file feature),    *)
(* asks GetBuildIdForPath, hands out dump ids, and is destroyed, which     *)
(* destroys its Dsos; the destructor of the last Dso resets every global.  *)
(***************************************************************************)
EXTENDS Naturals, Sequences, SequencesExt, FiniteSets

CONSTANTS
  Instances,      \* ReportLib objects (an address may be reused)
  Paths,          \* dso paths in record files
  BuildIds,       \* non-empty build ids
  RecordFiles,    \* record files an instance may be given
  KallsymsFiles,  \* kallsyms files SetKallsymsFile may be given
  Unreadable,     \* a member of KallsymsFiles ReadFileToString fails on
  SymfsDirs,      \* valid symfs directories
  MaxFileDsos,    \* most Dsos one record file's features create
  MaxDumpIds      \* bound on g_dump_id_ (a uint32_t)

NoBuildId == "no_build_id"   \* BuildId(), IsEmpty()
None == "none"               \* an empty std::string, or no instance
\* dump_id_ == UINT_MAX, !HasDumpId(): a value above every id handed out
\* under the bound MaxDumpIds.
NoDumpId == MaxDumpIds

ASSUME /\ Unreadable \in KallsymsFiles
       /\ \A f \in RecordFiles :
            /\ f.exists \in BOOLEAN
            /\ \A k \in 1..Len(f.build_ids) :
                 f.build_ids[k].path \in Paths /\ f.build_ids[k].id \in BuildIds
            /\ f.dsos \in 0..MaxFileDsos

(* A Dso is a slot of the instance whose ThreadTree holds it: slot 1 is    *)
(* the ThreadTree's own unknown Dso, the others come from file features.   *)
Slots == Instances \X (1..(1 + MaxFileDsos))

VARIABLES
  status,         \* per instance: "none" (not created), "live"
  file,           \* per instance: the file its record_filename_ names
  reader,         \* per instance: the file record_file_reader_ reads, or NoReader
  dsos,           \* per instance: Dsos its ThreadTree holds
  dump_id,        \* per Dso slot: dump_id_
  build_id_map,   \* Dso::build_id_map_: path -> build id
  kallsyms,       \* Dso::kallsyms_
  symfs_dir,      \* debug_elf_file_finder_.symfs_dir_
  g_dump_id,      \* Dso::g_dump_id_
  dso_count,      \* Dso::dso_count_
  ret,            \* the last call and what it returned
  kallsyms_set,   \* history: per instance, what its SetKallsymsFile set
  symfs_set       \* history: per instance, what its SetSymfs set

vars == <<status, file, reader, dsos, dump_id, build_id_map, kallsyms, symfs_dir,
          g_dump_id, dso_count, ret, kallsyms_set, symfs_set>>

NoBuildIds == [p \in Paths |-> NoBuildId]

\* record_file_reader_ == nullptr.  Only an existing file is ever opened, so
\* a file that does not exist stands for no reader.
NoReader == [exists |-> FALSE, build_ids |-> <<>>, dsos |-> 0]
Opened(i) == reader[i] # NoReader

\* ret records the answers of GetBuildIdForPath; other calls clear it.
NoRet == [op |-> "none"]

(***************************************************************************)
(* Dso::SetBuildIds: std::unordered_map::insert of each pair, in order, so *)
(* the first pair for a path wins; the result replaces the whole map.      *)
(***************************************************************************)
SetBuildIds(pairs) ==
  FoldLeft(LAMBDA m, pr : IF m[pr.path] = NoBuildId THEN [m EXCEPT ![pr.path] = pr.id]
                          ELSE m,
           NoBuildIds, pairs)

\* Dso::FindExpectedBuildIdForPath
FindExpectedBuildIdForPath(p) == build_id_map[p]

(***************************************************************************)
(* Dso::~Dso for k Dsos at once: each decrements dso_count_; the one that  *)
(* brings it to 0 clears the globals.  The decrements are monotone, so     *)
(* that happens iff the count ends at 0.                                   *)
(***************************************************************************)
\* Mutant: `if (--dso_count_ <= 1)`, an off-by-one in the teardown test.
DestroyDsosOffByOne(k) ==
  /\ dso_count' = dso_count - k
  /\ IF dso_count - k <= 1
       THEN /\ kallsyms' = None /\ build_id_map' = NoBuildIds
            /\ g_dump_id' = 0 /\ symfs_dir' = None
       ELSE UNCHANGED <<kallsyms, build_id_map, g_dump_id, symfs_dir>>

\* Mutant: g_dump_id_ reset by every destructor, outside the count test.
DestroyDsosResetDumpId(k) ==
  /\ dso_count' = dso_count - k
  /\ g_dump_id' = 0
  /\ IF dso_count - k = 0
       THEN /\ kallsyms' = None /\ build_id_map' = NoBuildIds /\ symfs_dir' = None
       ELSE UNCHANGED <<kallsyms, build_id_map, symfs_dir>>

DestroyDsos(k) ==
  /\ dso_count' = dso_count - k
  /\ IF dso_count - k = 0
       THEN /\ kallsyms' = None /\ build_id_map' = NoBuildIds
            /\ g_dump_id' = 0 /\ symfs_dir' = None
       ELSE UNCHANGED <<kallsyms, build_id_map, g_dump_id, symfs_dir>>

(***************************************************************************)
(* OpenRecordFileIfNecessary as far as the globals see it: on the first    *)
(* successful open, RecordFileReader::LoadBuildIdAndFileFeatures stores    *)
(* the file's build ids and creates a Dso per file feature.                *)
(***************************************************************************)
\* Mutant: the record_file_reader_ == nullptr test left out.
OpenIfNecessaryAlways(i) ==
  IF ~file[i].exists
    THEN /\ UNCHANGED <<reader, dsos, build_id_map, dso_count>>
    ELSE /\ reader' = [reader EXCEPT ![i] = file[i]]
         /\ build_id_map' = SetBuildIds(file[i].build_ids)
         /\ dsos' = [dsos EXCEPT ![i] = @ + file[i].dsos]
         /\ dso_count' = dso_count + file[i].dsos

OpenIfNecessary(i) ==
  IF Opened(i) \/ ~file[i].exists
    THEN /\ UNCHANGED <<reader, dsos, build_id_map, dso_count>>
    ELSE /\ reader' = [reader EXCEPT ![i] = file[i]]
         /\ build_id_map' = SetBuildIds(file[i].build_ids)
         /\ dsos' = [dsos EXCEPT ![i] = @ + file[i].dsos]
         /\ dso_count' = dso_count + file[i].dsos

Init ==
  /\ status = [i \in Instances |-> "none"]
  /\ file \in [Instances -> RecordFiles]
  /\ reader = [i \in Instances |-> NoReader]
  /\ dsos = [i \in Instances |-> 0]
  /\ dump_id = [s \in Slots |-> NoDumpId]
  /\ build_id_map = NoBuildIds
  /\ kallsyms = None
  /\ symfs_dir = None
  /\ g_dump_id = 0
  /\ dso_count = 0
  /\ ret = NoRet
  /\ kallsyms_set = [i \in Instances |-> None]
  /\ symfs_set = [i \in Instances |-> None]

\* CreateReportLib: the ThreadTree's constructor creates its unknown Dso.
CreateReportLib(i) ==
  /\ status[i] = "none"
  /\ status' = [status EXCEPT ![i] = "live"]
  /\ dsos' = [dsos EXCEPT ![i] = 1]
  /\ dso_count' = dso_count + 1
  /\ ret' = NoRet
  /\ UNCHANGED <<file, reader, dump_id, build_id_map, kallsyms, symfs_dir, g_dump_id,
                 kallsyms_set, symfs_set>>

\* ReportLib::SetKallsymsFile, then Dso::SetKallsyms on success.
SetKallsymsFile(i, k) ==
  /\ status[i] = "live"
  /\ IF k = Unreadable
       THEN UNCHANGED <<kallsyms, kallsyms_set>>
       ELSE kallsyms' = k /\ kallsyms_set' = [kallsyms_set EXCEPT ![i] = k]
  /\ ret' = NoRet
  /\ UNCHANGED <<status, file, reader, dsos, dump_id, build_id_map, symfs_dir,
                 g_dump_id, dso_count, symfs_set>>

\* ReportLib::SetSymfs -> Dso::SetSymFsDir with a valid directory (the
\* finder itself is modelled in DebugFileFinder).
SetSymfs(i, d) ==
  /\ status[i] = "live"
  /\ symfs_dir' = d
  /\ symfs_set' = [symfs_set EXCEPT ![i] = d]
  /\ ret' = NoRet
  /\ UNCHANGED <<status, file, reader, dsos, dump_id, build_id_map, kallsyms,
                 g_dump_id, dso_count, kallsyms_set>>

\* ReportLib::SetRecordFile: only record_filename_ changes; a reader that
\* is already open keeps reading the file it opened.
SetRecordFile(i, f) ==
  /\ status[i] = "live"
  /\ file' = [file EXCEPT ![i] = f]
  /\ ret' = NoRet
  /\ UNCHANGED <<status, reader, dsos, dump_id, build_id_map, kallsyms, symfs_dir,
                 g_dump_id, dso_count, kallsyms_set, symfs_set>>

\* ReportLib::GetBuildIdForPath
GetBuildIdForPath(i, p) ==
  /\ status[i] = "live"
  /\ OpenIfNecessary(i)
  /\ ret' = [op |-> "GetBuildIdForPath", inst |-> i, path |-> p,
             value |-> IF reader'[i] # NoReader THEN build_id_map'[p] ELSE NoBuildId]
  /\ UNCHANGED <<status, file, dump_id, kallsyms, symfs_dir, g_dump_id,
                 kallsyms_set, symfs_set>>

\* ReportLib::GetNextSample and the other calls that open the file.
OpenRecordFile(i) ==
  /\ status[i] = "live"
  /\ OpenIfNecessary(i)
  /\ ret' = NoRet
  /\ UNCHANGED <<status, file, dump_id, kallsyms, symfs_dir, g_dump_id,
                 kallsyms_set, symfs_set>>

\* Dso::CreateDumpId on one of the instance's Dsos: CHECK(!HasDumpId()).
CreateDumpId(i, k) ==
  /\ status[i] = "live"
  /\ k <= dsos[i]
  /\ dump_id[<<i, k>>] = NoDumpId
  /\ g_dump_id < MaxDumpIds
  /\ dump_id' = [dump_id EXCEPT ![<<i, k>>] = g_dump_id]
  /\ g_dump_id' = g_dump_id + 1
  /\ ret' = NoRet
  /\ UNCHANGED <<status, file, reader, dsos, build_id_map, kallsyms, symfs_dir,
                 dso_count, kallsyms_set, symfs_set>>

\* DestroyReportLib: the ThreadTree and its Dsos go; the address may be
\* used by a later CreateReportLib, which gets a new record file.
DestroyReportLib(i) ==
  /\ status[i] = "live"
  /\ DestroyDsos(dsos[i])
  /\ status' = [status EXCEPT ![i] = "none"]
  /\ \E f \in RecordFiles : file' = [file EXCEPT ![i] = f]
  /\ reader' = [reader EXCEPT ![i] = NoReader]
  /\ dsos' = [dsos EXCEPT ![i] = 0]
  /\ dump_id' = [s \in Slots |-> IF s[1] = i THEN NoDumpId ELSE dump_id[s]]
  /\ ret' = NoRet
  /\ kallsyms_set' = [kallsyms_set EXCEPT ![i] = None]
  /\ symfs_set' = [symfs_set EXCEPT ![i] = None]

Next ==
  \/ \E i \in Instances : CreateReportLib(i)
  \/ \E i \in Instances, k \in KallsymsFiles : SetKallsymsFile(i, k)
  \/ \E i \in Instances, d \in SymfsDirs : SetSymfs(i, d)
  \/ \E i \in Instances, f \in RecordFiles : SetRecordFile(i, f)
  \/ \E i \in Instances, p \in Paths : GetBuildIdForPath(i, p)
  \/ \E i \in Instances : OpenRecordFile(i)
  \/ \E i \in Instances, k \in 1..(1 + MaxFileDsos) : CreateDumpId(i, k)
  \/ \E i \in Instances : DestroyReportLib(i)

Spec == Init /\ [][Next]_vars

LiveDumpIds == {s \in Slots : status[s[1]] = "live" /\ dump_id[s] # NoDumpId}

TypeOK ==
  /\ status \in [Instances -> {"none", "live"}]
  /\ reader \in [Instances -> RecordFiles \cup {NoReader}]
  /\ dsos \in [Instances -> 0..(1 + MaxFileDsos)]
  /\ dump_id \in [Slots -> 0..NoDumpId]
  /\ build_id_map \in [Paths -> BuildIds \cup {NoBuildId}]
  /\ g_dump_id \in 0..MaxDumpIds
  /\ dso_count \in Nat

(* dso_count_ counts the live Dsos, and the globals are torn down only     *)
(* when it reaches zero: kallsyms_ and symfs_dir_ keep the value the last  *)
(* SetKallsymsFile or SetSymfs gave them as long as the ReportLib that     *)
(* called it is alive, whatever other ReportLibs are created and destroyed *)
(* meanwhile.                                                              *)
ConfigKeptWhileLive ==
  /\ dso_count = SumFunction(dsos)
  /\ \A i \in Instances : kallsyms_set[i] # None => kallsyms # None
  /\ \A i \in Instances : symfs_set[i] # None => symfs_dir # None

(* Dump ids (CreateDumpId hands out g_dump_id_++) are unique among the     *)
(* Dsos alive at once, although g_dump_id_ is reset when the last Dso is   *)
(* destroyed and ReportLibs come and go.                                   *)
DumpIdsUniqueAmongLive ==
  \A s, t \in LiveDumpIds : s # t => dump_id[s] # dump_id[t]
=============================================================================
