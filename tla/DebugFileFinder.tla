--------------------------- MODULE DebugFileFinder ---------------------------
(***************************************************************************)
(* simpleperf_dso_impl::DebugElfFileFinder (src/simpleperf/dso.cpp): the   *)
(* symfs directory with its build_id_list index, the two vdso overrides,   *)
(* Reset, and FindDebugFile, which maps a dso path and an expected build   *)
(* id to the file symbols are read from.                                   *)
(*                                                                         *)
(* A path is a record [root, rel]: the string root + rel.  The roots are   *)
(* "" (a path used as is), a symfs directory with its trailing '/', and    *)
(* /usr/lib/debug.  What the file system holds (which directories exist,   *)
(* the build id of each file, the text of each build_id_list) is chosen    *)
(* once in Init.                                                           *)
(***************************************************************************)
EXTENDS Naturals, Sequences, SequencesExt

CONSTANTS
  DsoPaths,      \* dso paths FindDebugFile is asked about
  Vdso,          \* the dso path "[vdso]", a member of DsoPaths
  DirNames,      \* names SetSymFsDir may be given ("" included)
  Dirs,          \* the ones IsDir() accepts
  RelPaths,      \* right-hand sides of build_id_list lines
  BuildIds,      \* non-empty build ids
  VdsoFiles,     \* files SetVdsoFile may be given
  ListKeys,      \* build ids on the left of build_id_list lines
  DebugFileIds,  \* build ids the candidate debug files may carry
  MaxListLines,  \* longest build_id_list in a symfs directory
  MaxCwdLines    \* longest build_id_list in the working directory

ASSUME /\ Vdso \in DsoPaths
       /\ "" \in DirNames /\ Dirs \subseteq DirNames \ {""}
       /\ ListKeys \subseteq BuildIds /\ DebugFileIds \subseteq BuildIds

NoBuildId == "no_build_id"   \* BuildId(): IsEmpty(), or no build id readable
NoFile == "no_file"          \* an empty std::string (vdso unset, not mapped)
UsrLibDebug == "/usr/lib/debug"

Path(root, rel) == [root |-> root, rel |-> rel]

(* A directory argument: its name and whether it already ends with '/'.    *)
DirArgs == {[name |-> "", slash |-> FALSE]} \cup
           [name : DirNames \ {""}, slash : BOOLEAN]

\* The normalized symfs_dir_: dirname with its trailing '/' ("" stays "").
SymfsRoot(name) == IF name = "" THEN "" ELSE name \o "/"

(* A line of build_id_list after Split(line, "="): well formed when it has *)
(* exactly two items.                                                      *)
Lines == [key : ListKeys, value : RelPaths, two_items : BOOLEAN]

\* The dso files themselves, and the debug files FindDebugFile may try.
DsoFiles == {Path("", p) : p \in DsoPaths \ {Vdso}}
CandidatePaths ==
  {Path(SymfsRoot(d), r) : d \in Dirs, r \in RelPaths \cup (DsoPaths \ {Vdso})} \cup
  {Path(UsrLibDebug, p) : p \in DsoPaths \ {Vdso}}

\* The build_id_list files SetSymFsDir may read: in each directory, and in
\* the working directory (symfs_dir_ + "build_id_list" with symfs_dir_ "").
ListRoots == {""} \cup {SymfsRoot(d) : d \in Dirs}

Disks ==
  { d \in [build_id : [DsoFiles \cup CandidatePaths -> BuildIds \cup {NoBuildId}],
          list : [ListRoots -> BoundedSeq(Lines, MaxListLines)]] :
      /\ \A p \in CandidatePaths : d.build_id[p] \in DebugFileIds \cup {NoBuildId}
      /\ Len(d.list[""]) <= MaxCwdLines }

EmptyIndex == [b \in BuildIds |-> NoFile]

VARIABLES
  disk,                  \* the file system (fixed)
  symfs_dir,             \* symfs_dir_, normalized
  build_id_to_file_map,  \* build_id_to_file_map_: build id -> rel path
  vdso_32bit,            \* vdso_32bit_
  vdso_64bit,            \* vdso_64bit_
  ret                    \* the last call and what it returned

vars == <<disk, symfs_dir, build_id_to_file_map, vdso_32bit, vdso_64bit, ret>>

\* GetBuildIdFromDsoPath: the build id of a file, NoBuildId on failure.
BuildIdOf(path) ==
  IF path \in DOMAIN disk.build_id THEN disk.build_id[path] ELSE NoBuildId

(***************************************************************************)
(* The index SetSymFsDir builds: build_id_to_file_map_[items[0]] =         *)
(* items[1] for each well-formed line, in order, so a later line wins.     *)
(***************************************************************************)
\* Mutant: items[0] and items[1] swapped.
ParseBuildIdListSwapped(lines) ==
  FoldLeft(LAMBDA m, l : IF l.two_items THEN [m EXCEPT ![l.key] = l.key] ELSE m,
           EmptyIndex, lines)

ParseBuildIdList(lines) ==
  FoldLeft(LAMBDA m, l : IF l.two_items THEN [m EXCEPT ![l.key] = l.value] ELSE m,
           EmptyIndex, lines)

(* The finder's operations as functions of its state, so that a module     *)
(* composing it with the Dso globals can use them.                         *)
SetSymFsDirWith(f, d, clearFirst) ==
  IF d.name # "" /\ d.name \notin Dirs
    THEN [f EXCEPT !.ok = FALSE, !.map = IF clearFirst THEN EmptyIndex ELSE @]
    ELSE [f EXCEPT !.ok = TRUE, !.symfs = SymfsRoot(d.name),
                   !.map = ParseBuildIdList(disk.list[SymfsRoot(d.name)])]

\* Mutant: build_id_to_file_map_ cleared before the directory is validated.
SetSymFsDirClearFirst(f, d) == SetSymFsDirWith(f, d, TRUE)

\* DebugElfFileFinder::SetSymFsDir: an invalid directory leaves all as it was.
SetSymFsDirOf(f, d) == SetSymFsDirWith(f, d, FALSE)

\* DebugElfFileFinder::Reset
ResetOf(f) == [f EXCEPT !.symfs = "", !.map = EmptyIndex,
                        !.vdso32 = NoFile, !.vdso64 = NoFile]

(***************************************************************************)
(* FindDebugFile(dso_path, force_64bit, build_id): the path and the        *)
(* build_id reference parameter after the call (it is filled from dso_path *)
(* when it came in empty).                                                 *)
(***************************************************************************)
\* The candidates after build_id_to_file_map_: symfs_dir_ + dso_path, then
\* each of the system debug directories + dso_path.
FindDebugFileTrying(f, dso_path, force_64bit, build_id, sysdirs) ==
  LET \* GetBuildIdFromDsoPath fills build_id only inside the symfs branch.
      bid == IF build_id # NoBuildId \/ f.symfs = "" \/ dso_path = Vdso THEN build_id
             ELSE BuildIdOf(Path("", dso_path))
      mapped == IF bid = NoBuildId THEN NoFile ELSE f.map[bid]
      cands == <<Path(f.symfs, dso_path)>> \o
               [i \in 1..Len(sysdirs) |-> Path(sysdirs[i], dso_path)]
      tries == IF mapped # NoFile THEN <<Path(f.symfs, mapped)>> \o cands ELSE cands
      hits == {i \in 1..Len(tries) : BuildIdOf(tries[i]) = bid}
  IN  IF dso_path = Vdso
        THEN [path |-> IF force_64bit /\ f.vdso64 # NoFile THEN Path("", f.vdso64)
                       ELSE IF ~force_64bit /\ f.vdso32 # NoFile THEN Path("", f.vdso32)
                       ELSE Path("", dso_path),
              build_id |-> build_id]
      ELSE IF f.symfs = "" \/ bid = NoBuildId \/ hits = {}
        THEN [path |-> Path("", dso_path), build_id |-> bid]
      ELSE [path |-> tries[Min(hits)], build_id |-> bid]

\* Mutant: /usr/lib/debug is not tried.
FindDebugFileNoSystemDir(f, dso_path, force_64bit, build_id) ==
  FindDebugFileTrying(f, dso_path, force_64bit, build_id, <<>>)

FindDebugFileOf(f, dso_path, force_64bit, build_id) ==
  FindDebugFileTrying(f, dso_path, force_64bit, build_id, <<UsrLibDebug>>)

(***************************************************************************)
(* The finder as a state machine.                                          *)
(***************************************************************************)
Finder == [symfs |-> symfs_dir, map |-> build_id_to_file_map,
           vdso32 |-> vdso_32bit, vdso64 |-> vdso_64bit, ok |-> TRUE]

Init ==
  /\ disk \in Disks
  /\ symfs_dir = ""
  /\ build_id_to_file_map = EmptyIndex
  /\ vdso_32bit = NoFile
  /\ vdso_64bit = NoFile
  /\ ret = [op |-> "none"]

Become(f) ==
  /\ symfs_dir' = f.symfs
  /\ build_id_to_file_map' = f.map
  /\ vdso_32bit' = f.vdso32
  /\ vdso_64bit' = f.vdso64

SetSymFsDir(d) ==
  LET f == SetSymFsDirOf(Finder, d)
  IN  /\ Become(f)
      /\ ret' = [op |-> "SetSymFsDir", arg |-> d, ok |-> f.ok]
      /\ UNCHANGED disk

\* DebugElfFileFinder::SetVdsoFile
SetVdsoFile(file, is_64bit) ==
  /\ IF is_64bit THEN vdso_64bit' = file /\ UNCHANGED vdso_32bit
                 ELSE vdso_32bit' = file /\ UNCHANGED vdso_64bit
  /\ ret' = [op |-> "SetVdsoFile"]
  /\ UNCHANGED <<disk, symfs_dir, build_id_to_file_map>>

Reset ==
  /\ Become(ResetOf(Finder))
  /\ ret' = [op |-> "Reset"]
  /\ UNCHANGED disk

FindDebugFile(dso_path, force_64bit, build_id) ==
  /\ ret' = [op |-> "FindDebugFile", dso_path |-> dso_path, force_64bit |-> force_64bit,
             build_id |-> build_id,
             result |-> FindDebugFileOf(Finder, dso_path, force_64bit, build_id)]
  /\ UNCHANGED <<disk, symfs_dir, build_id_to_file_map, vdso_32bit, vdso_64bit>>

Next ==
  \/ \E d \in DirArgs : SetSymFsDir(d)
  \/ \E v \in VdsoFiles, b \in BOOLEAN : SetVdsoFile(v, b)
  \/ Reset
  \/ \E p \in DsoPaths, b \in BOOLEAN, id \in BuildIds \cup {NoBuildId} :
       FindDebugFile(p, b, id)

Spec == Init /\ [][Next]_vars

TypeOK ==
  /\ disk \in Disks
  /\ symfs_dir \in ListRoots
  /\ build_id_to_file_map \in [BuildIds -> RelPaths \cup {NoFile}]
  /\ vdso_32bit \in VdsoFiles \cup {NoFile}
  /\ vdso_64bit \in VdsoFiles \cup {NoFile}

(* The index in a build_id_list by its definition (spec section 6): for    *)
(* each build id, the right-hand side of the last line of the form         *)
(* HEX=relpath; lines without exactly one '=' are skipped.                 *)
IndexOfList(lines) ==
  [b \in BuildIds |->
     LET at == {i \in 1..Len(lines) : lines[i].two_items /\ lines[i].key = b}
     IN  IF at = {} THEN NoFile ELSE lines[Max(at)].value]

(* SetSymFsDir keeps the index and the symfs directory together: whatever  *)
(* sequence of valid and invalid directories and Resets came before, the   *)
(* index FindDebugFile consults is the build_id_list of the current symfs  *)
(* directory.  A failed SetSymFsDir must leave both alone.                 *)
IndexFollowsSymfs ==
  symfs_dir # "" => build_id_to_file_map = IndexOfList(disk.list[symfs_dir])

(* FindDebugFile (spec section 4.2, section 7 BUILD_ID_MISMATCH): a path    *)
(* other than dso_path is returned only when its build id equals the      *)
(* (possibly filled-in) build_id the caller gets back; and with a symfs    *)
(* directory and a known build id, the result is the first of the ordered  *)
(* candidates (the build_id_list file, symfs_dir + dso_path,               *)
(* /usr/lib/debug + dso_path) whose on-disk build id is that one.          *)
DebugFileMatchesBuildId ==
  ret.op = "FindDebugFile" /\ ret.dso_path # Vdso =>
    LET r == ret.result
        own == Path("", ret.dso_path)
        mapped == IF r.build_id = NoBuildId THEN NoFile
                  ELSE build_id_to_file_map[r.build_id]
        order == (IF mapped = NoFile THEN <<>> ELSE <<Path(symfs_dir, mapped)>>)
                 \o <<Path(symfs_dir, ret.dso_path), Path(UsrLibDebug, ret.dso_path)>>
        matching == {i \in 1..Len(order) : BuildIdOf(order[i]) = r.build_id}
    IN  /\ r.path # own => r.build_id # NoBuildId /\ BuildIdOf(r.path) = r.build_id
        /\ symfs_dir # "" /\ r.build_id # NoBuildId /\ matching # {} =>
             r.path = order[Min(matching)]
=============================================================================
