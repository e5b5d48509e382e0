------------------------------ MODULE ReportLib ------------------------------
(***************************************************************************)
(* The sample stream of ReportLib (src/simpleperf/report_lib_interface.cpp)*)
(* over one record file: OpenRecordFileIfNecessary, GetNextSample with its *)
(* per-tid next_sample_cache_ for trace-offcpu files, the sample fields    *)
(* SetCurrentSample derives from the record and the ThreadTree, and the    *)
(* queries that open the file as a side effect.                            *)
(*                                                                         *)
(* A record is reduced to what the stream tells apart: a SAMPLE carries    *)
(* tid, time and period; a COMM record renames a thread in the ThreadTree. *)
(* The call chain of a sample is modelled in FramePolicy.                  *)
(***************************************************************************)
EXTENDS Naturals, Sequences, SequencesExt, FiniteSets

CONSTANTS
  Tids,        \* thread ids appearing in the record file
  Comms,       \* thread names a COMM record can set
  UnknownComm, \* comm of a thread ThreadTree creates on first use
  Times,       \* sample timestamps (uint64_t, see TimeBits)
  Periods,     \* period_data.period values of samples
  TimeBits,    \* width of the uint64_t time arithmetic, scaled down
  MaxRecords   \* longest record file enumerated

ASSUME /\ TimeBits \in Nat \ {0}
       /\ Times \subseteq 0..(2^TimeBits - 1)
       /\ Periods \subseteq Nat
       /\ MaxRecords \in Nat \ {0}
       /\ UnknownComm \notin Comms

TimeMod == 2^TimeBits

SampleRecords == [type : {"sample"}, tid : Tids, time : Times, period : Periods]
CommRecords   == [type : {"comm"}, tid : Tids, comm : Comms]
Records       == SampleRecords \cup CommRecords

(***************************************************************************)
(* A record file as RecordFileReader presents it: whether CreateInstance   *)
(* succeeds, whether the META_INFO feature is present and readable, the    *)
(* trace_offcpu value it holds, and the data records in file order.        *)
(***************************************************************************)
RecordFiles ==
  { f \in [exists : BOOLEAN, has_meta : BOOLEAN, meta_ok : BOOLEAN,
           trace_offcpu : BOOLEAN, records : BoundedSeq(Records, MaxRecords)] :
      /\ ~f.exists => f.records = <<>> /\ ~f.has_meta
      /\ ~f.has_meta => f.meta_ok /\ ~f.trace_offcpu }

NoRecord == 0           \* a null std::unique_ptr<SampleRecord>
NoSample == [tid |-> NoRecord]

VARIABLES
  file,                 \* the file record_filename_ names
  reader_open,          \* record_file_reader_ != nullptr
  pos,                  \* records the reader has returned so far
  trace_offcpu,         \* trace_offcpu_
  next_sample_cache,    \* next_sample_cache_: tid -> index of the record
  current_record,       \* current_record_, as an index into file.records
  current_sample,       \* current_sample_
  result,               \* what the last GetNextSample returned
  comm,                 \* ThreadTree: comm of each thread
  emitted,              \* history: records emitted, in order
  record_comm           \* history: comm of the sample's thread when read

vars == <<file, reader_open, pos, trace_offcpu, next_sample_cache,
          current_record, current_sample, result, comm, emitted, record_comm>>

Rec(i) == file.records[i]
IsSample(r) == r.type = "sample"

(***************************************************************************)
(* ThreadTree, an external collaborator modelled from the spec: Update     *)
(* applies a COMM record; other records leave comms alone.                 *)
(***************************************************************************)
Update(cm, r) == IF r.type = "comm" THEN [cm EXCEPT ![r.tid] = r.comm] ELSE cm

(***************************************************************************)
(* OpenRecordFileIfNecessary: the reader is created once.  A failed        *)
(* ReadMetaInfoFeature returns false but keeps the reader, so the next     *)
(* call returns true without reading meta info again.                      *)
(***************************************************************************)
OpenRecordFileIfNecessary ==
  IF reader_open
    THEN [ok |-> TRUE, open |-> TRUE, trace |-> trace_offcpu]
  ELSE IF ~file.exists
    THEN [ok |-> FALSE, open |-> FALSE, trace |-> trace_offcpu]
  ELSE IF file.has_meta /\ ~file.meta_ok
    THEN [ok |-> FALSE, open |-> TRUE, trace |-> trace_offcpu]
  ELSE [ok |-> TRUE, open |-> TRUE,
        trace |-> IF file.has_meta THEN file.trace_offcpu ELSE trace_offcpu]

(***************************************************************************)
(* The while (true) loop of GetNextSample from record i on: every record   *)
(* goes through ThreadTree::Update; a SAMPLE is returned at once, or, when *)
(* trace is on, swapped with the one cached for its tid (the first sample  *)
(* of a tid is only cached).  emit = NoRecord means end of file.           *)
(***************************************************************************)
RECURSIVE ReadUntilSampleWith(_, _, _, _, _, _)
ReadUntilSampleWith(i, cm, rc, cache, trace, swaps) ==
  IF i > Len(file.records)
    THEN [pos |-> Len(file.records), comm |-> cm, record_comm |-> rc,
          cache |-> cache, emit |-> NoRecord]
  ELSE
    LET r   == Rec(i)
        cm2 == Update(cm, r)
        rc2 == IF IsSample(r) THEN [rc EXCEPT ![i] = cm2[r.tid]] ELSE rc
    IN  IF ~IsSample(r)
          THEN ReadUntilSampleWith(i + 1, cm2, rc2, cache, trace, swaps)
        ELSE IF ~trace
          THEN [pos |-> i, comm |-> cm2, record_comm |-> rc2,
                cache |-> cache, emit |-> i]
        ELSE IF cache[r.tid] = NoRecord
          THEN ReadUntilSampleWith(i + 1, cm2, rc2,
                                   [cache EXCEPT ![r.tid] = i], trace, swaps)
        ELSE [pos |-> i, comm |-> cm2, record_comm |-> rc2,
              cache |-> IF swaps THEN [cache EXCEPT ![r.tid] = i] ELSE cache,
              emit |-> cache[r.tid]]

\* Mutant: it->second.reset(r) left out, the cache keeps the old sample.
ReadUntilSampleNoSwap(i, cm, rc, cache, trace) ==
  ReadUntilSampleWith(i, cm, rc, cache, trace, FALSE)

\* Mutant: the position also counts the null record at end of file.
ReadUntilSamplePastEnd(i, cm, rc, cache, trace) ==
  LET s == ReadUntilSampleWith(i, cm, rc, cache, trace, TRUE)
  IN  IF s.emit = NoRecord THEN [s EXCEPT !.pos = @ + 1] ELSE s

ReadUntilSample(i, cm, rc, cache, trace) ==
  ReadUntilSampleWith(i, cm, rc, cache, trace, TRUE)

(***************************************************************************)
(* The period of SetCurrentSample, in uint64_t arithmetic:                 *)
(*   next_time = max(cache[tid]->time, r.time + 1); period = next - time.  *)
(***************************************************************************)
Max2(a, b) == IF a >= b THEN a ELSE b

\* Mutant: the clamp written max(next, r.time), allowing a zero period.
OffCpuPeriodNoClamp(time, next_cached_time) ==
  (Max2(next_cached_time, time) + TimeMod - time) % TimeMod

OffCpuPeriodOf(time, next_cached_time) ==
  (Max2(next_cached_time, (time + 1) % TimeMod) + TimeMod - time) % TimeMod

\* The Sample fields SetCurrentSample fills for record idx.
SetCurrentSample(idx, cm, cache, trace) ==
  LET r == Rec(idx)
  IN  [tid    |-> r.tid,
       time   |-> r.time,
       comm   |-> cm[r.tid],
       period |-> IF trace THEN OffCpuPeriodOf(r.time, Rec(cache[r.tid]).time)
                           ELSE r.period]

Init ==
  /\ file \in RecordFiles
  /\ reader_open = FALSE
  /\ pos = 0
  /\ trace_offcpu = FALSE
  /\ next_sample_cache = [t \in Tids |-> NoRecord]
  /\ current_record = NoRecord
  /\ current_sample = NoSample
  /\ result = "none"
  /\ comm = [t \in Tids |-> UnknownComm]
  /\ emitted = <<>>
  /\ record_comm = [i \in 1..MaxRecords |-> UnknownComm]

\* ReportLib::GetNextSample
GetNextSample ==
  LET o == OpenRecordFileIfNecessary
      s == ReadUntilSample(pos + 1, comm, record_comm, next_sample_cache, o.trace)
  IN  /\ reader_open' = o.open
      /\ trace_offcpu' = o.trace
      /\ \/ /\ ~o.ok
            /\ result' = "null"
            /\ UNCHANGED <<pos, next_sample_cache, current_record,
                           current_sample, comm, emitted, record_comm>>
         \/ /\ o.ok
            /\ s.emit = NoRecord
            /\ result' = "null"
            /\ pos' = s.pos
            /\ comm' = s.comm
            /\ record_comm' = s.record_comm
            /\ next_sample_cache' = s.cache
            /\ UNCHANGED <<current_record, current_sample, emitted>>
         \/ /\ o.ok
            /\ s.emit # NoRecord
            /\ result' = "sample"
            /\ pos' = s.pos
            /\ comm' = s.comm
            /\ record_comm' = s.record_comm
            /\ next_sample_cache' = s.cache
            /\ current_record' = s.emit
            /\ current_sample' = SetCurrentSample(s.emit, s.comm, s.cache, o.trace)
            /\ emitted' = Append(emitted, s.emit)
      /\ UNCHANGED file

\* ReportLib::GetFeatureSection, and likewise GetBuildIdForPath: both open
\* the file first; their return value does not feed back into the stream.
GetFeatureSection ==
  LET o == OpenRecordFileIfNecessary
  IN  /\ reader_open' = o.open
      /\ trace_offcpu' = o.trace
      /\ UNCHANGED <<file, pos, next_sample_cache, current_record,
                     current_sample, result, comm, emitted, record_comm>>

Next == GetNextSample \/ GetFeatureSection

Spec == Init /\ [][Next]_vars

(***************************************************************************)
(* Reference definitions over the whole file.                              *)
(***************************************************************************)
SampleIdx == {i \in 1..Len(file.records) : IsSample(Rec(i))}

\* The next SAMPLE on the same tid after sample i, or 0 if there is none.
Successor(i) ==
  LET later == {j \in SampleIdx : j > i /\ Rec(j).tid = Rec(i).tid}
  IN  IF later = {} THEN 0 ELSE CHOOSE j \in later : \A k \in later : j <= k

\* The samples a reader that has consumed n records has emitted: all of
\* them in file order; with trace_offcpu, each sample once its successor
\* on the same tid has been read, in the order of those successors.
ExpectedEmissions(n, trace) ==
  IF ~trace
    THEN SetToSortSeq({i \in SampleIdx : i <= n}, LAMBDA a, b : a < b)
    ELSE SetToSortSeq({i \in SampleIdx : Successor(i) # 0 /\ Successor(i) <= n},
                      LAMBDA a, b : Successor(a) < Successor(b))

TypeOK ==
  /\ file \in RecordFiles
  /\ reader_open \in BOOLEAN
  /\ pos \in 0..Len(file.records)
  /\ trace_offcpu \in BOOLEAN
  /\ next_sample_cache \in [Tids -> 0..Len(file.records)]
  /\ current_record \in 0..Len(file.records)
  /\ current_sample \in {NoSample} \cup
       [tid : Tids, time : Times, comm : Comms \cup {UnknownComm},
        period : 0..(TimeMod - 1) \cup Periods]
  /\ result \in {"none", "null", "sample"}
  /\ comm \in [Tids -> Comms \cup {UnknownComm}]
  /\ emitted \in Seq(1..MaxRecords)
  /\ record_comm \in [1..MaxRecords -> Comms \cup {UnknownComm}]

(* The per-tid cache hands out every sample exactly once and in the right  *)
(* order: without trace_offcpu all samples read so far in file order; with *)
(* it, each sample as soon as the next sample of its tid has been read and *)
(* never the last sample of a tid.  A lost or stale cache entry shows up   *)
(* as a missing, repeated or reordered sample only several records later.  *)
EmittedInSuccessorOrder ==
  emitted = ExpectedEmissions(pos, trace_offcpu)

(* With trace_offcpu, the period of a sample is the time to the next sample *)
(* of the same tid in the file, or 1 when that one is not later.  The code *)
(* reads the successor from next_sample_cache_ after the swap in            *)
(* GetNextSample, so this ties the swap to the period SetCurrentSample      *)
(* computes.                                                               *)
OffCpuPeriodIsGapToNext ==
  trace_offcpu /\ current_record # NoRecord =>
    LET t == Rec(current_record).time
        s == Successor(current_record)
    IN  /\ s # 0
        /\ current_sample.period = IF Rec(s).time > t THEN Rec(s).time - t ELSE 1

(* Spec section 5: ThreadTree updates are applied in record order before   *)
(* the corresponding sample is enriched, so a sample reports the comm its  *)
(* thread had when the sample was recorded.                                *)
SampleCommAtRecordTime ==
  current_record # NoRecord =>
    current_sample.comm = record_comm[current_record]

(* Spec section 4.5: the period of every emitted sample follows the        *)
(* trace_offcpu value of the file's meta info.                             *)
OffcpuModeFollowsFile ==
  result = "sample" => trace_offcpu = (file.has_meta /\ file.trace_offcpu)

(* Spec section 8: with trace_offcpu the period is clamped to at least 1.  *)
(* SetCurrentSample computes r.time_data.time + 1 in uint64_t.             *)
PeriodPositive ==
  trace_offcpu /\ current_record # NoRecord => current_sample.period >= 1
=============================================================================
