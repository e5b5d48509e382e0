----------------------------- MODULE FramePolicy -----------------------------
(***************************************************************************)
(* The ART-frame suppression of ReportLib::SetCurrentSample               *)
(* (src/simpleperf/report_lib_interface.cpp).  A call chain is a sequence  *)
(* of frames; the model keeps of each frame only what the filter looks at: *)
(* the kind of the MapEntry its ip resolves to.  The result is the         *)
(* sequence of positions of the frames that survive, in order, which is    *)
(* what ip_maps holds (pairs of ip and map).                               *)
(***************************************************************************)
EXTENDS Naturals, Sequences, SequencesExt

CONSTANT MaxFrames   \* longest call chain enumerated

ASSUME MaxFrames \in Nat \ {0}

Dex    == "dex"     \* map->dso->type() == DSO_DEX_FILE
Interp == "art"     \* map->dso->Path() ends with "/libart.so"
Native == "native"  \* any other map: native library, kernel, unknown
FrameKinds == {Dex, Interp, Native}

\* is_map_for_interpreter(map)
IsMapForInterpreter(kinds, i) == kinds[i] = Interp

\* while (!ip_maps.empty() && is_map_for_interpreter(ip_maps.back().second))
\*   ip_maps.pop_back();
PopInterpreterFrames(kinds, ip_maps) ==
  LET RECURSIVE Pop(_)
      Pop(s) == IF s # <<>> /\ IsMapForInterpreter(kinds, Last(s))
                  THEN Pop(Front(s)) ELSE s
  IN  Pop(ip_maps)

(* Mutants: a plausible mistake in each step of the loop.                 *)
\* 'if' instead of 'while': only one trailing interpreter frame is removed
PopOneInterpreterFrame(kinds, ip_maps) ==
  IF ip_maps # <<>> /\ IsMapForInterpreter(kinds, Last(ip_maps))
    THEN Front(ip_maps) ELSE ip_maps

\* The loop over ips with near_java_method; one step per frame.
FilterFramesWith(kinds, show_art_frames, popAll, keepsNear) ==
  LET RECURSIVE Step(_, _, _)
      Pop(ip_maps) == IF popAll THEN PopInterpreterFrames(kinds, ip_maps)
                                ELSE PopOneInterpreterFrame(kinds, ip_maps)
      Step(i, ip_maps, near_java_method) ==
        IF i > Len(kinds) THEN ip_maps
        ELSE IF show_art_frames
          THEN Step(i + 1, Append(ip_maps, i), near_java_method)
        ELSE IF kinds[i] = Dex
          THEN Step(i + 1, Append(Pop(ip_maps), i), TRUE)
        ELSE IF IsMapForInterpreter(kinds, i)
          THEN IF near_java_method
                 THEN Step(i + 1, ip_maps, near_java_method)
                 ELSE Step(i + 1, Append(ip_maps, i), near_java_method)
        ELSE Step(i + 1, Append(ip_maps, i), keepsNear /\ near_java_method)
  IN  Step(1, <<>>, FALSE)

FilterFramesPopOne(kinds, show_art_frames) ==
  FilterFramesWith(kinds, show_art_frames, FALSE, FALSE)

\* a native frame that does not clear near_java_method
FilterFramesStickyNear(kinds, show_art_frames) ==
  FilterFramesWith(kinds, show_art_frames, TRUE, TRUE)

\* Mutant: the frame recorded one position too far (ips[i + 1]).
FilterFramesOffByOne(kinds, show_art_frames) ==
  LET kept == FilterFramesWith(kinds, show_art_frames, TRUE, FALSE)
  IN  [k \in 1..Len(kept) |-> kept[k] + 1]

\* The positions of the frames SetCurrentSample keeps.
FilterFrames(kinds, show_art_frames) ==
  FilterFramesWith(kinds, show_art_frames, TRUE, FALSE)

(***************************************************************************)
(* Reference definition (spec section 4.6): an interpreter frame is        *)
(* dropped iff a DEX frame is reachable from it across interpreter frames  *)
(* only, on either side; every other frame is kept.                        *)
(***************************************************************************)
NearJava(kinds, i) ==
  \E j \in 1..Len(kinds) :
     /\ kinds[j] = Dex
     /\ \A k \in 1..Len(kinds) :
          (k > i /\ k < j) \/ (k > j /\ k < i) => kinds[k] = Interp

ReferenceFrames(kinds, show_art_frames) ==
  SetToSortSeq({i \in 1..Len(kinds) :
                  show_art_frames \/ ~IsMapForInterpreter(kinds, i)
                                  \/ ~NearJava(kinds, i)},
               LAMBDA a, b : a < b)

\* Call chains GetCallChain can return: never empty, it starts with the ip.
CallChains == BoundedSeq(FrameKinds, MaxFrames) \ {<<>>}

(***************************************************************************)
(* A state machine around the filter: the chain of the current sample, the *)
(* show_art_frames_ switch of ReportLib, and the filtered entries.         *)
(***************************************************************************)
VARIABLES
  ips,              \* kinds of the maps of r.GetCallChain()
  show_art_frames,  \* ReportLib::show_art_frames_
  entries,          \* callchain_entries_, as positions in ips
  entries_show      \* history: show_art_frames_ when entries were built

vars == <<ips, show_art_frames, entries, entries_show>>

Init ==
  /\ ips \in CallChains
  /\ show_art_frames = FALSE
  /\ entries = <<>>
  /\ entries_show = FALSE

\* ReportLib::ShowArtFrames(bool show)
ShowArtFrames(show) ==
  /\ show_art_frames' = show
  /\ UNCHANGED <<ips, entries, entries_show>>

\* The frame part of ReportLib::SetCurrentSample for the current record.
SetCurrentSample ==
  /\ entries' = FilterFrames(ips, show_art_frames)
  /\ entries_show' = show_art_frames
  /\ UNCHANGED <<ips, show_art_frames>>

Next ==
  \/ \E show \in BOOLEAN : ShowArtFrames(show)
  \/ SetCurrentSample

Spec == Init /\ [][Next]_vars

TypeOK ==
  /\ ips \in CallChains
  /\ show_art_frames \in BOOLEAN
  /\ entries \in Seq(1..MaxFrames)
  /\ entries_show \in BOOLEAN

(* The loop of SetCurrentSample keeps exactly the frames the reference     *)
(* rule keeps: an ART interpreter frame goes iff only interpreter frames   *)
(* separate it from a DEX frame, in either direction.                      *)
FilterMatchesReference ==
  entries # <<>> => entries = ReferenceFrames(ips, entries_show)

(* Filtering is idempotent (spec section 8): filtering the kept frames     *)
(* again keeps all of them.  This fails if the backward pop stops early.   *)
FilterIdempotent ==
  LET kept == [k \in 1..Len(entries) |-> ips[entries[k]]]
  IN  entries # <<>> =>
        FilterFrames(kept, entries_show) = [k \in 1..Len(kept) |-> k]
=============================================================================
