-------------------------- MODULE ArtworkMessages --------------------------
(***************************************************************************)
(* What the firmware's tasks tell each other about covers                  *)
(* (firmware/include/app/messages.h), and the files of the artwork         *)
(* partition, which the artwork task writes and the display reads.         *)
(*                                                                         *)
(* A cover id is the hash of the JPEG, so it names the file, its bytes and *)
(* the palette the host derived from them.                                 *)
(***************************************************************************)
EXTENDS Naturals

CONSTANTS
  Covers,         (* artwork ids                                           *)
  TrackIds,       (* track ids                                             *)
  Titles,         (* titles, each with its artist and album                *)
  Tracks,         (* what snapshots may say of the track                   *)
  MaxGeneration,  (* bound: artwork generations in a run                   *)
  None            (* an empty string, an empty queue, nothing              *)

(* What can be said of a track.  "player": there is none, it is stopped, or *)
(* it plays or pauses.                                                     *)
Track == [id : TrackIds \cup {None}, title : Titles \cup {None},
          player : {"none", "stopped", "active"}]

ASSUME MessagesAssumption ==
  /\ Tracks \subseteq Track
  /\ None \notin Covers \cup TrackIds \cup Titles
  /\ MaxGeneration \in Nat

VARIABLE files    (* LittleFS: "missing", "valid" or "corrupt" by cover    *)

(* Artwork id, palette and generation.  A generation without an id is the  *)
(* host's authoritative fallback; generation 0 says nothing about visuals. *)
Visual == [id : Covers \cup {None}, generation : 0 .. MaxGeneration]

NoVisual == [id |-> None, generation |-> 0]

IsFallback(v) == v.id = None /\ v.generation # 0

Snapshot == [track : Track, visual : Visual]

Result == [visual : Visual, success : BOOLEAN]

(* artworkMatches: same id, generation and palette.                        *)
Matches(s, r) == s.visual.id # None /\ s.visual = r.visual

(* Track ids decide if both snapshots have one.                            *)
SameTrack(left, right) ==
  IF left.track.id # None /\ right.track.id # None
  THEN left.track.id = right.track.id
  ELSE left.track.title = right.track.title

Idle(s) == s.track.title = None /\ s.track.player # "active"

(* A press of the toggle, before the host has heard of it.                 *)
Toggled(s) ==
  IF s # None /\ s.track.player = "stopped" THEN [s EXCEPT !.track.player = "active"] ELSE s

OnFlash == {c \in Covers : files[c] # "missing"}
============================================================================
