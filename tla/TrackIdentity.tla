--------------------------- MODULE TrackIdentity ---------------------------
(***************************************************************************)
(* How the host's MediaService names the track a backend snapshot belongs  *)
(* to: MediaService._track_key_for in host/.../service/media.py.           *)
(*                                                                         *)
(* A snapshot is what the backend reports about the selected player.  Any  *)
(* of its fields may be missing (Absent).  The track key is a string in    *)
(* the code; here it is the record of the fields the string is joined      *)
(* from.  Player ids reuse track ids, and metadata comes in late or goes   *)
(* missing for a moment, so an identified track remembers the metadata it  *)
(* has seen and the key changes only when new metadata contradicts it.     *)
(***************************************************************************)

CONSTANTS
  Players,    (* keys of media players, "unknown-player" among them       *)
  Tracks,     (* non-empty MPRIS track ids                                *)
  Urls,       (* non-empty artwork URLs                                   *)
  Texts,      (* non-empty metadata values                                *)
  Absent      (* an empty string, an empty tuple or None                  *)

Fields == {"title", "artists", "album"}

Metadata == [Fields -> Texts \cup {Absent}]

NoMetadata == [f \in Fields |-> Absent]

Snapshot == [player   : Players,
             track    : Tracks \cup {Absent},
             metadata : Metadata,
             url      : Urls \cup {Absent}]

(* A track key.  Fields that do not enter the string are Absent.           *)
Key == [kind     : {"id", "metadata", "url"},
        player   : Players,
        track    : Tracks \cup {Absent},
        metadata : Metadata,
        url      : Urls \cup {Absent}]

(* Identification memory: _identified_track_base, _identified_track_key    *)
(* and _identified_track_metadata.  The base is the player and track id.   *)
Base == [player : Players, track : Tracks]

Identity == [base : Base \cup {Absent}, key : Key \cup {Absent}, metadata : Metadata]

NoIdentity == [base |-> Absent, key |-> Absent, metadata |-> NoMetadata]

ASSUME AbsentIsNoValue ==
  /\ Absent \notin Tracks /\ Absent \notin Urls /\ Absent \notin Texts
  /\ Absent \notin Key    /\ Absent \notin Base

----------------------------------------------------------------------------

BaseOf(s) == [player |-> s.player, track |-> s.track]

IdKey(s) ==
  [kind |-> "id", player |-> s.player, track |-> s.track,
   metadata |-> s.metadata, url |-> Absent]

MetadataKey(s) ==
  [kind |-> "metadata", player |-> s.player, track |-> Absent,
   metadata |-> s.metadata, url |-> Absent]

UrlKey(s) ==
  [kind |-> "url", player |-> s.player, track |-> Absent,
   metadata |-> NoMetadata, url |-> s.url]

(* A field both know differently: the player reused its track id.          *)
Contradicts(old, new) ==
  \E f \in Fields : old[f] # Absent /\ new[f] # Absent /\ old[f] # new[f]

(* A field only the new metadata knows.                                    *)
Adds(old, new) == \E f \in Fields : old[f] = Absent /\ new[f] # Absent

Merged(old, new) ==
  [f \in Fields |-> IF new[f] # Absent THEN new[f] ELSE old[f]]

(* Slip: a reused track id is taken at its word.                           *)
ReidentifiesByBase(id, s, promoted) == BaseOf(s) # id.base

(* The memory starts afresh: another track id, or the same one reused.     *)
Reidentifies(id, s, promoted) ==
  \/ BaseOf(s) # id.base
  \/ /\ s.metadata # NoMetadata
     /\ \/ Contradicts(id.metadata, s.metadata)
        \/ promoted /\ Adds(id.metadata, s.metadata)

(* The memory after snapshot s.  "promoted" says that the visuals of the   *)
(* current intent have been published: until then an added field is late   *)
(* metadata, afterwards it tells a reused track id apart.                  *)
Identify(id, s, promoted) ==
  IF s.track = Absent THEN id
  ELSE IF Reidentifies(id, s, promoted)
       THEN [base |-> BaseOf(s), key |-> IdKey(s), metadata |-> s.metadata]
       ELSE [id EXCEPT !.metadata = Merged(@, s.metadata)]

TrackKeyFor(id, s, promoted) ==
  IF s.track # Absent             THEN Identify(id, s, promoted).key
  ELSE IF s.metadata # NoMetadata THEN MetadataKey(s)
  ELSE IF s.url # Absent          THEN UrlKey(s)
  ELSE Absent
============================================================================
