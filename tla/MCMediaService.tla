--------------------------- MODULE MCMediaService ---------------------------
(***************************************************************************)
(* Instances of MediaService for TLC.                                      *)
(***************************************************************************)
EXTENDS MediaService, FiniteSets

CONSTANTS p1, t1, u1, u2, a, b

(* A snapshot with a title and an artist, or with a title alone.           *)
Named(title, artist) == [NoMetadata EXCEPT !["title"] = title, !["artists"] = artist]

Report(track, metadata, url) ==
  [player |-> p1, track |-> track, metadata |-> metadata, url |-> url]

EmptyReport == Report(Absent, NoMetadata, Absent)

(* Two tracks named by their titles, with the URL early, late, changing or *)
(* shared, and gaps.                                                       *)
ArtworkSnapshots ==
  {EmptyReport} \cup
  {Report(Absent, Named(a, Absent), url) : url \in {Absent, u1, u2}} \cup
  {Report(Absent, Named(b, Absent), url) : url \in {Absent, u1}}

(* One track id, with its metadata missing, late or contradictory.         *)
ReusedIdSnapshots ==
  {EmptyReport} \cup
  {Report(t1, Named(title, artist), url) :
     title \in {Absent, a, b}, artist \in {Absent, a}, url \in {Absent, u1}}

(* Two tracks with a title and an artist, one without, one gap.            *)
LyricsSnapshots ==
  {EmptyReport, Report(Absent, Named(a, a), Absent), Report(Absent, Named(b, a), u1),
   Report(Absent, Named(a, Absent), Absent)}

-----------------------------------------------------------------------------
(* One run looks at three scenes: covers, reused track ids, and lyrics with a *)
(* subscriber.  The scene, picked at the start, limits the reports.  In the   *)
(* first two nobody subscribes; in the last two a cover is tried once, and a   *)
(* cancelled worker ends before the next one starts; names has two intents.  *)
VARIABLE scene
sceneVars == <<vars, scene>>

AllSnapshots == ArtworkSnapshots \cup ReusedIdSnapshots \cup LyricsSnapshots

Reports == CASE scene = "covers" -> ArtworkSnapshots
             [] scene = "names" -> ReusedIdSnapshots
             [] scene = "lyrics" -> LyricsSnapshots

SceneInit == Init /\ scene \in {"covers", "names", "lyrics"}

SceneNext ==
  /\ Next
  /\ snapshot' \in Reports
  /\ scene # "lyrics" => UNCHANGED mailbox
  /\ scene # "covers" => Cardinality(workers') <= 1 /\ \A w \in workers' : w.attempt = 1
  /\ scene = "names" => intentGeneration' <= 2
  /\ UNCHANGED scene

SceneSpec == SceneInit /\ [][SceneNext]_sceneVars /\ Fairness
=============================================================================
