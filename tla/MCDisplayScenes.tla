-------------------------- MODULE MCDisplayScenes --------------------------
(***************************************************************************)
(* One run of DisplayArtwork that looks at three scenes: two covers in     *)
(* turn on the Now Playing screen, redrawn in every turn and with nobody   *)
(* at the controls, when an earlier run has left a corrupt file of the     *)
(* first and the file of the second; a cover and then the fallback, with   *)
(* screens and overlays that come and go; and playing that starts and      *)
(* ends: a track, and a player without a title that stops and plays again, *)
(* with the controls in use and a screen that, once on, stays on.  The     *)
(* latter two begin with an empty partition, have an artwork task that     *)
(* works on a request without being interrupted, whenever it takes it, and *)
(* a loop that tells it of the covers in use at once.                      *)
(*                                                                         *)
(* In all scenes a step comes at once where no other task can tell when it *)
(* comes: a request follows its snapshot, to be taken at any time, the     *)
(* loop draws when it has worked on the controls, and the artwork task     *)
(* does not linger where only it looks.                                    *)
(***************************************************************************)
EXTENDS MCDisplayArtwork

VARIABLE scene
sceneVars == <<vars, scene>>

AllPromotions == TwoCovers \cup ThenFallback

OfScene(h) ==
  CASE scene = "covers" -> h.track \in TwoTracks /\ h.visual \in TwoCovers \cup {NoVisual}
    [] scene = "fallback" -> h.track \in TwoTracks /\ h.visual \in ThenFallback \cup {NoVisual}
    [] scene = "idle" -> h.track \in IdleAndBack /\ h.visual \in OneCover \cup {NoVisual}

RequestFollows == outgoing # None => outgoing' = None
DrawsAtOnce == loop = "controls" => UNCHANGED <<managerVars, host, networkVars>>
Busily == phase \in {"writing", "publishing", "sending"} => phase' # phase
WithoutPause ==
  /\ phase \notin {"idle", "waiting"} => phase' # phase \/ files' # files
  /\ loop \notin {"playback", "artwork", "controls"} => loop' # loop
Redrawn == painted' = FullPicture(playback', active')
NobodyTouches ==
  /\ loop = "protectTick" => visible' /\ held' = held
  /\ loop = "controls" /\ loop' = loop => uiVars' = uiVars

SceneInit ==
  /\ Init
  /\ scene \in {"covers", "fallback", "idle"}
  /\ OfScene(host)
  /\ IF scene = "covers" THEN files[x] = "corrupt" /\ files[y] = "valid" ELSE OnFlash = {}

SceneNext ==
  /\ Next
  /\ OfScene(host') /\ RequestFollows /\ DrawsAtOnce /\ Busily
  /\ scene = "covers" => NobodyTouches
  /\ scene = "covers" /\ loop = "controls" /\ loop' # loop => Redrawn
  /\ scene # "covers" => WithoutPause
  /\ scene = "idle" => (visible => visible')
  /\ UNCHANGED scene

SceneSpec == SceneInit /\ [][SceneNext]_sceneVars
=============================================================================
