--------------------------- MODULE DisplayArtwork ---------------------------
(***************************************************************************)
(* Covers on the device, from the host's playback state to the glass: the  *)
(* network task (handlePlaybackState in firmware/src/network/              *)
(* network_manager.cpp), the artwork task (ArtworkManager) and the         *)
(* application task (loop and consumeQueues in firmware/src/app/           *)
(* application.cpp), which alone calls the UiController.                   *)
(*                                                                         *)
(* The application task goes through its loop step by step, so that the    *)
(* other tasks' steps fall between taking a snapshot, changing the display *)
(* and telling the artwork manager which covers are in use.                *)
(***************************************************************************)
EXTENDS ArtworkManager, UiController

CONSTANT Promotions      (* the visuals the host may come to publish       *)

ASSUME PromotionsAssumption ==
  Promotions \subseteq {v \in Visual : v.generation # 0}

VARIABLES
  host,           (* the playback state the host publishes                 *)
  playbackQueue,  (* playbackQueue_, length one, overwritten               *)
  outgoing,       (* the artwork request the network task is about to send *)
  latest,         (* the application's playback_, None before the first    *)
  result,         (* the artwork result the application works on           *)
  loop            (* where the application's loop is                       *)

networkVars     == <<playbackQueue, outgoing>>
applicationVars == <<latest, result, loop>>
vars == <<managerVars, uiVars, host, networkVars, applicationVars>>

LoopSteps == {"playback", "protectPlayback", "artwork", "acknowledge", "protectArtwork",
              "controls", "protectTick"}

(* The device after a reset, at whatever moment of the host's life, and    *)
(* with whatever an earlier run or a power loss left on the partition.  So *)
(* a restart needs no action: it leads to an initial state.                *)
Init ==
  /\ files \in [Covers -> {"missing", "valid", "corrupt"}]
  /\ host \in [track : Tracks, visual : Promotions \cup {NoVisual}]
  /\ ManagerInit
  /\ UiInit
  /\ playbackQueue = None
  /\ outgoing = None
  /\ latest = None
  /\ result = None
  /\ loop = "playback"

----------------------------------------------------------------------------
(* The host: a new track keeps the visuals of the last one until its own   *)
(* are promoted under a new generation.                                    *)

HostChangesTrack ==
  /\ \E t \in Tracks : host' = [host EXCEPT !.track = t]
  /\ UNCHANGED <<managerVars, uiVars, networkVars, applicationVars>>

HostPromotes ==
  /\ \E v \in Promotions : /\ v.generation = host.visual.generation + 1
                           /\ host' = [host EXCEPT !.visual = v]
  /\ UNCHANGED <<managerVars, uiVars, networkVars, applicationVars>>

----------------------------------------------------------------------------
(* The network task: handlePlaybackState publishes the snapshot, then the  *)
(* request for its cover.                                                  *)

PublishPlayback ==
  /\ outgoing = None
  /\ playbackQueue' = host
  /\ outgoing' = IF host.visual.id # None THEN host.visual ELSE None
  /\ UNCHANGED <<managerVars, uiVars, host, applicationVars>>

PublishRequest ==
  /\ outgoing # None
  /\ RequestArtwork(outgoing)
  /\ outgoing' = None
  /\ UNCHANGED <<uiVars, host, playbackQueue, applicationVars>>

----------------------------------------------------------------------------
(* The application's loop.                                                 *)

TakePlayback ==
  /\ loop = "playback"
  /\ playbackQueue # None
  /\ playbackQueue' = None
  /\ latest' = playbackQueue
  /\ SetPlayback(playbackQueue)
  /\ loop' = "protectPlayback"
  /\ UNCHANGED <<managerVars, host, outgoing, result>>

NoPlayback ==
  /\ loop = "playback"
  /\ playbackQueue = None
  /\ loop' = "artwork"
  /\ UNCHANGED <<managerVars, uiVars, host, networkVars, latest, result>>

(* syncArtworkProtection; it skips a report that would change nothing.     *)
SyncProtection == SetArtworkProtection(active.id, StagedId)

PlaybackTaken ==
  /\ loop = "protectPlayback"
  /\ SyncProtection
  /\ loop' = "artwork"
  /\ UNCHANGED <<uiVars, host, networkVars, latest, result>>

TakeArtwork ==
  /\ loop = "artwork"
  /\ TakeResult
  /\ SetArtwork(resultQueue)
  /\ result' = resultQueue
  /\ loop' = IF resultQueue.success THEN "acknowledge" ELSE "protectArtwork"
  /\ UNCHANGED <<host, networkVars, latest>>

NoArtwork ==
  /\ loop = "artwork"
  /\ resultQueue = None
  /\ loop' = "controls"
  /\ UNCHANGED <<managerVars, uiVars, host, networkVars, latest, result>>

Acknowledge ==
  /\ loop = "acknowledge"
  /\ AcknowledgeResult(result, active.id, StagedId)
  /\ result' = None
  /\ loop' = "controls"
  /\ UNCHANGED <<uiVars, host, networkVars, latest>>

FailureReported ==
  /\ loop = "protectArtwork"
  /\ SyncProtection
  /\ result' = None
  /\ loop' = "controls"
  /\ UNCHANGED <<uiVars, host, networkVars, latest>>

(* consumeInput: the controls of this turn, each a step of its own.        *)

TakesControl ==
  /\ loop = "controls"
  /\ UNCHANGED <<managerVars, host, networkVars, result, loop>>

ChangeScreen == TakesControl /\ ChangesScreen /\ UNCHANGED <<elapsed, latest>>

(* mediaControlAvailable *)
Available == latest # None /\ latest.track.player # "none"

Toggle ==
  /\ TakesControl /\ Available
  /\ latest' = Toggled(latest)
  /\ ShowTransport

(* Volume, mute, shuffle and repeat, which a snapshot here says nothing of. *)
ShowAgain == TakesControl /\ Available /\ SetPlayback(latest) /\ UNCHANGED latest

TickDisplay ==
  /\ loop = "controls"
  /\ Tick
  /\ loop' = "protectTick"
  /\ UNCHANGED <<managerVars, host, networkVars, latest, result>>

(* The end of this turn and the beginning of the next.                     *)
LoopEnds ==
  /\ loop = "protectTick"
  /\ SyncProtection
  /\ TurnBegins
  /\ loop' = "playback"
  /\ UNCHANGED <<host, networkVars, latest, result>>

(* What the loop does by itself.                                           *)
Turn ==
  \/ TakePlayback \/ NoPlayback \/ PlaybackTaken
  \/ TakeArtwork \/ NoArtwork \/ Acknowledge \/ FailureReported
  \/ TickDisplay \/ LoopEnds

Application == Turn \/ ChangeScreen \/ Toggle \/ ShowAgain

----------------------------------------------------------------------------

ArtworkTaskStep ==
  /\ ArtworkTask
  /\ UNCHANGED <<uiVars, host, networkVars, applicationVars>>

Next ==
  \/ HostChangesTrack \/ HostPromotes
  \/ PublishPlayback \/ PublishRequest
  \/ Application
  \/ ArtworkTaskStep

Spec == Init /\ [][Next]_vars

(* Fairness: FreeRTOS runs every task, downloads end at deadlines, the     *)
(* clock goes on while the loop turns, and the host publishes the state it *)
(* has again at least every POSITION_SYNC_SECONDS.                         *)
Fairness ==
  /\ WF_vars(PublishPlayback)
  /\ WF_vars(PublishRequest)
  /\ WF_vars(Turn)
  /\ WF_vars(ArtworkTaskStep)
  /\ SF_vars(LoopEnds /\ elapsed' > elapsed)

FairSpec == Spec /\ Fairness

----------------------------------------------------------------------------
(* Properties.                                                             *)

TypeOK ==
  /\ ManagerTypeOK
  /\ UiTypeOK
  /\ host \in Snapshot
  /\ playbackQueue \in Snapshot \cup {None}
  /\ outgoing \in Visual \cup {None}
  /\ latest \in Snapshot \cup {None}
  /\ result \in Result \cup {None}
  /\ loop \in LoopSteps

(* The covers the display may draw from now on: the active and the staged  *)
(* one.                                                                    *)
Owned == {active.id, StagedId} \ {None}

(* Pruning, replacing corrupt files and taking on new requests never       *)
(* remove the file of a cover that is on display, staged, or published and *)
(* about to be taken over.                                                 *)
OwnedFilesStay ==
  /\ \A c \in Owned : files[c] = "valid"
  /\ resultQueue # None /\ resultQueue.success => files[resultQueue.visual.id] = "valid"

(* Why: the artwork task, whenever it may remove files, spares what the    *)
(* display holds, also when the display stages, swaps or drops covers      *)
(* between the task's look at the protection and its last remove.          *)
OwnedIsSpared ==
  /\ Owned \subseteq Protected
  /\ phase \in {"pruning", "cleaning"} => Owned \subseteq keep
  /\ phase = "removing" => request.id \notin Owned

(* A success is in the queue, with the application or acknowledged while   *)
(* the artwork task waits: the task always gets on.                        *)
NoResultIsLost ==
  phase = "waiting" =>
    \/ notified /\ published = None
    \/ /\ ~ notified /\ published = request
       /\ \/ resultQueue = [visual |-> request, success |-> TRUE]
          \/ loop = "acknowledge" /\ result = [visual |-> request, success |-> TRUE]

(* What is staged belongs to the transition under way, and to nothing the  *)
(* display went past.                                                      *)
StagedBelongsToPending ==
  staged # None => pending # None /\ Matches(pending, staged)

(* At the end of the loop the artwork region shows the committed visual,   *)
(* cover or fallback, and never one that the display went past, whatever   *)
(* snapshots, results, presses and overlays came in between; or it shows   *)
(* the clock.  The clock may stay under a track: a press of the toggle     *)
(* (ui_controller.cpp:668) and a snapshot of the same track                *)
(* (ui_controller.cpp:434) end the idle screen without a redraw.           *)
OnlyCommittedIsPainted ==
  loop = "protectTick" /\ visible /\ ~ held => painted \in {active.id, Clock}

(* PROTOCOL.md: "A downloaded result is committed only while its           *)
(* generation still matches the latest playback state, which prevents an   *)
(* old request from winning after rapid skips."  The cover of an intent    *)
(* the host has given up never takes the place of a newer one.             *)
OldRequestNeverWins ==
  [][active' # active /\ active'.id # None => active'.generation >= active.generation]_vars

(* ARCHITECTURE.md: "With no active media, Now Playing becomes a           *)
(* full-canvas Spotify ambient clock".                                     *)
IdleShowsClock ==
  loop = "protectTick" /\ visible /\ ~ held /\ playback # None /\ Idle(playback)
    => painted = Clock

(* The host goes on publishing one state, which the user does not toggle,  *)
(* downloads succeed, and no overlay stays up.                             *)
Settled ==
  /\ <>[][host' = host /\ ~ DownloadFails /\ ~ Toggle]_vars
  /\ <>[](~ held)

(* Then the display comes to show that track and that cover, whatever      *)
(* transitions and downloads were under way, and stays with them.          *)
DisplaySettles == Settled => <>[](playback = host /\ active = host.visual)
============================================================================
