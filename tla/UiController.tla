---------------------------- MODULE UiController ----------------------------
(***************************************************************************)
(* The part of the firmware's UiController (firmware/src/ui/               *)
(* ui_controller.cpp) that decides which track and which cover are on the  *)
(* display: snapshots and artwork results come in, and a change of track   *)
(* on the Now Playing screen is a short transition that swaps them half    *)
(* way through.                                                            *)
(*                                                                         *)
(* Of the picture only the artwork region is modelled.                     *)
(***************************************************************************)
EXTENDS ArtworkMessages

CONSTANTS
  Screens,    (* bound: the values "visible" may be given                  *)
  Overlays    (* bound: the values "held" may be given by the user         *)

ASSUME BoundsAssumption == Screens \subseteq BOOLEAN /\ Overlays \subseteq BOOLEAN

VARIABLES
  playback,   (* playback_, None while hasPlayback_ is false               *)
  pending,    (* pendingPlayback_, None while hasPendingPlayback_ is false *)
  staged,     (* stagedArtwork_, None while hasStagedArtwork_ is false     *)
  active,     (* artworkId_, artworkPath_, artworkGeneration_, themeTarget_*)
  swapped,    (* transitionSwapped_                                        *)
  elapsed,    (* of the transition: 0 first half, 1 second half, 2 over    *)
  visible,    (* Now Playing is on and not covered by a connection screen  *)
  held,       (* a toast or the volume overlay is up                       *)
  dirty,      (* dirty_                                                    *)
  painted     (* what the artwork region shows                             *)

uiVars == <<playback, pending, staged, active, swapped, elapsed, visible, held, dirty, painted>>

Clock     == "clock"         (* the idle screen                            *)
Elsewhere == "elsewhere"     (* another screen                             *)

UiInit ==
  /\ playback = None
  /\ pending = None
  /\ staged = None
  /\ active = NoVisual
  /\ swapped = FALSE
  /\ elapsed = 0
  /\ visible = FALSE
  /\ held = FALSE
  /\ dirty = TRUE
  /\ painted = Elsewhere

StagedId == IF staged = None THEN None ELSE staged.visual.id

(* renderArtwork: the cover if its file can be drawn, else the wave        *)
(* pattern of the fallback.                                                *)
CoverOf(v) == IF v.id # None /\ files[v.id] = "valid" THEN v.id ELSE None

(* render.                                                                 *)
FullPicture(p, v) ==
  IF ~ visible THEN Elsewhere
  ELSE IF p = None \/ Idle(p) THEN Clock
  ELSE CoverOf(v)

(* Slip: a new cover is not drawn before the next full redraw.             *)
ChangesPictureByFallback(old, new) == old # new /\ new.id = None

(* commitFallback and commitArtwork report a change of the picture.        *)
ChangesPicture(old, new) == old # new /\ (new.id = None \/ new.id # old.id)

CanDraw == visible /\ ~ held

(* applyPlayback, as far as the cover goes: only an authoritative fallback *)
(* changes it.                                                             *)
AfterApply(s) == IF IsFallback(s.visual) THEN s.visual ELSE active

(* applyPlayback and then the staged cover, if it belongs to s.            *)
AfterSwap(s) == IF staged # None /\ Matches(s, staged) THEN staged.visual ELSE AfterApply(s)

----------------------------------------------------------------------------
(* setPlayback, by branch.                                                 *)

Continues(s) == pending # None /\ SameTrack(pending, s)

SwitchesIdle(s) == playback # None /\ Idle(playback) # Idle(s)

ChangesTrack(s) == playback # None /\ ~ SameTrack(playback, s) /\ visible

(* Slip: a staged cover outlives the intent it was made for.               *)
KeepsStaged(s) == staged

StillStaged(s) == IF staged # None /\ Matches(s, staged) THEN staged ELSE None

(* News of the track the transition leads to.                              *)
RefreshPending(s) ==
  /\ Continues(s)
  /\ pending' = s
  /\ \/ /\ ~ swapped
        /\ staged' = StillStaged(s)
        /\ UNCHANGED <<playback, active, painted>>
     \/ /\ swapped
        /\ playback' = s
        /\ active' = AfterSwap(s)
        /\ staged' = None
        /\ painted' = IF CanDraw /\ ChangesPicture(active, active') THEN CoverOf(active') ELSE painted
  /\ UNCHANGED <<swapped, elapsed, visible, held, dirty>>

(* Media starts or ends: no transition.                                    *)
SwitchIdle(s) ==
  /\ ~ Continues(s)
  /\ SwitchesIdle(s)
  /\ playback' = s
  /\ active' = AfterApply(s)
  /\ pending' = None
  /\ staged' = None
  /\ swapped' = FALSE
  /\ dirty' = TRUE
  /\ UNCHANGED <<elapsed, visible, held, painted>>

StartTransition(s) ==
  /\ ~ Continues(s)
  /\ ~ SwitchesIdle(s)
  /\ ChangesTrack(s)
  /\ pending' = s
  /\ staged' = None
  /\ swapped' = FALSE
  /\ elapsed' = 0
  /\ UNCHANGED <<playback, active, visible, held, dirty, painted>>

(* The track on display, the first snapshot, or another screen is on.  A   *)
(* transition to another track that may be under way goes on.              *)
ApplyAtOnce(s) ==
  /\ ~ Continues(s)
  /\ ~ SwitchesIdle(s)
  /\ ~ ChangesTrack(s)
  /\ playback' = s
  /\ active' = AfterApply(s)
  /\ LET drawable == CanDraw /\ pending = None
     IN /\ painted' = IF drawable /\ ChangesPicture(active, active') THEN None ELSE painted
        /\ dirty' = (dirty \/ (~ drawable /\ ChangesPicture(active, active')))
  /\ UNCHANGED <<pending, staged, swapped, elapsed, visible, held>>

SetPlayback(s) == RefreshPending(s) \/ SwitchIdle(s) \/ StartTransition(s) \/ ApplyAtOnce(s)

----------------------------------------------------------------------------
(* setArtwork, by branch.                                                  *)

BelongsToPlayback(r) == playback # None /\ Matches(playback, r)
BelongsToPending(r)  == pending # None /\ Matches(pending, r)

IgnoreResult(r) ==
  /\ ~ BelongsToPlayback(r) /\ ~ BelongsToPending(r)
  /\ UNCHANGED uiVars

ReportFailure(r) ==
  /\ BelongsToPlayback(r) \/ BelongsToPending(r)
  /\ ~ r.success
  /\ held' = TRUE
  /\ UNCHANGED <<playback, pending, staged, active, swapped, elapsed, visible, dirty, painted>>

StageResult(r) ==
  /\ r.success
  /\ BelongsToPending(r) /\ ~ BelongsToPlayback(r)
  /\ staged' = r
  /\ UNCHANGED <<playback, pending, active, swapped, elapsed, visible, held, dirty, painted>>

CommitResult(r) ==
  /\ r.success
  /\ BelongsToPlayback(r)
  /\ active' = r.visual
  /\ painted' = IF CanDraw /\ ChangesPicture(active, active') THEN CoverOf(active') ELSE painted
  /\ UNCHANGED <<playback, pending, staged, swapped, elapsed, visible, held, dirty>>

SetArtwork(r) == IgnoreResult(r) \/ ReportFailure(r) \/ StageResult(r) \/ CommitResult(r)

----------------------------------------------------------------------------
(* tick: the transition, the end of an overlay, then a full redraw if one  *)
(* is due.                                                                 *)

(* The idle animation may draw a frame over what is there.                 *)
IdleFrame ==
  IF visible /\ ~ held' /\ pending' = None /\ (playback' = None \/ Idle(playback'))
  THEN {Clock} ELSE {}

(* The transition drew "picture", or asks for a redraw.  "asked": some     *)
(* other change of this turn, say a notice, asks for one.                  *)
FinishTick(picture, redraw) ==
  \E expires, asked \in BOOLEAN :
    /\ held' = (held /\ ~ expires)
    /\ painted' \in IF dirty \/ redraw \/ asked \/ (held /\ expires)
                    THEN {FullPicture(playback', active')} ELSE {picture} \cup IdleFrame
    /\ dirty' = FALSE
    /\ UNCHANGED visible

Resting ==
  \/ pending = None
  \/ visible /\ (held \/ elapsed = 0 \/ (elapsed = 1 /\ swapped))

TickRests ==
  /\ Resting
  /\ UNCHANGED <<playback, pending, staged, active, swapped, elapsed>>
  /\ FinishTick(painted, FALSE)

(* The pending snapshot becomes the current one, with its staged cover.    *)
Swap ==
  /\ playback' = pending
  /\ active' = AfterSwap(pending)
  /\ staged' = None
  /\ UNCHANGED elapsed

TickHidden ==
  /\ pending # None
  /\ ~ visible
  /\ Swap
  /\ pending' = None
  /\ UNCHANGED swapped
  /\ FinishTick(painted, TRUE)

TickSwaps ==
  /\ ~ Resting
  /\ visible
  /\ ~ swapped
  /\ Swap
  /\ \/ /\ Idle(pending)
        /\ pending' = None
        /\ swapped' = FALSE
        /\ FinishTick(painted, TRUE)
     \/ /\ ~ Idle(pending)
        /\ elapsed = 1
        /\ pending' = pending
        /\ swapped' = TRUE
        /\ FinishTick(CoverOf(active'), FALSE)
     \/ /\ ~ Idle(pending)
        /\ elapsed = 2
        /\ pending' = None
        /\ swapped' = FALSE
        /\ FinishTick(CoverOf(active'), FALSE)

TickEnds ==
  /\ ~ Resting
  /\ visible
  /\ swapped
  /\ Swap
  /\ pending' = None
  /\ swapped' = FALSE
  /\ FinishTick(IF ChangesPicture(active, active') THEN CoverOf(active') ELSE painted, FALSE)

Tick == TickRests \/ TickHidden \/ TickSwaps \/ TickEnds

(* The screen is changed, or the connection screen comes or goes; a toast  *)
(* or the volume overlay comes up or goes.                                 *)
ChangesScreen ==
  /\ visible' \in Screens
  /\ held' \in Overlays \cup {held}
  /\ dirty' = (dirty \/ visible' # visible \/ (held /\ ~ held'))
  /\ UNCHANGED <<playback, pending, staged, active, swapped, painted>>

(* showTransport: the state of the player on display changes, and no       *)
(* redraw is asked for, also when this ends the idle screen.               *)
ShowTransport ==
  /\ playback' = Toggled(playback)
  /\ UNCHANGED <<pending, staged, active, swapped, elapsed, visible, held, dirty, painted>>

(* Slip: the clock of a transition is not capped.                          *)
TimeRunsOn ==
  /\ elapsed' = IF pending = None THEN 0 ELSE elapsed + 1
  /\ ChangesScreen

(* A turn of the loop begins: the clock is read, for the whole turn, and   *)
(* notices are taken.                                                      *)
TurnBegins ==
  /\ elapsed' \in IF pending = None THEN {0} ELSE elapsed .. 2
  /\ ChangesScreen

----------------------------------------------------------------------------

UiTypeOK ==
  /\ playback \in Snapshot \cup {None}
  /\ pending \in Snapshot \cup {None}
  /\ staged \in Result \cup {None}
  /\ active \in Visual
  /\ swapped \in BOOLEAN
  /\ elapsed \in 0 .. 2
  /\ visible \in BOOLEAN /\ held \in BOOLEAN /\ dirty \in BOOLEAN
  /\ painted \in Covers \cup {None, Clock, Elsewhere}
============================================================================
