------------------------ MODULE DisplayArtworkProofs ------------------------
(***************************************************************************)
(* Proofs about DisplayArtwork, for every set of covers and tracks, every  *)
(* content of the partition and every host: its type invariant, that no    *)
(* cover in use is ever removed, that no result is lost, that what is      *)
(* staged belongs to the transition, and that nothing but the committed    *)
(* cover or the clock is painted.                                          *)
(*                                                                         *)
(* Ownership of a cover goes from the artwork task to the display.  IInv   *)
(* says where it is: HandoverInv that a success is with exactly one of the *)
(* task, the result queue and the application until it is acknowledged,    *)
(* and OwnershipInv that what the display holds is protected at all times, *)
(* spared by a pruning under way, and whole, while the file the task is    *)
(* working for is not whole until it is renamed.                           *)
(***************************************************************************)
EXTENDS DisplayArtwork, TLAPS

USE MessagesAssumption, BoundsAssumption, PromotionsAssumption

(* What is requested, and what is being worked on, is a cover.             *)
RequestsHaveCovers ==
  /\ requestQueue # None => requestQueue.id # None
  /\ outgoing # None => outgoing.id # None
  /\ phase # "idle" => request # None /\ request.id # None

TypeInv == TypeOK /\ RequestsHaveCovers

HandoverInv ==
  /\ phase \notin {"sending", "waiting"} => published = None /\ ~ notified
  /\ phase = "sending" => published = request /\ ~ notified
  /\ resultQueue # None /\ resultQueue.success =>
       phase = "waiting" /\ published = request /\ resultQueue.visual = request
  /\ loop = "acknowledge" =>
       /\ phase = "waiting" /\ published = request
       /\ result = [visual |-> request, success |-> TRUE]
       /\ resultQueue = None
  /\ NoResultIsLost

OwnershipInv ==
  /\ OwnedFilesStay
  /\ Owned \subseteq Protected
  /\ phase \in {"pruning", "cleaning"} => Owned \subseteq keep /\ request.id \in keep
  /\ phase \in {"removing", "allocating", "pruning", "writing", "committing", "renaming"} =>
       files[request.id] # "valid"
  /\ phase \in {"cleaning", "publishing", "sending", "waiting"} => files[request.id] = "valid"

IInv == TypeInv /\ HandoverInv /\ OwnershipInv

----------------------------------------------------------------------------
(* Types.                                                                  *)

LEMMA CoverOfType == ASSUME NEW v \in Visual PROVE CoverOf(v) \in Covers \cup {None}
BY DEF CoverOf, Visual

LEMMA FullPictureType ==
  ASSUME NEW p, NEW v \in Visual
  PROVE  FullPicture(p, v) \in Covers \cup {None, Clock, Elsewhere}
BY CoverOfType DEF FullPicture

LEMMA AfterSwapType ==
  ASSUME UiTypeOK, NEW s \in Snapshot
  PROVE  AfterApply(s) \in Visual /\ AfterSwap(s) \in Visual
BY DEF UiTypeOK, AfterApply, AfterSwap, Snapshot, Result

LEMMA ToggledType == ASSUME NEW s \in Snapshot \cup {None} PROVE Toggled(s) \in Snapshot \cup {None}
BY DEF Toggled, Snapshot, Track

LEMMA SetPlaybackType ==
  ASSUME UiTypeOK, NEW s \in Snapshot, SetPlayback(s)
  PROVE  UiTypeOK'
<1>1. AfterApply(s) \in Visual /\ AfterSwap(s) \in Visual
  BY AfterSwapType
<1>2. CASE RefreshPending(s)
  <2>1. StillStaged(s) \in Result \cup {None}
    BY DEF StillStaged, UiTypeOK
  <2>2. active' \in Visual
    BY <1>1, <1>2 DEF RefreshPending, UiTypeOK
  <2>3. painted' \in Covers \cup {None, Clock, Elsewhere}
    BY <1>2, <2>2, CoverOfType DEF RefreshPending, UiTypeOK
  <2> QED
    BY <1>2, <2>1, <2>2, <2>3 DEF RefreshPending, UiTypeOK
<1>3. CASE SwitchIdle(s)
  BY <1>1, <1>3 DEF SwitchIdle, UiTypeOK
<1>4. CASE StartTransition(s)
  <2>1. 0 \in 0 .. 2
    OBVIOUS
  <2> QED
    BY <1>4, <2>1 DEF StartTransition, UiTypeOK
<1>5. CASE ApplyAtOnce(s)
  BY <1>1, <1>5 DEF ApplyAtOnce, UiTypeOK
<1> QED
  BY <1>2, <1>3, <1>4, <1>5 DEF SetPlayback

LEMMA SetArtworkType ==
  ASSUME UiTypeOK, NEW r \in Result, SetArtwork(r)
  PROVE  UiTypeOK'
<1>1. r.visual \in Visual
  BY DEF Result
<1>2. CASE IgnoreResult(r)
  BY <1>2 DEF IgnoreResult, uiVars, UiTypeOK
<1>3. CASE ReportFailure(r)
  BY <1>3 DEF ReportFailure, UiTypeOK
<1>4. CASE StageResult(r)
  BY <1>4 DEF StageResult, UiTypeOK
<1>5. CASE CommitResult(r)
  BY <1>1, <1>5, CoverOfType DEF CommitResult, UiTypeOK
<1> QED
  BY <1>2, <1>3, <1>4, <1>5 DEF SetArtwork

LEMMA FinishTickType ==
  ASSUME UiTypeOK, NEW picture \in Covers \cup {None, Clock, Elsewhere}, NEW redraw \in BOOLEAN,
         active' \in Visual, FinishTick(picture, redraw)
  PROVE  /\ visible' \in BOOLEAN /\ held' \in BOOLEAN /\ dirty' \in BOOLEAN
         /\ painted' \in Covers \cup {None, Clock, Elsewhere}
BY FullPictureType DEF FinishTick, IdleFrame, UiTypeOK

LEMMA TickType == ASSUME UiTypeOK, Tick PROVE UiTypeOK'
<1>1. CASE TickRests
  <2>1. painted \in Covers \cup {None, Clock, Elsewhere} /\ active' \in Visual
    BY <1>1 DEF TickRests, UiTypeOK
  <2>2. FinishTick(painted, FALSE)
    BY <1>1 DEF TickRests
  <2> QED
    BY <1>1, <2>1, <2>2, FinishTickType DEF TickRests, UiTypeOK
<1>2. ASSUME pending # None, Swap
      PROVE  /\ playback' \in Snapshot \cup {None} /\ active' \in Visual
             /\ staged' \in Result \cup {None} /\ elapsed' \in 0 .. 2
             /\ CoverOf(active') \in Covers \cup {None}
  BY <1>2, AfterSwapType, CoverOfType DEF Swap, UiTypeOK
<1>3. CASE TickHidden
  <2>1. FinishTick(painted, TRUE)
    BY <1>3 DEF TickHidden
  <2> QED
    BY <1>2, <1>3, <2>1, FinishTickType DEF TickHidden, UiTypeOK
<1>4. CASE TickSwaps
  <2>1. PICK picture \in {painted, CoverOf(active')}, redraw \in BOOLEAN :
          FinishTick(picture, redraw)
    BY <1>4 DEF TickSwaps
  <2>2. picture \in Covers \cup {None, Clock, Elsewhere}
    BY <1>2, <1>4, <2>1 DEF TickSwaps, Resting, UiTypeOK
  <2>3. pending' \in {pending, None} /\ swapped' \in BOOLEAN
    BY <1>4 DEF TickSwaps
  <2> QED
    BY <1>2, <1>4, <2>1, <2>2, <2>3, FinishTickType DEF TickSwaps, Resting, UiTypeOK
<1>5. CASE TickEnds
  <2>1. PICK picture \in {painted, CoverOf(active')} : FinishTick(picture, FALSE)
    BY <1>5 DEF TickEnds
  <2>2. picture \in Covers \cup {None, Clock, Elsewhere}
    BY <1>2, <1>5, <2>1 DEF TickEnds, Resting, UiTypeOK
  <2> QED
    BY <1>2, <1>5, <2>1, <2>2, FinishTickType DEF TickEnds, Resting, UiTypeOK
<1> QED
  BY <1>1, <1>3, <1>4, <1>5 DEF Tick

LEMMA ProtectedType == ManagerTypeOK => Protected \subseteq Covers
BY DEF ManagerTypeOK, Protected, Visual

LEMMA BeginPruningType ==
  ASSUME ManagerTypeOK, request # None, request.id # None,
         NEW next \in {"pruning", "cleaning"}, BeginPruning(next)
  PROVE  /\ keep' \subseteq Covers /\ phase' = next
         /\ UNCHANGED <<requestQueue, resultQueue, protection, published, request, notified>>
BY ProtectedType DEF BeginPruning, ManagerTypeOK, Visual

LEMMA ArtworkTaskType ==
  ASSUME ManagerTypeOK, RequestsHaveCovers, ArtworkTask
  PROVE  /\ ManagerTypeOK'
         /\ requestQueue' # None => requestQueue'.id # None
         /\ phase' # "idle" => request' # None /\ request'.id # None
<1> USE DEF ManagerTypeOK, RequestsHaveCovers, Phases
<1>1. CASE TakeRequest
  BY <1>1 DEF TakeRequest
<1>2. CASE FindCached
  <2>1. BeginPruning("cleaning")
    BY <1>2 DEF FindCached
  <2> QED
    BY <1>2, <2>1, BeginPruningType DEF FindCached
<1>3. CASE AcceptResponse
  BY <1>3 DEF AcceptResponse
<1>4. CASE RemoveCorrupt
  BY <1>4 DEF RemoveCorrupt
<1>5. CASE Allocate
  <2>1. BeginPruning("pruning")
    BY <1>5 DEF Allocate
  <2> QED
    BY <1>5, <2>1, BeginPruningType DEF Allocate
<1>6. ASSUME NEW c \in Covers, Prune(c)
      PROVE  /\ ManagerTypeOK'
             /\ UNCHANGED <<requestQueue, request, phase>>
  BY <1>6 DEF Prune
<1>7. CASE PruneEnds
  BY <1>7 DEF PruneEnds
<1>8. CASE Downloaded
  BY <1>8 DEF Downloaded
<1>9. CASE RemoveDestination
  BY <1>9 DEF RemoveDestination
<1>10. CASE Rename
  <2>1. BeginPruning("cleaning")
    BY <1>10 DEF Rename
  <2> QED
    BY <1>10, <2>1, BeginPruningType DEF Rename
<1>11. CASE DownloadFails
  <2>1. [visual |-> request, success |-> FALSE] \in Result
    BY <1>11 DEF DownloadFails, Result
  <2> QED
    BY <1>11, <2>1 DEF DownloadFails
<1>12. CASE Publish
  BY <1>12 DEF Publish
<1>13. CASE SendResult
  <2>1. [visual |-> request, success |-> TRUE] \in Result
    BY <1>13 DEF SendResult, Result
  <2> QED
    BY <1>13, <2>1 DEF SendResult
<1>14. CASE Wake
  BY <1>14 DEF Wake
<1> QED
  BY <1>1, <1>2, <1>3, <1>4, <1>5, <1>6, <1>7, <1>8, <1>9, <1>10, <1>11, <1>12, <1>13, <1>14
  DEF ArtworkTask

(* What the display holds is a cover or nothing.                           *)
LEMMA HeldType ==
  UiTypeOK => active.id \in Covers \cup {None} /\ StagedId \in Covers \cup {None}
BY DEF UiTypeOK, StagedId, Result, Visual

LEMMA SyncProtectionType ==
  ASSUME ManagerTypeOK, UiTypeOK, SyncProtection
  PROVE  ManagerTypeOK' /\ UNCHANGED <<requestQueue, request, phase>>
BY HeldType DEF SyncProtection, SetArtworkProtection, ManagerTypeOK

LEMMA TypeStep == TypeInv /\ [Next]_vars => TypeInv'
<1> SUFFICES ASSUME TypeOK, RequestsHaveCovers, [Next]_vars PROVE TypeInv'
  BY DEF TypeInv
<1> USE DEF TypeInv, TypeOK, RequestsHaveCovers, LoopSteps, networkVars, applicationVars
<1>1. UNCHANGED managerVars => ManagerTypeOK' /\ UNCHANGED <<requestQueue, request, phase>>
  BY DEF managerVars, ManagerTypeOK
<1>2. UNCHANGED uiVars => UiTypeOK'
  BY DEF uiVars, UiTypeOK
<1>3. CASE HostChangesTrack
  BY <1>1, <1>2, <1>3 DEF HostChangesTrack, Snapshot
<1>4. CASE HostPromotes
  BY <1>1, <1>2, <1>4 DEF HostPromotes, Snapshot
<1>5. CASE PublishPlayback
  BY <1>1, <1>2, <1>5 DEF PublishPlayback, Snapshot
<1>6. CASE PublishRequest
  BY <1>2, <1>6 DEF PublishRequest, RequestArtwork, ManagerTypeOK
<1>7. CASE TakePlayback
  <2>1. UiTypeOK'
    BY <1>7, SetPlaybackType DEF TakePlayback
  <2> QED
    BY <1>1, <1>7, <2>1 DEF TakePlayback
<1>8. CASE NoPlayback
  BY <1>1, <1>2, <1>8 DEF NoPlayback
<1>9. CASE PlaybackTaken
  BY <1>2, <1>9, SyncProtectionType DEF PlaybackTaken
<1>10. CASE TakeArtwork
  <2>1. resultQueue \in Result
    BY <1>10 DEF TakeArtwork, TakeResult, ManagerTypeOK
  <2>2. UiTypeOK'
    BY <1>10, <2>1, SetArtworkType DEF TakeArtwork
  <2>3. ManagerTypeOK' /\ UNCHANGED <<requestQueue, request, phase>>
    BY <1>10 DEF TakeArtwork, TakeResult, ManagerTypeOK
  <2> QED
    BY <1>10, <2>1, <2>2, <2>3 DEF TakeArtwork
<1>11. CASE NoArtwork
  BY <1>1, <1>2, <1>11 DEF NoArtwork
<1>12. CASE Acknowledge
  <2>1. ManagerTypeOK' /\ UNCHANGED <<requestQueue, request, phase>>
    <3>1. [active |-> active.id, staged |-> StagedId] \in
            [active : Covers \cup {None}, staged : Covers \cup {None}]
      BY HeldType
    <3>2. protection' \in {protection, [active |-> active.id, staged |-> StagedId]}
      BY <1>12 DEF Acknowledge, AcknowledgeResult
    <3>3. published' \in {published, None} /\ notified' \in BOOLEAN
      BY <1>12 DEF Acknowledge, AcknowledgeResult, ManagerTypeOK
    <3> QED
      BY <1>12, <3>1, <3>2, <3>3 DEF Acknowledge, AcknowledgeResult, ManagerTypeOK
  <2> QED
    BY <1>2, <1>12, <2>1 DEF Acknowledge
<1>13. CASE FailureReported
  BY <1>2, <1>13, SyncProtectionType DEF FailureReported
<1>14. CASE ChangeScreen
  <2>1. UiTypeOK'
    BY <1>14 DEF ChangeScreen, ChangesScreen, UiTypeOK
  <2> QED
    BY <1>1, <1>14, <2>1 DEF ChangeScreen, TakesControl
<1>19. CASE Toggle
  <2>1. UiTypeOK'
    BY <1>19, ToggledType DEF Toggle, ShowTransport, UiTypeOK
  <2>2. latest' \in Snapshot \cup {None}
    BY <1>19, ToggledType DEF Toggle
  <2> QED
    BY <1>1, <1>19, <2>1, <2>2 DEF Toggle, TakesControl
<1>20. CASE ShowAgain
  <2>1. UiTypeOK'
    BY <1>20, SetPlaybackType DEF ShowAgain, Available
  <2> QED
    BY <1>1, <1>20, <2>1 DEF ShowAgain, TakesControl
<1>15. CASE TickDisplay
  <2>1. UiTypeOK'
    BY <1>15, TickType DEF TickDisplay
  <2> QED
    BY <1>1, <1>15, <2>1 DEF TickDisplay
<1>16. CASE LoopEnds
  <2>1. elapsed' \in 0 .. 2
    BY <1>16 DEF LoopEnds, TurnBegins, ChangesScreen, UiTypeOK
  <2>2. UiTypeOK'
    BY <1>16, <2>1 DEF LoopEnds, TurnBegins, ChangesScreen, UiTypeOK
  <2> QED
    BY <1>16, <2>2, SyncProtectionType DEF LoopEnds
<1>17. CASE ArtworkTaskStep
  BY <1>2, <1>17, ArtworkTaskType DEF ArtworkTaskStep
<1>18. CASE UNCHANGED vars
  BY <1>1, <1>2, <1>18 DEF vars
<1> HIDE DEF TypeInv
<1> QED
  BY <1>3, <1>4, <1>5, <1>6, <1>7, <1>8, <1>9, <1>10, <1>11, <1>12, <1>13, <1>15, <1>16,
     <1>14, <1>17, <1>18, <1>19, <1>20
  DEF Next, Application, Turn

LEMMA TypeInit == Init => TypeInv
<1> SUFFICES ASSUME Init PROVE TypeInv
  OBVIOUS
<1>1. NoVisual \in Visual
  BY DEF NoVisual, Visual
<1>2. ManagerTypeOK
  BY DEF Init, ManagerInit, ManagerTypeOK, Phases
<1>3. UiTypeOK
  <2>1. 0 \in 0 .. 2
    OBVIOUS
  <2> QED
    BY <1>1, <2>1 DEF Init, UiInit, UiTypeOK
<1>4. host \in Snapshot
  BY <1>1 DEF Init, Snapshot
<1> QED
  BY <1>2, <1>3, <1>4 DEF Init, ManagerInit, TypeInv, TypeOK, RequestsHaveCovers, LoopSteps

(* Every variable of the device's tasks keeps its type.                    *)
THEOREM TypeCorrect == Spec => []TypeOK
<1>1. TypeInv => TypeOK
  BY DEF TypeInv
<1> QED
  BY <1>1, TypeInit, TypeStep, PTL DEF Spec

----------------------------------------------------------------------------
(* A success is with the task, the queue or the application.               *)

LEMMA HandoverTask ==
  ASSUME TypeOK, RequestsHaveCovers, HandoverInv, ArtworkTask, UNCHANGED applicationVars
  PROVE  HandoverInv'
<1> USE DEF HandoverInv, NoResultIsLost, applicationVars
<1>1. CASE TakeRequest
  BY <1>1 DEF TakeRequest
<1>2. CASE FindCached
  BY <1>2 DEF FindCached, BeginPruning
<1>3. CASE AcceptResponse
  BY <1>3 DEF AcceptResponse
<1>4. CASE RemoveCorrupt
  BY <1>4 DEF RemoveCorrupt
<1>5. CASE Allocate
  BY <1>5 DEF Allocate, BeginPruning
<1>6. ASSUME NEW c \in Covers, Prune(c) PROVE HandoverInv'
  BY <1>6 DEF Prune
<1>7. CASE PruneEnds
  BY <1>7 DEF PruneEnds
<1>8. CASE Downloaded
  BY <1>8 DEF Downloaded
<1>9. CASE RemoveDestination
  BY <1>9 DEF RemoveDestination
<1>10. CASE Rename
  BY <1>10 DEF Rename, BeginPruning
<1>11. CASE DownloadFails
  BY <1>11 DEF DownloadFails
<1>12. CASE Publish
  BY <1>12 DEF Publish
<1>13. CASE SendResult
  BY <1>13 DEF SendResult
<1>14. CASE Wake
  BY <1>14 DEF Wake, RequestsHaveCovers
<1> QED
  BY <1>1, <1>2, <1>3, <1>4, <1>5, <1>6, <1>7, <1>8, <1>9, <1>10, <1>11, <1>12, <1>13, <1>14
  DEF ArtworkTask

(* What HandoverInv speaks of.                                             *)
handoverVars == <<phase, request, published, notified, resultQueue>>

LEMMA HandoverStep == TypeInv /\ HandoverInv /\ [Next]_vars => HandoverInv'
<1> SUFFICES ASSUME TypeOK, RequestsHaveCovers, HandoverInv, [Next]_vars PROVE HandoverInv'
  BY DEF TypeInv
<1>1. ASSUME UNCHANGED handoverVars, loop' # "acknowledge", loop # "acknowledge"
      PROVE  HandoverInv'
  BY <1>1 DEF HandoverInv, NoResultIsLost, handoverVars
<1>2. ASSUME UNCHANGED handoverVars, UNCHANGED applicationVars PROVE HandoverInv'
  BY <1>2 DEF HandoverInv, NoResultIsLost, handoverVars, applicationVars
<1>3. UNCHANGED managerVars => UNCHANGED handoverVars
  BY DEF managerVars, handoverVars
<1>4. SyncProtection => UNCHANGED handoverVars
  BY DEF SyncProtection, SetArtworkProtection, handoverVars
<1>5. CASE HostChangesTrack \/ HostPromotes \/ PublishPlayback \/ UNCHANGED vars
  BY <1>2, <1>3, <1>5 DEF HostChangesTrack, HostPromotes, PublishPlayback, vars
<1>6. CASE PublishRequest
  BY <1>2, <1>6 DEF PublishRequest, RequestArtwork, handoverVars
<1>7. CASE TakePlayback \/ NoPlayback \/ NoArtwork \/ TickDisplay
           \/ ChangeScreen \/ Toggle \/ ShowAgain
  BY <1>1, <1>3, <1>7
  DEF TakePlayback, NoPlayback, NoArtwork, TickDisplay, ChangeScreen, Toggle, ShowAgain,
      TakesControl
<1>8. CASE PlaybackTaken \/ FailureReported \/ LoopEnds
  BY <1>1, <1>4, <1>8 DEF PlaybackTaken, FailureReported, LoopEnds
<1>9. CASE TakeArtwork
  <2>1. resultQueue \in Result
    BY <1>9 DEF TakeArtwork, TakeResult, TypeOK, ManagerTypeOK
  <2>2. /\ resultQueue' = None /\ result' = resultQueue
        /\ UNCHANGED <<phase, request, published, notified>>
        /\ loop = "artwork"
        /\ loop' = IF resultQueue.success THEN "acknowledge" ELSE "protectArtwork"
    BY <1>9 DEF TakeArtwork, TakeResult
  <2>3. CASE resultQueue.success
    <3>1. /\ phase = "waiting" /\ published = request /\ resultQueue.visual = request
      BY <1>9, <2>3 DEF HandoverInv, TakeArtwork, TakeResult
    <3>2. resultQueue = [visual |-> request, success |-> TRUE]
      BY <2>1, <2>3, <3>1 DEF Result
    <3>3. ~ notified
      BY <2>2, <3>1 DEF HandoverInv, NoResultIsLost, RequestsHaveCovers
    <3> QED
      BY <2>2, <2>3, <3>1, <3>2, <3>3 DEF HandoverInv, NoResultIsLost
  <2>4. CASE ~ resultQueue.success
    <3>1. phase = "waiting" => notified /\ published = None
      BY <2>2, <2>4 DEF HandoverInv, NoResultIsLost
    <3> QED
      BY <2>2, <2>4, <3>1 DEF HandoverInv, NoResultIsLost
  <2> QED
    BY <2>3, <2>4
<1>10. CASE Acknowledge
  <2>1. /\ phase = "waiting" /\ published = request /\ resultQueue = None
        /\ result.visual = request
    BY <1>10 DEF Acknowledge, HandoverInv
  <2>2. published # None
    BY <2>1 DEF RequestsHaveCovers
  <2>3. /\ published' = None /\ notified' = TRUE
        /\ UNCHANGED <<phase, request, resultQueue>> /\ loop' = "controls"
    BY <1>10, <2>1, <2>2 DEF Acknowledge, AcknowledgeResult
  <2> QED
    BY <2>1, <2>3 DEF HandoverInv, NoResultIsLost
<1>11. CASE ArtworkTaskStep
  BY <1>11, HandoverTask DEF ArtworkTaskStep
<1> QED
  BY <1>5, <1>6, <1>7, <1>8, <1>9, <1>10, <1>11 DEF Next, Application, Turn

(* No success is ever lost between the artwork task and the application,   *)
(* so the task never waits for an acknowledgement nobody will give.        *)
THEOREM ResultsAreDelivered == Spec => []NoResultIsLost
<1>1. Init => HandoverInv
  BY DEF Init, ManagerInit, HandoverInv, NoResultIsLost
<1>2. HandoverInv => NoResultIsLost
  BY DEF HandoverInv
<1> QED
  BY <1>1, <1>2, TypeInit, TypeStep, HandoverStep, PTL DEF Spec

----------------------------------------------------------------------------
(* What the display holds only grows by the result it takes.               *)

LEMMA AppliedIsOwned ==
  ASSUME NEW s
  PROVE  AfterApply(s).id \in {active.id, None} /\ AfterSwap(s).id \in {active.id, StagedId, None}
BY DEF AfterApply, AfterSwap, IsFallback, StagedId

LEMMA SetPlaybackOwns ==
  ASSUME NEW s, SetPlayback(s)
  PROVE  Owned' \subseteq Owned
<1>1. active'.id \in {active.id, StagedId, None}
  BY AppliedIsOwned DEF SetPlayback, RefreshPending, SwitchIdle, StartTransition, ApplyAtOnce
<1>2. staged' \in {staged, None}
  BY DEF SetPlayback, RefreshPending, SwitchIdle, StartTransition, ApplyAtOnce, StillStaged
<1> QED
  BY <1>1, <1>2 DEF Owned, StagedId

LEMMA TickOwns == ASSUME Tick PROVE Owned' \subseteq Owned
<1>1. active'.id \in {active.id, StagedId, None}
  BY AppliedIsOwned DEF Tick, TickRests, TickHidden, TickSwaps, TickEnds, Swap
<1>2. staged' \in {staged, None}
  BY DEF Tick, TickRests, TickHidden, TickSwaps, TickEnds, Swap
<1> QED
  BY <1>1, <1>2 DEF Owned, StagedId

LEMMA SetArtworkOwns ==
  ASSUME NEW r, SetArtwork(r)
  PROVE  Owned' \subseteq Owned \/ (r.success /\ Owned' \subseteq Owned \cup {r.visual.id})
<1>1. CASE IgnoreResult(r) \/ ReportFailure(r)
  BY <1>1 DEF IgnoreResult, ReportFailure, uiVars, Owned, StagedId
<1>2. CASE StageResult(r) \/ CommitResult(r)
  BY <1>2 DEF StageResult, CommitResult, Owned, StagedId
<1> QED
  BY <1>1, <1>2 DEF SetArtwork

----------------------------------------------------------------------------
(* Covers in use are protected, spared and whole.                          *)

(* What OwnershipInv speaks of besides the display.                        *)
ownershipVars == <<files, phase, request, keep, protection, published>>

LEMMA OwnershipKept ==
  ASSUME OwnershipInv, Owned' \subseteq Owned, UNCHANGED ownershipVars,
         resultQueue' \in {resultQueue, None}
  PROVE  OwnershipInv'
BY DEF OwnershipInv, OwnedFilesStay, Protected, ownershipVars

(* The protection becomes what the display holds; a published cover stays. *)
LEMMA OwnershipSynced ==
  ASSUME OwnershipInv, UNCHANGED <<active, staged>>, UNCHANGED <<files, phase, request, keep>>,
         resultQueue' = resultQueue, protection' = [active |-> active.id, staged |-> StagedId]
  PROVE  OwnershipInv'
<1>1. Owned' = Owned
  BY DEF Owned, StagedId
<1>2. Owned \subseteq Protected'
  BY DEF Owned, Protected
<1> QED
  BY <1>1, <1>2 DEF OwnershipInv, OwnedFilesStay

LEMMA OwnershipTask ==
  ASSUME TypeOK, RequestsHaveCovers, HandoverInv, OwnershipInv, ArtworkTask, UNCHANGED uiVars
  PROVE  OwnershipInv'
<1>1. Owned' = Owned
  BY DEF uiVars, Owned, StagedId
<1>2. UNCHANGED <<protection, published>> => Protected' = Protected
  BY DEF Protected
<1>3. Owned \subseteq Covers
  BY HeldType DEF Owned, TypeOK
<1>4. phase # "idle" => request.id \in Covers
  BY DEF TypeOK, ManagerTypeOK, RequestsHaveCovers, Visual
<1>5. files \in [Covers -> {"missing", "valid", "corrupt"}]
  BY DEF TypeOK, ManagerTypeOK
<1>6. resultQueue # None /\ resultQueue.success => phase = "waiting"
  BY DEF HandoverInv
<1> USE DEF OwnershipInv, OwnedFilesStay
<1>7. CASE TakeRequest
  BY <1>1, <1>2, <1>6, <1>7 DEF TakeRequest
<1>8. CASE FindCached
  BY <1>1, <1>2, <1>6, <1>8 DEF FindCached, BeginPruning
<1>9. CASE AcceptResponse
  BY <1>1, <1>2, <1>6, <1>9 DEF AcceptResponse
<1>10. CASE RemoveCorrupt
  BY <1>1, <1>2, <1>3, <1>4, <1>5, <1>6, <1>10 DEF RemoveCorrupt
<1>11. CASE Allocate
  BY <1>1, <1>2, <1>6, <1>11 DEF Allocate, BeginPruning
<1>12. ASSUME NEW c \in Covers, Prune(c) PROVE OwnershipInv'
  <2>1. c \notin Owned /\ c # request.id /\ phase \in {"pruning", "cleaning"}
    BY <1>12 DEF Prune, Prunable
  <2>2. \A o \in Owned \cup {request.id} : files'[o] = files[o]
    BY <1>3, <1>4, <1>5, <1>12, <2>1 DEF Prune
  <2> QED
    BY <1>1, <1>2, <1>6, <1>12, <2>1, <2>2 DEF Prune
<1>13. CASE PruneEnds
  BY <1>1, <1>2, <1>6, <1>13 DEF PruneEnds
<1>14. CASE Downloaded
  BY <1>1, <1>2, <1>6, <1>14 DEF Downloaded
<1>15. CASE RemoveDestination
  BY <1>1, <1>2, <1>3, <1>4, <1>5, <1>6, <1>15 DEF RemoveDestination
<1>16. CASE Rename
  BY <1>1, <1>2, <1>3, <1>4, <1>5, <1>6, <1>16 DEF Rename, BeginPruning
<1>17. CASE DownloadFails
  BY <1>1, <1>2, <1>6, <1>17 DEF DownloadFails
<1>18. CASE Publish
  <2>1. published = None
    BY <1>18 DEF Publish, HandoverInv
  <2>2. Protected \subseteq Protected'
    BY <1>18, <2>1 DEF Publish, Protected
  <2> QED
    BY <1>1, <1>6, <1>18, <2>2 DEF Publish
<1>19. CASE SendResult
  BY <1>1, <1>2, <1>19 DEF SendResult
<1>20. CASE Wake
  BY <1>1, <1>2, <1>6, <1>20 DEF Wake, HandoverInv
<1> QED
  BY <1>7, <1>8, <1>9, <1>10, <1>11, <1>12, <1>13, <1>14, <1>15, <1>16, <1>17, <1>18, <1>19, <1>20
  DEF ArtworkTask

LEMMA OwnershipStep == IInv /\ [Next]_vars => OwnershipInv'
<1> SUFFICES ASSUME TypeOK, RequestsHaveCovers, HandoverInv, OwnershipInv, [Next]_vars
             PROVE  OwnershipInv'
  BY DEF IInv, TypeInv
<1>1. UNCHANGED uiVars => Owned' = Owned /\ UNCHANGED <<active, staged>>
  BY DEF uiVars, Owned, StagedId
<1>2. UNCHANGED managerVars => UNCHANGED ownershipVars /\ resultQueue' = resultQueue
  BY DEF managerVars, ownershipVars
<1>3. CASE HostChangesTrack \/ HostPromotes \/ PublishPlayback \/ NoPlayback \/ NoArtwork
           \/ UNCHANGED vars
  BY <1>1, <1>2, <1>3, OwnershipKept
  DEF HostChangesTrack, HostPromotes, PublishPlayback, NoPlayback, NoArtwork, vars
<1>4. CASE PublishRequest
  BY <1>1, <1>4, OwnershipKept DEF PublishRequest, RequestArtwork, ownershipVars
<1>5. CASE TakePlayback
  BY <1>2, <1>5, SetPlaybackOwns, OwnershipKept DEF TakePlayback
<1>6. CASE PlaybackTaken \/ FailureReported
  BY <1>1, <1>6, OwnershipSynced
  DEF PlaybackTaken, FailureReported, SyncProtection, SetArtworkProtection
<1>7. CASE TakeArtwork
  <2>1. UNCHANGED ownershipVars /\ resultQueue' = None
    BY <1>7 DEF TakeArtwork, TakeResult, ownershipVars
  <2>2. CASE Owned' \subseteq Owned
    BY <2>1, <2>2, OwnershipKept
  <2>3. CASE resultQueue.success /\ Owned' \subseteq Owned \cup {resultQueue.visual.id}
    <3>1. /\ phase = "waiting" /\ published = request /\ resultQueue.visual = request
          /\ files[request.id] = "valid"
      BY <1>7, <2>3 DEF TakeArtwork, TakeResult, HandoverInv, OwnershipInv
    <3>2. request.id \in Protected
      BY <3>1 DEF Protected, RequestsHaveCovers
    <3>3. Protected' = Protected
      BY <2>1 DEF ownershipVars, Protected
    <3> QED
      BY <2>1, <2>3, <3>1, <3>2, <3>3 DEF OwnershipInv, OwnedFilesStay, ownershipVars
  <2> QED
    BY <1>7, <2>2, <2>3, SetArtworkOwns DEF TakeArtwork
<1>8. CASE Acknowledge
  <2>1. published # None /\ published = result.visual
    BY <1>8 DEF Acknowledge, HandoverInv, RequestsHaveCovers
  <2> QED
    BY <1>1, <1>8, <2>1, OwnershipSynced DEF Acknowledge, AcknowledgeResult
<1>9. CASE ChangeScreen \/ Toggle
  <2>1. Owned' = Owned /\ UNCHANGED managerVars
    BY <1>9 DEF ChangeScreen, Toggle, TakesControl, ChangesScreen, ShowTransport, Owned, StagedId
  <2> QED
    BY <1>2, <2>1, OwnershipKept
<1>13. CASE ShowAgain
  BY <1>2, <1>13, SetPlaybackOwns, OwnershipKept DEF ShowAgain, TakesControl
<1>10. CASE TickDisplay
  BY <1>2, <1>10, TickOwns, OwnershipKept DEF TickDisplay
<1>11. CASE LoopEnds
  BY <1>11, OwnershipSynced DEF LoopEnds, TurnBegins, ChangesScreen, SyncProtection,
       SetArtworkProtection
<1>12. CASE ArtworkTaskStep
  BY <1>12, OwnershipTask DEF ArtworkTaskStep
<1> QED
  BY <1>3, <1>4, <1>5, <1>6, <1>7, <1>8, <1>9, <1>10, <1>11, <1>12, <1>13
  DEF Next, Application, Turn

LEMMA Inductive == Spec => []IInv
<1>1. Init => HandoverInv /\ OwnershipInv
  BY DEF Init, ManagerInit, UiInit, NoVisual, HandoverInv, NoResultIsLost, OwnershipInv,
         OwnedFilesStay, Owned, StagedId
<1> QED
  BY <1>1, TypeInit, TypeStep, HandoverStep, OwnershipStep, PTL DEF Spec, IInv

(* The artwork task never removes the file of a cover that is on display,  *)
(* staged, or published and about to be taken over.                        *)
THEOREM CoversInUseStay == Spec => []OwnedFilesStay
<1>1. IInv => OwnedFilesStay
  BY DEF IInv, OwnershipInv
<1> QED
  BY <1>1, Inductive, PTL

(* Whenever it may remove files, it spares what the display holds.         *)
THEOREM CoversInUseAreSpared == Spec => []OwnedIsSpared
<1>1. IInv => OwnedIsSpared
  BY DEF IInv, OwnershipInv, OwnedFilesStay, OwnedIsSpared
<1> QED
  BY <1>1, Inductive, PTL

----------------------------------------------------------------------------
(* What is staged.                                                         *)

LEMMA StagedStep == StagedBelongsToPending /\ [Next]_vars => StagedBelongsToPending'
<1> SUFFICES ASSUME StagedBelongsToPending, [Next]_vars PROVE StagedBelongsToPending'
  OBVIOUS
<1> USE DEF StagedBelongsToPending
<1>1. UNCHANGED <<pending, staged, swapped>> => StagedBelongsToPending'
  BY DEF Matches
<1>2. staged' = None => StagedBelongsToPending'
  OBVIOUS
<1>3. UNCHANGED uiVars => StagedBelongsToPending'
  BY <1>1 DEF uiVars
<1>4. ASSUME NEW s, s # None, SetPlayback(s) PROVE StagedBelongsToPending'
  <2>1. CASE RefreshPending(s)
    <3>1. CASE staged' = StillStaged(s)
      BY <2>1, <3>1, <1>4 DEF RefreshPending, StillStaged, Matches
    <3> QED
      BY <1>2, <2>1, <3>1 DEF RefreshPending
  <2>2. CASE SwitchIdle(s) \/ StartTransition(s) \/ ApplyAtOnce(s)
    BY <1>1, <1>2, <2>2 DEF SwitchIdle, StartTransition, ApplyAtOnce
  <2> QED
    BY <1>4, <2>1, <2>2 DEF SetPlayback
<1>5. ASSUME NEW r, SetArtwork(r) PROVE StagedBelongsToPending'
  <2>1. CASE StageResult(r)
    BY <2>1 DEF StageResult, BelongsToPending, Matches
  <2> QED
    BY <1>1, <1>3, <1>5, <2>1 DEF SetArtwork, IgnoreResult, ReportFailure, CommitResult
<1>6. CASE Tick
  BY <1>1, <1>2, <1>6 DEF Tick, TickRests, TickHidden, TickSwaps, TickEnds, Swap
<1>7. CASE TakePlayback
  BY <1>4, <1>7 DEF TakePlayback
<1>8. CASE TakeArtwork
  BY <1>5, <1>8 DEF TakeArtwork
<1>9. CASE TickDisplay \/ LoopEnds \/ ChangeScreen \/ Toggle
  BY <1>1, <1>6, <1>9
  DEF TickDisplay, LoopEnds, TurnBegins, ChangeScreen, ChangesScreen, Toggle, ShowTransport
<1>11. CASE ShowAgain
  BY <1>4, <1>11 DEF ShowAgain, Available
<1>10. CASE UNCHANGED vars
  BY <1>3, <1>10 DEF vars
<1> QED
  BY <1>3, <1>7, <1>8, <1>9, <1>10, <1>11
  DEF Next, Application, Turn, HostChangesTrack, HostPromotes, PublishPlayback, PublishRequest,
      NoPlayback, PlaybackTaken, NoArtwork, Acknowledge, FailureReported, ArtworkTaskStep

(* A staged cover belongs to the transition under way, never to one the    *)
(* display has gone past.                                                  *)
THEOREM StagedIsPending == Spec => []StagedBelongsToPending
<1>1. Init => StagedBelongsToPending
  BY DEF Init, UiInit, StagedBelongsToPending
<1> QED
  BY <1>1, StagedStep, PTL DEF Spec

----------------------------------------------------------------------------
(* What is on the glass: unless a redraw is due, the committed visual or   *)
(* the clock, at all times.  Whoever changes the committed visual draws    *)
(* it, or may not draw; and whoever lets the region be drawn again asks    *)
(* for a redraw.                                                           *)

ShownIsCommitted == visible /\ ~ held /\ ~ dirty => painted \in {active.id, Clock}

LEMMA CoverIsDrawn ==
  ASSUME OwnedFilesStay', files' = files
  PROVE  CoverOf(active') = active'.id
BY DEF OwnedFilesStay, Owned, CoverOf

(* A change that is no change of the picture keeps the cover.              *)
LEMMA PictureKept ==
  ASSUME NEW old, NEW new, ~ ChangesPicture(old, new)
  PROVE  new.id = old.id
BY DEF ChangesPicture

LEMMA PaintFinish ==
  ASSUME UiTypeOK, NEW picture, NEW redraw \in BOOLEAN, FinishTick(picture, redraw),
         CoverOf(active') = active'.id,
         ~ visible \/ held \/ dirty \/ redraw \/ picture \in {active'.id, Clock}
  PROVE  ShownIsCommitted' /\ dirty' = FALSE
<1>1. dirty' = FALSE /\ visible' = visible
  BY DEF FinishTick
<1>2. PICK expires, asked \in BOOLEAN :
        /\ held' = (held /\ ~ expires)
        /\ painted' \in IF dirty \/ redraw \/ asked \/ (held /\ expires)
                        THEN {FullPicture(playback', active')} ELSE {picture} \cup IdleFrame
  BY DEF FinishTick
<1>3. SUFFICES ASSUME visible, ~ held' PROVE painted' \in {active'.id, Clock}
  BY <1>1 DEF ShownIsCommitted
<1>4. FullPicture(playback', active') \in {active'.id, Clock}
  BY <1>3 DEF FullPicture
<1>5. IdleFrame \subseteq {Clock}
  BY DEF IdleFrame
<1>6. CASE dirty \/ redraw \/ held
  BY <1>2, <1>3, <1>4, <1>6
<1>7. CASE picture \in {active'.id, Clock}
  BY <1>2, <1>4, <1>5, <1>7
<1> QED
  BY <1>3, <1>6, <1>7

LEMMA PaintTick ==
  ASSUME UiTypeOK, ShownIsCommitted, Tick, OwnedFilesStay', files' = files
  PROVE  ShownIsCommitted' /\ dirty' = FALSE
<1>1. CoverOf(active') = active'.id
  BY CoverIsDrawn
<1>2. ASSUME active'.id = active.id, FinishTick(painted, FALSE)
      PROVE  ShownIsCommitted' /\ dirty' = FALSE
  BY <1>1, <1>2, PaintFinish DEF ShownIsCommitted
<1>3. ASSUME FinishTick(CoverOf(active'), FALSE)
      PROVE  ShownIsCommitted' /\ dirty' = FALSE
  BY <1>1, <1>3, PaintFinish
<1>4. ASSUME FinishTick(painted, TRUE)
      PROVE  ShownIsCommitted' /\ dirty' = FALSE
  BY <1>1, <1>4, PaintFinish
<1>5. CASE TickRests
  BY <1>2, <1>5 DEF TickRests
<1>6. CASE TickHidden
  BY <1>4, <1>6 DEF TickHidden
<1>7. CASE TickSwaps
  BY <1>3, <1>4, <1>7 DEF TickSwaps
<1>8. CASE TickEnds
  BY <1>2, <1>3, <1>8, PictureKept DEF TickEnds
<1> QED
  BY <1>5, <1>6, <1>7, <1>8 DEF Tick

LEMMA PaintPlayback ==
  ASSUME UiTypeOK, ShownIsCommitted, NEW s, SetPlayback(s), OwnedFilesStay', files' = files
  PROVE  ShownIsCommitted'
<1>1. CoverOf(active') = active'.id
  BY CoverIsDrawn
<1>2. CASE RefreshPending(s)
  <2>1. CASE UNCHANGED <<active, painted>>
    BY <1>2, <2>1 DEF RefreshPending, ShownIsCommitted
  <2>2. CASE painted' = IF CanDraw /\ ChangesPicture(active, active')
                        THEN CoverOf(active') ELSE painted
    BY <1>1, <1>2, <2>2, PictureKept DEF RefreshPending, ShownIsCommitted, CanDraw
  <2> QED
    BY <1>2, <2>1, <2>2 DEF RefreshPending
<1>3. CASE SwitchIdle(s)
  BY <1>3 DEF SwitchIdle, ShownIsCommitted
<1>4. CASE StartTransition(s)
  BY <1>4 DEF StartTransition, ShownIsCommitted
<1>5. CASE ApplyAtOnce(s)
  <2>1. UNCHANGED <<visible, held>> /\ active' = AfterApply(s)
    BY <1>5 DEF ApplyAtOnce
  <2>2. CASE ChangesPicture(active, active')
    <3>1. active'.id = None
      BY <2>1, <2>2 DEF AfterApply, IsFallback, ChangesPicture
    <3>2. painted' = None \/ dirty' \/ ~ CanDraw
      BY <1>5, <2>2 DEF ApplyAtOnce
    <3> QED
      BY <2>1, <3>1, <3>2 DEF ShownIsCommitted, CanDraw
  <2>3. CASE ~ ChangesPicture(active, active')
    <3>1. painted' = painted /\ dirty' = dirty
      BY <1>5, <2>3 DEF ApplyAtOnce, UiTypeOK
    <3> QED
      BY <2>1, <2>3, <3>1, PictureKept DEF ShownIsCommitted
  <2> QED
    BY <2>2, <2>3
<1> QED
  BY <1>2, <1>3, <1>4, <1>5 DEF SetPlayback

LEMMA PaintArtwork ==
  ASSUME ShownIsCommitted, NEW r, SetArtwork(r), OwnedFilesStay', files' = files
  PROVE  ShownIsCommitted'
<1>1. CoverOf(active') = active'.id
  BY CoverIsDrawn
<1>2. CASE IgnoreResult(r)
  BY <1>2 DEF IgnoreResult, uiVars, ShownIsCommitted
<1>3. CASE ReportFailure(r)
  BY <1>3 DEF ReportFailure, ShownIsCommitted
<1>4. CASE StageResult(r)
  BY <1>4 DEF StageResult, ShownIsCommitted
<1>5. CASE CommitResult(r)
  BY <1>1, <1>5, PictureKept DEF CommitResult, ShownIsCommitted, CanDraw
<1> QED
  BY <1>2, <1>3, <1>4, <1>5 DEF SetArtwork

(* No redraw is due at the end of the loop.                                *)
NothingDue == loop = "protectTick" => ~ dirty

LEMMA PaintStep ==
  IInv /\ OwnedFilesStay' /\ ShownIsCommitted /\ NothingDue /\ [Next]_vars
    => ShownIsCommitted' /\ NothingDue'
<1> SUFFICES ASSUME TypeOK, OwnedFilesStay', ShownIsCommitted, NothingDue, [Next]_vars
             PROVE  ShownIsCommitted' /\ NothingDue'
  BY DEF IInv, TypeInv
<1>t. UiTypeOK
  BY DEF TypeOK
<1>1. UNCHANGED uiVars => ShownIsCommitted' /\ dirty' = dirty
  BY DEF uiVars, ShownIsCommitted
<1>2. ChangesScreen => ShownIsCommitted'
  BY <1>t DEF ChangesScreen, ShownIsCommitted, UiTypeOK
<1>3. UNCHANGED managerVars => files' = files
  BY DEF managerVars
<1>4. CASE TakePlayback
  BY <1>3, <1>4, <1>t, PaintPlayback DEF TakePlayback, NothingDue
<1>5. CASE TakeArtwork
  <2>1. files' = files
    BY <1>5 DEF TakeArtwork, TakeResult
  <2> QED
    BY <1>5, <2>1, PaintArtwork DEF TakeArtwork, NothingDue
<1>6. CASE TickDisplay
  BY <1>3, <1>6, <1>t, PaintTick DEF TickDisplay, NothingDue
<1>7. CASE LoopEnds \/ ChangeScreen
  BY <1>2, <1>7 DEF LoopEnds, TurnBegins, ChangeScreen, TakesControl, NothingDue
<1>8. CASE Toggle
  BY <1>8 DEF Toggle, TakesControl, ShowTransport, ShownIsCommitted, NothingDue
<1>9. CASE ShowAgain
  BY <1>3, <1>9, <1>t, PaintPlayback DEF ShowAgain, TakesControl, NothingDue
<1>10. CASE NoPlayback \/ PlaybackTaken \/ NoArtwork \/ Acknowledge \/ FailureReported
  BY <1>1, <1>10 DEF NoPlayback, PlaybackTaken, NoArtwork, Acknowledge, FailureReported, NothingDue
<1>11. CASE HostChangesTrack \/ HostPromotes \/ PublishPlayback \/ PublishRequest \/ ArtworkTaskStep
  BY <1>1, <1>11 DEF HostChangesTrack, HostPromotes, PublishPlayback, PublishRequest,
     ArtworkTaskStep, applicationVars, NothingDue
<1>12. CASE UNCHANGED vars
  BY <1>1, <1>12 DEF vars, applicationVars, NothingDue
<1> QED
  BY <1>4, <1>5, <1>6, <1>7, <1>8, <1>9, <1>10, <1>11, <1>12 DEF Next, Application, Turn

(* At the end of every turn of the loop the artwork region shows the       *)
(* committed cover or fallback, or the clock, and never a visual that the  *)
(* display went past: through transitions, results, presses, overlays,     *)
(* partial and full redraws, and for every host.                           *)
THEOREM OnlyCommittedShows == Spec => []OnlyCommittedIsPainted
<1>1. Init => ShownIsCommitted /\ NothingDue
  BY DEF Init, UiInit, ShownIsCommitted, NothingDue
<1>2. IInv => OwnedFilesStay
  BY DEF IInv, OwnershipInv
<1>3. IInv /\ OwnedFilesStay' /\ ShownIsCommitted /\ NothingDue /\ [Next]_vars
        => ShownIsCommitted' /\ NothingDue'
  BY PaintStep
<1>4. ShownIsCommitted /\ NothingDue => OnlyCommittedIsPainted
  BY DEF ShownIsCommitted, NothingDue, OnlyCommittedIsPainted
<1> QED
  BY <1>1, <1>2, <1>3, <1>4, Inductive, PTL DEF Spec
=============================================================================
