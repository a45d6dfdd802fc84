---------------------------- MODULE MediaService ----------------------------
(***************************************************************************)
(* The host's MediaService (host/src/deskwave_host/service/media.py)       *)
(* between start() and stop(): it turns backend snapshots into the         *)
(* playback state published to every connected display.                    *)
(*                                                                         *)
(* The service runs on one asyncio loop, so what a coroutine does between  *)
(* two awaits is one action here.  _on_backend_state awaits nothing and is *)
(* one action, told apart by the branch it takes: EmptySnapshot,           *)
(* NewIntent, SourceSnapshot or SourcelessSnapshot.  The tasks it starts   *)
(* (artwork worker, metadata grace timer, lyrics lookup) take steps of     *)
(* their own at any later time.                                            *)
(*                                                                         *)
(* Cancelling a worker or a lookup is a request: one that is busy in code  *)
(* which ignores the request goes on to completion.  The task references   *)
(* artworkTask and lyricsTask are cleared when a task is cancelled, so a   *)
(* live task that is not the referenced one has been cancelled.            *)
(***************************************************************************)
EXTENDS TrackIdentity, Naturals, Sequences

CONSTANTS
  Snapshots,       (* the snapshots the backend may report                 *)
  Subscribers,     (* WebSocket sessions                                   *)
  MaxGeneration,   (* MAX_ARTWORK_GENERATION: the counters wrap to 1       *)
  MaxAttempts,     (* ARTWORK_MAX_ATTEMPTS                                 *)
  LyricsEnabled,   (* the service was given a LyricsCache                  *)
  Fallback         (* the branded cover and FALLBACK_THEME                 *)

Generation == 1 .. MaxGeneration
NoTask     == 0                       (* a task reference that is None     *)

(* An artwork context: a URL and the track key it was reported for.  It    *)
(* also stands for what resolving it yields, one cover and its palette.    *)
Context == [url : Urls, key : Key]

ASSUME SnapshotsAreSnapshots ==
  /\ Snapshots \subseteq Snapshot
  (* A snapshot with a URL always has a key: see _track_key_for.           *)
  /\ MaxGeneration \in Nat \ {0}
  /\ MaxAttempts \in Nat \ {0}
  /\ LyricsEnabled \in BOOLEAN

ASSUME FallbackIsNoContext ==
  Absent \notin Context /\ Fallback \notin Context /\ Fallback # Absent

VARIABLES
  identity,          (* what _track_key_for remembers                      *)
  stateTrackKey,     (* _state_track_key: key of the last snapshot         *)
  trackKey,          (* _track_key: key of the current artwork intent      *)
  intentGeneration,  (* _intent_generation, 0 before the first intent      *)
  artworkContext,    (* _artwork_context                                   *)
  workers,           (* live _resolve_artwork tasks                        *)
  artworkTask,       (* _artwork_task: the generation it works for         *)
  graceTask,         (* _artwork_grace_task: what it waits for, or Absent  *)
  snapshot,          (* _state: the fields copied from the last snapshot   *)
  visual,            (* _state: artwork id with theme, artwork generation  *)
  lyricsTrackKey,    (* _lyrics_track_key                                  *)
  lyricsGeneration,  (* _lyrics_generation                                 *)
  lyricsDocument,    (* _lyrics_document: its status and the track's key   *)
  lookups,           (* live _resolve_lyrics tasks                         *)
  lyricsTask,        (* _lyrics_task: the generation it works for          *)
  mailbox            (* subscriber queues of size one; Absent: no queue    *)

identityVars == <<identity, stateTrackKey>>
artworkVars  == <<trackKey, intentGeneration, artworkContext, workers, artworkTask, graceTask>>
lyricsVars   == <<lyricsTrackKey, lyricsGeneration, lyricsDocument, lookups, lyricsTask>>
vars == <<identityVars, artworkVars, snapshot, visual, lyricsVars, mailbox>>

(* The visual tuple: artwork id and palette, named by what they were made  *)
(* from, and the generation they were promoted for.                        *)
Visual == [source : Context \cup {Fallback, Absent}, generation : Generation \cup {0}]

Worker == [generation : Generation, context : Context, attempt : 1 .. MaxAttempts,
           phase : {"waiting", "resolving"}]

Grace == [generation : Generation, key : Key]

Lookup == [generation : Generation, key : Key]

Document == [status : {"unavailable", "loading", "synced"}, key : Key \cup {Absent}]

(* The playback state as published.                                        *)
State == [snapshot |-> snapshot, visual |-> visual, lyrics |-> lyricsDocument]

NoSnapshotYet(s) == s.track = Absent /\ s.metadata = NoMetadata /\ s.url = Absent

Init ==
  /\ identity = NoIdentity
  /\ stateTrackKey = Absent
  /\ trackKey = Absent
  /\ intentGeneration = 0
  /\ artworkContext = Absent
  /\ workers = {}
  /\ artworkTask = NoTask
  /\ graceTask = Absent
  /\ snapshot \in {s \in Snapshots : NoSnapshotYet(s)}
  /\ visual = [source |-> Absent, generation |-> 0]
  /\ lyricsTrackKey = Absent
  /\ lyricsGeneration = 0
  /\ lyricsDocument = [status |-> "unavailable", key |-> Absent]
  /\ lookups = {}
  /\ lyricsTask = NoTask
  /\ mailbox = [c \in Subscribers |-> Absent]

----------------------------------------------------------------------------
(* Helpers.                                                                *)

(* Slips that the properties below must notice stand before the operator   *)
(* they are a slip of.                                                     *)

(* Slip: the counter does not wrap.                                        *)
GenerationWithoutWrap(g) == g + 1

NextGeneration(g) == IF g >= MaxGeneration THEN 1 ELSE g + 1

(* The visuals of the current intent have been published.                  *)
Promoted == intentGeneration # 0 /\ visual.generation = intentGeneration

(* Slip: a full queue keeps what it holds.                                 *)
BroadcastUnlessFull ==
  mailbox' = [c \in Subscribers |-> IF mailbox[c] = <<>> THEN <<State'>> ELSE mailbox[c]]

(* _broadcast: every subscriber's queue is left with the newest state      *)
(* alone.  It follows the assignment to _state in the same step.           *)
Broadcast == mailbox' = [c \in Subscribers |-> IF mailbox[c] = Absent THEN Absent ELSE <<State'>>]

(* Bound on the run, not on the code: the wrapped counter does not come    *)
(* back to a generation that a live task or the published visuals still    *)
(* carry, which takes 2^32 - 1 intents in the life of one fetch.           *)
Unused(g) == visual.generation # g /\ \A w \in workers : w.generation # g
UnusedByLyrics(g) == \A l \in lookups : l.generation # g

(* _begin_lyrics_intent.  It gives up at once without a title or an        *)
(* artist.                                                                 *)
BeginLyrics(key, s) ==
  LET g        == NextGeneration(lyricsGeneration)
      lookable == LyricsEnabled /\ s.metadata["title"] # Absent /\ s.metadata["artists"] # Absent
  IN /\ UnusedByLyrics(g)
     /\ lyricsTrackKey' = key
     /\ lyricsGeneration' = g
     /\ lyricsDocument' = [status |-> IF lookable THEN "loading" ELSE "unavailable", key |-> key]
     /\ lookups' = lookups \cup (IF lookable THEN {[generation |-> g, key |-> key]} ELSE {})
     /\ lyricsTask' = IF lookable THEN g ELSE NoTask

(* What every snapshot that names a track does besides the artwork: the    *)
(* key, the lyrics of a new track, the published state.                    *)
Accept(s, key) ==
  /\ identity' = Identify(identity, s, Promoted)
  /\ stateTrackKey' = key
  /\ \/ key # lyricsTrackKey /\ BeginLyrics(key, s)
     \/ key = lyricsTrackKey /\ UNCHANGED lyricsVars
  /\ snapshot' = s
  /\ visual' = visual
  /\ Broadcast

(* Slip: another URL for the same track is taken for the same intent.      *)
StartsIntentByTrackOnly(s, key) ==
  key # trackKey \/ (s.url # Absent /\ artworkContext = Absent /\ Promoted)

(* Slip: a URL after the fallback was published joins the decided intent.  *)
LateUrlJoinsIntent(s, key) ==
  \/ key # trackKey
  \/ s.url # Absent /\ artworkContext # Absent /\ artworkContext.url # s.url

(* The snapshot starts a new artwork intent: another track, another URL,   *)
(* or a URL after the fallback of this intent was already published.       *)
StartsIntent(s, key) ==
  \/ key # trackKey
  \/ /\ s.url # Absent
     /\ IF artworkContext = Absent THEN Promoted ELSE artworkContext.url # s.url

NewWorker(g, context) ==
  [generation |-> g, context |-> context, attempt |-> 1, phase |-> "waiting"]

----------------------------------------------------------------------------
(* _on_backend_state, by the branch it takes.                              *)

(* No track: the published visuals, the intent and its tasks stay.         *)
EmptySnapshot(s) ==
  /\ TrackKeyFor(identity, s, Promoted) = Absent
  /\ identity' = Identify(identity, s, Promoted)
  /\ stateTrackKey' = Absent
  /\ snapshot' = s
  /\ UNCHANGED <<artworkVars, visual, lyricsVars>>
  /\ Broadcast

(* A new intent cancels the worker and the grace timer of the old one and  *)
(* starts a worker, or the grace timer while there is no URL.              *)
NewIntent(s) ==
  LET key == TrackKeyFor(identity, s, Promoted)
      g   == NextGeneration(intentGeneration)
      context == [url |-> s.url, key |-> key]
  IN /\ key # Absent
     /\ StartsIntent(s, key)
     /\ Unused(g)
     /\ Accept(s, key)
     /\ trackKey' = key
     /\ intentGeneration' = g
     /\ \/ /\ s.url = Absent
           /\ artworkContext' = Absent
           /\ artworkTask' = NoTask
           /\ graceTask' = [generation |-> g, key |-> key]
           /\ UNCHANGED workers
        \/ /\ s.url # Absent
           /\ artworkContext' = context
           /\ workers' = workers \cup {NewWorker(g, context)}
           /\ artworkTask' = g
           /\ graceTask' = Absent

(* The intent's own URL, again or at last.  It ends the grace window and   *)
(* starts a worker unless one is busy or the visuals are out already.      *)
SourceSnapshot(s) ==
  LET key == TrackKeyFor(identity, s, Promoted)
      context == [url |-> s.url, key |-> key]
  IN /\ key # Absent
     /\ s.url # Absent
     /\ ~ StartsIntent(s, key)
     /\ Accept(s, key)
     /\ artworkContext' = context
     /\ graceTask' = Absent
     /\ IF Promoted \/ artworkTask # NoTask
        THEN UNCHANGED <<workers, artworkTask>>
        ELSE /\ workers' = workers \cup {NewWorker(intentGeneration, context)}
             /\ artworkTask' = intentGeneration
     /\ UNCHANGED <<trackKey, intentGeneration>>

(* Slip: nothing re-arms an intent whose timer or worker gave up in a gap. *)
NeverRearms == FALSE

RearmsGrace == artworkContext = Absent /\ ~ Promoted /\ graceTask = Absent

(* The same track without a URL is no evidence that the cover is gone; it  *)
(* re-arms the grace timer of an intent that has no source at all.         *)
SourcelessSnapshot(s) ==
  LET key == TrackKeyFor(identity, s, Promoted)
  IN /\ key # Absent
     /\ s.url = Absent
     /\ ~ StartsIntent(s, key)
     /\ Accept(s, key)
     /\ graceTask' = IF RearmsGrace
                     THEN [generation |-> intentGeneration, key |-> key]
                     ELSE graceTask
     /\ UNCHANGED <<trackKey, intentGeneration, artworkContext, workers, artworkTask>>

OnBackendState(s) ==
  EmptySnapshot(s) \/ NewIntent(s) \/ SourceSnapshot(s) \/ SourcelessSnapshot(s)

----------------------------------------------------------------------------
(* The tasks.                                                              *)

(* _promote_visual: artwork id, theme and generation change together.      *)
PromoteVisual(source, g) ==
  /\ visual' = IF g = intentGeneration THEN [source |-> source, generation |-> g] ELSE visual
  /\ IF g = intentGeneration THEN Broadcast ELSE UNCHANGED mailbox

(* _await_artwork_metadata after its sleep: the fallback is published only *)
(* if the track is still reported and still has no source.                 *)
GraceDeadline ==
  /\ graceTask # Absent
  /\ graceTask' = Absent
  /\ UNCHANGED <<identityVars, trackKey, intentGeneration, artworkContext, workers, artworkTask,
                 snapshot, lyricsVars>>
  /\ IF /\ graceTask.generation = intentGeneration
        /\ graceTask.key = trackKey
        /\ artworkContext = Absent
        /\ stateTrackKey = graceTask.key
     THEN PromoteVisual(Fallback, graceTask.generation)
     ELSE UNCHANGED <<visual, mailbox>>

(* _intent_matches.                                                        *)
IntentMatches(w) ==
  /\ w.generation = intentGeneration
  /\ w.context.key = trackKey
  /\ w.context = artworkContext

(* Slip: a stale task clears the reference to the current one.             *)
EndWorkerClearsReference(w) == workers' = workers \ {w} /\ artworkTask' = NoTask

(* The task returns; its finally clause clears the reference to itself.    *)
EndWorker(w) ==
  /\ workers' = workers \ {w}
  /\ artworkTask' = IF artworkTask = w.generation THEN NoTask ELSE artworkTask

(* Start of an attempt, the first one or after the backoff.                *)
BeginAttempt(w) ==
  /\ w.phase = "waiting"
  /\ IntentMatches(w)
  /\ workers' = (workers \ {w}) \cup {[w EXCEPT !.phase = "resolving"]}
  /\ UNCHANGED <<identityVars, trackKey, intentGeneration, artworkContext, artworkTask, graceTask,
                 snapshot, visual, lyricsVars, mailbox>>

(* Before an attempt or after it, the worker of an older intent gives up;  *)
(* or its cancellation is delivered.                                       *)
StaleWorkerEnds(w) ==
  /\ ~ IntentMatches(w) \/ artworkTask # w.generation
  /\ EndWorker(w)
  /\ UNCHANGED <<identityVars, trackKey, intentGeneration, artworkContext, graceTask,
                 snapshot, visual, lyricsVars, mailbox>>

(* ArtworkCache.resolve returned a cover.                                  *)
ArtworkResolved(w) ==
  /\ w.phase = "resolving"
  /\ IntentMatches(w)
  /\ EndWorker(w)
  /\ UNCHANGED <<identityVars, trackKey, intentGeneration, artworkContext, graceTask,
                 snapshot, lyricsVars>>
  /\ PromoteVisual(w.context, w.generation)

(* It returned None, and there is an attempt left after the backoff.       *)
AttemptFailed(w) ==
  /\ w.phase = "resolving"
  /\ IntentMatches(w)
  /\ w.attempt < MaxAttempts
  /\ workers' = (workers \ {w}) \cup {[w EXCEPT !.phase = "waiting", !.attempt = @ + 1]}
  /\ UNCHANGED <<identityVars, trackKey, intentGeneration, artworkContext, artworkTask, graceTask,
                 snapshot, visual, lyricsVars, mailbox>>

(* Slips: exhausted attempts always defer, or never do.                    *)
AlwaysInGap == TRUE
NeverInGap  == FALSE

InMetadataGap == stateTrackKey = Absent \/ snapshot.url = Absent

(* Every attempt failed.  In a metadata gap the intent goes back to having *)
(* no source, so that a later snapshot re-arms it; otherwise the source is *)
(* unusable and the fallback is published.                                 *)
AttemptsExhausted(w) ==
  /\ w.phase = "resolving"
  /\ IntentMatches(w)
  /\ w.attempt = MaxAttempts
  /\ EndWorker(w)
  /\ UNCHANGED <<identityVars, trackKey, intentGeneration, graceTask, snapshot, lyricsVars>>
  /\ \/ /\ InMetadataGap
        /\ artworkContext' = Absent
        /\ UNCHANGED <<visual, mailbox>>
     \/ /\ ~ InMetadataGap
        /\ IF stateTrackKey = w.context.key
           THEN PromoteVisual(Fallback, w.generation)
           ELSE UNCHANGED <<visual, mailbox>>
        /\ UNCHANGED artworkContext

(* Slip: nothing is checked after the lookup.                              *)
LookupAlwaysMatches(l) == l = l

(* _resolve_lyrics after its lookup.                                       *)
LookupMatches(l) ==
  /\ l.generation = lyricsGeneration
  /\ l.key = lyricsTrackKey
  /\ l.key = stateTrackKey

EndLookup(l) ==
  /\ lookups' = lookups \ {l}
  /\ lyricsTask' = IF lyricsTask = l.generation THEN NoTask ELSE lyricsTask

LookupDone(l, status) ==
  /\ LookupMatches(l)
  /\ lyricsDocument' = [status |-> status, key |-> l.key]
  /\ EndLookup(l)
  /\ UNCHANGED <<identityVars, artworkVars, snapshot, visual, lyricsTrackKey, lyricsGeneration>>
  /\ Broadcast

(* The result is rejected as stale, or the cancellation is delivered.      *)
LookupDropped(l) ==
  /\ ~ LookupMatches(l) \/ lyricsTask # l.generation
  /\ EndLookup(l)
  /\ UNCHANGED <<identityVars, artworkVars, snapshot, visual, lyricsTrackKey, lyricsGeneration,
                 lyricsDocument, mailbox>>

----------------------------------------------------------------------------
(* The subscribers.                                                        *)

Subscribe(c) ==
  /\ mailbox[c] = Absent
  /\ mailbox' = [mailbox EXCEPT ![c] = <<>>]
  /\ UNCHANGED <<identityVars, artworkVars, snapshot, visual, lyricsVars>>

Unsubscribe(c) ==
  /\ mailbox[c] # Absent
  /\ mailbox' = [mailbox EXCEPT ![c] = Absent]
  /\ UNCHANGED <<identityVars, artworkVars, snapshot, visual, lyricsVars>>

(* The session's sender takes the queued state (DeviceSession              *)
(* .send_updates).                                                         *)
TakeUpdate(c) ==
  /\ mailbox[c] # Absent
  /\ mailbox[c] # <<>>
  /\ mailbox' = [mailbox EXCEPT ![c] = <<>>]
  /\ UNCHANGED <<identityVars, artworkVars, snapshot, visual, lyricsVars>>

----------------------------------------------------------------------------

WorkerStep(w) ==
  \/ BeginAttempt(w)
  \/ StaleWorkerEnds(w)
  \/ ArtworkResolved(w)
  \/ AttemptFailed(w)
  \/ AttemptsExhausted(w)

LookupStep(l) ==
  \/ LookupDropped(l)
  \/ \E status \in {"synced", "unavailable"} : LookupDone(l, status)

SubscriberStep(c) == Subscribe(c) \/ Unsubscribe(c) \/ TakeUpdate(c)

Next ==
  \/ \E s \in Snapshots : OnBackendState(s)
  \/ GraceDeadline
  \/ \E w \in workers : WorkerStep(w)
  \/ \E l \in lookups : LookupStep(l)
  \/ \E c \in Subscribers : SubscriberStep(c)

Spec == Init /\ [][Next]_vars

(* Fairness.  Every attempt and lookup is bounded by timeouts and every    *)
(* sleep ends, so each task goes on; and the backend publishes a selected  *)
(* player's state again at least every POSITION_SYNC_SECONDS, changed or   *)
(* not.                                                                    *)
WorkerProgress(g) == \E w \in workers : w.generation = g /\ WorkerStep(w)

LookupProgress(g) == \E l \in lookups : l.generation = g /\ LookupStep(l)

Resync == OnBackendState(snapshot) /\ stateTrackKey' = stateTrackKey

Fairness ==
  /\ \A g \in Generation : WF_vars(WorkerProgress(g))
  /\ \A g \in Generation : WF_vars(LookupProgress(g))
  /\ WF_vars(GraceDeadline)
  /\ WF_vars(Resync)

FairSpec == Spec /\ Fairness

----------------------------------------------------------------------------
(* Properties.                                                             *)

TypeOK ==
  /\ identity \in Identity
  /\ stateTrackKey \in Key \cup {Absent}
  /\ trackKey \in Key \cup {Absent}
  /\ intentGeneration \in Generation \cup {0}
  /\ artworkContext \in Context \cup {Absent}
  /\ workers \subseteq Worker
  /\ artworkTask \in Generation \cup {NoTask}
  /\ graceTask \in Grace \cup {Absent}
  /\ snapshot \in Snapshots
  /\ visual \in Visual
  /\ lyricsTrackKey \in Key \cup {Absent}
  /\ lyricsGeneration \in Generation \cup {0}
  /\ lyricsDocument \in Document
  /\ lookups \subseteq Lookup
  /\ lyricsTask \in Generation \cup {NoTask}
  /\ DOMAIN mailbox = Subscribers

(* A URL that is being reported is the source of the current intent:       *)
(* whatever order gaps, late URLs, expired grace windows and exhausted     *)
(* attempts came in, the intent never works for another URL or track than  *)
(* the one published.                                                      *)
ContextFollowsUrl ==
  snapshot.url # Absent =>
    /\ stateTrackKey = trackKey
    /\ artworkContext = [url |-> snapshot.url, key |-> trackKey]

(* Once the visuals carry the generation of the current intent they are    *)
(* that intent's own cover or the deliberate fallback; a result of an      *)
(* earlier track or URL never appears under the current generation.        *)
PromotedVisualIsCurrent ==
  Promoted => visual.source \in {Fallback, artworkContext}

(* An intent with a reported URL and nothing published yet has a worker of *)
(* its own that has not been cancelled: no order of gaps, late URLs and    *)
(* finished attempts leaves the old cover up with nobody working on it.    *)
PendingIntentIsWorkedOn ==
  snapshot.url # Absent /\ ~ Promoted =>
    \E w \in workers : /\ w.generation = intentGeneration
                       /\ w.context = artworkContext
                       /\ artworkTask = w.generation

(* A subscriber finds the newest state in its queue or nothing: no change  *)
(* of the state misses the broadcast and no older state stays queued.      *)
MailboxHoldsNewest ==
  \A c \in Subscribers : mailbox[c] \in {Absent, <<>>, <<State>>}

(* The published metadata never contradicts what the track key was made    *)
(* from, also when a player reuses a track id or reports metadata late.    *)
TrackKeyFitsMetadata ==
  stateTrackKey # Absent => ~ Contradicts(stateTrackKey.metadata, snapshot.metadata)

(* The published lyrics are those of the current track, never the words of *)
(* the track before it.                                                    *)
LyricsBelongToTrack ==
  lyricsDocument.key = trackKey

(* What makes the three artwork invariants inductive: the tasks belong to  *)
(* the intent.                                                             *)
TracksAgree ==
  /\ stateTrackKey \in {Absent, trackKey}
  /\ lyricsTrackKey = trackKey
  /\ artworkContext # Absent => artworkContext.key = trackKey

(* Two live workers never work for one generation; the one that works for  *)
(* the current generation is the referenced one and works for the current  *)
(* context, which is still to be decided.                                  *)
WorkersBelong ==
  /\ \A w1, w2 \in workers : w1.generation = w2.generation => w1 = w2
  /\ \A w \in workers : w.generation = intentGeneration =>
       artworkTask = intentGeneration /\ w.context = artworkContext /\ ~ Promoted
  /\ artworkTask # NoTask =>
       artworkTask = intentGeneration /\ \E w \in workers : w.generation = artworkTask

(* The grace timer waits for the current intent, undecided and without a   *)
(* source.                                                                 *)
GraceBelongs ==
  graceTask # Absent =>
    /\ graceTask = [generation |-> intentGeneration, key |-> trackKey]
    /\ artworkContext = Absent
    /\ ~ Promoted

(* No task of an older intent can act for the current one, and no step     *)
(* leaves a reported URL without a worker.                                 *)
IntentInv ==
  /\ TracksAgree
  /\ WorkersBelong
  /\ GraceBelongs
  /\ ContextFollowsUrl
  /\ PromotedVisualIsCurrent
  /\ snapshot.url # Absent /\ ~ Promoted => artworkTask # NoTask

(* The service implements VisualIntents: visuals change for the current    *)
(* intent only, at most once for each, and only to its own cover or to the *)
(* fallback, so that a worker or a timer of an abandoned intent, however   *)
(* late, changes nothing that is published.                                *)
Visuals == INSTANCE VisualIntents
             WITH Sources <- Context, Generations <- Generation, None <- Absent,
                  intent <- intentGeneration, source <- artworkContext

ImplementsVisualIntents == Visuals!Spec

(* The fallback replaces the last cover only while the track is reported,  *)
(* and only because it has no URL after the grace window or a URL whose    *)
(* every attempt failed; never in a gap.                                   *)
FallbackHasEvidence ==
  visual' # visual /\ visual'.source = Fallback =>
    /\ stateTrackKey = trackKey
    /\ \/ snapshot.url = Absent /\ artworkContext = Absent
       \/ /\ snapshot.url # Absent
          /\ \E w \in workers : w.context = artworkContext /\ w.attempt = MaxAttempts

FallbackIsAuthoritative == [][FallbackHasEvidence]_vars

(* The backend keeps reporting one track with one URL, or without one.     *)
TrackSettled ==
  <>[](stateTrackKey # Absent) /\ <>[][UNCHANGED <<stateTrackKey, snapshot>>]_vars

(* Then its visuals are published in the end, and stay.                    *)
VisualSettles == TrackSettled => <>[]Promoted

(* Then its lyrics lookup is decided in the end: the display does not show *)
(* that lyrics are loading for as long as the track plays.                 *)
LyricsSettle == TrackSettled => <>[](lyricsDocument.status # "loading")
============================================================================
