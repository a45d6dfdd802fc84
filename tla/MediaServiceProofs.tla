------------------------- MODULE MediaServiceProofs -------------------------
(***************************************************************************)
(* Proofs about MediaService, for every value of its constants: its type   *)
(* invariant, the safety invariants of its artwork intents, that it        *)
(* implements VisualIntents, and what belongs together in what it          *)
(* publishes: lyrics and track, track key and metadata.                    *)
(*                                                                         *)
(* The invariants are not inductive by themselves.  IInv adds what ties    *)
(* the tasks to the intent: only the referenced worker works for the       *)
(* current generation, and it works for the current context; a live grace  *)
(* timer waits for the current intent, which then has no source; whatever  *)
(* is published under the current generation has ended its worker.         *)
(***************************************************************************)
EXTENDS MediaService, TLAPS

USE AbsentIsNoValue, SnapshotsAreSnapshots, FallbackIsNoContext DEF NoTask

----------------------------------------------------------------------------
(* The identification of tracks.                                           *)

LEMMA IdKeyType == ASSUME NEW s \in Snapshot, s.track # Absent
                   PROVE  IdKey(s) \in Key /\ BaseOf(s) \in Base
BY DEF Snapshot, IdKey, Key, BaseOf, Base

LEMMA IdentifyType ==
  ASSUME NEW id \in Identity, NEW s \in Snapshot, NEW promoted \in BOOLEAN
  PROVE  Identify(id, s, promoted) \in Identity
<1>1. CASE s.track = Absent
  BY <1>1 DEF Identify
<1>2. CASE s.track # Absent /\ Reidentifies(id, s, promoted)
  BY <1>2, IdKeyType DEF Identify, Identity, Snapshot
<1>3. CASE s.track # Absent /\ ~ Reidentifies(id, s, promoted)
  <2>1. Merged(id.metadata, s.metadata) \in Metadata
    BY DEF Identity, Snapshot, Metadata, Merged
  <2> QED
    BY <1>3, <2>1 DEF Identify, Identity
<1> QED
  BY <1>1, <1>2, <1>3

(* The key that _track_key_for returns is a key or None.                   *)
LEMMA TrackKeyType ==
  ASSUME NEW id \in Identity, NEW s \in Snapshot, NEW promoted \in BOOLEAN
  PROVE  TrackKeyFor(id, s, promoted) \in Key \cup {Absent}
<1>1. s.track = Absent => MetadataKey(s) \in Key
  BY DEF Snapshot, MetadataKey, Key
<1>2. s.url # Absent => UrlKey(s) \in Key
  BY DEF Snapshot, UrlKey, Key, NoMetadata, Metadata
<1>3. Identify(id, s, promoted).key \in Key \cup {Absent}
  BY IdentifyType DEF Identity
<1> QED
  BY <1>1, <1>2, <1>3 DEF TrackKeyFor

(* An identification with a base has a key.                                *)
IdentityOK == identity.base # Absent => identity.key # Absent

(* A snapshot with a URL always names a track.                             *)
LEMMA UrlHasKey ==
  ASSUME TypeOK, IdentityOK, NEW s \in Snapshot, NEW promoted \in BOOLEAN, s.url # Absent
  PROVE  TrackKeyFor(identity, s, promoted) # Absent
<1>1. CASE s.track = Absent
  <2>1. MetadataKey(s) # Absent
    BY <1>1 DEF Snapshot, MetadataKey, Key
  <2>2. UrlKey(s) # Absent
    BY DEF Snapshot, UrlKey, Key, NoMetadata, Metadata
  <2> QED
    BY <1>1, <2>1, <2>2 DEF TrackKeyFor
<1>2. CASE s.track # Absent
  <2>1. IdKey(s) # Absent /\ BaseOf(s) # Absent
    BY <1>2, IdKeyType
  <2>2. CASE Reidentifies(identity, s, promoted)
    BY <1>2, <2>1, <2>2 DEF Identify, TrackKeyFor
  <2>3. CASE ~ Reidentifies(identity, s, promoted)
    <3>1. identity.key # Absent
      BY <2>1, <2>3 DEF Reidentifies, IdentityOK
    <3> QED
      BY <1>2, <2>3, <3>1 DEF Identify, TrackKeyFor, TypeOK, Identity
  <2> QED
    BY <2>2, <2>3
<1> QED
  BY <1>1, <1>2

LEMMA IdentifyOK ==
  ASSUME TypeOK, IdentityOK, NEW s \in Snapshot, NEW promoted \in BOOLEAN,
         identity' = Identify(identity, s, promoted)
  PROVE  IdentityOK'
<1>1. CASE s.track = Absent
  BY <1>1 DEF Identify, IdentityOK
<1>2. CASE s.track # Absent
  BY <1>2, IdKeyType DEF Identify, IdentityOK, TypeOK, Identity
<1> QED
  BY <1>1, <1>2

LEMMA NextGenerationType ==
  ASSUME NEW g \in Generation \cup {0} PROVE NextGeneration(g) \in Generation
BY DEF NextGeneration, Generation

----------------------------------------------------------------------------
(* Type correctness.                                                       *)

LEMMA PromotedIsBoolean == Promoted \in BOOLEAN
BY DEF Promoted

(* The parts of TypeOK that an accepted snapshot writes.                   *)
LEMMA AcceptType ==
  ASSUME TypeOK, NEW s \in Snapshots, NEW key \in Key, Accept(s, key)
  PROVE  /\ identity' \in Identity /\ stateTrackKey' \in Key /\ snapshot' \in Snapshots
         /\ visual' \in Visual /\ DOMAIN mailbox' = Subscribers
         /\ lyricsTrackKey' \in Key \cup {Absent} /\ lyricsGeneration' \in Generation \cup {0}
         /\ lyricsDocument' \in Document /\ lookups' \subseteq Lookup
         /\ lyricsTask' \in Generation \cup {NoTask}
<1>1. identity' \in Identity
  BY IdentifyType, PromotedIsBoolean DEF Accept, TypeOK
<1>2. CASE key # lyricsTrackKey /\ BeginLyrics(key, s)
  <2> DEFINE g == NextGeneration(lyricsGeneration)
  <2>1. g \in Generation
    BY NextGenerationType DEF TypeOK
  <2> QED
    BY <1>1, <1>2, <2>1 DEF Accept, BeginLyrics, Broadcast, TypeOK, Document, Lookup
<1>3. CASE UNCHANGED lyricsVars
  BY <1>1, <1>3 DEF Accept, Broadcast, TypeOK, lyricsVars
<1> QED
  BY <1>2, <1>3 DEF Accept

LEMMA WorkerIsTyped ==
  ASSUME NEW g \in Generation, NEW context \in Context
  PROVE  NewWorker(g, context) \in Worker
BY DEF NewWorker, Worker

LEMMA PromoteVisualType ==
  ASSUME TypeOK, NEW source \in Context \cup {Fallback}, NEW g \in Generation,
         PromoteVisual(source, g)
  PROVE  visual' \in Visual /\ DOMAIN mailbox' = Subscribers
BY DEF TypeOK, PromoteVisual, Visual, Broadcast

(* TypeOK is inductive together with this: a track has an intent.          *)
TrackHasIntent == trackKey # Absent => intentGeneration # 0

TypeInv == TypeOK /\ TrackHasIntent

LEMMA TypeStep == TypeInv /\ [Next]_vars => TypeInv'
<1> SUFFICES ASSUME TypeOK, TrackHasIntent, [Next]_vars PROVE TypeInv'
  BY DEF TypeInv
<1> USE DEF identityVars, artworkVars, lyricsVars, TypeInv, TrackHasIntent
<1>1. ASSUME NEW s \in Snapshots, EmptySnapshot(s) PROVE TypeInv'
  <2>1. identity' \in Identity
    BY <1>1, IdentifyType, PromotedIsBoolean DEF EmptySnapshot, TypeOK
  <2> QED
    BY <1>1, <2>1 DEF EmptySnapshot, TypeOK, Broadcast
<1>2. ASSUME NEW s \in Snapshots, NewIntent(s) PROVE TypeInv'
  <2> DEFINE key == TrackKeyFor(identity, s, Promoted)
             g   == NextGeneration(intentGeneration)
             context == [url |-> s.url, key |-> key]
  <2>1. key \in Key /\ Accept(s, key)
    BY <1>2, TrackKeyType, PromotedIsBoolean DEF NewIntent, TypeOK
  <2>2. g \in Generation
    BY NextGenerationType DEF TypeOK
  <2>3. s.url # Absent => context \in Context
    BY <2>1 DEF Context, Snapshot
  <2>4. s.url # Absent => NewWorker(g, context) \in Worker
    BY <2>2, <2>3, WorkerIsTyped
  <2>5. [generation |-> g, key |-> key] \in Grace
    BY <2>1, <2>2 DEF Grace
  <2>6. /\ trackKey' = key /\ intentGeneration' = g
        /\ \/ /\ artworkContext' = Absent /\ artworkTask' = NoTask
              /\ graceTask' = [generation |-> g, key |-> key] /\ workers' = workers
           \/ /\ s.url # Absent /\ artworkContext' = context
              /\ workers' = workers \cup {NewWorker(g, context)}
              /\ artworkTask' = g /\ graceTask' = Absent
    BY <1>2 DEF NewIntent
  <2> HIDE DEF key, g, context
  <2>7. TypeOK'
    BY <2>1, <2>2, <2>3, <2>4, <2>5, <2>6, AcceptType DEF TypeOK
  <2> QED
    BY <2>2, <2>6, <2>7 DEF Generation
<1>3. ASSUME NEW s \in Snapshots, SourceSnapshot(s) PROVE TypeInv'
  <2> DEFINE key == TrackKeyFor(identity, s, Promoted)
             context == [url |-> s.url, key |-> key]
  <2>1. key \in Key /\ Accept(s, key)
    BY <1>3, TrackKeyType, PromotedIsBoolean DEF SourceSnapshot, TypeOK
  <2>2. context \in Context
    BY <1>3, <2>1 DEF Context, Snapshot, SourceSnapshot
  <2>3. intentGeneration \in Generation
    BY <1>3, <2>1 DEF SourceSnapshot, StartsIntent, TypeOK
  <2>4. NewWorker(intentGeneration, context) \in Worker
    BY <2>2, <2>3, WorkerIsTyped
  <2>5. /\ artworkContext' = context /\ graceTask' = Absent
        /\ trackKey' = trackKey /\ intentGeneration' = intentGeneration
        /\ \/ workers' = workers /\ artworkTask' = artworkTask
           \/ /\ workers' = workers \cup {NewWorker(intentGeneration, context)}
              /\ artworkTask' = intentGeneration
    BY <1>3 DEF SourceSnapshot
  <2> HIDE DEF key, context
  <2> QED
    BY <2>1, <2>2, <2>3, <2>4, <2>5, AcceptType DEF TypeOK
<1>4. ASSUME NEW s \in Snapshots, SourcelessSnapshot(s) PROVE TypeInv'
  <2> DEFINE key == TrackKeyFor(identity, s, Promoted)
  <2>1. key \in Key /\ Accept(s, key)
    BY <1>4, TrackKeyType, PromotedIsBoolean DEF SourcelessSnapshot, TypeOK
  <2>2. [generation |-> intentGeneration, key |-> key] \in Grace
    BY <1>4, <2>1 DEF SourcelessSnapshot, StartsIntent, TypeOK, Grace
  <2>3. /\ UNCHANGED <<trackKey, intentGeneration, artworkContext, workers, artworkTask>>
        /\ graceTask' \in {graceTask, [generation |-> intentGeneration, key |-> key]}
    BY <1>4 DEF SourcelessSnapshot
  <2> HIDE DEF key
  <2> QED
    BY <2>1, <2>2, <2>3, AcceptType DEF TypeOK
<1>5. CASE GraceDeadline
  <2>1. visual' \in Visual /\ DOMAIN mailbox' = Subscribers
    BY <1>5, PromoteVisualType DEF GraceDeadline, TypeOK, Grace
  <2> QED
    BY <1>5, <2>1 DEF GraceDeadline, TypeOK
<1>6. ASSUME NEW w \in workers, WorkerStep(w) PROVE TypeInv'
  <2>1. w \in Worker
    BY DEF TypeOK
  <2>2. EndWorker(w) => workers' \subseteq Worker /\ artworkTask' \in Generation \cup {NoTask}
    BY DEF EndWorker, TypeOK
  <2>3. CASE BeginAttempt(w)
    BY <2>1, <2>3 DEF BeginAttempt, TypeOK, Worker
  <2>4. CASE StaleWorkerEnds(w)
    BY <2>2, <2>4 DEF StaleWorkerEnds, TypeOK
  <2>5. CASE ArtworkResolved(w)
    <3>1. visual' \in Visual /\ DOMAIN mailbox' = Subscribers
      BY <2>1, <2>5, PromoteVisualType DEF ArtworkResolved, Worker
    <3> QED
      BY <2>2, <2>5, <3>1 DEF ArtworkResolved, TypeOK
  <2>6. CASE AttemptFailed(w)
    <3>1. [w EXCEPT !.phase = "waiting", !.attempt = @ + 1] \in Worker
      <4> DEFINE n == w.attempt + 1
      <4>1. n \in 1 .. MaxAttempts
        BY <2>1, <2>6 DEF AttemptFailed, Worker
      <4> HIDE DEF n
      <4>2. [w EXCEPT !.phase = "waiting", !.attempt = n] \in Worker
        BY <2>1, <4>1 DEF Worker
      <4> QED
        BY <4>2 DEF n
    <3> QED
      BY <2>6, <3>1 DEF AttemptFailed, TypeOK
  <2>7. CASE AttemptsExhausted(w)
    <3>1. visual' \in Visual /\ DOMAIN mailbox' = Subscribers
      BY <2>1, <2>7, PromoteVisualType DEF AttemptsExhausted, Worker, TypeOK
    <3> QED
      BY <2>2, <2>7, <3>1 DEF AttemptsExhausted, TypeOK
  <2> QED
    BY <1>6, <2>3, <2>4, <2>5, <2>6, <2>7 DEF WorkerStep
<1>7. ASSUME NEW l \in lookups, LookupStep(l) PROVE TypeInv'
  <2>1. l \in Lookup
    BY DEF TypeOK
  <2>2. CASE LookupDropped(l)
    BY <2>2 DEF LookupDropped, EndLookup, TypeOK
  <2>3. ASSUME NEW status \in {"synced", "unavailable"}, LookupDone(l, status) PROVE TypeInv'
    BY <2>1, <2>3 DEF LookupDone, EndLookup, Broadcast, TypeOK, Document, Lookup
  <2> QED
    BY <1>7, <2>2, <2>3 DEF LookupStep
<1>8. ASSUME NEW c \in Subscribers, SubscriberStep(c) PROVE TypeInv'
  BY <1>8 DEF SubscriberStep, Subscribe, Unsubscribe, TakeUpdate, TypeOK
<1>9. CASE UNCHANGED vars
  BY <1>9 DEF vars, TypeOK
<1> QED
  BY <1>1, <1>2, <1>3, <1>4, <1>5, <1>6, <1>7, <1>8, <1>9 DEF Next, OnBackendState

LEMMA TypeInit == Init => TypeInv
BY DEF Init, TypeInv, TypeOK, TrackHasIntent, Identity, NoIdentity, NoMetadata, Metadata, Visual,
       Document

(* Every variable of the service keeps its type.                           *)
THEOREM TypeCorrect == Spec => []TypeOK
<1>1. TypeInv => TypeOK
  BY DEF TypeInv
<1> QED
  BY <1>1, TypeInit, TypeStep, PTL DEF Spec

----------------------------------------------------------------------------
(* The safety of the artwork intents.                                      *)

IInv == TypeInv /\ IdentityOK /\ IntentInv

(* Steps that only touch subscribers, lyrics lookups or nothing.           *)
LEMMA IntentInvUntouched ==
  ASSUME IntentInv, IdentityOK,
         UNCHANGED <<identity, stateTrackKey, artworkVars, snapshot, visual, lyricsTrackKey>>
  PROVE  IntentInv' /\ IdentityOK'
BY DEF IntentInv, TracksAgree, WorkersBelong, GraceBelongs, ContextFollowsUrl, Promoted,
       PromotedVisualIsCurrent, IdentityOK, artworkVars

(* After an accepted snapshot all track keys agree.                        *)
LEMMA AcceptTracks ==
  ASSUME NEW s \in Snapshots, NEW key, Accept(s, key)
  PROVE  stateTrackKey' = key /\ lyricsTrackKey' = key /\ snapshot' = s /\ visual' = visual
BY DEF Accept, BeginLyrics, lyricsVars

(* A worker that only moves on in its attempts changes no part of it.      *)
LEMMA SameWorkers ==
  ASSUME IntentInv, IdentityOK, NEW w \in workers, NEW v,
         workers' = (workers \ {w}) \cup {v},
         v.generation = w.generation, v.context = w.context,
         UNCHANGED <<identityVars, trackKey, intentGeneration, artworkContext, artworkTask,
                     graceTask, snapshot, visual, lyricsVars>>
  PROVE  (IdentityOK /\ IntentInv)'
BY DEF IdentityOK, IntentInv, TracksAgree, WorkersBelong, GraceBelongs, ContextFollowsUrl,
       Promoted, PromotedVisualIsCurrent, identityVars, lyricsVars

LEMMA IntentStep == IInv /\ [Next]_vars => (IdentityOK /\ IntentInv)'
<1> SUFFICES ASSUME IInv, [Next]_vars PROVE (IdentityOK /\ IntentInv)'
  OBVIOUS
<1>a. TypeOK /\ TrackHasIntent /\ IdentityOK /\ IntentInv /\ Promoted \in BOOLEAN
  BY PromotedIsBoolean DEF IInv, TypeInv
<1>1. ASSUME NEW s \in Snapshots, EmptySnapshot(s) PROVE (IdentityOK /\ IntentInv)'
  <2>1. IdentityOK'
    BY <1>a, <1>1, IdentifyOK DEF EmptySnapshot
  <2>2. s.url = Absent
    BY <1>a, <1>1, UrlHasKey DEF EmptySnapshot
  <2> QED
    BY <1>a, <1>1, <2>1, <2>2
       DEF EmptySnapshot, artworkVars, lyricsVars, IntentInv, TracksAgree, WorkersBelong,
           GraceBelongs, ContextFollowsUrl, Promoted, PromotedVisualIsCurrent
<1>2. ASSUME NEW s \in Snapshots, NewIntent(s) PROVE (IdentityOK /\ IntentInv)'
  <2> DEFINE key == TrackKeyFor(identity, s, Promoted)
             g   == NextGeneration(intentGeneration)
             context == [url |-> s.url, key |-> key]
  <2>1. key \in Key /\ Accept(s, key) /\ Unused(g)
    BY <1>2, <1>a, TrackKeyType DEF NewIntent, TypeOK
  <2>2. g \in Generation
    BY <1>a, NextGenerationType DEF TypeOK
  <2>3. IdentityOK'
    BY <1>a, <2>1, IdentifyOK DEF Accept
  <2>4. /\ trackKey' = key /\ intentGeneration' = g
        /\ \/ /\ s.url = Absent /\ artworkContext' = Absent /\ artworkTask' = NoTask
              /\ graceTask' = [generation |-> g, key |-> key] /\ workers' = workers
           \/ /\ s.url # Absent /\ artworkContext' = context
              /\ workers' = workers \cup {NewWorker(g, context)}
              /\ artworkTask' = g /\ graceTask' = Absent
    BY <1>2 DEF NewIntent
  <2>5. context.url = s.url /\ context.key = key
    OBVIOUS
  <2>6. /\ stateTrackKey' = key /\ lyricsTrackKey' = key /\ snapshot' = s /\ visual' = visual
    BY <2>1, AcceptTracks
  <2> HIDE DEF key, g
  <2>7. ~ Promoted'
    BY <2>1, <2>2, <2>4, <2>6 DEF Promoted, Unused
  <2>8. TracksAgree'
    BY <2>4, <2>5, <2>6 DEF TracksAgree
  <2>9. NewWorker(g, context).generation = g /\ NewWorker(g, context).context = context
    BY DEF NewWorker
  <2>10. WorkersBelong'
    BY <1>a, <2>1, <2>2, <2>4, <2>7, <2>9
       DEF WorkersBelong, Unused, IntentInv, TypeOK, Generation
  <2>11. GraceBelongs'
    BY <2>4, <2>7 DEF GraceBelongs
  <2> QED
    BY <2>2, <2>3, <2>4, <2>6, <2>7, <2>8, <2>10, <2>11
       DEF IntentInv, ContextFollowsUrl, PromotedVisualIsCurrent, Generation
<1>3. ASSUME NEW s \in Snapshots, SourceSnapshot(s) PROVE (IdentityOK /\ IntentInv)'
  <2> DEFINE key == TrackKeyFor(identity, s, Promoted)
             context == [url |-> s.url, key |-> key]
  <2>1. key \in Key /\ Accept(s, key)
    BY <1>3, <1>a, TrackKeyType DEF SourceSnapshot, TypeOK
  <2>2. IdentityOK'
    BY <1>a, <2>1, IdentifyOK DEF Accept
  <2>3. /\ s.url # Absent /\ key = trackKey
        /\ IF artworkContext = Absent THEN ~ Promoted ELSE artworkContext.url = s.url
        /\ artworkContext' = context /\ graceTask' = Absent
        /\ trackKey' = trackKey /\ intentGeneration' = intentGeneration
        /\ IF Promoted \/ artworkTask # NoTask
           THEN workers' = workers /\ artworkTask' = artworkTask
           ELSE /\ workers' = workers \cup {NewWorker(intentGeneration, context)}
                /\ artworkTask' = intentGeneration
    BY <1>3 DEF SourceSnapshot, StartsIntent
  <2>4. context.url = s.url /\ context.key = key
    OBVIOUS
  <2>5. intentGeneration \in Generation /\ intentGeneration # 0
    BY <1>a, <2>1, <2>3 DEF TypeOK, TrackHasIntent, Generation
  <2>6. artworkContext # Absent => artworkContext = context
    BY <1>a, <2>3 DEF TypeOK, Context, IntentInv, TracksAgree
  <2>7. /\ stateTrackKey' = key /\ lyricsTrackKey' = key /\ snapshot' = s /\ visual' = visual
    BY <2>1, AcceptTracks
  <2>8. Promoted' = Promoted
    BY <2>3, <2>7 DEF Promoted
  <2>9. NewWorker(intentGeneration, context).generation = intentGeneration
        /\ NewWorker(intentGeneration, context).context = context
    BY DEF NewWorker
  <2> HIDE DEF key, context
  <2>10. TracksAgree'
    BY <2>3, <2>4, <2>7 DEF TracksAgree
  <2>11. WorkersBelong'
    <3>1. CASE Promoted \/ artworkTask # NoTask
      <4>1. \A w \in workers : w.generation = intentGeneration => w.context = context
        BY <1>a, <2>6 DEF IntentInv, WorkersBelong, TypeOK, Worker
      <4> QED
        BY <1>a, <2>3, <2>8, <3>1, <4>1 DEF IntentInv, WorkersBelong
    <3>2. CASE ~ (Promoted \/ artworkTask # NoTask)
      <4>1. \A w \in workers : w.generation # intentGeneration
        BY <1>a, <2>5, <3>2 DEF IntentInv, WorkersBelong
      <4> QED
        BY <1>a, <2>3, <2>5, <2>8, <2>9, <3>2, <4>1 DEF IntentInv, WorkersBelong
    <3> QED
      BY <3>1, <3>2
  <2>12. GraceBelongs'
    BY <2>3 DEF GraceBelongs
  <2>13. PromotedVisualIsCurrent'
    BY <1>a, <2>3, <2>6, <2>7, <2>8 DEF IntentInv, PromotedVisualIsCurrent
  <2>14. ContextFollowsUrl'
    BY <2>3, <2>7 DEF ContextFollowsUrl, context
  <2>15. ~ Promoted' => artworkTask' # NoTask
    BY <2>3, <2>5, <2>8
  <2> QED
    BY <2>2, <2>10, <2>11, <2>12, <2>13, <2>14, <2>15 DEF IntentInv
<1>4. ASSUME NEW s \in Snapshots, SourcelessSnapshot(s) PROVE (IdentityOK /\ IntentInv)'
  <2> DEFINE key == TrackKeyFor(identity, s, Promoted)
  <2>1. key \in Key /\ Accept(s, key)
    BY <1>4, <1>a, TrackKeyType DEF SourcelessSnapshot, TypeOK
  <2>2. IdentityOK'
    BY <1>a, <2>1, IdentifyOK DEF Accept
  <2>3. /\ s.url = Absent /\ key = trackKey
        /\ UNCHANGED <<trackKey, intentGeneration, artworkContext, workers, artworkTask>>
        /\ graceTask' = IF artworkContext = Absent /\ ~ Promoted /\ graceTask = Absent
                        THEN [generation |-> intentGeneration, key |-> key]
                        ELSE graceTask
    BY <1>4 DEF SourcelessSnapshot, StartsIntent, RearmsGrace
  <2>4. /\ stateTrackKey' = key /\ lyricsTrackKey' = key /\ snapshot' = s /\ visual' = visual
    BY <2>1, AcceptTracks
  <2> HIDE DEF key
  <2> QED
    BY <1>a, <2>2, <2>3, <2>4
       DEF IntentInv, TracksAgree, WorkersBelong, GraceBelongs, ContextFollowsUrl, Promoted,
           PromotedVisualIsCurrent
<1>5. CASE GraceDeadline
  <2>1. graceTask # Absent /\ graceTask' = Absent
        /\ UNCHANGED <<identityVars, trackKey, intentGeneration, artworkContext, workers,
                       artworkTask, snapshot, lyricsVars>>
    BY <1>5 DEF GraceDeadline
  <2>2. visual' = visual \/ visual' = [source |-> Fallback, generation |-> intentGeneration]
    BY <1>5 DEF GraceDeadline, PromoteVisual
  <2>3. artworkContext = Absent /\ intentGeneration # 0
    BY <1>a, <2>1 DEF IntentInv, GraceBelongs, TypeOK, Grace, Generation
  <2>4. \A w \in workers : w.generation # intentGeneration
    BY <1>a, <2>3 DEF IntentInv, WorkersBelong, TypeOK, Worker
  <2>5. artworkTask = NoTask
    BY <1>a, <2>4 DEF IntentInv, WorkersBelong
  <2>6. snapshot.url = Absent
    <3>1. trackKey \in Key /\ snapshot.url \in Urls \cup {Absent}
      BY <1>a, <2>1 DEF IntentInv, GraceBelongs, TypeOK, Grace, Snapshot
    <3>2. snapshot.url # Absent => [url |-> snapshot.url, key |-> trackKey] \in Context
      BY <3>1 DEF Context
    <3> QED
      BY <1>a, <2>3, <3>2 DEF IntentInv, ContextFollowsUrl
  <2> QED
    BY <1>a, <2>1, <2>2, <2>3, <2>4, <2>5, <2>6
       DEF IdentityOK, IntentInv, TracksAgree, WorkersBelong, GraceBelongs, ContextFollowsUrl,
           Promoted, PromotedVisualIsCurrent, identityVars, lyricsVars
<1>6. ASSUME NEW w \in workers, WorkerStep(w) PROVE (IdentityOK /\ IntentInv)'
  <2>1. w \in Worker
    BY <1>a DEF TypeOK
  <2>2. CASE BeginAttempt(w)
    <3> DEFINE v == [w EXCEPT !.phase = "resolving"]
    <3>1. workers' = (workers \ {w}) \cup {v} /\ v.generation = w.generation /\ v.context = w.context
      BY <2>1, <2>2 DEF BeginAttempt, Worker
    <3> HIDE DEF v
    <3> QED
      BY <1>a, <2>2, <3>1, SameWorkers DEF BeginAttempt
  <2>3. CASE AttemptFailed(w)
    <3> DEFINE v == [w EXCEPT !.phase = "waiting", !.attempt = @ + 1]
    <3>1. workers' = (workers \ {w}) \cup {v} /\ v.generation = w.generation /\ v.context = w.context
      BY <2>1, <2>3 DEF AttemptFailed, Worker
    <3> HIDE DEF v
    <3> QED
      BY <1>a, <2>3, <3>1, SameWorkers DEF AttemptFailed
  <2>4. CASE StaleWorkerEnds(w)
    <3>1. w.generation # intentGeneration
      BY <1>a, <2>1, <2>4
         DEF StaleWorkerEnds, IntentMatches, IntentInv, WorkersBelong, TracksAgree, TypeOK, Worker
    <3>2. artworkTask' = artworkTask
      BY <1>a, <2>1, <2>4, <3>1
         DEF StaleWorkerEnds, EndWorker, IntentInv, WorkersBelong, Worker, Generation
    <3> QED
      BY <1>a, <2>4, <3>1, <3>2
         DEF StaleWorkerEnds, EndWorker, IdentityOK, IntentInv, TracksAgree, WorkersBelong,
             GraceBelongs, ContextFollowsUrl, Promoted, PromotedVisualIsCurrent, identityVars,
             lyricsVars
  <2>5. ASSUME w.generation = intentGeneration, EndWorker(w)
        PROVE  /\ artworkTask' = NoTask
               /\ \A v \in workers' : v \in workers /\ v.generation # intentGeneration
               /\ artworkContext = w.context /\ artworkContext # Absent /\ graceTask = Absent
               /\ intentGeneration # 0
    BY <1>a, <2>1, <2>5
       DEF EndWorker, IntentInv, WorkersBelong, GraceBelongs, Worker, Generation
  <2>6. CASE ArtworkResolved(w)
    <3>1. w.generation = intentGeneration /\ EndWorker(w)
          /\ visual' = [source |-> w.context, generation |-> w.generation]
          /\ UNCHANGED <<identityVars, trackKey, intentGeneration, artworkContext, graceTask,
                         snapshot, lyricsVars>>
      BY <2>6 DEF ArtworkResolved, IntentMatches, PromoteVisual
    <3> QED
      BY <1>a, <2>5, <3>1
         DEF IdentityOK, IntentInv, TracksAgree, WorkersBelong, GraceBelongs, ContextFollowsUrl,
             Promoted, PromotedVisualIsCurrent, identityVars, lyricsVars
  <2>7. CASE AttemptsExhausted(w)
    <3>1. w.generation = intentGeneration /\ w.context.key = trackKey /\ EndWorker(w)
          /\ UNCHANGED <<identityVars, trackKey, intentGeneration, graceTask, snapshot, lyricsVars>>
      BY <2>7 DEF AttemptsExhausted, IntentMatches
    <3>2. CASE /\ stateTrackKey = Absent \/ snapshot.url = Absent
               /\ artworkContext' = Absent /\ visual' = visual
      <4>1. trackKey \in Key
        BY <2>1, <3>1 DEF Worker, Context
      <4>2. snapshot.url = Absent
        BY <1>a, <3>2, <4>1 DEF IntentInv, ContextFollowsUrl
      <4>3. ~ Promoted
        BY <1>a, <3>1 DEF IntentInv, WorkersBelong
      <4> QED
        BY <1>a, <2>5, <3>1, <3>2, <4>2, <4>3
           DEF IdentityOK, IntentInv, TracksAgree, WorkersBelong, GraceBelongs, ContextFollowsUrl,
               Promoted, PromotedVisualIsCurrent, identityVars, lyricsVars
    <3>3. CASE /\ stateTrackKey # Absent /\ artworkContext' = artworkContext
               /\ IF stateTrackKey = w.context.key
                  THEN PromoteVisual(Fallback, w.generation) ELSE UNCHANGED <<visual, mailbox>>
      <4>1. visual' = [source |-> Fallback, generation |-> intentGeneration]
        BY <1>a, <3>1, <3>3 DEF PromoteVisual, IntentInv, TracksAgree
      <4> QED
        BY <1>a, <2>5, <3>1, <3>3, <4>1
           DEF IdentityOK, IntentInv, TracksAgree, WorkersBelong, GraceBelongs, ContextFollowsUrl,
               Promoted, PromotedVisualIsCurrent, identityVars, lyricsVars
    <3> QED
      BY <2>7, <3>2, <3>3 DEF AttemptsExhausted, InMetadataGap
  <2> QED
    BY <1>6, <2>2, <2>3, <2>4, <2>6, <2>7 DEF WorkerStep
<1>7. ASSUME NEW l \in lookups, LookupStep(l) PROVE (IdentityOK /\ IntentInv)'
  BY <1>a, <1>7, IntentInvUntouched DEF LookupStep, LookupDropped, LookupDone, identityVars
<1>8. ASSUME NEW c \in Subscribers, SubscriberStep(c) PROVE (IdentityOK /\ IntentInv)'
  BY <1>a, <1>8, IntentInvUntouched
     DEF SubscriberStep, Subscribe, Unsubscribe, TakeUpdate, identityVars, lyricsVars
<1>9. CASE UNCHANGED vars
  BY <1>a, <1>9, IntentInvUntouched DEF vars, identityVars, lyricsVars
<1> QED
  BY <1>1, <1>2, <1>3, <1>4, <1>5, <1>6, <1>7, <1>8, <1>9 DEF Next, OnBackendState

LEMMA IntentInit == Init => IdentityOK /\ IntentInv
BY DEF Init, IdentityOK, NoIdentity, IntentInv, TracksAgree, WorkersBelong, GraceBelongs,
       ContextFollowsUrl, Promoted, PromotedVisualIsCurrent, NoSnapshotYet

LEMMA Inductive == Spec => []IInv
BY TypeInit, TypeStep, IntentInit, IntentStep, PTL DEF Spec, IInv

(* The invariants of the artwork intents hold, whatever the order of       *)
(* snapshots, gaps, timers, retries and late results.                      *)
THEOREM IntentsAreSafe ==
  Spec => [](ContextFollowsUrl /\ PromotedVisualIsCurrent /\ PendingIntentIsWorkedOn)
<1>1. IInv => ContextFollowsUrl /\ PromotedVisualIsCurrent /\ PendingIntentIsWorkedOn
  BY DEF IInv, IntentInv, WorkersBelong, PendingIntentIsWorkedOn
<1> QED
  BY <1>1, Inductive, PTL

(* Visuals under the current generation are its own cover or the fallback, *)
(* whichever worker or timer put them there.                               *)
THEOREM VisualsAreCurrent == Spec => []PromotedVisualIsCurrent
BY IntentsAreSafe, PTL

(* A reported URL whose cover is not published has a worker that will try. *)
THEOREM SourcesAreWorkedOn == Spec => []PendingIntentIsWorkedOn
BY IntentsAreSafe, PTL

(* The visuals refine VisualIntents: an intent is decided at most once, by *)
(* its own cover or by the fallback, and nothing else changes what is      *)
(* published.                                                              *)
THEOREM VisualsAreAtomic == Spec => ImplementsVisualIntents
<1>1. Init => Visuals!Init
  BY DEF Init, Visuals!Init
<1>2. IInv /\ [Next]_vars => [Visuals!Next]_Visuals!abstractVars
  <2> SUFFICES ASSUME IInv, [Next]_vars PROVE [Visuals!Next]_Visuals!abstractVars
    OBVIOUS
  <2> USE DEF Visuals!abstractVars
  <2>a. TypeOK /\ TrackHasIntent /\ IntentInv /\ TypeOK'
    BY TypeStep DEF IInv, TypeInv
  <2>b. Visuals!Decided <=> Promoted
    BY DEF Visuals!Decided, Promoted
  <2>1. ASSUME NEW s \in Snapshots, EmptySnapshot(s) PROVE UNCHANGED Visuals!abstractVars
    BY <2>1 DEF EmptySnapshot, artworkVars
  <2>2. ASSUME NEW s \in Snapshots, NewIntent(s) PROVE Visuals!Begin
    <3>1. NextGeneration(intentGeneration) \in Generation
      BY <2>a, NextGenerationType DEF TypeOK
    <3>2. /\ intentGeneration' = NextGeneration(intentGeneration)
          /\ visual.generation # NextGeneration(intentGeneration)
          /\ visual' = visual
      BY <2>2 DEF NewIntent, Unused, Accept
    <3>3. artworkContext' \in Context \cup {Absent}
      BY <2>a DEF TypeOK
    <3> QED
      BY <3>1, <3>2, <3>3 DEF Visuals!Begin
  <2>3. ASSUME NEW s \in Snapshots, SourceSnapshot(s)
        PROVE  Visuals!FindSource \/ UNCHANGED Visuals!abstractVars
    <3> DEFINE key == TrackKeyFor(identity, s, Promoted)
               context == [url |-> s.url, key |-> key]
    <3>1. /\ s.url # Absent /\ key = trackKey
          /\ IF artworkContext = Absent THEN ~ Promoted ELSE artworkContext.url = s.url
          /\ artworkContext' = context /\ visual' = visual
          /\ intentGeneration' = intentGeneration
      BY <2>3 DEF SourceSnapshot, StartsIntent, Accept
    <3>2. artworkContext # Absent => artworkContext = context
      BY <2>a, <3>1 DEF TypeOK, Context, IntentInv, TracksAgree
    <3>3. context # Absent => context \in Context
      BY <2>a, <3>1 DEF TypeOK
    <3>4. key \in Key
      BY <2>3, <2>a, TrackKeyType, PromotedIsBoolean DEF SourceSnapshot, TypeOK
    <3>5. context \in Context
      BY <3>1, <3>4 DEF Context, Snapshot
    <3> QED
      BY <2>b, <3>1, <3>2, <3>5 DEF Visuals!FindSource
  <2>4. ASSUME NEW s \in Snapshots, SourcelessSnapshot(s) PROVE UNCHANGED Visuals!abstractVars
    BY <2>4 DEF SourcelessSnapshot, Accept
  <2>5. CASE GraceDeadline
    <3>1. ~ Promoted /\ intentGeneration # 0
      BY <2>a, <2>5 DEF GraceDeadline, IntentInv, GraceBelongs, TypeOK, Grace, Generation
    <3> QED
      BY <2>b, <2>5, <3>1 DEF GraceDeadline, PromoteVisual, Visuals!Next, Visuals!Decide
  <2>6. ASSUME NEW w \in workers, WorkerStep(w)
        PROVE  Visuals!Decide \/ Visuals!LoseSource \/ UNCHANGED Visuals!abstractVars
    <3>1. w \in Worker /\ w.context # Absent
      BY <2>a DEF TypeOK, Worker
    <3>2. IntentMatches(w) => /\ ~ Promoted /\ intentGeneration # 0
                              /\ w.generation = intentGeneration /\ w.context = artworkContext
      BY <2>a, <3>1 DEF IntentMatches, IntentInv, WorkersBelong, Worker, Generation
    <3>3. CASE BeginAttempt(w) \/ StaleWorkerEnds(w) \/ AttemptFailed(w)
      BY <3>3 DEF BeginAttempt, StaleWorkerEnds, AttemptFailed
    <3>4. CASE ArtworkResolved(w)
      BY <2>b, <3>1, <3>2, <3>4 DEF ArtworkResolved, PromoteVisual, Visuals!Decide
    <3>5. CASE AttemptsExhausted(w)
      BY <2>b, <3>1, <3>2, <3>5
         DEF AttemptsExhausted, PromoteVisual, Visuals!Decide, Visuals!LoseSource
    <3> QED
      BY <2>6, <3>3, <3>4, <3>5 DEF WorkerStep
  <2>7. ASSUME NEW l \in lookups, LookupStep(l) PROVE UNCHANGED Visuals!abstractVars
    BY <2>7 DEF LookupStep, LookupDropped, LookupDone, artworkVars
  <2>8. ASSUME NEW c \in Subscribers, SubscriberStep(c) PROVE UNCHANGED Visuals!abstractVars
    BY <2>8 DEF SubscriberStep, Subscribe, Unsubscribe, TakeUpdate, artworkVars
  <2>9. CASE UNCHANGED vars
    BY <2>9 DEF vars, artworkVars
  <2> QED
    BY <2>1, <2>2, <2>3, <2>4, <2>5, <2>6, <2>7, <2>8, <2>9
       DEF Next, OnBackendState, Visuals!Next
<1> QED
  BY <1>1, <1>2, Inductive, PTL DEF Spec, ImplementsVisualIntents, Visuals!Spec

(* The fallback is published on evidence only: the track is being reported *)
(* and has no URL, or one whose last attempt failed.                       *)
THEOREM FallbackNeedsEvidence == Spec => FallbackIsAuthoritative
<1>1. IInv /\ [Next]_vars => [FallbackHasEvidence]_vars
  <2> SUFFICES ASSUME IInv, [Next]_vars, visual' # visual, visual'.source = Fallback
               PROVE  FallbackHasEvidence
    BY DEF FallbackHasEvidence
  <2>a. TypeOK /\ IntentInv
    BY DEF IInv, TypeInv
  <2>1. ASSUME NEW s \in Snapshots, OnBackendState(s) PROVE FALSE
    BY <2>1 DEF OnBackendState, EmptySnapshot, NewIntent, SourceSnapshot, SourcelessSnapshot, Accept
  <2>2. CASE GraceDeadline
    <3>1. graceTask # Absent /\ artworkContext = Absent /\ stateTrackKey = trackKey
      BY <2>2 DEF GraceDeadline
    <3>2. trackKey \in Key /\ snapshot.url \in Urls \cup {Absent}
      BY <2>a, <3>1 DEF IntentInv, GraceBelongs, TypeOK, Grace, Snapshot
    <3>3. snapshot.url # Absent => [url |-> snapshot.url, key |-> trackKey] \in Context
      BY <3>2 DEF Context
    <3>4. snapshot.url = Absent
      BY <2>a, <3>1, <3>3 DEF IntentInv, ContextFollowsUrl
    <3> QED
      BY <3>1, <3>4 DEF FallbackHasEvidence
  <2>3. ASSUME NEW w \in workers, WorkerStep(w) PROVE FallbackHasEvidence
    <3>1. w.context # Fallback
      BY <2>a DEF TypeOK, Worker
    <3>2. ~ ArtworkResolved(w)
      BY <3>1 DEF ArtworkResolved, PromoteVisual
    <3>3. AttemptsExhausted(w)
      BY <2>3, <3>2 DEF WorkerStep, BeginAttempt, StaleWorkerEnds, AttemptFailed
    <3>4. /\ snapshot.url # Absent /\ stateTrackKey = w.context.key /\ w.context.key = trackKey
          /\ w.context = artworkContext /\ w.attempt = MaxAttempts
      BY <3>3 DEF AttemptsExhausted, IntentMatches, InMetadataGap
    <3> QED
      BY <3>4 DEF FallbackHasEvidence
  <2>4. ASSUME NEW l \in lookups, LookupStep(l) PROVE FALSE
    BY <2>4 DEF LookupStep, LookupDropped, LookupDone
  <2>5. ASSUME NEW c \in Subscribers, SubscriberStep(c) PROVE FALSE
    BY <2>5 DEF SubscriberStep, Subscribe, Unsubscribe, TakeUpdate
  <2>6. CASE UNCHANGED vars
    BY <2>6 DEF vars
  <2> QED
    BY <2>1, <2>2, <2>3, <2>4, <2>5, <2>6 DEF Next
<1> QED
  BY <1>1, Inductive, PTL DEF Spec, FallbackIsAuthoritative

(* A subscriber's queue is empty or holds the newest published state.      *)
THEOREM MailboxIsNewest == Spec => []MailboxHoldsNewest
<1>1. Init => MailboxHoldsNewest
  BY DEF Init, MailboxHoldsNewest
<1>2. MailboxHoldsNewest /\ Broadcast => MailboxHoldsNewest'
  BY DEF MailboxHoldsNewest, Broadcast
<1>3. MailboxHoldsNewest /\ UNCHANGED <<mailbox, snapshot, visual, lyricsDocument>> =>
        MailboxHoldsNewest'
  BY DEF MailboxHoldsNewest, State
<1>4. IInv /\ MailboxHoldsNewest /\ [Next]_vars => MailboxHoldsNewest'
  <2> SUFFICES ASSUME IInv, MailboxHoldsNewest, [Next]_vars PROVE MailboxHoldsNewest'
    OBVIOUS
  <2>1. ASSUME NEW s \in Snapshots, OnBackendState(s) PROVE Broadcast
    BY <2>1 DEF OnBackendState, EmptySnapshot, NewIntent, SourceSnapshot, SourcelessSnapshot, Accept
  <2>2. CASE GraceDeadline
    BY <1>2, <1>3, <2>2 DEF GraceDeadline, PromoteVisual, lyricsVars
  <2>3. ASSUME NEW w \in workers, WorkerStep(w) PROVE MailboxHoldsNewest'
    BY <1>2, <1>3, <2>3
       DEF WorkerStep, BeginAttempt, StaleWorkerEnds, ArtworkResolved, AttemptFailed,
           AttemptsExhausted, PromoteVisual, lyricsVars
  <2>4. ASSUME NEW l \in lookups, LookupStep(l) PROVE MailboxHoldsNewest'
    BY <1>2, <1>3, <2>4 DEF LookupStep, LookupDropped, LookupDone
  <2>5. ASSUME NEW c \in Subscribers, SubscriberStep(c) PROVE MailboxHoldsNewest'
    <3>1. State' = State
      BY <2>5 DEF SubscriberStep, Subscribe, Unsubscribe, TakeUpdate, State, lyricsVars
    <3>2. DOMAIN mailbox = Subscribers
      BY DEF IInv, TypeInv, TypeOK
    <3>3. mailbox' = [mailbox EXCEPT ![c] = <<>>] \/ mailbox' = [mailbox EXCEPT ![c] = Absent]
      BY <2>5 DEF SubscriberStep, Subscribe, Unsubscribe, TakeUpdate
    <3>4. \A d \in Subscribers : mailbox'[d] \in {mailbox[d], <<>>, Absent}
      BY <3>2, <3>3
    <3> QED
      BY <3>1, <3>4 DEF MailboxHoldsNewest
  <2>6. CASE UNCHANGED vars
    BY <1>3, <2>6 DEF vars, lyricsVars
  <2> QED
    BY <1>2, <2>1, <2>2, <2>3, <2>4, <2>5, <2>6 DEF Next
<1> QED
  BY <1>1, <1>4, Inductive, PTL DEF Spec

----------------------------------------------------------------------------
(* Lyrics.                                                                 *)

(* The document is of the track that lyrics were last begun for.           *)
DocumentBelongs == lyricsDocument.key = lyricsTrackKey

LEMMA DocumentStep == DocumentBelongs /\ [Next]_vars => DocumentBelongs'
<1> SUFFICES ASSUME DocumentBelongs, [Next]_vars PROVE DocumentBelongs'
  OBVIOUS
<1> USE DEF DocumentBelongs
<1>1. UNCHANGED lyricsVars => DocumentBelongs'
  BY DEF lyricsVars
<1>2. ASSUME NEW s, NEW key, Accept(s, key) PROVE DocumentBelongs'
  <2>1. CASE key = lyricsTrackKey /\ UNCHANGED lyricsVars
    BY <1>1, <2>1
  <2>2. CASE BeginLyrics(key, s)
    <3>1. lyricsTrackKey' = key
      BY <2>2 DEF BeginLyrics
    <3>2. lyricsDocument'.key = key
      BY <2>2 DEF BeginLyrics
    <3> QED
      BY <3>1, <3>2
  <2> QED
    BY <1>2, <2>1, <2>2 DEF Accept
<1>3. ASSUME NEW s \in Snapshots, OnBackendState(s) PROVE DocumentBelongs'
  BY <1>1, <1>2, <1>3
     DEF OnBackendState, EmptySnapshot, NewIntent, SourceSnapshot, SourcelessSnapshot
<1>4. CASE GraceDeadline
  BY <1>1, <1>4 DEF GraceDeadline
<1>5. ASSUME NEW w \in workers, WorkerStep(w) PROVE DocumentBelongs'
  BY <1>1, <1>5 DEF WorkerStep, BeginAttempt, StaleWorkerEnds, ArtworkResolved, AttemptFailed,
     AttemptsExhausted
<1>6. ASSUME NEW l \in lookups, LookupStep(l) PROVE DocumentBelongs'
  <2>1. CASE LookupDropped(l)
    BY <2>1 DEF LookupDropped
  <2>2. ASSUME NEW status \in {"synced", "unavailable"}, LookupDone(l, status)
        PROVE  DocumentBelongs'
    BY <2>2 DEF LookupDone, LookupMatches
  <2> QED
    BY <1>6, <2>1, <2>2 DEF LookupStep
<1>7. ASSUME NEW c \in Subscribers, SubscriberStep(c) PROVE DocumentBelongs'
  BY <1>1, <1>7 DEF SubscriberStep, Subscribe, Unsubscribe, TakeUpdate
<1>8. CASE UNCHANGED vars
  BY <1>1, <1>8 DEF vars
<1> QED
  BY <1>3, <1>4, <1>5, <1>6, <1>7, <1>8 DEF Next

(* Whatever lookups of earlier tracks find, and however late, the          *)
(* published lyrics are those of the track of the current intent.          *)
THEOREM LyricsAreOfTheTrack == Spec => []LyricsBelongToTrack
<1>1. Init => DocumentBelongs
  BY DEF Init, DocumentBelongs
<1>2. IInv /\ DocumentBelongs => LyricsBelongToTrack
  BY DEF IInv, IntentInv, TracksAgree, DocumentBelongs, LyricsBelongToTrack
<1> QED
  BY <1>1, <1>2, DocumentStep, Inductive, PTL DEF Spec

----------------------------------------------------------------------------
(* Keys and metadata.                                                      *)

(* What is known of "part" is known of "all", and equal.                   *)
Extends(all, part) == \A f \in Fields : part[f] # Absent => all[f] = part[f]

LEMMA ExtensionContradicts ==
  ASSUME NEW all, NEW part, NEW new, Extends(all, part), ~ Contradicts(all, new)
  PROVE  ~ Contradicts(part, new)
BY DEF Extends, Contradicts

LEMMA MergedExtends ==
  ASSUME NEW old, NEW new, NEW part, Extends(old, part),
         new = NoMetadata \/ ~ Contradicts(old, new)
  PROVE  Extends(Merged(old, new), part)
<1> SUFFICES ASSUME NEW f \in Fields, part[f] # Absent PROVE Merged(old, new)[f] = part[f]
  BY DEF Extends
<1>1. old[f] = part[f]
  BY DEF Extends
<1>2. new[f] = Absent \/ new[f] = old[f]
  BY <1>1 DEF NoMetadata, Contradicts
<1> QED
  BY <1>1, <1>2 DEF Merged

(* What an identified track is known by includes what its key says.        *)
KeyIsRemembered(id) == id.key # Absent => Extends(id.metadata, id.key.metadata)

LEMMA IdentifyRemembers ==
  ASSUME NEW id \in Identity, KeyIsRemembered(id), NEW s \in Snapshot, NEW promoted \in BOOLEAN
  PROVE  KeyIsRemembered(Identify(id, s, promoted))
<1> DEFINE new == Identify(id, s, promoted)
<1>1. CASE s.track = Absent
  BY <1>1 DEF Identify
<1>2. CASE s.track # Absent /\ Reidentifies(id, s, promoted)
  <2>1. new.metadata = s.metadata /\ new.key = IdKey(s) /\ IdKey(s).metadata = s.metadata
    BY <1>2 DEF Identify, IdKey
  <2>2. IdKey(s) # Absent
    BY <1>2, IdKeyType
  <2>3. Extends(s.metadata, s.metadata)
    BY DEF Extends
  <2> HIDE DEF new
  <2> QED
    BY <2>1, <2>2, <2>3 DEF KeyIsRemembered, new
<1>3. CASE s.track # Absent /\ ~ Reidentifies(id, s, promoted)
  <2>1. new.key = id.key /\ new.metadata = Merged(id.metadata, s.metadata)
    BY <1>3 DEF Identify, Identity
  <2>2. s.metadata = NoMetadata \/ ~ Contradicts(id.metadata, s.metadata)
    BY <1>3 DEF Reidentifies
  <2>3. id.key # Absent => Extends(Merged(id.metadata, s.metadata), id.key.metadata)
    BY <2>2, MergedExtends DEF KeyIsRemembered
  <2> HIDE DEF new
  <2> QED
    BY <2>1, <2>3 DEF KeyIsRemembered, new
<1> QED
  BY <1>1, <1>2, <1>3

(* The key that a snapshot is given says nothing that it denies.           *)
LEMMA KeyFitsSnapshot ==
  ASSUME NEW id \in Identity, KeyIsRemembered(id), NEW s \in Snapshot, NEW promoted \in BOOLEAN,
         TrackKeyFor(id, s, promoted) # Absent
  PROVE  ~ Contradicts(TrackKeyFor(id, s, promoted).metadata, s.metadata)
<1>1. ~ Contradicts(s.metadata, s.metadata) /\ ~ Contradicts(NoMetadata, s.metadata)
  BY DEF Contradicts, NoMetadata
<1>2. CASE s.track = Absent
  <2>1. MetadataKey(s).metadata = s.metadata /\ UrlKey(s).metadata = NoMetadata
    BY DEF MetadataKey, UrlKey
  <2> QED
    BY <1>1, <1>2, <2>1 DEF TrackKeyFor
<1>3. CASE s.track # Absent /\ Reidentifies(id, s, promoted)
  <2>1. TrackKeyFor(id, s, promoted).metadata = s.metadata
    BY <1>3 DEF TrackKeyFor, Identify, IdKey
  <2> QED
    BY <1>1, <2>1
<1>4. CASE s.track # Absent /\ ~ Reidentifies(id, s, promoted)
  <2>1. TrackKeyFor(id, s, promoted) = id.key
    BY <1>4 DEF TrackKeyFor, Identify, Identity
  <2>2. Extends(id.metadata, id.key.metadata)
    BY <2>1 DEF KeyIsRemembered
  <2>3. CASE s.metadata = NoMetadata
    BY <2>1, <2>3 DEF Contradicts, NoMetadata
  <2>4. CASE ~ Contradicts(id.metadata, s.metadata)
    BY <2>1, <2>2, <2>4, ExtensionContradicts
  <2> QED
    BY <1>4, <2>3, <2>4 DEF Reidentifies
<1> QED
  BY <1>2, <1>3, <1>4

KeyInv == KeyIsRemembered(identity) /\ TrackKeyFitsMetadata

LEMMA KeyStep == IInv /\ KeyInv /\ [Next]_vars => KeyInv'
<1> SUFFICES ASSUME TypeOK, KeyInv, [Next]_vars PROVE KeyInv'
  BY DEF IInv, TypeInv
<1>1. UNCHANGED <<identity, stateTrackKey, snapshot>> => KeyInv'
  BY DEF KeyInv, KeyIsRemembered, TrackKeyFitsMetadata
<1>2. ASSUME NEW s \in Snapshots, OnBackendState(s) PROVE KeyInv'
  <2> DEFINE key == TrackKeyFor(identity, s, Promoted)
  <2>1. /\ identity' = Identify(identity, s, Promoted)
        /\ stateTrackKey' = key /\ snapshot' = s
    BY <1>2 DEF OnBackendState, EmptySnapshot, NewIntent, SourceSnapshot, SourcelessSnapshot,
       Accept
  <2>2. identity \in Identity /\ KeyIsRemembered(identity) /\ Promoted \in BOOLEAN
    BY PromotedIsBoolean DEF TypeOK, KeyInv
  <2>3. KeyIsRemembered(Identify(identity, s, Promoted))
    BY <2>2, IdentifyRemembers
  <2>4. key # Absent => ~ Contradicts(key.metadata, s.metadata)
    BY <2>2, KeyFitsSnapshot
  <2> HIDE DEF key
  <2>5. KeyIsRemembered(identity')
    BY <2>1, <2>3
  <2> QED
    BY <2>1, <2>4, <2>5 DEF KeyInv, KeyIsRemembered, TrackKeyFitsMetadata
<1>3. CASE GraceDeadline
  BY <1>1, <1>3 DEF GraceDeadline, identityVars
<1>4. ASSUME NEW w \in workers, WorkerStep(w) PROVE KeyInv'
  BY <1>1, <1>4 DEF WorkerStep, BeginAttempt, StaleWorkerEnds, ArtworkResolved, AttemptFailed,
     AttemptsExhausted, identityVars
<1>5. ASSUME NEW l \in lookups, LookupStep(l) PROVE KeyInv'
  BY <1>1, <1>5 DEF LookupStep, LookupDropped, LookupDone, identityVars
<1>6. ASSUME NEW c \in Subscribers, SubscriberStep(c) PROVE KeyInv'
  BY <1>1, <1>6 DEF SubscriberStep, Subscribe, Unsubscribe, TakeUpdate, identityVars
<1>7. CASE UNCHANGED vars
  BY <1>1, <1>7 DEF vars, identityVars
<1> QED
  BY <1>2, <1>3, <1>4, <1>5, <1>6, <1>7 DEF Next

(* The published metadata never contradicts what the track key was made    *)
(* from: a reused track id gets a new key, late metadata only completes    *)
(* the old one.                                                            *)
THEOREM KeysFitMetadata == Spec => []TrackKeyFitsMetadata
<1>1. Init => KeyInv
  BY DEF Init, NoIdentity, KeyInv, KeyIsRemembered, TrackKeyFitsMetadata
<1>2. KeyInv => TrackKeyFitsMetadata
  BY DEF KeyInv
<1> QED
  BY <1>1, <1>2, KeyStep, Inductive, PTL DEF Spec
=============================================================================
