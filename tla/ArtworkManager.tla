--------------------------- MODULE ArtworkManager ---------------------------
(***************************************************************************)
(* The firmware's artwork task (firmware/src/network/artwork_manager.cpp): *)
(* it takes requests from a queue of length one, looks in the cache,       *)
(* downloads, prunes the cache and publishes the result.                   *)
(*                                                                         *)
(* The application task owns covers too: the one on display and one staged *)
(* for a transition.  It tells the manager which (SetArtworkProtection),   *)
(* and takes over a published cover by acknowledging it                    *)
(* (AcknowledgeResult).  The two tasks run on different cores.  What       *)
(* either does under artworkProtectionMux_ or with one queue or file       *)
(* operation is one action.                                                *)
(***************************************************************************)
EXTENDS ArtworkMessages

VARIABLES
  requestQueue,   (* artworkQueue_, length one, overwritten                *)
  resultQueue,    (* artworkResultQueue_, length one, overwritten          *)
  protection,     (* protectedActiveArtworkId_, protectedStagedArtworkId_  *)
  published,      (* the published result awaiting acknowledgement         *)
  phase,          (* where the task is                                     *)
  request,        (* the request it works on                               *)
  keep,           (* pruneArtworkCache: the covers not to be removed       *)
  notified        (* the task's notification                               *)

managerVars == <<files, requestQueue, resultQueue, protection, published, phase, request, keep,
                 notified>>

Phases == {"idle", "checking", "removing", "allocating", "pruning", "writing", "committing",
           "renaming", "cleaning", "publishing", "sending", "waiting"}

ManagerInit ==
  /\ requestQueue = None
  /\ resultQueue = None
  /\ protection = [active |-> None, staged |-> None]
  /\ published = None
  /\ phase = "idle"
  /\ request = None
  /\ keep = {}
  /\ notified = FALSE

Protected ==
  ({protection.active, protection.staged} \cup
   (IF published = None THEN {} ELSE {published.id})) \ {None}

----------------------------------------------------------------------------
(* The task.                                                               *)

TakeRequest ==
  /\ phase = "idle"
  /\ requestQueue # None
  /\ request' = requestQueue
  /\ requestQueue' = None
  /\ phase' = "checking"
  /\ UNCHANGED <<files, resultQueue, protection, published, keep, notified>>

(* Slip: everything but the target goes.                                   *)
KeepsTargetOnly(next) ==
  /\ keep' = {request.id}
  /\ phase' = next
  /\ UNCHANGED <<requestQueue, resultQueue, protection, published, request, notified>>

(* The beginning of pruneArtworkCache.                                     *)
BeginPruning(next) ==
  /\ keep' = Protected \cup {request.id}
  /\ phase' = next
  /\ UNCHANGED <<requestQueue, resultQueue, protection, published, request, notified>>

(* The cover is cached and its hash is right.                              *)
FindCached ==
  /\ phase = "checking"
  /\ files[request.id] = "valid"
  /\ UNCHANGED files
  /\ BeginPruning("cleaning")

(* The host answered with an image of acceptable type and length.          *)
AcceptResponse ==
  /\ phase = "checking"
  /\ files[request.id] # "valid"
  /\ phase' = IF files[request.id] = "corrupt" /\ request.id \notin Protected
              THEN "removing" ELSE "allocating"
  /\ UNCHANGED <<files, requestQueue, resultQueue, protection, published, request, keep, notified>>

(* A corrupt file that nobody reads goes before the space is needed.       *)
RemoveCorrupt ==
  /\ phase = "removing"
  /\ files' = [files EXCEPT ![request.id] = "missing"]
  /\ phase' = "allocating"
  /\ UNCHANGED <<requestQueue, resultQueue, protection, published, request, keep, notified>>

Allocate ==
  /\ phase = "allocating"
  /\ UNCHANGED files
  /\ BeginPruning("pruning")

Prunable == OnFlash \ keep

(* pruneArtworkCache removes one file after the other.                     *)
Prune(c) ==
  /\ phase \in {"pruning", "cleaning"}
  /\ c \in Prunable
  /\ files' = [files EXCEPT ![c] = "missing"]
  /\ UNCHANGED <<requestQueue, resultQueue, protection, published, phase, request, keep, notified>>

PruneEnds ==
  /\ phase \in {"pruning", "cleaning"}
  /\ Prunable = {}
  /\ phase' = IF phase = "pruning" THEN "writing" ELSE "publishing"
  /\ keep' = {}
  /\ UNCHANGED <<files, requestQueue, resultQueue, protection, published, request, notified>>

(* The temporary file is complete and its hash was read back.              *)
Downloaded ==
  /\ phase = "writing"
  /\ phase' = "committing"
  /\ UNCHANGED <<files, requestQueue, resultQueue, protection, published, request, keep, notified>>

(* A corrupt file still there is protected; it gives way only now.         *)
RemoveDestination ==
  /\ phase = "committing"
  /\ files' = [files EXCEPT ![request.id] = "missing"]
  /\ phase' = "renaming"
  /\ UNCHANGED <<requestQueue, resultQueue, protection, published, request, keep, notified>>

Rename ==
  /\ phase = "renaming"
  /\ files' = [files EXCEPT ![request.id] = "valid"]
  /\ BeginPruning("cleaning")

(* Any of the error returns of download: offline, rejected, no space, an   *)
(* incomplete transfer, a wrong hash, a failed remove or rename.           *)
DownloadFails ==
  /\ phase \in {"checking", "removing", "writing", "committing", "renaming"}
  /\ phase = "checking" => files[request.id] # "valid"
  /\ resultQueue' = [visual |-> request, success |-> FALSE]
  /\ phase' = "idle"
  /\ request' = None
  /\ UNCHANGED <<files, requestQueue, protection, published, keep, notified>>

(* The result is protected before anybody can see it.                      *)
Publish ==
  /\ phase = "publishing"
  /\ published' = request
  /\ phase' = "sending"
  /\ UNCHANGED <<files, requestQueue, resultQueue, protection, request, keep, notified>>

SendResult ==
  /\ phase = "sending"
  /\ resultQueue' = [visual |-> request, success |-> TRUE]
  /\ phase' = "waiting"
  /\ UNCHANGED <<files, requestQueue, protection, published, request, keep, notified>>

(* ulTaskNotifyTake returned.                                              *)
Wake ==
  /\ phase = "waiting"
  /\ notified
  /\ notified' = FALSE
  /\ phase' = IF published = None THEN "idle" ELSE "waiting"
  /\ request' = IF published = None THEN None ELSE request
  /\ UNCHANGED <<files, requestQueue, resultQueue, protection, published, keep>>

ArtworkTask ==
  \/ TakeRequest \/ FindCached \/ AcceptResponse \/ RemoveCorrupt \/ Allocate
  \/ (\E c \in Covers : Prune(c)) \/ PruneEnds
  \/ Downloaded \/ RemoveDestination \/ Rename \/ DownloadFails
  \/ Publish \/ SendResult \/ Wake

----------------------------------------------------------------------------
(* Operations of the other tasks.                                          *)

RequestArtwork(v) ==
  /\ requestQueue' = v
  /\ UNCHANGED <<files, resultQueue, protection, published, phase, request, keep, notified>>

TakeResult ==
  /\ resultQueue # None
  /\ resultQueue' = None
  /\ UNCHANGED <<files, requestQueue, protection, published, phase, request, keep, notified>>

SetArtworkProtection(activeId, stagedId) ==
  /\ protection' = [active |-> activeId, staged |-> stagedId]
  /\ UNCHANGED <<files, requestQueue, resultQueue, published, phase, request, keep, notified>>

(* Slip: nobody wakes the task.                                            *)
AcknowledgeSilently(r, activeId, stagedId) ==
  /\ protection' = [active |-> activeId, staged |-> stagedId]
  /\ published' = None
  /\ UNCHANGED <<files, requestQueue, resultQueue, phase, request, keep, notified>>

(* Protection goes from the published result to the covers the display     *)
(* holds, in one critical section, and the task is told to go on.          *)
AcknowledgeResult(r, activeId, stagedId) ==
  /\ IF published # None /\ published = r.visual
     THEN /\ protection' = [active |-> activeId, staged |-> stagedId]
          /\ published' = None
          /\ notified' = TRUE
     ELSE UNCHANGED <<protection, published, notified>>
  /\ UNCHANGED <<files, requestQueue, resultQueue, phase, request, keep>>

----------------------------------------------------------------------------

ManagerTypeOK ==
  /\ files \in [Covers -> {"missing", "valid", "corrupt"}]
  /\ requestQueue \in Visual \cup {None}
  /\ resultQueue \in Result \cup {None}
  /\ protection \in [active : Covers \cup {None}, staged : Covers \cup {None}]
  /\ published \in Visual \cup {None}
  /\ phase \in Phases
  /\ request \in Visual \cup {None}
  /\ keep \subseteq Covers
  /\ notified \in BOOLEAN
============================================================================
