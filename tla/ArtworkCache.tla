---------------------------- MODULE ArtworkCache ----------------------------
(***************************************************************************)
(* The host's cover cache (artwork.py): covers by the hash of their content, *)
(* and a mapping from each source, a URL and the track it is asked for, to   *)
(* the cover it rendered to.  MediaService has one call of resolve() at a    *)
(* time and cancels it when the track changes.  Cancelling ends the task and *)
(* releases its locks, but not the thread it waits for, which runs on as a   *)
(* stray; so the locks never make anybody wait, and are left out.            *)
(*                                                                         *)
(* All covers have one size here, and the limit of 2048 mappings and the     *)
(* palettes are left out: a palette is rebuilt when it is missing, and that  *)
(* this may fail is part of NotTouched.                                     *)
(***************************************************************************)
EXTENDS Naturals, Sequences, FiniteSets, SequencesExt

CONSTANTS
    Sources,       \* what is asked for
    Covers,        \* what sources render to
    NoCover,
    Room,          \* artwork_cache_bytes, in covers
    MaxStrays      \* bound of this model: threads of cancelled calls

ASSUME CacheAssumption ==
    /\ Room \in Nat \ {0} /\ MaxStrays \in Nat
    /\ NoCover \notin Covers

VARIABLES
    jpegs,         \* the cover files, the one touched longest ago first
    corrupt,       \* those whose content is not what their name says
    mapping,       \* the mapping files: source -> cover
    job,           \* what the call does, or Nobody
    strays,        \* what the threads of cancelled calls still do
    returned,      \* the cover that the last call returned, until the next one
    quiet          \* from now on nothing disturbs: the cases of liveness

files == <<jpegs, corrupt, mapping>>
cacheVars == <<files, job, strays, returned, quiet>>

(* The threads' functions, and fetch, which is on the event loop. *)
Reading == {"look", "touch", "discard"}
Storing == {"write", "commit"}
Evicting == {"evict", "sweep"}
Job == [source : Sources, at : Reading \cup {"fetch"} \cup Storing \cup Evicting,
        again : BOOLEAN, cover : Covers \cup {NoCover}]
Nobody == [at |-> "nobody"]

OnDisk(c) == \E n \in DOMAIN jpegs : jpegs[n] = c
Served(c) == OnDisk(c) /\ c \notin corrupt
AllBut(c) == IF OnDisk(c) THEN RemoveAt(jpegs, CHOOSE n \in DOMAIN jpegs : jpegs[n] = c) ELSE jpegs

CacheInit ==
    /\ jpegs = <<>> /\ corrupt = {} /\ mapping = [s \in Sources |-> NoCover]
    /\ job = Nobody /\ strays = {} /\ returned = NoCover /\ quiet = FALSE

(* path_for and the other places that discard a cover that fails validation. *)
Unlink(c) == jpegs' = AllBut(c) /\ corrupt' = corrupt \ {c}
Validate(c) == IF c \in corrupt THEN Unlink(c) ELSE UNCHANGED <<jpegs, corrupt>>
-----------------------------------------------------------------------------
Go(j, at) == [j EXCEPT !.at = at]
Return(c) == job' = Nobody /\ returned' = c

(* When the thread's function has ended resolve() goes on. *)
CallGoesOn(k) ==
    CASE k.at \in {"hit", "done"} -> Return(k.cover)
      [] k.at = "failed" -> Return(NoCover)
      [] k.at = "stored" -> job' = Go(k, "evict") /\ UNCHANGED returned
      [] OTHER -> job' = k /\ UNCHANGED returned
(* A stray ends with its function. *)
StrayEnds(j, k) ==
    strays' = IF k.at \in {"hit", "fetch", "stored", "done", "failed"} \/ (k.at = "look" /\ k.again)
              THEN strays \ {j} ELSE (strays \ {j}) \cup {k}
(* Thread j, of the call or a stray, has become k. *)
Then(who, j, k) == IF who = "call" THEN CallGoesOn(k) ELSE StrayEnds(j, k)

(* The steps of thread j.  First _read_cached, which resolve() calls before   *)
(* and after it has taken its lock.                                         *)
Miss(j) == IF j.again THEN Go(j, "fetch") ELSE [Go(j, "look") EXCEPT !.again = TRUE]

(* No mapping, one older than a day, one without its cover, or a refresh     *)
(* that is forced.                                                          *)
NotFound(j, who) ==
    /\ j.at = "look"
    /\ \/ UNCHANGED <<jpegs, corrupt>>
       \/ mapping[j.source] # NoCover /\ ~Served(mapping[j.source]) /\ Validate(mapping[j.source])
    /\ Then(who, j, Miss(j))
    /\ UNCHANGED mapping
Found(j, who) ==
    /\ j.at = "look" /\ mapping[j.source] # NoCover /\ Served(mapping[j.source])
    /\ Then(who, j, [Go(j, "touch") EXCEPT !.cover = mapping[j.source]])
    /\ UNCHANGED files

(* The hit counts as use of the cover, which is not read again. *)
Touched(j, who) ==
    /\ j.at = "touch" /\ OnDisk(j.cover) /\ mapping[j.source] # NoCover
    /\ jpegs' = Append(AllBut(j.cover), j.cover)
    /\ Then(who, j, Go(j, "hit"))
    /\ UNCHANGED <<corrupt, mapping>>
(* A file has gone, or the palette's cannot be written: what the mapping     *)
(* names now is discarded.                                                  *)
NotTouched(j, who) ==
    /\ j.at = "touch"
    /\ OnDisk(j.cover) /\ mapping[j.source] # NoCover => ~quiet
    /\ \/ jpegs' = jpegs
       \/ OnDisk(j.cover) /\ jpegs' = Append(AllBut(j.cover), j.cover)
    /\ Then(who, j, [Go(j, "discard") EXCEPT !.cover = mapping[j.source]])
    /\ UNCHANGED <<corrupt, mapping>>
Discard(j, who) ==
    /\ j.at = "discard"
    /\ IF j.cover = NoCover THEN UNCHANGED <<jpegs, corrupt>> ELSE Unlink(j.cover)
    /\ mapping' = [mapping EXCEPT ![j.source] = NoCover]
    /\ Then(who, j, Miss(j))

(* _store: a cover that is there is not written again.  The mapping is last. *)
WriteCover(j, who) ==
    /\ j.at = "write"
    /\ jpegs' = IF Served(j.cover) THEN jpegs ELSE Append(AllBut(j.cover), j.cover)
    /\ corrupt' = corrupt \ {j.cover}
    /\ Then(who, j, Go(j, "commit"))
    /\ UNCHANGED mapping
CommitMapping(j, who) ==
    /\ j.at = "commit"
    /\ mapping' = [mapping EXCEPT ![j.source] = j.cover]
    /\ Then(who, j, Go(j, "stored"))
    /\ UNCHANGED <<jpegs, corrupt>>

(* A slip: the limit itself is too much. *)
ExcessOverfull == Len(jpegs) + 1 - Room
Excess == Len(jpegs) - Room
(* _evict: the oldest covers, then the mappings that have lost theirs. *)
Evict(j, who) ==
    /\ j.at = "evict"
    /\ jpegs' = IF Excess > 0 THEN SubSeq(jpegs, Excess + 1, Len(jpegs)) ELSE jpegs
    /\ corrupt' = corrupt \cap Range(jpegs')
    /\ Then(who, j, Go(j, "sweep"))
    /\ UNCHANGED mapping
Sweep(j, who) ==
    /\ j.at = "sweep"
    /\ mapping' = [s \in Sources |-> IF OnDisk(mapping[s]) THEN mapping[s] ELSE NoCover]
    /\ Then(who, j, Go(j, "done"))
    /\ UNCHANGED <<jpegs, corrupt>>

(* A file cannot be written, or one that _evict has listed has gone when it  *)
(* asks for its size.                                                       *)
Raises(j, who) ==
    /\ \/ j.at = "write" /\ ~quiet /\ Validate(j.cover)
       \/ j.at = "commit" /\ ~quiet /\ UNCHANGED <<jpegs, corrupt>>
       \/ /\ j.at = "evict" /\ (~quiet \/ strays # {} \/ corrupt # {})
          /\ UNCHANGED <<jpegs, corrupt>>
    /\ Then(who, j, Go(j, "failed"))
    /\ UNCHANGED mapping

Works(j, who) ==
    \/ NotFound(j, who) \/ Found(j, who) \/ Touched(j, who) \/ NotTouched(j, who)
    \/ Discard(j, who) \/ WriteCover(j, who) \/ CommitMapping(j, who)
    \/ Evict(j, who) \/ Sweep(j, who) \/ Raises(j, who)
-----------------------------------------------------------------------------
(* The call. *)
Resolve(s) ==
    /\ job = Nobody
    /\ job' = [source |-> s, at |-> "look", again |-> FALSE, cover |-> NoCover]
    /\ returned' = NoCover
    /\ UNCHANGED <<files, strays, quiet>>

CallWorks == job # Nobody /\ Works(job, "call") /\ UNCHANGED <<strays, quiet>>

(* _fetch and _transform: what a source shows may change. *)
Fetch(c) ==
    /\ job # Nobody /\ job.at = "fetch"
    /\ job' = [Go(job, "write") EXCEPT !.cover = c]
    /\ UNCHANGED <<files, strays, returned, quiet>>
FetchFails ==
    /\ job # Nobody /\ job.at = "fetch" /\ Return(NoCover)
    /\ UNCHANGED <<files, strays, quiet>>

(* The service cancels the call: a thread that has begun runs on. *)
Cancel ==
    /\ ~quiet /\ job # Nobody
    /\ \/ strays' = strays
       \/ job.at # "fetch" /\ Cardinality(strays) < MaxStrays /\ strays' = strays \cup {job}
    /\ strays' = strays => job.at \in {"look", "fetch", "write", "evict"}
    /\ job' = Nobody
    /\ UNCHANGED <<files, returned, quiet>>

StrayWorks(j) ==
    /\ Works(j, "stray")
    /\ UNCHANGED <<job, returned, quiet>>

(* A device asks for a cover. *)
Serve(c) == OnDisk(c) /\ Validate(c) /\ UNCHANGED <<mapping, job, strays, returned, quiet>>

Corrupts(c) ==
    /\ ~quiet /\ Served(c) /\ corrupt' = corrupt \cup {c}
    /\ UNCHANGED <<jpegs, mapping, job, strays, returned, quiet>>

(* The host ends, at any time, and starts again. *)
Crash ==
    /\ ~quiet
    /\ job' = Nobody /\ strays' = {} /\ returned' = NoCover
    /\ UNCHANGED <<files, quiet>>

CalmsDown ==
    /\ ~quiet /\ job = Nobody /\ returned = NoCover
    /\ quiet' = TRUE
    /\ UNCHANGED <<files, job, strays, returned>>

CacheNext ==
    \/ \E s \in Sources : Resolve(s)
    \/ CallWorks
    \/ \E c \in Covers : Fetch(c) \/ Serve(c) \/ Corrupts(c)
    \/ FetchFails
    \/ Cancel \/ Crash \/ CalmsDown
    \/ \E j \in strays : StrayWorks(j)

CacheSpec == CacheInit /\ [][CacheNext]_cacheVars
-----------------------------------------------------------------------------
CacheTypeOK ==
    /\ jpegs \in Seq(Covers) /\ corrupt \subseteq Range(jpegs)
    /\ Len(jpegs) = Cardinality(Range(jpegs))
    /\ mapping \in [Sources -> Covers \cup {NoCover}]
    /\ job \in Job \cup {Nobody} /\ strays \subseteq Job /\ Cardinality(strays) <= MaxStrays
    /\ returned \in Covers \cup {NoCover} /\ quiet \in BOOLEAN

(* What resolve() returns is there for the device that is told of it         *)
(* (test_artwork.py:48), again and for good once nothing is cancelled,       *)
(* fails, crashes or gets corrupt any more: a cache that was left over its   *)
(* limit, without covers that are mapped, or with corrupt ones heals.        *)
ServedInTheEnd == <>quiet => <>[](returned # NoCover => Served(returned))
=============================================================================
