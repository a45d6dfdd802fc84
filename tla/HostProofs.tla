------------------------------ MODULE HostProofs ------------------------------
(***************************************************************************)
(* Proofs about the host's parts.                                          *)
(*                                                                         *)
(* MprisBackend, for every set of players and every grace, delay and       *)
(* number of failures: its type invariant, that an outage of the bus is    *)
(* bridged, and that a poll leaves a playing player on display.  Two facts *)
(* carry them: the outage has not lasted longer than the time since a poll *)
(* last succeeded, and the players left to be refreshed are clients.       *)
(*                                                                         *)
(* ArtworkCache, for every number of sources, covers and threads and every *)
(* limit: its type invariant, and that a cache which is left alone has the *)
(* cover it returned.  CacheInv says that no cover is in two files and     *)
(* that a thread has a cover where it needs one; HealInv that the cover    *)
(* which was just rendered is the newest whenever there is one too many.   *)
(*                                                                         *)
(* MCHost: a behaviour of all parts is one of each (HostParts), so that    *)
(* the theorems about them hold in its runs.                               *)
(***************************************************************************)
EXTENDS MCHost, DeviceSessionProofs, DevicePairingProofs, TLAPS

USE PlayersAssumption, BackendAssumption

BusType == busAlive \in BOOLEAN /\ bus \in BOOLEAN /\ scanDue \in BOOLEAN
ClientsType ==
  /\ names \in SUBSET Players /\ status \in [Players -> Statuses]
  /\ clients \in SUBSET Players /\ todo \in SUBSET Players
  /\ task \in Steps /\ (task = "refresh" => todo \subseteq clients)
SnapshotsType ==
  /\ DOMAIN snapshots \subseteq clients
  /\ \A p \in DOMAIN snapshots : snapshots[p] \in Statuses
FailuresType == failures \in [Players -> 0 .. MaxFailures]
DisplayType == current \in Shown /\ preferred \in Players \cup {NoPlayer}
TimeType ==
  /\ silence \in 0 .. MaxSilence /\ delay \in 1 .. MaxDelay
  /\ outage \in 0 .. MaxSilence \cup {NoPlayer}
  /\ outage = NoPlayer \/ outage <= silence

PollInv == BusType /\ ClientsType /\ SnapshotsType /\ FailuresType /\ DisplayType /\ TimeType

BackendInv == PollInv /\ answer \in {"result", "raised"}

----------------------------------------------------------------------------
(* The selection of a player.                                              *)

LEMMA FirstIsLeast ==
  ASSUME NEW S, S \subseteq Nat, S # {}
  PROVE  First(S) \in S
<1>1. \E x \in S : \A y \in S : x <= y
  BY Least
<1> QED
  BY <1>1 DEF First

LEMMA PreferredIsMember ==
  ASSUME NEW S, S \subseteq Players, S # {}, NEW previous, NEW choice
  PROVE  Prefer(S, previous, choice) \in S
BY FirstIsLeast DEF Prefer

LEMMA SelectedHasSnapshot ==
  ASSUME DOMAIN snapshots \subseteq Players
  PROVE  Selected = NoPlayer \/ Selected \in DOMAIN snapshots
<1>1. Playing(snapshots) \subseteq DOMAIN snapshots
  BY DEF Playing
<1>2. CASE DOMAIN snapshots = {}
  BY <1>2 DEF Selected, SelectActivePlayer
<1>3. CASE DOMAIN snapshots # {} /\ Playing(snapshots) # {}
  BY <1>1, <1>3, PreferredIsMember DEF Selected, SelectActivePlayer
<1>4. CASE DOMAIN snapshots # {} /\ Playing(snapshots) = {}
  BY <1>4, PreferredIsMember DEF Selected, SelectActivePlayer
<1> QED
  BY <1>2, <1>3, <1>4

(* The one that plays stays selected, unless the preferred one plays too.  *)
LEMMA SelectionIsLoyal ==
  ASSUME NEW p \in Playing(snapshots), p = current.player, Selected # p
  PROVE  Selected = preferred /\ preferred \in Playing(snapshots)
<1>1. DOMAIN snapshots # {} /\ Playing(snapshots) # {}
  BY DEF Playing
<1> QED
  BY <1>1 DEF Selected, SelectActivePlayer, Prefer

----------------------------------------------------------------------------
(* The history clock and the outage advance together.                      *)

LEMMA PassesType ==
  ASSUME TimeType, NEW d \in Nat, Passes(d)
  PROVE  /\ silence' \in 0 .. MaxSilence
         /\ outage' \in 0 .. MaxSilence \cup {NoPlayer}
         /\ outage' = NoPlayer \/ outage' <= silence'
<1>1. silence \in Nat /\ MaxSilence \in Nat /\ silence' = Lesser(silence + d, MaxSilence)
  BY DEF TimeType, Passes
<1>2. silence' \in 0 .. MaxSilence
  BY <1>1 DEF Lesser
<1>3. CASE outage = NoPlayer
  BY <1>2, <1>3 DEF Passes
<1>4. CASE outage # NoPlayer
  <2>1. outage \in Nat /\ outage <= silence /\ outage' = Lesser(outage + d, MaxSilence)
    BY <1>4 DEF TimeType, Passes
  <2>2. outage' \in 0 .. MaxSilence /\ outage' <= silence'
    BY <1>1, <2>1 DEF Lesser
  <2> QED
    BY <1>2, <2>2
<1> QED
  BY <1>3, <1>4

LEMMA EmptyIsShown == Empty \in Shown
BY DEF Empty, Shown

----------------------------------------------------------------------------
(* The poll task.                                                          *)

LEMMA ConnectBusKeeps == ASSUME PollInv, ConnectBus PROVE PollInv'
<1> USE DEF PollInv, ConnectBus, environment
<1>1. BusType' /\ DisplayType' /\ FailuresType'
  BY DEF BusType, DisplayType, FailuresType
<1>2. ClientsType' /\ SnapshotsType'
  BY DEF ClientsType, SnapshotsType, Steps
<1>3. TimeType'
  BY DEF TimeType
<1> QED
  BY <1>1, <1>2, <1>3

LEMMA PollFailsKeeps == ASSUME PollInv, PollFails PROVE PollInv'
<1> USE DEF PollInv, PollFails, Disconnected, environment
<1>1. BusType'
  BY DEF BusType
<1>2. FailuresType'
  BY DEF FailuresType
<1>3. ClientsType'
  BY DEF ClientsType, Steps
<1>4. SnapshotsType'
  <2>1. snapshots' = <<>>
    OBVIOUS
  <2>2. DOMAIN snapshots' = {}
    BY <2>1
  <2> QED
    BY <2>2 DEF SnapshotsType
<1>5. DisplayType'
  BY EmptyIsShown DEF DisplayType, Publish, Held
<1>6. TimeType'
  BY DEF TimeType
<1> QED
  BY <1>1, <1>2, <1>3, <1>4, <1>5, <1>6

LEMMA BackoffEndsKeeps == ASSUME PollInv, BackoffEnds PROVE PollInv'
<1> USE DEF PollInv, BackoffEnds, environment
<1>1. BusType' /\ DisplayType' /\ FailuresType'
  BY DEF BusType, DisplayType, FailuresType
<1>2. ClientsType' /\ SnapshotsType'
  BY DEF ClientsType, SnapshotsType, Steps
<1>3. TimeType'
  <2>1. PICK d \in 0 .. delay : Passes(d)
    OBVIOUS
  <2>2. d \in Nat /\ delay \in 1 .. MaxDelay
    BY <2>1 DEF TimeType
  <2>3. delay' \in 1 .. MaxDelay
    BY <2>2 DEF Lesser
  <2> QED
    BY <2>1, <2>2, <2>3, PassesType DEF TimeType
<1> QED
  BY <1>1, <1>2, <1>3

LEMMA ScanKeeps == ASSUME PollInv, Scan PROVE PollInv'
<1> USE DEF PollInv, Scan, environment
<1>1. BusType' /\ DisplayType'
  BY DEF BusType, DisplayType
<1>2. FailuresType'
  BY DEF FailuresType
<1>3. ClientsType'
  BY DEF ClientsType, Steps
<1>4. SnapshotsType'
  BY DEF SnapshotsType, Remembered, Without
<1>5. TimeType'
  <2>1. PICK d \in 0 .. 1 : Passes(d)
    OBVIOUS
  <2> QED
    BY <2>1, PassesType DEF TimeType
<1> QED
  BY <1>1, <1>2, <1>3, <1>4, <1>5

LEMMA StepsKeep == ASSUME PollInv, SkipScan \/ AttachEnds \/ WaitEnds PROVE PollInv'
<1> USE DEF PollInv, SkipScan, AttachEnds, WaitEnds, environment
<1>1. BusType'
  BY DEF BusType
<1>2. DisplayType' /\ FailuresType'
  BY DEF DisplayType, FailuresType
<1>3. ClientsType' /\ SnapshotsType'
  BY DEF ClientsType, SnapshotsType, Steps
<1>4. TimeType'
  BY DEF TimeType
<1> QED
  BY <1>1, <1>2, <1>3, <1>4

LEMMA AttachKeeps == ASSUME PollInv, Attach PROVE PollInv'
<1> USE DEF PollInv, Attach, environment
<1>1. BusType' /\ DisplayType' /\ FailuresType'
  BY DEF BusType, DisplayType, FailuresType
<1>2. ClientsType' /\ SnapshotsType'
  BY DEF ClientsType, SnapshotsType
<1>3. TimeType'
  BY DEF TimeType
<1> QED
  BY <1>1, <1>2, <1>3

LEMMA RefreshKeeps == ASSUME PollInv, Refresh PROVE PollInv'
<1> USE DEF PollInv
<1>1. PICK p \in todo : (Refreshed(p) \/ NotRefreshed(p)) /\ todo' = todo \ {p}
  BY DEF Refresh
<1>2. task = "refresh"
      /\ UNCHANGED <<busAlive, names, status, bus, clients, current, preferred, outage, delay, task,
                     scanDue, silence>>
  BY DEF Refresh, environment
<1>3. p \in clients /\ p \in Players /\ status[p] \in Statuses
  BY <1>1, <1>2 DEF ClientsType
<1>4. BusType' /\ DisplayType'
  BY <1>2 DEF BusType, DisplayType
<1>5. ClientsType'
  BY <1>1, <1>2 DEF ClientsType
<1>6. TimeType'
  BY <1>2 DEF TimeType
<1>7. SnapshotsType' /\ FailuresType'
  <2>1. CASE Refreshed(p)
    BY <1>2, <1>3, <2>1 DEF SnapshotsType, FailuresType, Refreshed, With
  <2>2. CASE NotRefreshed(p)
    <3>1. failures[p] \in 0 .. MaxFailures
      BY <1>3 DEF FailuresType
    <3>2. Lesser(MaxFailures, failures[p] + 1) \in 0 .. MaxFailures
      BY <3>1 DEF Lesser
    <3>3. FailuresType'
      BY <2>2, <3>2 DEF FailuresType, NotRefreshed
    <3>4. SnapshotsType'
      BY <1>2, <2>2 DEF SnapshotsType, NotRefreshed, Without
    <3> QED
      BY <3>3, <3>4
  <2> QED
    BY <1>1, <2>1, <2>2
<1> QED
  BY <1>4, <1>5, <1>6, <1>7

LEMMA SelectKeeps == ASSUME PollInv, Select PROVE PollInv'
<1> USE DEF PollInv
<1>1. /\ todo = {} /\ outage' = NoPlayer /\ silence' = 0 /\ task' = "wait"
      /\ UNCHANGED <<busAlive, names, status, bus, clients, snapshots, failures, preferred, delay,
                     todo, scanDue>>
  BY DEF Select, environment
<1>2. BusType' /\ FailuresType'
  BY <1>1 DEF BusType, FailuresType
<1>3. ClientsType' /\ SnapshotsType'
  BY <1>1 DEF ClientsType, SnapshotsType, Steps
<1>4. TimeType'
  BY <1>1 DEF TimeType
<1>5. DisplayType'
  <2>1. Selected = NoPlayer \/ Selected \in DOMAIN snapshots
    BY SelectedHasSnapshot DEF ClientsType, SnapshotsType
  <2>2. current' = IF Selected = NoPlayer THEN Empty
                   ELSE [player |-> Selected, status |-> snapshots[Selected]]
    BY DEF Select, Publish
  <2> HIDE DEF Selected
  <2>3. current' \in Shown
    BY <2>1, <2>2, EmptyIsShown DEF ClientsType, SnapshotsType, Shown
  <2> QED
    BY <1>1, <2>3 DEF DisplayType
<1> QED
  BY <1>2, <1>3, <1>4, <1>5

----------------------------------------------------------------------------
(* The commands and the desktop.                                           *)

LEMMA CommandKeeps == ASSUME PollInv, Command PROVE PollInv' /\ answer' \in {"result", "raised"}
<1> USE DEF PollInv
<1>1. PICK a \in {"result", "raised"} : Answers(a)
  BY DEF Command, SelectPlayer, Control
<1>2. UNCHANGED <<busAlive, names, status, bus, clients, snapshots, failures, outage, delay, task,
                  todo, scanDue, silence>> /\ answer' = a
  BY <1>1 DEF Answers, environment
<1>3. BusType' /\ FailuresType' /\ ClientsType' /\ SnapshotsType'
  BY <1>2 DEF BusType, FailuresType, ClientsType, SnapshotsType
<1>4. TimeType'
  BY <1>2 DEF TimeType
<1>5. DisplayType'
  <2>1. CASE UNCHANGED <<current, preferred>>
    BY <2>1 DEF DisplayType
  <2>2. CASE \E p \in Players : SelectPlayer(p)
    <3>1. PICK p \in Players : SelectPlayer(p)
      BY <2>2
    <3>2. CASE p \in DOMAIN snapshots /\ preferred' = p
               /\ Publish([player |-> p, status |-> snapshots[p]])
      BY <3>2 DEF Publish, DisplayType, SnapshotsType, Shown
    <3>3. CASE preferred' \in {p, preferred} /\ UNCHANGED current
      BY <3>3 DEF DisplayType
    <3> QED
      BY <3>1, <3>2, <3>3 DEF SelectPlayer
  <2> QED
    BY <2>1, <2>2 DEF Command, Control
<1> QED
  BY <1>2, <1>3, <1>4, <1>5

LEMMA DesktopKeeps == ASSUME PollInv, Desktop PROVE PollInv'
<1> USE DEF PollInv
<1>1. UNCHANGED <<bus, clients, snapshots, failures, current, preferred, outage, delay, task, todo,
                  scanDue, silence>>
  BY DEF Desktop
<1>2. busAlive' \in BOOLEAN /\ names' \in SUBSET Players /\ status' \in [Players -> Statuses]
  <2>1. CASE busAlive' = ~busAlive /\ UNCHANGED <<names, status>>
    BY <2>1 DEF ClientsType
  <2>2. CASE (\E p \in Players \ names : names' = names \cup {p}) /\ UNCHANGED <<busAlive, status>>
    BY <2>2 DEF BusType, ClientsType
  <2>3. CASE /\ \E p \in names : names' = names \ {p} /\ status' = [status EXCEPT ![p] = "stopped"]
             /\ UNCHANGED busAlive
    BY <2>3 DEF BusType, ClientsType
  <2>4. CASE /\ \E p \in names, s \in Statuses : status' = [status EXCEPT ![p] = s]
             /\ UNCHANGED <<busAlive, names>>
    BY <2>4 DEF BusType, ClientsType
  <2> QED
    BY <2>1, <2>2, <2>3, <2>4 DEF Desktop
<1>3. BusType' /\ FailuresType' /\ ClientsType' /\ SnapshotsType' /\ DisplayType'
  BY <1>1, <1>2 DEF BusType, FailuresType, ClientsType, SnapshotsType, DisplayType
<1>4. TimeType'
  BY <1>1 DEF TimeType
<1> QED
  BY <1>3, <1>4

LEMMA BackendStarts == ASSUME BackendInit PROVE BackendInv
<1>1. BusType /\ answer \in {"result", "raised"}
  BY DEF BackendInit, BusType
<1>2. ClientsType
  BY DEF BackendInit, ClientsType, Steps
<1>3. SnapshotsType
  <2>1. DOMAIN snapshots = {}
    BY DEF BackendInit
  <2> QED
    BY <2>1 DEF SnapshotsType
<1>4. FailuresType
  BY DEF BackendInit, FailuresType
<1>5. DisplayType
  BY EmptyIsShown DEF BackendInit, DisplayType
<1>6. TimeType
  BY DEF BackendInit, TimeType
<1> QED
  BY <1>1, <1>2, <1>3, <1>4, <1>5, <1>6 DEF BackendInv, PollInv

LEMMA BackendStep == ASSUME BackendInv, [BackendNext]_backendVars PROVE BackendInv'
<1>1. PollInv
  BY DEF BackendInv, PollInv
<1>2. CASE Poll
  <2>1. PollInv'
    BY <1>1, <1>2, ConnectBusKeeps, PollFailsKeeps, BackoffEndsKeeps, ScanKeeps, StepsKeep,
       AttachKeeps, RefreshKeeps, SelectKeeps DEF Poll
  <2> QED
    BY <1>2, <2>1 DEF Poll, PollInv, BackendInv
<1>3. CASE Command
  BY <1>1, <1>3, CommandKeeps DEF PollInv, BackendInv
<1>4. CASE Desktop
  <2>1. answer' = "result"
    BY <1>4 DEF Desktop
  <2> QED
    BY <1>1, <1>4, <2>1, DesktopKeeps DEF PollInv, BackendInv
<1>5. CASE UNCHANGED backendVars
  BY <1>5 DEF backendVars, PollInv, BackendInv, BusType, ClientsType, SnapshotsType, FailuresType,
              DisplayType, TimeType
<1> QED
  BY <1>2, <1>3, <1>4, <1>5 DEF BackendNext

LEMMA BackendInvHolds == BackendSpec => []BackendInv
BY BackendStarts, BackendStep, PTL DEF BackendSpec

(* Its snapshots are of its clients, its clients and what it shows are     *)
(* players, and all clocks and counters stay within their limits.          *)
THEOREM BackendTypes == BackendSpec => []BackendTypeOK
<1>1. BackendInv => BackendTypeOK
  BY DEF BackendInv, PollInv, BusType, ClientsType, SnapshotsType, FailuresType, DisplayType, TimeType,
         BackendTypeOK
<1> QED
  BY <1>1, BackendInvHolds, PTL

(* The display is given up for an outage only when no poll has succeeded   *)
(* for the whole grace.                                                    *)
THEOREM OutagesAreBridged == BackendSpec => OutageIsBridged
<1>1. BackendInv /\ [BackendNext]_backendVars
        => [task' = "backoff" /\ task # "backoff" /\ current' # current
              => silence >= Grace]_backendVars
  <2> SUFFICES ASSUME BackendInv, BackendNext, task' = "backoff", task # "backoff",
                      current' # current
               PROVE  silence >= Grace
    OBVIOUS
  <2>1. PollFails
    BY DEF BackendNext, Poll, ConnectBus, BackoffEnds, Scan, SkipScan, Attach, AttachEnds,
           Refresh, Select, WaitEnds, Command, SelectPlayer, Control, Answers, Desktop
  <2>2. outage # NoPlayer /\ outage >= Grace
    BY <2>1 DEF PollFails, Publish, Held
  <2>3. outage \in Nat /\ outage <= silence /\ silence \in Nat
    BY <2>2 DEF BackendInv, PollInv, TimeType
  <2> QED
    BY <2>2, <2>3
<1> QED
  BY <1>1, BackendInvHolds, PTL DEF BackendSpec, OutageIsBridged

(* A poll takes a playing player off the display only for the preferred    *)
(* one, which plays too.                                                   *)
THEOREM PlayingPlayersStay == BackendSpec => PlayingStays
<1>1. BackendInv /\ [BackendNext]_backendVars
        => [task = "refresh" /\ task' = "wait"
              /\ current.player \in Playing(snapshots) /\ current'.player # current.player
              => current'.player = preferred /\ preferred \in Playing(snapshots)]_backendVars
  <2> SUFFICES ASSUME BackendInv, BackendNext, task = "refresh", task' = "wait",
                      current.player \in Playing(snapshots), current'.player # current.player
               PROVE  current'.player = preferred /\ preferred \in Playing(snapshots)
    OBVIOUS
  <2>1. Select
    BY DEF BackendNext, Poll, ConnectBus, PollFails, BackoffEnds, Scan, SkipScan, Attach,
           AttachEnds, Refresh, WaitEnds, Command, SelectPlayer, Control, Answers, Desktop
  <2>2. Playing(snapshots) \subseteq Players
    BY DEF BackendInv, PollInv, ClientsType, SnapshotsType, Playing
  <2>3. current' = IF Selected = NoPlayer THEN Empty
                   ELSE [player |-> Selected, status |-> snapshots[Selected]]
    BY <2>1 DEF Select, Publish
  <2>4. CASE Selected = current.player
    <3>1. Selected # NoPlayer
      BY <2>2, <2>4
    <3> QED
      BY <2>3, <2>4, <3>1
  <2>5. CASE Selected # current.player
    <3>1. Selected = preferred /\ preferred \in Playing(snapshots)
      BY <2>5, SelectionIsLoyal
    <3>2. Selected # NoPlayer
      BY <2>2, <3>1
    <3> QED
      BY <2>3, <3>1, <3>2
  <2> QED
    BY <2>4, <2>5
<1> QED
  BY <1>1, BackendInvHolds, PTL DEF BackendSpec, PlayingStays

----------------------------------------------------------------------------
(* The cover cache.  No cover is in two files.                             *)

Distinct(s) == \A m, n \in 1 .. Len(s) : s[m] = s[n] => m = n

LEMMA DistinctCardinality ==
  ASSUME NEW S, NEW s \in Seq(S), Distinct(s)
  PROVE  Cardinality(Range(s)) = Len(s)
<1> DEFINE D == 1 .. Len(s)
<1>1. Len(s) \in Nat /\ DOMAIN s = D /\ s \in [D -> S]
  BY LenProperties
<1>2. IsFiniteSet(D) /\ Cardinality(D) = Len(s)
  <2>1. 1 \in Int /\ Len(s) \in Int
    BY <1>1
  <2>2. IsFiniteSet(1 .. Len(s)) /\ Cardinality(1 .. Len(s)) = IF 1 > Len(s) THEN 0 ELSE Len(s) - 1 + 1
    BY <2>1, FS_Interval
  <2> QED
    BY <1>1, <2>2
<1>3. \A m, n \in D : s[m] = s[n] => m = n
  BY DEF Distinct
<1> HIDE DEF D
<1>4. s \in [D -> Range(s)]
  BY <1>1 DEF Range
<1>5. s \in Injection(D, Range(s))
  BY <1>1, <1>3, <1>4 DEF Injection, IsInjective
<1>6. s \in Surjection(D, Range(s))
  BY <1>1, <1>4 DEF Surjection, Range
<1>7. s \in Bijection(D, Range(s))
  BY <1>5, <1>6 DEF Bijection
<1>8. ExistsBijection(D, Range(s))
  BY <1>7 DEF ExistsBijection
<1> QED
  BY <1>2, <1>8, FS_Bijection

LEMMA RangeIs ==
  ASSUME NEW S, NEW s \in Seq(S)
  PROVE  /\ Range(s) \subseteq S /\ Len(s) \in Nat /\ DOMAIN s = 1 .. Len(s)
         /\ \A n \in 1 .. Len(s) : s[n] \in Range(s)
         /\ \A x \in Range(s) : \E n \in 1 .. Len(s) : s[n] = x
<1>1. s \in [1 .. Len(s) -> S] /\ Len(s) \in Nat /\ DOMAIN s = 1 .. Len(s)
  BY LenProperties
<1> QED
  BY <1>1 DEF Range

(* One element less.                                                       *)
LEMMA RemovedOne ==
  ASSUME NEW S, NEW s \in Seq(S), Distinct(s), NEW n \in 1 .. Len(s)
  PROVE  /\ RemoveAt(s, n) \in Seq(S) /\ Len(RemoveAt(s, n)) = Len(s) - 1
         /\ Distinct(RemoveAt(s, n)) /\ Range(RemoveAt(s, n)) = Range(s) \ {s[n]}
<1> DEFINE L == Len(s)
           before == SubSeq(s, 1, n - 1)
           after == SubSeq(s, n + 1, L)
           r == before \o after
<1>1. /\ L \in Nat /\ DOMAIN s = 1 .. L /\ n \in 1 .. L
      /\ \A k \in 1 .. L : s[k] \in S
  BY LenProperties, ElementOfSeq
<1>2. RemoveAt(s, n) = r
  BY DEF RemoveAt
<1> HIDE DEF L
<1>3. before \in Seq(S) /\ Len(before) = n - 1 /\ \A k \in 1 .. n - 1 : before[k] = s[k]
  <2> DEFINE b == n - 1
  <2>1. b \in Int /\ 1 \in Int /\ \A k \in 1 .. b : s[k] \in S
    BY <1>1
  <2>2. b = n - 1 /\ n \in Nat /\ n >= 1
    BY <1>1
  <2> HIDE DEF b
  <2>3. /\ SubSeq(s, 1, b) \in Seq(S)
        /\ Len(SubSeq(s, 1, b)) = IF 1 <= b THEN b - 1 + 1 ELSE 0
        /\ \A k \in 1 .. b - 1 + 1 : SubSeq(s, 1, b)[k] = s[1 + k - 1]
    BY <2>1, SubSeqProperties
  <2>4. Len(SubSeq(s, 1, b)) = b
    BY <2>1, <2>2, <2>3
  <2>5. \A k \in 1 .. b : SubSeq(s, 1, b)[k] = s[k]
    BY <2>1, <2>3
  <2> QED
    BY <2>3, <2>4, <2>5 DEF b
<1>4. after \in Seq(S) /\ Len(after) = L - n /\ \A k \in 1 .. L - n : after[k] = s[n + k]
  <2> DEFINE a == n + 1
  <2>1. a \in Int /\ L \in Int /\ \A k \in a .. L : s[k] \in S
    BY <1>1
  <2>2. a = n + 1 /\ n \in Nat /\ n <= L /\ L \in Nat
    BY <1>1
  <2> HIDE DEF a
  <2>3. /\ SubSeq(s, a, L) \in Seq(S)
        /\ Len(SubSeq(s, a, L)) = IF a <= L THEN L - a + 1 ELSE 0
        /\ \A k \in 1 .. L - a + 1 : SubSeq(s, a, L)[k] = s[a + k - 1]
    BY <2>1, SubSeqProperties
  <2>4. Len(SubSeq(s, a, L)) = L - n
    BY <2>1, <2>2, <2>3
  <2>5. \A k \in 1 .. L - n : SubSeq(s, a, L)[k] = s[n + k]
    <3>1. L - a + 1 = L - n /\ \A k \in 1 .. L - n : a + k - 1 = n + k
      BY <2>2
    <3> QED
      BY <2>3, <3>1
  <2> QED
    BY <2>3, <2>4, <2>5 DEF a
<1> HIDE DEF before, after
<1>5. /\ r \in Seq(S) /\ Len(r) = L - 1
      /\ \A k \in 1 .. L - 1 : r[k] = IF k <= n - 1 THEN before[k] ELSE after[k - (n - 1)]
  <2>1. /\ before \o after \in Seq(S) /\ Len(before \o after) = Len(before) + Len(after)
        /\ \A k \in 1 .. Len(before) + Len(after) :
              (before \o after)[k] = IF k <= Len(before) THEN before[k] ELSE after[k - Len(before)]
    BY <1>3, <1>4, ConcatProperties
  <2>2. Len(before) + Len(after) = L - 1
    BY <1>1, <1>3, <1>4
  <2> QED
    BY <1>3, <2>1, <2>2
<1> HIDE DEF r
<1>6. \A k \in 1 .. L - 1 : r[k] = IF k < n THEN s[k] ELSE s[k + 1]
  <2> TAKE k \in 1 .. L - 1
  <2>1. CASE k < n
    <3>1. k \in 1 .. n - 1 /\ k <= n - 1
      BY <1>1, <2>1
    <3> QED
      BY <1>3, <1>5, <2>1, <3>1
  <2>2. CASE ~ (k < n)
    <3>1. k - (n - 1) \in 1 .. L - n /\ ~ (k <= n - 1) /\ n + (k - (n - 1)) = k + 1
      BY <1>1, <2>2
    <3> QED
      BY <1>4, <1>5, <2>2, <3>1
  <2> QED
    BY <2>1, <2>2
<1>7. \A j, k \in 1 .. L : s[j] = s[k] => j = k
  BY DEF Distinct, L
<1>8. Distinct(r)
  <2> SUFFICES ASSUME NEW j \in 1 .. L - 1, NEW k \in 1 .. L - 1, r[j] = r[k] PROVE j = k
    BY <1>5 DEF Distinct
  <2> DEFINE p == IF j < n THEN j ELSE j + 1
             q == IF k < n THEN k ELSE k + 1
  <2>1. p \in 1 .. L /\ q \in 1 .. L /\ (p = q => j = k)
    BY <1>1
  <2>2. r[j] = s[p] /\ r[k] = s[q]
    BY <1>6
  <2> HIDE DEF p, q
  <2> QED
    BY <1>7, <2>1, <2>2
<1>9. Range(r) = Range(s) \ {s[n]}
  <2>1. ASSUME NEW k \in 1 .. L - 1 PROVE r[k] \in Range(s) \ {s[n]}
    <3> DEFINE q == IF k < n THEN k ELSE k + 1
    <3>1. q \in 1 .. L /\ q # n
      BY <1>1
    <3>2. r[k] = s[q]
      BY <1>6
    <3> HIDE DEF q
    <3> QED
      BY <1>1, <1>7, <3>1, <3>2 DEF Range
  <2>2. ASSUME NEW q \in 1 .. L, q # n PROVE \E k \in 1 .. L - 1 : r[k] = s[q]
    <3> DEFINE k == IF q < n THEN q ELSE q - 1
    <3>1. k \in 1 .. L - 1 /\ q = IF k < n THEN k ELSE k + 1
      BY <1>1, <2>2
    <3> HIDE DEF k
    <3>2. r[k] = s[q]
      BY <1>6, <3>1
    <3> QED
      BY <3>1, <3>2
  <2>3. DOMAIN r = 1 .. L - 1
    BY <1>5, LenProperties
  <2>4. Range(r) = {r[k] : k \in 1 .. L - 1}
    BY <2>3 DEF Range
  <2>5. Range(r) \subseteq Range(s) \ {s[n]}
    BY <2>1, <2>4
  <2>6. ASSUME NEW x \in Range(s) \ {s[n]} PROVE x \in Range(r)
    <3>1. PICK q \in 1 .. L : s[q] = x
      BY <1>1 DEF Range
    <3>2. PICK k \in 1 .. L - 1 : r[k] = s[q]
      BY <2>2, <2>6, <3>1
    <3> QED
      BY <2>4, <3>1, <3>2
  <2> QED
    BY <2>5, <2>6
<1> QED
  BY <1>2, <1>5, <1>8, <1>9 DEF L

(* One element more.                                                       *)
LEMMA AppendedOne ==
  ASSUME NEW S, NEW s \in Seq(S), Distinct(s), NEW e \in S, e \notin Range(s)
  PROVE  /\ Append(s, e) \in Seq(S) /\ Len(Append(s, e)) = Len(s) + 1 /\ Append(s, e)[Len(s) + 1] = e
         /\ Distinct(Append(s, e)) /\ Range(Append(s, e)) = Range(s) \cup {e}
<1> DEFINE r == Append(s, e)
           L == Len(s)
<1>1. /\ L \in Nat /\ DOMAIN s = 1 .. L
      /\ \A n \in 1 .. L : s[n] \in Range(s)
      /\ \A x \in Range(s) : \E n \in 1 .. L : s[n] = x
  BY RangeIs
<1>2. r \in Seq(S) /\ Len(r) = L + 1 /\ (\A n \in 1 .. L : r[n] = s[n]) /\ r[L + 1] = e
  BY AppendProperties
<1>3. \A j, k \in 1 .. L : s[j] = s[k] => j = k
  BY DEF Distinct
<1> HIDE DEF r, L
<1>4. \A n \in 1 .. L + 1 : n \in 1 .. L \/ n = L + 1
  BY <1>1
<1>5. Distinct(r)
  BY <1>1, <1>2, <1>3, <1>4 DEF Distinct
<1>6. Range(r) = Range(s) \cup {e}
  <2>1. DOMAIN r = 1 .. L + 1 /\ L + 1 \in 1 .. L + 1 /\ 1 .. L \subseteq 1 .. L + 1
    BY <1>1, <1>2, LenProperties
  <2>2. Range(r) = {r[n] : n \in 1 .. L + 1}
    BY <2>1 DEF Range
  <2>3. Range(r) \subseteq Range(s) \cup {e}
    BY <1>1, <1>2, <1>4, <2>2
  <2>4. e \in Range(r)
    BY <1>2, <2>1, <2>2
  <2>5. Range(s) \subseteq Range(r)
    BY <1>1, <1>2, <2>1, <2>2
  <2> QED
    BY <2>3, <2>4, <2>5
<1> QED
  BY <1>2, <1>5, <1>6 DEF r, L

(* The last ones.                                                          *)
LEMMA KeptLast ==
  ASSUME NEW S, NEW s \in Seq(S), Distinct(s), NEW n \in 1 .. Len(s)
  PROVE  LET r == SubSeq(s, n + 1, Len(s)) IN
         /\ r \in Seq(S) /\ Len(r) = Len(s) - n /\ Distinct(r) /\ Range(r) \subseteq Range(s)
         /\ n < Len(s) => r[Len(r)] = s[Len(s)]
<1> DEFINE L == Len(s)
           r == SubSeq(s, n + 1, L)
<1>1. /\ L \in Nat /\ DOMAIN s = 1 .. L /\ n \in 1 .. L
      /\ \A k \in 1 .. L : s[k] \in S
  BY LenProperties, ElementOfSeq
<1>2. \A j, k \in 1 .. L : s[j] = s[k] => j = k
  BY DEF Distinct
<1> HIDE DEF L
<1>3. r \in Seq(S) /\ Len(r) = L - n /\ \A k \in 1 .. L - n : r[k] = s[n + k]
  <2> DEFINE a == n + 1
  <2>1. a \in Int /\ L \in Int /\ \A k \in a .. L : s[k] \in S
    BY <1>1
  <2>2. a = n + 1 /\ n \in Nat /\ n <= L /\ L \in Nat
    BY <1>1
  <2> HIDE DEF a
  <2>3. /\ SubSeq(s, a, L) \in Seq(S)
        /\ Len(SubSeq(s, a, L)) = IF a <= L THEN L - a + 1 ELSE 0
        /\ \A k \in 1 .. L - a + 1 : SubSeq(s, a, L)[k] = s[a + k - 1]
    BY <2>1, SubSeqProperties
  <2>4. Len(SubSeq(s, a, L)) = L - n
    BY <2>1, <2>2, <2>3
  <2>5. \A k \in 1 .. L - n : SubSeq(s, a, L)[k] = s[n + k]
    <3>1. L - a + 1 = L - n /\ \A k \in 1 .. L - n : a + k - 1 = n + k
      BY <2>2
    <3> QED
      BY <2>3, <3>1
  <2> QED
    BY <2>3, <2>4, <2>5 DEF a
<1> HIDE DEF r
<1>4. \A k \in 1 .. L - n : n + k \in 1 .. L
  BY <1>1
<1>5. Distinct(r)
  <2> SUFFICES ASSUME NEW j \in 1 .. L - n, NEW k \in 1 .. L - n, r[j] = r[k] PROVE j = k
    BY <1>3 DEF Distinct
  <2>1. n + j = n + k
    BY <1>2, <1>3, <1>4
  <2> QED
    BY <1>1, <2>1
<1>6. Range(r) \subseteq Range(s)
  <2>1. DOMAIN r = 1 .. L - n
    BY <1>3, LenProperties
  <2> QED
    BY <1>1, <1>3, <1>4, <2>1 DEF Range
<1>7. n < L => r[L - n] = s[L]
  <2>1. n < L => L - n \in 1 .. L - n /\ n + (L - n) = L
    BY <1>1
  <2> QED
    BY <1>3, <2>1
<1> QED
  BY <1>3, <1>5, <1>6, <1>7 DEF r, L

----------------------------------------------------------------------------
(* What the threads do to the files, and what becomes of them.             *)

FilesInv ==
  /\ jpegs \in Seq(Covers) /\ Distinct(jpegs) /\ corrupt \subseteq Range(jpegs)
  /\ mapping \in [Sources -> Covers \cup {NoCover}]

(* The steps of a thread, and the ways it ends.                            *)
Task == [source : Sources,
         at : Reading \cup {"fetch"} \cup Storing \cup Evicting \cup {"hit", "stored", "done", "failed"},
         again : BOOLEAN, cover : Covers \cup {NoCover}]
(* It has a cover where it needs one.                                      *)
HasCover(k) == k.at \in {"touch", "write", "commit", "stored", "evict", "sweep"} => k.cover \in Covers
Tasks == {k \in Task : HasCover(k)}

ThreadsInv ==
  /\ job \in Tasks \cup {Nobody} /\ job \in Job \cup {Nobody}
  /\ strays \subseteq Tasks /\ strays \subseteq Job
  /\ IsFiniteSet(strays) /\ Cardinality(strays) <= MaxStrays
  /\ returned \in Covers \cup {NoCover} /\ quiet \in BOOLEAN

CacheInv == FilesInv /\ ThreadsInv

LEMMA OnDiskIs == ASSUME jpegs \in Seq(Covers), NEW c PROVE OnDisk(c) <=> c \in Range(jpegs)
BY RangeIs DEF OnDisk

LEMMA AllButFacts ==
  ASSUME jpegs \in Seq(Covers), Distinct(jpegs), NEW c
  PROVE  /\ AllBut(c) \in Seq(Covers) /\ Distinct(AllBut(c)) /\ Range(AllBut(c)) = Range(jpegs) \ {c}
         /\ Len(AllBut(c)) = IF OnDisk(c) THEN Len(jpegs) - 1 ELSE Len(jpegs)
<1>1. CASE OnDisk(c)
  <2> DEFINE n == CHOOSE n \in DOMAIN jpegs : jpegs[n] = c
  <2>1. n \in DOMAIN jpegs /\ jpegs[n] = c
    BY <1>1 DEF OnDisk
  <2>2. n \in 1 .. Len(jpegs)
    BY <2>1, RangeIs
  <2>3. AllBut(c) = RemoveAt(jpegs, n)
    BY <1>1 DEF AllBut
  <2> HIDE DEF n
  <2> QED
    BY <1>1, <2>1, <2>2, <2>3, RemovedOne
<1>2. CASE ~ OnDisk(c)
  <2>1. AllBut(c) = jpegs /\ c \notin Range(jpegs)
    BY <1>2, OnDiskIs DEF AllBut
  <2> QED
    BY <1>2, <2>1
<1> QED
  BY <1>1, <1>2

(* The cover is the newest one now.                                        *)
LEMMA NewestFacts ==
  ASSUME jpegs \in Seq(Covers), Distinct(jpegs), NEW c \in Covers
  PROVE  LET r == Append(AllBut(c), c) IN
         /\ r \in Seq(Covers) /\ Distinct(r) /\ Range(r) = Range(jpegs) \cup {c}
         /\ Len(r) = IF OnDisk(c) THEN Len(jpegs) ELSE Len(jpegs) + 1
         /\ r[Len(r)] = c
<1> DEFINE a == AllBut(c)
           r == Append(a, c)
<1>1. /\ a \in Seq(Covers) /\ Distinct(a) /\ Range(a) = Range(jpegs) \ {c}
      /\ Len(a) = IF OnDisk(c) THEN Len(jpegs) - 1 ELSE Len(jpegs)
  BY AllButFacts
<1>2. Len(jpegs) \in Nat
  BY LenProperties
<1> HIDE DEF a
<1>3. /\ r \in Seq(Covers) /\ Len(r) = Len(a) + 1 /\ r[Len(a) + 1] = c
      /\ Distinct(r) /\ Range(r) = Range(a) \cup {c}
  BY <1>1, AppendedOne
<1> HIDE DEF r
<1>4. Len(r) = IF OnDisk(c) THEN Len(jpegs) ELSE Len(jpegs) + 1
  BY <1>1, <1>2, <1>3
<1>5. Range(r) = Range(jpegs) \cup {c}
  BY <1>1, <1>3
<1> QED
  BY <1>3, <1>4, <1>5 DEF a, r

LEMMA UnlinkKeeps ==
  ASSUME FilesInv, NEW c, Unlink(c), UNCHANGED mapping
  PROVE  FilesInv'
<1>1. jpegs' = AllBut(c) /\ corrupt' = corrupt \ {c} /\ mapping' = mapping
  BY DEF Unlink
<1>2. AllBut(c) \in Seq(Covers) /\ Distinct(AllBut(c)) /\ Range(AllBut(c)) = Range(jpegs) \ {c}
  BY AllButFacts DEF FilesInv
<1>3. corrupt' \subseteq Range(jpegs')
  BY <1>1, <1>2 DEF FilesInv
<1> QED
  BY <1>1, <1>2, <1>3 DEF FilesInv

LEMMA ValidateKeeps ==
  ASSUME FilesInv, NEW c, Validate(c), UNCHANGED mapping
  PROVE  FilesInv'
<1>1. CASE Unlink(c)
  BY <1>1, UnlinkKeeps
<1>2. CASE UNCHANGED <<jpegs, corrupt>>
  BY <1>2 DEF FilesInv
<1> QED
  BY <1>1, <1>2 DEF Validate

LEMMA MissIsTask == ASSUME NEW j \in Tasks PROVE Miss(j) \in Tasks
<1> USE DEF Tasks, Task, HasCover, Reading, Storing, Evicting
<1>1. j \in Task
  OBVIOUS
<1>2. CASE j.again
  BY <1>1, <1>2 DEF Miss, Go
<1>3. CASE ~ j.again
  BY <1>1, <1>3 DEF Miss, Go
<1> QED
  BY <1>2, <1>3

LEMMA GoIsTask ==
  ASSUME NEW j \in Tasks, j.cover \in Covers,
         NEW at \in {"hit", "commit", "stored", "evict", "sweep", "done", "failed"}
  PROVE  Go(j, at) \in Tasks /\ Go(j, at).cover = j.cover /\ Go(j, at).source = j.source
                             /\ Go(j, at).at = at
BY DEF Tasks, Task, HasCover, Reading, Storing, Evicting, Go

LEMMA GoWithIsTask ==
  ASSUME NEW j \in Tasks, NEW at \in {"touch", "discard", "write"}, NEW c \in Covers \cup {NoCover},
         at # "discard" => c \in Covers
  PROVE  LET k == [Go(j, at) EXCEPT !.cover = c] IN
         k \in Tasks /\ k.cover = c /\ k.source = j.source /\ k.at = at
BY DEF Tasks, Task, HasCover, Reading, Storing, Evicting, Go

LEMMA WorksKeep ==
  ASSUME FilesInv, NEW j \in Tasks, NEW who, Works(j, who)
  PROVE  FilesInv' /\ \E k \in Tasks : Then(who, j, k)
<1>1. /\ jpegs \in Seq(Covers) /\ Distinct(jpegs) /\ corrupt \subseteq Range(jpegs)
      /\ mapping \in [Sources -> Covers \cup {NoCover}]
  BY DEF FilesInv
<1>2. j \in Task /\ j.source \in Sources /\ HasCover(j)
  BY DEF Tasks, Task
<1>3. mapping[j.source] \in Covers \cup {NoCover}
  BY <1>1, <1>2
<1>4. CASE NotFound(j, who)
  <2>1. FilesInv'
    BY <1>4, ValidateKeeps DEF NotFound, FilesInv
  <2>2. Then(who, j, Miss(j))
    BY <1>4 DEF NotFound
  <2> QED
    BY <2>1, <2>2, MissIsTask
<1>5. CASE Found(j, who)
  <2> DEFINE k == [Go(j, "touch") EXCEPT !.cover = mapping[j.source]]
  <2>1. k \in Tasks
    BY <1>3, <1>5, GoWithIsTask DEF Found
  <2>2. Then(who, j, k) /\ UNCHANGED files
    BY <1>5 DEF Found
  <2> HIDE DEF k
  <2> QED
    BY <2>1, <2>2 DEF FilesInv, files
<1>6. CASE Touched(j, who)
  <2>1. j.cover \in Covers
    BY <1>2, <1>6 DEF Touched, HasCover
  <2>2. jpegs' = Append(AllBut(j.cover), j.cover) /\ UNCHANGED <<corrupt, mapping>>
        /\ Then(who, j, Go(j, "hit"))
    BY <1>6 DEF Touched
  <2>3. jpegs' \in Seq(Covers) /\ Distinct(jpegs') /\ Range(jpegs') = Range(jpegs) \cup {j.cover}
    BY <1>1, <2>1, <2>2, NewestFacts
  <2>4. FilesInv'
    BY <1>1, <2>2, <2>3 DEF FilesInv
  <2> QED
    BY <2>1, <2>2, <2>4, GoIsTask
<1>7. CASE NotTouched(j, who)
  <2>1. j.cover \in Covers
    BY <1>2, <1>7 DEF NotTouched, HasCover
  <2> DEFINE k == [Go(j, "discard") EXCEPT !.cover = mapping[j.source]]
  <2>2. k \in Tasks
    BY <1>3, GoWithIsTask
  <2>3. /\ UNCHANGED <<corrupt, mapping>> /\ Then(who, j, k)
        /\ jpegs' = jpegs \/ jpegs' = Append(AllBut(j.cover), j.cover)
    BY <1>7 DEF NotTouched
  <2> HIDE DEF k
  <2>4. CASE jpegs' = jpegs
    BY <2>2, <2>3, <2>4 DEF FilesInv
  <2>5. CASE jpegs' = Append(AllBut(j.cover), j.cover)
    <3>1. jpegs' \in Seq(Covers) /\ Distinct(jpegs') /\ Range(jpegs') = Range(jpegs) \cup {j.cover}
      BY <1>1, <2>1, <2>5, NewestFacts
    <3>2. FilesInv'
      BY <1>1, <2>3, <3>1 DEF FilesInv
    <3> QED
      BY <2>2, <2>3, <3>2
  <2> QED
    BY <2>3, <2>4, <2>5
<1>8. CASE Discard(j, who)
  <2>1. mapping' = [mapping EXCEPT ![j.source] = NoCover] /\ Then(who, j, Miss(j))
        /\ (Unlink(j.cover) \/ UNCHANGED <<jpegs, corrupt>>)
    BY <1>8 DEF Discard
  <2>2. mapping' \in [Sources -> Covers \cup {NoCover}]
    BY <1>1, <2>1
  <2>3. CASE UNCHANGED <<jpegs, corrupt>>
    BY <2>1, <2>2, <2>3, MissIsTask DEF FilesInv
  <2>4. CASE Unlink(j.cover)
    <3>1. jpegs' = AllBut(j.cover) /\ corrupt' = corrupt \ {j.cover}
      BY <2>4 DEF Unlink
    <3>2. jpegs' \in Seq(Covers) /\ Distinct(jpegs') /\ Range(jpegs') = Range(jpegs) \ {j.cover}
      BY <1>1, <3>1, AllButFacts
    <3>3. FilesInv'
      BY <1>1, <2>2, <3>1, <3>2 DEF FilesInv
    <3> QED
      BY <2>1, <3>3, MissIsTask
  <2> QED
    BY <2>1, <2>3, <2>4
<1>9. CASE WriteCover(j, who)
  <2>1. j.cover \in Covers
    BY <1>2, <1>9 DEF WriteCover, HasCover
  <2>2. /\ jpegs' = IF Served(j.cover) THEN jpegs ELSE Append(AllBut(j.cover), j.cover)
        /\ corrupt' = corrupt \ {j.cover} /\ mapping' = mapping /\ Then(who, j, Go(j, "commit"))
    BY <1>9 DEF WriteCover
  <2>3. jpegs' \in Seq(Covers) /\ Distinct(jpegs') /\ Range(jpegs) \subseteq Range(jpegs')
    BY <1>1, <2>1, <2>2, NewestFacts
  <2>4. FilesInv'
    BY <1>1, <2>2, <2>3 DEF FilesInv
  <2> QED
    BY <2>1, <2>2, <2>4, GoIsTask
<1>10. CASE CommitMapping(j, who)
  <2>1. j.cover \in Covers
    BY <1>2, <1>10 DEF CommitMapping, HasCover
  <2>2. /\ mapping' = [mapping EXCEPT ![j.source] = j.cover] /\ UNCHANGED <<jpegs, corrupt>>
        /\ Then(who, j, Go(j, "stored"))
    BY <1>10 DEF CommitMapping
  <2>3. mapping' \in [Sources -> Covers \cup {NoCover}]
    BY <1>1, <2>1, <2>2
  <2>4. FilesInv'
    BY <2>2, <2>3 DEF FilesInv
  <2> QED
    BY <2>1, <2>2, <2>4, GoIsTask
<1>11. CASE Evict(j, who)
  <2>1. j.cover \in Covers
    BY <1>2, <1>11 DEF Evict, HasCover
  <2>2. /\ jpegs' = IF Excess > 0 THEN SubSeq(jpegs, Excess + 1, Len(jpegs)) ELSE jpegs
        /\ corrupt' = corrupt \cap Range(jpegs') /\ mapping' = mapping /\ Then(who, j, Go(j, "sweep"))
    BY <1>11 DEF Evict
  <2>3. jpegs' \in Seq(Covers) /\ Distinct(jpegs')
    <3>1. Excess > 0 => Excess \in 1 .. Len(jpegs)
      BY <1>1, LenProperties, CacheAssumption DEF Excess
    <3> HIDE DEF Excess
    <3> QED
      BY <1>1, <2>2, <3>1, KeptLast
  <2>4. FilesInv'
    BY <2>2, <2>3 DEF FilesInv
  <2> QED
    BY <2>1, <2>2, <2>4, GoIsTask
<1>12. CASE Sweep(j, who)
  <2>1. j.cover \in Covers
    BY <1>2, <1>12 DEF Sweep, HasCover
  <2>2. /\ mapping' = [s \in Sources |-> IF OnDisk(mapping[s]) THEN mapping[s] ELSE NoCover]
        /\ UNCHANGED <<jpegs, corrupt>> /\ Then(who, j, Go(j, "done"))
    BY <1>12 DEF Sweep
  <2>3. mapping' \in [Sources -> Covers \cup {NoCover}]
    BY <1>1, <2>2
  <2>4. FilesInv'
    BY <2>2, <2>3 DEF FilesInv
  <2> QED
    BY <2>1, <2>2, <2>4, GoIsTask
<1>13. CASE Raises(j, who)
  <2>1. j.cover \in Covers
    BY <1>2, <1>13 DEF Raises, HasCover
  <2>2. FilesInv'
    BY <1>13, ValidateKeeps DEF Raises, FilesInv
  <2>3. Then(who, j, Go(j, "failed"))
    BY <1>13 DEF Raises
  <2> QED
    BY <2>1, <2>2, <2>3, GoIsTask
<1> QED
  BY <1>4, <1>5, <1>6, <1>7, <1>8, <1>9, <1>10, <1>11, <1>12, <1>13 DEF Works

(* The call goes on or returns, a stray goes on or ends.                   *)
LEMMA CallGoesOnIs ==
  ASSUME NEW k \in Tasks, CallGoesOn(k)
  PROVE  \/ job' = Nobody /\ returned' \in Covers \cup {NoCover}
         \/ job' \in Tasks /\ job' \in Job /\ returned' = returned
<1>1. k \in Task /\ k.cover \in Covers \cup {NoCover}
  BY DEF Tasks, Task
<1>2. CASE k.at \in {"hit", "done"}
  BY <1>1, <1>2 DEF CallGoesOn, Return
<1>3. CASE k.at = "failed"
  BY <1>3 DEF CallGoesOn, Return
<1>4. CASE k.at = "stored"
  <2>1. job' = Go(k, "evict") /\ returned' = returned
    BY <1>4 DEF CallGoesOn
  <2>2. Go(k, "evict") \in Tasks /\ Go(k, "evict") \in Job
    BY <1>1, <1>4 DEF Tasks, Task, HasCover, Job, Go, Reading, Storing, Evicting
  <2> QED
    BY <2>1, <2>2
<1>5. CASE k.at \notin {"hit", "done", "failed", "stored"}
  <2>1. job' = k /\ returned' = returned
    BY <1>5 DEF CallGoesOn
  <2>2. k \in Job
    BY <1>1, <1>5 DEF Task, Job
  <2> QED
    BY <2>1, <2>2
<1> QED
  BY <1>2, <1>3, <1>4, <1>5

LEMMA StrayEndsIs ==
  ASSUME ThreadsInv, NEW j \in strays, NEW k \in Tasks, StrayEnds(j, k)
  PROVE  /\ strays' \subseteq Tasks /\ strays' \subseteq Job
         /\ IsFiniteSet(strays') /\ Cardinality(strays') <= MaxStrays
<1> DEFINE rest == strays \ {j}
<1>1. /\ IsFiniteSet(rest) /\ Cardinality(rest) = Cardinality(strays) - 1
      /\ Cardinality(strays) \in Nat /\ Cardinality(rest) \in Nat
  BY FS_RemoveElement, FS_CardinalityType DEF ThreadsInv
<1>2. rest \subseteq Tasks /\ rest \subseteq Job /\ Cardinality(strays) <= MaxStrays /\ MaxStrays \in Nat
  BY CacheAssumption DEF ThreadsInv
<1>3. strays' = rest \/ (strays' = rest \cup {k} /\ k.at \notin {"hit", "stored", "done", "failed"})
  BY DEF StrayEnds
<1> HIDE DEF rest
<1>4. CASE strays' = rest
  BY <1>1, <1>2, <1>4
<1>5. CASE strays' = rest \cup {k} /\ k.at \notin {"hit", "stored", "done", "failed"}
  <2>1. k \in Job
    BY <1>5 DEF Tasks, Task, Job
  <2>2. /\ IsFiniteSet(rest \cup {k})
        /\ Cardinality(rest \cup {k}) = Cardinality(rest) \/ Cardinality(rest \cup {k}) = Cardinality(rest) + 1
    BY <1>1, FS_AddElement
  <2>3. Cardinality(rest \cup {k}) <= MaxStrays
    BY <1>1, <1>2, <2>2
  <2> QED
    BY <1>2, <1>5, <2>1, <2>2, <2>3
<1> QED
  BY <1>3, <1>4, <1>5

LEMMA CacheStarts == ASSUME CacheInit PROVE CacheInv
<1>1. jpegs = <<>> /\ corrupt = {} /\ mapping = [s \in Sources |-> NoCover]
      /\ job = Nobody /\ strays = {} /\ returned = NoCover /\ quiet = FALSE
  BY DEF CacheInit
<1>2. <<>> \in Seq(Covers) /\ Distinct(<<>>)
  BY EmptySeq DEF Distinct
<1>3. FilesInv
  BY <1>1, <1>2 DEF FilesInv
<1>4. IsFiniteSet({}) /\ Cardinality({}) <= MaxStrays
  BY FS_EmptySet, CacheAssumption
<1>5. ThreadsInv
  BY <1>1, <1>4 DEF ThreadsInv
<1> QED
  BY <1>3, <1>5 DEF CacheInv

LEMMA CallWorksKeeps == ASSUME CacheInv, CallWorks PROVE CacheInv'
<1>1. job \in Tasks /\ Works(job, "call") /\ strays' = strays /\ quiet' = quiet
  BY DEF CacheInv, ThreadsInv, CallWorks
<1>2. FilesInv' /\ \E k \in Tasks : Then("call", job, k)
  BY <1>1, WorksKeep DEF CacheInv
<1>3. PICK k \in Tasks : CallGoesOn(k)
  BY <1>2 DEF Then
<1> QED
  BY <1>1, <1>2, <1>3, CallGoesOnIs DEF CacheInv, ThreadsInv

LEMMA StrayWorksKeeps == ASSUME CacheInv, NEW j \in strays, StrayWorks(j) PROVE CacheInv'
<1>1. j \in Tasks /\ Works(j, "stray") /\ job' = job /\ returned' = returned /\ quiet' = quiet
  BY DEF CacheInv, ThreadsInv, StrayWorks
<1>2. FilesInv' /\ \E k \in Tasks : Then("stray", j, k)
  BY <1>1, WorksKeep DEF CacheInv
<1>3. PICK k \in Tasks : StrayEnds(j, k)
  BY <1>2 DEF Then
<1>4. /\ strays' \subseteq Tasks /\ strays' \subseteq Job
      /\ IsFiniteSet(strays') /\ Cardinality(strays') <= MaxStrays
  BY <1>3, StrayEndsIs DEF CacheInv
<1> QED
  BY <1>1, <1>2, <1>4 DEF CacheInv, ThreadsInv

LEMMA CallKeeps ==
  ASSUME CacheInv, (\E s \in Sources : Resolve(s)) \/ (\E c \in Covers : Fetch(c)) \/ FetchFails
  PROVE  CacheInv'
<1>1. UNCHANGED files /\ strays' = strays /\ quiet' = quiet
  BY DEF Resolve, Fetch, FetchFails
<1>2. FilesInv'
  BY <1>1 DEF CacheInv, FilesInv, files
<1>3. /\ job' \in Tasks \cup {Nobody} /\ job' \in Job \cup {Nobody}
      /\ returned' \in Covers \cup {NoCover}
  <2>1. CASE \E s \in Sources : Resolve(s)
    <3>1. PICK s \in Sources : Resolve(s)
      BY <2>1
    <3>2. /\ job' = [source |-> s, at |-> "look", again |-> FALSE, cover |-> NoCover]
          /\ returned' = NoCover
      BY <3>1 DEF Resolve
    <3> QED
      BY <3>2 DEF Tasks, Task, HasCover, Job, Reading, Storing, Evicting
  <2>2. CASE \E c \in Covers : Fetch(c)
    <3>1. PICK c \in Covers : Fetch(c)
      BY <2>2
    <3>2. job' = [Go(job, "write") EXCEPT !.cover = c] /\ job \in Tasks /\ returned' = returned
      BY <3>1 DEF Fetch, CacheInv, ThreadsInv
    <3>3. job' \in Tasks /\ job'.at = "write"
      BY <3>2, GoWithIsTask
    <3>4. job' \in Job
      BY <3>3 DEF Tasks, Task, Job
    <3> QED
      BY <3>2, <3>3, <3>4 DEF CacheInv, ThreadsInv
  <2>3. CASE FetchFails
    BY <2>3 DEF FetchFails, Return
  <2> QED
    BY <2>1, <2>2, <2>3
<1> QED
  BY <1>1, <1>2, <1>3 DEF CacheInv, ThreadsInv

LEMMA CancelKeeps == ASSUME CacheInv, Cancel PROVE CacheInv'
<1>1. /\ UNCHANGED files /\ returned' = returned /\ quiet' = quiet /\ job' = Nobody
      /\ job \in Tasks /\ job \in Job
      /\ strays' = strays \/ (Cardinality(strays) < MaxStrays /\ strays' = strays \cup {job})
  BY DEF Cancel, CacheInv, ThreadsInv
<1>2. FilesInv'
  BY <1>1 DEF CacheInv, FilesInv, files
<1>3. IsFiniteSet(strays') /\ Cardinality(strays') <= MaxStrays
  <2>1. IsFiniteSet(strays) /\ Cardinality(strays) \in Nat /\ Cardinality(strays) <= MaxStrays
        /\ MaxStrays \in Nat
    BY FS_CardinalityType, CacheAssumption DEF CacheInv, ThreadsInv
  <2>2. /\ IsFiniteSet(strays \cup {job})
        /\ \/ Cardinality(strays \cup {job}) = Cardinality(strays)
           \/ Cardinality(strays \cup {job}) = Cardinality(strays) + 1
    BY <2>1, FS_AddElement
  <2>3. CASE strays' = strays
    BY <2>1, <2>3
  <2>4. CASE Cardinality(strays) < MaxStrays /\ strays' = strays \cup {job}
    <3>1. Cardinality(strays \cup {job}) <= MaxStrays
      BY <2>1, <2>2, <2>4
    <3> QED
      BY <2>2, <2>4, <3>1
  <2> QED
    BY <1>1, <2>3, <2>4
<1> QED
  BY <1>1, <1>2, <1>3 DEF CacheInv, ThreadsInv

LEMMA OthersKeep ==
  ASSUME CacheInv, (\E c \in Covers : Serve(c) \/ Corrupts(c)) \/ Crash \/ CalmsDown
  PROVE  CacheInv'
<1>1. CASE \E c \in Covers : Serve(c)
  <2>1. PICK c \in Covers : Serve(c)
    BY <1>1
  <2>2. FilesInv'
    BY <2>1, ValidateKeeps DEF Serve, CacheInv
  <2> QED
    BY <2>1, <2>2 DEF Serve, CacheInv, ThreadsInv
<1>2. CASE \E c \in Covers : Corrupts(c)
  <2>1. PICK c \in Covers : Corrupts(c)
    BY <1>2
  <2>2. c \in Range(jpegs) /\ corrupt' = corrupt \cup {c} /\ UNCHANGED <<jpegs, mapping>>
    BY <2>1, OnDiskIs DEF Corrupts, Served, CacheInv, FilesInv
  <2>3. FilesInv'
    BY <2>2 DEF CacheInv, FilesInv
  <2> QED
    BY <2>1, <2>3 DEF Corrupts, CacheInv, ThreadsInv
<1>3. CASE Crash
  <2>1. FilesInv'
    BY <1>3 DEF Crash, files, CacheInv, FilesInv
  <2>2. IsFiniteSet({}) /\ Cardinality({}) <= MaxStrays
    BY FS_EmptySet, CacheAssumption
  <2> QED
    BY <1>3, <2>1, <2>2 DEF Crash, CacheInv, ThreadsInv
<1>4. CASE CalmsDown
  BY <1>4 DEF CalmsDown, files, CacheInv, FilesInv, ThreadsInv
<1> QED
  BY <1>1, <1>2, <1>3, <1>4

LEMMA CacheStep == ASSUME CacheInv, [CacheNext]_cacheVars PROVE CacheInv'
<1>1. CASE CallWorks
  BY <1>1, CallWorksKeeps
<1>2. CASE \E j \in strays : StrayWorks(j)
  BY <1>2, StrayWorksKeeps
<1>3. CASE (\E s \in Sources : Resolve(s)) \/ (\E c \in Covers : Fetch(c)) \/ FetchFails
  BY <1>3, CallKeeps
<1>4. CASE Cancel
  BY <1>4, CancelKeeps
<1>5. CASE (\E c \in Covers : Serve(c) \/ Corrupts(c)) \/ Crash \/ CalmsDown
  BY <1>5, OthersKeep
<1>6. CASE UNCHANGED cacheVars
  BY <1>6 DEF cacheVars, files, CacheInv, FilesInv, ThreadsInv
<1> QED
  BY <1>1, <1>2, <1>3, <1>4, <1>5, <1>6 DEF CacheNext

LEMMA CacheInvHolds == CacheSpec => []CacheInv
BY CacheStarts, CacheStep, PTL DEF CacheSpec

(* No cover is in two files, only covers that are there are corrupt, and a *)
(* thread has a cover where it needs one, whatever the others have done.   *)
THEOREM CacheTypes == CacheSpec => []CacheTypeOK
<1>1. CacheInv => CacheTypeOK
  BY DistinctCardinality DEF CacheInv, FilesInv, ThreadsInv, CacheTypeOK
<1> QED
  BY <1>1, CacheInvHolds, PTL

----------------------------------------------------------------------------
(* A cache that is left alone: the cover that was just rendered is the     *)
(* newest, so that the eviction never takes it, however full the cache is. *)

(* Nothing disturbs any more, and nothing is left of what did.             *)
Undisturbed ==
  /\ quiet /\ strays = {} /\ corrupt = {}
  /\ job = Nobody /\ returned = NoCover /\ Len(jpegs) <= Room

(* The cover is there and stays, though there may be one too many.         *)
StaysWhenEvicting(c) ==
  OnDisk(c) /\ Len(jpegs) <= Room + 1 /\ (Len(jpegs) > Room => jpegs[Len(jpegs)] = c)

RoomInv ==
  IF job.at \in {"commit", "evict"} THEN StaysWhenEvicting(job.cover) ELSE Len(jpegs) <= Room
CoverInv ==
  /\ job.at \in {"touch", "sweep"} => OnDisk(job.cover)
  /\ job.at = "touch" => mapping[job.source] = job.cover
  /\ job.at # "discard"
ReturnedInv ==
  /\ job = Nobody => (returned # NoCover => OnDisk(returned))
  /\ job # Nobody => returned = NoCover

HealInv == quiet /\ strays = {} /\ corrupt = {} /\ RoomInv /\ CoverInv /\ ReturnedInv

LEMMA CallGoesOnTo ==
  ASSUME NEW k \in Tasks, CallGoesOn(k)
  PROVE  /\ k.at \in {"hit", "done"} => job' = Nobody /\ returned' = k.cover
         /\ k.at = "stored" => job' = Go(k, "evict") /\ returned' = returned
         /\ k.at \in Reading \cup {"fetch"} \cup Storing \cup Evicting => job' = k /\ returned' = returned
<1>1. CASE k.at \in {"hit", "done"}
  BY <1>1 DEF CallGoesOn, Return, Reading, Storing, Evicting
<1>2. CASE k.at \in {"failed", "stored"}
  BY <1>2 DEF CallGoesOn, Return, Reading, Storing, Evicting
<1>3. CASE k.at \notin {"hit", "done", "failed", "stored"}
  BY <1>3 DEF CallGoesOn
<1> QED
  BY <1>1, <1>2, <1>3

LEMMA NobodyIsNoTask == ASSUME NEW k \in Tasks PROVE k # Nobody /\ k \in Task
<1>1. k \in Task /\ k.at # "nobody"
  BY DEF Tasks, Task, Reading, Storing, Evicting
<1> QED
  BY <1>1 DEF Nobody

(* The call looks for a cover that it has, and uses it.                    *)
LEMMA HealLooking ==
  ASSUME CacheInv, HealInv, CallWorks,
         NotFound(job, "call") \/ Found(job, "call") \/ Touched(job, "call") \/ NotTouched(job, "call")
  PROVE  HealInv'
<1>1. /\ job \in Tasks /\ strays' = {} /\ quiet' = TRUE /\ corrupt = {} /\ returned = NoCover
      /\ jpegs \in Seq(Covers) /\ Distinct(jpegs) /\ mapping \in [Sources -> Covers \cup {NoCover}]
  BY DEF CacheInv, FilesInv, ThreadsInv, CallWorks, HealInv, ReturnedInv
<1>2. job \in Task /\ job # Nobody /\ job.source \in Sources /\ HasCover(job)
  BY <1>1, NobodyIsNoTask DEF Tasks, Task
<1>3. CASE NotFound(job, "call")
  <2>1. jpegs' = jpegs /\ corrupt' = {} /\ mapping' = mapping /\ CallGoesOn(Miss(job))
        /\ Len(jpegs) <= Room
    BY <1>1, <1>3 DEF NotFound, Validate, Then, HealInv, RoomInv
  <2>2. Miss(job) \in Tasks /\ Miss(job).at \in {"look", "fetch"}
    <3>1. Miss(job).at \in {"look", "fetch"}
      BY <1>2 DEF Miss, Go, Task
    <3> QED
      BY <1>1, <3>1, MissIsTask
  <2> DEFINE k == Miss(job)
  <2> HIDE DEF k
  <2>3. job' = k /\ returned' = NoCover /\ k.at \in {"look", "fetch"} /\ k # Nobody
    BY <1>1, <2>1, <2>2, CallGoesOnTo, NobodyIsNoTask DEF k, Reading
  <2> QED
    BY <1>1, <2>1, <2>3 DEF HealInv, RoomInv, CoverInv, ReturnedInv
<1>4. CASE Found(job, "call")
  <2> DEFINE c == mapping[job.source]
             k == [Go(job, "touch") EXCEPT !.cover = c]
  <2>1. /\ UNCHANGED files /\ CallGoesOn(k) /\ c \in Covers /\ OnDisk(c) /\ Len(jpegs) <= Room
    BY <1>1, <1>2, <1>4 DEF Found, Served, Then, HealInv, RoomInv
  <2>2. k \in Tasks /\ k.cover = c /\ k.source = job.source /\ k.at = "touch"
    BY <1>1, <2>1, GoWithIsTask
  <2> HIDE DEF k
  <2>3. job' = k /\ returned' = NoCover /\ k # Nobody
    BY <1>1, <2>1, <2>2, CallGoesOnTo, NobodyIsNoTask DEF Reading
  <2>4. jpegs' = jpegs /\ mapping' = mapping /\ corrupt' = {}
    BY <1>1, <2>1 DEF files
  <2>5. OnDisk(job.cover)' /\ mapping'[job'.source] = job'.cover
    BY <2>1, <2>2, <2>3, <2>4 DEF OnDisk
  <2> QED
    BY <1>1, <2>1, <2>2, <2>3, <2>4, <2>5 DEF HealInv, RoomInv, CoverInv, ReturnedInv
<1>5. CASE Touched(job, "call")
  <2> DEFINE c == job.cover
             k == Go(job, "hit")
  <2>1. /\ job.at = "touch" /\ OnDisk(c) /\ jpegs' = Append(AllBut(c), c) /\ corrupt' = {}
        /\ CallGoesOn(k)
    BY <1>1, <1>5 DEF Touched, Then
  <2>2. c \in Covers /\ Len(jpegs) <= Room
    BY <1>2, <2>1 DEF HasCover, HealInv, RoomInv
  <2>3. /\ jpegs' \in Seq(Covers) /\ Len(jpegs') = Len(jpegs) /\ c \in Range(jpegs')
    BY <1>1, <2>1, <2>2, NewestFacts
  <2>4. k \in Tasks /\ k.cover = c /\ k.at = "hit"
    BY <1>1, <2>2, GoIsTask
  <2> HIDE DEF k
  <2>5. job' = Nobody /\ returned' = c
    BY <2>1, <2>4, CallGoesOnTo
  <2>6. OnDisk(returned)'
    BY <2>3, <2>5, RangeIs DEF OnDisk
  <2> QED
    BY <1>1, <2>1, <2>2, <2>3, <2>5, <2>6 DEF HealInv, RoomInv, CoverInv, ReturnedInv, Nobody
<1>6. CASE NotTouched(job, "call")
  <2>1. job.at = "touch" /\ job.cover \in Covers /\ quiet
    BY <1>2, <1>6 DEF NotTouched, HasCover, HealInv
  <2>2. OnDisk(job.cover) /\ mapping[job.source] # NoCover
    BY <2>1, CacheAssumption DEF HealInv, CoverInv
  <2> QED
    BY <1>6, <2>1, <2>2 DEF NotTouched
<1> QED
  BY <1>3, <1>4, <1>5, <1>6

(* It stores the cover that it has fetched.                                *)
LEMMA HealStoring ==
  ASSUME CacheInv, HealInv, CallWorks, WriteCover(job, "call") \/ CommitMapping(job, "call")
  PROVE  HealInv'
<1>0. PICK c : c = job.cover
  OBVIOUS
<1>1. /\ job \in Tasks /\ strays' = {} /\ quiet' = TRUE /\ corrupt = {} /\ returned = NoCover
      /\ jpegs \in Seq(Covers) /\ Distinct(jpegs)
  BY DEF CacheInv, FilesInv, ThreadsInv, CallWorks, HealInv, ReturnedInv
<1>2. job \in Task /\ HasCover(job)
  BY <1>1, NobodyIsNoTask DEF Tasks
<1>3. CASE WriteCover(job, "call")
  <2> DEFINE k == Go(job, "commit")
  <2>1. /\ jpegs' = IF Served(c) THEN jpegs ELSE Append(AllBut(c), c)
        /\ corrupt' = {} /\ CallGoesOn(k) /\ c \in Covers /\ Len(jpegs) <= Room
    BY <1>0, <1>1, <1>2, <1>3 DEF WriteCover, Then, HasCover, HealInv, RoomInv
  <2>2. k \in Tasks /\ k.cover = c /\ k.at = "commit"
    BY <1>0, <1>1, <2>1, GoIsTask
  <2> HIDE DEF k
  <2>3. job' = k /\ returned' = NoCover /\ k # Nobody
    BY <1>1, <2>1, <2>2, CallGoesOnTo, NobodyIsNoTask DEF Storing
  <2>4. Len(jpegs) \in Nat /\ Room \in Nat
    BY <1>1, LenProperties, CacheAssumption
  <2>5. StaysWhenEvicting(c)'
    <3>1. CASE OnDisk(c)
      <4>1. jpegs' = jpegs
        BY <1>1, <2>1, <3>1 DEF Served
      <4> QED
        BY <2>1, <2>4, <3>1, <4>1 DEF StaysWhenEvicting, OnDisk
    <3>2. CASE ~ OnDisk(c)
      <4>1. jpegs' = Append(AllBut(c), c)
        BY <2>1, <3>2 DEF Served
      <4>2. /\ jpegs' \in Seq(Covers) /\ c \in Range(jpegs')
            /\ Len(jpegs') = Len(jpegs) + 1 /\ jpegs'[Len(jpegs')] = c
        BY <1>1, <2>1, <3>2, <4>1, NewestFacts
      <4>3. OnDisk(c)'
        BY <4>2, RangeIs DEF OnDisk
      <4>4. Len(jpegs') <= Room + 1
        BY <2>1, <2>4, <4>2
      <4> QED
        BY <4>2, <4>3, <4>4 DEF StaysWhenEvicting
    <3> QED
      BY <3>1, <3>2
  <2>6. StaysWhenEvicting(job.cover)'
    BY <2>2, <2>3, <2>5 DEF StaysWhenEvicting, OnDisk
  <2> QED
    BY <1>1, <2>1, <2>2, <2>3, <2>6 DEF HealInv, RoomInv, CoverInv, ReturnedInv
<1>4. CASE CommitMapping(job, "call")
  <2> DEFINE k == Go(job, "stored")
  <2>1. /\ jpegs' = jpegs /\ corrupt' = {} /\ CallGoesOn(k) /\ c \in Covers /\ StaysWhenEvicting(c)
    BY <1>0, <1>1, <1>2, <1>4 DEF CommitMapping, Then, HasCover, HealInv, RoomInv
  <2>2. k \in Tasks /\ k.cover = c /\ k.at = "stored"
    BY <1>0, <1>1, <2>1, GoIsTask
  <2> HIDE DEF k
  <2>3. job' = Go(k, "evict") /\ returned' = NoCover
    BY <1>1, <2>1, <2>2, CallGoesOnTo
  <2>4. job' \in Tasks /\ job'.cover = c /\ job'.at = "evict"
    BY <2>1, <2>2, <2>3, GoIsTask
  <2>5. job' # Nobody
    BY <2>4, NobodyIsNoTask
  <2>6. StaysWhenEvicting(job.cover)'
    BY <2>1, <2>4 DEF StaysWhenEvicting, OnDisk
  <2> QED
    BY <1>1, <2>1, <2>3, <2>4, <2>5, <2>6 DEF HealInv, RoomInv, CoverInv, ReturnedInv
<1> QED
  BY <1>3, <1>4

(* It makes room, and never at the cost of this cover.                     *)
LEMMA HealEvicting ==
  ASSUME CacheInv, HealInv, CallWorks, Evict(job, "call") \/ Sweep(job, "call")
  PROVE  HealInv'
<1>0. PICK c : c = job.cover
  OBVIOUS
<1>1. /\ job \in Tasks /\ strays' = {} /\ quiet' = TRUE /\ corrupt = {} /\ returned = NoCover
      /\ jpegs \in Seq(Covers) /\ Distinct(jpegs)
  BY DEF CacheInv, FilesInv, ThreadsInv, CallWorks, HealInv, ReturnedInv
<1>2. job \in Task /\ HasCover(job)
  BY <1>1, NobodyIsNoTask DEF Tasks
<1>3. CASE Evict(job, "call")
  <2> DEFINE k == Go(job, "sweep")
  <2>1. /\ jpegs' = IF Excess > 0 THEN SubSeq(jpegs, Excess + 1, Len(jpegs)) ELSE jpegs
        /\ corrupt' = {} /\ CallGoesOn(k) /\ c \in Covers /\ StaysWhenEvicting(c)
    BY <1>0, <1>1, <1>2, <1>3 DEF Evict, Then, HasCover, HealInv, RoomInv
  <2>2. k \in Tasks /\ k.cover = c /\ k.at = "sweep"
    BY <1>0, <1>1, <2>1, GoIsTask
  <2> HIDE DEF k
  <2>3. job' = k /\ returned' = NoCover /\ k # Nobody
    BY <1>1, <2>1, <2>2, CallGoesOnTo, NobodyIsNoTask DEF Evicting
  <2>4. Len(jpegs) \in Nat /\ Room \in Nat \ {0} /\ Len(jpegs) <= Room + 1 /\ Excess = Len(jpegs) - Room
    BY <1>1, <2>1, LenProperties, CacheAssumption DEF StaysWhenEvicting, Excess
  <2>5. Len(jpegs') <= Room /\ OnDisk(c)'
    <3>1. CASE Excess > 0
      <4>1. Excess = 1 /\ Len(jpegs) = Room + 1 /\ Excess \in 1 .. Len(jpegs) /\ Excess < Len(jpegs)
            /\ Len(jpegs) - Excess = Room
        BY <2>4, <3>1
      <4>2. jpegs[Len(jpegs)] = c
        BY <2>1, <2>4, <4>1 DEF StaysWhenEvicting
      <4> HIDE DEF Excess
      <4>3. jpegs' = SubSeq(jpegs, Excess + 1, Len(jpegs))
        BY <2>1, <3>1
      <4>4. /\ jpegs' \in Seq(Covers) /\ Len(jpegs') = Len(jpegs) - Excess
            /\ jpegs'[Len(jpegs')] = jpegs[Len(jpegs)]
        BY <1>1, <4>1, <4>3, KeptLast
      <4>5. Len(jpegs') = Room /\ Room \in 1 .. Room /\ DOMAIN jpegs' = 1 .. Room
        <5>1. Len(jpegs') = Room
          BY <4>1, <4>4
        <5>2. DOMAIN jpegs' = 1 .. Len(jpegs')
          BY <4>4, LenProperties
        <5> QED
          BY <2>4, <5>1, <5>2
      <4>6. jpegs'[Room] = c
        BY <4>2, <4>4, <4>5
      <4> QED
        BY <2>4, <4>5, <4>6 DEF OnDisk
    <3>2. CASE ~ (Excess > 0)
      <4>1. jpegs' = jpegs /\ Len(jpegs) <= Room
        BY <2>1, <2>4, <3>2
      <4> QED
        BY <2>1, <4>1 DEF StaysWhenEvicting, OnDisk
    <3> QED
      BY <3>1, <3>2
  <2>6. OnDisk(job.cover)'
    BY <2>2, <2>3, <2>5 DEF OnDisk
  <2> QED
    BY <1>1, <2>1, <2>2, <2>3, <2>5, <2>6 DEF HealInv, RoomInv, CoverInv, ReturnedInv
<1>4. CASE Sweep(job, "call")
  <2> DEFINE k == Go(job, "done")
  <2>1. /\ jpegs' = jpegs /\ corrupt' = {} /\ CallGoesOn(k) /\ c \in Covers
        /\ OnDisk(c) /\ Len(jpegs) <= Room
    BY <1>0, <1>1, <1>2, <1>4 DEF Sweep, Then, HasCover, HealInv, RoomInv, CoverInv
  <2>2. k \in Tasks /\ k.cover = c /\ k.at = "done"
    BY <1>0, <1>1, <2>1, GoIsTask
  <2> HIDE DEF k
  <2>3. job' = Nobody /\ returned' = c
    BY <2>1, <2>2, CallGoesOnTo
  <2>4. OnDisk(returned)'
    BY <2>1, <2>3 DEF OnDisk
  <2> QED
    BY <1>1, <2>1, <2>3, <2>4 DEF HealInv, RoomInv, CoverInv, ReturnedInv, Nobody
<1> QED
  BY <1>3, <1>4

(* Nothing is discarded, and nothing fails.                                *)
LEMMA HealCallWorks == ASSUME CacheInv, HealInv, CallWorks PROVE HealInv'
<1>1. ~ Discard(job, "call")
  BY DEF Discard, HealInv, CoverInv
<1>2. ~ Raises(job, "call")
  BY DEF Raises, HealInv
<1> QED
  BY <1>1, <1>2, HealLooking, HealStoring, HealEvicting DEF CallWorks, Works

LEMMA HealStep == ASSUME CacheInv, HealInv, [CacheNext]_cacheVars PROVE HealInv'
<1>1. CASE CallWorks
  BY <1>1, HealCallWorks
<1>2. CASE \E s \in Sources : Resolve(s)
  <2>1. PICK s \in Sources : Resolve(s)
    BY <1>2
  <2>2. /\ job = Nobody /\ job'.at = "look" /\ returned' = NoCover
        /\ UNCHANGED <<jpegs, corrupt, mapping, strays, quiet>>
    BY <2>1 DEF Resolve, files
  <2>3. job' # Nobody
    BY <2>2 DEF Nobody
  <2> QED
    BY <2>2, <2>3 DEF HealInv, RoomInv, CoverInv, ReturnedInv, Nobody
<1>3. CASE (\E c \in Covers : Fetch(c)) \/ FetchFails
  <2>1. /\ UNCHANGED <<jpegs, corrupt, mapping, strays, quiet>> /\ job \in Tasks /\ job.at = "fetch"
        /\ returned = NoCover /\ Len(jpegs) <= Room
    BY <1>3 DEF Fetch, FetchFails, files, CacheInv, ThreadsInv, HealInv, RoomInv, ReturnedInv
  <2>2. CASE \E c \in Covers : Fetch(c)
    <3>1. PICK c \in Covers : Fetch(c)
      BY <2>2
    <3>2. job' = [Go(job, "write") EXCEPT !.cover = c] /\ returned' = NoCover
      BY <2>1, <3>1 DEF Fetch
    <3>3. job' \in Tasks /\ job'.at = "write"
      BY <2>1, <3>2, GoWithIsTask
    <3>4. job' # Nobody
      BY <3>3, NobodyIsNoTask
    <3> QED
      BY <2>1, <3>2, <3>3, <3>4 DEF HealInv, RoomInv, CoverInv, ReturnedInv
  <2>3. CASE FetchFails
    BY <2>1, <2>3 DEF FetchFails, Return, HealInv, RoomInv, CoverInv, ReturnedInv, Nobody
  <2> QED
    BY <1>3, <2>2, <2>3
<1>4. CASE \E c \in Covers : Serve(c)
  <2>1. UNCHANGED <<jpegs, corrupt, mapping, job, strays, returned, quiet>>
    BY <1>4 DEF Serve, Validate, HealInv
  <2> QED
    BY <2>1 DEF HealInv, RoomInv, CoverInv, ReturnedInv, StaysWhenEvicting, OnDisk
<1>5. CASE UNCHANGED cacheVars
  BY <1>5 DEF cacheVars, files, HealInv, RoomInv, CoverInv, ReturnedInv, StaysWhenEvicting, OnDisk
<1>6. ~ Cancel /\ ~ Crash /\ ~ CalmsDown /\ (\A c \in Covers : ~ Corrupts(c))
      /\ ~ (\E j \in strays : StrayWorks(j))
  BY DEF Cancel, Crash, CalmsDown, Corrupts, HealInv
<1> QED
  BY <1>1, <1>2, <1>3, <1>4, <1>5, <1>6 DEF CacheNext

(* Once nothing is cancelled, fails, crashes or gets corrupt, and the      *)
(* cache is within its limit, every cover that resolve() returns is there  *)
(* for the device (test_artwork.py:48), whatever is asked for and whatever *)
(* the sources show.  That a cache which was disturbed gets there is the   *)
(* part of ServedInTheEnd that only the runs check.                        *)
THEOREM HealedForGood ==
  CacheSpec => [](Undisturbed => [](returned # NoCover => Served(returned)))
<1>1. Undisturbed => HealInv
  BY DEF Undisturbed, HealInv, RoomInv, CoverInv, ReturnedInv, Nobody
<1>2. CacheInv /\ HealInv /\ [CacheNext]_cacheVars => HealInv'
  BY HealStep
<1>3. HealInv => (returned # NoCover => Served(returned))
  BY DEF HealInv, ReturnedInv, Served
<1> QED
  BY <1>1, <1>2, <1>3, CacheInvHolds, PTL DEF CacheSpec

----------------------------------------------------------------------------
(* The parts together.  What the runs explore is a behaviour of each part, *)
(* so that whatever is proved of a part holds in every run of MCHost.      *)

LEMMA HostParts == HostSpec => BackendSpec /\ SessionSpec /\ PairingSpec /\ LimiterSpec /\ CacheSpec
<1>1. HostInit => BackendInit /\ SessionInit /\ PairingInit /\ LimiterInit /\ CacheInit
  BY DEF HostInit
<1>2. [HostNext]_hostVars => /\ [BackendNext]_backendVars /\ [SessionNext]_sessionVars
                             /\ [PairingNext]_pairingVars /\ [LimiterNext]_limiterVars
                             /\ [CacheNext]_cacheVars
  BY DEF HostNext, hostVars
<1> QED
  BY <1>1, <1>2, PTL DEF HostSpec, BackendSpec, SessionSpec, PairingSpec, LimiterSpec, CacheSpec

(* All parts of the host keep their types, for every part that is looked   *)
(* at.                                                                     *)
THEOREM HostTypes == HostSpec => []HostTypeOK
<1>1. BackendTypeOK /\ SessionTypeOK /\ PairingTypeOK /\ LimiterTypeOK /\ CacheTypeOK => HostTypeOK
  BY DEF HostTypeOK
<1> QED
  BY <1>1, HostParts, BackendTypes, SessionTypes, PairingTypes, LimiterTypes, CacheTypes, PTL

(* Everything that the run of the host's parts checks, for all values of   *)
(* the constants.                                                          *)
THEOREM HostIsSafe ==
  HostSpec => /\ [](HostTypeOK /\ KeptTokenIsAccepted /\ NeverMoreThanLimit)
              /\ StatesNeverGoBack /\ KeepsPromise /\ TokenFitsCode /\ ApprovalIsUnambiguous
              /\ SpacedIsAllowed /\ OutageIsBridged /\ PlayingStays
BY HostParts, HostTypes, TokensAreKept, AtMostLimit, StatesGoForward, PromiseIsKept, TokensFitCodes,
   CodesAreUnambiguous, RefusedOnlyIfClose, OutagesAreBridged, PlayingPlayersStay, PTL
=============================================================================
