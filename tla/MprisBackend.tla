---------------------------- MODULE MprisBackend ----------------------------
(***************************************************************************)
(* MPRISBackend of backends/mpris.py: the poll task that follows the media  *)
(* players on the session bus, the state it holds over a short outage of    *)
(* the bus, and the commands that devices send to it.  The poll task gives  *)
(* up the loop at every bus call, so each call is a step of its own and     *)
(* commands fall in between.                                               *)
(*                                                                         *)
(* A snapshot is reduced to the player and its status: the content of a     *)
(* state as far as choosing and holding it goes.  The time between two      *)
(* publications of unchanged content (POSITION_SYNC_SECONDS) is left out:   *)
(* publishing the same content again changes nothing here.                  *)
(***************************************************************************)
EXTENDS PlayerSelection

CONSTANTS Grace,         \* MPRIS_RECONNECT_STATE_GRACE_SECONDS
          MaxDelay,      \* the cap of the reconnect delay, in seconds
          MaxFailures,   \* MAX_SNAPSHOT_FAILURES
          MaxSilence     \* bound of this model: where the history clock stops

ASSUME BackendAssumption ==
    /\ Grace \in Nat \ {0} /\ MaxDelay \in Nat \ {0} /\ MaxFailures \in Nat \ {0}
    /\ MaxSilence \in Nat /\ MaxSilence >= Grace

VARIABLES
    busAlive, names, status,      \* the session bus and the players on it
    bus,                          \* _bus is not None
    clients,                      \* _players
    snapshots,                    \* _snapshots, a function of those that have one
    failures,                     \* _snapshot_failures
    current,                      \* _current, which is what the service was given last
    preferred,                    \* _preferred_player
    outage,                       \* seconds since _connection_failure_since, or None
    delay,                        \* reconnect_delay
    task, todo,                   \* where the poll task is, and the players left to visit
    scanDue,                      \* _last_scan is too old for another cycle without a scan
    answer,                       \* did the command just executed return a result
    silence                       \* history: seconds since a poll last succeeded

environment == <<busAlive, names, status>>
backendVars == <<busAlive, names, status, bus, clients, snapshots, failures, current,
          preferred, outage, delay, task, todo, scanDue, answer, silence>>

Empty == [player |-> NoPlayer, status |-> "stopped"]
Shown == [player : Players \cup {NoPlayer}, status : Statuses]
Steps == {"connect", "scan", "attach", "refresh", "wait", "backoff"}
Lesser(a, b) == IF a <= b THEN a ELSE b

Without(f, S) == [p \in DOMAIN f \ S |-> f[p]]
With(f, p, v) == [q \in DOMAIN f \cup {p} |-> IF q = p THEN v ELSE f[q]]

BackendInit ==
    /\ busAlive \in BOOLEAN /\ names \in SUBSET Players /\ status = [p \in Players |-> "stopped"]
    /\ bus = FALSE /\ clients = {} /\ snapshots = <<>> /\ failures = [p \in Players |-> 0]
    /\ current = Empty
    /\ preferred \in Players \cup {NoPlayer}
    /\ outage = NoPlayer /\ delay = 1
    /\ task = "connect" /\ todo = {} /\ scanDue = TRUE
    /\ answer = "result" /\ silence = 0

-----------------------------------------------------------------------------
(* Time and the poll task.                                                 *)

(* _publish(force=True), and without force when the content is the same.   *)
Publish(state) == current' = state

(* The bounded calls of the poll task take up to some seconds. *)
Passes(d) ==
    /\ silence' = Lesser(silence + d, MaxSilence)
    /\ outage' = IF outage = NoPlayer THEN NoPlayer ELSE Lesser(outage + d, MaxSilence)

(* _connect_bus, tried whenever there is no bus. *)
ConnectBus ==
    /\ task = "connect" /\ busAlive
    /\ bus' = TRUE /\ scanDue' = TRUE /\ delay' = 1
    /\ task' = "scan"
    /\ UNCHANGED <<environment, clients, snapshots, failures, current, preferred,
                   outage, todo, silence>>

(* _hold_state_during_reconnect: the state to go on with after a failure.  *)
Held == IF outage # NoPlayer /\ outage >= Grace THEN Empty ELSE current

(* What is thrown away when a call on the bus raises. *)
Disconnected ==
    /\ bus' = FALSE /\ clients' = {} /\ snapshots' = <<>> /\ failures' = [p \in Players |-> 0]

PollFails ==
    /\ task \in {"connect", "scan", "attach", "refresh"} /\ ~busAlive
    /\ Disconnected
    /\ outage' = IF outage = NoPlayer THEN 0 ELSE outage
    /\ Publish(Held)
    /\ task' = "backoff" /\ todo' = {}
    /\ UNCHANGED <<environment, preferred, delay, scanDue, silence>>

(* _wait(reconnect_delay): the next attempt, earlier when a command wakes   *)
(* the task.                                                               *)
BackoffEnds ==
    /\ task = "backoff"
    /\ \E d \in 0 .. delay : Passes(d)
    /\ delay' = Lesser(MaxDelay, delay * 2)
    /\ task' = "connect"
    /\ UNCHANGED <<environment, bus, clients, snapshots, failures, current, preferred,
                   todo, scanDue>>

Remembered == Without(snapshots, clients \ names)

(* _poll_once: the scan for players forgets those that have left, and       *)
(* leaves the new ones to be inspected.  The history clock runs here.      *)
Scan ==
    /\ task = "scan" /\ busAlive
    /\ clients' = clients \cap names
    /\ snapshots' = Remembered
    /\ failures' = [p \in Players |-> IF p \in clients \ names THEN 0 ELSE failures[p]]
    /\ todo' = names \ clients
    /\ scanDue' = FALSE
    /\ task' = "attach"
    /\ \E d \in 0 .. 1 : Passes(d)
    /\ UNCHANGED <<environment, bus, current, preferred, delay>>

SkipScan ==
    /\ task = "scan" /\ ~scanDue
    /\ task' = "refresh" /\ todo' = clients
    /\ UNCHANGED <<environment, bus, clients, snapshots, failures, current, preferred,
                   outage, delay, scanDue, silence>>

(* _MPRISPlayer.connect of one new player: it answers or it does not. *)
Attach ==
    /\ task = "attach"
    /\ \E p \in todo :
          /\ todo' = todo \ {p}
          /\ \/ clients' = clients \cup {p} /\ busAlive
             \/ clients' = clients
    /\ UNCHANGED <<environment, bus, snapshots, failures, current, preferred, outage,
                   delay, task, scanDue, silence>>

AttachEnds ==
    /\ task = "attach" /\ todo = {}
    /\ task' = "refresh" /\ todo' = clients
    /\ UNCHANGED <<environment, bus, clients, snapshots, failures, current, preferred,
                   outage, delay, scanDue, silence>>

(* A player's answer replaces its snapshot; one that keeps failing loses it. *)
Refreshed(p) ==
    /\ busAlive /\ p \in names
    /\ snapshots' = With(snapshots, p, status[p])
    /\ failures' = [failures EXCEPT ![p] = 0]

NotRefreshed(p) ==
    /\ failures' = [failures EXCEPT ![p] = Lesser(MaxFailures, @ + 1)]
    /\ snapshots' = IF failures[p] + 1 >= MaxFailures THEN Without(snapshots, {p}) ELSE snapshots

Refresh ==
    /\ task = "refresh"
    /\ \E p \in todo :
          /\ Refreshed(p) \/ NotRefreshed(p)
          /\ todo' = todo \ {p}
    /\ UNCHANGED <<environment, bus, clients, current, preferred, outage, delay, task,
                   scanDue, silence>>

Selected == SelectActivePlayer(snapshots, current.player, preferred)

(* A slip: an outage that is over is not forgotten. *)
SelectKeepsOutage ==
    /\ task = "refresh" /\ todo = {}
    /\ Publish(IF Selected = NoPlayer THEN Empty
               ELSE [player |-> Selected, status |-> snapshots[Selected]])
    /\ UNCHANGED outage /\ silence' = 0
    /\ task' = "wait"
    /\ UNCHANGED <<environment, bus, clients, snapshots, failures, preferred, delay, todo,
                   scanDue>>

(* The rest of _poll_once and of the loop around it, without a bus call.   *)
Select ==
    /\ task = "refresh" /\ todo = {}
    /\ Publish(IF Selected = NoPlayer THEN Empty
               ELSE [player |-> Selected, status |-> snapshots[Selected]])
    /\ outage' = NoPlayer /\ silence' = 0
    /\ task' = "wait"
    /\ UNCHANGED <<environment, bus, clients, snapshots, failures, preferred, delay, todo,
                   scanDue>>

(* _wait(POLL_SECONDS); every PLAYER_SCAN_SECONDS the next cycle scans.    *)
WaitEnds ==
    /\ task = "wait"
    /\ task' = "scan"
    /\ scanDue' \in BOOLEAN
    /\ UNCHANGED <<environment, bus, clients, snapshots, failures, current, preferred,
                   outage, delay, todo, silence>>

Poll ==
    /\ \/ ConnectBus \/ PollFails \/ BackoffEnds \/ Scan \/ SkipScan \/ Attach \/ AttachEnds
       \/ Refresh \/ Select \/ WaitEnds
    /\ answer' = "result"

-----------------------------------------------------------------------------
(* Commands of the devices.                                                *)

Answers(a) ==
    /\ answer' = a
    /\ UNCHANGED <<environment, bus, clients, snapshots, failures, outage, delay, task, todo,
                   scanDue, silence>>

(* select_player: the check looks at _players, the lookup at _snapshots.   *)
SelectPlayer(p) ==
    \/ /\ p \notin clients
       /\ Answers("result") /\ UNCHANGED <<current, preferred>>
    \/ /\ p \in clients /\ p \in DOMAIN snapshots
       /\ preferred' = p /\ Publish([player |-> p, status |-> snapshots[p]])
       /\ Answers("result")
    \/ /\ p \in clients /\ p \notin DOMAIN snapshots
       /\ preferred' = p /\ UNCHANGED <<current>>
       /\ Answers("raised")

(* Every other command goes to the client of the current player, whose      *)
(* bounded calls answer, reject or time out.                               *)
Control == Answers("result") /\ UNCHANGED <<current, preferred>>

Command == (\E p \in Players : SelectPlayer(p)) \/ Control

(* The desktop: the bus and the players on it come, change and go; one that  *)
(* comes has stopped.                                                      *)
Desktop ==
    /\ \/ busAlive' = ~busAlive /\ UNCHANGED <<names, status>>
       \/ /\ \E p \in Players \ names : names' = names \cup {p}
          /\ UNCHANGED <<busAlive, status>>
       \/ /\ \E p \in names : names' = names \ {p} /\ status' = [status EXCEPT ![p] = "stopped"]
          /\ UNCHANGED busAlive
       \/ /\ \E p \in names, s \in Statuses : status' = [status EXCEPT ![p] = s]
          /\ UNCHANGED <<busAlive, names>>
    /\ UNCHANGED <<bus, clients, snapshots, failures, current, preferred, outage, delay,
                   task, todo, scanDue, silence>>
    /\ answer' = "result"

BackendNext == Poll \/ Command \/ Desktop

BackendSpec == BackendInit /\ [][BackendNext]_backendVars

(* A player on a working bus answers. *)
Responds(p) == /\ Poll
               /\ \/ Attach /\ p \in clients' \ clients
                  \/ Refresh /\ p \in todo \ todo' /\ Refreshed(p)

-----------------------------------------------------------------------------
BackendTypeOK ==
    /\ busAlive \in BOOLEAN /\ names \in SUBSET Players /\ status \in [Players -> Statuses]
    /\ bus \in BOOLEAN /\ clients \in SUBSET Players
    /\ DOMAIN snapshots \subseteq clients /\ \A p \in DOMAIN snapshots : snapshots[p] \in Statuses
    /\ failures \in [Players -> 0 .. MaxFailures]
    /\ current \in Shown /\ preferred \in Players \cup {NoPlayer}
    /\ outage \in 0 .. MaxSilence \cup {NoPlayer} /\ delay \in 1 .. MaxDelay
    /\ task \in Steps /\ todo \in SUBSET Players /\ scanDue \in BOOLEAN
    /\ answer \in {"result", "raised"} /\ silence \in 0 .. MaxSilence

(* Each outage has its own grace: the reconnect path of the poll task       *)
(* (mpris.py:386) gives a state up only when no poll has succeeded for      *)
(* Grace seconds, however often the bus came and went before.               *)
OutageIsBridged ==
    [][task' = "backoff" /\ task # "backoff" /\ current' # current => silence >= Grace]_backendVars

(* A poll never takes a playing player off the display while it plays, but   *)
(* for the preferred one that plays too (models.py:258).                    *)
PlayingStays ==
    [][task = "refresh" /\ task' = "wait"
          /\ current.player \in Playing(snapshots) /\ current'.player # current.player
          => current'.player = preferred /\ preferred \in Playing(snapshots)]_backendVars

(* Once the bus works and a single player plays for good, it gets shown,     *)
(* whatever failures and choices came before (mpris.py:360).                 *)
PlayingIsShown(p) ==
    <>[](busAlive /\ p \in names /\ status[p] = "playing"
         /\ \A q \in Players \ {p} : status[q] # "playing")
    => []<>(current = [player |-> p, status |-> "playing"])

(* PROTOCOL.md: all failures of backend calls return a command_result.       *)
FailuresAreResults == answer # "raised"
=============================================================================
