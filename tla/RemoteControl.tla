---------------------------- MODULE RemoteControl ----------------------------
(***************************************************************************)
(* From a press of a control to the player and back: handleCommand and       *)
(* consumeQueues of the application task, the command and feedback queues,   *)
(* processCommands, handleCommandResult and handlePlayers of the network     *)
(* task, the socket, and the execution by MPRISBackend._execute.             *)
(*                                                                         *)
(* A state of the player is reduced to what controls change; that it may     *)
(* refuse control is left out.  Volumes are counted in steps                 *)
(* (volumeStepPercent); -1 is a player without volume.  Seeking and changing  *)
(* the track have no effect on such a state.                                 *)
(*                                                                         *)
(* When the device has lost a connection, the host's handler of that        *)
(* connection may go on with the frames that it has received, beside the    *)
(* handler of the next one.                                                  *)
(***************************************************************************)
EXTENDS Integers, Sequences

CONSTANTS
    Users,          \* the users of this instance: the sets of controls they use
    Desktops,       \* states that the player may be in, or be put into, from outside
    Lists,          \* player lists that the host may report, sequences of players
    MaxVolume,      \* 100 %, in steps
    CommandRoom,    \* length of the command queue (16)
    FeedbackRoom,   \* length of the feedback queue (8)
    MaxPresses,     \* bound of this model: presses that are accepted
    MaxWire,        \* bound of this model: frames under way on a connection
    MaxLinks        \* bound of this model: connections

Controls == {"volume_up", "volume_down", "toggle", "mute", "next", "seek", "shuffle_toggle",
             "set_repeat", "list_players", "next_player", "select_player"}

Repeats == {"off", "track", "playlist"}
State == [volume : -1 .. MaxVolume, muted : BOOLEAN, repeat : Repeats, shuffle : BOOLEAN,
          playing : BOOLEAN]

ASSUME ControlAssumption ==
    /\ \A u \in Users : u \subseteq Controls
    /\ Desktops \subseteq State /\ MaxVolume \in Nat
    /\ \A l \in Lists : l = <<>> \/ Len(l) \in Nat \ {0}
    /\ CommandRoom \in Nat \ {0} /\ FeedbackRoom \in Nat \ {0}
    /\ MaxPresses \in Nat /\ MaxWire \in Nat \ {0} /\ MaxLinks \in Nat

VARIABLES
    player, current, restore,      \* the player; _current and _muted_restore_volume of the backend
    connected,                     \* there is a socket; it is that of the last connection
    up,                            \* for each connection, the frames still to be executed
    down,                          \* the frames under way to the device
    commands, feedback,            \* commandQueue_ and feedbackQueue_
    snapshot, list,                \* playbackQueue_ and playerQueue_: <<>> or one entry
    online, playback, optimistic,  \* hostConnected, playback_, optimisticVolumePercent_
    players, selected,             \* players_ and selectedPlayer_
    user,                          \* the controls that are used
    pressed, unsent,               \* history: presses queued, those told as unsent
    executed                       \* history: presses in the order in which they were executed

host == <<player, current, restore>>
wire == <<connected, up, down>>
queues == <<commands, feedback, snapshot, list>>
application == <<online, playback, optimistic, players, selected>>
history == <<pressed, executed, unsent>>
controlVars == <<user, host, wire, queues, application, history>>

Nothing == [volume |-> -1, muted |-> FALSE, repeat |-> "off", shuffle |-> FALSE, playing |-> FALSE]

ControlInit ==
    /\ user \in Users
    /\ player \in Desktops /\ current = player /\ restore = MaxVolume
    /\ connected = FALSE /\ up = <<>> /\ down = <<>>
    /\ commands = <<>> /\ feedback = <<>> /\ snapshot = <<>> /\ list = <<>>
    /\ online = FALSE /\ playback = <<>> /\ optimistic = -1
    /\ players = <<>> /\ selected = 0
    /\ pressed = 0 /\ executed = <<>> /\ unsent = {}

-----------------------------------------------------------------------------
(* The application task.                                                   *)

(* A slip: the optimistic volume stays. *)
OptimisticKept(s) == optimistic
OptimisticAfter(s) == s.volume

(* Selected in a new list is the player that is shown, wherever it stands,   *)
(* or the first. *)
Preselected(l) == selected' \in {0} \cup 0 .. Len(l) - 1

(* consumeQueues: all notices, at most one snapshot and list, all feedback. *)
ConsumeQueues ==
    /\ online' = connected
    /\ IF snapshot = <<>> THEN UNCHANGED <<playback, optimistic>>
       ELSE playback' = snapshot /\ optimistic' = OptimisticAfter(snapshot[1])
    /\ IF list = <<>> THEN UNCHANGED <<players, selected>>
       ELSE players' = list[1] /\ Preselected(list[1])
    /\ snapshot' = <<>> /\ list' = <<>> /\ feedback' = <<>>
    /\ UNCHANGED <<user, host, wire, commands, history>>

(* mediaControlAvailable *)
Available == online /\ playback # <<>>
Shown == playback[1]
HasRoom == Len(commands) < CommandRoom

(* sendRequest, with room in the queue.  Without it a toast says so. *)
SendRequest(kind, value) ==
    /\ pressed' = pressed + 1
    /\ commands' = Append(commands, [id |-> pressed', kind |-> kind, value |-> value])

Clamped(v) == IF v < 0 THEN 0 ELSE IF v > MaxVolume THEN MaxVolume ELSE v

(* The optimistic volume moves even when the queue has no room; what is      *)
(* displayed does not.                                                     *)
PressVolume(kind) ==
    /\ Available
    /\ LET target == Clamped(optimistic + (IF kind = "volume_up" THEN 1 ELSE -1)) IN
       \/ /\ optimistic < 0 /\ HasRoom
          /\ SendRequest(kind, 0) /\ UNCHANGED <<optimistic, playback>>
       \/ /\ optimistic >= 0 /\ HasRoom
          /\ SendRequest("set_volume", target)
          /\ optimistic' = target
          /\ playback' = <<[Shown EXCEPT !.volume = target, !.muted = (target = 0)]>>
       \/ /\ optimistic >= 0 /\ ~HasRoom
          /\ optimistic' = target /\ UNCHANGED <<commands, pressed, playback>>
    /\ UNCHANGED <<online, players, selected>>

After(mode) == CASE mode = "off" -> "track" [] mode = "track" -> "playlist" [] OTHER -> "off"

(* playback_ takes the new mode even when the queue has no room. *)
PressRepeat ==
    /\ Available
    /\ playback' = <<[Shown EXCEPT !.repeat = After(@)]>>
    /\ \/ HasRoom /\ SendRequest("set_repeat", After(Shown.repeat))
       \/ ~HasRoom /\ UNCHANGED <<commands, pressed>>
    /\ UNCHANGED <<online, optimistic, players, selected>>

(* The other controls change what is shown only if the request was queued. *)
Flipped(kind) ==
    CASE kind = "toggle" -> [Shown EXCEPT !.playing = ~@]
      [] kind = "mute" -> [Shown EXCEPT !.muted = ~@]
      [] kind = "shuffle_toggle" -> [Shown EXCEPT !.shuffle = ~@]
      [] OTHER -> Shown

PressSimple(kind) ==
    /\ Available /\ HasRoom
    /\ SendRequest(kind, 0)
    /\ playback' = <<Flipped(kind)>>
    /\ UNCHANGED <<online, optimistic, players, selected>>

(* requestPlayers, selectRelativePlayer and selectPlayer. *)
PressPlayers(kind) ==
    /\ \/ kind = "list_players" /\ online /\ HasRoom /\ SendRequest(kind, 0) /\ UNCHANGED selected
       \/ /\ kind = "next_player" /\ players # <<>>
          /\ selected' = (selected + Len(players) + 1) % Len(players)
          /\ UNCHANGED <<commands, pressed>>
       \/ /\ kind = "select_player" /\ online /\ selected < Len(players) /\ HasRoom
          /\ SendRequest(kind, players[selected + 1]) /\ UNCHANGED selected
    /\ UNCHANGED <<online, playback, optimistic, players>>

(* consumeInput and handleCommand. *)
Press ==
    /\ pressed < MaxPresses
    /\ \E kind \in user :
          \/ kind \in {"volume_up", "volume_down"} /\ PressVolume(kind)
          \/ kind = "set_repeat" /\ PressRepeat
          \/ kind \in {"toggle", "mute", "next", "seek", "shuffle_toggle"} /\ PressSimple(kind)
          \/ kind \in {"list_players", "next_player", "select_player"} /\ PressPlayers(kind)
    /\ UNCHANGED <<user, host, wire, feedback, snapshot, list, executed, unsent>>

-----------------------------------------------------------------------------
(* The network task.                                                       *)

Unsent(r) == [id |-> r.id, success |-> FALSE]

(* What the code does when the feedback queue is full: the new one is lost. *)
FeedbackIfRoom(f) == IF Len(feedback) < FeedbackRoom THEN Append(feedback, f) ELSE feedback

(* handleCommandResult does otherwise: the oldest one is lost. *)
FeedbackNewest(f) ==
    IF Len(feedback) < FeedbackRoom THEN Append(feedback, f) ELSE Append(Tail(feedback), f)

Request == Head(commands)
Link == Len(up)     \* the number of the present or last connection

CanSend == commands # <<>> /\ connected /\ Len(up[Link]) < MaxWire

(* A slip: the request stays in the queue. *)
SendCommandAndKeep ==
    /\ CanSend
    /\ up' = [up EXCEPT ![Link] = Append(@, Request)]
    /\ UNCHANGED <<user, host, connected, down, queues, application, history>>
SendCommand ==
    /\ CanSend
    /\ up' = [up EXCEPT ![Link] = Append(@, Request)] /\ commands' = Tail(commands)
    /\ UNCHANGED <<user, host, connected, down, feedback, snapshot, list, application, history>>

(* A slip: the request is tried again later. *)
RejectAndKeep ==
    /\ commands # <<>>
    /\ commands' = Tail(commands) \o <<Request>>
    /\ feedback' = FeedbackIfRoom(Unsent(Request))
    /\ unsent' = unsent \cup {Request.id}
    /\ UNCHANGED <<user, host, wire, snapshot, list, application, pressed, executed>>

(* sendTXT failed, or there is no socket (processCommands,                  *)
(* rejectQueuedCommands).                                                   *)
RejectCommand ==
    /\ commands # <<>>
    /\ commands' = Tail(commands)
    /\ feedback' = FeedbackIfRoom(Unsent(Request))
    /\ unsent' = unsent \cup {Request.id}
    /\ UNCHANGED <<user, host, wire, snapshot, list, application, pressed, executed>>

Receive ==
    /\ down # <<>>
    /\ down' = Tail(down)
    /\ LET frame == Head(down) IN
       \/ /\ frame.type = "state"
          /\ snapshot' = <<frame.state>> /\ UNCHANGED <<feedback, list>>
       \/ /\ frame.type = "result"
          /\ feedback' = FeedbackNewest([id |-> frame.id, success |-> frame.success])
          /\ UNCHANGED <<snapshot, list>>
       \/ /\ frame.type = "players"
          /\ list' = <<frame.list>> /\ UNCHANGED <<feedback, snapshot>>
    /\ UNCHANGED <<user, host, connected, up, commands, application, history>>

Connect ==
    /\ ~connected /\ Link < MaxLinks
    /\ connected' = TRUE /\ up' = Append(up, <<>>)
    /\ down' = <<[type |-> "state", state |-> current]>>
    /\ UNCHANGED <<user, host, queues, application, history>>

(* Frames to the device are lost with the socket.  Those that the host has  *)
(* received, the first n, stay with the handler, which executes some of them *)
(* until it notices.                                                        *)
Disconnect ==
    /\ connected
    /\ connected' = FALSE /\ down' = <<>>
    /\ \E n \in 0 .. Len(up[Link]) : up' = [up EXCEPT ![Link] = SubSeq(@, 1, n)]
    /\ UNCHANGED <<user, host, queues, application, history>>

Network == SendCommand \/ RejectCommand \/ Receive

-----------------------------------------------------------------------------
(* The host and the player.                                                *)

WithVolume(s, v) == IF s.volume < 0 THEN s ELSE [s EXCEPT !.volume = v, !.muted = (v = 0)]

(* Muting, volume steps and shuffle go by the last snapshot, not by what the *)
(* player does now.                                                        *)
MuteTarget == IF current.volume > 0 THEN 0 ELSE restore

Effect(r) ==
    CASE r.kind = "set_volume" -> WithVolume(player, r.value)
      [] r.kind = "volume_up" -> WithVolume(player, Clamped(current.volume + 1))
      [] r.kind = "volume_down" -> WithVolume(player, Clamped(current.volume - 1))
      [] r.kind = "mute" -> WithVolume(player, MuteTarget)
      [] r.kind = "toggle" -> [player EXCEPT !.playing = ~@]
      [] r.kind = "shuffle_toggle" -> [player EXCEPT !.shuffle = ~current.shuffle]
      [] r.kind = "set_repeat" -> [player EXCEPT !.repeat = r.value]
      [] OTHER -> player

VolumeCommands == {"set_volume", "volume_up", "volume_down", "mute"}
Supported(r) == r.kind \in VolumeCommands => current.volume >= 0

(* What a handler answers gets to the device over the present socket only. *)
Answer(link, frame) ==
    IF connected /\ link = Link
    THEN Len(down) < MaxWire /\ down' = Append(down, frame)
    ELSE UNCHANGED down

(* A handler, that of the present connection or an earlier one.  A command   *)
(* is done, or it fails: without effect, or with one when its answer came    *)
(* too late.                                                               *)
Execute(link) ==
    /\ link \in 1 .. Link /\ up[link] # <<>>
    /\ up' = [up EXCEPT ![link] = Tail(@)]
    /\ LET r == Head(up[link]) IN
       /\ executed' = Append(executed, [id |-> r.id, link |-> link])
       /\ \/ /\ r.kind = "list_players"
             /\ \E l \in Lists : Answer(link, [type |-> "players", list |-> l])
             /\ UNCHANGED <<player, restore>>
          \/ /\ r.kind # "list_players"
             /\ \E success \in BOOLEAN :
                   /\ Answer(link, [type |-> "result", id |-> r.id, success |-> success])
                   /\ \/ Supported(r) /\ player' = Effect(r)
                         /\ restore' = IF r.kind = "mute" /\ current.volume > 0
                                       THEN current.volume ELSE restore
                      \/ ~success /\ UNCHANGED <<player, restore>>
    /\ UNCHANGED <<user, current, connected, queues, application, pressed, unsent>>

Host == \E link \in 1 .. Link : Execute(link)

(* A poll takes a new snapshot, which goes to the session. *)
Poll ==
    /\ current' = player
    /\ \/ connected /\ Len(down) < MaxWire /\ down' = Append(down, [type |-> "state", state |-> player])
       \/ ~connected /\ UNCHANGED down
    /\ UNCHANGED <<user, player, restore, connected, up, queues, application, history>>

Desktop ==
    /\ player' \in Desktops
    /\ UNCHANGED <<user, current, restore, wire, queues, application, history>>

ControlNext == ConsumeQueues \/ Press \/ Network \/ Connect \/ Disconnect \/ Host \/ Poll \/ Desktop

ControlSpec == ControlInit /\ [][ControlNext]_controlVars

-----------------------------------------------------------------------------
ControlTypeOK ==
    /\ {player, current} \subseteq State /\ restore \in 0 .. MaxVolume
    /\ {connected, online} \subseteq BOOLEAN
    /\ Link <= MaxLinks /\ \A link \in 1 .. Link : Len(up[link]) <= MaxWire
    /\ Len(down) <= MaxWire
    /\ Len(commands) <= CommandRoom /\ Len(feedback) <= FeedbackRoom
    /\ playback = <<>> \/ playback[1] \in State
    /\ optimistic \in -1 .. MaxVolume
    /\ players \in Lists \cup {<<>>} /\ (players # <<>> => selected < Len(players))
    /\ pressed \in 0 .. MaxPresses
    /\ \A i \in 1 .. Len(executed) : executed[i].id \in 0 .. MaxPresses

(* Each press gets to the player at most once, whatever is lost on the way, *)
(* and in the order in which the presses were made, but for one thing: what  *)
(* the handler of a lost connection has still to do (server.py:375, 416) may *)
(* come after newer presses that went over a later connection               *)
(* (network_manager.cpp:798, 803).                                          *)
InOrderAndOnce ==
    \A i, j \in 1 .. Len(executed) :
        i < j => \/ executed[i].id < executed[j].id
                 \/ executed[i].id # executed[j].id /\ executed[j].link < executed[i].link

(* A press of which the device says that it could not be sent is never        *)
(* executed (network_manager.cpp:766, 814).                                  *)
UnsentIsNotExecuted == \A i \in 1 .. Len(executed) : executed[i].id \notin unsent

(* "Confirmed host snapshots reconcile optimistic state" (ARCHITECTURE.md):   *)
(* when the user has stopped and the player stays as it is, the display and  *)
(* the base of the next volume step are the player's in the end, also after  *)
(* full queues, lost results and failed commands (application.cpp:206, 308,  *)
(* 402).                                                                   *)
DisplayReconciles ==
    \A s \in Desktops :
        <>[](connected /\ player = s /\ pressed = MaxPresses)
            => <>[](playback = <<s>> /\ optimistic = s.volume)
=============================================================================
