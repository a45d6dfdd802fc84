---------------------------- MODULE DeviceProofs ----------------------------
(***************************************************************************)
(* Proofs about NetworkManager, for every time limit, every length of the  *)
(* notice queue and every fault: the state machine never disagrees with    *)
(* the socket, and fits the place of the task in the code, what the        *)
(* application shows catches up with the machine, and all types are kept.  *)
(*                                                                         *)
(* The machine changes by events, the socket and the place by assignment.  *)
(* PlaceInv says which states are possible at each place, so that every    *)
(* event meets an edge that leads to a state of the next place.            *)
(*                                                                         *)
(* At the end the device's parts are put together: MCDevice implements the *)
(* specification of each, so what is proved of the parts holds in its runs. *)
(***************************************************************************)
EXTENDS MCDevice, DeviceBootProofs, ControlsProofs, SequenceTheorems, TLAPS

USE NetworkAssumption

(* Out of reach of the network the loop only finds out in its next turn.   *)
PlaceInv ==
  /\ at = "boot" => machine = "Boot"
  /\ at \in {"setup", "portal"} => machine = "Provisioning"
  /\ at = "halted" => machine = "Error"
  /\ at = "discover" => machine \in HostStates \cup {"ConnectingHost", "DiscoveringHost"}
  /\ at \in {"boot", "setup", "portal", "halted", "connect", "discover", "pair", "session"}

NetworkInv == SocketMatchesMachine /\ PlaceInv

----------------------------------------------------------------------------
(* The edges: no two for one state and event.                              *)

LEMMA Deterministic ==
  ASSUME NEW x \in Edges, NEW y \in Edges, x[1] = y[1], x[2] = y[2] PROVE x[3] = y[3]
BY DEF Edges, EdgeInPlace, Becomes, HostStates, States

LEMMA FollowsEdge ==
  ASSUME NEW s, NEW e, NEW t, <<s, e, t>> \in Edges
  PROVE  AfterEvent(s, e) = t /\ Reacts(s, e)
<1> DEFINE P(edge) == edge \in Edges /\ edge[1] = s /\ edge[2] = e
           followed == CHOOSE edge \in Edges : edge[1] = s /\ edge[2] = e
<1>1. P(<<s, e, t>>)  OBVIOUS
<1>2. P(followed)  BY <1>1
<1>3. followed[3] = t
  <2>1. followed \in Edges /\ followed[1] = s /\ followed[2] = e  BY <1>2
  <2> HIDE DEF followed
  <2> QED  BY <2>1, Deterministic
<1>4. Reacts(s, e)  BY <1>1 DEF Reacts
<1> QED  BY <1>3, <1>4 DEF AfterEvent

LEMMA Booting ==
  /\ AfterEvent("Boot", "FatalError") = "Error"
  /\ AfterEvent("Boot", "BootWithoutCredentials") = "Provisioning"
  /\ AfterEvent("Boot", "BootWithCredentials") = "ConnectingWifi"
  /\ AfterEvent("Provisioning", "FatalError") = "Error"
  /\ AfterEvent("Provisioning", "CredentialsSaved") = "ConnectingWifi"
<1>1. /\ <<"Boot", "FatalError", "Error">> \in Edges
      /\ <<"Boot", "BootWithoutCredentials", "Provisioning">> \in Edges
      /\ <<"Boot", "BootWithCredentials", "ConnectingWifi">> \in Edges
      /\ <<"Provisioning", "FatalError", "Error">> \in Edges
      /\ <<"Provisioning", "CredentialsSaved", "ConnectingWifi">> \in Edges
  BY DEF Edges, EdgeInPlace, States
<1> QED  BY <1>1, FollowsEdge

LEMMA Joining ==
  /\ AfterEvent("Offline", "Retry") = "ConnectingWifi"
  /\ AfterEvent("ConnectingWifi", "WifiUnavailable") = "Offline"
  /\ AfterEvent("ConnectingWifi", "WifiConnected") = "DiscoveringHost"
<1>1. /\ <<"Offline", "Retry", "ConnectingWifi">> \in Edges
      /\ <<"ConnectingWifi", "WifiUnavailable", "Offline">> \in Edges
      /\ <<"ConnectingWifi", "WifiConnected", "DiscoveringHost">> \in Edges
  BY DEF Edges, EdgeInPlace, States
<1> QED  BY <1>1, FollowsEdge

LEMMA Finding ==
  /\ AfterEvent("DiscoveringHost", "HostDiscovered") = "ConnectingHost"
  /\ AfterEvent("DiscoveringHost", "PairingNeeded") = "Pairing"
  /\ AfterEvent("Pairing", "PairingComplete") = "ConnectingHost"
  /\ AfterEvent("Pairing", "HostDisconnected") = "DiscoveringHost"
<1>1. /\ <<"DiscoveringHost", "HostDiscovered", "ConnectingHost">> \in Edges
      /\ <<"DiscoveringHost", "PairingNeeded", "Pairing">> \in Edges
      /\ <<"Pairing", "PairingComplete", "ConnectingHost">> \in Edges
      /\ <<"Pairing", "HostDisconnected", "DiscoveringHost">> \in Edges
  BY DEF Edges, EdgeInPlace, States
<1> QED  BY <1>1, FollowsEdge

LEMMA Connecting ==
  /\ AfterEvent("ConnectingHost", "HostConnected") = "Ready"
  /\ AfterEvent("DiscoveringHost", "HostConnected") = "Ready"
  /\ AfterEvent("ConnectingHost", "HostDisconnected") = "DiscoveringHost"
<1>1. /\ <<"ConnectingHost", "HostConnected", "Ready">> \in Edges
      /\ <<"DiscoveringHost", "HostConnected", "Ready">> \in Edges
      /\ <<"ConnectingHost", "HostDisconnected", "DiscoveringHost">> \in Edges
  BY DEF Edges, EdgeInPlace, States
<1> QED  BY <1>1, FollowsEdge

LEMMA Disconnecting ==
  ASSUME NEW s \in HostStates \cup {"ConnectingHost", "DiscoveringHost"}
  PROVE  AfterEvent(s, "HostDisconnected") = "DiscoveringHost"
<1>1. CASE s \in HostStates
  <2>1. <<s, "HostDisconnected", "DiscoveringHost">>
          \in Becomes(HostStates, "HostDisconnected", "DiscoveringHost")
    BY <1>1 DEF Becomes, HostStates
  <2>2. <<s, "HostDisconnected", "DiscoveringHost">> \in Edges  BY <2>1 DEF Edges
  <2> QED  BY <2>2, FollowsEdge
<1>2. CASE s = "ConnectingHost"  BY <1>2, Connecting
<1>3. CASE s = "DiscoveringHost"
  <2>1. ~ Reacts("DiscoveringHost", "HostDisconnected")
    BY DEF Reacts, Edges, EdgeInPlace, Becomes, HostStates
  <2> QED  BY <1>3, <2>1 DEF AfterEvent
<1> QED  BY <1>1, <1>2, <1>3

LEMMA Losing ==
  ASSUME NEW s \in {"ConnectingHost", "DiscoveringHost", "Pairing"} \cup HostStates
  PROVE  AfterEvent(s, "WifiLost") = "Offline"
<1>1. <<s, "WifiLost", "Offline">> \in Edges  BY DEF Edges, States, HostStates
<1> QED  BY <1>1, FollowsEdge

LEMMA Reporting ==
  ASSUME NEW s \in HostStates,
         NEW e \in {"PlaybackStarted", "PlaybackPaused", "PlaybackStopped"}
  PROVE  AfterEvent(s, e) \in HostStates
<1>1. \A x \in Edges : x[2] = e => x[3] \in HostStates
  BY DEF Edges, EdgeInPlace, Becomes, HostStates, States
<1>2. CASE Reacts(s, e)
  <2> DEFINE followed == CHOOSE edge \in Edges : edge[1] = s /\ edge[2] = e
  <2>1. followed \in Edges /\ followed[2] = e  BY <1>2 DEF Reacts
  <2>2. followed[3] \in HostStates  BY <2>1, <1>1
  <2> QED  BY <1>2, <2>2 DEF AfterEvent
<1>3. CASE ~ Reacts(s, e)  BY <1>3 DEF AfterEvent
<1> QED  BY <1>2, <1>3

----------------------------------------------------------------------------
(* The invariant speaks of place, machine, socket and Wi-Fi only.          *)

LEMMA OutsideInv ==
  ASSUME NetworkInv, UNCHANGED <<at, machine, socket>>, wifi' => wifi PROVE NetworkInv'
BY DEF NetworkInv, PlaceInv, SocketMatchesMachine, MachineFitsPlace

LEMMA NetworkInvInit == NetworkInit => NetworkInv
BY DEF NetworkInit, NetworkInv, PlaceInv, SocketMatchesMachine, MachineFitsPlace, HostStates

(* Until the network has been joined there is no socket.                   *)
LEMMA StartingInv ==
  ASSUME NetworkInv, Boot \/ OpenPortal \/ Provisioned PROVE NetworkInv'
<1>1. wifi' = wifi /\ socket' = socket
  BY DEF Boot, OpenPortal, Provisioned, surroundings
<1>2. CASE Boot
  <2>1. machine = "Boot" /\ ~ socket  BY <1>2 DEF Boot, NetworkInv, PlaceInv, SocketMatchesMachine, MachineFitsPlace, HostStates
  <2>2. \/ machine' = "Error" /\ at' = "halted"
        \/ machine' = "Provisioning" /\ at' = "setup"
        \/ machine' = "ConnectingWifi" /\ at' = "connect"
    BY <1>2, <2>1, Booting DEF Boot, Transition
  <2> QED  BY <1>1, <2>1, <2>2 DEF NetworkInv, PlaceInv, SocketMatchesMachine, MachineFitsPlace, HostStates
<1>3. CASE OpenPortal \/ Provisioned
  <2>1. machine = "Provisioning" /\ ~ socket
    BY <1>3 DEF OpenPortal, Provisioned, NetworkInv, PlaceInv, SocketMatchesMachine, MachineFitsPlace, HostStates
  <2>2. \/ machine' = "Error" /\ at' = "halted"
        \/ machine' = "Provisioning" /\ at' = "portal"
        \/ machine' = "ConnectingWifi" /\ at' = "connect"
    BY <1>3, <2>1, Booting DEF OpenPortal, Provisioned, Transition, Notice
  <2> QED  BY <1>1, <2>1, <2>2 DEF NetworkInv, PlaceInv, SocketMatchesMachine, MachineFitsPlace, HostStates
<1> QED  BY <1>2, <1>3

LEMMA JoiningInv ==
  ASSUME NetworkInv, Retry \/ WifiFails \/ WifiJoined PROVE NetworkInv'
<1>1. at = "connect" /\ socket' = socket
  BY DEF Retry, WifiFails, WifiJoined
<1>2. machine \in {"ConnectingWifi", "Offline"} /\ ~ socket
  BY <1>1 DEF NetworkInv, PlaceInv, SocketMatchesMachine, MachineFitsPlace, HostStates
<1>3. \/ machine' = "ConnectingWifi" /\ at' = "connect"
      \/ machine' = "Offline" /\ at' = "connect"
      \/ machine' = "DiscoveringHost" /\ at' = "discover"
  BY <1>1, <1>2, Joining DEF Retry, WifiFails, WifiJoined, Transition
<1> QED  BY <1>1, <1>2, <1>3 DEF NetworkInv, PlaceInv, SocketMatchesMachine, MachineFitsPlace, HostStates

(* The socket is closed first, and its event leaves the host's states.     *)
LEMMA WifiLostInv ==
  ASSUME NetworkInv, WifiLost PROVE NetworkInv'
<1> DEFINE offline == IF socket THEN AfterEvent(machine, "HostDisconnected") ELSE machine
<1>1. machine' = AfterEvent(offline, "WifiLost") /\ at' = "connect" /\ socket' = FALSE
  BY DEF WifiLost
<1>2. machine \in HostStates \cup {"ConnectingHost", "DiscoveringHost", "Pairing"}
  BY DEF WifiLost, NetworkInv, PlaceInv, SocketMatchesMachine, MachineFitsPlace
<1>3. socket => machine \in HostStates
  BY DEF NetworkInv, SocketMatchesMachine
<1>4. offline \in HostStates \cup {"ConnectingHost", "DiscoveringHost", "Pairing"}
  BY <1>2, <1>3, Disconnecting
<1>5. machine' = "Offline"
  <2> HIDE DEF offline
  <2>1. AfterEvent(offline, "WifiLost") = "Offline"  BY <1>4, Losing
  <2> QED  BY <1>1, <2>1
<1> QED  BY <1>1, <1>5 DEF NetworkInv, PlaceInv, SocketMatchesMachine, MachineFitsPlace, HostStates

LEMMA FindingInv ==
  ASSUME NetworkInv, Discovered \/ PairingSucceeds \/ PairingFails PROVE NetworkInv'
<1>1. socket' = socket /\ wifi' = wifi
  BY DEF Discovered, PairingSucceeds, PairingFails, surroundings
<1>2. machine \in {"DiscoveringHost", "Pairing"} /\ ~ socket
  BY DEF Discovered, PairingSucceeds, PairingFails, NetworkInv, PlaceInv, SocketMatchesMachine, MachineFitsPlace, HostStates
<1>3. \/ machine' = "ConnectingHost" /\ at' = "session"
      \/ machine' = "Pairing" /\ at' = "pair"
      \/ machine' = "DiscoveringHost" /\ at' = "discover"
  <2>1. CASE Discovered
    <3>1. machine = "DiscoveringHost"  BY <2>1 DEF Discovered, NetworkInv, SocketMatchesMachine, MachineFitsPlace
    <3> QED  BY <2>1, <3>1, Finding DEF Discovered, Transition, Configure
  <2>2. CASE PairingSucceeds \/ PairingFails
    <3>1. machine = "Pairing"
      BY <2>2 DEF PairingSucceeds, PairingFails, NetworkInv, SocketMatchesMachine, MachineFitsPlace
    <3> QED  BY <2>2, <3>1, Finding DEF PairingSucceeds, PairingFails, Transition, Configure
  <2> QED  BY <2>1, <2>2
<1> QED  BY <1>1, <1>2, <1>3 DEF NetworkInv, PlaceInv, SocketMatchesMachine, MachineFitsPlace, HostStates

LEMMA InSessionInv ==
  ASSUME NetworkInv, Connected \/ Disconnected \/ PlaybackReported \/ GiveUp PROVE NetworkInv'
<1>1. at = "session" /\ wifi' = wifi
  BY DEF Connected, Disconnected, PlaybackReported, GiveUp, InSession, surroundings
<1>2. machine \in HostStates \cup {"ConnectingHost", "DiscoveringHost"}
      /\ (socket <=> machine \in HostStates)
  BY <1>1 DEF NetworkInv, SocketMatchesMachine, MachineFitsPlace
<1>3. CASE Connected
  <2>1. machine' = "Ready" /\ socket' = TRUE /\ at' = at
    BY <1>2, <1>3, Connecting DEF Connected, Transition
  <2> QED  BY <1>1, <2>1 DEF NetworkInv, PlaceInv, SocketMatchesMachine, MachineFitsPlace, HostStates
<1>4. CASE Disconnected
  <2>1. machine' = "DiscoveringHost" /\ socket' = FALSE /\ at' = at
    BY <1>2, <1>4, Disconnecting DEF Disconnected, Transition
  <2> QED  BY <1>1, <2>1 DEF NetworkInv, PlaceInv, SocketMatchesMachine, MachineFitsPlace, HostStates
<1>5. CASE PlaybackReported
  <2>1. machine' \in HostStates /\ socket' = socket /\ socket /\ at' = at
    BY <1>2, <1>5, Reporting DEF PlaybackReported, Transition
  <2> QED  BY <1>1, <2>1 DEF NetworkInv, PlaceInv, SocketMatchesMachine, MachineFitsPlace, HostStates
<1>6. CASE GiveUp
  <2>1. machine' = "DiscoveringHost" /\ socket' = socket /\ ~ socket /\ at' = "discover"
    BY <1>2, <1>6, Disconnecting DEF GiveUp, Transition
  <2> QED  BY <1>1, <2>1 DEF NetworkInv, PlaceInv, SocketMatchesMachine, MachineFitsPlace, HostStates
<1> QED  BY <1>3, <1>4, <1>5, <1>6

LEMMA SessionLeftInv ==
  ASSUME NetworkInv, SessionLeft PROVE NetworkInv'
BY DEF SessionLeft, surroundings, NetworkInv, PlaceInv, SocketMatchesMachine, MachineFitsPlace, HostStates

LEMMA NetworkInvStep ==
  ASSUME NetworkInv, [NetworkNext]_networkVars PROVE NetworkInv'
<1>1. CASE Boot \/ OpenPortal \/ Provisioned  BY <1>1, StartingInv
<1>2. CASE Retry \/ WifiFails \/ WifiJoined  BY <1>2, JoiningInv
<1>3. CASE WifiLost  BY <1>3, WifiLostInv
<1>4. CASE Discovered \/ PairingSucceeds \/ PairingFails  BY <1>4, FindingInv
<1>5. CASE Connected \/ Disconnected \/ PlaybackReported \/ GiveUp  BY <1>5, InSessionInv
<1>6. CASE SessionLeft  BY <1>6, SessionLeftInv
<1>7. CASE AttemptFails \/ Tick
  BY <1>7, OutsideInv DEF AttemptFails, Tick, surroundings
<1>8. CASE TakeNotice \/ Fault \/ Calm
  <2>1. UNCHANGED <<at, machine, socket>>  BY <1>8 DEF TakeNotice, Fault, Calm, task
  <2>2. CASE Fault
    <3>1. wifi' = (wifi /\ ~ ap) \/ wifi' = FALSE \/ wifi' = wifi  BY <2>2 DEF Fault
    <3>2. wifi' => wifi  BY <3>1, Zenon
    <3> QED  BY <2>1, <3>2, OutsideInv
  <2>3. CASE TakeNotice \/ Calm
    <3>1. wifi' = wifi  BY <2>3 DEF TakeNotice, Calm, surroundings
    <3> QED  BY <2>1, <3>1, OutsideInv
  <2> QED  BY <1>8, <2>2, <2>3
<1>9. CASE UNCHANGED networkVars
  BY <1>9, OutsideInv DEF networkVars, task, surroundings
<1> QED
  BY <1>1, <1>2, <1>3, <1>4, <1>5, <1>6, <1>7, <1>8, <1>9 DEF NetworkNext, Task

----------------------------------------------------------------------------
(* Commands are sent exactly in the states in which the display shows a    *)
(* connected host, and no event meets a state that has no edge for it.     *)
THEOREM MachineKnowsSocket == NetworkSpec => []SocketMatchesMachine
<1>1. NetworkInit => NetworkInv  BY NetworkInvInit
<1>2. NetworkInv /\ [NetworkNext]_networkVars => NetworkInv'  BY NetworkInvStep
<1>3. NetworkInv => SocketMatchesMachine  BY DEF NetworkInv
<1> QED  BY <1>1, <1>2, <1>3, PTL DEF NetworkSpec

----------------------------------------------------------------------------
(* The application's view.  A full queue drops its oldest notice, so the   *)
(* newest one waiting is always the machine's state.                       *)

TellsNewest(queue, state) ==
  /\ queue \in Seq(States) /\ Len(queue) <= MaxNotices
  /\ queue # <<>> => queue[Len(queue)] = state

NoticeInv ==
  /\ machine \in States /\ view \in States
  /\ TellsNewest(notices, machine)
  /\ ViewCatchesUp

LEMMA QueuedTells ==
  ASSUME NEW queue \in Seq(States), Len(queue) <= MaxNotices, NEW state \in States
  PROVE  TellsNewest(Queued(queue, state), state) /\ Queued(queue, state) # <<>>
<1>1. CASE Len(queue) < MaxNotices
  <2>1. /\ Append(queue, state) \in Seq(States) /\ Append(queue, state) # <<>>
        /\ Len(Append(queue, state)) = Len(queue) + 1
        /\ Append(queue, state)[Len(queue) + 1] = state
    BY AppendProperties
  <2>2. Len(queue) + 1 <= MaxNotices
    BY <1>1, LenProperties
  <2> QED
    BY <1>1, <2>1, <2>2 DEF Queued, TellsNewest
<1>2. CASE Len(queue) >= MaxNotices
  <2> DEFINE shorter == Tail(queue)
  <2>1. queue # <<>>
    BY <1>2, EmptySeq
  <2>2. shorter \in Seq(States) /\ Len(shorter) = Len(queue) - 1
    BY <2>1, HeadTailProperties
  <2>3. Len(queue) \in Nat
    BY LenProperties
  <2> HIDE DEF shorter
  <2>4. /\ Append(shorter, state) \in Seq(States) /\ Append(shorter, state) # <<>>
        /\ Len(Append(shorter, state)) = Len(shorter) + 1
        /\ Append(shorter, state)[Len(shorter) + 1] = state
    BY <2>2, AppendProperties
  <2>5. Queued(queue, state) = Append(shorter, state)
    BY <1>2, <2>3 DEF Queued, shorter
  <2> QED
    BY <2>2, <2>3, <2>4, <2>5 DEF TellsNewest
<1> QED
  BY <1>1, <1>2, LenProperties

LEMMA AfterEventType ==
  ASSUME NEW s \in States, NEW e PROVE AfterEvent(s, e) \in States
<1>1. \A x \in Edges : x[3] \in States
  BY DEF Edges, EdgeInPlace, Becomes, HostStates, States
<1>2. CASE Reacts(s, e)
  <2> DEFINE followed == CHOOSE edge \in Edges : edge[1] = s /\ edge[2] = e
  <2>1. followed \in Edges  BY <1>2 DEF Reacts
  <2>2. followed[3] \in States  BY <2>1, <1>1
  <2> QED  BY <1>2, <2>2 DEF AfterEvent
<1>3. CASE ~ Reacts(s, e)  BY <1>3 DEF AfterEvent
<1> QED  BY <1>2, <1>3

(* A step that tells the new state last.                                   *)
LEMMA Announced ==
  ASSUME NoticeInv, machine' \in States, view' = view,
         NEW queue \in Seq(States), Len(queue) <= MaxNotices, notices' = Queued(queue, machine')
  PROVE  NoticeInv'
<1>1. TellsNewest(Queued(queue, machine'), machine') /\ Queued(queue, machine') # <<>>
  BY QueuedTells
<1>2. TellsNewest(notices', machine') /\ notices' # <<>>
  BY <1>1
<1> QED  BY <1>2 DEF NoticeInv, ViewCatchesUp, TellsNewest

LEMMA Unannounced ==
  ASSUME NoticeInv, UNCHANGED <<machine, notices, view>> PROVE NoticeInv'
BY DEF NoticeInv, ViewCatchesUp, TellsNewest

LEMMA Transits ==
  ASSUME NoticeInv, NEW e, Transition(e), view' = view PROVE NoticeInv'
<1>1. machine \in States /\ notices \in Seq(States) /\ Len(notices) <= MaxNotices
  BY DEF NoticeInv, TellsNewest
<1>2. machine' \in States
  BY <1>1, AfterEventType DEF Transition
<1>3. CASE Reacts(machine, e)
  <2>1. notices' = Queued(notices, machine')
    BY <1>3 DEF Transition
  <2> QED  BY <1>1, <1>2, <2>1, Announced
<1>4. CASE ~ Reacts(machine, e)
  <2>1. machine' = machine /\ notices' = notices
    BY <1>4 DEF Transition, AfterEvent
  <2> QED  BY <2>1, Unannounced
<1> QED  BY <1>3, <1>4

(* Two notices in one step: what is queued first does not matter.          *)
LEMMA AnnouncedTwice ==
  ASSUME NoticeInv, machine' \in States, view' = view, NEW state \in States,
         notices' = Queued(Queued(notices, state), machine')
  PROVE  NoticeInv'
<1>1. notices \in Seq(States) /\ Len(notices) <= MaxNotices
  BY DEF NoticeInv, TellsNewest
<1>2. Queued(notices, state) \in Seq(States) /\ Len(Queued(notices, state)) <= MaxNotices
  BY <1>1, QueuedTells DEF TellsNewest
<1> QED  BY <1>2, Announced

LEMMA WifiJoinedTells == ASSUME NoticeInv, WifiJoined PROVE NoticeInv'
<1>1. machine \in States /\ notices \in Seq(States) /\ Len(notices) <= MaxNotices
  BY DEF NoticeInv, TellsNewest
<1>2. machine' \in States /\ view' = view
  BY <1>1, AfterEventType DEF WifiJoined
<1>3. CASE Reacts(machine, "WifiConnected")
  <2>1. notices' = Queued(Queued(notices, machine'), machine')
    BY <1>3 DEF WifiJoined
  <2> QED  BY <1>2, <2>1, AnnouncedTwice
<1>4. CASE ~ Reacts(machine, "WifiConnected")
  <2>1. notices' = Queued(notices, machine')
    BY <1>4 DEF WifiJoined
  <2> QED  BY <1>1, <1>2, <2>1, Announced
<1> QED  BY <1>3, <1>4

LEMMA WifiLostTells == ASSUME NoticeInv, WifiLost PROVE NoticeInv'
<1> DEFINE offline == IF socket THEN AfterEvent(machine, "HostDisconnected") ELSE machine
           first == IF socket /\ Reacts(machine, "HostDisconnected")
                    THEN Queued(notices, offline) ELSE notices
<1>1. machine \in States /\ notices \in Seq(States) /\ Len(notices) <= MaxNotices
  BY DEF NoticeInv, TellsNewest
<1>2. offline \in States
  BY <1>1, AfterEventType
<1>3. /\ machine' = AfterEvent(offline, "WifiLost") /\ view' = view
      /\ notices' = IF Reacts(offline, "WifiLost") THEN Queued(first, machine') ELSE first
  BY DEF WifiLost
<1>4. ~ (socket /\ Reacts(machine, "HostDisconnected")) => first = notices /\ offline = machine
  BY DEF AfterEvent
<1>5. socket /\ Reacts(machine, "HostDisconnected") => first = Queued(notices, offline)
  OBVIOUS
<1> HIDE DEF offline, first
<1>6. first \in Seq(States) /\ Len(first) <= MaxNotices
  BY <1>1, <1>2, <1>4, <1>5, QueuedTells DEF TellsNewest
<1>7. machine' \in States
  BY <1>2, <1>3, AfterEventType
<1>8. CASE Reacts(offline, "WifiLost")
  <2>1. notices' = Queued(first, machine')
    BY <1>3, <1>8
  <2> QED  BY <1>3, <1>6, <1>7, <2>1, Announced
<1>9. CASE ~ Reacts(offline, "WifiLost")
  <2>1. machine' = offline /\ notices' = first
    BY <1>3, <1>9 DEF AfterEvent
  <2>2. CASE socket /\ Reacts(machine, "HostDisconnected")
    <3>1. notices' = Queued(notices, machine')
      BY <1>5, <2>1, <2>2
    <3> QED  BY <1>1, <1>3, <1>7, <3>1, Announced
  <2>3. CASE ~ (socket /\ Reacts(machine, "HostDisconnected"))
    <3>1. machine' = machine /\ notices' = notices
      BY <1>4, <2>1, <2>3
    <3> QED  BY <1>3, <3>1, Unannounced
  <2> QED  BY <2>2, <2>3
<1> QED  BY <1>8, <1>9

LEMMA DiscoveredTells == ASSUME NoticeInv, Discovered PROVE NoticeInv'
<1>1. machine \in States /\ view' = view
  BY DEF NoticeInv, Discovered
<1>2. CASE Transition("HostDiscovered")
  BY <1>1, <1>2, Transits
<1>3. CASE /\ machine' = AfterEvent(machine, "PairingNeeded")
           /\ notices' = Queued(Queued(notices, machine'), machine')
  <2>1. machine' \in States
    BY <1>1, <1>3, AfterEventType
  <2> QED  BY <1>1, <1>3, <2>1, AnnouncedTwice
<1> QED  BY <1>2, <1>3 DEF Discovered

LEMMA TakeNoticeTells == ASSUME NoticeInv, TakeNotice PROVE NoticeInv'
<1> DEFINE n == Len(notices)
<1>1. /\ notices \in Seq(States) /\ notices # <<>> /\ n <= MaxNotices /\ notices[n] = machine
      /\ machine' = machine /\ view' = Head(notices) /\ notices' = Tail(notices)
  BY DEF NoticeInv, TellsNewest, TakeNotice, task
<1>2. n \in Nat \ {0} /\ Head(notices) = notices[1]
  BY <1>1, EmptySeq
<1>3. /\ Head(notices) \in States
      /\ notices' \in Seq(States) /\ Len(notices') = n - 1
      /\ \A i \in 1 .. Len(notices') : notices'[i] = notices[i + 1]
  BY <1>1, HeadTailProperties
<1>4. notices' # <<>> => notices'[Len(notices')] = machine
  <2>1. SUFFICES ASSUME notices' # <<>> PROVE notices'[Len(notices')] = machine
    OBVIOUS
  <2>2. Len(notices') \in Nat \ {0}
    BY <1>3, <2>1, EmptySeq
  <2>3. notices'[Len(notices')] = notices[Len(notices') + 1]
    BY <1>3, <2>2
  <2>4. Len(notices') + 1 = n
    BY <1>2, <1>3
  <2> QED  BY <1>1, <2>3, <2>4
<1>5. notices' = <<>> => view' = machine
  <2>1. SUFFICES ASSUME notices' = <<>> PROVE view' = machine
    OBVIOUS
  <2>2. n = 1
    BY <1>2, <1>3, <2>1, EmptySeq
  <2> QED  BY <1>1, <1>2, <2>2
<1> QED
  BY <1>1, <1>2, <1>3, <1>4, <1>5 DEF NoticeInv, TellsNewest, ViewCatchesUp

LEMMA NoticeStep == NoticeInv /\ [NetworkNext]_networkVars => NoticeInv'
<1> SUFFICES ASSUME NoticeInv, [NetworkNext]_networkVars PROVE NoticeInv'
  OBVIOUS
<1>1. CASE Boot \/ Provisioned \/ Retry \/ WifiFails
  BY <1>1, Transits DEF Boot, Provisioned, Retry, WifiFails
<1>2. CASE OpenPortal
  <2>1. CASE Notice
    <3>1. /\ machine' = machine /\ notices' = Queued(notices, machine') /\ view' = view
      BY <1>2, <2>1 DEF Notice, OpenPortal
    <3>2. machine' \in States /\ notices \in Seq(States) /\ Len(notices) <= MaxNotices
      BY <3>1 DEF NoticeInv, TellsNewest
    <3> QED  BY <3>1, <3>2, Announced
  <2> QED  BY <1>2, <2>1, Transits DEF OpenPortal
<1>3. CASE WifiJoined \/ WifiLost \/ Discovered \/ TakeNotice
  BY <1>3, WifiJoinedTells, WifiLostTells, DiscoveredTells, TakeNoticeTells
<1>4. CASE PairingSucceeds \/ PairingFails \/ Connected \/ Disconnected
  BY <1>4, Transits DEF PairingSucceeds, PairingFails, Connected, Disconnected
<1>5. CASE PlaybackReported \/ GiveUp
  BY <1>5, Transits DEF PlaybackReported, GiveUp
<1>6. CASE AttemptFails \/ SessionLeft \/ Tick
  BY <1>6, Unannounced DEF AttemptFails, SessionLeft, Tick, told
<1>7. CASE Fault \/ Calm \/ UNCHANGED networkVars
  BY <1>7, Unannounced DEF Fault, Calm, networkVars, task, told
<1> QED
  BY <1>1, <1>2, <1>3, <1>4, <1>5, <1>6, <1>7 DEF NetworkNext, Task

(* The display shows the machine's state as soon as the application has    *)
(* taken all notices, however many were dropped from the full queue.       *)
THEOREM ViewIsCurrent == NetworkSpec => []ViewCatchesUp
<1>1. NetworkInit => NoticeInv
  BY EmptySeq DEF NetworkInit, NoticeInv, TellsNewest, ViewCatchesUp, States
<1>2. NoticeInv => ViewCatchesUp
  BY DEF NoticeInv
<1> QED  BY <1>1, <1>2, NoticeStep, PTL DEF NetworkSpec

----------------------------------------------------------------------------
(* Types.  The delays come from a power of two that is cut off twice.      *)

LEMMA Powers == ASSUME NEW k \in 0 .. 15 PROVE 2 ^ k \in Nat
<1>1. /\ 2 ^ 0 = 1 /\ 2 ^ 1 = 2 /\ 2 ^ 2 = 4 /\ 2 ^ 3 = 8 /\ 2 ^ 4 = 16 /\ 2 ^ 5 = 32 /\ 2 ^ 6 = 64
      /\ 2 ^ 7 = 128 /\ 2 ^ 8 = 256 /\ 2 ^ 9 = 512 /\ 2 ^ 10 = 1024 /\ 2 ^ 11 = 2048 /\ 2 ^ 12 = 4096
      /\ 2 ^ 13 = 8192 /\ 2 ^ 14 = 16384 /\ 2 ^ 15 = 32768
  OBVIOUS
<1>2. /\ 2 ^ 0 \in Nat /\ 2 ^ 1 \in Nat /\ 2 ^ 2 \in Nat /\ 2 ^ 3 \in Nat /\ 2 ^ 4 \in Nat /\ 2 ^ 5 \in Nat
      /\ 2 ^ 6 \in Nat /\ 2 ^ 7 \in Nat /\ 2 ^ 8 \in Nat /\ 2 ^ 9 \in Nat /\ 2 ^ 10 \in Nat
      /\ 2 ^ 11 \in Nat /\ 2 ^ 12 \in Nat /\ 2 ^ 13 \in Nat /\ 2 ^ 14 \in Nat /\ 2 ^ 15 \in Nat
  BY <1>1
<1>3. k \in {0, 1, 2, 3, 4, 5, 6, 7, 8, 9, 10, 11, 12, 13, 14, 15}
  OBVIOUS
<1> QED  BY <1>2, <1>3, Zenon

LEMMA DelaysBounded ==
  ASSUME NEW base \in Nat, NEW maximum \in Nat, NEW attempt \in Nat
  PROVE  Delays(base, maximum, attempt) \subseteq 0 .. maximum
<1> DEFINE least(a, b) == IF a < b THEN a ELSE b
           e == least(attempt, 15)
           p == 2 ^ e
           bounded == least(base * p, maximum)
           most == IF bounded < 8 THEN 0 ELSE bounded \div 4 - 1
<1>1. e \in 0 .. 15
  OBVIOUS
<1> HIDE DEF e
<1>2. p \in Nat
  BY <1>1, Powers
<1> HIDE DEF p
<1>3. base * p \in Nat
  BY <1>2
<1>4. bounded \in Nat
  BY <1>3
<1>5. Delays(base, maximum, attempt) = {least(bounded + r, maximum) : r \in 0 .. most}
  BY DEF Delays, e, p
<1> HIDE DEF bounded
<1>6. ASSUME NEW r \in 0 .. most PROVE least(bounded + r, maximum) \in 0 .. maximum
  <2>1. bounded + r \in Nat
    BY <1>4
  <2> QED  BY <2>1
<1> HIDE DEF most, least
<1> QED  BY <1>5, <1>6

(* The variables that the task sets, apart from notices, view and machine. *)
ClockInv ==
  /\ {socket, paired, override, ap, wifi, hostUp, accepts, calm} \subseteq BOOLEAN
  /\ silent \in 0 .. Timeout \cup {Unset} /\ attempts \in 0 .. MaxAttempts
  /\ interval \in 0 .. MaxDelay /\ rest \in 0 .. MaxDelay

LEMMA ConfigureClock ==
  ASSUME ClockInv, Configure
  PROVE  /\ silent' \in 0 .. Timeout \cup {Unset} /\ attempts' \in 0 .. MaxAttempts
         /\ interval' \in 0 .. MaxDelay /\ rest' \in 0 .. MaxDelay
<1>1. attempts \in Nat /\ attempts' = CountAttempt(attempts, MaxAttempts)
      /\ interval' \in Delays(BaseDelay, MaxDelay, attempts) /\ silent' = 0 /\ rest' = 0
  BY DEF Configure, ClockInv
<1>2. interval' \in 0 .. MaxDelay
  BY <1>1, DelaysBounded
<1>3. attempts' \in 0 .. MaxAttempts
  BY <1>1 DEF CountAttempt, ClockInv
<1> QED  BY <1>1, <1>2, <1>3

LEMMA ClockStep == ClockInv /\ [NetworkNext]_networkVars => ClockInv'
<1> SUFFICES ASSUME ClockInv, [NetworkNext]_networkVars PROVE ClockInv'
  OBVIOUS
<1>1. CASE \/ Boot \/ OpenPortal \/ Provisioned \/ Retry \/ WifiFails \/ PairingFails \/ PlaybackReported
           \/ SessionLeft \/ WifiJoined \/ WifiLost \/ TakeNotice \/ Fault \/ Calm \/ UNCHANGED networkVars
  <2>1. UNCHANGED clock
    BY <1>1 DEF Boot, OpenPortal, Provisioned, Retry, WifiFails, PairingFails, PlaybackReported,
       SessionLeft, WifiJoined, WifiLost, TakeNotice, Fault, Calm, networkVars, task, clock
  <2>2. {socket', paired', override', ap', wifi', hostUp', accepts', calm'} \subseteq BOOLEAN
    BY <1>1 DEF ClockInv, Boot, OpenPortal, Provisioned, Retry, WifiFails, PairingFails, PlaybackReported,
       SessionLeft, WifiJoined, WifiLost, TakeNotice, Fault, Calm, networkVars, task, surroundings
  <2> QED  BY <2>1, <2>2 DEF ClockInv, clock
<1>2. CASE Discovered
  <2>1. UNCHANGED <<socket, paired, surroundings>>
    BY <1>2 DEF Discovered
  <2>2. Configure \/ UNCHANGED clock
    BY <1>2 DEF Discovered
  <2> QED  BY <2>1, <2>2, ConfigureClock DEF ClockInv, surroundings, clock
<1>3. CASE PairingSucceeds
  <2>1. /\ UNCHANGED <<socket, override, ap, wifi, hostUp, calm>>
        /\ paired' = TRUE /\ accepts' = TRUE /\ Configure
    BY <1>3 DEF PairingSucceeds
  <2> QED  BY <2>1, ConfigureClock DEF ClockInv
<1>4. CASE Connected
  BY <1>4 DEF Connected, ClockInv, surroundings
<1>5. CASE AttemptFails
  BY <1>5 DEF AttemptFails, ClockInv, surroundings
<1>6. CASE Disconnected
  <2>1. /\ UNCHANGED <<paired, attempts, interval, override, ap, wifi, hostUp, accepts, calm>>
        /\ socket' = FALSE /\ silent' = 0 /\ rest' = interval
    BY <1>6 DEF Disconnected, surroundings
  <2>2. 0 \in 0 .. Timeout
    OBVIOUS
  <2> QED  BY <2>1, <2>2 DEF ClockInv
<1>7. CASE GiveUp
  BY <1>7 DEF GiveUp, ClockInv, surroundings, clock
<1>8. CASE Tick
  <2>1. /\ UNCHANGED <<socket, paired, attempts, interval, override, ap, wifi, hostUp, accepts, calm>>
        /\ silent # Unset => silent < Timeout
        /\ silent' = IF silent = Unset THEN Unset ELSE silent + 1
        /\ rest' = IF rest > 0 THEN rest - 1 ELSE 0
    BY <1>8 DEF Tick, surroundings
  <2>2. silent' \in 0 .. Timeout \cup {Unset}
    BY <2>1 DEF ClockInv
  <2>3. rest' \in 0 .. MaxDelay
    BY <2>1 DEF ClockInv
  <2> QED  BY <2>1, <2>2, <2>3 DEF ClockInv
<1> QED
  BY <1>1, <1>2, <1>3, <1>4, <1>5, <1>6, <1>7, <1>8 DEF NetworkNext, Task

(* The network task's variables keep their types; the backoff never waits  *)
(* longer than its maximum (backoff.h), and notices stay within the queue. *)
THEOREM NetworkTypes == NetworkSpec => []NetworkTypeOK
<1>1. NetworkInit => ClockInv
  <2>1. 0 \in 0 .. Timeout /\ 0 \in 0 .. MaxAttempts /\ 0 \in 0 .. MaxDelay
    OBVIOUS
  <2>2. NetworkInit => /\ {socket, paired, override, ap, wifi, hostUp, accepts, calm} \subseteq BOOLEAN
                       /\ silent = Unset /\ attempts = 0 /\ interval = 0 /\ rest = 0
    BY DEF NetworkInit
  <2> QED  BY <2>1, <2>2 DEF ClockInv
<1>2. NetworkInit => NoticeInv
  BY EmptySeq DEF NetworkInit, NoticeInv, TellsNewest, ViewCatchesUp, States
<1>3. NetworkInv /\ NoticeInv /\ ClockInv => NetworkTypeOK
  BY DEF NetworkInv, PlaceInv, NoticeInv, TellsNewest, ClockInv, NetworkTypeOK
<1> QED
  BY <1>1, <1>2, <1>3, ClockStep, NoticeStep, NetworkInvInit, NetworkInvStep, PTL DEF NetworkSpec

----------------------------------------------------------------------------
(* The device's parts run side by side: a behaviour of all is one of each. *)

LEMMA DeviceParts ==
  DeviceSpec => NetworkSpec /\ ControlSpec /\ BootSpec /\ InputSpec
<1>1. DeviceInit => NetworkInit /\ ControlInit /\ BootInit /\ InputInit
  BY DEF DeviceInit
<1>2. [DeviceNext]_deviceVars => /\ [NetworkNext]_networkVars /\ [ControlNext]_controlVars
                                 /\ [BootNext]_bootVars /\ [InputNext]_inputVars
  BY DEF DeviceNext, Halted, deviceVars
<1> QED
  BY <1>1, <1>2, PTL DEF DeviceSpec, NetworkSpec, ControlSpec, BootSpec, InputSpec

(* Every part of the device keeps its types, in all runs of MCDevice.      *)
THEOREM DeviceTypes == DeviceSpec => []DeviceTypeOK
<1>1. NetworkTypeOK /\ ControlTypeOK /\ BootTypeOK /\ InputTypeOK => DeviceTypeOK
  BY DEF DeviceTypeOK
<1> QED
  BY <1>1, DeviceParts, NetworkTypes, ControlTypes, BootTypes, InputTypes, PTL

(* Everything that the run of the device's parts checks, for all values of *)
(* the constants.                                                          *)
THEOREM DeviceIsSafe ==
  DeviceSpec => /\ [](DeviceTypeOK /\ SocketMatchesMachine /\ ViewCatchesUp)
                /\ [](CommittedCredentialIsWhole /\ RestartKeepsSettings /\ UpgradeKeepsNetwork)
                /\ []ResetIsDeliberate /\ []InOrderAndOnce /\ []UnsentIsNotExecuted
BY DeviceParts, DeviceTypes, MachineKnowsSocket, ViewIsCurrent, CredentialsAreWhole,
   RestartFindsSettings, UpgradeFindsNetwork, ResetIsMeant, PressesInOrder, UnsentStaysUnsent, PTL
=============================================================================
