---------------------------- MODULE NetworkManager ----------------------------
(***************************************************************************)
(* The device's network task: run(), connectWifi, discoverHost, pairDevice as *)
(* a whole (DevicePairing has its steps), runWebSocket and the socket's       *)
(* events (network_manager.cpp), with the notices that tell the application   *)
(* task about the state, and the surroundings: access point, host, socket.    *)
(* Time is counted in ticks while the socket is used; all other waiting is   *)
(* a step that may take any time.                                           *)
(***************************************************************************)
EXTENDS ConnectionState, Sequences

CONSTANTS
    BaseDelay, MaxDelay,  \* webSocketBackoff_: 500 ms and 30 s
    MaxAttempts,          \* where the count of attempts stops (31)
    Timeout,              \* kWebSocketDiscoveryTimeoutMs: 30 s
    MaxNotices,           \* length of the notice queue (8)
    Unset                 \* a model value: disconnectedAtMs_ = 0

ASSUME NetworkAssumption ==
    /\ BaseDelay \in Nat \ {0} /\ MaxDelay \in Nat /\ MaxAttempts \in Nat /\ Timeout \in Nat \ {0}
    /\ MaxNotices \in Nat \ {0} /\ Unset \notin Nat

VARIABLES
    at,           \* where the task is
    machine,      \* stateMachine_
    socket,       \* webSocketConnected_
    paired,       \* settings.paired: there is a token
    silent,       \* time since disconnectedAtMs_, or Unset
    attempts,     \* webSocketBackoff_
    interval,     \* the reconnect interval installed by configureWebSocket
    rest,         \* time until the library tries again
    notices,      \* the notice queue, reduced to the states
    view,         \* deviceStatus_.state of the application
    override,     \* a host address is configured
    ap,           \* the access point is there
    wifi,         \* WiFi.status() == WL_CONNECTED
    hostUp,         \* the host answers
    accepts,      \* the host accepts the token
    calm          \* no more faults

task == <<at, machine, socket, paired, silent, attempts, interval, rest>>
told == <<notices, view>>
surroundings == <<override, ap, wifi, hostUp, accepts, calm>>
clock == <<silent, attempts, interval, rest>>
networkVars == <<task, told, surroundings>>

NetworkInit ==
    /\ at = "boot" /\ machine = "Boot" /\ socket = FALSE /\ paired \in BOOLEAN
    /\ silent = Unset /\ attempts = 0 /\ interval = 0 /\ rest = 0
    /\ notices = <<>> /\ view = "Boot"
    /\ override \in BOOLEAN /\ ap \in BOOLEAN /\ hostUp \in BOOLEAN
    /\ wifi = FALSE /\ accepts = paired /\ calm = FALSE

(* A slip: the new notice is dropped. *)
QueuedIfRoom(q, s) == IF Len(q) < MaxNotices THEN Append(q, s) ELSE q
(* publishNotice: the oldest makes room. *)
Queued(q, s) == IF Len(q) < MaxNotices THEN Append(q, s) ELSE Append(Tail(q), s)

Notice == UNCHANGED machine /\ notices' = Queued(notices, machine)

Transition(e) ==
    /\ machine' = AfterEvent(machine, e)
    /\ notices' = IF Reacts(machine, e) THEN Queued(notices, machine') ELSE notices

-----------------------------------------------------------------------------
(* Boot and provisioning.                                                  *)

Boot ==
    /\ at = "boot"
    /\ \/ Transition("FatalError") /\ at' = "halted"            \* settings cannot be used
       \/ Transition("BootWithoutCredentials") /\ at' = "setup"
       \/ Transition("BootWithCredentials") /\ at' = "connect"
    /\ UNCHANGED <<socket, paired, clock, view, surroundings>>

OpenPortal ==
    /\ at = "setup"
    /\ \/ Notice /\ at' = "portal"
       \/ Transition("FatalError") /\ at' = "halted"
    /\ UNCHANGED <<socket, paired, clock, view, surroundings>>

Provisioned ==
    /\ at = "portal"
    /\ \/ Transition("CredentialsSaved") /\ at' = "connect"
       \/ Transition("FatalError") /\ at' = "halted"            \* settings cannot be loaded
    /\ UNCHANGED <<socket, paired, clock, view, surroundings>>

-----------------------------------------------------------------------------
(* Wi-Fi.                                                                  *)

Retry ==
    /\ at = "connect" /\ machine = "Offline"
    /\ Transition("Retry")
    /\ UNCHANGED <<at, socket, paired, clock, view, surroundings>>

WifiFails ==
    /\ at = "connect" /\ machine # "Offline"
    /\ Transition("WifiUnavailable")
    /\ UNCHANGED <<at, socket, paired, clock, view, surroundings>>

(* Two notices: the state, and the network's details. *)
WifiJoined ==
    /\ at = "connect" /\ machine # "Offline" /\ ap
    /\ wifi' = TRUE /\ at' = "discover"
    /\ machine' = AfterEvent(machine, "WifiConnected")
    /\ notices' = Queued(IF Reacts(machine, "WifiConnected") THEN Queued(notices, machine') ELSE notices,
                         machine')
    /\ UNCHANGED <<socket, paired, clock, view, override, ap, hostUp, accepts, calm>>

(* After the loop over host and session: webSocket_.disconnect() reports the *)
(* end of an open socket before the loss of Wi-Fi is announced.              *)
WifiLost ==
    /\ at \in {"discover", "pair"} /\ ~wifi
    /\ LET offline == IF socket THEN AfterEvent(machine, "HostDisconnected") ELSE machine
           first == IF socket /\ Reacts(machine, "HostDisconnected") THEN Queued(notices, offline) ELSE notices
       IN  /\ machine' = AfterEvent(offline, "WifiLost")
           /\ notices' = IF Reacts(offline, "WifiLost") THEN Queued(first, machine') ELSE first
    /\ at' = "connect" /\ socket' = FALSE
    /\ UNCHANGED <<paired, clock, view, surroundings>>

-----------------------------------------------------------------------------
(* Discovery and pairing.                                                  *)

(* configureWebSocket: the library may connect at once. *)
Configure ==
    /\ interval' \in Delays(BaseDelay, MaxDelay, attempts)
    /\ attempts' = CountAttempt(attempts, MaxAttempts)
    /\ silent' = 0 /\ rest' = 0 /\ at' = "session"

Discovered ==
    /\ at = "discover" /\ wifi /\ (override \/ hostUp)
    /\ \/ paired /\ Transition("HostDiscovered") /\ Configure
       \/ /\ ~paired /\ at' = "pair"
          /\ machine' = AfterEvent(machine, "PairingNeeded")
          /\ notices' = Queued(Queued(notices, machine'), machine')   \* state, then code
          /\ UNCHANGED clock
    /\ UNCHANGED <<socket, paired, view, surroundings>>

PairingSucceeds ==
    /\ at = "pair" /\ wifi /\ hostUp
    /\ paired' = TRUE /\ accepts' = TRUE
    /\ Transition("PairingComplete") /\ Configure
    /\ UNCHANGED <<socket, view, override, ap, wifi, hostUp, calm>>

(* The request failed, expired or was lost. *)
PairingFails ==
    /\ at = "pair"
    /\ Transition("HostDisconnected") /\ at' = "discover"
    /\ UNCHANGED <<socket, paired, clock, view, surroundings>>

-----------------------------------------------------------------------------
(* The session.                                                            *)

InSession == at = "session" /\ wifi

(* WStype_CONNECTED.  The loop clears disconnectedAtMs_ in the same turn. *)
Connected ==
    /\ InSession /\ ~socket /\ rest = 0 /\ hostUp /\ accepts
    /\ socket' = TRUE /\ attempts' = 0 /\ silent' = Unset
    /\ Transition("HostConnected")
    /\ UNCHANGED <<at, paired, interval, rest, view, surroundings>>

(* No answer, or a refusal: the library tries again after the interval. *)
AttemptFails ==
    /\ InSession /\ ~socket /\ rest = 0 /\ ~(hostUp /\ accepts)
    /\ rest' = interval
    /\ UNCHANGED <<at, machine, socket, paired, silent, attempts, interval, told, surroundings>>

Disconnected ==
    /\ InSession /\ socket /\ (hostUp => ~calm)
    /\ socket' = FALSE /\ silent' = 0 /\ rest' = interval
    /\ Transition("HostDisconnected")
    /\ UNCHANGED <<at, paired, attempts, interval, view, surroundings>>

PlaybackReported ==
    /\ InSession /\ socket
    /\ \E e \in {"PlaybackStarted", "PlaybackPaused", "PlaybackStopped"} : Transition(e)
    /\ UNCHANGED <<at, socket, paired, clock, view, surroundings>>

(* The socket was away for too long.  A host that answers /healthz must have *)
(* refused the token; clearing it may fail.                                 *)
GiveUp ==
    /\ InSession /\ ~socket /\ silent # Unset /\ silent >= Timeout
    /\ paired' \in (IF hostUp THEN {FALSE, TRUE} ELSE {TRUE})
    /\ Transition("HostDisconnected") /\ at' = "discover"
    /\ UNCHANGED <<socket, clock, view, surroundings>>

SessionLeft ==
    /\ at = "session" /\ ~wifi
    /\ at' = "discover"
    /\ UNCHANGED <<machine, socket, paired, clock, told, surroundings>>

Tick ==
    /\ InSession /\ (socket \/ rest > 0) /\ (silent # Unset => silent < Timeout)
    /\ silent' = IF silent = Unset THEN Unset ELSE silent + 1
    /\ rest' = IF rest > 0 THEN rest - 1 ELSE 0
    /\ UNCHANGED <<at, machine, socket, paired, attempts, interval, told, surroundings>>

Task ==
    \/ Boot \/ OpenPortal \/ Provisioned \/ Retry \/ WifiFails \/ WifiJoined \/ WifiLost
    \/ Discovered \/ PairingSucceeds \/ PairingFails \/ Connected \/ AttemptFails
    \/ PlaybackReported \/ GiveUp \/ SessionLeft \/ Tick

-----------------------------------------------------------------------------
(* The application takes the notices; the surroundings change.              *)

TakeNotice ==
    /\ notices # <<>>
    /\ view' = Head(notices) /\ notices' = Tail(notices)
    /\ UNCHANGED <<task, surroundings>>

Fault ==
    /\ ~calm
    /\ \/ ap' = ~ap /\ wifi' = (wifi /\ ~ap) /\ UNCHANGED <<hostUp, accepts>>
       \/ wifi' = FALSE /\ UNCHANGED <<ap, hostUp, accepts>>
       \/ hostUp' = ~hostUp /\ UNCHANGED <<ap, wifi, accepts>>
       \/ accepts' = FALSE /\ UNCHANGED <<ap, wifi, hostUp>>        \* deskwave-host revoke
    /\ UNCHANGED <<task, told, override, calm>>

Calm ==
    /\ ~calm /\ ap /\ hostUp /\ calm' = TRUE
    /\ UNCHANGED <<task, told, override, ap, wifi, hostUp, accepts>>

NetworkNext == Task \/ Disconnected \/ TakeNotice \/ Fault \/ Calm

NetworkSpec == NetworkInit /\ [][NetworkNext]_networkVars

-----------------------------------------------------------------------------
NetworkTypeOK ==
    /\ at \in {"boot", "setup", "portal", "halted", "connect", "discover", "pair", "session"}
    /\ machine \in States /\ view \in States
    /\ {socket, paired, override, ap, wifi, hostUp, accepts, calm} \subseteq BOOLEAN
    /\ silent \in 0 .. Timeout \cup {Unset} /\ attempts \in 0 .. MaxAttempts
    /\ interval \in 0 .. MaxDelay /\ rest \in 0 .. MaxDelay
    /\ notices \in Seq(States) /\ Len(notices) <= MaxNotices

(* No event comes in a state that has no edge for it: the machine fits the   *)
(* place in the code.                                                       *)
MachineFitsPlace ==
    /\ at = "connect" => machine \in {"ConnectingWifi", "Offline"}
    /\ at = "discover" /\ wifi => machine = "DiscoveringHost"
    /\ at = "pair" => machine = "Pairing"
    /\ at = "session" => machine \in HostStates \cup {"ConnectingHost", "DiscoveringHost"}

(* "Connection and playback state is represented by one deterministic state   *)
(* machine rather than independent readiness booleans" (ARCHITECTURE.md): the *)
(* machine and webSocketConnected_, which decides whether commands are sent,  *)
(* never disagree, through outages, reconnection in place and loss of Wi-Fi,  *)
(* and the machine fits the place in the code.                               *)
SocketMatchesMachine == (socket <=> machine \in HostStates) /\ MachineFitsPlace

(* The application shows the machine's state as soon as it has taken all      *)
(* notices, however many were dropped meanwhile.                            *)
ViewCatchesUp == notices = <<>> => view = machine

(* When faults have ended, the device is connected, and shows it, in the end  *)
(* and for good, unless its settings could not be used.                      *)
ConnectsInTheEnd == <>calm => <>(at = "halted" \/ [](socket /\ view \in HostStates))

(* TROUBLESHOOTING.md, "Pairing code never appears": after a revocation the   *)
(* device clears the token and shows a new code.                            *)
RevokedPairsAgain == (paired /\ ~accepts /\ calm) ~> (~paired \/ at = "halted")
=============================================================================
