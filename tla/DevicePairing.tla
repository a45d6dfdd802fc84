---------------------------- MODULE DevicePairing ----------------------------
(***************************************************************************)
(* Pairing: pairDevice of network_manager.cpp on the devices, the host's     *)
(* store behind /v1/pairing/request and /status (server.py), and the person  *)
(* who reads a code off a display and types it at the host, at once or       *)
(* later.  Every call may be lost, refused by the rate limiter, or carried   *)
(* out with its answer lost; each attempt of a device shows a new code.      *)
(***************************************************************************)
EXTENDS DeviceStore

CONSTANTS
    PollWindow,    \* how long the device polls for its approval (300 s)
    MayRevoke      \* do people revoke devices, and devices lose tokens

ASSUME WindowAssumption == PollWindow \in Nat /\ MayRevoke \in BOOLEAN

VARIABLES
    step,          \* where pairDevice is: out of it, or polling
    screen,        \* the code on display
    waited,        \* time since the request was accepted
    stored,        \* the token in NVS, with its validity flag
    noted,         \* the code that the person read last
    issuedFor,     \* history: device and code that each token was issued for
    handed,        \* history: tokens that the host has handed out
    withdrawn      \* history: tokens of devices that were revoked

device == <<step, screen, waited, stored>>
history == <<issuedFor, handed, withdrawn>>
pairingVars == <<store, device, noted, history>>

PairingInit ==
    /\ StoreInit
    /\ step = [d \in Devices |-> "idle"] /\ screen = [d \in Devices |-> None]
    /\ waited = [d \in Devices |-> 0] /\ stored = [d \in Devices |-> None]
    /\ noted = None
    /\ issuedFor = [t \in Tokens |-> None] /\ handed = {} /\ withdrawn = {}

-----------------------------------------------------------------------------
(* The device.                                                             *)

Idle(d) == step[d] = "idle" /\ stored[d] = None
Polling(d) == step[d] = "polling" /\ waited[d] < PollWindow

(* The request does not arrive, or is refused. *)
RequestLost(d) ==
    /\ Idle(d)
    /\ \E c \in Codes : screen' = [screen EXCEPT ![d] = c]
    /\ UNCHANGED <<store, step, waited, stored, noted, history>>

RequestArrives(d) ==
    /\ Idle(d)
    /\ \E c \in Codes : RequestPairing(d, c) /\ screen' = [screen EXCEPT ![d] = c]
    /\ \/ step' = [step EXCEPT ![d] = "polling"] /\ waited' = [waited EXCEPT ![d] = 0]
       \/ UNCHANGED <<step, waited>>             \* the answer is lost
    /\ UNCHANGED <<stored, noted, history>>

GivesUp(d) == step' = [step EXCEPT ![d] = "idle"]

PollLost(d) ==
    /\ Polling(d) /\ GivesUp(d)
    /\ UNCHANGED <<store, screen, waited, stored, noted, history>>

PollPending(d) ==
    /\ Polling(d) /\ NotApproved(d, screen[d])
    /\ UNCHANGED step \/ GivesUp(d)
    /\ UNCHANGED <<screen, waited, stored, noted, history>>

(* 404: the request expired or was replaced. *)
PollRejected(d) ==
    /\ Polling(d) /\ ~Known(d, screen[d]) /\ GivesUp(d)
    /\ UNCHANGED <<store, screen, waited, stored, noted, history>>

PollApproved(d) ==
    /\ Polling(d) /\ ConsumeApproval(d, screen[d]) /\ GivesUp(d)
    /\ handed' = handed \cup {Purged[d].token}
    /\ \/ stored' = [stored EXCEPT ![d] = Purged[d].token]
       \/ UNCHANGED stored                       \* the answer is lost, or NVS fails
    /\ UNCHANGED <<screen, waited, noted, issuedFor, withdrawn>>

WindowEnds(d) ==
    /\ step[d] = "polling" /\ waited[d] >= PollWindow /\ GivesUp(d)
    /\ UNCHANGED <<store, screen, waited, stored, noted, history>>

(* The session was given up (network_manager.cpp:421) or the device was reset. *)
ForgetToken(d) ==
    /\ MayRevoke /\ stored[d] # None
    /\ stored' = [stored EXCEPT ![d] = None]
    /\ UNCHANGED <<store, step, screen, waited, noted, history>>

Device(d) ==
    \/ RequestLost(d) \/ RequestArrives(d) \/ PollLost(d) \/ PollPending(d)
    \/ PollRejected(d) \/ PollApproved(d) \/ WindowEnds(d) \/ ForgetToken(d)

-----------------------------------------------------------------------------
(* The person, and time.                                                   *)

ReadCode(d) ==
    /\ screen[d] # None /\ noted' = screen[d]
    /\ UNCHANGED <<store, device, history>>

(* A random token differs from every token anybody still has. *)
InUse == {devices[d] : d \in Devices} \cup {stored[d] : d \in Devices}
         \cup {pending[d].token : d \in {e \in Devices : pending[e] # None}}

TypeCode(c) ==
    \E d \in Devices, t \in Tokens \ InUse :
        /\ ApprovePairing(d, c, t)
        /\ issuedFor' = [issuedFor EXCEPT ![t] = <<d, c>>]
        /\ handed' = handed \ {t} /\ withdrawn' = withdrawn \ {t}
        /\ UNCHANGED <<device, noted>>

RevokeDevice(d) ==
    /\ MayRevoke /\ devices[d] # None /\ Revoke(d)
    /\ withdrawn' = withdrawn \cup {devices[d]}
    /\ UNCHANGED <<device, noted, issuedFor, handed>>

Person ==
    \/ \E d \in Devices : ReadCode(d) \/ RevokeDevice(d)
    \/ noted # None /\ TypeCode(noted)
    \/ ListPending /\ UNCHANGED <<device, noted, history>>

PairingTick ==
    /\ \A d \in Devices : step[d] = "polling" => waited[d] < PollWindow
    /\ RowsAge
    /\ waited' = [d \in Devices |-> IF step[d] = "polling" THEN waited[d] + 1 ELSE waited[d]]
    /\ UNCHANGED <<step, screen, stored, noted, history>>

PairingNext == (\E d \in Devices : Device(d)) \/ Person \/ PairingTick

PairingSpec == PairingInit /\ [][PairingNext]_pairingVars

-----------------------------------------------------------------------------
PairingTypeOK ==
    /\ devices \in [Devices -> Tokens \cup {None}]
    /\ pending \in [Devices -> Request \cup {None}]
    /\ step \in [Devices -> {"idle", "polling"}]
    /\ screen \in [Devices -> Codes \cup {None}]
    /\ waited \in [Devices -> 0 .. PollWindow]
    /\ stored \in [Devices -> Tokens \cup {None}]
    /\ noted \in Codes \cup {None}
    /\ issuedFor \in [Tokens -> (Devices \X Codes) \cup {None}]
    /\ handed \subseteq Tokens /\ withdrawn \subseteq Tokens

(* A token that a device keeps is accepted by the host until somebody revokes *)
(* the device: no lost answer, replaced request or late approval, and no code *)
(* typed twice, puts another one in its place (storage.py:165).              *)
KeptTokenIsAccepted ==
    \A d \in Devices : stored[d] # None => devices[d] = stored[d] \/ stored[d] \in withdrawn

(* A device only ever gets the token that was issued for it, and for the code *)
(* that is on its display when it collects (storage.py:196, network_         *)
(* manager.cpp:364), and gets it once: an approval neither passes to a later *)
(* request nor is handed out again after a lost answer (PROTOCOL.md).        *)
TokenFitsCode ==
    [][\A d \in Devices :
          stored'[d] # stored[d] /\ stored'[d] # None =>
            issuedFor[stored'[d]] = <<d, screen[d]>> /\ stored'[d] \notin handed]_pairingVars

(* When two displays show the same code, typing it pairs neither: the person  *)
(* could mean only one of them.                                             *)
ApprovalIsUnambiguous ==
    [][\A d, e \in Devices :
          /\ devices'[d] \notin {devices[d], None}
          /\ e # d /\ Polling(e) /\ Known(e, screen[e]) /\ Purged[e].token = None
          => screen[e] # issuedFor'[devices'[d]][2]]_pairingVars

(* A person who keeps typing the code on display pairs the device in the end, *)
(* in spite of lost calls, expired requests and new codes.                   *)
PairsInTheEnd == \A d \in Devices : step[d] = "polling" ~> stored[d] # None
=============================================================================
