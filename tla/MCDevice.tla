------------------------------ MODULE MCDevice ------------------------------
(***************************************************************************)
(* Instances of the device's parts for TLC.  As in MCHost, the parts of one  *)
(* run share no variable, and Init picks the one that is looked at.          *)
(***************************************************************************)
EXTENDS NetworkManager, RemoteControl, DeviceBoot, InputControls, TLC

CONSTANT Parts
CONSTANTS home, work, homePassword, workPassword, t1, t2, host1, port1, d1, d2

VARIABLE part
deviceVars == <<part, networkVars, controlVars, bootVars, inputVars>>

PlainBuild == [network |-> Absent, force |-> FALSE]

(* The other parts wait in an initial state of theirs. *)
DeviceInit ==
    /\ part \in Parts
    /\ NetworkInit /\ ControlInit /\ BootInit /\ InputInit
    /\ part # "network" => ~paired /\ ~override /\ ~ap /\ ~hostUp
    /\ part # "control" => /\ player = CHOOSE s \in Desktops : TRUE
                           /\ user = CHOOSE u \in Users : TRUE
    /\ part # "input" => hands = CHOOSE h \in Hands : TRUE
    /\ part # "boot" => nvs = Blank /\ build = PlainBuild /\ ~failing

(* A network task that has given up does nothing for ever. *)
Halted == part = "network" /\ at = "halted" /\ UNCHANGED networkVars

DeviceNext ==
    /\ UNCHANGED part
    /\ \/ part = "network" /\ NetworkNext /\ UNCHANGED <<controlVars, bootVars, inputVars>>
       \/ Halted /\ UNCHANGED <<controlVars, bootVars, inputVars>>
       \/ part = "control" /\ ControlNext /\ UNCHANGED <<networkVars, bootVars, inputVars>>
       \/ part = "boot" /\ BootNext /\ UNCHANGED <<networkVars, controlVars, inputVars>>
       \/ part = "input" /\ InputNext /\ UNCHANGED <<networkVars, controlVars, bootVars>>

(* Type invariant. *)
DeviceTypeOK == NetworkTypeOK /\ ControlTypeOK /\ BootTypeOK /\ InputTypeOK

DeviceSpec == DeviceInit /\ [][DeviceNext]_deviceVars

(* FreeRTOS runs every task.  For the connection: what may succeed does now  *)
(* and then, joining, discovery, pairing, connecting, and clearing a token.  *)
(* For the controls: the session publishes again and again.  For the         *)
(* settings: the flash does not fail the same write for ever.               *)
FairDevice ==
    /\ DeviceSpec
    /\ WF_networkVars(part = "network" /\ TakeNotice)
    /\ WF_networkVars(part = "network" /\ Task)
    /\ WF_networkVars(part = "network" /\ (Boot \/ OpenPortal \/ Provisioned \/ Retry \/ WifiLost
                                           \/ GiveUp \/ SessionLeft))
    /\ WF_networkVars(part = "network" /\ InSession /\ ~socket /\ Tick)
    /\ SF_networkVars(part = "network" /\ WifiJoined)
    /\ SF_networkVars(part = "network" /\ Discovered)
    /\ SF_networkVars(part = "network" /\ PairingSucceeds)
    /\ SF_networkVars(part = "network" /\ Connected)
    /\ SF_networkVars(part = "network" /\ GiveUp /\ ~paired')
    /\ WF_controlVars(part = "control" /\ ConsumeQueues)
    /\ WF_controlVars(part = "control" /\ (SendCommand \/ RejectCommand))
    /\ WF_controlVars(part = "control" /\ Receive)
    /\ WF_controlVars(part = "control" /\ connected /\ Execute(Link))
    /\ SF_controlVars(part = "control" /\ connected /\ Poll)

-----------------------------------------------------------------------------
(* Values. *)
At(v) == [Nothing EXCEPT !.volume = v, !.muted = (v = 0)]
SilentToo == {At(-1), At(1)}
OneState == {At(1)}
ShortAndLong == {<<"p">>, <<"q", "p">>}
NoLists == {<<>>}
SeveralUsers ==
    {{"volume_up", "volume_down", "mute"},
     {"list_players", "next_player", "select_player"},
     {"toggle"}, {"shuffle_toggle"}, {"set_repeat"}, {"next", "seek"}}
TwoUsers == {{"volume_up"}, {"set_repeat"}}
TwoNetworks == {<<home, homePassword>>, <<work, workPassword>>}
OneNetwork == {<<home, homePassword>>}
OneEndpoint == {<<host1, port1>>}
TwoBuilds == {PlainBuild, [network |-> <<work, workPassword>>, force |-> TRUE]}
OneBuild == {PlainBuild}
TokenSymmetry == Permutations(Tokens)
PressTimes == [b \in Buttons |-> IF b = "menu" THEN 3 ELSE 2]
ChordAndKnob ==
    {[buttons |-> Chord, screen |-> "playing", closings |-> 4],
     [buttons |-> {"knob", "menu"}, screen |-> "device", closings |-> 4],
     [buttons |-> {"knob", "left"}, screen |-> "settings", closings |-> 3]}
KnobOnly == {[buttons |-> {"knob"}, screen |-> "playing", closings |-> 0]}
=============================================================================
