--------------------------- MODULE ConnectionState ---------------------------
(* The device's state machine (StateMachine in application_state.cpp) and the *)
(* delays of its reconnect clocks (backoff.h).                               *)
EXTENDS Naturals

States == {"Boot", "Provisioning", "ConnectingWifi", "DiscoveringHost", "Pairing",
           "ConnectingHost", "Ready", "Playing", "Paused", "Offline", "Error"}

(* StateMachine::hostConnected and Application::hostState. *)
HostStates == {"Ready", "Playing", "Paused"}

Becomes(from, event, to) == {<<s, event, to>> : s \in from \ {to}}

(* A slip: after an outage the socket is always configured anew. *)
NoEdgeInPlace == {}
(* The WebSocket library reconnects in place after a brief outage. *)
EdgeInPlace == {<<"DiscoveringHost", "HostConnected", "Ready">>}

Edges ==
    { <<"Boot", "BootWithCredentials", "ConnectingWifi">>,
      <<"Boot", "BootWithoutCredentials", "Provisioning">>,
      <<"Provisioning", "CredentialsSaved", "ConnectingWifi">>,
      <<"ConnectingWifi", "WifiConnected", "DiscoveringHost">>,
      <<"DiscoveringHost", "HostDiscovered", "ConnectingHost">>,
      <<"DiscoveringHost", "PairingNeeded", "Pairing">>,
      <<"Pairing", "PairingComplete", "ConnectingHost">>,
      <<"Pairing", "HostDisconnected", "DiscoveringHost">>,
      <<"ConnectingHost", "HostConnected", "Ready">>,
      <<"ConnectingHost", "HostDisconnected", "DiscoveringHost">>,
      <<"Offline", "Retry", "ConnectingWifi">> }
    \cup EdgeInPlace
    \cup Becomes(HostStates, "PlaybackStarted", "Playing")
    \cup Becomes(HostStates, "PlaybackPaused", "Paused")
    \cup Becomes(HostStates, "PlaybackStopped", "Ready")
    \cup Becomes(HostStates, "HostDisconnected", "DiscoveringHost")
    \cup { <<s, e, "Offline">> : s \in States \ {"Boot", "Provisioning", "Error"},
                                 e \in {"WifiLost", "WifiUnavailable"} }
    \cup { <<s, "FatalError", "Error">> : s \in States }

(* transition() returns whether there is such an edge. *)
Reacts(s, e) == \E edge \in Edges : edge[1] = s /\ edge[2] = e
AfterEvent(s, e) ==
    IF Reacts(s, e) THEN (CHOOSE edge \in Edges : edge[1] = s /\ edge[2] = e)[3] ELSE s

(* ReconnectBackoff::next: the base doubled at each attempt, up to a quarter  *)
(* more at random, never above the maximum.                                 *)
Delays(base, maximum, attempt) ==
    LET least(a, b) == IF a < b THEN a ELSE b
        bounded == least(base * 2 ^ least(attempt, 15), maximum)
    IN  {least(bounded + r, maximum) : r \in 0 .. (IF bounded < 8 THEN 0 ELSE bounded \div 4 - 1)}
CountAttempt(attempt, most) == IF attempt < most THEN attempt + 1 ELSE attempt
=============================================================================
