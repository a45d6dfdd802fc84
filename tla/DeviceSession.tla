---------------------------- MODULE DeviceSession ----------------------------
(***************************************************************************)
(* One WebSocket session of the host, from the handshake to its end:        *)
(* websocket() and DeviceSession of api/server.py, with the validation of   *)
(* protocol.py.  Two tasks of the host share the socket: the handler, which  *)
(* answers the device's messages one after the other, and the sender, which  *)
(* passes on the states that the service puts into the session's queue.      *)
(* A frame is written when the call to send is made, before the caller may   *)
(* be suspended, so that frames go out in the order of the calls.            *)
(*                                                                         *)
(* States are reduced to their age: version n is the n-th that the service  *)
(* published.  A message of the device is malformed, one of those that need *)
(* no command, or a command with the device's sequence number.              *)
(***************************************************************************)
EXTENDS Naturals, Sequences

CONSTANTS
    Requests,        \* sequence numbers of the device
    Outcomes,        \* what the service may answer to a command
    MaxResults,      \* how many results a session remembers (64)
    MaxInvalid,      \* how many malformed messages in a row end it (3)
    MaxSequence,     \* largest sequence number of the host (2^31 - 1)
    MaxVersion,      \* bound of this model: states published
    MaxInbox         \* bound of this model: messages under way from the device

ASSUME SessionAssumption ==
    /\ MaxResults \in Nat \ {0} /\ MaxInvalid \in Nat \ {0}
    /\ MaxSequence \in Nat \ {0} /\ MaxVersion \in Nat /\ MaxInbox \in Nat

VARIABLES
    version,     \* MediaService._state
    queue,       \* the subscriber queue: <<>> or one version
    handler,     \* where the handler is
    inbox,       \* frames of the device that the handler has not read
    sequence,    \* DeviceSession.sequence
    invalid,     \* invalid_messages
    results,     \* the remembered results, oldest first
    underway,     \* the request whose command is being executed, or <<>>
    frame,       \* the frame sent last
    shown,       \* version in the last playback_state sent
    given        \* history: the last command result sent

sessionVars == <<version, queue, handler, inbox, sequence, invalid, results, underway, frame, shown,
          given>>
service == <<version, queue>>

Result == [request : Requests, outcome : Outcomes]
Message == [kind : {"malformed", "binary", "ping", "status", "list"}, request : {0}]
           \cup [kind : {"control"}, request : Requests]
Frame == [kind : {"none", "hello", "state", "clock", "pong", "players", "error", "result"},
          sequence : 0 .. MaxSequence]
Places == {"hello", "state", "reading", "commanding", "ended"}

Open == handler # "ended"

NextSequence == (sequence + 1) % (MaxSequence + 1)

Send(kind) ==
    /\ sequence' = NextSequence
    /\ frame' = [kind |-> kind, sequence |-> NextSequence]

SessionInit ==
    /\ version = 0 /\ queue = <<>>
    /\ handler = "hello" /\ inbox = <<>>
    /\ sequence = 0 /\ invalid = 0 /\ results = <<>> /\ underway = <<>>
    /\ frame = [kind |-> "none", sequence |-> 0] /\ shown = 0
    /\ given = <<>>

-----------------------------------------------------------------------------
(* The service and the device.                                             *)

(* A new state goes to the service's variable and, in place of an older     *)
(* one, into the queue of every subscriber.                                 *)
PublishVersion ==
    /\ version < MaxVersion
    /\ version' = version + 1
    /\ queue' = IF Open THEN <<version'>> ELSE queue
    /\ UNCHANGED <<handler, inbox, sequence, invalid, results, underway, frame, shown, given>>

DeviceSends ==
    /\ Open /\ Len(inbox) < MaxInbox
    /\ \E m \in Message : inbox' = Append(inbox, m)
    /\ UNCHANGED <<service, handler, sequence, invalid, results, underway, frame, shown, given>>

-----------------------------------------------------------------------------
(* The handler.                                                            *)

SendHello ==
    /\ handler = "hello"
    /\ Send("hello")
    /\ handler' = "state"
    /\ UNCHANGED <<service, inbox, invalid, results, underway, shown, given>>

(* A slip: the state the session was opened with. *)
OpeningVersion == IF queue # <<>> THEN queue[1] - 1 ELSE 0

(* send_initial reads the service's state after hello has gone out, when    *)
(* the sender may already have passed on one.                               *)
InitialVersion == version

SendInitialState ==
    /\ handler = "state"
    /\ Send("state") /\ shown' = InitialVersion
    /\ handler' = "reading"
    /\ UNCHANGED <<service, inbox, invalid, results, underway, given>>

Read(kinds) == handler = "reading" /\ inbox # <<>> /\ Head(inbox).kind \in kinds
Reads == inbox' = Tail(inbox)

(* A message that parse_message accepts ends a row of malformed ones when   *)
(* it has been handled.                                                     *)
Handled == invalid' = 0

(* Messages that change nothing here: ping, list_players, device_status.    *)
HandleQuestion ==
    /\ Read({"ping", "status", "list"}) /\ Reads /\ Handled
    /\ IF Head(inbox).kind = "status" THEN UNCHANGED <<sequence, frame>>
       ELSE Send(IF Head(inbox).kind = "ping" THEN "pong" ELSE "players")
    /\ UNCHANGED <<service, handler, results, underway, shown, given>>

Malformed ==
    /\ Read({"malformed", "binary"}) /\ Reads
    /\ Send("error")
    /\ invalid' = invalid + 1
    /\ handler' = IF invalid + 1 >= MaxInvalid THEN "ended" ELSE handler
    /\ queue' = IF handler' = "ended" THEN <<>> ELSE queue
    /\ UNCHANGED <<version, results, underway, shown, given>>

(* A slip: what was executed last is looked at only. *)
RememberedLast(r) == {i \in DOMAIN results : i = Len(results) /\ results[i].request = r}

ResultsAfter(r) == {i \in DOMAIN results : results[i].request = r}

(* A request seen before is answered with the frame sent before, its old     *)
(* sequence number included.                                               *)
RepeatResult ==
    /\ Read({"control"}) /\ ResultsAfter(Head(inbox).request) # {} /\ Reads /\ Handled
    /\ \E i \in ResultsAfter(Head(inbox).request) : given' = <<results[i]>>
    /\ frame' = [frame EXCEPT !.kind = "result"]
    /\ UNCHANGED <<service, handler, sequence, results, underway, shown>>

(* service.command awaits the backend. *)
BeginCommand ==
    /\ Read({"control"}) /\ ResultsAfter(Head(inbox).request) = {} /\ Reads
    /\ underway' = <<Head(inbox).request>>
    /\ handler' = "commanding"
    /\ UNCHANGED <<service, sequence, invalid, results, frame, shown, given>>

(* The results are cut back to MaxResults after each entry. *)
Cut(s) == IF Len(s) > MaxResults THEN Tail(s) ELSE s

CommandDone ==
    /\ handler = "commanding"
    /\ \E o \in Outcomes :
          LET r == [request |-> underway[1], outcome |-> o]
          IN  results' = Cut(Append(results, r)) /\ given' = <<r>>
    /\ Send("result") /\ Handled
    /\ handler' = "reading" /\ underway' = <<>>
    /\ UNCHANGED <<service, inbox, shown>>

(* The connection goes, at any time: the finally clause of websocket()       *)
(* unsubscribes and ends the sender.  A command under way is cancelled or    *)
(* its answer has nowhere to go.                                            *)
End ==
    /\ Open
    /\ handler' = "ended" /\ queue' = <<>>
    /\ UNCHANGED <<version, inbox, sequence, invalid, results, underway, frame, shown, given>>

Handler == SendHello \/ SendInitialState \/ HandleQuestion \/ Malformed \/ RepeatResult
           \/ BeginCommand \/ CommandDone

-----------------------------------------------------------------------------
(* The sender: the newest state, or the time every CLOCK_SYNC_SECONDS.      *)

(* It runs for the first time when the handler waits after hello. *)
Sending == handler \notin {"hello", "ended"}

SendUpdate ==
    /\ Sending /\ queue # <<>>
    /\ Send("state") /\ shown' = queue[1] /\ queue' = <<>>
    /\ UNCHANGED <<version, handler, inbox, invalid, results, underway, given>>

SendClock ==
    /\ Sending /\ queue = <<>>
    /\ Send("clock")
    /\ UNCHANGED <<service, handler, inbox, invalid, results, underway, shown, given>>

Sender == SendUpdate \/ SendClock

-----------------------------------------------------------------------------
(* The device connects again: a session with nothing of the old one. *)
NewSession ==
    /\ ~Open
    /\ handler' = "hello" /\ inbox' = <<>> /\ queue' = <<>>
    /\ sequence' = 0 /\ invalid' = 0 /\ results' = <<>> /\ underway' = <<>>
    /\ frame' = [kind |-> "none", sequence |-> 0] /\ shown' = 0
    /\ given' = <<>>
    /\ UNCHANGED version

SessionNext == PublishVersion \/ DeviceSends \/ Handler \/ Sender \/ End \/ NewSession

SessionSpec == SessionInit /\ [][SessionNext]_sessionVars

-----------------------------------------------------------------------------
SessionTypeOK ==
    /\ version \in 0 .. MaxVersion
    /\ queue \in {<<>>} \cup {<<v>> : v \in 1 .. version}
    /\ handler \in Places
    /\ inbox \in Seq(Message) /\ Len(inbox) <= MaxInbox
    /\ sequence \in 0 .. MaxSequence /\ invalid \in 0 .. MaxInvalid
    /\ results \in Seq(Result) /\ Len(results) <= MaxResults
    /\ underway \in {<<>>} \cup {<<r>> : r \in Requests}
    /\ frame \in Frame /\ shown \in 0 .. version
    /\ given \in {<<>>} \cup {<<r>> : r \in Result}

(* States never go back: two tasks send them, one from the queue and one     *)
(* from the service's variable (server.py:322, 329).                        *)
StatesNeverGoBack == [][handler # "ended" => shown' >= shown]_sessionVars

(* The session keeps the promise about commands. *)
Abstract == INSTANCE CommandOnce WITH
                Sequences <- Requests,
                remembered <- IF Open THEN results ELSE <<>>,
                given <- IF Open THEN given ELSE <<>>
KeepsPromise == Abstract!Spec

(* A session that stays shows the newest state in the end, although what the *)
(* handler sends first and what the sender passes on are read apart          *)
(* (server.py:329, 335).                                                    *)
SessionCatchesUp == <>[]Open => <>[](version = MaxVersion => shown = MaxVersion)
=============================================================================
