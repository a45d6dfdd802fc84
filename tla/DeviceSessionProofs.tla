------------------------ MODULE DeviceSessionProofs ------------------------
(***************************************************************************)
(* Proofs about DeviceSession, for every set of requests and outcomes and  *)
(* every number of remembered results: its type invariant, that states     *)
(* never go back although two tasks send them, and that the session keeps  *)
(* the promise of CommandOnce.                                             *)
(*                                                                         *)
(* Two facts carry them: what waits in the subscriber queue is the newest  *)
(* state, and a request under way is not among the remembered ones, since  *)
(* the handler takes no message while a command runs.                      *)
(***************************************************************************)
EXTENDS DeviceSession, SequenceTheorems, TLAPS

USE SessionAssumption

QueueIsNewest == queue # <<>> => queue[1] = version

UnderwayIsNew ==
  handler = "commanding" =>
    \E r \in Requests : underway = <<r>> /\ ResultsAfter(r) = {}

EndedIsSilent == handler = "ended" => queue = <<>>

OpenIsTolerated == Open => invalid < MaxInvalid

SessionInv == SessionTypeOK /\ QueueIsNewest /\ UnderwayIsNew /\ EndedIsSilent /\ OpenIsTolerated

----------------------------------------------------------------------------
(* Helpers keep the types.                                                 *)

LEMMA NextSequenceType ==
  ASSUME sequence \in 0 .. MaxSequence PROVE NextSequence \in 0 .. MaxSequence
BY DEF NextSequence

LEMMA SendType ==
  ASSUME sequence \in 0 .. MaxSequence,
         NEW kind \in {"hello", "state", "clock", "pong", "players", "error", "result"},
         Send(kind)
  PROVE  sequence' \in 0 .. MaxSequence /\ frame' \in Frame
<1>1. NextSequence \in 0 .. MaxSequence  BY NextSequenceType
<1> QED  BY <1>1 DEF Send, Frame

LEMMA CutResults ==
  ASSUME results \in Seq(Result), Len(results) <= MaxResults, NEW r \in Result
  PROVE  /\ Cut(Append(results, r)) \in Seq(Result)
         /\ Len(Cut(Append(results, r))) <= MaxResults
         /\ Cut(Append(results, r)) = IF Len(results) < MaxResults THEN Append(results, r)
                                      ELSE Append(Tail(results), r)
<1>1. Append(results, r) \in Seq(Result) /\ Len(Append(results, r)) = Len(results) + 1
  BY AppendProperties
<1>2. Len(results) \in Nat  BY LenProperties
<1>3. CASE Len(results) < MaxResults
  BY <1>1, <1>2, <1>3 DEF Cut
<1>4. CASE ~ (Len(results) < MaxResults)
  <2>1. Len(results) = MaxResults /\ results # <<>>
    BY <1>2, <1>4, EmptySeq
  <2>2. Tail(Append(results, r)) = Append(Tail(results), r)
    BY <2>1
  <2>3. Tail(results) \in Seq(Result) /\ Len(Tail(results)) = Len(results) - 1
    BY <2>1, HeadTailProperties
  <2>4. Append(Tail(results), r) \in Seq(Result) /\ Len(Append(Tail(results), r)) = Len(results)
    BY <1>2, <2>3, AppendProperties
  <2> QED  BY <1>1, <1>2, <1>4, <2>1, <2>2, <2>4 DEF Cut
<1> QED  BY <1>3, <1>4

LEMMA InboxRead ==
  ASSUME SessionTypeOK, NEW kinds, Read(kinds), Reads
  PROVE  /\ Head(inbox) \in Message /\ Head(inbox).kind \in kinds
         /\ inbox' \in Seq(Message) /\ Len(inbox') <= MaxInbox
         /\ handler = "reading"
<1>1. inbox \in Seq(Message) /\ inbox # <<>>  BY DEF SessionTypeOK, Read
<1>2. Head(inbox) \in Message /\ Tail(inbox) \in Seq(Message) /\ Len(Tail(inbox)) = Len(inbox) - 1
  BY <1>1, HeadTailProperties
<1>3. Len(inbox) \in Nat  BY <1>1, LenProperties
<1> QED  BY <1>2, <1>3 DEF SessionTypeOK, Read, Reads

LEMMA SessionInvInit == SessionInit => SessionInv
<1> SUFFICES ASSUME SessionInit PROVE SessionInv
  OBVIOUS
<1>1. <<>> \in Seq(Message) /\ Len(<<>>) = 0 /\ <<>> \in Seq(Result)
  OBVIOUS
<1>2. SessionTypeOK
  BY <1>1 DEF SessionInit, SessionTypeOK, Frame, Places
<1> QED  BY <1>2 DEF SessionInit, SessionInv, QueueIsNewest, UnderwayIsNew, EndedIsSilent, OpenIsTolerated

----------------------------------------------------------------------------
(* Steps of the service and the device.                                    *)

LEMMA PublishVersionInv ==
  ASSUME SessionInv, PublishVersion PROVE SessionInv'
<1>1. version \in Nat /\ version' = version + 1 /\ version' \in 0 .. MaxVersion
      /\ version' \in 1 .. version'
  BY DEF PublishVersion, SessionInv, SessionTypeOK
<1>2. queue' \in {<<>>} \cup {<<v>> : v \in 1 .. version'}
  <2>1. CASE Open  BY <1>1, <2>1 DEF PublishVersion
  <2>2. CASE ~ Open
    <3>1. queue' = queue /\ queue = <<>>
      BY <2>2 DEF PublishVersion, Open, SessionInv, EndedIsSilent
    <3> QED  BY <3>1
  <2> QED  BY <2>1, <2>2
<1>3. shown' \in 0 .. version'  BY <1>1 DEF PublishVersion, SessionInv, SessionTypeOK
<1>4. SessionTypeOK'
  BY <1>1, <1>2, <1>3 DEF PublishVersion, SessionInv, SessionTypeOK
<1>5. QueueIsNewest' /\ EndedIsSilent' /\ OpenIsTolerated'
  BY <1>1 DEF PublishVersion, Open, SessionInv, QueueIsNewest, EndedIsSilent, OpenIsTolerated
<1>6. UnderwayIsNew'  BY DEF PublishVersion, SessionInv, UnderwayIsNew, ResultsAfter
<1> QED  BY <1>4, <1>5, <1>6 DEF SessionInv

LEMMA DeviceSendsInv ==
  ASSUME SessionInv, DeviceSends PROVE SessionInv'
<1>1. PICK m \in Message : inbox' = Append(inbox, m)  BY DEF DeviceSends
<1>2. inbox' \in Seq(Message) /\ Len(inbox') <= MaxInbox
  <2>1. inbox \in Seq(Message)  BY DEF SessionInv, SessionTypeOK
  <2>2. Len(inbox) \in Nat /\ Len(inbox) < MaxInbox  BY <2>1, LenProperties DEF DeviceSends
  <2> QED  BY <1>1, <2>1, <2>2, AppendProperties
<1>3. SessionTypeOK'  BY <1>2 DEF DeviceSends, service, SessionInv, SessionTypeOK
<1> QED  BY <1>3 DEF DeviceSends, service, SessionInv, QueueIsNewest, UnderwayIsNew, EndedIsSilent, ResultsAfter,
          OpenIsTolerated, Open

----------------------------------------------------------------------------
(* Steps of the handler.                                                   *)

LEMMA HelloInv ==
  ASSUME SessionInv, SendHello \/ SendInitialState PROVE SessionInv'
<1>1. sequence' \in 0 .. MaxSequence /\ frame' \in Frame
  BY SendType DEF SendHello, SendInitialState, SessionInv, SessionTypeOK
<1>2. shown' \in 0 .. version
  <2>1. version \in 0 .. version  BY DEF SessionInv, SessionTypeOK
  <2> QED  BY <2>1 DEF SendHello, SendInitialState, InitialVersion, SessionInv, SessionTypeOK
<1>3. SessionTypeOK'
  BY <1>1, <1>2 DEF SendHello, SendInitialState, service, SessionInv, SessionTypeOK, Places
<1> QED  BY <1>3 DEF SendHello, SendInitialState, service, SessionInv, QueueIsNewest, UnderwayIsNew, EndedIsSilent, ResultsAfter,
          OpenIsTolerated, Open

LEMMA HandleQuestionInv ==
  ASSUME SessionInv, HandleQuestion PROVE SessionInv'
<1>1. inbox' \in Seq(Message) /\ Len(inbox') <= MaxInbox /\ handler = "reading"
  BY InboxRead DEF HandleQuestion, SessionInv
<1>2. sequence' \in 0 .. MaxSequence /\ frame' \in Frame
  <2>1. CASE UNCHANGED <<sequence, frame>>  BY <2>1 DEF SessionInv, SessionTypeOK
  <2>2. CASE Send("pong") \/ Send("players")
    BY <2>2, SendType DEF SessionInv, SessionTypeOK
  <2> QED  BY <2>1, <2>2 DEF HandleQuestion
<1>3. SessionTypeOK'
  BY <1>1, <1>2 DEF HandleQuestion, Handled, service, SessionInv, SessionTypeOK
<1> QED  BY <1>1, <1>3 DEF HandleQuestion, Handled, service, SessionInv, QueueIsNewest, UnderwayIsNew, EndedIsSilent, ResultsAfter,
          OpenIsTolerated, Open

LEMMA MalformedInv ==
  ASSUME SessionInv, Malformed PROVE SessionInv'
<1>1. inbox' \in Seq(Message) /\ Len(inbox') <= MaxInbox /\ handler = "reading"
  BY InboxRead DEF Malformed, SessionInv
<1>2. sequence' \in 0 .. MaxSequence /\ frame' \in Frame
  BY SendType DEF Malformed, SessionInv, SessionTypeOK
<1>3. handler' \in {"reading", "ended"}  BY <1>1 DEF Malformed
<1>4. invalid' \in 0 .. MaxInvalid
  <2>1. invalid \in 0 .. MaxInvalid /\ invalid' = invalid + 1
    BY DEF Malformed, SessionInv, SessionTypeOK
  <2>2. invalid < MaxInvalid
    BY <1>1 DEF SessionInv, OpenIsTolerated, Open
  <2> QED  BY <2>1, <2>2
<1>5. queue' = queue \/ queue' = <<>>  BY DEF Malformed
<1>6. SessionTypeOK'
  BY <1>1, <1>2, <1>3, <1>4, <1>5 DEF Malformed, SessionInv, SessionTypeOK, Places
<1>7. handler' # "ended" => invalid' < MaxInvalid
  BY <1>1, <1>4 DEF Malformed, SessionInv, SessionTypeOK
<1> QED  BY <1>1, <1>3, <1>5, <1>6, <1>7 DEF Malformed, SessionInv, QueueIsNewest, UnderwayIsNew, EndedIsSilent, ResultsAfter,
          OpenIsTolerated, Open

LEMMA RepeatResultInv ==
  ASSUME SessionInv, RepeatResult PROVE SessionInv'
<1>1. inbox' \in Seq(Message) /\ Len(inbox') <= MaxInbox /\ handler = "reading"
  BY InboxRead DEF RepeatResult, SessionInv
<1>2. given' \in {<<>>} \cup {<<r>> : r \in Result}
  <2>1. PICK i \in DOMAIN results : given' = <<results[i]>>
    BY DEF RepeatResult, ResultsAfter
  <2>2. results[i] \in Result  BY ElementOfSeq DEF SessionInv, SessionTypeOK
  <2> QED  BY <2>1, <2>2
<1>3. frame' \in Frame  BY DEF RepeatResult, Frame, SessionInv, SessionTypeOK
<1>4. SessionTypeOK'
  BY <1>1, <1>2, <1>3 DEF RepeatResult, Handled, service, SessionInv, SessionTypeOK
<1> QED  BY <1>1, <1>4 DEF RepeatResult, Handled, service, SessionInv, QueueIsNewest, UnderwayIsNew, EndedIsSilent, ResultsAfter,
          OpenIsTolerated, Open

LEMMA BeginCommandInv ==
  ASSUME SessionInv, BeginCommand PROVE SessionInv'
<1>1. /\ inbox' \in Seq(Message) /\ Len(inbox') <= MaxInbox /\ handler = "reading"
      /\ Head(inbox) \in Message /\ Head(inbox).kind \in {"control"}
  BY InboxRead DEF BeginCommand, SessionInv
<1>2. Head(inbox).request \in Requests  BY <1>1 DEF Message
<1>3. SessionTypeOK'
  BY <1>1, <1>2 DEF BeginCommand, service, SessionInv, SessionTypeOK, Places
<1>4. UnderwayIsNew'  BY <1>2 DEF BeginCommand, UnderwayIsNew, ResultsAfter
<1> QED
  BY <1>1, <1>3, <1>4 DEF BeginCommand, service, SessionInv, QueueIsNewest, EndedIsSilent,
     OpenIsTolerated, Open

LEMMA CommandDoneInv ==
  ASSUME SessionInv, CommandDone PROVE SessionInv'
<1>1. PICK o \in Outcomes :
        LET r == [request |-> underway[1], outcome |-> o]
        IN  results' = Cut(Append(results, r)) /\ given' = <<r>>
  BY DEF CommandDone
<1> DEFINE r == [request |-> underway[1], outcome |-> o]
<1>2. r \in Result
  <2>1. underway[1] \in Requests  BY DEF CommandDone, SessionInv, UnderwayIsNew
  <2> QED  BY <2>1 DEF Result
<1>3. results' \in Seq(Result) /\ Len(results') <= MaxResults
  <2>1. results' = Cut(Append(results, r))  BY <1>1
  <2> HIDE DEF r
  <2> QED  BY <1>2, <2>1, CutResults DEF SessionInv, SessionTypeOK
<1>4. sequence' \in 0 .. MaxSequence /\ frame' \in Frame
  BY SendType DEF CommandDone, SessionInv, SessionTypeOK
<1>5. SessionTypeOK'
  BY <1>1, <1>2, <1>3, <1>4 DEF CommandDone, Handled, service, SessionInv, SessionTypeOK, Places
<1> QED  BY <1>5 DEF CommandDone, Handled, service, SessionInv, QueueIsNewest, UnderwayIsNew, EndedIsSilent, ResultsAfter,
          OpenIsTolerated, Open

----------------------------------------------------------------------------
(* Steps of the sender, and the end.                                       *)

LEMMA SenderInv ==
  ASSUME SessionInv, Sender PROVE SessionInv'
<1>1. sequence' \in 0 .. MaxSequence /\ frame' \in Frame
  BY SendType DEF Sender, SendUpdate, SendClock, SessionInv, SessionTypeOK
<1>2. shown' \in 0 .. version
  BY DEF Sender, SendUpdate, SendClock, SessionInv, SessionTypeOK, QueueIsNewest
<1>3. SessionTypeOK'
  BY <1>1, <1>2 DEF Sender, SendUpdate, SendClock, service, SessionInv, SessionTypeOK
<1> QED  BY <1>3 DEF Sender, SendUpdate, SendClock, service, SessionInv, QueueIsNewest, UnderwayIsNew, EndedIsSilent, ResultsAfter,
          OpenIsTolerated, Open

LEMMA EndInv ==
  ASSUME SessionInv, End PROVE SessionInv'
<1>1. SessionTypeOK'  BY DEF End, SessionInv, SessionTypeOK, Places
<1> QED  BY <1>1 DEF End, SessionInv, QueueIsNewest, UnderwayIsNew, EndedIsSilent, ResultsAfter,
          OpenIsTolerated, Open

LEMMA NewSessionInv ==
  ASSUME SessionInv, NewSession PROVE SessionInv'
<1>1. <<>> \in Seq(Message) /\ Len(<<>>) = 0 /\ <<>> \in Seq(Result)
  OBVIOUS
<1>2. [kind |-> "none", sequence |-> 0] \in Frame  BY DEF Frame
<1>3. SessionTypeOK'  BY <1>1, <1>2 DEF NewSession, SessionInv, SessionTypeOK, Places
<1> QED  BY <1>3 DEF NewSession, SessionInv, QueueIsNewest, UnderwayIsNew, EndedIsSilent, ResultsAfter,
          OpenIsTolerated, Open

LEMMA SessionInvStep ==
  ASSUME SessionInv, [SessionNext]_sessionVars PROVE SessionInv'
<1>1. CASE PublishVersion  BY <1>1, PublishVersionInv
<1>2. CASE DeviceSends  BY <1>2, DeviceSendsInv
<1>3. CASE Handler
  BY <1>3, HelloInv, HandleQuestionInv, MalformedInv, RepeatResultInv, BeginCommandInv,
     CommandDoneInv DEF Handler
<1>4. CASE Sender  BY <1>4, SenderInv
<1>5. CASE End  BY <1>5, EndInv
<1>6. CASE NewSession  BY <1>6, NewSessionInv
<1>7. CASE UNCHANGED sessionVars
  BY <1>7 DEF sessionVars, SessionTypeOK, SessionInv, QueueIsNewest, UnderwayIsNew, EndedIsSilent, ResultsAfter,
          OpenIsTolerated, Open
<1> QED  BY <1>1, <1>2, <1>3, <1>4, <1>5, <1>6, <1>7 DEF SessionNext

LEMMA SessionInvHolds == SessionSpec => []SessionInv
<1>1. SessionInit => SessionInv  BY SessionInvInit
<1>2. SessionInv /\ [SessionNext]_sessionVars => SessionInv'  BY SessionInvStep
<1> QED  BY <1>1, <1>2, PTL DEF SessionSpec

----------------------------------------------------------------------------
(* The theorems.                                                           *)

(* The variables have their types in every behaviour.                      *)
THEOREM SessionTypes == SessionSpec => []SessionTypeOK
BY SessionInvHolds, PTL DEF SessionInv

(* Neither of the two tasks that send states ever sends one that is older  *)
(* than what the other has sent.                                           *)
THEOREM StatesGoForward == SessionSpec => StatesNeverGoBack
<1>1. ASSUME SessionInv, SessionNext PROVE handler # "ended" => shown' >= shown
  <2> SUFFICES ASSUME handler # "ended" PROVE shown' >= shown
    OBVIOUS
  <2>1. shown \in Nat /\ version \in Nat /\ shown <= version
    BY <1>1 DEF SessionInv, SessionTypeOK
  <2>2. CASE SendInitialState
    BY <2>1, <2>2 DEF SendInitialState, InitialVersion
  <2>3. CASE SendUpdate
    BY <1>1, <2>1, <2>3 DEF SendUpdate, SessionInv, QueueIsNewest
  <2>4. CASE ~ SendInitialState /\ ~ SendUpdate
    <3>1. shown' = shown
      BY <1>1, <2>4 DEF SessionNext, Handler, Sender, PublishVersion, DeviceSends, SendHello,
         HandleQuestion, Malformed, RepeatResult, BeginCommand, CommandDone, SendClock, End,
         NewSession, Open
    <3> QED  BY <2>1, <3>1
  <2> QED  BY <2>2, <2>3, <2>4
<1>2. SessionInv /\ [SessionNext]_sessionVars => [handler # "ended" => shown' >= shown]_sessionVars
  BY <1>1
<1> QED  BY <1>2, SessionInvHolds, PTL DEF SessionSpec, StatesNeverGoBack

(* The abstract step that a step of the session takes.                     *)
LEMMA Answering ==
  ASSUME SessionInv, CommandDone PROVE Abstract!Execute
<1>1. PICK r \in Requests : underway = <<r>> /\ ResultsAfter(r) = {}
  BY DEF CommandDone, SessionInv, UnderwayIsNew
<1>2. PICK o \in Outcomes :
        LET e == [request |-> underway[1], outcome |-> o]
        IN  results' = Cut(Append(results, e)) /\ given' = <<e>>
  BY DEF CommandDone
<1> DEFINE e == [request |-> r, outcome |-> o]
<1>3. e \in Result /\ e \in Abstract!Entry /\ e.request = r
  BY DEF Result, Abstract!Entry
<1>4. results' = Cut(Append(results, e)) /\ given' = <<e>>  BY <1>1, <1>2
<1>5. Open /\ Open'  BY DEF CommandDone, Open
<1>6. ~ \E i \in DOMAIN results : results[i].request = r  BY <1>1 DEF ResultsAfter
<1>7. results' = IF Len(results) < MaxResults THEN Append(results, e) ELSE Append(Tail(results), e)
  <2> HIDE DEF e
  <2> QED  BY <1>3, <1>4, CutResults DEF SessionInv, SessionTypeOK
<1> HIDE DEF e
<1> QED  BY <1>3, <1>4, <1>5, <1>6, <1>7 DEF Abstract!Execute, Abstract!Known

LEMMA Repeating ==
  ASSUME RepeatResult PROVE Abstract!Repeat
<1>1. PICK i \in DOMAIN results : given' = <<results[i]>>
  BY DEF RepeatResult, ResultsAfter
<1>2. Open /\ Open' /\ results' = results  BY DEF RepeatResult, Read, Open
<1> QED  BY <1>1, <1>2 DEF Abstract!Repeat

(* A request is executed before it is answered, answered with the outcome  *)
(* of its own execution, and not executed again while it is remembered.    *)
THEOREM PromiseIsKept == SessionSpec => KeepsPromise
<1>1. SessionInit => Abstract!Init
  BY DEF SessionInit, Open, Abstract!Init
<1>2. ASSUME SessionInv, [SessionNext]_sessionVars PROVE [Abstract!Next]_Abstract!absVars
  <2>1. CASE CommandDone  BY <1>2, <2>1, Answering DEF Abstract!Next
  <2>2. CASE RepeatResult  BY <2>2, Repeating DEF Abstract!Next
  <2>3. CASE Open /\ ~ Open'
    <3>1. Abstract!End  BY <2>3 DEF Abstract!End
    <3> QED  BY <3>1 DEF Abstract!Next
  <2>4. CASE ~ Open
    <3>1. (~ Open') \/ (results' = <<>> /\ given' = <<>>)
      BY <1>2, <2>4 DEF SessionNext, Handler, Sender, PublishVersion, DeviceSends, SendHello,
         SendInitialState, HandleQuestion, Malformed, RepeatResult, BeginCommand, CommandDone,
         Read, SendUpdate, SendClock, Sending, End, NewSession, Open, sessionVars
    <3> QED  BY <2>4, <3>1 DEF Abstract!absVars
  <2>5. CASE Open /\ Open' /\ ~ CommandDone /\ ~ RepeatResult
    <3>1. results' = results /\ given' = given
      BY <1>2, <2>5 DEF SessionNext, Handler, Sender, PublishVersion, DeviceSends, SendHello,
         SendInitialState, HandleQuestion, Malformed, BeginCommand, SendUpdate, SendClock, End,
         NewSession, Open, sessionVars
    <3> QED  BY <2>5, <3>1 DEF Abstract!absVars
  <2> QED  BY <2>1, <2>2, <2>3, <2>4, <2>5
<1> QED
  BY <1>1, <1>2, SessionInvHolds, PTL DEF SessionSpec, KeepsPromise, Abstract!Spec

(* Once the first state has gone out, the device has been shown the newest  *)
(* one or it waits for the sender, so that none is missed between the       *)
(* subscription, the reading of the first state and the sender's start     *)
(* (server.py:322, 329): the safety part of SessionCatchesUp.              *)
ShownOrWaiting ==
  Open /\ handler \notin {"hello", "state"} => shown = version \/ queue = <<version>>

THEOREM NothingIsMissed == SessionSpec => []ShownOrWaiting
<1>1. SessionInit => ShownOrWaiting
  BY DEF SessionInit, ShownOrWaiting
<1>2. SessionInv /\ ShownOrWaiting /\ [SessionNext]_sessionVars => ShownOrWaiting'
  <2> SUFFICES ASSUME SessionInv, ShownOrWaiting, [SessionNext]_sessionVars
               PROVE  ShownOrWaiting'
    OBVIOUS
  <2> USE DEF ShownOrWaiting, Open
  <2>1. CASE PublishVersion
    BY <2>1 DEF PublishVersion
  <2>2. CASE SendHello \/ SendInitialState
    BY <2>2 DEF SendHello, SendInitialState, InitialVersion, service
  <2>3. CASE SendUpdate
    <3>1. shown' = queue[1] /\ queue # <<>> /\ version' = version
      BY <2>3 DEF SendUpdate
    <3> QED
      BY <3>1 DEF SessionInv, QueueIsNewest
  <2>4. CASE Malformed
    BY <2>4 DEF Malformed, Read
  <2>5. CASE HandleQuestion \/ RepeatResult \/ BeginCommand
    BY <2>5 DEF HandleQuestion, RepeatResult, BeginCommand, Read, service
  <2>6. CASE CommandDone
    BY <2>6 DEF CommandDone, service
  <2>7. CASE DeviceSends \/ SendClock
    BY <2>7 DEF DeviceSends, SendClock, service
  <2>8. CASE End \/ NewSession
    BY <2>8 DEF End, NewSession
  <2>9. CASE UNCHANGED sessionVars
    BY <2>9 DEF sessionVars
  <2> QED
    BY <2>1, <2>2, <2>3, <2>4, <2>5, <2>6, <2>7, <2>8, <2>9 DEF SessionNext, Handler, Sender
<1> QED
  BY <1>1, <1>2, SessionInvHolds, PTL DEF SessionSpec
=============================================================================
