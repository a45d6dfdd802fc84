--------------------------- MODULE ControlsProofs ---------------------------
(***************************************************************************)
(* Proofs about the controls: RemoteControl, from a press to the player,   *)
(* and InputControls, from the contacts of the buttons to the factory      *)
(* reset; for all lengths of queues, times, users and faults.              *)
(*                                                                         *)
(* A press is numbered when it is queued.  OrderInv says that the numbers  *)
(* grow along the way from the connections, the earlier ones first, over   *)
(* the command queue to the last accepted press; that an executed press is *)
(* none of those on the way, and before those that are with the same       *)
(* connection or a later one; and that no press on the way, and no         *)
(* executed one, has been given up.                                        *)
(*                                                                         *)
(* OnceInv says that a press of the knob gives one gesture and comes after *)
(* those before it in the queue; ChordInv that a button of the chord which *)
(* was let go stays up for the debounce time.                              *)
(***************************************************************************)
EXTENDS RemoteControl, InputControls, SequenceTheorems, TLAPS

----------------------------------------------------------------------------
(* From a press to the player.                                             *)

USE ControlAssumption

----------------------------------------------------------------------------
(* Types.                                                                  *)

Ids == 0 .. MaxPresses

(* Players that can be selected from a list.                               *)
Listed == UNION {{l[i] : i \in 1 .. Len(l)} : l \in Lists}

Simple == Controls \ {"set_repeat", "select_player"}

Requests ==
  [id : Ids, kind : {"set_volume"}, value : 0 .. MaxVolume]
  \cup [id : Ids, kind : {"set_repeat"}, value : Repeats]
  \cup [id : Ids, kind : {"select_player"}, value : Listed]
  \cup [id : Ids, kind : Simple, value : {0}]

Results == [id : Ids, success : BOOLEAN]

Frames ==
  [type : {"state"}, state : State]
  \cup [type : {"result"}, id : Ids, success : BOOLEAN]
  \cup [type : {"players"}, list : Lists]

(* The frames of a connection, and an entry of the log of executed presses. *)
OnWire == {q \in Seq(Requests) : Len(q) <= MaxWire}
InLog == [id : Ids, link : 1 .. MaxLinks]

AtMostOne(q, S) == q = <<>> \/ \E x \in S : q = <<x>>

PlayerType == player \in State /\ current \in State /\ restore \in 0 .. MaxVolume
WireType ==
  /\ connected \in BOOLEAN
  /\ up \in Seq(OnWire) /\ Len(up) <= MaxLinks /\ (connected => Len(up) # 0)
  /\ down \in Seq(Frames) /\ Len(down) <= MaxWire
QueueType ==
  /\ commands \in Seq(Requests) /\ Len(commands) <= CommandRoom
  /\ feedback \in Seq(Results) /\ Len(feedback) <= FeedbackRoom
  /\ AtMostOne(snapshot, State) /\ AtMostOne(list, Lists)
ApplicationType ==
  /\ online \in BOOLEAN
  /\ AtMostOne(playback, State)
  /\ optimistic \in -1 .. MaxVolume
  /\ players \in Lists \cup {<<>>}
  /\ selected \in Nat /\ (players # <<>> => selected < Len(players))
HistoryType == user \in Users /\ pressed \in Ids /\ executed \in Seq(InLog) /\ unsent \subseteq Ids

TypeInv == PlayerType /\ WireType /\ QueueType /\ ApplicationType /\ HistoryType

(* The numbers of the requests in a queue, and that they grow along it.     *)
IdsOf(q) == {q[i].id : i \in 1 .. Len(q)}
Rising(q) == \A i, j \in 1 .. Len(q) : i < j => q[i].id < q[j].id

Before(A, B) == \A a \in A, b \in B : a < b

QueuesRise(u, c) ==
  /\ Rising(c)
  /\ \A k \in 1 .. Len(u) : Rising(u[k]) /\ Before(IdsOf(u[k]), IdsOf(c))
  /\ \A k, l \in 1 .. Len(u) : k < l => Before(IdsOf(u[k]), IdsOf(u[l]))

NumbersUsed(u, c, d, g, p) ==
  /\ \A n \in IdsOf(c) : n <= p
  /\ \A k \in 1 .. Len(u) : \A n \in IdsOf(u[k]) : n <= p
  /\ \A e \in 1 .. Len(d) : d[e].id <= p
  /\ \A n \in g : n <= p

DoneIsPast(u, c, d) ==
  \A e \in 1 .. Len(d) :
    /\ \A n \in IdsOf(c) : d[e].id < n
    /\ \A k \in 1 .. Len(u) : \A n \in IdsOf(u[k]) :
         d[e].id # n /\ (k >= d[e].link => d[e].id < n)

DoneInOrder(d) ==
  \A i, j \in 1 .. Len(d) :
    i < j => d[i].id < d[j].id \/ (d[i].id # d[j].id /\ d[j].link < d[i].link)

GivenUpIsGone(u, c, d, g) ==
  \A n \in g :
    /\ n \notin IdsOf(c)
    /\ \A k \in 1 .. Len(u) : n \notin IdsOf(u[k])
    /\ \A e \in 1 .. Len(d) : d[e].id # n

OrderInv ==
  /\ QueuesRise(up, commands)
  /\ NumbersUsed(up, commands, executed, unsent, pressed)
  /\ DoneIsPast(up, commands, executed)
  /\ DoneInOrder(executed)
  /\ GivenUpIsGone(up, commands, executed, unsent)

----------------------------------------------------------------------------
(* Lemmas: requests and queues.                                            *)

LEMMA RequestId == ASSUME NEW r \in Requests PROVE r.id \in Ids /\ r.id \in Nat
BY DEF Requests, Ids

LEMMA FirstAndRest ==
  ASSUME NEW S, NEW q \in Seq(S), q # <<>>
  PROVE  /\ Head(q) = q[1] /\ Head(q) \in S
         /\ Tail(q) \in Seq(S) /\ Len(Tail(q)) = Len(q) - 1 /\ Len(q) \in Nat \ {0}
         /\ \A i \in 1 .. Len(Tail(q)) : Tail(q)[i] = q[i + 1] /\ i + 1 \in 1 .. Len(q)
<1>1. Len(q) \in Nat \ {0}
  BY EmptySeq
<1>2. /\ Head(q) \in S /\ Tail(q) \in Seq(S) /\ Len(Tail(q)) = Len(q) - 1
      /\ \A i \in 1 .. Len(Tail(q)) : Tail(q)[i] = q[i + 1]
  BY HeadTailProperties
<1>3. \A i \in 1 .. Len(Tail(q)) : i + 1 \in 1 .. Len(q)
  BY <1>1, <1>2
<1> QED
  BY <1>1, <1>2, <1>3

LEMMA AppendIndices ==
  ASSUME NEW S, NEW q \in Seq(S), NEW x \in S
  PROVE  /\ Append(q, x) \in Seq(S) /\ Len(Append(q, x)) = Len(q) + 1 /\ Len(q) \in Nat
         /\ \A i \in 1 .. Len(Append(q, x)) :
              \/ i \in 1 .. Len(q) /\ Append(q, x)[i] = q[i]
              \/ Append(q, x)[i] = x
BY AppendProperties, LenProperties

(* One connection of several gets other frames. *)
LEMMA OneReplaced ==
  ASSUME NEW S, NEW s \in Seq(S), NEW i \in 1 .. Len(s), NEW x \in S,
         NEW t, t = [s EXCEPT ![i] = x]
  PROVE  /\ t \in Seq(S) /\ Len(t) = Len(s) /\ t[i] = x
         /\ \A j \in 1 .. Len(t) : j # i => t[j] = s[j]
BY ExceptSeq

(* The numbers of a queue that has lost its first request.                 *)
LEMMA TailNumbers ==
  ASSUME NEW q \in Seq(Requests), q # <<>>, Rising(q)
  PROVE  /\ Head(q) \in Requests /\ Head(q).id \in IdsOf(q)
         /\ Tail(q) \in Seq(Requests) /\ Rising(Tail(q))
         /\ IdsOf(Tail(q)) \subseteq IdsOf(q)
         /\ \A n \in IdsOf(Tail(q)) : Head(q).id < n
<1> DEFINE rest == Tail(q)
<1>1. /\ Head(q) = q[1] /\ Head(q) \in Requests /\ rest \in Seq(Requests)
      /\ Len(q) \in Nat \ {0} /\ Len(rest) = Len(q) - 1
      /\ \A i \in 1 .. Len(rest) : rest[i] = q[i + 1] /\ i + 1 \in 1 .. Len(q)
  BY FirstAndRest
<1>2. 1 \in 1 .. Len(q)
  BY <1>1
<1> HIDE DEF rest
<1>3. Head(q).id \in IdsOf(q)
  BY <1>1, <1>2 DEF IdsOf
<1>4. Rising(rest)
  <2> SUFFICES ASSUME NEW i \in 1 .. Len(rest), NEW j \in 1 .. Len(rest), i < j
               PROVE  rest[i].id < rest[j].id
    BY DEF Rising
  <2>1. i + 1 < j + 1 /\ i + 1 \in 1 .. Len(q) /\ j + 1 \in 1 .. Len(q)
    BY <1>1
  <2>2. q[i + 1].id < q[j + 1].id
    BY <2>1 DEF Rising
  <2> QED
    BY <1>1, <2>2
<1>5. IdsOf(rest) \subseteq IdsOf(q)
  BY <1>1 DEF IdsOf
<1>6. \A i \in 1 .. Len(rest) : Head(q).id < rest[i].id
  <2> SUFFICES ASSUME NEW i \in 1 .. Len(rest) PROVE q[1].id < q[i + 1].id
    BY <1>1
  <2>1. i + 1 \in 1 .. Len(q) /\ 1 < i + 1
    BY <1>1
  <2> QED
    BY <1>2, <2>1 DEF Rising
<1> QED
  BY <1>1, <1>3, <1>4, <1>5, <1>6 DEF IdsOf, rest

(* The numbers of a queue with one more request at its end.                *)
LEMMA AppendNumbers ==
  ASSUME NEW q \in Seq(Requests), NEW r \in Requests, Rising(q),
         \A n \in IdsOf(q) : n < r.id
  PROVE  /\ Append(q, r) \in Seq(Requests) /\ Rising(Append(q, r))
         /\ IdsOf(Append(q, r)) = IdsOf(q) \cup {r.id}
<1> DEFINE longer == Append(q, r)
           n == Len(q)
<1>1. /\ n \in Nat /\ Len(longer) = n + 1 /\ longer \in Seq(Requests)
      /\ \A i \in 1 .. n : longer[i] = q[i]
      /\ longer[n + 1] = r
  BY AppendProperties, LenProperties
<1> HIDE DEF longer
<1>2. \A i \in 1 .. Len(longer) : i \in 1 .. n \/ i = n + 1
  BY <1>1
<1>3. Rising(longer)
  <2> SUFFICES ASSUME NEW i \in 1 .. Len(longer), NEW j \in 1 .. Len(longer), i < j
               PROVE  longer[i].id < longer[j].id
    BY DEF Rising
  <2>1. i \in 1 .. n
    BY <1>1
  <2>2. CASE j \in 1 .. n
    BY <1>1, <2>1, <2>2 DEF Rising
  <2>3. CASE j = n + 1
    <3>1. q[i].id \in IdsOf(q)
      BY <2>1 DEF IdsOf
    <3> QED
      BY <1>1, <2>1, <2>3, <3>1
  <2> QED
    BY <1>2, <2>2, <2>3
<1>4. IdsOf(longer) \subseteq IdsOf(q) \cup {r.id}
  BY <1>1, <1>2 DEF IdsOf
<1>5. IdsOf(q) \cup {r.id} \subseteq IdsOf(longer)
  <2>1. n + 1 \in 1 .. Len(longer) /\ \A i \in 1 .. n : i \in 1 .. Len(longer)
    BY <1>1
  <2> QED
    BY <1>1, <2>1 DEF IdsOf
<1> QED
  BY <1>1, <1>3, <1>4, <1>5 DEF longer

(* The first requests of a queue, and their numbers.                       *)
LEMMA Prefix ==
  ASSUME NEW q \in Seq(Requests), NEW n \in 0 .. Len(q)
  PROVE  /\ SubSeq(q, 1, n) \in Seq(Requests) /\ Len(SubSeq(q, 1, n)) = n
         /\ \A i \in 1 .. n : SubSeq(q, 1, n)[i] = q[i] /\ i \in 1 .. Len(q)
<1>1. Len(q) \in Nat /\ n \in Nat
  BY LenProperties
<1>2. \A i \in 1 .. n : i \in 1 .. Len(q) /\ q[i] \in Requests
  BY <1>1, ElementOfSeq
<1>3. /\ SubSeq(q, 1, n) \in Seq(Requests)
      /\ Len(SubSeq(q, 1, n)) = IF 1 <= n THEN n - 1 + 1 ELSE 0
  BY <1>1, <1>2, SubSeqProperties
<1>4. \A i \in 1 .. n - 1 + 1 : SubSeq(q, 1, n)[i] = q[1 + i - 1]
  BY <1>1, <1>2, SubSeqProperties
<1>5. \A i \in 1 .. n : SubSeq(q, 1, n)[i] = q[i]
  BY <1>1, <1>4
<1> QED
  BY <1>1, <1>2, <1>3, <1>5

LEMMA PrefixNumbers ==
  ASSUME NEW q \in Seq(Requests), Rising(q), NEW n \in 0 .. Len(q)
  PROVE  /\ Rising(SubSeq(q, 1, n))
         /\ IdsOf(SubSeq(q, 1, n)) \subseteq IdsOf(q)
<1> DEFINE first == SubSeq(q, 1, n)
<1>1. Len(first) = n /\ \A i \in 1 .. n : first[i] = q[i] /\ i \in 1 .. Len(q)
  BY Prefix
<1> HIDE DEF first
<1>2. Rising(first)
  BY <1>1 DEF Rising
<1>3. IdsOf(first) \subseteq IdsOf(q)
  BY <1>1 DEF IdsOf
<1> QED
  BY <1>2, <1>3 DEF first

(* A full feedback queue drops the new result, or the oldest one.          *)
LEMMA FeedbackType ==
  ASSUME feedback \in Seq(Results), Len(feedback) <= FeedbackRoom, NEW f \in Results
  PROVE  /\ FeedbackIfRoom(f) \in Seq(Results) /\ Len(FeedbackIfRoom(f)) <= FeedbackRoom
         /\ FeedbackNewest(f) \in Seq(Results) /\ Len(FeedbackNewest(f)) <= FeedbackRoom
<1>1. /\ Append(feedback, f) \in Seq(Results) /\ Len(Append(feedback, f)) = Len(feedback) + 1
      /\ Len(feedback) \in Nat
  BY AppendIndices
<1>2. CASE Len(feedback) < FeedbackRoom
  BY <1>1, <1>2 DEF FeedbackIfRoom, FeedbackNewest
<1>3. CASE ~ (Len(feedback) < FeedbackRoom)
  <2> DEFINE rest == Tail(feedback)
  <2>1. feedback # <<>>
    BY <1>1, <1>3, EmptySeq
  <2>2. rest \in Seq(Results) /\ Len(rest) = Len(feedback) - 1
    BY <2>1, HeadTailProperties
  <2> HIDE DEF rest
  <2>3. Append(rest, f) \in Seq(Results) /\ Len(Append(rest, f)) = Len(rest) + 1
    BY <2>2, AppendIndices
  <2>4. FeedbackNewest(f) = Append(rest, f) /\ FeedbackIfRoom(f) = feedback
    BY <1>3 DEF FeedbackNewest, FeedbackIfRoom, rest
  <2> QED
    BY <1>1, <2>2, <2>3, <2>4
<1> QED
  BY <1>2, <1>3

----------------------------------------------------------------------------
(* Lemmas: states of the player, and what a press or a command makes of    *)
(* them.                                                                   *)

LEMMA StateWith ==
  ASSUME NEW s \in State
  PROVE  /\ s.volume \in -1 .. MaxVolume /\ s.repeat \in Repeats
         /\ \A v \in 0 .. MaxVolume : [s EXCEPT !.volume = v, !.muted = (v = 0)] \in State
         /\ \A m \in Repeats : [s EXCEPT !.repeat = m] \in State
         /\ [s EXCEPT !.playing = ~@] \in State
         /\ [s EXCEPT !.muted = ~@] \in State
         /\ [s EXCEPT !.shuffle = ~@] \in State
         /\ \A t \in State : [s EXCEPT !.shuffle = ~t.shuffle] \in State
<1>1. s.volume \in -1 .. MaxVolume /\ s.repeat \in Repeats
  BY DEF State
<1>2. \A v \in 0 .. MaxVolume : [s EXCEPT !.volume = v, !.muted = (v = 0)] \in State
  <2> SUFFICES ASSUME NEW v \in 0 .. MaxVolume
               PROVE  [s EXCEPT !.volume = v, !.muted = (v = 0)] \in State
    OBVIOUS
  <2> DEFINE silent == (v = 0)
  <2>1. silent \in BOOLEAN /\ v \in -1 .. MaxVolume
    BY DEF silent
  <2> HIDE DEF silent
  <2>2. [s EXCEPT !.volume = v, !.muted = silent] \in State
    BY <2>1 DEF State
  <2> QED
    BY <2>2 DEF silent
<1>3. \A m \in Repeats : [s EXCEPT !.repeat = m] \in State
  BY DEF State
<1>4. [s EXCEPT !.playing = ~@] \in State
  BY DEF State
<1>5. [s EXCEPT !.muted = ~@] \in State
  BY DEF State
<1>6. [s EXCEPT !.shuffle = ~@] \in State
  BY DEF State
<1>7. \A t \in State : [s EXCEPT !.shuffle = ~t.shuffle] \in State
  BY DEF State
<1> QED
  BY <1>1, <1>2, <1>3, <1>4, <1>5, <1>6, <1>7

LEMMA ClampedType == ASSUME NEW v \in Int PROVE Clamped(v) \in 0 .. MaxVolume
BY DEF Clamped

LEMMA AfterType == ASSUME NEW m PROVE After(m) \in Repeats
BY DEF After, Repeats

LEMMA RequestFields ==
  ASSUME NEW r \in Requests
  PROVE  /\ r.kind = "set_volume" => r.value \in 0 .. MaxVolume
         /\ r.kind = "set_repeat" => r.value \in Repeats
BY DEF Requests, Simple

LEMMA WithVolumeType ==
  ASSUME NEW s \in State, NEW v \in 0 .. MaxVolume
  PROVE  WithVolume(s, v) \in State
BY StateWith DEF WithVolume

LEMMA EffectType ==
  ASSUME PlayerType, NEW r \in Requests
  PROVE  Effect(r) \in State
<1>1. player \in State /\ current \in State /\ current.volume \in -1 .. MaxVolume
  BY StateWith DEF PlayerType
<1>2. CASE r.kind = "set_volume"
  BY <1>1, <1>2, RequestFields, WithVolumeType DEF Effect
<1>3. CASE r.kind = "volume_up"
  <2>1. Clamped(current.volume + 1) \in 0 .. MaxVolume
    BY <1>1 DEF Clamped
  <2> QED
    BY <1>1, <1>3, <2>1, WithVolumeType DEF Effect
<1>4. CASE r.kind = "volume_down"
  <2>1. Clamped(current.volume - 1) \in 0 .. MaxVolume
    BY <1>1 DEF Clamped
  <2> QED
    BY <1>1, <1>4, <2>1, WithVolumeType DEF Effect
<1>5. CASE r.kind = "mute"
  <2>1. MuteTarget \in 0 .. MaxVolume
    BY DEF MuteTarget, PlayerType
  <2> QED
    BY <1>1, <1>5, <2>1, WithVolumeType DEF Effect
<1>6. CASE r.kind = "toggle"
  BY <1>1, <1>6, StateWith DEF Effect
<1>7. CASE r.kind = "shuffle_toggle"
  BY <1>1, <1>7, StateWith DEF Effect
<1>8. CASE r.kind = "set_repeat"
  BY <1>1, <1>8, RequestFields, StateWith DEF Effect
<1>9. CASE r.kind \notin {"set_volume", "volume_up", "volume_down", "mute", "toggle",
                          "shuffle_toggle", "set_repeat"}
  BY <1>1, <1>9 DEF Effect
<1> QED
  BY <1>2, <1>3, <1>4, <1>5, <1>6, <1>7, <1>8, <1>9

LEMMA ShownType ==
  ASSUME ApplicationType, playback # <<>>
  PROVE  Shown \in State
BY DEF ApplicationType, AtMostOne, Shown

LEMMA FlippedType ==
  ASSUME Shown \in State, NEW kind
  PROVE  Flipped(kind) \in State
<1>1. CASE kind = "toggle"
  BY <1>1, StateWith DEF Flipped
<1>2. CASE kind = "mute"
  BY <1>2, StateWith DEF Flipped
<1>3. CASE kind = "shuffle_toggle"
  BY <1>3, StateWith DEF Flipped
<1>4. CASE kind \notin {"toggle", "mute", "shuffle_toggle"}
  BY <1>4 DEF Flipped
<1> QED
  BY <1>1, <1>2, <1>3, <1>4

----------------------------------------------------------------------------
(* Every action keeps the types.                                           *)

LEMMA ConsumeQueuesType == ASSUME TypeInv, ConsumeQueues PROVE TypeInv'
<1> USE DEF TypeInv, PlayerType, WireType, HistoryType, ConsumeQueues, host, wire, history
<1>1. PlayerType'
  OBVIOUS
<1>2. WireType'
  OBVIOUS
<1>3. QueueType'
  <2>1. <<>> \in Seq(Results) /\ Len(<<>>) = 0
    OBVIOUS
  <2> QED
    BY <2>1 DEF QueueType, AtMostOne
<1>4. AtMostOne(playback, State)' /\ (optimistic \in -1 .. MaxVolume)'
  <2>1. CASE snapshot = <<>>
    BY <2>1 DEF ApplicationType, AtMostOne
  <2>2. CASE snapshot # <<>>
    <3>1. PICK s \in State : snapshot = <<s>>
      BY <2>2 DEF QueueType, AtMostOne
    <3>2. playback' = <<s>> /\ optimistic' = s.volume
      BY <2>2, <3>1 DEF OptimisticAfter
    <3> QED
      BY <3>2, StateWith DEF AtMostOne
  <2> QED
    BY <2>1, <2>2
<1>5. /\ players' \in Lists \cup {<<>>}
      /\ selected' \in Nat /\ (players' # <<>> => selected' < Len(players'))
  <2>1. CASE list = <<>>
    BY <2>1 DEF ApplicationType
  <2>2. CASE list # <<>>
    <3>1. PICK l \in Lists : list = <<l>>
      BY <2>2 DEF QueueType, AtMostOne
    <3>2. players' = l /\ selected' \in {0} \cup 0 .. Len(l) - 1
      BY <2>2, <3>1 DEF Preselected
    <3>3. l = <<>> \/ Len(l) \in Nat \ {0}
      OBVIOUS
    <3>4. Len(<<>>) = 0
      OBVIOUS
    <3> QED
      BY <3>2, <3>3, <3>4
  <2> QED
    BY <2>1, <2>2
<1>6. HistoryType' /\ (online \in BOOLEAN)'
  OBVIOUS
<1> QED
  BY <1>1, <1>2, <1>3, <1>4, <1>5, <1>6 DEF ApplicationType

(* A request is queued, with the next number.                              *)
LEMMA SendRequestType ==
  ASSUME TypeInv, pressed < MaxPresses, HasRoom, NEW kind, NEW value,
         SendRequest(kind, value),
         \A n \in Ids : [id |-> n, kind |-> kind, value |-> value] \in Requests
  PROVE  /\ pressed' \in Ids /\ pressed' = pressed + 1
         /\ commands' \in Seq(Requests) /\ Len(commands') <= CommandRoom
<1>1. pressed' \in Ids /\ pressed' = pressed + 1
  BY DEF SendRequest, TypeInv, HistoryType, Ids
<1> DEFINE r == [id |-> pressed', kind |-> kind, value |-> value]
<1>2. r \in Requests
  BY <1>1
<1>3. commands' = Append(commands, r)
  BY DEF SendRequest
<1> HIDE DEF r
<1>4. commands \in Seq(Requests) /\ Len(commands) < CommandRoom
  BY DEF TypeInv, QueueType, HasRoom
<1> QED
  BY <1>1, <1>2, <1>3, <1>4, AppendIndices

LEMMA SimpleRequest ==
  ASSUME NEW kind \in Simple, NEW n \in Ids
  PROVE  [id |-> n, kind |-> kind, value |-> 0] \in Requests
BY DEF Requests

(* What the presses do to the queue and to the number of presses.          *)
QueuedOrNot ==
  \/ UNCHANGED <<commands, pressed>>
  \/ /\ pressed' \in Ids /\ pressed' = pressed + 1
     /\ \E r \in Requests : r.id = pressed' /\ commands' = Append(commands, r)
     /\ commands' \in Seq(Requests) /\ Len(commands') <= CommandRoom

LEMMA SendRequestQueues ==
  ASSUME TypeInv, pressed < MaxPresses, HasRoom, NEW kind, NEW value,
         SendRequest(kind, value),
         \A n \in Ids : [id |-> n, kind |-> kind, value |-> value] \in Requests
  PROVE  QueuedOrNot
<1>1. /\ pressed' \in Ids /\ pressed' = pressed + 1
      /\ commands' \in Seq(Requests) /\ Len(commands') <= CommandRoom
  BY SendRequestType
<1>2. \E r \in Requests : r.id = pressed' /\ commands' = Append(commands, r)
  <2>1. [id |-> pressed', kind |-> kind, value |-> value] \in Requests
    BY <1>1
  <2>2. commands' = Append(commands, [id |-> pressed', kind |-> kind, value |-> value])
    BY DEF SendRequest
  <2> QED
    BY <2>1, <2>2
<1> QED
  BY <1>1, <1>2 DEF QueuedOrNot

LEMMA PressVolumeType ==
  ASSUME TypeInv, pressed < MaxPresses, NEW kind \in {"volume_up", "volume_down"},
         PressVolume(kind)
  PROVE  QueuedOrNot /\ ApplicationType'
<1> DEFINE target == Clamped(optimistic + (IF kind = "volume_up" THEN 1 ELSE -1))
<1>1. Available /\ UNCHANGED <<online, players, selected>>
  BY DEF PressVolume
<1>2. target \in 0 .. MaxVolume
  BY DEF Clamped, TypeInv, ApplicationType
<1>3. Shown \in State
  BY <1>1, ShownType DEF TypeInv, Available
<1> HIDE DEF target
<1>4. CASE /\ optimistic < 0 /\ HasRoom
           /\ SendRequest(kind, 0) /\ UNCHANGED <<optimistic, playback>>
  <2>1. kind \in Simple
    BY DEF Simple, Controls
  <2>2. QueuedOrNot
    BY <1>4, <2>1, SimpleRequest, SendRequestQueues
  <2> QED
    BY <1>1, <1>4, <2>2 DEF TypeInv, ApplicationType, AtMostOne
<1>5. CASE /\ optimistic >= 0 /\ HasRoom
           /\ SendRequest("set_volume", target)
           /\ optimistic' = target
           /\ playback' = <<[Shown EXCEPT !.volume = target, !.muted = (target = 0)]>>
  <2>1. \A n \in Ids : [id |-> n, kind |-> "set_volume", value |-> target] \in Requests
    BY <1>2 DEF Requests
  <2>2. QueuedOrNot
    BY <1>5, <2>1, SendRequestQueues
  <2>3. AtMostOne(playback', State)
    BY <1>2, <1>3, <1>5, StateWith DEF AtMostOne
  <2>4. optimistic' \in -1 .. MaxVolume
    BY <1>2, <1>5
  <2> QED
    BY <1>1, <2>2, <2>3, <2>4 DEF TypeInv, ApplicationType
<1>6. CASE /\ optimistic >= 0 /\ ~HasRoom
           /\ optimistic' = target /\ UNCHANGED <<commands, pressed, playback>>
  <2>1. optimistic' \in -1 .. MaxVolume
    BY <1>2, <1>6
  <2> QED
    BY <1>1, <1>6, <2>1 DEF QueuedOrNot, TypeInv, ApplicationType, AtMostOne
<1> QED
  BY <1>4, <1>5, <1>6 DEF PressVolume, target

LEMMA PressRepeatType ==
  ASSUME TypeInv, pressed < MaxPresses, PressRepeat
  PROVE  QueuedOrNot /\ ApplicationType'
<1>1. Available /\ UNCHANGED <<online, optimistic, players, selected>>
  BY DEF PressRepeat
<1>2. Shown \in State
  BY <1>1, ShownType DEF TypeInv, Available
<1>3. After(Shown.repeat) \in Repeats
  BY AfterType
<1>4. ApplicationType'
  <2>1. playback' = <<[Shown EXCEPT !.repeat = After(Shown.repeat)]>>
    BY DEF PressRepeat
  <2>2. AtMostOne(playback', State)
    BY <1>2, <1>3, <2>1, StateWith DEF AtMostOne
  <2> QED
    BY <1>1, <2>2 DEF TypeInv, ApplicationType
<1>5. QueuedOrNot
  <2>1. CASE HasRoom /\ SendRequest("set_repeat", After(Shown.repeat))
    <3>1. \A n \in Ids : [id |-> n, kind |-> "set_repeat", value |-> After(Shown.repeat)] \in Requests
      BY <1>3 DEF Requests
    <3> QED
      BY <2>1, <3>1, SendRequestQueues
  <2>2. CASE UNCHANGED <<commands, pressed>>
    BY <2>2 DEF QueuedOrNot
  <2> QED
    BY <2>1, <2>2 DEF PressRepeat
<1> QED
  BY <1>4, <1>5

LEMMA PressSimpleType ==
  ASSUME TypeInv, pressed < MaxPresses, NEW kind \in Simple, PressSimple(kind)
  PROVE  QueuedOrNot /\ ApplicationType'
<1>1. Available /\ HasRoom /\ SendRequest(kind, 0) /\ playback' = <<Flipped(kind)>>
      /\ UNCHANGED <<online, optimistic, players, selected>>
  BY DEF PressSimple
<1>2. QueuedOrNot
  BY <1>1, SimpleRequest, SendRequestQueues
<1>3. Flipped(kind) \in State
  BY <1>1, ShownType, FlippedType DEF TypeInv, Available
<1>4. AtMostOne(playback', State)
  BY <1>1, <1>3 DEF AtMostOne
<1> QED
  BY <1>1, <1>2, <1>4 DEF TypeInv, ApplicationType

LEMMA PressPlayersType ==
  ASSUME TypeInv, pressed < MaxPresses, NEW kind, PressPlayers(kind)
  PROVE  QueuedOrNot /\ ApplicationType'
<1>1. UNCHANGED <<online, playback, optimistic, players>>
  BY DEF PressPlayers
<1>2. CASE kind = "list_players" /\ HasRoom /\ SendRequest(kind, 0) /\ UNCHANGED selected
  <2>1. kind \in Simple
    BY <1>2 DEF Simple, Controls
  <2>2. QueuedOrNot
    BY <1>2, <2>1, SimpleRequest, SendRequestQueues
  <2> QED
    BY <1>1, <1>2, <2>2 DEF TypeInv, ApplicationType, AtMostOne
<1>3. CASE /\ players # <<>>
           /\ selected' = (selected + Len(players) + 1) % Len(players)
           /\ UNCHANGED <<commands, pressed>>
  <2>1. Len(players) \in Nat \ {0} /\ selected \in Nat
    BY <1>3 DEF TypeInv, ApplicationType
  <2>2. selected' \in 0 .. Len(players) - 1
    BY <1>3, <2>1
  <2> QED
    BY <1>1, <1>3, <2>1, <2>2 DEF QueuedOrNot, TypeInv, ApplicationType, AtMostOne
<1>4. CASE /\ kind = "select_player" /\ selected < Len(players) /\ HasRoom
           /\ SendRequest(kind, players[selected + 1]) /\ UNCHANGED selected
  <2>1. players \in Lists \cup {<<>>} /\ selected \in Nat
    BY DEF TypeInv, ApplicationType
  <2>2. players # <<>>
    <3>1. Len(<<>>) = 0
      OBVIOUS
    <3> QED
      BY <1>4, <2>1, <3>1
  <2>3. players \in Lists /\ Len(players) \in Nat \ {0} /\ selected + 1 \in 1 .. Len(players)
    BY <1>4, <2>1, <2>2
  <2>4. players[selected + 1] \in Listed
    BY <2>3 DEF Listed
  <2>5. \A n \in Ids :
          [id |-> n, kind |-> "select_player", value |-> players[selected + 1]] \in Requests
    BY <2>4 DEF Requests
  <2>6. QueuedOrNot
    BY <1>4, <2>5, SendRequestQueues
  <2> QED
    BY <1>1, <1>4, <2>6 DEF TypeInv, ApplicationType, AtMostOne
<1> QED
  BY <1>2, <1>3, <1>4 DEF PressPlayers

LEMMA PressType == ASSUME TypeInv, Press PROVE TypeInv' /\ QueuedOrNot
<1>1. pressed < MaxPresses
  BY DEF Press
<1>2. QueuedOrNot /\ ApplicationType'
  <2>1. PICK kind \in user :
          \/ kind \in {"volume_up", "volume_down"} /\ PressVolume(kind)
          \/ kind = "set_repeat" /\ PressRepeat
          \/ kind \in {"toggle", "mute", "next", "seek", "shuffle_toggle"} /\ PressSimple(kind)
          \/ kind \in {"list_players", "next_player", "select_player"} /\ PressPlayers(kind)
    BY DEF Press
  <2>2. CASE kind \in {"volume_up", "volume_down"} /\ PressVolume(kind)
    BY <1>1, <2>2, PressVolumeType
  <2>3. CASE PressRepeat
    BY <1>1, <2>3, PressRepeatType
  <2>4. CASE kind \in {"toggle", "mute", "next", "seek", "shuffle_toggle"} /\ PressSimple(kind)
    <3>1. kind \in Simple
      BY <2>4 DEF Simple, Controls
    <3> QED
      BY <1>1, <2>4, <3>1, PressSimpleType
  <2>5. CASE PressPlayers(kind)
    BY <1>1, <2>5, PressPlayersType
  <2> QED
    BY <2>1, <2>2, <2>3, <2>4, <2>5
<1>3. UNCHANGED <<user, player, current, restore, connected, up, down, feedback, snapshot, list,
                  executed, unsent>>
  BY DEF Press, host, wire
<1>4. PlayerType' /\ WireType'
  BY <1>3 DEF TypeInv, PlayerType, WireType
<1>5. QueueType' /\ HistoryType'
  <2>1. /\ commands' \in Seq(Requests) /\ Len(commands') <= CommandRoom
        /\ pressed' \in Ids
    BY <1>2 DEF QueuedOrNot, TypeInv, QueueType, HistoryType
  <2> QED
    BY <1>3, <2>1 DEF TypeInv, QueueType, HistoryType, AtMostOne
<1> QED
  BY <1>2, <1>4, <1>5 DEF TypeInv

(* What a connection gets and has.                                          *)
LEMMA OnWireType ==
  ASSUME TypeInv
  PROVE  /\ Link \in Nat /\ Link <= MaxLinks
         /\ \A k \in 1 .. Link :
              up[k] \in OnWire /\ up[k] \in Seq(Requests) /\ Len(up[k]) <= MaxWire
<1>1. up \in Seq(OnWire) /\ Len(up) <= MaxLinks
  BY DEF TypeInv, WireType
<1>2. \A k \in 1 .. Link : up[k] \in OnWire
  BY <1>1, ElementOfSeq DEF Link
<1> QED
  BY <1>1, <1>2, LenProperties DEF Link, OnWire

LEMMA WireReplaced ==
  ASSUME TypeInv, NEW k \in 1 .. Link, NEW q \in OnWire, up' = [up EXCEPT ![k] = q]
  PROVE  /\ up' \in Seq(OnWire) /\ Len(up') = Len(up) /\ up'[k] = q
         /\ \A j \in 1 .. Link : j # k => up'[j] = up[j]
<1>1. up \in Seq(OnWire) /\ k \in 1 .. Len(up)
  BY DEF TypeInv, WireType, Link
<1> QED
  BY <1>1, OneReplaced DEF Link

(* The request goes to the present connection.                             *)
LEMMA RequestIsSent ==
  ASSUME TypeInv, SendCommand
  PROVE  /\ commands # <<>> /\ Request \in Requests /\ Link \in 1 .. Link
         /\ Append(up[Link], Request) \in OnWire
         /\ up' = [up EXCEPT ![Link] = Append(up[Link], Request)]
         /\ up' \in Seq(OnWire) /\ Len(up') = Len(up)
         /\ up'[Link] = Append(up[Link], Request)
         /\ \A j \in 1 .. Link : j # Link => up'[j] = up[j]
<1>1. /\ commands # <<>> /\ connected /\ Len(up[Link]) < MaxWire
      /\ up' = [up EXCEPT ![Link] = Append(up[Link], Request)]
  BY DEF SendCommand, CanSend
<1>2. Request \in Requests
  BY <1>1, FirstAndRest DEF TypeInv, QueueType, Request
<1>3. Link \in 1 .. Link
  BY <1>1, OnWireType DEF TypeInv, WireType, Link
<1>4. up[Link] \in Seq(Requests)
  BY <1>3, OnWireType
<1>5. /\ Append(up[Link], Request) \in Seq(Requests)
      /\ Len(Append(up[Link], Request)) = Len(up[Link]) + 1 /\ Len(up[Link]) \in Nat
  BY <1>2, <1>4, AppendIndices
<1>6. Append(up[Link], Request) \in OnWire
  BY <1>1, <1>5 DEF OnWire
<1> QED
  BY <1>1, <1>2, <1>3, <1>6, WireReplaced

LEMMA SendCommandType == ASSUME TypeInv, SendCommand PROVE TypeInv'
<1>1. /\ commands # <<>> /\ commands' = Tail(commands)
      /\ UNCHANGED <<user, player, current, restore, connected, down, feedback, snapshot, list,
                     online, playback, optimistic, players, selected, pressed, executed, unsent>>
  BY DEF SendCommand, CanSend, host, application, history
<1>2. /\ Request \in Requests /\ Tail(commands) \in Seq(Requests)
      /\ Len(Tail(commands)) = Len(commands) - 1
  BY <1>1, FirstAndRest DEF TypeInv, QueueType, Request
<1>3. up' \in Seq(OnWire) /\ Len(up') = Len(up)
  BY RequestIsSent
<1>4. WireType'
  BY <1>1, <1>3 DEF TypeInv, WireType
<1>5. QueueType'
  BY <1>1, <1>2 DEF TypeInv, QueueType, AtMostOne
<1> QED
  BY <1>1, <1>4, <1>5 DEF TypeInv, PlayerType, ApplicationType, HistoryType, AtMostOne

LEMMA RejectCommandType == ASSUME TypeInv, RejectCommand PROVE TypeInv'
<1>1. /\ commands # <<>> /\ commands' = Tail(commands)
      /\ feedback' = FeedbackIfRoom(Unsent(Request))
      /\ unsent' = unsent \cup {Request.id}
      /\ UNCHANGED <<user, player, current, restore, connected, up, down, snapshot, list,
                     online, playback, optimistic, players, selected, pressed, executed>>
  BY DEF RejectCommand, host, wire, application
<1>2. /\ Request \in Requests /\ Tail(commands) \in Seq(Requests)
      /\ Len(Tail(commands)) = Len(commands) - 1
  BY <1>1, FirstAndRest DEF TypeInv, QueueType, Request
<1>3. Request.id \in Ids
  BY <1>2, RequestId
<1>4. Unsent(Request) \in Results
  BY <1>3 DEF Unsent, Results
<1>5. FeedbackIfRoom(Unsent(Request)) \in Seq(Results)
      /\ Len(FeedbackIfRoom(Unsent(Request))) <= FeedbackRoom
  BY <1>4, FeedbackType DEF TypeInv, QueueType
<1>6. QueueType'
  BY <1>1, <1>2, <1>5 DEF TypeInv, QueueType, AtMostOne
<1>7. HistoryType'
  BY <1>1, <1>3 DEF TypeInv, HistoryType
<1> QED
  BY <1>1, <1>6, <1>7 DEF TypeInv, PlayerType, WireType, ApplicationType, AtMostOne

LEMMA FrameFields ==
  ASSUME NEW frame \in Frames
  PROVE  /\ frame.type = "state" => frame.state \in State
         /\ frame.type = "result" => [id |-> frame.id, success |-> frame.success] \in Results
         /\ frame.type = "players" => frame.list \in Lists
<1>1. CASE frame \in [type : {"state"}, state : State]
  BY <1>1
<1>2. CASE frame \in [type : {"result"}, id : Ids, success : BOOLEAN]
  BY <1>2 DEF Results
<1>3. CASE frame \in [type : {"players"}, list : Lists]
  BY <1>3
<1> QED
  BY <1>1, <1>2, <1>3 DEF Frames

LEMMA ReceiveType == ASSUME TypeInv, Receive PROVE TypeInv'
<1> DEFINE frame == Head(down)
<1>1. /\ down # <<>> /\ down' = Tail(down)
      /\ UNCHANGED <<user, player, current, restore, connected, up, commands, online, playback,
                     optimistic, players, selected, pressed, executed, unsent>>
  BY DEF Receive, host, application, history
<1>2. frame \in Frames /\ Tail(down) \in Seq(Frames) /\ Len(Tail(down)) = Len(down) - 1
  BY <1>1, FirstAndRest DEF TypeInv, WireType
<1>3. WireType'
  BY <1>1, <1>2 DEF TypeInv, WireType
<1> HIDE DEF frame
<1>4. QueueType'
  <2>1. CASE frame.type = "state" /\ snapshot' = <<frame.state>> /\ UNCHANGED <<feedback, list>>
    BY <1>1, <1>2, <2>1, FrameFields DEF TypeInv, QueueType, AtMostOne
  <2>2. CASE /\ frame.type = "result"
             /\ feedback' = FeedbackNewest([id |-> frame.id, success |-> frame.success])
             /\ UNCHANGED <<snapshot, list>>
    <3>1. [id |-> frame.id, success |-> frame.success] \in Results
      BY <1>2, <2>2, FrameFields
    <3>2. feedback' \in Seq(Results) /\ Len(feedback') <= FeedbackRoom
      BY <2>2, <3>1, FeedbackType DEF TypeInv, QueueType
    <3> QED
      BY <1>1, <2>2, <3>2 DEF TypeInv, QueueType, AtMostOne
  <2>3. CASE frame.type = "players" /\ list' = <<frame.list>> /\ UNCHANGED <<feedback, snapshot>>
    BY <1>1, <1>2, <2>3, FrameFields DEF TypeInv, QueueType, AtMostOne
  <2> QED
    BY <2>1, <2>2, <2>3 DEF Receive, frame
<1> QED
  BY <1>1, <1>3, <1>4 DEF TypeInv, PlayerType, ApplicationType, HistoryType, AtMostOne

(* A new connection has no frames yet.                                     *)
LEMMA NewConnection ==
  ASSUME TypeInv, Connect
  PROVE  /\ up' \in Seq(OnWire) /\ Len(up') = Link + 1 /\ Link + 1 <= MaxLinks
         /\ Link \in Nat /\ up'[Link + 1] = <<>>
         /\ \A k \in 1 .. Link : up'[k] = up[k]
<1>1. up \in Seq(OnWire) /\ Link < MaxLinks /\ up' = Append(up, <<>>) /\ Link \in Nat
  BY OnWireType DEF Connect, TypeInv, WireType
<1>2. <<>> \in OnWire
  <2>1. <<>> \in Seq(Requests) /\ Len(<<>>) = 0
    OBVIOUS
  <2> QED
    BY <2>1 DEF OnWire
<1>3. /\ up' \in Seq(OnWire) /\ Len(up') = Len(up) + 1 /\ up'[Len(up) + 1] = <<>>
      /\ \A k \in 1 .. Len(up) : up'[k] = up[k]
  BY <1>1, <1>2, AppendProperties
<1> QED
  BY <1>1, <1>3 DEF Link

(* The host keeps the first frames that were under way.                    *)
LEMMA FramesKept ==
  ASSUME TypeInv, Disconnect
  PROVE  /\ up' \in Seq(OnWire) /\ Len(up') = Len(up) /\ Link \in Nat
         /\ \A k \in 1 .. Link : k # Link => up'[k] = up[k]
         /\ Link \in 1 .. Link =>
              \E n \in 0 .. Len(up[Link]) : up'[Link] = SubSeq(up[Link], 1, n)
<1>1. Link \in Nat /\ up \in Seq(OnWire)
  BY OnWireType DEF TypeInv, WireType
<1>2. PICK n \in 0 .. Len(up[Link]) : up' = [up EXCEPT ![Link] = SubSeq(up[Link], 1, n)]
  BY DEF Disconnect
<1>3. CASE Link \in 1 .. Link
  <2>1. up[Link] \in Seq(Requests) /\ Len(up[Link]) <= MaxWire /\ Len(up[Link]) \in Nat
    BY <1>3, OnWireType, LenProperties
  <2>2. SubSeq(up[Link], 1, n) \in OnWire
    <3>1. SubSeq(up[Link], 1, n) \in Seq(Requests) /\ Len(SubSeq(up[Link], 1, n)) = n
      BY <2>1, Prefix
    <3> QED
      BY <2>1, <3>1 DEF OnWire
  <2> QED
    BY <1>1, <1>2, <1>3, <2>2, WireReplaced
<1>4. CASE Link \notin 1 .. Link
  <2>1. Link = 0 /\ up = <<>>
    BY <1>1, <1>4, EmptySeq DEF Link
  <2>2. up' = up
    <3>1. DOMAIN up = 1 .. 0
      BY <1>1, <2>1, LenProperties DEF Link
    <3>2. Link \notin DOMAIN up
      BY <2>1, <3>1
    <3> QED
      BY <1>1, <1>2, <3>2
  <2> QED
    BY <1>1, <1>4, <2>2
<1> QED
  BY <1>3, <1>4

(* Connecting and losing the socket change what is on the wire.            *)
LEMMA SocketType == ASSUME TypeInv, Connect \/ Disconnect PROVE TypeInv'
<1>1. UNCHANGED <<user, player, current, restore, commands, feedback, snapshot, list, online,
                  playback, optimistic, players, selected, pressed, executed, unsent>>
  BY DEF Connect, Disconnect, host, queues, application, history
<1>2. WireType'
  <2>1. CASE Connect
    <3>1. [type |-> "state", state |-> current] \in Frames
      BY DEF TypeInv, PlayerType, Frames
    <3>2. down' = <<[type |-> "state", state |-> current]>> /\ connected' = TRUE
      BY <2>1 DEF Connect
    <3>3. down' \in Seq(Frames) /\ Len(down') = 1
      BY <3>1, <3>2
    <3>4. up' \in Seq(OnWire) /\ Len(up') <= MaxLinks /\ Len(up') # 0
      BY <2>1, NewConnection
    <3> QED
      BY <3>2, <3>3, <3>4 DEF TypeInv, WireType
  <2>2. CASE Disconnect
    <3>1. <<>> \in Seq(Frames) /\ Len(<<>>) = 0
      OBVIOUS
    <3>2. down' = <<>> /\ connected' = FALSE
      BY <2>2 DEF Disconnect
    <3>3. connected' \in BOOLEAN /\ ~connected'
      BY <3>2
    <3>4. down' \in Seq(Frames) /\ Len(down') = 0
      BY <3>1, <3>2
    <3>5. up' \in Seq(OnWire) /\ Len(up') <= MaxLinks
      BY <2>2, FramesKept DEF TypeInv, WireType
    <3> QED
      BY <3>3, <3>4, <3>5 DEF WireType
  <2> QED
    BY <2>1, <2>2
<1> QED
  BY <1>1, <1>2 DEF TypeInv, PlayerType, QueueType, ApplicationType, HistoryType, AtMostOne

(* A handler takes the first frame of its connection.                      *)
LEMMA FrameIsTaken ==
  ASSUME TypeInv, NEW k \in 1 .. Link, Execute(k)
  PROVE  /\ up[k] # <<>> /\ up[k] \in Seq(Requests) /\ Head(up[k]) \in Requests
         /\ up' \in Seq(OnWire) /\ Len(up') = Len(up) /\ up'[k] = Tail(up[k])
         /\ \A j \in 1 .. Link : j # k => up'[j] = up[j]
         /\ executed' = Append(executed, [id |-> Head(up[k]).id, link |-> k])
         /\ [id |-> Head(up[k]).id, link |-> k] \in InLog
<1>1. /\ up[k] # <<>> /\ up' = [up EXCEPT ![k] = Tail(up[k])]
      /\ executed' = Append(executed, [id |-> Head(up[k]).id, link |-> k])
  BY DEF Execute
<1>2. up[k] \in Seq(Requests) /\ Len(up[k]) <= MaxWire /\ k \in 1 .. MaxLinks
  BY OnWireType
<1>3. /\ Head(up[k]) \in Requests /\ Tail(up[k]) \in Seq(Requests)
      /\ Len(Tail(up[k])) = Len(up[k]) - 1 /\ Len(up[k]) \in Nat
  BY <1>1, <1>2, FirstAndRest
<1>4. Tail(up[k]) \in OnWire
  BY <1>2, <1>3 DEF OnWire
<1>5. [id |-> Head(up[k]).id, link |-> k] \in InLog
  BY <1>2, <1>3, RequestId DEF InLog
<1> QED
  BY <1>1, <1>2, <1>3, <1>4, <1>5, WireReplaced

LEMMA AnswerType ==
  ASSUME TypeInv, NEW k, NEW f \in Frames, Answer(k, f)
  PROVE  down' \in Seq(Frames) /\ Len(down') <= MaxWire
<1>1. CASE down' = down
  BY <1>1 DEF TypeInv, WireType
<1>2. CASE Len(down) < MaxWire /\ down' = Append(down, f)
  BY <1>2, AppendIndices DEF TypeInv, WireType
<1> QED
  BY <1>1, <1>2 DEF Answer

LEMMA ExecuteType == ASSUME TypeInv, NEW k \in 1 .. Link, Execute(k) PROVE TypeInv'
<1> DEFINE r == Head(up[k])
<1>1. UNCHANGED <<user, current, connected, commands, feedback, snapshot, list, online,
                  playback, optimistic, players, selected, pressed, unsent>>
  BY DEF Execute, queues, application
<1>2. /\ r \in Requests /\ up' \in Seq(OnWire) /\ Len(up') = Len(up)
      /\ executed' = Append(executed, [id |-> r.id, link |-> k])
      /\ [id |-> r.id, link |-> k] \in InLog
  BY FrameIsTaken
<1>3. r.id \in Ids
  BY <1>2, RequestId
<1>4. \/ /\ \E l \in Lists : Answer(k, [type |-> "players", list |-> l])
         /\ UNCHANGED <<player, restore>>
      \/ \E success \in BOOLEAN :
            /\ Answer(k, [type |-> "result", id |-> r.id, success |-> success])
            /\ \/ /\ player' = Effect(r)
                  /\ restore' = IF r.kind = "mute" /\ current.volume > 0
                                THEN current.volume ELSE restore
               \/ UNCHANGED <<player, restore>>
  BY DEF Execute
<1> HIDE DEF r
<1>5. down' \in Seq(Frames) /\ Len(down') <= MaxWire
  <2>1. \A l \in Lists : [type |-> "players", list |-> l] \in Frames
    BY DEF Frames
  <2>2. \A success \in BOOLEAN : [type |-> "result", id |-> r.id, success |-> success] \in Frames
    BY <1>3 DEF Frames
  <2> QED
    BY <1>4, <2>1, <2>2, AnswerType
<1>6. PlayerType'
  <2>1. CASE /\ player' = Effect(r)
             /\ restore' = IF r.kind = "mute" /\ current.volume > 0
                           THEN current.volume ELSE restore
    <3>1. player' \in State
      BY <1>2, <2>1, EffectType DEF TypeInv
    <3>2. current.volume \in -1 .. MaxVolume
      BY StateWith DEF TypeInv, PlayerType
    <3>3. restore' \in 0 .. MaxVolume
      BY <2>1, <3>2 DEF TypeInv, PlayerType
    <3> QED
      BY <1>1, <3>1, <3>3 DEF TypeInv, PlayerType
  <2>2. CASE UNCHANGED <<player, restore>>
    BY <1>1, <2>2 DEF TypeInv, PlayerType
  <2> QED
    BY <1>4, <2>1, <2>2
<1>7. WireType'
  BY <1>1, <1>2, <1>5 DEF TypeInv, WireType
<1>8. HistoryType'
  BY <1>1, <1>2, AppendProperties DEF TypeInv, HistoryType
<1> QED
  BY <1>1, <1>6, <1>7, <1>8 DEF TypeInv, QueueType, ApplicationType, AtMostOne

LEMMA PollType == ASSUME TypeInv, Poll PROVE TypeInv'
<1>1. UNCHANGED <<user, player, restore, connected, up, commands, feedback, snapshot, list,
                  online, playback, optimistic, players, selected, pressed, executed, unsent>>
      /\ current' = player
  BY DEF Poll, queues, application, history
<1>2. PlayerType'
  BY <1>1 DEF TypeInv, PlayerType
<1>3. WireType'
  <2>1. CASE Len(down) < MaxWire /\ down' = Append(down, [type |-> "state", state |-> player])
    <3>1. [type |-> "state", state |-> player] \in Frames
      BY DEF TypeInv, PlayerType, Frames
    <3>2. down' \in Seq(Frames) /\ Len(down') = Len(down) + 1 /\ Len(down) \in Nat
      BY <2>1, <3>1, AppendIndices DEF TypeInv, WireType
    <3> QED
      BY <1>1, <2>1, <3>2 DEF TypeInv, WireType
  <2>2. CASE UNCHANGED down
    BY <1>1, <2>2 DEF TypeInv, WireType
  <2> QED
    BY <2>1, <2>2 DEF Poll
<1> QED
  BY <1>1, <1>2, <1>3 DEF TypeInv, QueueType, ApplicationType, HistoryType, AtMostOne

LEMMA DesktopType == ASSUME TypeInv, Desktop PROVE TypeInv'
BY DEF Desktop, wire, queues, application, history, TypeInv, PlayerType, WireType, QueueType,
       ApplicationType, HistoryType, AtMostOne

LEMMA StutterType == ASSUME TypeInv, UNCHANGED controlVars PROVE TypeInv'
BY DEF controlVars, host, wire, queues, application, history, TypeInv, PlayerType, WireType,
       QueueType, ApplicationType, HistoryType, AtMostOne

LEMMA TypeStep == ASSUME TypeInv, [ControlNext]_controlVars PROVE TypeInv'
BY ConsumeQueuesType, PressType, SendCommandType, RejectCommandType, ReceiveType, SocketType,
   ExecuteType, PollType, DesktopType, StutterType
   DEF ControlNext, Network, Host

LEMMA TypeInit == ASSUME ControlInit PROVE TypeInv
<1>1. /\ <<>> \in Seq(Requests) /\ <<>> \in Seq(Frames) /\ <<>> \in Seq(Results)
      /\ <<>> \in Seq(OnWire) /\ <<>> \in Seq(InLog) /\ Len(<<>>) = 0
  OBVIOUS
<1>2. PlayerType
  BY DEF ControlInit, PlayerType
<1>3. WireType
  <2>1. up = <<>> /\ down = <<>> /\ connected = FALSE
    BY DEF ControlInit
  <2>2. connected \in BOOLEAN /\ ~connected
    BY <2>1
  <2>3. /\ up \in Seq(OnWire) /\ Len(up) = 0
        /\ down \in Seq(Frames) /\ Len(down) = 0
    BY <1>1, <2>1
  <2> QED
    BY <2>2, <2>3 DEF WireType
<1>4. QueueType
  BY <1>1 DEF ControlInit, QueueType, AtMostOne
<1>5. ApplicationType
  <2>1. /\ online = FALSE /\ playback = <<>> /\ optimistic = -1
        /\ players = <<>> /\ selected = 0
    BY DEF ControlInit
  <2>2. online \in BOOLEAN
    BY <2>1
  <2>3. optimistic \in -1 .. MaxVolume
    BY <2>1
  <2> QED
    BY <2>1, <2>2, <2>3 DEF ApplicationType, AtMostOne
<1>6. HistoryType
  BY <1>1 DEF ControlInit, HistoryType, Ids
<1> QED
  BY <1>2, <1>3, <1>4, <1>5, <1>6 DEF TypeInv

LEMMA Typed == ControlSpec => []TypeInv
BY TypeInit, TypeStep, PTL DEF ControlSpec

LEMMA TypeInvImpliesOK == ASSUME TypeInv PROVE ControlTypeOK
<1>1. playback = <<>> \/ playback[1] \in State
  BY DEF TypeInv, ApplicationType, AtMostOne
<1>2. Link <= MaxLinks /\ \A link \in 1 .. Link : Len(up[link]) <= MaxWire
  BY OnWireType
<1>3. \A i \in 1 .. Len(executed) : executed[i].id \in Ids
  <2>1. \A i \in 1 .. Len(executed) : executed[i] \in InLog
    BY ElementOfSeq DEF TypeInv, HistoryType
  <2> QED
    BY <2>1 DEF InLog
<1> QED
  BY <1>1, <1>2, <1>3 DEF TypeInv, PlayerType, WireType, QueueType, ApplicationType, HistoryType,
              ControlTypeOK, Ids

(* Every queue and the wire stay within their lengths, and a player that is *)
(* selected is one of the list.                                            *)
THEOREM ControlTypes == ControlSpec => []ControlTypeOK
BY Typed, TypeInvImpliesOK, PTL

----------------------------------------------------------------------------
(* Every action keeps the order.                                           *)

LEMMA NumbersAreNat ==
  ASSUME TypeInv
  PROVE  /\ pressed \in Nat /\ unsent \subseteq Nat /\ IdsOf(commands) \subseteq Nat
         /\ Len(up) \in Nat /\ \A k \in 1 .. Len(up) : IdsOf(up[k]) \subseteq Nat
         /\ Len(executed) \in Nat
         /\ \A e \in 1 .. Len(executed) : executed[e].id \in Nat /\ executed[e].link \in Nat
<1>1. pressed \in Nat /\ unsent \subseteq Nat
  BY DEF TypeInv, HistoryType, Ids
<1>2. ASSUME NEW q \in Seq(Requests) PROVE IdsOf(q) \subseteq Nat
  <2>1. \A i \in 1 .. Len(q) : q[i].id \in Nat
    BY <1>2, ElementOfSeq, RequestId
  <2> QED
    BY <2>1 DEF IdsOf
<1>3. IdsOf(commands) \subseteq Nat
  BY <1>2 DEF TypeInv, QueueType
<1>4. \A k \in 1 .. Len(up) : IdsOf(up[k]) \subseteq Nat
  BY <1>2, OnWireType DEF Link
<1>5. \A e \in 1 .. Len(executed) : executed[e].id \in Nat /\ executed[e].link \in Nat
  <2>1. \A e \in 1 .. Len(executed) : executed[e] \in InLog
    BY ElementOfSeq DEF TypeInv, HistoryType
  <2> QED
    BY <2>1 DEF InLog, Ids
<1>6. Len(up) \in Nat /\ Len(executed) \in Nat
  BY LenProperties DEF TypeInv, WireType, HistoryType
<1> QED
  BY <1>1, <1>3, <1>4, <1>5, <1>6

LEMMA OrderNext ==
  ASSUME QueuesRise(up', commands'),
         NumbersUsed(up', commands', executed', unsent', pressed'),
         DoneIsPast(up', commands', executed'), DoneInOrder(executed'),
         GivenUpIsGone(up', commands', executed', unsent')
  PROVE  OrderInv'
<1>1. QueuesRise(up, commands)'
  BY DEF QueuesRise, Rising, Before, IdsOf
<1>2. NumbersUsed(up, commands, executed, unsent, pressed)'
  BY DEF NumbersUsed, IdsOf
<1>3. DoneIsPast(up, commands, executed)'
  BY DEF DoneIsPast, IdsOf
<1>4. DoneInOrder(executed)'
  BY DEF DoneInOrder
<1>5. GivenUpIsGone(up, commands, executed, unsent)'
  BY DEF GivenUpIsGone, IdsOf
<1> QED
  BY <1>1, <1>2, <1>3, <1>4, <1>5 DEF OrderInv

(* Requests get lost, or new connections come: the numbers stay in order.  *)
LEMMA FewerNumbers ==
  ASSUME OrderInv, NEW u, NEW c, Len(up) \in Nat, Rising(c), IdsOf(c) \subseteq IdsOf(commands),
         \A k \in 1 .. Len(u) :
           \/ IdsOf(u[k]) = {} /\ Rising(u[k])
           \/ k \in 1 .. Len(up) /\ Rising(u[k]) /\ IdsOf(u[k]) \subseteq IdsOf(up[k])
  PROVE  /\ QueuesRise(u, c) /\ NumbersUsed(u, c, executed, unsent, pressed)
         /\ DoneIsPast(u, c, executed) /\ GivenUpIsGone(u, c, executed, unsent)
<1>1. \A k \in 1 .. Len(u) : \A n \in IdsOf(u[k]) : k \in 1 .. Len(up) /\ n \in IdsOf(up[k])
  OBVIOUS
<1>2. QueuesRise(u, c)
  <2>1. \A k \in 1 .. Len(u) : Rising(u[k])
    OBVIOUS
  <2>2. \A k \in 1 .. Len(u) : Before(IdsOf(u[k]), IdsOf(c))
    BY <1>1 DEF OrderInv, QueuesRise, Before
  <2>3. \A k, l \in 1 .. Len(u) : k < l => Before(IdsOf(u[k]), IdsOf(u[l]))
    BY <1>1 DEF OrderInv, QueuesRise, Before
  <2> QED
    BY <2>1, <2>2, <2>3 DEF QueuesRise
<1>3. NumbersUsed(u, c, executed, unsent, pressed)
  BY <1>1 DEF OrderInv, NumbersUsed
<1>4. DoneIsPast(u, c, executed)
  BY <1>1 DEF OrderInv, DoneIsPast
<1>5. GivenUpIsGone(u, c, executed, unsent)
  BY <1>1 DEF OrderInv, GivenUpIsGone
<1> QED
  BY <1>2, <1>3, <1>4, <1>5

LEMMA SameQueues ==
  ASSUME OrderInv, UNCHANGED <<up, commands, executed, pressed, unsent>>
  PROVE  OrderInv'
BY OrderNext DEF OrderInv

(* The number of a new press is above all others.                          *)
LEMMA PressOrder == ASSUME TypeInv, OrderInv, Press PROVE OrderInv'
<1>1. UNCHANGED <<up, executed, unsent>> /\ QueuedOrNot
  BY PressType DEF Press, wire
<1>2. CASE UNCHANGED <<commands, pressed>>
  BY <1>1, <1>2, SameQueues
<1>3. CASE pressed' = pressed + 1 /\ \E r \in Requests : r.id = pressed' /\ commands' = Append(commands, r)
  <2>1. PICK r \in Requests : r.id = pressed' /\ commands' = Append(commands, r)
    BY <1>3
  <2>2. pressed \in Nat /\ r.id = pressed + 1 /\ pressed' = pressed + 1
    BY <1>3, <2>1, NumbersAreNat
  <2>3. NumbersUsed(up, commands, executed, unsent, pressed)
    BY DEF OrderInv
  <2>4. /\ \A n \in IdsOf(commands) : n < r.id /\ n <= pressed'
        /\ \A k \in 1 .. Len(up) : \A n \in IdsOf(up[k]) : n < r.id /\ n <= pressed'
        /\ \A e \in 1 .. Len(executed) : executed[e].id < r.id /\ executed[e].id <= pressed'
        /\ \A n \in unsent : n < r.id /\ n <= pressed'
    <3>1. \A n \in Nat : n <= pressed => n < r.id /\ n <= pressed'
      BY <2>2
    <3>2. \A n \in IdsOf(commands) : n \in Nat /\ n <= pressed
      BY <2>3, NumbersAreNat DEF NumbersUsed
    <3>3. \A k \in 1 .. Len(up) : \A n \in IdsOf(up[k]) : n \in Nat /\ n <= pressed
      BY <2>3, NumbersAreNat DEF NumbersUsed
    <3>4. \A e \in 1 .. Len(executed) : executed[e].id \in Nat /\ executed[e].id <= pressed
      BY <2>3, NumbersAreNat DEF NumbersUsed
    <3>5. \A n \in unsent : n \in Nat /\ n <= pressed
      BY <2>3, NumbersAreNat DEF NumbersUsed
    <3> QED
      BY <3>1, <3>2, <3>3, <3>4, <3>5
  <2>5. commands \in Seq(Requests) /\ Rising(commands)
    BY DEF TypeInv, QueueType, OrderInv, QueuesRise
  <2>6. Rising(commands') /\ IdsOf(commands') = IdsOf(commands) \cup {r.id}
    BY <2>1, <2>4, <2>5, AppendNumbers
  <2>7. QueuesRise(up', commands')
    BY <1>1, <2>4, <2>6 DEF OrderInv, QueuesRise, Before
  <2>8. NumbersUsed(up', commands', executed', unsent', pressed')
    BY <1>1, <2>2, <2>4, <2>6 DEF NumbersUsed
  <2>9. DoneIsPast(up', commands', executed') /\ DoneInOrder(executed')
    BY <1>1, <2>4, <2>6 DEF OrderInv, DoneIsPast
  <2>10. GivenUpIsGone(up', commands', executed', unsent')
    BY <1>1, <2>2, <2>4, <2>6, NumbersAreNat DEF OrderInv, GivenUpIsGone
  <2> QED
    BY <2>7, <2>8, <2>9, <2>10, OrderNext
<1> QED
  BY <1>1, <1>2, <1>3 DEF QueuedOrNot

(* The first request of the queue and those behind it.                     *)
LEMMA FirstIsLowest ==
  ASSUME TypeInv, OrderInv, commands # <<>>
  PROVE  /\ Request \in Requests /\ Request.id \in Nat /\ Request.id \in IdsOf(commands)
         /\ Rising(Tail(commands)) /\ IdsOf(Tail(commands)) \subseteq IdsOf(commands)
         /\ \A n \in IdsOf(Tail(commands)) : Request.id < n
<1>1. commands \in Seq(Requests) /\ Rising(commands)
  BY DEF TypeInv, QueueType, OrderInv, QueuesRise
<1> QED
  BY <1>1, TailNumbers, RequestId DEF Request

LEMMA SendOrder == ASSUME TypeInv, OrderInv, SendCommand PROVE OrderInv'
<1>1. commands' = Tail(commands) /\ UNCHANGED <<executed, pressed, unsent>>
  BY DEF SendCommand, history
<1>2. /\ commands # <<>> /\ Request \in Requests /\ Link \in 1 .. Link
      /\ Len(up') = Len(up) /\ up'[Link] = Append(up[Link], Request)
      /\ \A j \in 1 .. Link : j # Link => up'[j] = up[j]
  BY RequestIsSent
<1>3. /\ Request.id \in Nat /\ Request.id \in IdsOf(commands) /\ Rising(commands')
      /\ IdsOf(commands') \subseteq IdsOf(commands)
      /\ \A n \in IdsOf(commands') : Request.id < n
  BY <1>1, <1>2, FirstIsLowest
<1> HIDE DEF Request
<1>4. /\ Link \in Nat /\ Len(up) = Link /\ up[Link] \in Seq(Requests)
      /\ \A k \in 1 .. Link : \A n \in IdsOf(up[k]) : n < Request.id
  BY <1>2, <1>3, OnWireType DEF OrderInv, QueuesRise, Before, Link
<1>5. Rising(up'[Link]) /\ IdsOf(up'[Link]) = IdsOf(up[Link]) \cup {Request.id}
  BY <1>2, <1>4, AppendNumbers DEF OrderInv, QueuesRise
<1> HIDE DEF Link
<1>6. \A k \in 1 .. Link : \A n \in IdsOf(up'[k]) :
        n \in IdsOf(up[k]) \/ (k = Link /\ n = Request.id)
  BY <1>2, <1>5
<1>7. QueuesRise(up', commands')
  <2>1. \A k \in 1 .. Link : Rising(up'[k])
    BY <1>2, <1>4, <1>5 DEF OrderInv, QueuesRise
  <2>2. \A k \in 1 .. Link : Before(IdsOf(up'[k]), IdsOf(commands'))
    BY <1>3, <1>4, <1>6 DEF OrderInv, QueuesRise, Before
  <2>3. ASSUME NEW k \in 1 .. Link, NEW l \in 1 .. Link, k < l
        PROVE  Before(IdsOf(up'[k]), IdsOf(up'[l]))
    <3>1. k # Link /\ up'[k] = up[k]
      BY <1>2, <1>4, <2>3
    <3>2. Before(IdsOf(up[k]), IdsOf(up[l]))
      BY <1>4, <2>3 DEF OrderInv, QueuesRise
    <3> QED
      BY <1>4, <1>6, <3>1, <3>2 DEF Before
  <2> QED
    BY <1>2, <1>3, <1>4, <2>1, <2>2, <2>3 DEF QueuesRise
<1>8. NumbersUsed(up', commands', executed', unsent', pressed')
  BY <1>1, <1>2, <1>3, <1>4, <1>6 DEF OrderInv, NumbersUsed
<1>9. DoneIsPast(up', commands', executed') /\ DoneInOrder(executed')
  <2>1. ASSUME NEW e \in 1 .. Len(executed)
        PROVE  /\ executed[e].id # Request.id /\ executed[e].id < Request.id
               /\ \A n \in IdsOf(commands') : executed[e].id < n
    BY <1>3, <2>1, NumbersAreNat DEF OrderInv, DoneIsPast
  <2> QED
    BY <1>1, <1>2, <1>4, <1>6, <2>1 DEF OrderInv, DoneIsPast
<1>10. GivenUpIsGone(up', commands', executed', unsent')
  BY <1>1, <1>2, <1>3, <1>4, <1>6 DEF OrderInv, GivenUpIsGone
<1> QED
  BY <1>7, <1>8, <1>9, <1>10, OrderNext

(* What is given up was in the queue, and is nowhere else.                 *)
LEMMA RejectOrder == ASSUME TypeInv, OrderInv, RejectCommand PROVE OrderInv'
<1>1. /\ commands # <<>> /\ commands' = Tail(commands) /\ unsent' = unsent \cup {Request.id}
      /\ UNCHANGED <<up, executed, pressed>>
  BY DEF RejectCommand, wire
<1>2. /\ Request.id \in Nat /\ Request.id \in IdsOf(commands) /\ Rising(commands')
      /\ IdsOf(commands') \subseteq IdsOf(commands)
      /\ \A n \in IdsOf(commands') : Request.id < n
  BY <1>1, FirstIsLowest
<1> HIDE DEF Request
<1>3. /\ QueuesRise(up', commands') /\ NumbersUsed(up', commands', executed, unsent, pressed)
      /\ DoneIsPast(up', commands', executed)
      /\ GivenUpIsGone(up', commands', executed, unsent)
  BY <1>1, <1>2, FewerNumbers, NumbersAreNat DEF OrderInv, QueuesRise
<1>4. NumbersUsed(up', commands', executed', unsent', pressed')
  BY <1>1, <1>2, <1>3 DEF OrderInv, NumbersUsed
<1>5. GivenUpIsGone(up', commands', executed', unsent')
  <2>1. Request.id \notin IdsOf(commands')
    BY <1>2
  <2>2. \A k \in 1 .. Len(up) : Request.id \notin IdsOf(up[k])
    <3>1. \A k \in 1 .. Len(up) : Before(IdsOf(up[k]), IdsOf(commands))
      BY DEF OrderInv, QueuesRise
    <3> QED
      BY <1>2, <3>1 DEF Before
  <2>3. \A e \in 1 .. Len(executed) : executed[e].id # Request.id
    BY <1>2, NumbersAreNat DEF OrderInv, DoneIsPast
  <2> QED
    BY <1>1, <1>3, <2>1, <2>2, <2>3 DEF GivenUpIsGone
<1>6. DoneInOrder(executed')
  BY <1>1 DEF OrderInv
<1> QED
  BY <1>1, <1>3, <1>4, <1>5, <1>6, OrderNext

(* The press that is executed was the first of its connection.             *)
LEMMA ExecuteOrder ==
  ASSUME TypeInv, OrderInv, NEW k \in 1 .. Link, Execute(k)
  PROVE  OrderInv'
<1> DEFINE r == Head(up[k])
           n == Len(executed)
<1>1. UNCHANGED <<commands, pressed, unsent>>
  BY DEF Execute, queues
<1>2. /\ up[k] # <<>> /\ up[k] \in Seq(Requests) /\ Len(up') = Len(up) /\ up'[k] = Tail(up[k])
      /\ \A j \in 1 .. Link : j # k => up'[j] = up[j]
      /\ executed' = Append(executed, [id |-> r.id, link |-> k])
      /\ [id |-> r.id, link |-> k] \in InLog
  BY FrameIsTaken
<1>3. /\ Len(up) = Link /\ k \in 1 .. Len(up) /\ k \in Nat /\ n \in Nat
      /\ executed \in Seq(InLog)
  BY OnWireType, NumbersAreNat DEF Link, TypeInv, HistoryType
<1>4. /\ r.id \in IdsOf(up[k]) /\ Rising(up'[k]) /\ IdsOf(up'[k]) \subseteq IdsOf(up[k])
      /\ \A m \in IdsOf(up'[k]) : r.id < m
  BY <1>2, <1>3, TailNumbers DEF OrderInv, QueuesRise
<1> HIDE DEF r
<1>5. /\ r.id \in Nat /\ r.id <= pressed /\ r.id \notin unsent
      /\ \A m \in IdsOf(commands) : r.id < m
  BY <1>3, <1>4, NumbersAreNat
     DEF OrderInv, QueuesRise, Before, NumbersUsed, GivenUpIsGone
<1>6. /\ Len(executed') = n + 1
      /\ \A e \in 1 .. n : executed'[e] = executed[e]
      /\ executed'[n + 1].id = r.id /\ executed'[n + 1].link = k
      /\ \A e \in 1 .. Len(executed') : e \in 1 .. n \/ e = n + 1
  <2>1. /\ Len(executed') = n + 1 /\ \A e \in 1 .. n : executed'[e] = executed[e]
        /\ executed'[n + 1] = [id |-> r.id, link |-> k]
    BY <1>2, <1>3, AppendProperties
  <2> QED
    BY <1>3, <2>1
<1> HIDE DEF n, Link
<1>7. \A j \in 1 .. Len(up) : Rising(up'[j]) /\ IdsOf(up'[j]) \subseteq IdsOf(up[j])
  BY <1>2, <1>3, <1>4 DEF OrderInv, QueuesRise
<1>8. /\ QueuesRise(up', commands') /\ NumbersUsed(up', commands', executed, unsent, pressed)
      /\ DoneIsPast(up', commands', executed)
      /\ GivenUpIsGone(up', commands', executed, unsent)
  BY <1>1, <1>2, <1>7, FewerNumbers, NumbersAreNat DEF OrderInv, QueuesRise
<1>9. NumbersUsed(up', commands', executed', unsent', pressed')
  BY <1>1, <1>5, <1>6, <1>8 DEF NumbersUsed, n
<1>10. DoneIsPast(up', commands', executed')
  <2>1. \A m \in IdsOf(commands') : r.id < m
    BY <1>1, <1>5
  <2>2. ASSUME NEW j \in 1 .. Len(up), NEW m \in IdsOf(up'[j])
        PROVE  r.id # m /\ (j >= k => r.id < m)
    <3>1. m \in IdsOf(up[j]) /\ m \in Nat /\ j \in Nat
      BY <1>7, <2>2, NumbersAreNat
    <3>2. CASE j = k
      BY <1>4, <1>5, <2>2, <3>1, <3>2
    <3>3. CASE j < k
      BY <1>3, <1>4, <1>5, <3>1, <3>3 DEF OrderInv, QueuesRise, Before
    <3>4. CASE k < j
      BY <1>3, <1>4, <1>5, <3>1, <3>4 DEF OrderInv, QueuesRise, Before
    <3> QED
      BY <1>3, <3>1, <3>2, <3>3, <3>4
  <2>3. ASSUME NEW e \in 1 .. Len(executed')
        PROVE  /\ \A m \in IdsOf(commands') : executed'[e].id < m
               /\ \A j \in 1 .. Len(up') : \A m \in IdsOf(up'[j]) :
                    /\ executed'[e].id # m
                    /\ j >= executed'[e].link => executed'[e].id < m
    <3>1. CASE e \in 1 .. n
      <4>1. executed'[e] = executed[e] /\ e \in 1 .. Len(executed)
        BY <1>6, <3>1 DEF n
      <4> QED
        BY <1>8, <4>1 DEF DoneIsPast
    <3>2. CASE e = n + 1
      BY <1>2, <1>6, <2>1, <2>2, <3>2
    <3> QED
      BY <1>6, <2>3, <3>1, <3>2
  <2> QED
    BY <2>3 DEF DoneIsPast
<1>11. DoneInOrder(executed')
  <2>1. \A e \in 1 .. n : executed[e].id # r.id /\ (k >= executed[e].link => executed[e].id < r.id)
    BY <1>3, <1>4 DEF OrderInv, DoneIsPast, n
  <2>2. \A e \in 1 .. n : executed[e].link \in Nat
    BY NumbersAreNat DEF n
  <2>3. \A e \in 1 .. n :
          executed[e].id < r.id \/ (executed[e].id # r.id /\ k < executed[e].link)
    BY <1>3, <2>1, <2>2
  <2>4. DoneInOrder(executed)
    BY DEF OrderInv
  <2> SUFFICES ASSUME NEW i \in 1 .. Len(executed'), NEW j \in 1 .. Len(executed'), i < j
               PROVE  \/ executed'[i].id < executed'[j].id
                      \/ /\ executed'[i].id # executed'[j].id
                         /\ executed'[j].link < executed'[i].link
    BY DEF DoneInOrder
  <2>5. i \in 1 .. n
    BY <1>3, <1>6
  <2>6. CASE j \in 1 .. n
    BY <1>6, <2>4, <2>5, <2>6 DEF DoneInOrder, n
  <2>7. CASE j = n + 1
    BY <1>6, <2>3, <2>5, <2>7
  <2> QED
    BY <1>6, <2>6, <2>7
<1>12. GivenUpIsGone(up', commands', executed', unsent')
  BY <1>1, <1>5, <1>6, <1>8 DEF GivenUpIsGone, n
<1> QED
  BY <1>8, <1>9, <1>10, <1>11, <1>12, OrderNext

(* Connections come and go; the numbers on the way get fewer.              *)
LEMMA SocketOrder == ASSUME TypeInv, OrderInv, Connect \/ Disconnect PROVE OrderInv'
<1>1. UNCHANGED <<commands, executed, pressed, unsent>>
  BY DEF Connect, Disconnect, queues, history
<1>2. \A k \in 1 .. Len(up) : Rising(up[k])
  BY DEF OrderInv, QueuesRise
<1>3. \A k \in 1 .. Len(up') :
        \/ IdsOf(up'[k]) = {} /\ Rising(up'[k])
        \/ k \in 1 .. Len(up) /\ Rising(up'[k]) /\ IdsOf(up'[k]) \subseteq IdsOf(up[k])
  <2>1. CASE Connect
    <3>1. /\ Len(up') = Len(up) + 1 /\ up'[Len(up) + 1] = <<>> /\ Len(up) \in Nat
          /\ \A k \in 1 .. Len(up) : up'[k] = up[k]
      BY <2>1, NewConnection DEF Link
    <3>2. Len(<<>>) = 0
      OBVIOUS
    <3>3. IdsOf(<<>>) = {} /\ Rising(<<>>)
      BY <3>2 DEF IdsOf, Rising
    <3>4. \A k \in 1 .. Len(up') : k \in 1 .. Len(up) \/ k = Len(up) + 1
      BY <3>1
    <3> QED
      BY <1>2, <3>1, <3>3, <3>4
  <2>2. CASE Disconnect
    <3>1. /\ Len(up') = Len(up) /\ Len(up) = Link
          /\ \A k \in 1 .. Link : k # Link => up'[k] = up[k]
          /\ Link \in 1 .. Link =>
               \E n \in 0 .. Len(up[Link]) : up'[Link] = SubSeq(up[Link], 1, n)
      BY <2>2, FramesKept DEF Link
    <3>2. Link \in 1 .. Link => up[Link] \in Seq(Requests)
      BY OnWireType
    <3> HIDE DEF Link
    <3>3. Link \in 1 .. Link => Rising(up'[Link]) /\ IdsOf(up'[Link]) \subseteq IdsOf(up[Link])
      BY <1>2, <3>1, <3>2, PrefixNumbers
    <3> QED
      BY <1>2, <3>1, <3>3
  <2> QED
    BY <2>1, <2>2
<1>4. /\ QueuesRise(up', commands) /\ NumbersUsed(up', commands, executed, unsent, pressed)
      /\ DoneIsPast(up', commands, executed) /\ GivenUpIsGone(up', commands, executed, unsent)
  <2>1. Rising(commands) /\ Len(up) \in Nat
    BY NumbersAreNat DEF OrderInv, QueuesRise
  <2> QED
    BY <1>3, <2>1, FewerNumbers
<1>5. DoneInOrder(executed)
  BY DEF OrderInv
<1> QED
  BY <1>1, <1>4, <1>5, OrderNext

(* The other actions leave the requests alone.                             *)
Elsewhere == ConsumeQueues \/ Receive \/ Poll \/ Desktop

LEMMA ElsewhereOrder ==
  ASSUME Elsewhere \/ UNCHANGED controlVars
  PROVE  UNCHANGED <<up, commands, executed, pressed, unsent>>
BY DEF Elsewhere, ConsumeQueues, Receive, Poll, Desktop, controlVars, wire, queues, history

LEMMA OrderStep ==
  ASSUME TypeInv, OrderInv, [ControlNext]_controlVars
  PROVE  OrderInv'
BY PressOrder, SendOrder, RejectOrder, ExecuteOrder, SocketOrder, ElsewhereOrder, SameQueues
   DEF ControlNext, Network, Host, Elsewhere

LEMMA OrderInit == ASSUME ControlInit PROVE OrderInv
<1>1. up = <<>> /\ commands = <<>> /\ unsent = {} /\ executed = <<>> /\ pressed = 0
  BY DEF ControlInit
<1>2. Len(up) = 0 /\ Len(commands) = 0 /\ Len(executed) = 0
  BY <1>1
<1>3. IdsOf(commands) = {} /\ Rising(commands)
  BY <1>2 DEF IdsOf, Rising
<1> QED
  BY <1>1, <1>2, <1>3
     DEF OrderInv, QueuesRise, NumbersUsed, DoneIsPast, DoneInOrder, GivenUpIsGone, Before

LEMMA Ordered == ControlSpec => [](TypeInv /\ OrderInv)
<1>1. ControlInit => TypeInv /\ OrderInv
  BY TypeInit, OrderInit
<1>2. TypeInv /\ OrderInv /\ [ControlNext]_controlVars => (TypeInv /\ OrderInv)'
  BY TypeStep, OrderStep
<1> QED
  BY <1>1, <1>2, PTL DEF ControlSpec

(* Each press gets to the player at most once, whatever is lost on the way, *)
(* and after those made before it, except that the handler of a lost        *)
(* connection may come after presses of a later one.                        *)
THEOREM PressesInOrder == ControlSpec => []InOrderAndOnce
<1>1. OrderInv => InOrderAndOnce
  BY DEF OrderInv, DoneInOrder, InOrderAndOnce
<1> QED
  BY <1>1, Ordered, PTL

(* What the device has reported as unsent is never executed.               *)
THEOREM UnsentStaysUnsent == ControlSpec => []UnsentIsNotExecuted
<1>1. OrderInv => UnsentIsNotExecuted
  BY DEF OrderInv, GivenUpIsGone, UnsentIsNotExecuted
<1> QED
  BY <1>1, Ordered, PTL

----------------------------------------------------------------------------
(* From the contacts to the factory reset.                                 *)

USE InputAssumption

Screens == {"playing", "device", "settings", "about", "actions"}

Trackers == [raw : BOOLEAN, since : Nat, stable : BOOLEAN, age : Nat, long : BOOLEAN,
             wait : Nat, press : Nat]

Gestures == [control : Buttons \cup {"turn"}, gesture : {"short", "long", "repeat", "rotate"},
             press : Nat]

Persons == {Nobody} \cup (Buttons \X Nat)

Panels == [screen : Screens, before : Screens, item : 0 .. Items - 1, armed : BOOLEAN,
           armedBy : Persons, confirmedBy : Persons]

TrackerType ==
  /\ tracker \in [Buttons -> Trackers]
  /\ \A b \in Buttons :
       /\ tracker[b].since < Debounce /\ tracker[b].age < LongPress[b]
       /\ tracker[b].wait <= LongPress[b] + RepeatDelay + RepeatInterval
       /\ tracker[b].press <= closings

ClockType ==
  /\ countdown \in 0 .. Off /\ held \in 0 .. ResetHold /\ pass \in 0 .. Debounce + 1
  /\ late \in BOOLEAN

HandType == hands \in Hands /\ contact \in [Buttons -> BOOLEAN] /\ closings \in 0 .. hands.closings

LoopType ==
  /\ events \in Seq(Gestures) /\ Len(events) <= InputRoom /\ turn \in 0 .. PassEvents
  /\ panel \in Panels /\ reset \in {"no", "chord", "settings"}

InputInv == HandType /\ TrackerType /\ LoopType /\ ClockType

(* The numbers of presses of the knob that cannot give another gesture,    *)
(* since they were long already, or another press has begun or must.       *)
SpentPresses ==
  LET t == tracker["knob"]
  IN  {n \in Nat : IF t.stable THEN n < t.press \/ (t.long /\ n = t.press)
                   ELSE n <= closings /\ (t.raw \/ contact["knob"] => n < closings)}

Knobs == {i \in 1 .. Len(events) : events[i].control = "knob"}

QueueOnce ==
  /\ \A i \in Knobs : events[i].press \in SpentPresses
  /\ \A i, j \in Knobs : i < j => events[i].press < events[j].press

ArmedOnce ==
  panel.armedBy[1] = "knob" =>
    /\ panel.armedBy[2] \in SpentPresses
    /\ \A i \in Knobs : panel.armedBy[2] < events[i].press

OnceInv ==
  /\ QueueOnce /\ ArmedOnce
  /\ reset = "no" => panel.confirmedBy = Nobody
  /\ reset = "settings" => panel.armedBy # panel.confirmedBy

(* A button of the chord that was let go in the countdown is not down      *)
(* again before Debounce is over.                                          *)
ChordInv ==
  /\ countdown # Off /\ ~late /\ pass <= Debounce =>
       \/ ChordActive /\ held >= countdown
       \/ \E b \in Chord : ~tracker[b].stable /\ tracker[b].since < pass
  /\ reset = "chord" /\ ~late => held >= ResetHold

----------------------------------------------------------------------------
(* A millisecond of one tracker.                                           *)

LEMMA SampledFacts ==
  ASSUME InputInv, NEW b \in Buttons
  PROVE  LET old == tracker[b]
             t == Sampled(old, contact[b])
         IN  /\ t \in Trackers
             /\ t.raw = contact[b] /\ t.stable = old.stable /\ t.long = old.long
             /\ t.press = old.press
             /\ t.since \in {0, old.since + 1} /\ (t.raw = t.stable => t.since = 0)
             /\ t.age = IF old.stable /\ ~old.long THEN old.age + 1 ELSE 0
             /\ t.wait <= old.wait
<1> DEFINE old == tracker[b]
           t == Sampled(old, contact[b])
<1>1. old \in Trackers /\ contact[b] \in BOOLEAN
  BY DEF InputInv, TrackerType, HandType
<1> HIDE DEF old
<1>2. /\ old.raw \in BOOLEAN /\ old.stable \in BOOLEAN /\ old.long \in BOOLEAN
      /\ old.since \in Nat /\ old.age \in Nat /\ old.wait \in Nat /\ old.press \in Nat
  BY <1>1 DEF Trackers
<1> DEFINE since == IF contact[b] # old.raw \/ contact[b] = old.stable THEN 0 ELSE old.since + 1
           age == IF old.stable /\ ~old.long THEN old.age + 1 ELSE 0
           wait == IF old.wait = 0 THEN 0 ELSE old.wait - 1
<1>3. t = [old EXCEPT !.raw = contact[b], !.since = since, !.age = age, !.wait = wait]
  BY DEF Sampled
<1>4. /\ since \in {0, old.since + 1} /\ since \in Nat
      /\ (contact[b] = old.stable => since = 0)
  BY <1>2
<1>5. age \in Nat
  BY <1>2
<1>6. wait \in Nat /\ wait <= old.wait
  BY <1>2
<1> HIDE DEF t, since, age, wait
<1>7. /\ t.raw = contact[b] /\ t.stable = old.stable /\ t.long = old.long /\ t.press = old.press
      /\ t.since = since /\ t.age = age /\ t.wait = wait
  BY <1>1, <1>3 DEF Trackers
<1>8. t \in Trackers
  BY <1>1, <1>3, <1>4, <1>5, <1>6 DEF Trackers
<1>9. t.raw = t.stable => t.since = 0
  BY <1>4, <1>7
<1>10. t.age = IF old.stable /\ ~old.long THEN old.age + 1 ELSE 0
  BY <1>7 DEF age
<1> QED
  BY <1>4, <1>6, <1>7, <1>8, <1>9, <1>10 DEF t, old

LEMMA ReleasedType ==
  /\ Released \in Trackers /\ ~Released.stable /\ ~Released.raw /\ ~Released.long
  /\ Released.since = 0 /\ Released.age = 0 /\ Released.wait = 0 /\ Released.press = 0
BY DEF Released, Trackers

(* A tracker settles on a press or a release, or it stays as it is.        *)
LEMMA UpdatedFacts ==
  ASSUME InputInv, NEW b \in Buttons
  PROVE  LET old == tracker[b]
             t == Sampled(old, contact[b])
             new == Updated(b)
         IN  /\ new \in Trackers /\ new.since < Debounce /\ new.age < LongPress[b]
             /\ new.wait <= LongPress[b] + RepeatDelay + RepeatInterval
             /\ new.press <= closings
             /\ \/ Settles(t) /\ contact[b] /\ ~old.stable /\ new.stable
                   /\ (b = "knob" => new.press = closings)
                \/ Settles(t) /\ ~contact[b] /\ old.stable /\ new = Released
                \/ ~Settles(t) /\ new.stable = old.stable /\ new.raw = contact[b]
                   /\ new.press = old.press /\ new.since = t.since
                   /\ (new.long <=> old.long \/ t.age >= LongPress[b])
<1> DEFINE old == tracker[b]
           t == Sampled(old, contact[b])
           new == Updated(b)
<1>1. /\ old \in Trackers /\ old.since < Debounce /\ old.age < LongPress[b]
      /\ old.wait <= LongPress[b] + RepeatDelay + RepeatInterval
      /\ old.press <= closings /\ contact[b] \in BOOLEAN
      /\ LongPress[b] \in Nat \ {0} /\ closings \in Nat
  BY DEF InputInv, TrackerType, HandType
<1>2. /\ old.since \in Nat /\ old.age \in Nat /\ old.wait \in Nat /\ old.press \in Nat
      /\ old.stable \in BOOLEAN /\ old.long \in BOOLEAN
  BY <1>1 DEF Trackers
<1>3. /\ t \in Trackers
      /\ t.raw = contact[b] /\ t.stable = old.stable /\ t.long = old.long
      /\ t.press = old.press
      /\ t.since \in {0, old.since + 1} /\ (t.raw = t.stable => t.since = 0)
      /\ t.age = IF old.stable /\ ~old.long THEN old.age + 1 ELSE 0
      /\ t.wait <= old.wait
  BY SampledFacts
<1>4. /\ t.since \in Nat /\ t.age \in Nat /\ t.wait \in Nat /\ t.press \in Nat
      /\ t.stable \in BOOLEAN /\ t.long \in BOOLEAN /\ t.raw \in BOOLEAN
  BY <1>3 DEF Trackers
<1>5. new = IF ~Settles(t) THEN Holds(b, t) ELSE IF t.raw THEN Pressed(b, t) ELSE Released
  BY DEF Updated
<1> HIDE DEF t, new, old
<1>6. CASE Settles(t) /\ t.raw
  <2>1. ~t.stable
    BY <1>4, <1>6 DEF Settles
  <2>2. new = [t EXCEPT !.stable = TRUE, !.since = 0, !.press = IF b = "knob" THEN closings ELSE 0,
                        !.wait = IF b \in Repeating THEN LongPress[b] + RepeatDelay ELSE 0]
    BY <1>5, <1>6 DEF Pressed
  <2>3. /\ new.since = 0 /\ new.press = (IF b = "knob" THEN closings ELSE 0)
        /\ new.wait = (IF b \in Repeating THEN LongPress[b] + RepeatDelay ELSE 0)
        /\ new.age = t.age /\ new.stable
    BY <1>3, <2>2 DEF Trackers
  <2>4. new.since \in Nat /\ new.press \in Nat /\ new.wait \in Nat
    BY <1>1, <2>3
  <2>5. new \in Trackers
    BY <1>3, <2>2, <2>3, <2>4 DEF Trackers
  <2>6. new.age < LongPress[b]
    BY <1>1, <1>3, <2>1, <2>3
  <2>7. new.wait <= LongPress[b] + RepeatDelay + RepeatInterval /\ new.press <= closings
    BY <1>1, <2>3
  <2> QED
    BY <1>1, <1>3, <1>6, <2>1, <2>3, <2>5, <2>6, <2>7 DEF t, new, old
<1>7. CASE Settles(t) /\ ~t.raw
  <2>1. new = Released /\ t.stable
    BY <1>4, <1>5, <1>7 DEF Settles
  <2> QED
    BY <1>1, <1>3, <1>7, <2>1, ReleasedType DEF t, new, old
<1>8. CASE ~Settles(t)
  <2>1. new = Holds(b, t) /\ t.since < Debounce
    BY <1>1, <1>2, <1>3, <1>4, <1>5, <1>8 DEF Settles
  <2>2. /\ new \in Trackers /\ new.stable = t.stable /\ new.raw = t.raw /\ new.press = t.press
        /\ new.since = t.since /\ new.age < LongPress[b]
        /\ new.wait <= LongPress[b] + RepeatDelay + RepeatInterval
        /\ (new.long <=> t.long \/ t.age >= LongPress[b])
    <3>1. CASE t.age >= LongPress[b]
      <4>1. ~t.long
        BY <1>1, <1>3, <3>1
      <4>2. new = [t EXCEPT !.long = TRUE, !.age = 0]
        BY <2>1, <3>1, <4>1 DEF Holds
      <4>3. /\ new \in Trackers /\ new.long /\ new.age = 0 /\ new.since = t.since
            /\ new.wait = t.wait /\ new.press = t.press /\ new.stable = t.stable /\ new.raw = t.raw
        BY <1>3, <4>2 DEF Trackers
      <4>4. new.age < LongPress[b] /\ new.wait <= LongPress[b] + RepeatDelay + RepeatInterval
        BY <1>1, <1>2, <1>3, <1>4, <4>3
      <4> QED
        BY <3>1, <4>3, <4>4
    <3>2. CASE ~ (t.age >= LongPress[b]) /\ new = [t EXCEPT !.wait = RepeatInterval]
      <4>1. /\ new \in Trackers /\ new.long = t.long /\ new.age = t.age /\ new.since = t.since
            /\ new.wait = RepeatInterval
            /\ new.press = t.press /\ new.stable = t.stable /\ new.raw = t.raw
        BY <1>3, <3>2 DEF Trackers
      <4>2. new.age < LongPress[b]
        <5>1. t.age >= LongPress[b] \/ t.age < LongPress[b]
          BY <1>1, <1>4
        <5> QED
          BY <3>2, <4>1, <5>1
      <4>3. RepeatInterval <= LongPress[b] + RepeatDelay + RepeatInterval
        BY <1>1
      <4> QED
        BY <3>2, <4>1, <4>2, <4>3
    <3>3. CASE ~ (t.age >= LongPress[b]) /\ new = t
      <4>1. new.age < LongPress[b] /\ new.wait <= LongPress[b] + RepeatDelay + RepeatInterval
        BY <1>1, <1>2, <1>3, <1>4, <3>3
      <4> QED
        BY <1>3, <3>3, <4>1
    <3> QED
      BY <2>1, <3>1, <3>2, <3>3 DEF Holds
  <2>3. new.since < Debounce /\ new.press <= closings
    BY <1>1, <1>3, <2>1, <2>2
  <2> QED
    BY <1>3, <1>8, <2>2, <2>3 DEF t, new, old
<1> QED
  BY <1>4, <1>6, <1>7, <1>8

----------------------------------------------------------------------------
(* What a poll publishes.                                                  *)

(* A gesture is signalled by a button that is down and has not been long.  *)
LEMMA SignalFacts ==
  ASSUME InputInv, NEW b \in Buttons, Signal(b) # "none"
  PROVE  LET t == Sampled(tracker[b], contact[b])
         IN  /\ Signal(b) \in {"short", "long", "repeat"}
             /\ \/ Settles(t) /\ ~t.raw /\ ~tracker[b].long
                \/ ~Settles(t) /\ t.age >= LongPress[b] /\ tracker[b].stable /\ ~tracker[b].long
                \/ b \in Repeating
<1> DEFINE old == tracker[b]
           t == Sampled(old, contact[b])
<1>1. /\ t.long = old.long
      /\ t.age = IF old.stable /\ ~old.long THEN old.age + 1 ELSE 0
      /\ LongPress[b] \in Nat \ {0}
  BY SampledFacts
<1>2. t.age >= LongPress[b] => old.stable /\ ~old.long
  BY <1>1
<1>3. Signal(b) = IF Settles(t) THEN IF t.raw \/ t.long THEN "none" ELSE "short"
                  ELSE IF t.age >= LongPress[b] THEN "long"
                  ELSE IF t.long /\ b \in Repeating /\ t.wait = 0 THEN "repeat" ELSE "none"
  BY DEF Signal
<1> HIDE DEF t, old
<1> QED
  BY <1>1, <1>2, <1>3 DEF t, old

LEMMA SentFacts ==
  ASSUME InputInv, NEW b \in Buttons
  PROVE  \/ Sent(b) = <<>>
         \/ /\ Signal(b) # "none"
            /\ [control |-> b, gesture |-> Signal(b), press |-> tracker[b].press] \in Gestures
            /\ Sent(b) = <<[control |-> b, gesture |-> Signal(b), press |-> tracker[b].press]>>
<1>1. tracker[b].press \in Nat
  BY DEF InputInv, TrackerType, Trackers
<1>2. CASE Signal(b) = "none"
  BY <1>2 DEF Sent
<1>3. CASE Signal(b) # "none"
  <2>1. Signal(b) \in {"short", "long", "repeat"}
    BY <1>3, SignalFacts
  <2> QED
    BY <1>1, <1>3, <2>1 DEF Sent, Gestures
<1> QED
  BY <1>2, <1>3

(* Only the first gesture of a poll can be the knob's.                     *)
KnobFirst(s) ==
  \A i \in 1 .. Len(s) :
    s[i].control = "knob" => i = 1 /\ Signal("knob") # "none" /\ s[i].press = tracker["knob"].press

LEMMA Follows ==
  ASSUME NEW S, NEW s \in Seq(S), NEW t \in Seq(S)
  PROVE  /\ s \o t \in Seq(S) /\ Len(s \o t) = Len(s) + Len(t)
         /\ Len(s) \in Nat /\ Len(t) \in Nat
         /\ \A i \in 1 .. Len(s \o t) :
              \/ i \in 1 .. Len(s) /\ (s \o t)[i] = s[i]
              \/ i > Len(s) /\ i - Len(s) \in 1 .. Len(t) /\ (s \o t)[i] = t[i - Len(s)]
BY ConcatProperties, LenProperties

LEMMA OtherButtonFollows ==
  ASSUME InputInv, NEW s \in Seq(Gestures), KnobFirst(s), NEW b \in Buttons \ {"knob"}
  PROVE  s \o Sent(b) \in Seq(Gestures) /\ KnobFirst(s \o Sent(b))
<1>1. CASE Sent(b) = <<>>
  BY <1>1
<1>2. CASE Sent(b) # <<>>
  <2> DEFINE g == [control |-> b, gesture |-> Signal(b), press |-> tracker[b].press]
             longer == s \o Sent(b)
  <2>1. g \in Gestures /\ Sent(b) = <<g>> /\ g.control # "knob"
    BY <1>2, SentFacts
  <2> HIDE DEF g
  <2>2. Sent(b) \in Seq(Gestures) /\ Len(Sent(b)) = 1 /\ Sent(b)[1] = g
    BY <2>1
  <2>3. /\ longer \in Seq(Gestures)
        /\ Len(s) \in Nat
        /\ \A i \in 1 .. Len(longer) :
             \/ i \in 1 .. Len(s) /\ longer[i] = s[i]
             \/ i > Len(s) /\ i - Len(s) \in 1 .. 1 /\ longer[i] = Sent(b)[i - Len(s)]
    BY <2>2, Follows
  <2> HIDE DEF longer
  <2>4. \A i \in 1 .. Len(longer) : (i \in 1 .. Len(s) /\ longer[i] = s[i]) \/ longer[i] = g
    BY <2>2, <2>3
  <2>5. KnobFirst(longer)
    BY <2>1, <2>4 DEF KnobFirst
  <2> QED
    BY <2>3, <2>5 DEF longer
<1> QED
  BY <1>1, <1>2

LEMMA SignalsFacts == ASSUME InputInv PROVE Signals \in Seq(Gestures) /\ KnobFirst(Signals)
<1>1. Sent("knob") \in Seq(Gestures) /\ KnobFirst(Sent("knob"))
  <2>1. "knob" \in Buttons
    BY DEF Buttons
  <2>2. CASE Sent("knob") = <<>>
    <3>1. Len(<<>>) = 0 /\ <<>> \in Seq(Gestures)
      OBVIOUS
    <3>2. 1 .. 0 = {}
      OBVIOUS
    <3>3. KnobFirst(<<>>)
      BY <3>1, <3>2 DEF KnobFirst
    <3> QED
      BY <2>2, <3>1, <3>3
  <2>3. CASE Sent("knob") # <<>>
    <3> DEFINE g == [control |-> "knob", gesture |-> Signal("knob"), press |-> tracker["knob"].press]
    <3>1. /\ g \in Gestures /\ Sent("knob") = <<g>> /\ g.press = tracker["knob"].press
          /\ Signal("knob") # "none"
      BY <2>1, <2>3, SentFacts
    <3> HIDE DEF g
    <3>2. Len(<<g>>) = 1 /\ <<g>>[1] = g /\ <<g>> \in Seq(Gestures)
      BY <3>1
    <3>3. \A i \in 1 .. Len(<<g>>) : i = 1 /\ <<g>>[i] = g
      BY <3>2
    <3> QED
      BY <3>1, <3>2, <3>3 DEF KnobFirst
  <2> QED
    BY <2>2, <2>3
<1>2. {"left", "right", "menu"} \subseteq Buttons \ {"knob"}
  BY DEF Buttons
<1> DEFINE two == Sent("knob") \o Sent("left")
           three == two \o Sent("right")
<1>3. two \in Seq(Gestures) /\ KnobFirst(two)
  BY <1>1, <1>2, OtherButtonFollows
<1> HIDE DEF two
<1>4. three \in Seq(Gestures) /\ KnobFirst(three)
  BY <1>2, <1>3, OtherButtonFollows
<1> HIDE DEF three
<1>5. three \o Sent("menu") \in Seq(Gestures) /\ KnobFirst(three \o Sent("menu"))
  BY <1>2, <1>4, OtherButtonFollows
<1> QED
  BY <1>5 DEF Signals, three, two

(* What does not fit into the queue is lost, the rest comes after what is  *)
(* there.                                                                  *)
LEMMA PublishedFacts ==
  ASSUME InputInv, NEW new \in Seq(Gestures)
  PROVE  /\ Published(new) \in Seq(Gestures) /\ Len(Published(new)) <= InputRoom
         /\ \A i \in 1 .. Len(Published(new)) :
              \/ i \in 1 .. Len(events) /\ Published(new)[i] = events[i]
              \/ /\ i > Len(events) /\ i - Len(events) \in 1 .. Len(new)
                 /\ Published(new)[i] = new[i - Len(events)]
<1> DEFINE all == events \o new
           n == Lowest(Len(all), InputRoom)
           cut == SubSeq(all, 1, n)
<1>1. events \in Seq(Gestures)
  BY DEF InputInv, LoopType
<1>2. /\ all \in Seq(Gestures) /\ Len(all) = Len(events) + Len(new)
      /\ Len(events) \in Nat /\ Len(new) \in Nat
      /\ \A i \in 1 .. Len(all) :
           \/ i \in 1 .. Len(events) /\ all[i] = events[i]
           \/ i > Len(events) /\ i - Len(events) \in 1 .. Len(new) /\ all[i] = new[i - Len(events)]
  BY <1>1, Follows
<1> HIDE DEF all
<1>3. n \in 0 .. Len(all) /\ n <= InputRoom
  BY <1>2 DEF Lowest
<1> HIDE DEF n
<1>4. cut \in Seq(Gestures) /\ Len(cut) = n /\ \A i \in 1 .. n : cut[i] = all[i]
  BY <1>2, <1>3, SubSeqProperties
<1> HIDE DEF cut
<1>5. \A i \in 1 .. Len(cut) : i \in 1 .. Len(all) /\ cut[i] = all[i]
  BY <1>2, <1>3, <1>4
<1>6. Published(new) = cut
  BY DEF Published, cut, n, all
<1> QED
  BY <1>2, <1>3, <1>4, <1>5, <1>6

----------------------------------------------------------------------------
(* What a gesture makes of the panel.                                      *)

LEMMA DisarmedFacts ==
  ASSUME NEW p \in Panels
  PROVE  /\ Disarmed(p) \in Panels
         /\ Disarmed(p).armedBy = Nobody /\ Disarmed(p).confirmedBy = p.confirmedBy
         /\ Disarmed(p).item = p.item /\ Disarmed(p).screen = p.screen
<1>1. Nobody \in Persons
  BY DEF Persons
<1> QED
  BY <1>1 DEF Disarmed, Panels

LEMMA ConfirmationFacts ==
  ASSUME NEW p \in Panels, NEW e \in Gestures, e.control \in Buttons
  PROVE  /\ Confirmation(p, e) \in Panels
         /\ Confirmation(p, e).armedBy = <<e.control, e.press>>
         /\ Confirmation(p, e).confirmedBy = p.confirmedBy
<1>1. <<e.control, e.press>> \in Persons
  BY DEF Persons, Gestures
<1> QED
  BY <1>1 DEF Confirmation, Panels

(* The confirmation is asked for by the gesture, or taken back, or stays;  *)
(* only a gesture of the knob gives it.                                    *)
PanelStep(p, e, q) ==
  /\ q \in Panels
  /\ \/ q.armedBy \in {p.armedBy, Nobody} /\ q.confirmedBy = p.confirmedBy
     \/ q.armedBy = <<e.control, e.press>> /\ q.confirmedBy = p.confirmedBy
     \/ e.control = "knob" /\ q.armedBy = p.armedBy /\ q.confirmedBy = <<e.control, e.press>>

LEMMA ScreenEffect ==
  ASSUME NEW p \in Panels, NEW e \in Gestures
  PROVE  PanelStep(p, e, NextScreen(p)) /\ PanelStep(p, e, ToggleActions(p)) /\ PanelStep(p, e, p)
<1> DEFINE d == Disarmed(p)
<1>1. d \in Panels /\ d.armedBy = Nobody /\ d.confirmedBy = p.confirmedBy
  BY DisarmedFacts
<1>2. PICK s \in Screens : NextScreen(p) = [d EXCEPT !.screen = s]
  BY DEF NextScreen, Screens
<1> HIDE DEF d
<1>3. /\ NextScreen(p) \in Panels /\ NextScreen(p).armedBy = Nobody
      /\ NextScreen(p).confirmedBy = p.confirmedBy
  BY <1>1, <1>2 DEF Panels
<1>4. /\ ToggleActions(p) \in Panels /\ ToggleActions(p).armedBy = p.armedBy
      /\ ToggleActions(p).confirmedBy = p.confirmedBy
  <2>1. "actions" \in Screens /\ p.before \in Screens /\ p.screen \in Screens
    BY DEF Screens, Panels
  <2>2. CASE p.screen = "actions"
    BY <2>1, <2>2 DEF ToggleActions, Panels
  <2>3. CASE p.screen # "actions"
    BY <2>1, <2>3 DEF ToggleActions, Panels
  <2> QED
    BY <2>2, <2>3
<1> QED
  BY <1>3, <1>4 DEF PanelStep

LEMMA ResetEffect ==
  ASSUME NEW p \in Panels, NEW e \in Gestures, e.control = "knob", NEW refuses \in BOOLEAN
  PROVE  PanelStep(p, e, RequestFactoryReset(p, e, refuses))
<1>0. e.control \in Buttons
  BY DEF Buttons
<1>1. CASE ~p.armed
  BY <1>0, <1>1, ConfirmationFacts DEF RequestFactoryReset, PanelStep
<1>2. CASE p.armed /\ refuses
  BY <1>2, DisarmedFacts DEF RequestFactoryReset, PanelStep
<1>3. CASE p.armed /\ ~refuses
  <2>1. <<e.control, e.press>> \in Persons
    BY <1>0 DEF Persons, Gestures
  <2>2. RequestFactoryReset(p, e, refuses) = [p EXCEPT !.confirmedBy = <<e.control, e.press>>]
    BY <1>3 DEF RequestFactoryReset
  <2> DEFINE q == [p EXCEPT !.confirmedBy = <<e.control, e.press>>]
  <2>3. q \in Panels /\ q.armedBy = p.armedBy /\ q.confirmedBy = <<e.control, e.press>>
    BY <2>1 DEF Panels
  <2> QED
    BY <2>2, <2>3 DEF PanelStep
<1> QED
  BY <1>1, <1>2, <1>3 DEF Panels

LEMMA SettingEffect ==
  ASSUME NEW p \in Panels, NEW e \in Gestures, e.control \in Buttons
  PROVE  PanelStep(p, e, ChangeSetting(p, e))
BY ConfirmationFacts, DisarmedFacts DEF ChangeSetting, PanelStep

LEMMA HandleEffect ==
  ASSUME NEW p \in Panels, NEW e \in Gestures, NEW refuses \in BOOLEAN
  PROVE  PanelStep(p, e, Handle(p, e, refuses))
<1> DEFINE turned == [Disarmed(p) EXCEPT !.item = (@ + 1) % Items]
<1>1. PanelStep(p, e, turned)
  <2>1. (p.item + 1) % Items \in 0 .. Items - 1
    BY InputAssumption DEF Panels
  <2> QED
    BY <2>1, DisarmedFacts DEF Panels, PanelStep
<1> HIDE DEF turned
<1>2. PanelStep(p, e, SettingsInput(p, e, refuses))
  <2>1. CASE e.control = "turn"
    BY <1>1, <2>1 DEF SettingsInput, turned
  <2>2. CASE e.control = "knob" /\ e.gesture = "long"
    BY <2>2, ResetEffect DEF SettingsInput
  <2>3. CASE e.control = "knob" /\ e.gesture = "short"
    BY <2>3, SettingEffect DEF SettingsInput, Buttons
  <2>4. CASE e.control \in {"left", "right"} /\ e.gesture # "long"
    BY <2>4, SettingEffect DEF SettingsInput, Buttons
  <2>5. CASE /\ e.control # "turn" /\ ~ (e.control = "knob" /\ e.gesture \in {"long", "short"})
             /\ ~ (e.control \in {"left", "right"} /\ e.gesture # "long")
    BY <2>5, ScreenEffect DEF SettingsInput
  <2> QED
    BY <2>1, <2>2, <2>3, <2>4, <2>5
<1>3. CASE e.control = "menu" /\ e.gesture = "short"
  BY <1>3, ScreenEffect DEF Handle
<1>4. CASE e.control = "menu" /\ e.gesture = "long"
  BY <1>4, ScreenEffect DEF Handle
<1>5. CASE e.control # "menu" /\ p.screen = "settings"
  BY <1>2, <1>5 DEF Handle
<1>6. CASE /\ ~ (e.control = "menu" /\ e.gesture \in {"short", "long"})
           /\ ~ (e.control # "menu" /\ p.screen = "settings")
  BY <1>6, ScreenEffect DEF Handle
<1> QED
  BY <1>3, <1>4, <1>5, <1>6

LEMMA FirstPanelFacts ==
  ASSUME hands \in Hands
  PROVE  FirstPanel \in Panels /\ FirstPanel.armedBy = Nobody /\ FirstPanel.confirmedBy = Nobody
<1>1. hands.screen \in Screens /\ "playing" \in Screens
  BY InputAssumption DEF Screens
<1>2. 0 \in 0 .. Items - 1
  BY InputAssumption
<1>3. Nobody \in Persons
  BY DEF Persons
<1> QED
  BY <1>1, <1>2, <1>3 DEF FirstPanel, Panels

----------------------------------------------------------------------------
(* Types of the buttons, the queue and the panel.                          *)

LEMMA InputInitInv == ASSUME InputInit PROVE InputInv
<1>1. hands \in Hands /\ hands.closings \in Nat
  BY InputAssumption DEF InputInit
<1>2. HandType
  <2>1. 0 \in 0 .. hands.closings
    BY <1>1
  <2> QED
    BY <1>1, <2>1 DEF InputInit, HandType
<1>3. TrackerType
  <2> SUFFICES ASSUME NEW b \in Buttons
               PROVE  /\ tracker[b] = Released /\ 0 < Debounce /\ 0 < LongPress[b]
                      /\ 0 <= LongPress[b] + RepeatDelay + RepeatInterval /\ 0 <= closings
    BY ReleasedType DEF InputInit, TrackerType
  <2> QED
    BY InputAssumption DEF InputInit
<1>4. LoopType
  <2>1. panel \in Panels
    BY <1>1, FirstPanelFacts DEF InputInit
  <2>2. events \in Seq(Gestures) /\ Len(<<>>) = 0
    BY DEF InputInit
  <2>3. 0 <= InputRoom /\ 0 \in 0 .. PassEvents
    BY InputAssumption
  <2> QED
    BY <2>1, <2>2, <2>3 DEF InputInit, LoopType
<1>5. ClockType
  <2>1. Off \in 0 .. Off /\ 0 \in 0 .. ResetHold /\ 0 \in 0 .. Debounce + 1
    BY InputAssumption DEF Off
  <2> QED
    BY <2>1 DEF InputInit, ClockType
<1> QED
  BY <1>2, <1>3, <1>4, <1>5 DEF InputInv

LEMMA InputStep == InputInv /\ [InputNext]_inputVars => InputInv'
<1> SUFFICES ASSUME InputInv, [InputNext]_inputVars PROVE InputInv'
  OBVIOUS
<1>0. /\ hands \in Hands /\ hands.closings \in Nat /\ contact \in [Buttons -> BOOLEAN]
      /\ closings \in 0 .. hands.closings
  BY InputAssumption DEF InputInv, HandType
<1>1. ASSUME NEW b \in Buttons, Contact(b) PROVE InputInv'
  <2>1. contact' \in [Buttons -> BOOLEAN]
    BY <1>0, <1>1 DEF Contact
  <2>2. closings' \in 0 .. hands.closings /\ closings <= closings'
    BY <1>0, <1>1 DEF Contact
  <2>3. HandType'
    BY <1>0, <1>1, <2>1, <2>2 DEF HandType, Contact
  <2>4. TrackerType'
    <3>1. tracker' = tracker
      BY <1>1 DEF Contact
    <3>2. \A c \in Buttons : tracker[c].press \in Nat
      BY DEF InputInv, TrackerType, Trackers
    <3>3. closings \in Nat /\ closings' \in Nat
      BY <1>0, <2>2
    <3>4. \A c \in Buttons : tracker[c].press <= closings'
      BY <2>2, <3>2, <3>3 DEF InputInv, TrackerType
    <3> QED
      BY <3>1, <3>4 DEF InputInv, TrackerType
  <2> QED
    BY <1>1, <2>3, <2>4 DEF InputInv, LoopType, ClockType, Contact
<1>2. CASE Turn
  <2> DEFINE g == [control |-> "turn", gesture |-> "rotate", press |-> 0]
  <2>1. g \in Gestures
    BY DEF Gestures
  <2>2. <<g>> \in Seq(Gestures)
    BY <2>1
  <2>3. events' = Published(<<g>>)
    BY <1>2 DEF Turn
  <2> HIDE DEF g
  <2>4. events' \in Seq(Gestures) /\ Len(events') <= InputRoom
    BY <2>2, <2>3, PublishedFacts
  <2> QED
    BY <1>2, <2>4 DEF InputInv, HandType, TrackerType, LoopType, ClockType, Turn
<1>3. CASE PollButtons
  <2>1. HandType'
    BY <1>3 DEF InputInv, HandType, PollButtons
  <2>2. TrackerType'
    BY <1>3, UpdatedFacts DEF TrackerType, PollButtons
  <2>3. LoopType'
    <3>1. events' \in Seq(Gestures) /\ Len(events') <= InputRoom
      BY <1>3, PublishedFacts, SignalsFacts DEF PollButtons
    <3> QED
      BY <1>3, <3>1 DEF InputInv, LoopType, PollButtons
  <2>4. ClockType'
    <3>1. countdown \in 0 .. Off /\ held \in 0 .. ResetHold /\ pass \in 0 .. Debounce + 1
      BY DEF InputInv, ClockType
    <3>2. countdown' \in 0 .. Off
      BY <1>3, <3>1, InputAssumption DEF PollButtons, Off, Lowest
    <3>3. held' \in 0 .. ResetHold
      <4>1. Lowest(held + 1, ResetHold) \in 0 .. ResetHold /\ 0 \in 0 .. ResetHold
        BY <3>1, InputAssumption DEF Lowest
      <4> QED
        BY <1>3, <4>1 DEF PollButtons
    <3>4. pass' \in 0 .. Debounce + 1
      BY <1>3, <3>1, InputAssumption DEF PollButtons, Lowest
    <3> QED
      BY <1>3, <3>2, <3>3, <3>4 DEF InputInv, ClockType, PollButtons
  <2> QED
    BY <2>1, <2>2, <2>3, <2>4 DEF InputInv
<1>4. CASE ChordPass
  <2>1. events' \in Seq(Gestures) /\ Len(events') <= InputRoom /\ turn' \in 0 .. PassEvents
    <3>1. Len(<<>>) = 0 /\ <<>> \in Seq(Gestures)
      OBVIOUS
    <3>2. 0 <= InputRoom /\ 0 \in 0 .. PassEvents
      BY InputAssumption
    <3> QED
      BY <1>4, <3>1, <3>2 DEF ChordPass
  <2>2. panel' \in Panels /\ reset' \in {"no", "chord", "settings"}
    BY <1>4, DisarmedFacts DEF ChordPass, InputInv, LoopType
  <2>3. countdown' \in 0 .. Off /\ pass' \in 0 .. Debounce + 1
    <3>1. 0 \in 0 .. Off /\ Off \in 0 .. Off /\ 0 \in 0 .. Debounce + 1 /\ countdown \in 0 .. Off
      BY InputAssumption DEF Off, InputInv, ClockType
    <3> QED
      BY <1>4, <3>1 DEF ChordPass
  <2>4. late' \in BOOLEAN
    BY <1>4 DEF ChordPass
  <2> QED
    BY <1>4, <2>1, <2>2, <2>3, <2>4
    DEF ChordPass, InputInv, HandType, TrackerType, LoopType, ClockType
<1>5. CASE InputPass
  <2>1. turn' \in 0 .. PassEvents
    BY <1>5, InputAssumption DEF InputPass
  <2>2. countdown' \in 0 .. Off /\ pass' \in 0 .. Debounce + 1
    BY <1>5, InputAssumption DEF InputPass, Off
  <2> QED
    BY <1>5, <2>1, <2>2
    DEF InputPass, InputInv, HandType, TrackerType, LoopType, ClockType
<1>6. CASE HandleInput
  <2>1. events \in Seq(Gestures) /\ events # <<>> /\ turn \in 0 .. PassEvents
    BY <1>6 DEF HandleInput, InputInv, LoopType
  <2>2. /\ events' \in Seq(Gestures) /\ Len(events') = Len(events) - 1
        /\ Head(events) \in Gestures
    BY <1>6, <2>1, HeadTailProperties DEF HandleInput
  <2>3. Len(events') <= InputRoom
    BY <2>1, <2>2, LenProperties, InputAssumption DEF InputInv, LoopType
  <2>4. turn' \in 0 .. PassEvents
    BY <1>6, <2>1, InputAssumption DEF HandleInput
  <2>5. PICK refuses \in BOOLEAN : panel' = Handle(panel, Head(events), refuses)
    BY <1>6 DEF HandleInput
  <2>6. panel' \in Panels
    BY <2>2, <2>5, HandleEffect DEF PanelStep, InputInv, LoopType
  <2> QED
    BY <1>6, <2>2, <2>3, <2>4, <2>6
    DEF HandleInput, InputInv, HandType, TrackerType, LoopType, ClockType
<1>7. CASE Restart
  <2>1. hands' \in Hands /\ hands' = hands
    BY <1>0, <1>7 DEF Restart
  <2>2. FirstPanel \in Panels
    BY <1>0, FirstPanelFacts
  <2>3. HandType'
    <3>1. 0 \in 0 .. hands.closings
      BY <1>0
    <3> QED
      BY <1>7, <2>1, <3>1 DEF Restart, HandType
  <2>4. TrackerType'
    <3> SUFFICES ASSUME NEW b \in Buttons
                 PROVE  /\ tracker'[b] = Released /\ 0 < Debounce /\ 0 < LongPress[b]
                        /\ 0 <= LongPress[b] + RepeatDelay + RepeatInterval /\ 0 <= closings'
      BY <1>7, ReleasedType DEF Restart, TrackerType
    <3> QED
      BY <1>7, InputAssumption DEF Restart
  <2>5. LoopType'
    <3>1. events' \in Seq(Gestures) /\ Len(<<>>) = 0
      BY <1>7 DEF Restart
    <3>2. 0 <= InputRoom /\ 0 \in 0 .. PassEvents
      BY InputAssumption
    <3> QED
      BY <1>7, <2>2, <3>1, <3>2 DEF Restart, LoopType
  <2>6. ClockType'
    <3>1. Off \in 0 .. Off /\ 0 \in 0 .. ResetHold /\ 0 \in 0 .. Debounce + 1
      BY InputAssumption DEF Off
    <3> QED
      BY <1>7, <3>1 DEF Restart, ClockType
  <2> QED
    BY <2>3, <2>4, <2>5, <2>6 DEF InputInv
<1>8. CASE UNCHANGED inputVars
  BY <1>8 DEF inputVars, InputInv, HandType, TrackerType, LoopType, ClockType
<1> QED
  BY <1>1, <1>2, <1>3, <1>4, <1>5, <1>6, <1>7, <1>8 DEF InputNext

LEMMA InputAlways == InputSpec => []InputInv
BY InputInitInv, InputStep, PTL DEF InputSpec

----------------------------------------------------------------------------
(* A press of the knob is spent with its gesture.                          *)

LEMMA KnobFacts ==
  ASSUME InputInv
  PROVE  LET t == tracker["knob"]
         IN  /\ t \in Trackers /\ t.press \in Nat /\ t.stable \in BOOLEAN /\ t.long \in BOOLEAN
             /\ t.raw \in BOOLEAN
             /\ contact["knob"] \in BOOLEAN /\ closings \in Nat /\ t.press <= closings
             /\ "knob" \in Buttons
<1>1. "knob" \in Buttons
  BY DEF Buttons
<1>2. hands.closings \in Nat
  BY InputAssumption DEF InputInv, HandType
<1> QED
  BY <1>1, <1>2 DEF InputInv, HandType, TrackerType, Trackers

LEMMA ContactSpends ==
  ASSUME InputInv, NEW b \in Buttons, Contact(b)
  PROVE  SpentPresses \subseteq SpentPresses'
<1> DEFINE t == tracker["knob"]
           closed == contact["knob"]
<1>1. /\ t.press \in Nat /\ t.stable \in BOOLEAN /\ t.long \in BOOLEAN /\ t.raw \in BOOLEAN
      /\ closed \in BOOLEAN /\ closings \in Nat
  BY KnobFacts
<1>2. tracker' = tracker
  BY DEF Contact
<1>3. contact \in [Buttons -> BOOLEAN] /\ "knob" \in Buttons
  BY KnobFacts DEF InputInv, HandType
<1>4. \/ b = "knob" /\ closed /\ ~closed' /\ closings' = closings
      \/ b = "knob" /\ ~closed /\ closed' /\ closings' = closings + 1
      \/ b # "knob" /\ closed' = closed /\ closings' \in {closings, closings + 1}
  <2>1. CASE b = "knob"
    BY <1>1, <1>3, <2>1 DEF Contact
  <2>2. CASE b # "knob"
    BY <1>1, <1>3, <2>2 DEF Contact
  <2> QED
    BY <2>1, <2>2
<1>5. SpentPresses = {n \in Nat : IF t.stable THEN n < t.press \/ (t.long /\ n = t.press)
                                  ELSE n <= closings /\ (t.raw \/ closed => n < closings)}
  BY DEF SpentPresses
<1>6. SpentPresses' = {n \in Nat : IF t.stable THEN n < t.press \/ (t.long /\ n = t.press)
                                   ELSE n <= closings' /\ (t.raw \/ closed' => n < closings')}
  BY <1>2 DEF SpentPresses
<1> HIDE DEF t, closed
<1>7. ASSUME NEW n \in SpentPresses PROVE n \in SpentPresses'
  <2>1. n \in Nat
    BY <1>5
  <2>2. CASE t.stable
    BY <1>5, <1>6, <2>2
  <2>3. CASE ~t.stable
    <3>1. n <= closings /\ (t.raw \/ closed => n < closings)
      BY <1>5, <2>3
    <3>2. n <= closings' /\ (t.raw \/ closed' => n < closings')
      BY <1>1, <1>4, <2>1, <3>1
    <3> QED
      BY <1>6, <2>1, <2>3, <3>2
  <2> QED
    BY <1>1, <2>2, <2>3
<1> QED
  BY <1>7

LEMMA PollSpends ==
  ASSUME InputInv, PollButtons
  PROVE  /\ SpentPresses \subseteq SpentPresses'
         /\ Signal("knob") # "none" =>
              /\ tracker["knob"].press \in SpentPresses'
              /\ \A n \in SpentPresses : n < tracker["knob"].press
<1> DEFINE t == tracker["knob"]
           s == Sampled(t, contact["knob"])
           new == Updated("knob")
           closed == contact["knob"]
<1>1. /\ t.press \in Nat /\ t.stable \in BOOLEAN /\ t.long \in BOOLEAN /\ t.raw \in BOOLEAN
      /\ closed \in BOOLEAN /\ closings \in Nat /\ t.press <= closings
  BY KnobFacts
<1>2. "knob" \in Buttons /\ tracker'["knob"] = new /\ contact' = contact /\ closings' = closings
  BY KnobFacts DEF PollButtons
<1>3. \/ Settles(s) /\ closed /\ ~t.stable /\ new.stable /\ new.press = closings
      \/ Settles(s) /\ ~closed /\ t.stable /\ new = Released
      \/ /\ ~Settles(s) /\ new.stable = t.stable /\ new.raw = closed /\ new.press = t.press
         /\ (new.long <=> t.long \/ s.age >= LongPress["knob"])
  BY <1>2, UpdatedFacts
<1>4. new \in Trackers
  BY <1>2, UpdatedFacts
<1>5. new.stable \in BOOLEAN /\ new.long \in BOOLEAN /\ new.raw \in BOOLEAN /\ new.press \in Nat
  BY <1>4 DEF Trackers
<1>6. Signal("knob") # "none" =>
        \/ Settles(s) /\ ~s.raw /\ ~t.long
        \/ ~Settles(s) /\ s.age >= LongPress["knob"] /\ t.stable /\ ~t.long
  <2>1. "knob" \notin Repeating
    BY DEF Repeating
  <2> QED
    BY <1>2, <2>1, SignalFacts
<1>7. s.raw = closed
  BY <1>2, SampledFacts
<1>8. SpentPresses = {n \in Nat : IF t.stable THEN n < t.press \/ (t.long /\ n = t.press)
                                  ELSE n <= closings /\ (t.raw \/ closed => n < closings)}
  BY DEF SpentPresses
<1>9. SpentPresses' = {n \in Nat : IF new.stable THEN n < new.press \/ (new.long /\ n = new.press)
                                   ELSE n <= closings /\ (new.raw \/ closed => n < closings)}
  BY <1>2 DEF SpentPresses
<1>10. ~Released.stable /\ ~Released.raw
  BY ReleasedType
<1> DEFINE settles == Settles(s)
           aged == s.age >= LongPress["knob"]
<1>11. /\ \/ settles /\ closed /\ ~t.stable /\ new.stable /\ new.press = closings
          \/ settles /\ ~closed /\ t.stable /\ new = Released
          \/ /\ ~settles /\ new.stable = t.stable /\ new.raw = closed /\ new.press = t.press
             /\ (new.long <=> t.long \/ aged)
       /\ Signal("knob") # "none" =>
            (settles /\ ~closed /\ ~t.long) \/ (~settles /\ aged /\ t.stable /\ ~t.long)
  BY <1>3, <1>6, <1>7
<1> HIDE DEF t, s, new, closed, settles, aged
<1>12. ASSUME NEW n \in SpentPresses PROVE n \in SpentPresses'
  <2>1. n \in Nat
    BY <1>8
  <2>2. CASE settles /\ closed /\ ~t.stable /\ new.stable /\ new.press = closings
    BY <1>8, <1>9, <2>1, <2>2
  <2>3. CASE settles /\ ~closed /\ t.stable /\ new = Released
    <3>1. n <= t.press
      BY <1>1, <1>8, <2>1, <2>3
    <3>2. n <= closings
      BY <1>1, <2>1, <3>1
    <3> QED
      BY <1>9, <1>10, <2>1, <2>3, <3>2
  <2>4. CASE /\ ~settles /\ new.stable = t.stable /\ new.raw = closed /\ new.press = t.press
             /\ (new.long <=> t.long \/ aged)
    <3>1. CASE t.stable
      BY <1>8, <1>9, <2>1, <2>4, <3>1
    <3>2. CASE ~t.stable
      BY <1>8, <1>9, <2>1, <2>4, <3>2
    <3> QED
      BY <1>1, <3>1, <3>2
  <2> QED
    BY <1>11, <2>2, <2>3, <2>4
<1>13. ASSUME Signal("knob") # "none"
       PROVE  t.press \in SpentPresses' /\ \A n \in SpentPresses : n < t.press
  <2>1. t.stable /\ ~t.long
    BY <1>1, <1>11, <1>13
  <2>2. \A n \in SpentPresses : n < t.press
    BY <1>8, <2>1
  <2>3. t.press \in SpentPresses'
    <3>1. CASE settles
      <4>1. new = Released /\ ~closed
        BY <1>11, <2>1, <3>1
      <4> QED
        BY <1>1, <1>9, <1>10, <4>1
    <3>2. CASE ~settles
      <4>1. new.stable /\ new.long /\ new.press = t.press
        BY <1>11, <1>13, <2>1, <3>2
      <4> QED
        BY <1>1, <1>9, <4>1
    <3> QED
      BY <3>1, <3>2
  <2> QED
    BY <2>2, <2>3
<1> QED
  BY <1>12, <1>13 DEF t

(* What is published after the gestures of spent presses is in order.      *)
LEMMA PublishedOnce ==
  ASSUME InputInv, QueueOnce, ArmedOnce, NEW new \in Seq(Gestures), NEW k \in Nat,
         events' = Published(new), panel' = panel,
         SpentPresses \subseteq SpentPresses',
         \A i \in 1 .. Len(new) :
           new[i].control = "knob" =>
             i = 1 /\ new[i].press = k /\ k \in SpentPresses' /\ \A n \in SpentPresses : n < k
  PROVE  QueueOnce' /\ ArmedOnce'
<1>1. /\ events' \in Seq(Gestures) /\ events \in Seq(Gestures) /\ Len(events) \in Nat
      /\ Len(events') \in Nat
  BY PublishedFacts DEF InputInv, LoopType
<1>2. \A i \in 1 .. Len(events') :
        \/ i \in 1 .. Len(events) /\ events'[i] = events[i]
        \/ /\ i > Len(events) /\ i - Len(events) \in 1 .. Len(new)
           /\ events'[i] = new[i - Len(events)]
  BY PublishedFacts
<1>3. Knobs' = {i \in 1 .. Len(events') : events'[i].control = "knob"}
  BY DEF Knobs
<1>4. ASSUME NEW i \in Knobs'
      PROVE  \/ i \in Knobs /\ events'[i] = events[i] /\ events[i].press \in SpentPresses
             \/ /\ i = Len(events) + 1 /\ events'[i].press = k /\ k \in SpentPresses'
                /\ \A n \in SpentPresses : n < k
  <2>1. i \in 1 .. Len(events') /\ events'[i].control = "knob"
    BY <1>3
  <2>2. CASE i \in 1 .. Len(events) /\ events'[i] = events[i]
    BY <2>1, <2>2 DEF Knobs, QueueOnce
  <2>3. CASE /\ i > Len(events) /\ i - Len(events) \in 1 .. Len(new)
             /\ events'[i] = new[i - Len(events)]
    <3>1. /\ i - Len(events) = 1 /\ events'[i].press = k /\ k \in SpentPresses'
          /\ \A n \in SpentPresses : n < k
      BY <2>1, <2>3
    <3>2. i = Len(events) + 1
      BY <1>1, <2>1, <3>1
    <3> QED
      BY <3>1, <3>2
  <2> QED
    BY <1>2, <2>1, <2>2, <2>3
<1>5. \A i \in Knobs' : events'[i].press \in SpentPresses'
  BY <1>4
<1>6. ASSUME NEW i \in Knobs', NEW j \in Knobs', i < j
      PROVE  events'[i].press < events'[j].press
  <2>2. i \in 1 .. Len(events') /\ j \in 1 .. Len(events')
    BY <1>3
  <2>3. \A m \in Knobs : m <= Len(events)
    BY <1>1 DEF Knobs
  <2>4. CASE j \in Knobs /\ events'[j] = events[j] /\ events[j].press \in SpentPresses
    <3>1. i # Len(events) + 1
      BY <1>1, <1>6, <2>2, <2>3, <2>4
    <3>2. i \in Knobs /\ events'[i] = events[i]
      BY <1>4, <3>1
    <3> QED
      BY <1>6, <2>4, <3>2 DEF QueueOnce
  <2>5. CASE /\ j = Len(events) + 1 /\ events'[j].press = k
             /\ \A n \in SpentPresses : n < k
    <3>1. i # Len(events) + 1
      BY <1>1, <1>6, <2>2, <2>5
    <3>2. events'[i] = events[i] /\ events[i].press \in SpentPresses
      BY <1>4, <3>1
    <3> QED
      BY <2>5, <3>2
  <2> QED
    BY <1>4, <2>4, <2>5
<1>7. QueueOnce'
  BY <1>5, <1>6 DEF QueueOnce
<1>8. ArmedOnce'
  <2> SUFFICES ASSUME panel.armedBy[1] = "knob"
               PROVE  /\ panel.armedBy[2] \in SpentPresses'
                      /\ \A i \in Knobs' : panel.armedBy[2] < events'[i].press
    BY DEF ArmedOnce
  <2>1. panel.armedBy[2] \in SpentPresses /\ \A i \in Knobs : panel.armedBy[2] < events[i].press
    BY DEF ArmedOnce
  <2> QED
    BY <1>4, <2>1
<1> QED
  BY <1>7, <1>8

LEMMA EmptyOnce ==
  ASSUME events' = <<>>, panel'.armedBy = panel.armedBy \/ panel'.armedBy = Nobody,
         ArmedOnce, SpentPresses' = SpentPresses
  PROVE  QueueOnce' /\ ArmedOnce'
<1>1. Len(<<>>) = 0 /\ 1 .. 0 = {}
  OBVIOUS
<1>2. Knobs' = {}
  BY <1>1 DEF Knobs
<1>3. Nobody[1] # "knob"
  BY DEF Nobody
<1> QED
  BY <1>2, <1>3 DEF QueueOnce, ArmedOnce

(* A gesture is taken from the queue: what was asked by an earlier press   *)
(* of the knob is not confirmed by this one, unless it is a later press.   *)
LEMMA HandledOnce ==
  ASSUME InputInv, OnceInv, HandleInput
  PROVE  OnceInv'
<1> DEFINE h == Head(events)
<1>1. /\ events \in Seq(Gestures) /\ events # <<>> /\ events' = Tail(events)
      /\ panel \in Panels /\ reset = "no"
  BY DEF HandleInput, InputInv, LoopType
<1>2. /\ h \in Gestures /\ h = events[1] /\ Len(events) \in Nat /\ 1 \in 1 .. Len(events)
      /\ Len(events') = Len(events) - 1
      /\ \A i \in 1 .. Len(events') : i + 1 \in 1 .. Len(events) /\ events'[i] = events[i + 1]
  <2>1. /\ h \in Gestures /\ h = events[1] /\ Len(events) \in Nat /\ Len(events) # 0
        /\ Len(events') = Len(events) - 1
        /\ \A i \in 1 .. Len(events') : events'[i] = events[i + 1]
    BY <1>1, HeadTailProperties, LenProperties, EmptySeq
  <2> QED
    BY <2>1
<1>3. SpentPresses' = SpentPresses
  BY DEF HandleInput, SpentPresses
<1>4. PICK refuses \in BOOLEAN : panel' = Handle(panel, h, refuses)
  BY DEF HandleInput
<1>5. /\ \/ panel'.armedBy \in {panel.armedBy, Nobody} /\ panel'.confirmedBy = panel.confirmedBy
         \/ panel'.armedBy = <<h.control, h.press>> /\ panel'.confirmedBy = panel.confirmedBy
         \/ /\ h.control = "knob" /\ panel'.armedBy = panel.armedBy
            /\ panel'.confirmedBy = <<h.control, h.press>>
  BY <1>1, <1>2, <1>4, HandleEffect DEF PanelStep
<1> HIDE DEF h
<1>6. ASSUME NEW i \in Knobs' PROVE i + 1 \in Knobs /\ i >= 1 /\ events'[i] = events[i + 1]
  BY <1>2, <1>6 DEF Knobs
<1>7. h.control = "knob" =>
        1 \in Knobs /\ h.press \in SpentPresses /\ \A i \in Knobs' : h.press < events'[i].press
  <2> SUFFICES ASSUME h.control = "knob"
               PROVE  1 \in Knobs /\ h.press \in SpentPresses
                      /\ \A i \in Knobs' : h.press < events'[i].press
    OBVIOUS
  <2>1. 1 \in Knobs /\ h.press \in SpentPresses
    BY <1>2 DEF Knobs, OnceInv, QueueOnce
  <2>2. ASSUME NEW i \in Knobs' PROVE h.press < events'[i].press
    <3>1. i + 1 \in Knobs /\ 1 < i + 1 /\ events'[i] = events[i + 1]
      BY <1>2, <1>6 DEF Knobs
    <3> QED
      BY <1>2, <2>1, <3>1 DEF OnceInv, QueueOnce
  <2> QED
    BY <2>1, <2>2
<1>8. QueueOnce'
  <2>1. \A i \in Knobs' : events'[i].press \in SpentPresses'
    BY <1>3, <1>6 DEF OnceInv, QueueOnce
  <2>2. ASSUME NEW i \in Knobs', NEW j \in Knobs', i < j PROVE events'[i].press < events'[j].press
    <3>1. i + 1 \in Knobs /\ j + 1 \in Knobs /\ i \in Nat /\ j \in Nat
      BY <1>6 DEF Knobs
    <3>2. i + 1 < j + 1
      BY <2>2, <3>1
    <3>3. events[i + 1].press < events[j + 1].press
      BY <3>1, <3>2 DEF OnceInv, QueueOnce
    <3> QED
      BY <1>6, <3>3
  <2> QED
    BY <2>1, <2>2 DEF QueueOnce
<1>9. ArmedOnce'
  <2>1. CASE panel'.armedBy = panel.armedBy
    BY <1>3, <1>6, <2>1 DEF OnceInv, ArmedOnce
  <2>2. CASE panel'.armedBy = Nobody
    BY <2>2 DEF ArmedOnce, Nobody
  <2>3. CASE panel'.armedBy = <<h.control, h.press>>
    <3>1. panel'.armedBy[1] = h.control /\ panel'.armedBy[2] = h.press
      BY <2>3
    <3> QED
      BY <1>3, <1>7, <3>1 DEF ArmedOnce
  <2> QED
    BY <1>5, <2>1, <2>2, <2>3
<1>10. panel.confirmedBy = Nobody /\ reset' = (IF panel'.confirmedBy = Nobody THEN "no" ELSE "settings")
  BY <1>1 DEF OnceInv, HandleInput
<1>11. reset' = "no" => panel'.confirmedBy = Nobody
  BY <1>10
<1>12. reset' = "settings" => panel'.armedBy # panel'.confirmedBy
  <2>1. CASE panel'.confirmedBy = panel.confirmedBy
    BY <1>10, <2>1
  <2>2. CASE /\ h.control = "knob" /\ panel'.armedBy = panel.armedBy
             /\ panel'.confirmedBy = <<h.control, h.press>>
    <3>1. ASSUME panel.armedBy = <<h.control, h.press>> PROVE FALSE
      <4>1. panel.armedBy[1] = "knob" /\ panel.armedBy[2] = h.press
        BY <2>2, <3>1
      <4>2. panel.armedBy[2] < events[1].press
        BY <1>7, <2>2, <4>1 DEF OnceInv, ArmedOnce
      <4>3. h.press \in Nat
        BY <1>2 DEF Gestures
      <4> QED
        BY <1>2, <4>1, <4>2, <4>3
    <3> QED
      BY <2>2, <3>1
  <2> QED
    BY <1>5, <2>1, <2>2
<1> QED
  BY <1>8, <1>9, <1>11, <1>12 DEF OnceInv

LEMMA OnceStep == InputInv /\ InputInv' /\ OnceInv /\ [InputNext]_inputVars => OnceInv'
<1> SUFFICES ASSUME InputInv, InputInv', OnceInv, [InputNext]_inputVars PROVE OnceInv'
  OBVIOUS
<1>1. ASSUME NEW b \in Buttons, Contact(b) PROVE OnceInv'
  <2>1. SpentPresses \subseteq SpentPresses'
    BY <1>1, ContactSpends
  <2>2. events' = events /\ panel' = panel /\ reset' = reset /\ Knobs' = Knobs
    BY <1>1 DEF Contact, Knobs
  <2> QED
    BY <2>1, <2>2 DEF OnceInv, QueueOnce, ArmedOnce
<1>2. CASE Turn
  <2> DEFINE g == [control |-> "turn", gesture |-> "rotate", press |-> 0]
  <2>1. g \in Gestures /\ g.control = "turn"
    BY DEF Gestures
  <2>2. events' = Published(<<g>>) /\ panel' = panel /\ reset' = reset
    BY <1>2 DEF Turn
  <2>3. SpentPresses' = SpentPresses
    BY <1>2 DEF Turn, SpentPresses
  <2> HIDE DEF g
  <2>4. <<g>> \in Seq(Gestures) /\ Len(<<g>>) = 1 /\ <<g>>[1] = g
    BY <2>1
  <2>5. \A i \in 1 .. Len(<<g>>) : <<g>>[i].control # "knob"
    <3>1. \A i \in 1 .. Len(<<g>>) : <<g>>[i] = g
      BY <2>4
    <3> QED
      BY <2>1, <3>1
  <2>6. QueueOnce' /\ ArmedOnce'
    BY <2>2, <2>3, <2>4, <2>5, PublishedOnce DEF OnceInv
  <2> QED
    BY <2>2, <2>6 DEF OnceInv
<1>3. CASE PollButtons
  <2>1. /\ SpentPresses \subseteq SpentPresses'
        /\ Signal("knob") # "none" =>
             /\ tracker["knob"].press \in SpentPresses'
             /\ \A n \in SpentPresses : n < tracker["knob"].press
    BY <1>3, PollSpends
  <2>2. Signals \in Seq(Gestures) /\ KnobFirst(Signals)
    BY SignalsFacts
  <2>3. tracker["knob"].press \in Nat
    BY KnobFacts
  <2>4. events' = Published(Signals) /\ panel' = panel /\ reset' = reset
    BY <1>3 DEF PollButtons
  <2>5. \A i \in 1 .. Len(Signals) :
          Signals[i].control = "knob" =>
            /\ i = 1 /\ Signals[i].press = tracker["knob"].press
            /\ tracker["knob"].press \in SpentPresses'
            /\ \A n \in SpentPresses : n < tracker["knob"].press
    BY <2>1, <2>2 DEF KnobFirst
  <2>6. QueueOnce' /\ ArmedOnce'
    BY <2>1, <2>2, <2>3, <2>4, <2>5, PublishedOnce DEF OnceInv
  <2> QED
    BY <2>4, <2>6 DEF OnceInv
<1>4. CASE ChordPass
  <2>1. panel' = panel \/ panel' = Disarmed(panel)
    BY <1>4 DEF ChordPass
  <2>2. panel'.armedBy \in {panel.armedBy, Nobody} /\ panel'.confirmedBy = panel.confirmedBy
    BY <2>1, DisarmedFacts DEF InputInv, LoopType
  <2>3. SpentPresses' = SpentPresses /\ events' = <<>> /\ reset = "no" /\ reset' # "settings"
    BY <1>4 DEF ChordPass, PassOver, SpentPresses
  <2>4. QueueOnce' /\ ArmedOnce'
    BY <2>2, <2>3, EmptyOnce DEF OnceInv
  <2> QED
    BY <2>2, <2>3, <2>4 DEF OnceInv
<1>5. CASE InputPass
  BY <1>5 DEF InputPass, OnceInv, QueueOnce, ArmedOnce, Knobs, SpentPresses
<1>6. CASE HandleInput
  BY <1>6, HandledOnce
<1>7. CASE Restart
  <2>1. panel' = FirstPanel /\ events' = <<>> /\ reset' = "no"
    BY <1>7 DEF Restart
  <2>2. panel'.armedBy = Nobody /\ panel'.confirmedBy = Nobody
    BY <2>1, FirstPanelFacts DEF InputInv, HandType
  <2>3. Len(<<>>) = 0 /\ 1 .. 0 = {}
    OBVIOUS
  <2>4. Knobs' = {}
    BY <2>1, <2>3 DEF Knobs
  <2>5. Nobody[1] # "knob"
    BY DEF Nobody
  <2> QED
    BY <2>1, <2>2, <2>4, <2>5 DEF OnceInv, QueueOnce, ArmedOnce
<1>8. CASE UNCHANGED inputVars
  BY <1>8 DEF inputVars, OnceInv, QueueOnce, ArmedOnce, Knobs, SpentPresses
<1> QED
  BY <1>1, <1>2, <1>3, <1>4, <1>5, <1>6, <1>7, <1>8 DEF InputNext

----------------------------------------------------------------------------
(* The countdown of the chord.                                             *)

LEMMA ChordPoll ==
  ASSUME InputInv, ChordInv, PollButtons
  PROVE  ChordInv'
<1>1. reset' = "no" /\ late' = late
  BY DEF PollButtons
<1>2. SUFFICES ASSUME countdown' # Off, ~late', pass' <= Debounce
               PROVE  \/ ChordActive' /\ held' >= countdown'
                      \/ \E b \in Chord : ~tracker'[b].stable /\ tracker'[b].since < pass'
  BY <1>1 DEF ChordInv, ChordActive, Off
<1>3. /\ countdown \in 0 .. Off /\ held \in 0 .. ResetHold /\ pass \in 0 .. Debounce + 1
      /\ Debounce \in Nat \ {0} /\ ResetHold \in Nat \ {0}
  BY InputAssumption DEF InputInv, ClockType
<1>4. countdown # Off
  BY <1>2 DEF PollButtons, Off
<1>5. pass' = Lowest(pass + 1, Debounce + 1)
  BY <1>4 DEF PollButtons
<1>6. pass' = pass + 1 /\ pass + 1 <= Debounce
  BY <1>2, <1>3, <1>5 DEF Lowest
<1>7. /\ \A b \in Chord : /\ b \in Buttons /\ tracker'[b] = Updated(b)
                          /\ tracker[b].since \in Nat /\ tracker[b].stable \in BOOLEAN
                          /\ Updated(b).since \in Nat /\ Updated(b).stable \in BOOLEAN
  <2> SUFFICES ASSUME NEW b \in Chord
               PROVE  /\ b \in Buttons /\ tracker'[b] = Updated(b)
                      /\ tracker[b].since \in Nat /\ tracker[b].stable \in BOOLEAN
                      /\ Updated(b).since \in Nat /\ Updated(b).stable \in BOOLEAN
    OBVIOUS
  <2>1. b \in Buttons
    BY DEF Chord, Buttons
  <2>2. Updated(b) \in Trackers /\ tracker[b] \in Trackers
    BY <2>1, UpdatedFacts DEF InputInv, TrackerType
  <2> QED
    BY <2>1, <2>2 DEF PollButtons, Trackers
<1>8. CASE ChordActive /\ held >= countdown
  <2>1. CASE ChordActive'
    <3>1. held' = Lowest(held + 1, ResetHold)
      BY <1>8, <2>1 DEF PollButtons
    <3>2. countdown' = Lowest(countdown + 1, ResetHold)
      BY <1>4 DEF PollButtons
    <3>3. held' >= countdown'
      BY <1>3, <1>8, <3>1, <3>2 DEF Lowest
    <3> QED
      BY <2>1, <3>3
  <2>2. CASE ~ChordActive'
    <3>1. PICK b \in Chord : ~tracker'[b].stable
      BY <2>2 DEF ChordActive
    <3>2. tracker[b].stable
      BY <1>8 DEF ChordActive
    <3>3. Updated(b) = Released
      BY <1>7, <3>1, <3>2, UpdatedFacts
    <3>4. tracker'[b].since = 0
      BY <1>7, <3>3, ReleasedType
    <3> QED
      BY <1>3, <1>6, <3>1, <3>4
  <2> QED
    BY <2>1, <2>2
<1>9. CASE \E b \in Chord : ~tracker[b].stable /\ tracker[b].since < pass
  <2>1. PICK b \in Chord : ~tracker[b].stable /\ tracker[b].since < pass
    BY <1>9
  <2> DEFINE s == Sampled(tracker[b], contact[b])
  <2>2. s.since \in {0, tracker[b].since + 1}
    BY <1>7, SampledFacts
  <2>3. \/ Settles(s)
        \/ ~Settles(s) /\ ~Updated(b).stable /\ Updated(b).since = s.since
    BY <1>7, <2>1, UpdatedFacts
  <2>4. ~Settles(s)
    <3>1. ~ (s.since >= Debounce)
      BY <1>3, <1>6, <1>7, <2>1, <2>2
    <3> QED
      BY <3>1 DEF Settles
  <2>5. ~Updated(b).stable /\ Updated(b).since = s.since
    BY <2>3, <2>4
  <2>6. Updated(b).since < pass'
    BY <1>3, <1>6, <1>7, <2>1, <2>2, <2>5
  <2> QED
    BY <1>7, <2>1, <2>5, <2>6
<1> QED
  BY <1>2, <1>4, <1>6, <1>3, <1>8, <1>9, <1>1 DEF ChordInv

LEMMA ChordStep == InputInv /\ ChordInv /\ [InputNext]_inputVars => ChordInv'
<1> SUFFICES ASSUME InputInv, ChordInv, [InputNext]_inputVars PROVE ChordInv'
  OBVIOUS
<1>1. ASSUME NEW b \in Buttons, Contact(b) PROVE ChordInv'
  BY <1>1 DEF Contact, ChordInv, ChordActive
<1>2. CASE Turn
  BY <1>2 DEF Turn, ChordInv, ChordActive
<1>3. CASE PollButtons
  BY <1>3, ChordPoll
<1>4. CASE ChordPass
  <2>1. /\ countdown \in 0 .. Off /\ held \in 0 .. ResetHold /\ pass \in 0 .. Debounce + 1
        /\ Debounce \in Nat \ {0} /\ ResetHold \in Nat \ {0} /\ Off = ResetHold + 1
        /\ late \in BOOLEAN
    BY InputAssumption DEF InputInv, ClockType, Off
  <2>2. /\ ChordActive /\ ChordActive' /\ held' = held /\ reset = "no"
        /\ late' = (countdown # Off /\ (late \/ pass > Debounce))
        /\ \/ countdown = ResetHold /\ countdown' = countdown
           \/ countdown' = Off /\ reset' = "no"
           \/ countdown # ResetHold /\ countdown' = (IF countdown = Off THEN 0 ELSE countdown)
              /\ reset' = "no"
    BY <1>4 DEF ChordPass, PassOver, ChordActive
  <2>3. countdown # Off /\ ~late' => held >= countdown
    <3> SUFFICES ASSUME countdown # Off, ~late' PROVE held >= countdown
      OBVIOUS
    <3>1. ~late /\ ~ (pass > Debounce)
      BY <2>2
    <3>2. pass <= Debounce
      BY <2>1, <3>1
    <3>3. ~ \E b \in Chord : ~tracker[b].stable
      BY <2>2 DEF ChordActive
    <3> QED
      BY <3>1, <3>2, <3>3 DEF ChordInv
  <2>4. countdown' # Off /\ ~late' => held' >= countdown'
    BY <2>1, <2>2, <2>3
  <2>5. reset' = "chord" /\ ~late' => held' >= ResetHold
    <3> SUFFICES ASSUME reset' = "chord", ~late' PROVE held' >= ResetHold
      OBVIOUS
    <3>1. countdown = ResetHold
      BY <2>2
    <3>2. countdown # Off
      BY <2>1, <3>1
    <3> QED
      BY <2>2, <2>3, <3>1, <3>2
  <2>6. Off' = Off
    BY DEF Off
  <2> QED
    BY <2>2, <2>4, <2>5, <2>6 DEF ChordInv
<1>5. CASE InputPass
  BY <1>5 DEF InputPass, PassOver, ChordInv, Off
<1>6. CASE HandleInput
  BY <1>6 DEF HandleInput, ChordInv, ChordActive
<1>7. CASE Restart
  BY <1>7 DEF Restart, ChordInv, Off
<1>8. CASE UNCHANGED inputVars
  BY <1>8 DEF inputVars, ChordInv, ChordActive
<1> QED
  BY <1>1, <1>2, <1>3, <1>4, <1>5, <1>6, <1>7, <1>8 DEF InputNext

----------------------------------------------------------------------------

(* The device forgets everything only when somebody means it: the hold of  *)
(* the knob that confirms is another press than the one that was answered  *)
(* with the question, whatever bounces, repeats or waits in the queue; and *)
(* the chord was down for ResetHold without a break, unless a pass of the  *)
(* loop in the countdown took longer than Debounce (input_logic.cpp,       *)
(* application.cpp, ui_controller.cpp).  For all times, queues and hands.  *)
THEOREM ResetIsMeant == InputSpec => []ResetIsDeliberate
<1>1. InputInit => InputInv /\ OnceInv /\ ChordInv
  <2> SUFFICES ASSUME InputInit PROVE InputInv /\ OnceInv /\ ChordInv
    OBVIOUS
  <2>1. InputInv
    BY InputInitInv
  <2>2. panel.armedBy = Nobody /\ panel.confirmedBy = Nobody
    BY FirstPanelFacts DEF InputInit
  <2>3. Nobody[1] # "knob"
    BY DEF Nobody
  <2>4. events = <<>> /\ reset = "no" /\ countdown = Off
    BY DEF InputInit
  <2>5. Len(<<>>) = 0 /\ 1 .. 0 = {}
    OBVIOUS
  <2>6. Knobs = {}
    BY <2>4, <2>5 DEF Knobs
  <2>7. OnceInv
    BY <2>2, <2>3, <2>4, <2>6 DEF OnceInv, QueueOnce, ArmedOnce
  <2>8. ChordInv
    BY <2>4 DEF ChordInv
  <2> QED
    BY <2>1, <2>7, <2>8
<1>2. InputInv /\ OnceInv /\ ChordInv /\ [InputNext]_inputVars => InputInv' /\ OnceInv' /\ ChordInv'
  BY InputStep, OnceStep, ChordStep
<1>3. OnceInv /\ ChordInv => ResetIsDeliberate
  BY DEF OnceInv, ChordInv, ResetIsDeliberate
<1> QED
  BY <1>1, <1>2, <1>3, PTL DEF InputSpec

(* The types of the buttons, the queue of gestures, the panel and the      *)
(* clocks, the limits of what is counted included.                         *)
THEOREM InputTypes == InputSpec => []InputTypeOK
<1>1. InputInv => InputTypeOK
  <2> SUFFICES ASSUME InputInv PROVE InputTypeOK
    OBVIOUS
  <2>1. ASSUME NEW b \in Buttons
        PROVE  /\ tracker[b].since \in 0 .. Debounce - 1 /\ tracker[b].age \in 0 .. LongPress[b] - 1
               /\ tracker[b].wait \in 0 .. LongPress[b] + RepeatDelay + RepeatInterval
               /\ tracker[b].press \in 0 .. closings
    <3>1. /\ tracker[b].since \in Nat /\ tracker[b].age \in Nat /\ tracker[b].wait \in Nat
          /\ tracker[b].press \in Nat
      BY DEF InputInv, TrackerType, Trackers
    <3>2. closings \in Nat /\ LongPress[b] \in Nat /\ Debounce \in Nat
      BY InputAssumption DEF InputInv, HandType
    <3> QED
      BY <3>1, <3>2, InputAssumption DEF InputInv, TrackerType
  <2>2. panel.item \in 0 .. Items - 1
    BY DEF InputInv, LoopType, Panels
  <2> QED
    BY <2>1, <2>2 DEF InputInv, HandType, LoopType, ClockType, InputTypeOK
<1> QED
  BY <1>1, InputAlways, PTL
=============================================================================
