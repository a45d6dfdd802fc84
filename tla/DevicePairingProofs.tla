------------------------ MODULE DevicePairingProofs ------------------------
(***************************************************************************)
(* Proofs about DevicePairing, for every number of devices, codes and      *)
(* tokens and every time limit: its type invariant, that a token which a   *)
(* device keeps is accepted until somebody revokes it, that a device only  *)
(* collects the token that was issued for the code on its display, and     *)
(* that a code on two displays pairs neither.                              *)
(*                                                                         *)
(* An approved row is the only way from the host's table of devices to the *)
(* flash of a device.  PairingInv says that the token in it is the device's own, *)
(* was issued for the code of the row and is not handed out yet, and that  *)
(* a device with a token has no row that could put another in its place.   *)
(*                                                                         *)
(* The first half is about the limiter in front of the endpoints of the    *)
(* pairing, for every limit, window and number of identities: LimiterInv   *)
(* says that what it counts for an identity is the end of what it allowed, *)
(* and all of that while no identity has to make room for another.         *)
(***************************************************************************)
EXTENDS DevicePairing, RateLimiter, FiniteSetTheorems, SequenceTheorems, WellFoundedInduction, TLAPS

----------------------------------------------------------------------------
(* The limiter.  What is left when the old ones are taken off the front.   *)

LEMMA Least ==
  ASSUME NEW S, S \subseteq Nat, S # {}
  PROVE  \E x \in S : \A y \in S : x <= y
<1> DEFINE R == OpToRel(<, Nat)
<1>1. IsWellFoundedOn(R, Nat)
  BY NatLessThanWellFounded
<1>2. \A x, y \in Nat : x < y => <<x, y>> \in R
  BY DEF OpToRel
<1> HIDE DEF R
<1>3. PICK x \in S : \A y \in S : ~ (<<y, x>> \in R)
  BY <1>1, WFMin
<1>4. \A y \in S : x <= y
  <2> TAKE y \in S
  <2>1. x \in Nat /\ y \in Nat /\ ~ (y < x)
    BY <1>2, <1>3
  <2> QED
    BY <2>1
<1> QED
  BY <1>4

OldUntil(s, n, oldest) ==
  /\ \A m \in 1 .. n : s[m] > oldest
  /\ n = Len(s) \/ s[n + 1] <= oldest

LEMMA OldUntilExists ==
  ASSUME NEW s \in Seq(Nat), NEW oldest \in Nat
  PROVE  TooOld(s, oldest) \in 0 .. Len(s) /\ OldUntil(s, TooOld(s, oldest), oldest)
<1> DEFINE S == {n \in 0 .. Len(s) : n = Len(s) \/ s[n + 1] <= oldest}
<1>1. Len(s) \in Nat /\ \A m \in 1 .. Len(s) : s[m] \in Nat
  BY LenProperties, ElementOfSeq
<1>2. Len(s) \in S /\ S \subseteq Nat
  BY <1>1
<1> HIDE DEF S
<1>3. PICK n \in S : \A k \in S : n <= k
  BY <1>2, Least
<1>4. n \in 0 .. Len(s) /\ (n = Len(s) \/ s[n + 1] <= oldest)
  BY <1>3 DEF S
<1>5. ASSUME NEW m \in 1 .. n PROVE s[m] > oldest
  <2>1. m - 1 \in 0 .. Len(s) /\ m - 1 < n /\ m - 1 # Len(s) /\ (m - 1) + 1 = m
    BY <1>1, <1>4
  <2>2. m - 1 \notin S
    BY <1>1, <1>3, <1>4, <2>1
  <2>3. ~ (s[m] <= oldest)
    BY <2>1, <2>2 DEF S
  <2> QED
    BY <1>1, <1>4, <2>3
<1>6. \E k \in 0 .. Len(s) : /\ \A m \in 1 .. k : s[m] > oldest
                             /\ k = Len(s) \/ s[k + 1] <= oldest
  BY <1>4, <1>5
<1> QED
  BY <1>6 DEF TooOld, OldUntil

LEMMA DroppedFacts ==
  ASSUME NEW s \in Seq(Nat), NEW oldest \in Nat
  PROVE  LET n == TooOld(s, oldest)
             r == Dropped(s, oldest)
         IN  /\ n \in 0 .. Len(s) /\ OldUntil(s, n, oldest)
             /\ r \in Seq(Nat) /\ Len(r) = Len(s) - n /\ Len(s) \in Nat
             /\ \A k \in 1 .. Len(r) : k + n \in 1 .. Len(s) /\ r[k] = s[k + n]
<1> DEFINE n == TooOld(s, oldest)
           r == Dropped(s, oldest)
<1>1. n \in 0 .. Len(s) /\ OldUntil(s, n, oldest) /\ Len(s) \in Nat
  BY OldUntilExists, LenProperties
<1>2. r = SubSeq(s, n + 1, Len(s))
  BY DEF Dropped
<1> HIDE DEF n
<1>3. /\ r \in Seq(Nat) /\ Len(r) = Len(s) - n
      /\ \A k \in 1 .. Len(s) - n : r[k] = s[k + n]
  <2> HIDE DEF r
  <2>1. /\ n + 1 \in 1 .. Len(s) + 1 /\ n + 1 \in Int /\ Len(s) \in Int
        /\ \A i \in n + 1 .. Len(s) : s[i] \in Nat
    BY <1>1, ElementOfSeq
  <2>2. /\ r \in Seq(Nat)
        /\ Len(r) = IF n + 1 <= Len(s) THEN Len(s) - (n + 1) + 1 ELSE 0
        /\ \A k \in 1 .. Len(s) - (n + 1) + 1 : r[k] = s[(n + 1) + k - 1]
    <3> DEFINE a == n + 1
               b == Len(s)
    <3> HIDE DEF a, b
    <3>1. a \in Int /\ b \in Int /\ \A i \in a .. b : s[i] \in Nat
      BY <2>1 DEF a, b
    <3>2. /\ SubSeq(s, a, b) \in Seq(Nat)
          /\ Len(SubSeq(s, a, b)) = IF a <= b THEN b - a + 1 ELSE 0
          /\ \A i \in 1 .. b - a + 1 : SubSeq(s, a, b)[i] = s[a + i - 1]
      BY <3>1, SubSeqProperties
    <3> QED
      BY <1>2, <3>2 DEF a, b
  <2>3. Len(s) - (n + 1) + 1 = Len(s) - n
    BY <1>1
  <2>4. Len(r) = Len(s) - n
    BY <1>1, <2>2
  <2>5. \A k \in 1 .. Len(s) - n : (n + 1) + k - 1 = k + n
    BY <1>1
  <2> QED
    BY <2>2, <2>3, <2>4, <2>5
<1> HIDE DEF r
<1>4. \A k \in 1 .. Len(r) : k + n \in 1 .. Len(s)
  BY <1>1, <1>3
<1> QED
  BY <1>1, <1>3, <1>4 DEF n, r

EndsWith(t, s) ==
  /\ Len(s) <= Len(t)
  /\ \A k \in 1 .. Len(s) : s[k] = t[(Len(t) - Len(s)) + k]

(* A list that ends another one is dropped from later.                     *)
LEMMA DroppedEnds ==
  ASSUME NEW s \in Seq(Nat), NEW t \in Seq(Nat), NEW oldest \in Nat, EndsWith(t, s)
  PROVE  EndsWith(Dropped(t, oldest), Dropped(s, oldest))
<1> DEFINE n == TooOld(s, oldest)
           m == TooOld(t, oldest)
           ds == Dropped(s, oldest)
           dt == Dropped(t, oldest)
           d == Len(t) - Len(s)
<1>1. /\ n \in 0 .. Len(s) /\ OldUntil(s, n, oldest) /\ Len(ds) = Len(s) - n /\ Len(s) \in Nat
      /\ \A k \in 1 .. Len(ds) : k + n \in 1 .. Len(s) /\ ds[k] = s[k + n]
  BY DroppedFacts
<1>2. /\ m \in 0 .. Len(t) /\ OldUntil(t, m, oldest) /\ Len(dt) = Len(t) - m /\ Len(t) \in Nat
      /\ \A k \in 1 .. Len(dt) : k + m \in 1 .. Len(t) /\ dt[k] = t[k + m]
  BY DroppedFacts
<1>3. \A k \in 1 .. Len(s) : s[k] = t[d + k] /\ s[k] \in Nat
  BY ElementOfSeq DEF EndsWith
<1>4. d \in Nat
  BY <1>1, <1>2 DEF EndsWith
<1> HIDE DEF n, m, ds, dt, d
<1>5. Len(t) = d + Len(s)
  BY <1>1, <1>2, <1>4 DEF d
<1>6. m <= d + n
  <2> SUFFICES ASSUME m > d + n PROVE FALSE
    <3>1. m \in Nat /\ d + n \in Nat
      BY <1>1, <1>2, <1>4
    <3> QED
      BY <3>1
  <2>1. n + 1 \in 1 .. Len(s) /\ d + (n + 1) \in 1 .. m /\ n # Len(s)
    BY <1>1, <1>2, <1>4, <1>5
  <2>2. s[n + 1] <= oldest
    BY <1>1, <2>1 DEF OldUntil
  <2>3. t[d + (n + 1)] > oldest
    BY <1>2, <2>1 DEF OldUntil
  <2>4. s[n + 1] = t[d + (n + 1)] /\ s[n + 1] \in Nat
    BY <1>3, <2>1
  <2> QED
    BY <2>2, <2>3, <2>4
<1>7. Len(ds) <= Len(dt)
  BY <1>1, <1>2, <1>4, <1>5, <1>6
<1>8. ASSUME NEW k \in 1 .. Len(ds) PROVE ds[k] = dt[(Len(dt) - Len(ds)) + k]
  <2> DEFINE i == (Len(dt) - Len(ds)) + k
  <2>0. Len(ds) \in Nat /\ Len(dt) \in Nat /\ k \in Nat /\ k >= 1 /\ k <= Len(ds)
    BY <1>1, <1>2
  <2>1. i \in 1 .. Len(dt) /\ i + m = d + (k + n)
    <3>1. i >= 1 /\ i <= Len(dt) /\ i \in Nat
      BY <1>7, <2>0
    <3>2. i + m = d + (k + n)
      BY <1>1, <1>2, <1>4, <1>5, <2>0
    <3> QED
      BY <2>0, <3>1, <3>2
  <2>2. dt[i] = t[d + (k + n)]
    BY <1>2, <2>1
  <2>3. ds[k] = t[d + (k + n)]
    BY <1>1, <1>3
  <2> QED
    BY <2>2, <2>3
<1> QED
  BY <1>7, <1>8 DEF EndsWith, ds, dt

(* What was dropped before makes no difference.                            *)
LEMMA DroppedTwice ==
  ASSUME NEW s \in Seq(Nat), NEW t \in Seq(Nat), NEW oldest \in Nat, EndsWith(t, s),
         \A k \in 1 .. Len(t) - Len(s) : t[k] > oldest
  PROVE  Dropped(t, oldest) = Dropped(s, oldest)
<1> DEFINE n == TooOld(s, oldest)
           m == TooOld(t, oldest)
           ds == Dropped(s, oldest)
           dt == Dropped(t, oldest)
           d == Len(t) - Len(s)
<1>1. /\ n \in 0 .. Len(s) /\ OldUntil(s, n, oldest) /\ Len(ds) = Len(s) - n /\ Len(s) \in Nat
      /\ ds \in Seq(Nat)
  BY DroppedFacts
<1>2. /\ m \in 0 .. Len(t) /\ OldUntil(t, m, oldest) /\ Len(dt) = Len(t) - m /\ Len(t) \in Nat
      /\ dt \in Seq(Nat)
  BY DroppedFacts
<1>3. \A k \in 1 .. Len(s) : s[k] = t[d + k] /\ s[k] \in Nat
  BY ElementOfSeq DEF EndsWith
<1>4. d \in Nat
  BY <1>1, <1>2 DEF EndsWith
<1>5. EndsWith(dt, ds)
  BY DroppedEnds
<1>6. \A k \in 1 .. d : t[k] > oldest
  OBVIOUS
<1>7. \A k \in 1 .. Len(t) : t[k] \in Nat
  BY ElementOfSeq
<1> HIDE DEF n, m, ds, dt, d
<1>8. Len(t) = d + Len(s)
  BY <1>1, <1>2, <1>4 DEF d
<1>9. m >= d + n
  <2> SUFFICES ASSUME m < d + n PROVE FALSE
    BY <1>1, <1>2, <1>4
  <2>1. m + 1 \in 1 .. Len(t) /\ m # Len(t)
    BY <1>1, <1>2, <1>4, <1>8
  <2>2. t[m + 1] <= oldest /\ t[m + 1] \in Nat
    BY <1>2, <1>7, <2>1 DEF OldUntil
  <2>3. CASE m + 1 <= d
    BY <1>2, <1>4, <1>6, <2>2, <2>3
  <2>4. CASE m + 1 > d
    <3> DEFINE k == (m + 1) - d
    <3>1. k \in 1 .. n /\ k \in 1 .. Len(s) /\ d + k = m + 1
      BY <1>1, <1>2, <1>4, <2>4
    <3>2. s[k] > oldest /\ s[k] = t[d + k]
      BY <1>1, <1>3, <3>1 DEF OldUntil
    <3> QED
      BY <2>2, <3>1, <3>2
  <2> QED
    BY <1>2, <1>4, <2>3, <2>4
<1>10. Len(dt) = Len(ds)
  <2>1. Len(ds) <= Len(dt)
    BY <1>5 DEF EndsWith
  <2>2. Len(dt) = (d + Len(s)) - m /\ Len(ds) = Len(s) - n
    BY <1>1, <1>2, <1>8
  <2>3. n \in Nat /\ m \in Nat /\ Len(s) \in Nat
    BY <1>1, <1>2
  <2>4. (d + Len(s)) - m <= Len(s) - n
    BY <1>4, <1>9, <2>3
  <2>5. Len(dt) \in Int /\ Len(ds) \in Int
    BY <1>4, <2>2, <2>3
  <2> QED
    BY <2>1, <2>2, <2>4, <2>5
<1>11. ASSUME NEW k \in 1 .. Len(ds) PROVE ds[k] = dt[k]
  <2>1. (Len(dt) - Len(ds)) + k = k
    BY <1>1, <1>10
  <2> QED
    BY <1>5, <2>1 DEF EndsWith
<1>12. dt = ds
  BY <1>1, <1>2, <1>10, <1>11, SeqEqual
<1> QED
  BY <1>12 DEF dt, ds

LEMMA DroppedFirst ==
  ASSUME NEW s \in Seq(Nat), NEW oldest \in Nat
  PROVE  LET r == Dropped(s, oldest)
         IN  /\ r \in Seq(Nat) /\ Len(r) <= Len(s) /\ (Len(r) = 0 \/ r[1] <= oldest)
             /\ EndsWith(s, r) /\ \A k \in 1 .. Len(s) - Len(r) : s[k] > oldest
<1> DEFINE n == TooOld(s, oldest)
           r == Dropped(s, oldest)
<1>1. /\ n \in 0 .. Len(s) /\ OldUntil(s, n, oldest)
      /\ r \in Seq(Nat) /\ Len(r) = Len(s) - n /\ Len(s) \in Nat
      /\ \A k \in 1 .. Len(r) : k + n \in 1 .. Len(s) /\ r[k] = s[k + n]
  BY DroppedFacts
<1> HIDE DEF n, r
<1>2. Len(r) = 0 \/ r[1] <= oldest
  <2> SUFFICES ASSUME Len(r) # 0 PROVE r[1] <= oldest
    OBVIOUS
  <2>1. n # Len(s) /\ 1 \in 1 .. Len(r) /\ 1 + n = n + 1
    BY <1>1
  <2> QED
    BY <1>1, <2>1 DEF OldUntil
<1>3. EndsWith(s, r)
  <2>1. Len(r) <= Len(s) /\ Len(s) - Len(r) = n
    BY <1>1
  <2>2. \A k \in 1 .. Len(r) : r[k] = s[n + k]
    <3> SUFFICES ASSUME NEW k \in 1 .. Len(r) PROVE r[k] = s[n + k]
      OBVIOUS
    <3>1. n + k = k + n
      BY <1>1
    <3> QED
      BY <1>1, <3>1
  <2> QED
    BY <2>1, <2>2 DEF EndsWith
<1>4. \A k \in 1 .. Len(s) - Len(r) : s[k] > oldest
  <2>1. Len(s) - Len(r) = n
    BY <1>1
  <2> QED
    BY <1>1, <2>1 DEF OldUntil
<1>5. Len(r) <= Len(s)
  BY <1>1
<1> QED
  BY <1>1, <1>2, <1>3, <1>4, <1>5 DEF r

(* Nothing is dropped if the first is recent.                              *)
LEMMA NothingDropped ==
  ASSUME NEW s \in Seq(Nat), NEW oldest \in Nat, Len(s) = 0 \/ s[1] <= oldest
  PROVE  Dropped(s, oldest) = s
<1> DEFINE n == TooOld(s, oldest)
           r == Dropped(s, oldest)
<1>1. /\ n \in 0 .. Len(s) /\ OldUntil(s, n, oldest)
      /\ r \in Seq(Nat) /\ Len(r) = Len(s) - n /\ Len(s) \in Nat
      /\ \A k \in 1 .. Len(r) : k + n \in 1 .. Len(s) /\ r[k] = s[k + n]
  BY DroppedFacts
<1>2. \A k \in 1 .. Len(s) : s[k] \in Nat
  BY ElementOfSeq
<1> HIDE DEF n, r
<1>3. n = 0
  <2> SUFFICES ASSUME n # 0 PROVE FALSE
    OBVIOUS
  <2>1. 1 \in 1 .. n /\ 1 \in 1 .. Len(s) /\ Len(s) # 0
    BY <1>1
  <2>2. s[1] > oldest /\ s[1] \in Nat
    BY <1>1, <1>2, <2>1 DEF OldUntil
  <2> QED
    BY <2>1, <2>2
<1>4. Len(r) = Len(s)
  BY <1>1, <1>3
<1>5. \A k \in 1 .. Len(r) : r[k] = s[k]
  BY <1>1, <1>3
<1>6. r = s
  BY <1>1, <1>4, <1>5, SeqEqual
<1> QED
  BY <1>6 DEF r

LEMMA OlderFacts ==
  ASSUME NEW s \in Seq(Nat)
  PROVE  /\ Older(s) \in Seq(Nat) /\ Len(Older(s)) = Len(s) /\ Len(s) \in Nat
         /\ \A k \in 1 .. Len(s) : /\ s[k] \in Nat
                                   /\ Older(s)[k] = IF s[k] > Window THEN s[k] ELSE s[k] + 1
<1>1. Len(s) \in Nat /\ DOMAIN s = 1 .. Len(s) /\ \A k \in 1 .. Len(s) : s[k] \in Nat
  BY LenProperties, ElementOfSeq
<1>2. Older(s) = [k \in 1 .. Len(s) |-> IF s[k] > Window THEN s[k] ELSE s[k] + 1]
  BY <1>1 DEF Older
<1>3. Older(s) \in [1 .. Len(s) -> Nat]
  BY <1>1, <1>2
<1>4. Older(s) \in Seq(Nat) /\ Len(Older(s)) = Len(s)
  BY <1>1, <1>3
<1> QED
  BY <1>1, <1>2, <1>4

LEMMA OlderEnds ==
  ASSUME NEW s \in Seq(Nat), NEW t \in Seq(Nat), EndsWith(t, s)
  PROVE  EndsWith(Older(t), Older(s))
<1> DEFINE os == Older(s)
           ot == Older(t)
<1>1. /\ Len(os) = Len(s) /\ Len(s) \in Nat
      /\ \A k \in 1 .. Len(s) : os[k] = IF s[k] > Window THEN s[k] ELSE s[k] + 1
  BY OlderFacts
<1>2. /\ Len(ot) = Len(t) /\ Len(t) \in Nat
      /\ \A k \in 1 .. Len(t) : ot[k] = IF t[k] > Window THEN t[k] ELSE t[k] + 1
  BY OlderFacts
<1> HIDE DEF os, ot
<1>3. ASSUME NEW k \in 1 .. Len(s) PROVE os[k] = ot[(Len(t) - Len(s)) + k]
  <2>1. (Len(t) - Len(s)) + k \in 1 .. Len(t)
    BY <1>1, <1>2 DEF EndsWith
  <2>2. s[k] = t[(Len(t) - Len(s)) + k]
    BY DEF EndsWith
  <2> QED
    BY <1>1, <1>2, <2>1, <2>2
<1>4. EndsWith(ot, os)
  BY <1>1, <1>2, <1>3 DEF EndsWith
<1> QED
  BY <1>4 DEF os, ot

(* Getting older, a list loses the same whether it was cleaned before.     *)
LEMMA OlderCleaned ==
  ASSUME NEW s \in Seq(Nat)
  PROVE  Recent(Older(s)) = Recent(Older(Recent(s)))
<1> DEFINE r == Recent(s)
<1>1. /\ r \in Seq(Nat) /\ EndsWith(s, r)
      /\ \A k \in 1 .. Len(s) - Len(r) : s[k] > Window
  BY DroppedFirst, LimiterAssumption DEF Recent
<1> HIDE DEF r
<1>2. EndsWith(Older(s), Older(r))
  BY <1>1, OlderEnds
<1>3. /\ Older(s) \in Seq(Nat) /\ Len(Older(s)) = Len(s) /\ Len(s) \in Nat
      /\ \A k \in 1 .. Len(s) : Older(s)[k] = IF s[k] > Window THEN s[k] ELSE s[k] + 1
  BY OlderFacts
<1>4. Older(r) \in Seq(Nat) /\ Len(Older(r)) = Len(r) /\ Len(r) \in Nat
  BY <1>1, OlderFacts
<1>5. \A k \in 1 .. Len(Older(s)) - Len(Older(r)) : Older(s)[k] > Window
  <2>1. \A k \in 1 .. Len(s) - Len(r) : k \in 1 .. Len(s)
    BY <1>3, <1>4
  <2> QED
    BY <1>1, <1>3, <1>4, <2>1
<1>6. Dropped(Older(s), Window) = Dropped(Older(r), Window)
  BY <1>2, <1>3, <1>4, <1>5, DroppedTwice, LimiterAssumption
<1> QED
  BY <1>6 DEF Recent, r

LEMMA RecentOnce ==
  ASSUME NEW s \in Seq(Nat)
  PROVE  /\ Recent(s) \in Seq(Nat) /\ Len(Recent(s)) <= Len(s)
         /\ Recent(Recent(s)) = Recent(s)
         /\ Len(Recent(s)) = 0 \/ Recent(s)[1] <= Window
BY DroppedFirst, NothingDropped, LimiterAssumption DEF Recent

----------------------------------------------------------------------------
(* What the limiter counts for an identity is the end of what it allowed;  *)
(* all of it, while no identity has to make room.                          *)

Counted(i) == IF i \in Tracked THEN Recent(attempts[i]) ELSE <<>>

LimiterTyped ==
  /\ callers \in SUBSET Identities /\ Tracked \subseteq callers
  /\ \A i \in Tracked : attempts[i] \in Seq(Nat) /\ Len(attempts[i]) <= Limit
  /\ granted \in [Identities -> Seq(Nat)]

CountsAllowed ==
  /\ \A i \in Identities : EndsWith(granted[i], Counted(i))
  /\ Cardinality(callers) <= MaxIdentities => \A i \in Identities : granted[i] = Counted(i)

LimiterInv == LimiterTyped /\ CountsAllowed

LEMMA NothingEnds == ASSUME NEW t \in Seq(Nat) PROVE EndsWith(t, <<>>)
<1>1. Len(<<>>) = 0 /\ Len(t) \in Nat /\ 1 .. 0 = {}
  BY LenProperties
<1> QED
  BY <1>1 DEF EndsWith

LEMMA CountedFacts ==
  ASSUME LimiterTyped, NEW i \in Identities
  PROVE  /\ Counted(i) \in Seq(Nat) /\ Len(Counted(i)) \in 0 .. Limit
         /\ Recent(Counted(i)) = Counted(i)
         /\ Len(Counted(i)) = 0 \/ Counted(i)[1] <= Window
<1>1. CASE i \in Tracked
  <2>1. attempts[i] \in Seq(Nat) /\ Len(attempts[i]) <= Limit /\ Counted(i) = Recent(attempts[i])
    BY <1>1 DEF LimiterTyped, Counted
  <2> DEFINE r == Recent(attempts[i])
  <2>2. /\ r \in Seq(Nat) /\ Len(r) <= Len(attempts[i]) /\ Recent(r) = r
        /\ Len(r) = 0 \/ r[1] <= Window
    BY <2>1, RecentOnce
  <2> HIDE DEF r
  <2>3. Len(r) \in Nat /\ Len(attempts[i]) \in Nat
    BY <2>1, <2>2, LenProperties
  <2>4. Len(r) \in 0 .. Limit
    BY <2>1, <2>2, <2>3, LimiterAssumption
  <2> QED
    BY <2>1, <2>2, <2>4 DEF r
<1>2. CASE i \notin Tracked
  <2>1. Counted(i) = <<>> /\ <<>> \in Seq(Nat) /\ Len(<<>>) = 0
    BY <1>2 DEF Counted
  <2>2. Recent(<<>>) = <<>>
    BY <2>1, NothingDropped, LimiterAssumption DEF Recent
  <2>3. 0 \in 0 .. Limit
    BY LimiterAssumption
  <2> QED
    BY <2>1, <2>2, <2>3
<1> QED
  BY <1>1, <1>2

LEMMA TickCounts ==
  ASSUME LimiterInv, LimiterTick
  PROVE  LimiterInv'
<1>1. /\ Tracked' = Tracked /\ callers' = callers
      /\ \A i \in Tracked : attempts'[i] = Older(attempts[i])
      /\ \A i \in Identities : granted'[i] = Recent(Older(granted[i]))
      /\ granted' = [i \in Identities |-> Recent(Older(granted[i]))]
  BY DEF LimiterTick, Tracked, Recent
<1>2. \A i \in Tracked : attempts[i] \in Seq(Nat) /\ Len(attempts[i]) <= Limit
  BY DEF LimiterInv, LimiterTyped
<1>3. \A i \in Identities : granted[i] \in Seq(Nat)
  BY DEF LimiterInv, LimiterTyped
<1>4. \A i \in Identities : /\ Recent(Older(granted[i])) \in Seq(Nat)
                            /\ Older(granted[i]) \in Seq(Nat)
  BY <1>3, OlderFacts, RecentOnce
<1>5. LimiterTyped'
  <2>1. \A i \in Tracked' : attempts'[i] \in Seq(Nat) /\ Len(attempts'[i]) <= Limit
    BY <1>1, <1>2, OlderFacts
  <2>2. granted' \in [Identities -> Seq(Nat)]
    BY <1>1, <1>4
  <2> QED
    BY <1>1, <2>1, <2>2 DEF LimiterInv, LimiterTyped
<1>6. ASSUME NEW i \in Identities
      PROVE  Counted(i)' = Recent(Older(Counted(i)))
  <2>1. CASE i \in Tracked
    <3>1. Counted(i)' = Recent(Older(attempts[i])) /\ Counted(i) = Recent(attempts[i])
      BY <1>1, <2>1 DEF Counted
    <3> QED
      BY <1>2, <2>1, <3>1, OlderCleaned
  <2>2. CASE i \notin Tracked
    <3>1. Counted(i)' = <<>> /\ Counted(i) = <<>>
      BY <1>1, <2>2 DEF Counted
    <3>2. <<>> \in Seq(Nat) /\ Len(<<>>) = 0
      OBVIOUS
    <3>3. Older(<<>>) \in Seq(Nat) /\ Len(Older(<<>>)) = 0
      BY <3>2, OlderFacts
    <3>4. Recent(Older(<<>>)) = Older(<<>>)
      BY <3>3, NothingDropped, LimiterAssumption DEF Recent
    <3>5. Older(<<>>) = <<>>
      BY <3>3, EmptySeq
    <3> QED
      BY <3>1, <3>4, <3>5
  <2> QED
    BY <2>1, <2>2
<1>7. ASSUME NEW i \in Identities
      PROVE  EndsWith(granted'[i], Counted(i)')
  <2> DEFINE g == granted[i]
             c == Counted(i)
  <2>1. g \in Seq(Nat) /\ c \in Seq(Nat) /\ EndsWith(g, c)
    BY <1>3, CountedFacts DEF LimiterInv, CountsAllowed
  <2>2. granted'[i] = Recent(Older(g)) /\ Counted(i)' = Recent(Older(c))
    BY <1>1, <1>6
  <2> HIDE DEF g, c
  <2>3. Older(g) \in Seq(Nat) /\ Older(c) \in Seq(Nat) /\ EndsWith(Older(g), Older(c))
    BY <2>1, OlderFacts, OlderEnds
  <2>4. EndsWith(Recent(Older(g)), Recent(Older(c)))
    BY <2>3, DroppedEnds, LimiterAssumption DEF Recent
  <2> QED
    BY <2>2, <2>4
<1>8. ASSUME Cardinality(callers) <= MaxIdentities, NEW i \in Identities
      PROVE  granted'[i] = Counted(i)'
  BY <1>1, <1>6, <1>8 DEF LimiterInv, CountsAllowed
<1> QED
  BY <1>1, <1>5, <1>7, <1>8 DEF LimiterInv, CountsAllowed

(* What another identity is counted for after a call of i.                 *)
LEMMA AllowOthers ==
  ASSUME LimiterInv, NEW i \in callers, Allow(i), NEW j \in Identities, j # i
  PROVE  /\ Counted(j)' = Counted(j) \/ Counted(j)' = <<>>
         /\ Cardinality(callers) <= MaxIdentities => Counted(j)' = Counted(j)
<1> DEFINE others == IF i \in Tracked THEN attempts ELSE [k \in RoomMade |-> Recent(attempts[k])]
<1>1. /\ Tracked' = DOMAIN others \cup {i}
      /\ \A k \in DOMAIN others : k # i => attempts'[k] = others[k]
  BY DEF Allow, Renew, Tracked
<1>2. Tracked \subseteq callers /\ callers \in SUBSET Identities
  BY DEF LimiterInv, LimiterTyped
<1>3. CASE i \in Tracked
  <2>1. others = attempts
    BY <1>3
  <2> HIDE DEF others
  <2>2. Tracked' = Tracked /\ (j \in Tracked => attempts'[j] = attempts[j])
    BY <1>1, <1>3, <2>1 DEF Tracked
  <2>3. Counted(j)' = Counted(j)
    BY <2>2 DEF Counted
  <2> QED
    BY <2>3
<1>4. CASE i \notin Tracked
  <2>1. DOMAIN others = RoomMade /\ \A k \in RoomMade : others[k] = Recent(attempts[k])
    BY <1>4
  <2> HIDE DEF others
  <2>2. RoomMade \subseteq Cleaned /\ Cleaned \subseteq Tracked
    BY DEF RoomMade, Cleaned
  <2>3. CASE j \in RoomMade
    <3>1. /\ Counted(j)' = Recent(Recent(attempts[j])) /\ Counted(j) = Recent(attempts[j])
          /\ attempts[j] \in Seq(Nat)
      BY <1>1, <2>1, <2>2, <2>3 DEF Counted, LimiterInv, LimiterTyped
    <3> QED
      BY <3>1, RecentOnce
  <2>4. CASE j \notin RoomMade
    <3>1. Counted(j)' = <<>>
      BY <1>1, <2>1, <2>4 DEF Counted
    <3>2. ASSUME Cardinality(callers) <= MaxIdentities PROVE Counted(j) = <<>>
      <4>1. IsFiniteSet(callers) /\ Cleaned \subseteq callers \ {i}
        BY <1>2, <1>4, <2>2, LimiterAssumption, FS_Subset
      <4>2. Cardinality(callers \ {i}) = Cardinality(callers) - 1 /\ IsFiniteSet(callers \ {i})
        BY <4>1, FS_RemoveElement
      <4>3. Cardinality(Cleaned) <= Cardinality(callers \ {i}) /\ IsFiniteSet(Cleaned)
        BY <4>1, <4>2, FS_Subset
      <4>4. Cardinality(Cleaned) \in Nat /\ Cardinality(callers) \in Nat
        BY <4>1, <4>3, FS_CardinalityType
      <4>5. Cardinality(Cleaned) < MaxIdentities
        BY <3>2, <4>2, <4>3, <4>4, LimiterAssumption
      <4>6. j \notin Cleaned
        BY <2>4, <4>5 DEF RoomMade
      <4> QED
        BY <4>6 DEF Cleaned, Counted
    <3> QED
      BY <3>1, <3>2
  <2> QED
    BY <2>3, <2>4
<1> QED
  BY <1>3, <1>4

(* What the caller is counted for.                                         *)
LEMMA AllowCaller ==
  ASSUME LimiterInv, NEW i \in callers, Allow(i)
  PROVE  /\ attempts'[i] \in Seq(Nat) /\ Len(attempts'[i]) <= Limit
         /\ \/ /\ Len(Counted(i)) < Limit
               /\ verdict'.allowed = TRUE
               /\ Counted(i)' = Append(Counted(i), 0)
               /\ granted' = [granted EXCEPT ![i] = LastCalls(Append(granted[i], 0))]
            \/ /\ ~ (Len(Counted(i)) < Limit)
               /\ verdict'.allowed = FALSE
               /\ Counted(i)' = Counted(i) /\ granted' = granted
<1> DEFINE c == Counted(i)
           new == IF RoomLeft(c) THEN Append(c, 0) ELSE c
<1>1. /\ attempts'[i] = new /\ i \in Tracked'
      /\ verdict'.allowed = RoomLeft(c)
      /\ granted' = IF RoomLeft(c) THEN [granted EXCEPT ![i] = LastCalls(Append(granted[i], 0))]
                    ELSE granted
  BY DEF Allow, Renew, Counted, Tracked
<1>2. Counted(i)' = Recent(attempts'[i])
  BY <1>1 DEF Counted
<1>3. i \in Identities
  BY DEF LimiterInv, LimiterTyped
<1>4. /\ c \in Seq(Nat) /\ Len(c) \in 0 .. Limit /\ Recent(c) = c
      /\ Len(c) = 0 \/ c[1] <= Window
  BY <1>3, CountedFacts DEF LimiterInv
<1>5. RoomLeft(c) <=> Len(c) < Limit
  BY DEF RoomLeft
<1> HIDE DEF c
<1>6. CASE RoomLeft(c)
  <2> DEFINE a == Append(c, 0)
  <2>1. /\ a \in Seq(Nat) /\ Len(a) = Len(c) + 1
        /\ \A k \in 1 .. Len(c) : a[k] = c[k] /\ a[Len(c) + 1] = 0
    BY <1>4, AppendProperties
  <2>2. a[Len(c) + 1] = 0
    BY <1>4, AppendProperties
  <2> HIDE DEF a
  <2>3. a[1] <= Window
    <3>1. CASE Len(c) = 0
      <4>1. a[1] = 0
        BY <2>2, <3>1
      <4> QED
        BY <4>1, LimiterAssumption
    <3>2. CASE Len(c) # 0
      <4>1. 1 \in 1 .. Len(c)
        BY <1>4, <3>2
      <4> QED
        BY <1>4, <2>1, <3>2, <4>1
    <3> QED
      BY <3>1, <3>2
  <2>4. Recent(a) = a
    BY <2>1, <2>3, NothingDropped, LimiterAssumption DEF Recent
  <2>5. Len(a) <= Limit
    BY <1>4, <1>5, <1>6, <2>1, LimiterAssumption
  <2>6. attempts'[i] = a
    BY <1>1, <1>6 DEF a
  <2> QED
    BY <1>1, <1>2, <1>5, <1>6, <2>1, <2>4, <2>5, <2>6 DEF a, c
<1>7. CASE ~ RoomLeft(c)
  <2>1. attempts'[i] = c /\ Len(c) <= Limit
    BY <1>1, <1>4, <1>7
  <2> QED
    BY <1>1, <1>2, <1>4, <1>5, <1>7, <2>1 DEF c
<1> QED
  BY <1>6, <1>7

LEMMA LastCallsEnds ==
  ASSUME NEW g \in Seq(Nat), NEW c \in Seq(Nat), EndsWith(g, c), Len(c) < Limit
  PROVE  LET l == LastCalls(Append(g, 0))
         IN  /\ l \in Seq(Nat) /\ EndsWith(l, Append(c, 0))
             /\ g = c => l = Append(c, 0)
<1> DEFINE ag == Append(g, 0)
           ac == Append(c, 0)
           d == Len(g) - Len(c)
<1>1. /\ ag \in Seq(Nat) /\ Len(ag) = Len(g) + 1 /\ Len(g) \in Nat
      /\ \A k \in 1 .. Len(g) : ag[k] = g[k]
  BY AppendProperties
<1>2. ag[Len(g) + 1] = 0
  BY AppendProperties
<1>3. /\ ac \in Seq(Nat) /\ Len(ac) = Len(c) + 1 /\ Len(c) \in Nat
      /\ \A k \in 1 .. Len(c) : ac[k] = c[k]
  BY AppendProperties
<1>4. ac[Len(c) + 1] = 0
  BY AppendProperties
<1>5. d \in Nat /\ Len(g) = d + Len(c)
  BY <1>1, <1>3 DEF EndsWith
<1>6. \A k \in 1 .. Len(c) : c[k] = g[d + k]
  BY DEF EndsWith
<1> HIDE DEF d
<1>7. g = c => ag = ac
  OBVIOUS
<1> HIDE DEF ag, ac
<1>8. ASSUME NEW k \in 1 .. Len(ac) PROVE ac[k] = ag[d + k]
  <2>1. CASE k \in 1 .. Len(c)
    <3>1. d + k \in 1 .. Len(g)
      <4>1. k \in Nat /\ k >= 1 /\ k <= Len(c)
        BY <1>3, <2>1
      <4>2. d + k \in Nat /\ d + k >= 1 /\ d + k <= Len(g)
        BY <1>3, <1>5, <4>1
      <4> QED
        BY <1>1, <4>2
    <3> QED
      BY <1>1, <1>3, <1>6, <2>1, <3>1
  <2>2. CASE k \notin 1 .. Len(c)
    <3>0. k \in Nat /\ k >= 1 /\ k <= Len(c) + 1 /\ ~ (k <= Len(c))
      BY <1>3, <2>2
    <3>1. k = Len(c) + 1
      BY <1>3, <3>0
    <3>2. d + k = Len(g) + 1
      BY <1>3, <1>5, <3>1
    <3> QED
      BY <1>2, <1>4, <3>1, <3>2
  <2> QED
    BY <2>1, <2>2
<1>9. CASE Len(ag) > Limit + 1
  <2>1. Len(ag) \in Nat /\ Len(ag) # 0
    BY <1>1
  <2>2. /\ Tail(ag) \in Seq(Nat) /\ Len(Tail(ag)) = Len(ag) - 1
        /\ \A k \in 1 .. Len(Tail(ag)) : Tail(ag)[k] = ag[k + 1]
    <3>1. ag # <<>>
      BY <2>1
    <3> QED
      BY <1>1, <3>1, HeadTailProperties
  <2>3. LastCalls(ag) = Tail(ag)
    BY <1>9 DEF LastCalls
  <2> DEFINE t == Tail(ag)
  <2> HIDE DEF t
  <2>4. d >= 1 /\ Len(t) = Len(g) /\ Len(ac) <= Len(t)
    <3>1. Len(t) = Len(ag) - 1
      BY <2>2 DEF t
    <3>2. Len(g) > Limit /\ Limit \in Nat /\ Len(c) < Limit
      BY <1>1, <1>9, LimiterAssumption
    <3>3. Len(t) = Len(g)
      BY <1>1, <3>1
    <3>4. Len(c) + 1 <= Len(g) /\ Len(c) < Len(g)
      BY <1>1, <1>3, <3>2
    <3> QED
      BY <1>1, <1>3, <1>5, <3>3, <3>4
  <2>5. ASSUME NEW k \in 1 .. Len(ac) PROVE ac[k] = t[(Len(t) - Len(ac)) + k]
    <3>1. /\ (Len(t) - Len(ac)) + k = (d - 1) + k
          /\ (d - 1) + k \in 1 .. Len(t)
          /\ ((d - 1) + k) + 1 = d + k
      BY <1>1, <1>3, <1>5, <2>4
    <3>2. t[(d - 1) + k] = ag[d + k]
      BY <2>2, <3>1 DEF t
    <3> QED
      BY <1>8, <3>1, <3>2
  <2>6. EndsWith(t, ac)
    BY <2>4, <2>5 DEF EndsWith
  <2>7. g # c
    BY <1>1, <1>3, <1>5, <2>4
  <2> QED
    BY <2>2, <2>3, <2>6, <2>7 DEF t, ag, ac
<1>10. CASE ~ (Len(ag) > Limit + 1)
  <2>1. LastCalls(ag) = ag
    BY <1>10 DEF LastCalls
  <2>2. Len(ac) <= Len(ag) /\ Len(ag) - Len(ac) = d
    BY <1>1, <1>3, <1>5
  <2>3. EndsWith(ag, ac)
    BY <1>8, <2>2 DEF EndsWith
  <2> QED
    BY <1>1, <1>7, <2>1, <2>3 DEF ag, ac
<1> QED
  BY <1>9, <1>10

LEMMA AllowCounts ==
  ASSUME LimiterInv, NEW i \in callers, Allow(i)
  PROVE  LimiterInv'
<1>1. /\ callers' = callers /\ i \in Identities /\ callers \in SUBSET Identities
      /\ Tracked \subseteq callers
      /\ \A j \in Tracked : attempts[j] \in Seq(Nat) /\ Len(attempts[j]) <= Limit
      /\ granted \in [Identities -> Seq(Nat)]
  BY DEF Allow, LimiterInv, LimiterTyped
<1>2. /\ \A j \in Identities : EndsWith(granted[j], Counted(j)) /\ Counted(j) \in Seq(Nat)
  BY CountedFacts DEF LimiterInv, CountsAllowed
<1>3. Cardinality(callers) <= MaxIdentities => \A j \in Identities : granted[j] = Counted(j)
  BY DEF LimiterInv, CountsAllowed
<1> DEFINE c == Counted(i)
           g == granted[i]
           l == LastCalls(Append(g, 0))
<1>4. /\ attempts'[i] \in Seq(Nat) /\ Len(attempts'[i]) <= Limit
      /\ \/ /\ Len(c) < Limit /\ Counted(i)' = Append(c, 0)
            /\ granted' = [granted EXCEPT ![i] = l]
         \/ Counted(i)' = c /\ granted' = granted
  BY AllowCaller
<1>5. g \in Seq(Nat) /\ c \in Seq(Nat) /\ EndsWith(g, c)
  BY <1>1, <1>2
<1>6. Len(c) < Limit => /\ l \in Seq(Nat) /\ EndsWith(l, Append(c, 0))
                        /\ g = c => l = Append(c, 0)
  <2> HIDE DEF c, g
  <2> QED
    BY <1>5, LastCallsEnds
<1>7. /\ granted' \in [Identities -> Seq(Nat)]
      /\ \A j \in Identities : j # i => granted'[j] = granted[j]
  <2> HIDE DEF l, c
  <2> QED
    BY <1>1, <1>4, <1>6
<1>8. EndsWith(granted'[i], Counted(i)')
  <2>1. CASE Len(c) < Limit /\ Counted(i)' = Append(c, 0) /\ granted' = [granted EXCEPT ![i] = l]
    <3>1. granted'[i] = l
      BY <1>1, <2>1
    <3> QED
      BY <1>6, <2>1, <3>1
  <2>2. CASE Counted(i)' = c /\ granted' = granted
    BY <1>5, <2>2
  <2> QED
    BY <1>4, <2>1, <2>2
<1>9. ASSUME Cardinality(callers) <= MaxIdentities PROVE granted'[i] = Counted(i)'
  <2>1. g = c
    BY <1>1, <1>3, <1>9
  <2>2. CASE Len(c) < Limit /\ Counted(i)' = Append(c, 0) /\ granted' = [granted EXCEPT ![i] = l]
    <3>1. granted'[i] = l
      BY <1>1, <2>2
    <3> QED
      BY <1>6, <2>1, <2>2, <3>1
  <2>3. CASE Counted(i)' = c /\ granted' = granted
    BY <2>1, <2>3
  <2> QED
    BY <1>4, <2>2, <2>3
<1> HIDE DEF c, g, l
<1>10. ASSUME NEW j \in Identities, j # i
       PROVE  /\ Counted(j)' = Counted(j) \/ Counted(j)' = <<>>
              /\ Cardinality(callers) <= MaxIdentities => Counted(j)' = Counted(j)
  BY <1>10, AllowOthers
<1>11. ASSUME NEW j \in Identities PROVE EndsWith(granted'[j], Counted(j)')
  <2>1. CASE j = i
    BY <1>8, <2>1
  <2>2. CASE j # i
    <3>1. granted'[j] = granted[j] /\ granted[j] \in Seq(Nat)
      BY <1>1, <1>7, <2>2
    <3> QED
      BY <1>2, <1>10, <2>2, <3>1, NothingEnds
  <2> QED
    BY <2>1, <2>2
<1>12. ASSUME Cardinality(callers') <= MaxIdentities, NEW j \in Identities
       PROVE  granted'[j] = Counted(j)'
  BY <1>1, <1>3, <1>7, <1>9, <1>10, <1>12
<1>13. Tracked' \subseteq callers /\ \A j \in Tracked' : attempts'[j] \in Seq(Nat) /\ Len(attempts'[j]) <= Limit
  <2> DEFINE others == IF i \in Tracked THEN attempts ELSE [k \in RoomMade |-> Recent(attempts[k])]
  <2>1. /\ Tracked' = DOMAIN others \cup {i}
        /\ \A k \in DOMAIN others : k # i => attempts'[k] = others[k]
    BY DEF Allow, Renew, Tracked
  <2>2. CASE i \in Tracked
    <3>1. others = attempts
      BY <2>2
    <3> HIDE DEF others
    <3> QED
      BY <1>1, <1>4, <2>1, <3>1 DEF Tracked
  <2>3. CASE i \notin Tracked
    <3>1. DOMAIN others = RoomMade /\ \A k \in RoomMade : others[k] = Recent(attempts[k])
      BY <2>3
    <3>2. RoomMade \subseteq Tracked
      BY DEF RoomMade, Cleaned
    <3> HIDE DEF others
    <3>3. ASSUME NEW k \in RoomMade
          PROVE  Recent(attempts[k]) \in Seq(Nat) /\ Len(Recent(attempts[k])) <= Limit
      <4>1. attempts[k] \in Seq(Nat) /\ Len(attempts[k]) <= Limit
        BY <1>1, <3>2
      <4>2. Recent(attempts[k]) \in Seq(Nat) /\ Len(Recent(attempts[k])) <= Len(attempts[k])
        BY <4>1, RecentOnce
      <4>3. Len(attempts[k]) \in Nat /\ Len(Recent(attempts[k])) \in Nat
        BY <4>1, <4>2, LenProperties
      <4> QED
        BY <4>1, <4>2, <4>3, LimiterAssumption
    <3> QED
      BY <1>1, <1>4, <2>1, <3>1, <3>2, <3>3
  <2> QED
    BY <2>2, <2>3
<1>14. LimiterTyped'
  BY <1>1, <1>7, <1>13 DEF LimiterTyped
<1>15. CountsAllowed'
  BY <1>11, <1>12 DEF CountsAllowed
<1> QED
  BY <1>14, <1>15 DEF LimiterInv

LEMMA LimiterInvariant == LimiterSpec => []LimiterInv
<1>1. ASSUME LimiterInit PROVE LimiterInv
  <2>1. /\ Tracked = {} /\ callers \in SUBSET Identities
        /\ granted = [i \in Identities |-> <<>>] /\ <<>> \in Seq(Nat)
    BY <1>1 DEF LimiterInit, Tracked
  <2>2. LimiterTyped
    BY <2>1 DEF LimiterTyped
  <2>3. ASSUME NEW i \in Identities PROVE granted[i] = Counted(i) /\ EndsWith(granted[i], Counted(i))
    <3>1. granted[i] = <<>> /\ Counted(i) = <<>>
      BY <2>1 DEF Counted
    <3> QED
      BY <2>1, <3>1, NothingEnds
  <2> QED
    BY <2>2, <2>3 DEF LimiterInv, CountsAllowed
<1>2. ASSUME LimiterInv, [LimiterNext]_limiterVars PROVE LimiterInv'
  <2>1. CASE LimiterTick
    BY <1>2, <2>1, TickCounts
  <2>2. CASE \E i \in callers : Allow(i)
    BY <1>2, <2>2, AllowCounts
  <2>3. CASE UNCHANGED limiterVars
    <3>1. callers' = callers /\ attempts' = attempts /\ granted' = granted
      BY <2>3 DEF limiterVars
    <3>2. LimiterTyped'
      BY <1>2, <3>1 DEF LimiterInv, LimiterTyped, Tracked
    <3>3. ASSUME NEW i \in Identities PROVE Counted(i)' = Counted(i)
      BY <3>1 DEF Counted, Tracked
    <3>4. CountsAllowed'
      BY <1>2, <3>1, <3>3 DEF LimiterInv, CountsAllowed
    <3> QED
      BY <3>2, <3>4 DEF LimiterInv
  <2> QED
    BY <1>2, <2>1, <2>2, <2>3 DEF LimiterNext
<1> QED
  BY <1>1, <1>2, PTL DEF LimiterSpec

(* While no identity has to make room, at most Limit calls are allowed in  *)
(* any period of Window seconds (server.py:74).                            *)
THEOREM AtMostLimit == LimiterSpec => []NeverMoreThanLimit
<1>1. ASSUME LimiterInv PROVE NeverMoreThanLimit
  <2>1. SUFFICES ASSUME Cardinality(callers) <= MaxIdentities, NEW i \in Identities
                 PROVE  Len(granted[i]) <= Limit
    BY DEF NeverMoreThanLimit
  <2>2. granted[i] = Counted(i) /\ Len(Counted(i)) \in 0 .. Limit
    BY <1>1, <2>1, CountedFacts DEF LimiterInv, CountsAllowed
  <2> QED
    BY <2>2, LimiterAssumption
<1> QED
  BY <1>1, LimiterInvariant, PTL

(* The age of a call is at least the sum of the gaps after it.             *)
LEMMA GapsAddUp ==
  ASSUME NEW N \in Nat, NEW c, \A k \in 1 .. N : c[k] \in Nat,
         NEW p \in 1 .. N, c[N] = 0,
         \A n \in p .. N - 1 : (c[n] - c[n + 1]) * Limit > Window
  PROVE  c[p] * Limit >= (N - p) * (Window + 1)
<1>0. Limit \in Nat /\ Window \in Nat
  BY LimiterAssumption
<1> DEFINE S == {x \in 0 .. N - p : ~ (c[N - x] * Limit >= x * (Window + 1))}
<1>1. SUFFICES ASSUME S # {} PROVE FALSE
  <2>1. N - p \in 0 .. N - p /\ N - (N - p) = p
    OBVIOUS
  <2> QED
    BY <1>0, <1>1, <2>1
<1>2. S \subseteq Nat
  OBVIOUS
<1> HIDE DEF S
<1>3. PICK x \in S : \A y \in S : x <= y
  BY <1>1, <1>2, Least
<1>4. x \in 0 .. N - p /\ ~ (c[N - x] * Limit >= x * (Window + 1))
  BY <1>3 DEF S
<1>5. x # 0
  <2> SUFFICES ASSUME x = 0 PROVE FALSE
    OBVIOUS
  <2>1. N - x = N /\ c[N] * Limit = 0 /\ x * (Window + 1) = 0
    BY <1>0
  <2> QED
    BY <1>4, <2>1
<1> DEFINE n == N - x
           y == x - 1
<1>6. /\ y \in 0 .. N - p /\ y < x /\ y \in Nat /\ x \in Nat
      /\ n \in p .. N - 1 /\ n \in 1 .. N /\ n + 1 \in 1 .. N /\ N - y = n + 1
  BY <1>4, <1>5
<1>7. c[n + 1] * Limit >= y * (Window + 1)
  <2>1. y \notin S
    BY <1>2, <1>3, <1>6
  <2> QED
    BY <1>6, <2>1 DEF S
<1>8. (c[n] - c[n + 1]) * Limit > Window
  BY <1>6
<1>9. c[n] \in Nat /\ c[n + 1] \in Nat
  BY <1>6
<1>10. x * (Window + 1) = y * (Window + 1) + (Window + 1)
  BY <1>0, <1>6
<1>11. (c[n] - c[n + 1]) * Limit = c[n] * Limit - c[n + 1] * Limit
  BY <1>0, <1>9
<1>12. ~ (c[n] * Limit >= x * (Window + 1))
  BY <1>4
<1> HIDE DEF n, y
<1> DEFINE a == c[n] * Limit
           b == c[n + 1] * Limit
           u == x * (Window + 1)
           v == y * (Window + 1)
<1>13. a \in Int /\ b \in Int /\ u \in Int /\ v \in Int
  BY <1>0, <1>6, <1>9
<1>14. b >= v /\ a - b > Window /\ u = v + (Window + 1) /\ ~ (a >= u)
  BY <1>7, <1>8, <1>10, <1>11, <1>12
<1> HIDE DEF a, b, u, v
<1> QED
  BY <1>0, <1>13, <1>14

(* A call is refused only if two of the calls before it, or the last one   *)
(* and it, are no more than Window / Limit seconds apart: the pairing poll *)
(* with its five seconds is never refused (network_manager.cpp:362).       *)
THEOREM RefusedOnlyIfClose == LimiterSpec => SpacedIsAllowed
<1>1. ASSUME LimiterInv, NEW i \in callers, Allow(i), ~ verdict'.allowed
      PROVE  LET calls == Append(granted[i], 0) IN
             \E n \in 1 .. Len(calls) - 1 : (calls[n] - calls[n + 1]) * Limit <= Window
  <2> DEFINE g == granted[i]
             calls == Append(g, 0)
             r == Counted(i)
  <2>1. /\ i \in Identities /\ g \in Seq(Nat) /\ EndsWith(g, r)
    BY <1>1 DEF LimiterInv, LimiterTyped, CountsAllowed
  <2>2. /\ r \in Seq(Nat) /\ Len(r) \in 0 .. Limit /\ (Len(r) = 0 \/ r[1] <= Window)
    BY <1>1, <2>1, CountedFacts DEF LimiterInv
  <2>3. ~ (Len(r) < Limit)
    BY <1>1, AllowCaller
  <2>4. /\ calls \in Seq(Nat) /\ Len(calls) = Len(g) + 1 /\ Len(g) \in Nat
        /\ \A k \in 1 .. Len(g) : calls[k] = g[k]
    BY <2>1, AppendProperties
  <2>5. calls[Len(g) + 1] = 0
    BY <2>1, AppendProperties
  <2>6. Limit \in Nat /\ Limit >= 1 /\ Window \in Nat
    BY LimiterAssumption
  <2> HIDE DEF r, calls, g
  <2> DEFINE N == Len(calls)
             p == (Len(g) - Limit) + 1
  <2>7. Len(r) = Limit /\ Len(r) # 0 /\ 1 \in 1 .. Len(r) /\ Limit <= Len(g)
    BY <2>1, <2>2, <2>3, <2>4, <2>6 DEF EndsWith
  <2>8. N \in Nat /\ p \in 1 .. N /\ N - p = Limit /\ p \in 1 .. Len(g) /\ calls[N] = 0
    BY <2>4, <2>5, <2>6, <2>7
  <2>9. calls[p] <= Window /\ calls[p] \in Nat
    <3>1. r[1] = g[(Len(g) - Len(r)) + 1]
      BY <2>1, <2>7 DEF EndsWith
    <3>2. calls[p] = r[1] /\ r[1] \in Nat
      BY <2>2, <2>4, <2>7, <2>8, <3>1, ElementOfSeq
    <3> QED
      BY <2>2, <2>7, <3>2
  <2>10. \A k \in 1 .. N : calls[k] \in Nat
    BY <2>4, ElementOfSeq
  <2> HIDE DEF N, p
  <2>11. SUFFICES ASSUME \A n \in 1 .. N - 1 : ~ ((calls[n] - calls[n + 1]) * Limit <= Window)
                  PROVE  FALSE
    BY DEF calls, g, N
  <2>12. \A n \in p .. N - 1 : (calls[n] - calls[n + 1]) * Limit > Window
    <3> SUFFICES ASSUME NEW n \in p .. N - 1 PROVE (calls[n] - calls[n + 1]) * Limit > Window
      OBVIOUS
    <3>1. n \in 1 .. N - 1 /\ n \in 1 .. N /\ n + 1 \in 1 .. N
      BY <2>8
    <3>2. calls[n] \in Nat /\ calls[n + 1] \in Nat
      BY <2>10, <3>1
    <3>3. (calls[n] - calls[n + 1]) * Limit \in Int
      BY <2>6, <3>2
    <3> QED
      BY <2>6, <2>11, <3>1, <3>3
  <2>13. calls[p] * Limit >= (N - p) * (Window + 1)
    BY <2>8, <2>10, <2>12, GapsAddUp
  <2>14. calls[p] * Limit >= Limit * (Window + 1)
    BY <2>8, <2>13
  <2>15. calls[p] * Limit <= Window * Limit
    BY <2>6, <2>9
  <2>16. Limit * (Window + 1) = Window * Limit + Limit
    BY <2>6
  <2>17. calls[p] * Limit \in Int /\ Window * Limit \in Int
    BY <2>6, <2>9
  <2> QED
    BY <2>6, <2>14, <2>15, <2>16, <2>17
<1>2. ASSUME LimiterInv, [LimiterNext]_limiterVars
      PROVE  [\A i \in callers : Allow(i) /\ ~verdict'.allowed =>
                LET calls == Append(granted[i], 0) IN
                \E n \in 1 .. Len(calls) - 1 : (calls[n] - calls[n + 1]) * Limit <= Window]_limiterVars
  BY <1>1, <1>2
<1> QED
  BY <1>2, LimiterInvariant, PTL DEF LimiterSpec, SpacedIsAllowed

----------------------------------------------------------------------------
(* The order of the last calls is total, so that room is made by keeping   *)
(* the latest: fewer than the limit.                                       *)
SinceInv ==
  /\ since \in [Tracked -> SUBSET Tracked]
  /\ \A i \in Tracked : i \notin since[i]
  /\ \A i, j \in Tracked : i # j => i \in since[j] \/ j \in since[i]
  /\ \A i, j \in Tracked : j \in since[i] => since[j] \subseteq since[i]

LEMMA RenewKeepsOrder ==
  ASSUME SinceInv, NEW i, NEW ages, NEW others, DOMAIN others \subseteq Tracked, Renew(i, ages, others)
  PROVE  SinceInv' /\ Tracked' = DOMAIN others \cup {i}
<1> DEFINE D == DOMAIN others
<1>1. /\ Tracked' = D \cup {i} /\ D \subseteq Tracked
      /\ since' = [j \in D \cup {i} |-> IF j = i THEN {} ELSE (since[j] \cap D) \cup {i}]
  BY DEF Renew, Tracked
<1> HIDE DEF D
<1>2. since' \in [Tracked' -> SUBSET Tracked']
  BY <1>1
<1>3. \A j \in Tracked' : j \notin since'[j]
  BY <1>1 DEF SinceInv
<1>4. \A j, k \in Tracked' : j # k => j \in since'[k] \/ k \in since'[j]
  BY <1>1 DEF SinceInv
<1>5. \A j, k \in Tracked' : k \in since'[j] => since'[k] \subseteq since'[j]
  BY <1>1 DEF SinceInv
<1> QED
  BY <1>1, <1>2, <1>3, <1>4, <1>5 DEF SinceInv, D

(* The one of those that stay which called longest ago: the others that    *)
(* stay called later.                                                      *)
LEMMA RoomIsMade ==
  ASSUME SinceInv, IsFiniteSet(Tracked)
  PROVE  /\ RoomMade \subseteq Tracked /\ IsFiniteSet(RoomMade)
         /\ Cardinality(RoomMade) <= MaxIdentities - 1
<1> DEFINE Later == [i \in Cleaned |-> Cardinality(since[i] \cap Cleaned)]
<1>1. Cleaned \subseteq Tracked /\ RoomMade \subseteq Cleaned
  BY DEF Cleaned, RoomMade
<1>2. IsFiniteSet(Cleaned) /\ IsFiniteSet(RoomMade)
  BY <1>1, FS_Subset
<1>3. Cardinality(Cleaned) \in Nat /\ Cardinality(RoomMade) \in Nat /\ MaxIdentities \in Nat \ {0}
  BY <1>2, FS_CardinalityType, LimiterAssumption
<1>4. CASE Cardinality(Cleaned) < MaxIdentities
  BY <1>1, <1>2, <1>3, <1>4 DEF RoomMade
<1>5. CASE RoomMade = {}
  BY <1>1, <1>2, <1>3, <1>5, FS_EmptySet
<1>6. CASE ~ (Cardinality(Cleaned) < MaxIdentities) /\ RoomMade # {}
  <2>1. \A i \in Cleaned : /\ Later[i] = Cardinality(since[i] \cap Cleaned)
                            /\ IsFiniteSet(since[i] \cap Cleaned) /\ Later[i] \in Nat
    BY <1>2, FS_Intersection, FS_CardinalityType
  <2>2. \A i \in RoomMade : i \in Cleaned /\ Later[i] \in Nat /\ Later[i] < MaxIdentities - 1
    BY <1>6, <2>1 DEF RoomMade
  <2> DEFINE Spare == {MaxIdentities - Later[i] : i \in RoomMade}
  <2> HIDE DEF Later
  <2>3. Spare \subseteq Nat /\ Spare # {}
    BY <1>3, <1>6, <2>2
  <2>4. PICK x \in Spare : \A y \in Spare : x <= y
    BY <2>3, Least
  <2>5. PICK m \in RoomMade : x = MaxIdentities - Later[m]
    BY <2>4
  <2>6. \A j \in RoomMade : Later[j] <= Later[m]
    <3> TAKE j \in RoomMade
    <3>1. MaxIdentities - Later[m] <= MaxIdentities - Later[j]
      BY <2>4, <2>5
    <3> QED
      BY <1>3, <2>2, <3>1
  <2>7. ASSUME NEW j \in RoomMade, j # m PROVE j \in since[m]
    <3>1. SUFFICES ASSUME m \in since[j] PROVE FALSE
      BY <1>1, <2>7 DEF SinceInv
    <3> DEFINE S == since[m] \cap Cleaned
               T == since[j] \cap Cleaned
    <3>2. S \cup {m} \subseteq T /\ m \notin S
      BY <1>1, <3>1 DEF SinceInv
    <3>3. IsFiniteSet(S) /\ IsFiniteSet(T) /\ Cardinality(S) = Later[m] /\ Cardinality(T) = Later[j]
      BY <2>1, <2>2
    <3> HIDE DEF S, T
    <3>4. Cardinality(S \cup {m}) = Cardinality(S) + 1 /\ IsFiniteSet(S \cup {m})
      BY <3>2, <3>3, FS_AddElement
    <3>5. Cardinality(S \cup {m}) <= Cardinality(T)
      BY <3>2, <3>3, FS_Subset
    <3> QED
      BY <2>2, <2>6, <3>3, <3>4, <3>5
  <2>8. RoomMade \ {m} \subseteq since[m] \cap Cleaned
    BY <1>1, <2>7
  <2>9. Cardinality(RoomMade \ {m}) = Cardinality(RoomMade) - 1
    BY <1>2, FS_RemoveElement
  <2>10. Cardinality(RoomMade \ {m}) <= Later[m]
    <3>1. m \in Cleaned /\ Later[m] = Cardinality(since[m] \cap Cleaned) /\ IsFiniteSet(since[m] \cap Cleaned)
      BY <2>1, <2>2
    <3> QED
      BY <2>8, <3>1, FS_Subset
  <2>11. Later[m] \in Nat /\ Later[m] < MaxIdentities - 1
    BY <2>1, <2>2
  <2> QED
    BY <1>1, <1>2, <1>3, <2>9, <2>10, <2>11
<1> QED
  BY <1>4, <1>5, <1>6

(* The ages that the limiter keeps are bounded, and its history is ordered. *)
OldestFirst(s) == \A m, n \in 1 .. Len(s) : m <= n => s[m] >= s[n]

LEMMA AgesAre ==
  ASSUME NEW S, NEW s \in Seq(Nat), \A k \in 1 .. Len(s) : s[k] \in S
  PROVE  s \in Seq(S)
<1>1. s \in [1 .. Len(s) -> Nat] /\ Len(s) \in Nat
  BY LenProperties
<1>2. s \in [1 .. Len(s) -> S]
  BY <1>1
<1> QED
  BY <1>1, <1>2, SeqDef

LEMMA DroppedAges ==
  ASSUME NEW B \in Nat, NEW s \in Seq(0 .. B), NEW oldest \in Nat
  PROVE  /\ Dropped(s, oldest) \in Seq(0 .. B)
         /\ OldestFirst(s) => /\ OldestFirst(Dropped(s, oldest))
                              /\ Dropped(s, oldest) \in Seq(0 .. oldest)
<1> DEFINE r == Dropped(s, oldest)
           n == TooOld(s, oldest)
<1>1. s \in Seq(Nat)
  BY SeqMonotonic
<1>2. /\ n \in 0 .. Len(s) /\ (n = Len(s) \/ s[n + 1] <= oldest)
      /\ r \in Seq(Nat) /\ Len(r) = Len(s) - n /\ Len(s) \in Nat
      /\ \A k \in 1 .. Len(r) : k + n \in 1 .. Len(s) /\ r[k] = s[k + n]
  BY <1>1, DroppedFacts DEF OldUntil
<1> HIDE DEF r, n
<1>3. \A k \in 1 .. Len(s) : s[k] \in 0 .. B
  BY ElementOfSeq
<1>4. \A k \in 1 .. Len(r) : r[k] \in 0 .. B
  BY <1>2, <1>3
<1>5. r \in Seq(0 .. B)
  BY <1>2, <1>4, AgesAre
<1>6. ASSUME OldestFirst(s) PROVE OldestFirst(r) /\ r \in Seq(0 .. oldest)
  <2>1. ASSUME NEW j \in 1 .. Len(r), NEW k \in 1 .. Len(r), j <= k PROVE r[j] >= r[k]
    <3>1. j + n \in 1 .. Len(s) /\ k + n \in 1 .. Len(s) /\ j + n <= k + n
      BY <1>2, <2>1
    <3> QED
      BY <1>2, <1>6, <3>1 DEF OldestFirst
  <2>2. ASSUME NEW k \in 1 .. Len(r) PROVE r[k] \in 0 .. oldest
    <3>1. 1 \in 1 .. Len(r) /\ 1 <= k /\ 1 + n = n + 1 /\ n # Len(s)
      BY <1>2
    <3>2. r[1] >= r[k]
      BY <2>1, <3>1
    <3>3. r[1] = s[n + 1] /\ s[n + 1] <= oldest
      BY <1>2, <3>1
    <3>4. r[1] \in Nat /\ r[k] \in Nat
      BY <1>4, <3>1
    <3> QED
      BY <3>2, <3>3, <3>4
  <2>3. r \in Seq(0 .. oldest)
    BY <1>2, <2>2, AgesAre
  <2> QED
    BY <2>1, <2>3 DEF OldestFirst
<1> QED
  BY <1>5, <1>6 DEF r

LEMMA OlderAges ==
  ASSUME NEW s \in Seq(0 .. Window + 1)
  PROVE  Older(s) \in Seq(0 .. Window + 1) /\ (OldestFirst(s) => OldestFirst(Older(s)))
<1> DEFINE r == Older(s)
<1>1. s \in Seq(Nat) /\ Window \in Nat
  BY SeqMonotonic, LimiterAssumption
<1>2. /\ r \in Seq(Nat) /\ Len(r) = Len(s) /\ Len(s) \in Nat
      /\ \A k \in 1 .. Len(s) : s[k] \in Nat /\ r[k] = IF s[k] > Window THEN s[k] ELSE s[k] + 1
  BY <1>1, OlderFacts
<1> HIDE DEF r
<1>3. \A k \in 1 .. Len(s) : s[k] \in 0 .. Window + 1
  BY ElementOfSeq
<1>4. ASSUME NEW k \in 1 .. Len(r) PROVE r[k] \in 0 .. Window + 1
  <2>1. k \in 1 .. Len(s) /\ s[k] \in 0 .. Window + 1
    BY <1>2, <1>3
  <2>2. r[k] = IF s[k] > Window THEN s[k] ELSE s[k] + 1
    BY <1>2, <2>1
  <2> QED
    BY <1>1, <2>1, <2>2
<1>5. r \in Seq(0 .. Window + 1)
  BY <1>2, <1>4, AgesAre
<1>6. OldestFirst(s) => OldestFirst(r)
  BY <1>1, <1>2 DEF OldestFirst
<1> QED
  BY <1>5, <1>6 DEF r

LEMMA NewestLast ==
  ASSUME NEW B \in Nat, NEW s \in Seq(0 .. B)
  PROVE  /\ Append(s, 0) \in Seq(0 .. B) /\ LastCalls(Append(s, 0)) \in Seq(0 .. B)
         /\ OldestFirst(s) => OldestFirst(LastCalls(Append(s, 0)))
<1> DEFINE a == Append(s, 0)
           l == LastCalls(a)
<1>1. /\ Len(s) \in Nat /\ 0 \in 0 .. B
      /\ \A k \in 1 .. Len(s) : s[k] \in 0 .. B
  BY LenProperties, ElementOfSeq
<1>2. /\ a \in Seq(0 .. B) /\ a # <<>> /\ Len(a) = Len(s) + 1
      /\ \A k \in 1 .. Len(s) : a[k] = s[k]
      /\ a[Len(s) + 1] = 0
  BY <1>1, AppendProperties
<1> HIDE DEF a
<1>3. /\ Tail(a) \in Seq(0 .. B) /\ Len(Tail(a)) = Len(a) - 1
      /\ \A k \in 1 .. Len(Tail(a)) : Tail(a)[k] = a[k + 1]
  BY <1>2, HeadTailProperties
<1>4. l = a \/ l = Tail(a)
  BY DEF LastCalls
<1>5. ASSUME OldestFirst(s) PROVE OldestFirst(a) /\ OldestFirst(Tail(a))
  <2>1. ASSUME NEW j \in 1 .. Len(a), NEW k \in 1 .. Len(a), j <= k PROVE a[j] >= a[k]
    <3>1. CASE k = Len(s) + 1
      <4>1. j \in 1 .. Len(s) \/ j = Len(s) + 1
        BY <1>1, <1>2
      <4>2. a[j] >= 0
        BY <1>1, <1>2, <4>1
      <4> QED
        BY <1>2, <3>1, <4>2
    <3>2. CASE k # Len(s) + 1
      <4>1. k \in 1 .. Len(s) /\ j \in 1 .. Len(s)
        BY <1>1, <1>2, <2>1, <3>2
      <4> QED
        BY <1>2, <1>5, <2>1, <4>1 DEF OldestFirst
    <3> QED
      BY <3>1, <3>2
  <2>2. ASSUME NEW j \in 1 .. Len(Tail(a)), NEW k \in 1 .. Len(Tail(a)), j <= k
        PROVE  Tail(a)[j] >= Tail(a)[k]
    <3>1. j + 1 \in 1 .. Len(a) /\ k + 1 \in 1 .. Len(a) /\ j + 1 <= k + 1
      BY <1>1, <1>2, <1>3, <2>2
    <3> QED
      BY <1>3, <2>1, <3>1
  <2> QED
    BY <2>1, <2>2 DEF OldestFirst
<1> HIDE DEF l
<1>6. l \in Seq(0 .. B) /\ (OldestFirst(s) => OldestFirst(l))
  BY <1>2, <1>3, <1>4, <1>5
<1> QED
  BY <1>2, <1>6 DEF a, l

AgesInv ==
  /\ \A i \in Tracked : attempts[i] \in Seq(0 .. Window + 1)
  /\ granted \in [Identities -> Seq(0 .. Window)]
  /\ \A i \in Identities : OldestFirst(granted[i])

LimiterBounds ==
  /\ SinceInv /\ AgesInv
  /\ Tracked \subseteq callers /\ Cardinality(Tracked) <= MaxIdentities
  /\ callers \subseteq Identities /\ verdict \in [identity : Identities, allowed : BOOLEAN]

LEMMA TickBounds == ASSUME LimiterBounds, LimiterTick PROVE LimiterBounds'
<1>1. /\ Tracked' = Tracked /\ callers' = callers /\ since' = since /\ verdict' = verdict
      /\ \A i \in Tracked : attempts'[i] = Older(attempts[i])
      /\ granted' = [i \in Identities |-> Dropped(Older(granted[i]), Window)]
  BY DEF LimiterTick, Tracked
<1>2. SinceInv'
  BY <1>1 DEF LimiterBounds, SinceInv
<1>3. \A i \in Tracked : attempts'[i] \in Seq(0 .. Window + 1)
  BY <1>1, OlderAges DEF LimiterBounds, AgesInv
<1>4. ASSUME NEW i \in Identities PROVE granted'[i] \in Seq(0 .. Window) /\ OldestFirst(granted'[i])
  <2>1. Window \in Nat /\ Window + 1 \in Nat /\ 0 .. Window \subseteq 0 .. Window + 1
    BY LimiterAssumption
  <2>2. granted[i] \in Seq(0 .. Window + 1) /\ OldestFirst(granted[i])
    BY <2>1, SeqMonotonic DEF LimiterBounds, AgesInv
  <2>3. Older(granted[i]) \in Seq(0 .. Window + 1) /\ OldestFirst(Older(granted[i]))
    BY <2>2, OlderAges
  <2>4. granted'[i] = Dropped(Older(granted[i]), Window)
    BY <1>1
  <2> QED
    BY <2>1, <2>3, <2>4, DroppedAges
<1>5. granted' \in [Identities -> Seq(0 .. Window)]
  <2>1. DOMAIN granted' = Identities /\ granted' = [i \in Identities |-> granted'[i]]
    BY <1>1
  <2> QED
    BY <1>4, <2>1
<1>6. AgesInv'
  BY <1>1, <1>3, <1>4, <1>5 DEF AgesInv
<1> QED
  BY <1>1, <1>2, <1>6 DEF LimiterBounds

LEMMA AllowBounds == ASSUME LimiterBounds, NEW i \in callers, Allow(i) PROVE LimiterBounds'
<1> DEFINE recent == IF i \in Tracked THEN Recent(attempts[i]) ELSE <<>>
           ages == IF RoomLeft(recent) THEN Append(recent, 0) ELSE recent
           others == IF i \in Tracked THEN attempts ELSE [j \in RoomMade |-> Recent(attempts[j])]
<1>1. /\ Renew(i, ages, others)
      /\ verdict' = [identity |-> i, allowed |-> RoomLeft(recent)]
      /\ granted' = IF RoomLeft(recent) THEN [granted EXCEPT ![i] = LastCalls(Append(granted[i], 0))]
                    ELSE granted
      /\ callers' = callers
  BY DEF Allow
<1>2. Window \in Nat /\ Window + 1 \in Nat /\ MaxIdentities \in Nat \ {0}
  BY LimiterAssumption
<1>3. IsFiniteSet(Tracked) /\ Cardinality(Tracked) \in Nat
  <2>1. IsFiniteSet(callers)
    BY LimiterAssumption, FS_Subset DEF LimiterBounds
  <2> QED
    BY <2>1, FS_Subset, FS_CardinalityType DEF LimiterBounds
<1>4. \A j \in Tracked : attempts[j] \in Seq(0 .. Window + 1)
                         /\ Recent(attempts[j]) \in Seq(0 .. Window + 1)
  BY <1>2, DroppedAges DEF LimiterBounds, AgesInv, Recent
<1>5. recent \in Seq(0 .. Window + 1)
  BY <1>4, EmptySeq
<1>6. verdict' \in [identity : Identities, allowed : BOOLEAN]
  <2>1. i \in Identities /\ RoomLeft(recent) \in BOOLEAN
    BY DEF LimiterBounds, RoomLeft
  <2> HIDE DEF recent
  <2> QED
    BY <1>1, <2>1
<1> HIDE DEF recent
<1>7. ages \in Seq(0 .. Window + 1)
  BY <1>2, <1>5, NewestLast
<1> HIDE DEF ages
<1>8. /\ DOMAIN others \subseteq Tracked
      /\ \A j \in DOMAIN others : others[j] \in Seq(0 .. Window + 1)
      /\ Cardinality(DOMAIN others \cup {i}) <= MaxIdentities
  <2>1. CASE i \in Tracked
    <3>1. others = attempts /\ DOMAIN others \cup {i} = Tracked
      BY <2>1 DEF Tracked
    <3> HIDE DEF others
    <3> QED
      BY <1>4, <3>1 DEF LimiterBounds, Tracked
  <2>2. CASE i \notin Tracked
    <3>1. DOMAIN others = RoomMade /\ \A j \in RoomMade : others[j] = Recent(attempts[j])
      BY <2>2
    <3> HIDE DEF others
    <3>2. /\ RoomMade \subseteq Tracked /\ IsFiniteSet(RoomMade)
          /\ Cardinality(RoomMade) <= MaxIdentities - 1
      BY <1>3, RoomIsMade DEF LimiterBounds
    <3>3. Cardinality(RoomMade) \in Nat /\ Cardinality(RoomMade \cup {i}) = Cardinality(RoomMade) + 1
      BY <2>2, <3>2, FS_AddElement, FS_CardinalityType
    <3>4. Cardinality(RoomMade \cup {i}) <= MaxIdentities
      BY <1>2, <3>2, <3>3
    <3> QED
      BY <1>4, <3>1, <3>2, <3>4
  <2> QED
    BY <2>1, <2>2
<1> HIDE DEF others
<1>9. SinceInv' /\ Tracked' = DOMAIN others \cup {i}
  BY <1>1, <1>8, RenewKeepsOrder DEF LimiterBounds
<1>10. \A j \in Tracked' : attempts'[j] \in Seq(0 .. Window + 1)
  <2>1. attempts' = [j \in DOMAIN others \cup {i} |-> IF j = i THEN ages ELSE others[j]]
    BY <1>1 DEF Renew
  <2> QED
    BY <1>7, <1>8, <1>9, <2>1
<1>11. granted' \in [Identities -> Seq(0 .. Window)] /\ \A j \in Identities : OldestFirst(granted'[j])
  <2>1. i \in Identities /\ granted \in [Identities -> Seq(0 .. Window)]
    BY DEF LimiterBounds, AgesInv
  <2>2. \A j \in Identities : granted[j] \in Seq(0 .. Window) /\ OldestFirst(granted[j])
    BY <2>1 DEF LimiterBounds, AgesInv
  <2>3. /\ LastCalls(Append(granted[i], 0)) \in Seq(0 .. Window)
        /\ OldestFirst(LastCalls(Append(granted[i], 0)))
    BY <1>2, <2>1, <2>2, NewestLast
  <2>4. CASE granted' = [granted EXCEPT ![i] = LastCalls(Append(granted[i], 0))]
    BY <2>1, <2>2, <2>3, <2>4
  <2>5. CASE granted' = granted
    BY <2>1, <2>2, <2>5
  <2> QED
    BY <1>1, <2>4, <2>5
<1>12. Tracked' \subseteq callers' /\ Cardinality(Tracked') <= MaxIdentities /\ callers' \subseteq Identities
  BY <1>1, <1>8, <1>9 DEF LimiterBounds
<1> QED
  BY <1>6, <1>9, <1>10, <1>11, <1>12 DEF LimiterBounds, AgesInv

(* The limiter never keeps more identities than it may, each with no more  *)
(* attempts than the limit, and it forgets the ones that called longest    *)
(* ago (server.py:88).                                                     *)
THEOREM LimiterTypes == LimiterSpec => []LimiterTypeOK
<1>1. ASSUME LimiterInit PROVE LimiterBounds
  <2>1. Tracked = {} /\ since = [i \in {} |-> {}] /\ callers \in (SUBSET Identities) \ {{}}
        /\ granted = [i \in Identities |-> <<>>]
        /\ verdict = [identity |-> CHOOSE i \in callers : TRUE, allowed |-> TRUE]
    BY <1>1 DEF LimiterInit, Tracked
  <2>2. Cardinality(Tracked) <= MaxIdentities
    BY <2>1, FS_EmptySet, LimiterAssumption
  <2>3. SinceInv
    BY <2>1 DEF SinceInv
  <2>4. <<>> \in Seq(0 .. Window) /\ OldestFirst(<<>>)
    BY EmptySeq DEF OldestFirst
  <2>5. AgesInv
    BY <2>1, <2>4 DEF AgesInv
  <2>6. verdict \in [identity : Identities, allowed : BOOLEAN]
    <3>1. \E i \in callers : TRUE
      BY <2>1
    <3>2. (CHOOSE i \in callers : TRUE) \in callers
      BY <3>1, Zenon
    <3>3. verdict = [identity |-> CHOOSE i \in callers : TRUE, allowed |-> TRUE]
      BY <2>1
    <3> QED
      BY <2>1, <3>2, <3>3
  <2> QED
    BY <2>1, <2>2, <2>3, <2>5, <2>6 DEF LimiterBounds
<1>2. ASSUME LimiterBounds, [LimiterNext]_limiterVars PROVE LimiterBounds'
  <2>1. CASE LimiterTick
    BY <1>2, <2>1, TickBounds
  <2>2. CASE \E i \in callers : Allow(i)
    BY <1>2, <2>2, AllowBounds
  <2>3. CASE UNCHANGED limiterVars
    BY <1>2, <2>3 DEF limiterVars, LimiterBounds, SinceInv, AgesInv, Tracked
  <2> QED
    BY <1>2, <2>1, <2>2, <2>3 DEF LimiterNext
<1>3. LimiterBounds /\ LimiterInv => LimiterTypeOK
  BY DEF LimiterBounds, SinceInv, AgesInv, LimiterInv, LimiterTyped, LimiterTypeOK
<1> QED
  BY <1>1, <1>2, <1>3, LimiterInvariant, PTL DEF LimiterSpec

----------------------------------------------------------------------------
(* The pairing.                                                            *)

USE StoreAssumption, WindowAssumption

Approved(d) == pending[d] # None /\ pending[d].token # None

PairedAsksNoMore ==
  \A d \in Devices : stored[d] # None => pending[d] = None /\ step[d] = "idle"

RowIsIssued(d) ==
  /\ devices[d] = pending[d].token \/ pending[d].token \in withdrawn
  /\ issuedFor[pending[d].token] = <<d, pending[d].code>>
  /\ pending[d].token \notin handed

RowsAreIssued == \A d \in Devices : Approved(d) => RowIsIssued(d)

PairingInv == PairingTypeOK /\ PairedAsksNoMore /\ RowsAreIssued /\ KeptTokenIsAccepted

----------------------------------------------------------------------------
(* What a purge leaves is what was there, or nothing.                      *)

LEMMA PurgedRows ==
  ASSUME PairingTypeOK
  PROVE  /\ Purged \in [Devices -> Request \cup {None}]
         /\ \A d \in Devices : Purged[d] = pending[d] \/ Purged[d] = None
BY DEF PairingTypeOK, Purged

(* Taking rows away, ageing them, or replacing them by rows that are not   *)
(* approved, breaks nothing.                                               *)
FewerApprovals ==
  \A d \in Devices :
    Approved(d)' => /\ Approved(d)
                    /\ pending'[d].token = pending[d].token
                    /\ pending'[d].code = pending[d].code

LEMMA FewerApprovalsAreIssued ==
  ASSUME RowsAreIssued, FewerApprovals,
         UNCHANGED <<devices, issuedFor, handed, withdrawn>>
  PROVE  RowsAreIssued'
BY DEF RowsAreIssued, FewerApprovals, RowIsIssued

LEMMA PurgeIsFewer ==
  ASSUME PairingTypeOK, pending' = Purged
  PROVE  /\ FewerApprovals
         /\ pending' \in [Devices -> Request \cup {None}]
         /\ \A d \in Devices : pending[d] = None => pending'[d] = None
BY PurgedRows DEF FewerApprovals, Approved

----------------------------------------------------------------------------
(* The device asks.                                                        *)

LEMMA PairingInvInit == PairingInit => PairingInv
BY DEF PairingInit, StoreInit, PairingInv, PairingTypeOK, PairedAsksNoMore, RowsAreIssued, Approved,
       KeptTokenIsAccepted

LEMMA RequestLostInv ==
  ASSUME PairingInv, NEW d \in Devices, RequestLost(d) PROVE PairingInv'
BY DEF PairingInv, RequestLost, store, history, PairingTypeOK, PairedAsksNoMore, RowsAreIssued,
       RowIsIssued, Approved, KeptTokenIsAccepted

LEMMA RequestPairingRows ==
  ASSUME PairingTypeOK, NEW d \in Devices, NEW c \in Codes, RequestPairing(d, c)
  PROVE  /\ FewerApprovals
         /\ pending' \in [Devices -> Request \cup {None}]
         /\ \A e \in Devices \ {d} : pending[e] = None => pending'[e] = None
         /\ devices' = devices
<1>1. CASE pending' = Purged
  BY <1>1, PurgeIsFewer DEF RequestPairing
<1>2. CASE pending' = [Purged EXCEPT ![d] = NewRequest(d, c)]
  <2>1. 0 \in Ages  BY DEF Ages
  <2>2. NewRequest(d, c) \in Request  BY <2>1 DEF NewRequest, Request
  <2>3. NewRequest(d, c).token = None  BY DEF NewRequest
  <2>4. pending' \in [Devices -> Request \cup {None}]  BY <1>2, <2>2, PurgedRows
  <2>5. pending'[d] = NewRequest(d, c)  BY <1>2, PurgedRows
  <2>6. \A e \in Devices \ {d} : pending'[e] = pending[e] \/ pending'[e] = None
    BY <1>2, PurgedRows
  <2>7. FewerApprovals  BY <2>3, <2>5, <2>6 DEF FewerApprovals, Approved
  <2> QED  BY <2>4, <2>6, <2>7 DEF RequestPairing
<1> QED  BY <1>1, <1>2 DEF RequestPairing

LEMMA RequestArrivesInv ==
  ASSUME PairingInv, NEW d \in Devices, RequestArrives(d) PROVE PairingInv'
<1>1. PICK c \in Codes : RequestPairing(d, c) /\ screen' = [screen EXCEPT ![d] = c]
  BY DEF RequestArrives
<1>2. /\ FewerApprovals
      /\ pending' \in [Devices -> Request \cup {None}]
      /\ \A e \in Devices \ {d} : pending[e] = None => pending'[e] = None
      /\ devices' = devices
  BY <1>1, RequestPairingRows DEF PairingInv
<1>3. /\ UNCHANGED <<stored, noted, issuedFor, handed, withdrawn>>
      /\ stored[d] = None
  BY DEF RequestArrives, Idle, history
<1>4. 0 \in 0 .. PollWindow  BY DEF WindowAssumption
<1>5. PairingTypeOK'
  <2>1. step' \in [Devices -> {"idle", "polling"}] /\ waited' \in [Devices -> 0 .. PollWindow]
    BY <1>4 DEF PairingInv, PairingTypeOK, RequestArrives
  <2>2. screen' \in [Devices -> Codes \cup {None}]
    BY <1>1 DEF PairingInv, PairingTypeOK
  <2> QED  BY <2>1, <2>2, <1>2, <1>3 DEF PairingInv, PairingTypeOK
<1>6. PairedAsksNoMore'
  BY <1>2, <1>3 DEF PairingInv, PairedAsksNoMore, PairingTypeOK, RequestArrives
<1>7. RowsAreIssued'
  BY <1>2, <1>3, FewerApprovalsAreIssued DEF PairingInv
<1>8. KeptTokenIsAccepted'
  BY <1>2, <1>3 DEF PairingInv, KeptTokenIsAccepted
<1> QED  BY <1>5, <1>6, <1>7, <1>8 DEF PairingInv

(* A poll that brings nothing: the rows are purged at most.                *)
LEMMA NothingCollectedInv ==
  ASSUME PairingInv, NEW d \in Devices,
         pending' = Purged \/ pending' = pending,
         step' = step \/ GivesUp(d),
         UNCHANGED <<devices, screen, waited, stored, noted, issuedFor, handed, withdrawn>>
  PROVE  PairingInv'
<1>1. /\ FewerApprovals
      /\ pending' \in [Devices -> Request \cup {None}]
      /\ \A e \in Devices : pending[e] = None => pending'[e] = None
  BY PurgeIsFewer DEF PairingInv, PairingTypeOK, FewerApprovals, Approved
<1>2. PairingTypeOK'  BY <1>1 DEF PairingInv, PairingTypeOK, GivesUp
<1>3. PairedAsksNoMore'
  BY <1>1 DEF PairingInv, PairedAsksNoMore, PairingTypeOK, GivesUp
<1>4. RowsAreIssued'  BY <1>1, FewerApprovalsAreIssued DEF PairingInv
<1>5. KeptTokenIsAccepted'  BY DEF PairingInv, KeptTokenIsAccepted
<1> QED  BY <1>2, <1>3, <1>4, <1>5 DEF PairingInv

----------------------------------------------------------------------------
(* The device collects its approval.                                       *)

LEMMA CollectedRow ==
  ASSUME PairingTypeOK, RowsAreIssued, NEW d \in Devices, PollApproved(d)
  PROVE  /\ Approved(d) /\ RowIsIssued(d)
         /\ Purged[d] = pending[d] /\ pending[d] \in Request
         /\ pending[d].token \in Tokens /\ pending[d].code = screen[d]
         /\ pending' = [Purged EXCEPT ![d] = None]
         /\ devices' = devices /\ handed' = handed \cup {pending[d].token}
         /\ stored' = [stored EXCEPT ![d] = pending[d].token] \/ stored' = stored
<1>1. Purged[d] # None /\ Purged[d].code = screen[d] /\ Purged[d].token # None
  BY DEF PollApproved, ConsumeApproval, Known
<1>2. Purged[d] = pending[d] /\ pending[d] \in Request
  BY <1>1, PurgedRows DEF PairingTypeOK
<1>3. pending[d].token \in Tokens  BY <1>1, <1>2 DEF Request
<1>4. Approved(d) /\ RowIsIssued(d)  BY <1>1, <1>2 DEF Approved, RowsAreIssued
<1> QED
  BY <1>1, <1>2, <1>3, <1>4 DEF PollApproved, ConsumeApproval, AfterCollection

LEMMA PollApprovedInv ==
  ASSUME PairingInv, NEW d \in Devices, PollApproved(d) PROVE PairingInv'
<1> DEFINE t == pending[d].token
<1>1. /\ Approved(d) /\ RowIsIssued(d) /\ t \in Tokens
      /\ pending' = [Purged EXCEPT ![d] = None]
      /\ devices' = devices /\ handed' = handed \cup {t}
      /\ stored' = [stored EXCEPT ![d] = t] \/ stored' = stored
  BY CollectedRow DEF PairingInv
<1>2. UNCHANGED <<screen, waited, noted, issuedFor, withdrawn>> /\ GivesUp(d)
  BY DEF PollApproved
<1>3. /\ pending' \in [Devices -> Request \cup {None}] /\ pending'[d] = None
      /\ \A e \in Devices : pending'[e] = pending[e] \/ pending'[e] = None
  BY <1>1, PurgedRows DEF PairingInv
<1>4. PairingTypeOK'
  <2>1. stored' \in [Devices -> Tokens \cup {None}] /\ handed' \subseteq Tokens
    BY <1>1 DEF PairingInv, PairingTypeOK
  <2>2. step' \in [Devices -> {"idle", "polling"}]
    BY <1>2 DEF PairingInv, PairingTypeOK, GivesUp
  <2> QED  BY <2>1, <2>2, <1>1, <1>2, <1>3 DEF PairingInv, PairingTypeOK
<1>5. PairedAsksNoMore'
  <2> SUFFICES ASSUME NEW e \in Devices, stored'[e] # None
               PROVE  pending'[e] = None /\ step'[e] = "idle"
    BY DEF PairedAsksNoMore
  <2>1. CASE e = d  BY <2>1, <1>2, <1>3 DEF GivesUp, PairingInv, PairingTypeOK
  <2>2. CASE e # d
    BY <2>2, <1>1, <1>2, <1>3 DEF GivesUp, PairingInv, PairingTypeOK, PairedAsksNoMore
  <2> QED  BY <2>1, <2>2
<1>6. RowsAreIssued'
  <2> SUFFICES ASSUME NEW e \in Devices, Approved(e)'  PROVE RowIsIssued(e)'
    BY DEF RowsAreIssued
  <2>1. e # d /\ pending'[e] = pending[e] /\ Approved(e)
    BY <1>3 DEF Approved
  <2>2. RowIsIssued(e)  BY <2>1 DEF PairingInv, RowsAreIssued
  <2>3. pending[e].token # t
    BY <2>1, <2>2, <1>1 DEF RowIsIssued
  <2> QED  BY <2>1, <2>2, <2>3, <1>1, <1>2 DEF RowIsIssued
<1>7. KeptTokenIsAccepted'
  <2> SUFFICES ASSUME NEW e \in Devices, stored'[e] # None
               PROVE  devices'[e] = stored'[e] \/ stored'[e] \in withdrawn'
    BY DEF KeptTokenIsAccepted
  <2>1. CASE stored'[e] = stored[e]
    BY <2>1, <1>1, <1>2 DEF PairingInv, KeptTokenIsAccepted
  <2>2. CASE stored'[e] # stored[e]
    <3>1. e = d /\ stored'[e] = t  BY <2>2, <1>1 DEF PairingInv, PairingTypeOK
    <3> QED  BY <3>1, <1>1, <1>2 DEF RowIsIssued
  <2> QED  BY <2>1, <2>2
<1> QED  BY <1>4, <1>5, <1>6, <1>7 DEF PairingInv

LEMMA ForgetTokenInv ==
  ASSUME PairingInv, NEW d \in Devices, ForgetToken(d) PROVE PairingInv'
<1>1. PairingTypeOK'
  BY DEF PairingInv, ForgetToken, store, history, PairingTypeOK
<1>2. \A e \in Devices : stored'[e] # None => stored'[e] = stored[e]
  BY DEF PairingInv, ForgetToken, PairingTypeOK
<1>3. PairedAsksNoMore' /\ KeptTokenIsAccepted'
  BY <1>2 DEF PairingInv, ForgetToken, store, history, PairedAsksNoMore, KeptTokenIsAccepted
<1>4. RowsAreIssued'
  BY DEF PairingInv, ForgetToken, store, history, RowsAreIssued, RowIsIssued, Approved
<1> QED  BY <1>1, <1>3, <1>4 DEF PairingInv

LEMMA DeviceInv ==
  ASSUME PairingInv, NEW d \in Devices, Device(d) PROVE PairingInv'
<1>1. CASE RequestLost(d)  BY <1>1, RequestLostInv
<1>2. CASE RequestArrives(d)  BY <1>2, RequestArrivesInv
<1>3. CASE PollLost(d) \/ PollRejected(d) \/ WindowEnds(d)
  BY <1>3, NothingCollectedInv DEF PollLost, PollRejected, WindowEnds, store, history
<1>4. CASE PollPending(d)
  BY <1>4, NothingCollectedInv DEF PollPending, NotApproved, history
<1>5. CASE PollApproved(d)  BY <1>5, PollApprovedInv
<1>6. CASE ForgetToken(d)  BY <1>6, ForgetTokenInv
<1> QED  BY <1>1, <1>2, <1>3, <1>4, <1>5, <1>6 DEF Device

----------------------------------------------------------------------------
(* The person, and time.                                                   *)

(* What an approval changes: one device without a token in flash, whose    *)
(* row, and nobody else's, shows the code.                                 *)
LEMMA TypedCode ==
  ASSUME PairingTypeOK, NEW c \in Codes, TypeCode(c)
  PROVE  \E d \in Devices, t \in Tokens \ InUse :
           /\ Matching(c) = {d} /\ pending[d] # None
           /\ devices' = [devices EXCEPT ![d] = t]
           /\ pending' \in [Devices -> Request \cup {None}]
           /\ pending'[d] = [code |-> c, token |-> t, age |-> 0]
           /\ \A e \in Devices \ {d} : pending'[e] = pending[e] \/ pending'[e] = None
           /\ issuedFor' = [issuedFor EXCEPT ![t] = <<d, c>>]
           /\ handed' = handed \ {t} /\ withdrawn' = withdrawn \ {t}
           /\ UNCHANGED <<step, screen, waited, stored, noted>>
<1>1. PICK d \in Devices, t \in Tokens \ InUse :
        /\ ApprovePairing(d, c, t)
        /\ issuedFor' = [issuedFor EXCEPT ![t] = <<d, c>>]
        /\ handed' = handed \ {t} /\ withdrawn' = withdrawn \ {t}
        /\ UNCHANGED <<device, noted>>
  BY DEF TypeCode
<1> DEFINE row == [code |-> c, token |-> t, age |-> 0]
<1>2. Matching(c) = {d} /\ devices' = [devices EXCEPT ![d] = t]
      /\ pending' = [Purged EXCEPT ![d] = row]
  BY <1>1 DEF ApprovePairing
<1>3. pending[d] # None
  <2>1. d \in Matching(c)  BY <1>2
  <2> QED  BY <2>1, PurgedRows DEF Matching
<1>4. row \in Request
  <2>1. 0 \in Ages  BY DEF Ages
  <2> QED  BY <2>1 DEF Request
<1>5. /\ pending' \in [Devices -> Request \cup {None}] /\ pending'[d] = row
      /\ \A e \in Devices \ {d} : pending'[e] = pending[e] \/ pending'[e] = None
  <2> HIDE DEF row
  <2> QED  BY <1>2, <1>4, PurgedRows
<1> QED  BY <1>1, <1>2, <1>3, <1>5 DEF device

LEMMA TypeCodeInv ==
  ASSUME PairingInv, NEW c \in Codes, TypeCode(c) PROVE PairingInv'
<1>1. PICK d \in Devices, t \in Tokens \ InUse :
        /\ Matching(c) = {d} /\ pending[d] # None
        /\ devices' = [devices EXCEPT ![d] = t]
        /\ pending' \in [Devices -> Request \cup {None}]
        /\ pending'[d] = [code |-> c, token |-> t, age |-> 0]
        /\ \A e \in Devices \ {d} : pending'[e] = pending[e] \/ pending'[e] = None
        /\ issuedFor' = [issuedFor EXCEPT ![t] = <<d, c>>]
        /\ handed' = handed \ {t} /\ withdrawn' = withdrawn \ {t}
        /\ UNCHANGED <<step, screen, waited, stored, noted>>
  BY TypedCode DEF PairingInv
<1>2. \A e \in Devices : devices[e] # t /\ stored[e] # t /\ (pending[e] # None => pending[e].token # t)
  BY DEF InUse
<1>3. stored[d] = None  BY <1>1 DEF PairingInv, PairedAsksNoMore
<1>4. PairingTypeOK'  BY <1>1 DEF PairingInv, PairingTypeOK
<1>5. PairedAsksNoMore'
  <2> SUFFICES ASSUME NEW e \in Devices, stored'[e] # None
               PROVE  pending'[e] = None /\ step'[e] = "idle"
    BY DEF PairedAsksNoMore
  <2>1. e # d /\ stored[e] # None  BY <1>1, <1>3
  <2> QED  BY <2>1, <1>1 DEF PairingInv, PairedAsksNoMore
<1>6. RowsAreIssued'
  <2> SUFFICES ASSUME NEW e \in Devices, Approved(e)'  PROVE RowIsIssued(e)'
    BY DEF RowsAreIssued
  <2>1. CASE e = d
    <3>1. pending'[e].token = t /\ pending'[e].code = c  BY <2>1, <1>1
    <3>2. devices'[e] = t  BY <2>1, <1>1 DEF PairingInv, PairingTypeOK
    <3>3. issuedFor'[t] = <<e, c>>  BY <2>1, <1>1 DEF PairingInv, PairingTypeOK
    <3> QED  BY <3>1, <3>2, <3>3, <1>1 DEF RowIsIssued
  <2>2. CASE e # d
    <3>1. pending'[e] = pending[e] /\ Approved(e)  BY <2>2, <1>1 DEF Approved
    <3>2. RowIsIssued(e) /\ pending[e].token # t
      BY <3>1, <1>2 DEF PairingInv, RowsAreIssued, Approved
    <3>3. issuedFor'[pending[e].token] = issuedFor[pending[e].token]
      <4>1. pending[e].token \in Tokens
        BY <3>1 DEF Approved, PairingInv, PairingTypeOK, Request
      <4> QED  BY <4>1, <3>2, <1>1 DEF PairingInv, PairingTypeOK
    <3>4. devices'[e] = devices[e]  BY <2>2, <1>1 DEF PairingInv, PairingTypeOK
    <3> QED  BY <3>1, <3>2, <3>3, <3>4, <1>1 DEF RowIsIssued
  <2> QED  BY <2>1, <2>2
<1>7. KeptTokenIsAccepted'
  <2> SUFFICES ASSUME NEW e \in Devices, stored'[e] # None
               PROVE  devices'[e] = stored'[e] \/ stored'[e] \in withdrawn'
    BY DEF KeptTokenIsAccepted
  <2>1. stored'[e] = stored[e] /\ e # d  BY <1>1, <1>3
  <2>2. devices'[e] = devices[e]  BY <2>1, <1>1 DEF PairingInv, PairingTypeOK
  <2> QED  BY <2>1, <2>2, <1>1, <1>2 DEF PairingInv, KeptTokenIsAccepted
<1> QED  BY <1>4, <1>5, <1>6, <1>7 DEF PairingInv

LEMMA RevokeDeviceInv ==
  ASSUME PairingInv, NEW d \in Devices, RevokeDevice(d) PROVE PairingInv'
<1>1. /\ devices' = [devices EXCEPT ![d] = None] /\ withdrawn' = withdrawn \cup {devices[d]}
      /\ devices[d] # None
      /\ UNCHANGED <<pending, step, screen, waited, stored, noted, issuedFor, handed>>
  BY DEF RevokeDevice, Revoke, device
<1>2. devices[d] \in Tokens  BY <1>1 DEF PairingInv, PairingTypeOK
<1>3. \A t : \A e \in Devices : devices[e] = t \/ t \in withdrawn => devices'[e] = t \/ t \in withdrawn'
  BY <1>1 DEF PairingInv, PairingTypeOK
<1>4. PairingTypeOK'  BY <1>1, <1>2 DEF PairingInv, PairingTypeOK
<1>5. PairedAsksNoMore'  BY <1>1 DEF PairingInv, PairedAsksNoMore
<1>6. RowsAreIssued'  BY <1>1, <1>3 DEF PairingInv, RowsAreIssued, Approved, RowIsIssued
<1>7. KeptTokenIsAccepted'  BY <1>1, <1>3 DEF PairingInv, KeptTokenIsAccepted
<1> QED  BY <1>4, <1>5, <1>6, <1>7 DEF PairingInv

LEMMA PersonInv ==
  ASSUME PairingInv, Person PROVE PairingInv'
<1>1. CASE \E d \in Devices : ReadCode(d)
  <2> PICK d \in Devices : ReadCode(d)  BY <1>1
  <2>1. PairingTypeOK'  BY DEF PairingInv, PairingTypeOK, ReadCode, store, device, history
  <2>2. PairedAsksNoMore' /\ KeptTokenIsAccepted'
    BY DEF PairingInv, PairedAsksNoMore, KeptTokenIsAccepted, ReadCode, store, device, history
  <2>3. RowsAreIssued'
    BY DEF PairingInv, RowsAreIssued, RowIsIssued, Approved, ReadCode, store, device, history
  <2> QED  BY <2>1, <2>2, <2>3 DEF PairingInv
<1>2. CASE \E d \in Devices : RevokeDevice(d)  BY <1>2, RevokeDeviceInv
<1>3. CASE noted # None /\ TypeCode(noted)
  BY <1>3, TypeCodeInv DEF PairingInv, PairingTypeOK
<1>4. CASE ListPending /\ UNCHANGED <<device, noted, history>>
  <2>1. /\ pending' = Purged /\ step' = step
        /\ UNCHANGED <<devices, screen, waited, stored, noted, issuedFor, handed, withdrawn>>
    BY <1>4 DEF ListPending, device, history
  <2>2. CASE Devices = {}
    BY <2>1, <2>2, PurgedRows
    DEF PairingInv, PairingTypeOK, PairedAsksNoMore, RowsAreIssued, KeptTokenIsAccepted
  <2>3. CASE Devices # {}
    <3> PICK d \in Devices : TRUE  BY <2>3
    <3> QED  BY <2>1, NothingCollectedInv
  <2> QED  BY <2>2, <2>3
<1> QED  BY <1>1, <1>2, <1>3, <1>4 DEF Person

LEMMA AgedRow ==
  ASSUME NEW r \in Request
  PROVE  LET aged == [r EXCEPT !.age = IF @ < PairingTtl + ApprovalTtl + 1 THEN @ + 1 ELSE @]
         IN  aged \in Request /\ aged.token = r.token /\ aged.code = r.code
BY DEF Request, Ages

LEMMA PairingTickInv ==
  ASSUME PairingInv, PairingTick PROVE PairingInv'
<1>1. \A d \in Devices : pending[d] = None => pending'[d] = None
  BY DEF PairingTick, RowsAge
<1>2. \A d \in Devices : pending[d] # None =>
        pending'[d] \in Request /\ pending'[d].token = pending[d].token
        /\ pending'[d].code = pending[d].code
  <2> SUFFICES ASSUME NEW d \in Devices, pending[d] # None
               PROVE  pending'[d] \in Request /\ pending'[d].token = pending[d].token
                      /\ pending'[d].code = pending[d].code
    OBVIOUS
  <2>1. pending[d] \in Request  BY DEF PairingInv, PairingTypeOK
  <2> QED  BY <2>1, AgedRow DEF PairingTick, RowsAge
<1>3. pending' \in [Devices -> Request \cup {None}]
  BY <1>1, <1>2 DEF PairingTick, RowsAge
<1>4. waited' \in [Devices -> 0 .. PollWindow]
  BY DEF PairingTick, PairingInv, PairingTypeOK
<1>5. FewerApprovals  BY <1>1, <1>2 DEF FewerApprovals, Approved
<1>6. UNCHANGED <<devices, step, screen, stored, noted, issuedFor, handed, withdrawn>>
  BY DEF PairingTick, RowsAge, history
<1>7. PairingTypeOK'  BY <1>3, <1>4, <1>6 DEF PairingInv, PairingTypeOK
<1>8. PairedAsksNoMore' /\ KeptTokenIsAccepted'
  BY <1>1, <1>6 DEF PairingInv, PairedAsksNoMore, KeptTokenIsAccepted
<1>9. RowsAreIssued'  BY <1>5, <1>6, FewerApprovalsAreIssued DEF PairingInv
<1> QED  BY <1>7, <1>8, <1>9 DEF PairingInv

LEMMA PairingInvStep ==
  ASSUME PairingInv, [PairingNext]_pairingVars PROVE PairingInv'
<1>1. CASE \E d \in Devices : Device(d)  BY <1>1, DeviceInv
<1>2. CASE Person  BY <1>2, PersonInv
<1>3. CASE PairingTick  BY <1>3, PairingTickInv
<1>4. CASE UNCHANGED pairingVars
  BY <1>4 DEF pairingVars, store, device, history, PairingInv, PairingTypeOK, PairedAsksNoMore,
              RowsAreIssued, RowIsIssued, Approved, KeptTokenIsAccepted
<1> QED  BY <1>1, <1>2, <1>3, <1>4 DEF PairingNext

LEMMA PairingInvHolds == PairingSpec => []PairingInv
<1>1. PairingInit => PairingInv  BY PairingInvInit
<1>2. PairingInv /\ [PairingNext]_pairingVars => PairingInv'  BY PairingInvStep
<1> QED  BY <1>1, <1>2, PTL DEF PairingSpec

----------------------------------------------------------------------------
(* The theorems.                                                           *)

(* The variables have their types in every behaviour.                      *)
THEOREM PairingTypes == PairingSpec => []PairingTypeOK
BY PairingInvHolds, PTL DEF PairingInv

(* A token that a device keeps is accepted by the host until somebody      *)
(* revokes the device, whatever calls were lost and codes typed twice.     *)
THEOREM TokensAreKept == PairingSpec => []KeptTokenIsAccepted
BY PairingInvHolds, PTL DEF PairingInv

(* What a device stores was issued for it and for the code on its display, *)
(* and was not handed out before.                                          *)
THEOREM TokensFitCodes == PairingSpec => TokenFitsCode
<1> DEFINE Fits ==
      \A d \in Devices :
        stored'[d] # stored[d] /\ stored'[d] # None =>
          issuedFor[stored'[d]] = <<d, screen[d]>> /\ stored'[d] \notin handed
<1>1. ASSUME PairingInv, PairingNext PROVE Fits
  <2> SUFFICES ASSUME NEW d \in Devices, stored'[d] # stored[d], stored'[d] # None
               PROVE  issuedFor[stored'[d]] = <<d, screen[d]>> /\ stored'[d] \notin handed
    OBVIOUS
  <2>1. PICK e \in Devices : PollApproved(e) \/ ForgetToken(e)
    BY <1>1 DEF PairingNext, Device, Person, PairingTick, RequestLost, RequestArrives, PollLost,
                PollPending, PollRejected, WindowEnds, ReadCode, RevokeDevice, TypeCode, device
  <2>2. PollApproved(e)
    BY <1>1, <2>1 DEF ForgetToken, PairingInv, PairingTypeOK
  <2>3. /\ Approved(e) /\ RowIsIssued(e) /\ pending[e].code = screen[e]
        /\ stored' = [stored EXCEPT ![e] = pending[e].token]
    BY <1>1, <2>2, CollectedRow DEF PairingInv
  <2>4. e = d /\ stored'[d] = pending[e].token
    BY <1>1, <2>3 DEF PairingInv, PairingTypeOK
  <2> QED  BY <2>3, <2>4 DEF RowIsIssued
<1>2. PairingInv /\ [PairingNext]_pairingVars => [Fits]_pairingVars  BY <1>1
<1> QED  BY <1>2, PairingInvHolds, PTL DEF PairingSpec, TokenFitsCode

(* Typing a code that two displays show, with both requests open, pairs    *)
(* neither of them.                                                        *)
THEOREM CodesAreUnambiguous == PairingSpec => ApprovalIsUnambiguous
<1> DEFINE Clear ==
      \A d, e \in Devices :
        /\ devices'[d] \notin {devices[d], None}
        /\ e # d /\ Polling(e) /\ Known(e, screen[e]) /\ Purged[e].token = None
        => screen[e] # issuedFor'[devices'[d]][2]
<1>1. ASSUME PairingInv, PairingNext PROVE Clear
  <2> SUFFICES ASSUME NEW d \in Devices, NEW e \in Devices,
                      devices'[d] \notin {devices[d], None}, e # d,
                      Known(e, screen[e]), Purged[e].token = None
               PROVE  screen[e] # issuedFor'[devices'[d]][2]
    OBVIOUS
  <2>1. (\E x \in Devices : RevokeDevice(x)) \/ (noted # None /\ TypeCode(noted))
    BY <1>1 DEF PairingNext, Device, Person, PairingTick, RowsAge, RequestLost, RequestArrives,
                RequestPairing, PollLost, PollPending, NotApproved, PollRejected, PollApproved,
                ConsumeApproval, WindowEnds, ForgetToken, ReadCode, ListPending, store
  <2>2. noted # None /\ TypeCode(noted)
    BY <1>1, <2>1 DEF RevokeDevice, Revoke, PairingInv, PairingTypeOK
  <2>3. PICK x \in Devices, t \in Tokens :
          /\ Matching(noted) = {x} /\ devices' = [devices EXCEPT ![x] = t]
          /\ issuedFor' = [issuedFor EXCEPT ![t] = <<x, noted>>]
    BY <1>1, <2>2, TypedCode DEF PairingInv, PairingTypeOK
  <2>4. x = d /\ devices'[d] = t /\ issuedFor'[t] = <<d, noted>>
    BY <1>1, <2>3 DEF PairingInv, PairingTypeOK
  <2>5. Purged[e].code = screen[e] /\ Purged[e] # None  BY DEF Known
  <2>6. screen[e] # noted  BY <2>3, <2>4, <2>5 DEF Matching
  <2> QED  BY <2>4, <2>6
<1>2. PairingInv /\ [PairingNext]_pairingVars => [Clear]_pairingVars  BY <1>1
<1> QED  BY <1>2, PairingInvHolds, PTL DEF PairingSpec, ApprovalIsUnambiguous

=============================================================================
