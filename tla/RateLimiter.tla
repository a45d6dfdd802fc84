----------------------------- MODULE RateLimiter -----------------------------
(***************************************************************************)
(* The sliding-window limiter in front of the pairing endpoints (server.py). *)
(* Attempts are kept by their age in ticks, oldest first.                   *)
(***************************************************************************)
EXTENDS Naturals, FiniteSets, Sequences

CONSTANTS Identities, Limit, Window, MaxIdentities

ASSUME LimiterAssumption ==
    /\ Limit \in Nat \ {0} /\ Window \in Nat \ {0} /\ MaxIdentities \in Nat \ {0}
    /\ IsFiniteSet(Identities)

VARIABLES
    callers,      \* the addresses that call at all
    attempts,     \* _attempts: the ages for each identity that it has
    since,        \* its order: for each identity those that called later
    granted,      \* history: ages of the calls allowed in the last Window
    verdict       \* the last answer, with its identity

limiterVars == <<callers, attempts, since, granted, verdict>>

LimiterInit ==
    /\ callers \in (SUBSET Identities) \ {{}}
    /\ attempts = [i \in {} |-> <<>>] /\ since = [i \in {} |-> {}]
    /\ granted = [i \in Identities |-> <<>>]
    /\ verdict = [identity |-> CHOOSE i \in callers : TRUE, allowed |-> TRUE]

(* How many are taken off the front until one is not too old. *)
TooOld(ages, oldest) ==
    CHOOSE n \in 0 .. Len(ages) :
        /\ \A m \in 1 .. n : ages[m] > oldest
        /\ n = Len(ages) \/ ages[n + 1] <= oldest
Dropped(ages, oldest) == SubSeq(ages, TooOld(ages, oldest) + 1, Len(ages))

(* A slip: the attempt exactly at the limit is dropped. *)
RecentOpen(ages) == Dropped(ages, Window - 1)
(* A slip: attempts are never dropped. *)
RecentAll(ages) == ages
Recent(ages) == Dropped(ages, Window)

Tracked == DOMAIN attempts

(* Before a new identity is entered, identities without recent attempts go,  *)
(* and if that is not enough the ones that called longest ago.              *)
Cleaned == {i \in Tracked : Recent(attempts[i]) # <<>>}
RoomMade == IF Cardinality(Cleaned) < MaxIdentities THEN Cleaned
            ELSE {i \in Cleaned : Cardinality(since[i] \cap Cleaned) < MaxIdentities - 1}

(* The history needs no more than the last Limit + 1 calls. *)
LastCalls(calls) == IF Len(calls) > Limit + 1 THEN Tail(calls) ELSE calls

(* A slip: one too many. *)
RoomForOneMore(ages) == Len(ages) <= Limit
RoomLeft(ages) == Len(ages) < Limit

(* The attempts of an identity with the ages it then has, the others with    *)
(* theirs; it has called last.                                              *)
Renew(i, ages, others) ==
    /\ attempts' = [j \in DOMAIN others \cup {i} |-> IF j = i THEN ages ELSE others[j]]
    /\ since' = [j \in DOMAIN others \cup {i} |->
                    IF j = i THEN {} ELSE (since[j] \cap DOMAIN others) \cup {i}]

Allow(i) ==
    LET recent == IF i \in Tracked THEN Recent(attempts[i]) ELSE <<>>
        allowed == RoomLeft(recent)
    IN  /\ Renew(i, IF allowed THEN Append(recent, 0) ELSE recent,
                 IF i \in Tracked THEN attempts ELSE [j \in RoomMade |-> Recent(attempts[j])])
        /\ verdict' = [identity |-> i, allowed |-> allowed]
        /\ granted' = IF allowed THEN [granted EXCEPT ![i] = LastCalls(Append(@, 0))] ELSE granted
        /\ UNCHANGED callers

Older(ages) == [n \in DOMAIN ages |-> IF ages[n] > Window THEN ages[n] ELSE ages[n] + 1]
LimiterTick ==
    /\ attempts' = [i \in Tracked |-> Older(attempts[i])]
    /\ granted' = [i \in Identities |-> Dropped(Older(granted[i]), Window)]
    /\ UNCHANGED <<callers, since, verdict>>

LimiterNext == LimiterTick \/ \E i \in callers : Allow(i)
LimiterSpec == LimiterInit /\ [][LimiterNext]_limiterVars

-----------------------------------------------------------------------------
LimiterTypeOK ==
    /\ callers \subseteq Identities /\ Tracked \subseteq callers
    /\ Cardinality(Tracked) <= MaxIdentities /\ since \in [Tracked -> SUBSET Tracked]
    /\ \A i \in Tracked : attempts[i] \in Seq(0 .. Window + 1) /\ Len(attempts[i]) <= Limit
    /\ granted \in [Identities -> Seq(0 .. Window)]
    /\ verdict \in [identity : Identities, allowed : BOOLEAN]

(* While no identity has to make room, at most Limit calls are allowed in any *)
(* period of Window seconds, its ends included (server.py:74).              *)
NeverMoreThanLimit ==
    Cardinality(callers) <= MaxIdentities => \A i \in Identities : Len(granted[i]) <= Limit

(* A device that keeps its calls more than Window / Limit seconds apart, as   *)
(* the pairing poll with its five seconds and the time of its HTTP calls, is *)
(* never refused (network_manager.cpp:362).                                 *)
SpacedIsAllowed ==
    [][\A i \in callers : Allow(i) /\ ~verdict'.allowed =>
          LET calls == Append(granted[i], 0) IN
          \E n \in 1 .. Len(calls) - 1 : (calls[n] - calls[n + 1]) * Limit <= Window]_limiterVars
=============================================================================
