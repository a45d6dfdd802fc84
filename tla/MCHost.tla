------------------------------- MODULE MCHost -------------------------------
(***************************************************************************)
(* Instances of the host's parts for TLC.  The parts of one run share no     *)
(* variable, so that a behaviour of all of them is one behaviour of each:    *)
(* Init picks the part that is looked at, and the others stay as they are.   *)
(***************************************************************************)
EXTENDS MprisBackend, DeviceSession, DevicePairing, RateLimiter, ArtworkCache

CONSTANT Parts
CONSTANTS d1, d2, c1, c2, t1, t2, t3

VARIABLE part
hostVars == <<part, backendVars, sessionVars, pairingVars, limiterVars, cacheVars>>

(* The other parts wait in an initial state of theirs. *)
HostInit ==
    /\ part \in Parts
    /\ BackendInit /\ SessionInit /\ PairingInit /\ LimiterInit /\ CacheInit
    /\ part # "limiter" => callers = Identities
    /\ part # "backend" => ~busAlive /\ names = {} /\ preferred = NoPlayer
                           /\ status = [p \in Players |-> "stopped"]

HostNext ==
    /\ UNCHANGED part
    /\ \/ part = "backend" /\ BackendNext /\ UNCHANGED <<sessionVars, pairingVars, limiterVars, cacheVars>>
       \/ part = "session" /\ SessionNext /\ UNCHANGED <<backendVars, pairingVars, limiterVars, cacheVars>>
       \/ part = "pairing" /\ PairingNext /\ UNCHANGED <<backendVars, sessionVars, limiterVars, cacheVars>>
       \/ part = "limiter" /\ LimiterNext /\ UNCHANGED <<backendVars, sessionVars, pairingVars, cacheVars>>
       \/ part = "cache" /\ CacheNext /\ UNCHANGED <<backendVars, sessionVars, pairingVars, limiterVars>>

(* Type invariant. *)
HostTypeOK == BackendTypeOK /\ SessionTypeOK /\ PairingTypeOK /\ LimiterTypeOK /\ CacheTypeOK

HostSpec == HostInit /\ [][HostNext]_hostVars

(* What the host's event loop and its time limits guarantee.  The poll task's *)
(* calls end, and on a working bus the second player answers now and then,    *)
(* while the other need never answer; a session's handler and its sender run  *)
(* on.  Devices that pair go on, some of their calls arrive and are answered, *)
(* and the person now and then types the code while the device still polls.   *)
(* The threads of the cover cache end, and the service asks for covers again  *)
(* and again.                                                               *)
FairHost ==
    /\ HostSpec
    /\ WF_backendVars(part = "backend" /\ Poll)
    /\ SF_backendVars(part = "backend" /\ Poll /\ Scan)
    /\ SF_backendVars(part = "backend" /\ Responds(2))
    /\ WF_sessionVars(part = "session" /\ Handler)
    /\ WF_sessionVars(part = "session" /\ SendUpdate)
    /\ WF_cacheVars(part = "cache" /\ \E j \in strays : StrayWorks(j))
    /\ WF_cacheVars(part = "cache" /\ (CallWorks \/ FetchFails \/ \E s \in Sources : Resolve(s)))
    /\ \A d \in Devices :
        /\ WF_pairingVars(part = "pairing" /\ RequestArrives(d) /\ step'[d] = "polling")
        /\ WF_pairingVars(part = "pairing" /\ (WindowEnds(d) \/ PollRejected(d)))
        /\ SF_pairingVars(part = "pairing" /\ Polling(d) /\ TypeCode(screen[d]))
        /\ SF_pairingVars(part = "pairing" /\ PollApproved(d) /\ stored'[d] # None)

TwoPlayers == {1, 2}
TwoStatuses == {"playing", "stopped"}
ThreeRequests == {1, 2, 3}
TwoRequests == {1, 2}
BothOutcomes == {"success", "failure"}
OneDevice == {d1}
TwoDevices == {d1, d2}
TwoCodes == {c1, c2}
TwoTokens == {t1, t2}
Symmetric == Permutations(TwoDevices) \cup Permutations(TwoCodes) \cup Permutations(TwoTokens)

(* PlayingIsShown (the poll loop, mpris.py:360) for the player that loses    *)
(* every tie by name.                                                      *)
SecondIsShown == PlayingIsShown(2)
=============================================================================
