--------------------------- MODULE PlayerSelection ---------------------------
(***************************************************************************)
(* Which of several media players the host shows: select_active_player of  *)
(* models.py.  Players are numbers, since the code breaks ties by sorting   *)
(* their identifiers.                                                      *)
(***************************************************************************)
EXTENDS Naturals, FiniteSets

CONSTANTS Players,   \* the players that may exist
          Statuses,  \* PlaybackStatus
          NoPlayer       \* no player (None in the code)

ASSUME PlayersAssumption ==
    /\ Players \subseteq Nat /\ NoPlayer \notin Nat
    /\ {"playing", "stopped"} \subseteq Statuses

First(S) == CHOOSE p \in S : \A q \in S : p <= q

(* seen[p] is the status of each player that has a snapshot. *)
Playing(seen) == {p \in DOMAIN seen : seen[p] = "playing"}

(* A slip: the first by name, whoever was shown before. *)
PreferFirst(S, previous, preferred) == IF preferred \in S THEN preferred ELSE First(S)

(* Among equals: the explicit preference, then the previous one, then the   *)
(* first by name.                                                          *)
Prefer(S, previous, preferred) ==
    IF preferred \in S THEN preferred
    ELSE IF previous \in S THEN previous
    ELSE First(S)

(* A slip: a preference that is honoured before looking at who plays. *)
SelectAnyone(seen, previous, preferred) ==
    IF DOMAIN seen = {} THEN NoPlayer ELSE Prefer(DOMAIN seen, previous, preferred)

SelectActivePlayer(seen, previous, preferred) ==
    IF DOMAIN seen = {} THEN NoPlayer
    ELSE IF Playing(seen) # {} THEN Prefer(Playing(seen), previous, preferred)
    ELSE Prefer(DOMAIN seen, previous, preferred)
=============================================================================
