-------------------------- MODULE MCDisplayArtwork --------------------------
(***************************************************************************)
(* Instances of DisplayArtwork for TLC.                                    *)
(***************************************************************************)
EXTENDS DisplayArtwork, TLC

CONSTANTS x, y, a, b, c

(* Tracks a and b differ in nothing but names.                             *)
TrackSymmetry == Permutations({a, b})

(* A track's id is named like its title.                                   *)
Playing(title)   == [id |-> title, title |-> title, player |-> "active"]
NothingOn        == [id |-> None, title |-> None, player |-> "none"]
Untitled(player) == [id |-> None, title |-> None, player |-> player]

TwoTracks     == {Playing(a), Playing(b)}
TracksAndIdle == {Playing(a), Playing(b), NothingOn}
IdleAndBack   == {Playing(c), Untitled("stopped"), Untitled("active")}
AllTracks     == TwoTracks \cup IdleAndBack

Cover(id, g)   == [id |-> id, generation |-> g]

(* One cover; two covers in turn; a cover, then the fallback.              *)
OneCover     == {Cover(x, 1)}
TwoCovers    == {Cover(x, 1), Cover(y, 2)}
ThenFallback == {Cover(x, 1), Cover(None, 2)}

============================================================================
