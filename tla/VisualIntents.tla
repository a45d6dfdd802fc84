--------------------------- MODULE VisualIntents ---------------------------
(***************************************************************************)
(* What the MediaService promises about the visuals it publishes, apart    *)
(* from how it gets them: ARCHITECTURE.md, "Artwork transaction            *)
(* ownership".  There is one current intent.  It may find a source, lose   *)
(* it again, and is decided at most once: by its own source, or by the     *)
(* fallback.  Cover, palette and generation change together, and until an  *)
(* intent is decided the visuals of the last decided one stay published.   *)
(***************************************************************************)
EXTENDS Naturals

CONSTANTS
  Sources,      (* what a cover can be made from                           *)
  Generations,  (* nonzero names of intents                                *)
  Fallback,     (* the deliberate fallback                                 *)
  None          (* no source, or nothing published yet                     *)

VARIABLES
  intent,       (* the current intent, 0 before the first                  *)
  source,       (* its source                                              *)
  visual        (* what is published: a source and the intent it decided   *)

abstractVars == <<intent, source, visual>>

Init ==
  /\ intent = 0
  /\ source = None
  /\ visual = [source |-> None, generation |-> 0]

Decided == intent # 0 /\ visual.generation = intent

(* A new track or a new URL abandons the intent, decided or not.           *)
Begin ==
  /\ \E g \in Generations : g # visual.generation /\ intent' = g
  /\ source' \in Sources \cup {None}
  /\ UNCHANGED visual

(* The source of the intent is reported late, or given up in a gap.        *)
FindSource == source = None /\ ~ Decided /\ source' \in Sources /\ UNCHANGED <<intent, visual>>

LoseSource == source # None /\ ~ Decided /\ source' = None /\ UNCHANGED <<intent, visual>>

(* The intent is decided.                                                  *)
Decide ==
  /\ intent # 0
  /\ ~ Decided
  /\ \/ source # None /\ visual' = [source |-> source, generation |-> intent]
     \/ visual' = [source |-> Fallback, generation |-> intent]
  /\ UNCHANGED <<intent, source>>

Next == Begin \/ FindSource \/ LoseSource \/ Decide

Spec == Init /\ [][Next]_abstractVars
============================================================================
