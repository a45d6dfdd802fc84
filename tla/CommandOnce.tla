------------------------------ MODULE CommandOnce ------------------------------
(***************************************************************************)
(* What the protocol promises about control commands (PROTOCOL.md,          *)
(* "command_result"): every request is executed before it is answered, every *)
(* answer is the outcome of the request's own execution, and a request is   *)
(* not executed again while it is among the last MaxResults that were.      *)
(***************************************************************************)
EXTENDS Naturals, Sequences

CONSTANTS Sequences,    \* the sequence numbers of requests
          Outcomes,     \* what a command may return
          MaxResults    \* how many results are remembered

VARIABLES remembered,   \* the last requests executed, with their outcomes, oldest first
          given         \* the answer given last, or <<>>

absVars == <<remembered, given>>

Entry == [request : Sequences, outcome : Outcomes]

Init == remembered = <<>> /\ given = <<>>

Known(r) == \E i \in DOMAIN remembered : remembered[i].request = r

(* Execution, answer and remembering are one step: the answer goes out with  *)
(* the entry.                                                              *)
Execute ==
    \E e \in Entry :
        /\ ~Known(e.request)
        /\ remembered' = IF Len(remembered) < MaxResults THEN Append(remembered, e)
                         ELSE Append(Tail(remembered), e)
        /\ given' = <<e>>

Repeat ==
    \E i \in DOMAIN remembered :
        given' = <<remembered[i]>> /\ UNCHANGED remembered

(* The session ends, and a new one remembers nothing. *)
End == remembered' = <<>> /\ given' = <<>>

Next == Execute \/ Repeat \/ End

Spec == Init /\ [][Next]_absVars
=============================================================================
