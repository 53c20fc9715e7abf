---------------------------- MODULE SlidingHealth ----------------------------
(***************************************************************************)
(* What the sensor health of the detector promises to remember: of the     *)
(* last Size non-empty log lines, which ones did not have the structure of *)
(* the protection log.                                                     *)
(***************************************************************************)
EXTENDS Naturals, Sequences

CONSTANT Size  \* how many lines are remembered

VARIABLE recent  \* the last lines, oldest first: TRUE for a wrong structure

Init == recent = <<>>

Line(wrong) ==
  recent' = IF Len(recent) < Size THEN Append(recent, wrong)
                                  ELSE Append(Tail(recent), wrong)

Next == \E wrong \in BOOLEAN : Line(wrong)

Spec == Init /\ [][Next]_recent
=============================================================================
