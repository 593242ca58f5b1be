----------------------------- MODULE PrintedLog -----------------------------
(***************************************************************************)
(* What the message window promises, without saying how messages become    *)
(* printable: libpurple's log is immutable, so printed only ever grows at  *)
(* its end; what was accepted is not forgotten, not printed twice and      *)
(* keeps its order; and all of it is printed in the end, unless the        *)
(* connection goes away, which empties both logs.                          *)
(***************************************************************************)
EXTENDS Naturals, Sequences, SequencesExt

CONSTANT MaxLength        \* bound of the liveness property

VARIABLES accepted, printed
vars == <<accepted, printed>>

Items(s) == {s[i] : i \in DOMAIN s}

\* The pairs of items that s puts in this order.
Order(s) == {p \in Items(s) \X Items(s) :
              \E i, j \in DOMAIN s : i < j /\ s[i] = p[1] /\ s[j] = p[2]}

Init == accepted = <<>> /\ printed = <<>>

\* Accept new items, in front of none that is printed, and print some.
Extend ==
  /\ IsPrefix(printed, printed')
  /\ IsPrefix(printed', accepted')
  /\ Items(accepted) \subseteq Items(accepted')
  /\ Order(accepted) \subseteq Order(accepted')

Disconnect == accepted' = <<>> /\ printed' = <<>>

Next == Extend \/ Disconnect

SafetySpec == Init /\ [][Next]_vars

\* The n-th accepted item is printed, or the connection ends.
Printing ==
  \A n \in 1 .. MaxLength :
    Len(accepted) >= n ~> (Len(printed) >= n \/ accepted = <<>>)

Spec == SafetySpec /\ Printing
=============================================================================
