------------------------------- MODULE MCPeers -------------------------------
(* Small instances of Peers for TLC. *)
EXTENDS Peers

MCNum == [p \in Peers |-> p]
MCPartner == [e \in SecretChats |-> "u"]

\* The titles of two peers differ, at times, or one looks like the other with a number.
MCTitles ==
  LET a == [text |-> "A", nos |-> <<>>]
      a1 == [text |-> "A", nos |-> <<1>>]
  IN  [p \in Peers |-> IF p \in {"me", "e"} THEN {a} ELSE {a, a1}]
=============================================================================
