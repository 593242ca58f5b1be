---------------------------- MODULE MCPersistence ----------------------------
(* Small instances of Persistence for TLC. *)
EXTENDS Persistence

\* The second chat has the longer name.
MCNameLength == [c \in Chats |-> c]
=============================================================================
