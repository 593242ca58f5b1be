----------------------------- MODULE MCIncoming -----------------------------
(* Small instances of Incoming for TLC. *)
EXTENDS Incoming, TLC

CONSTANTS me, bob, grp, news, mega

Msg(from, to, sid, media, reply, old) ==
  [from |-> from, to |-> to, sid |-> sid, media |-> media, reply |-> reply, old |-> old]

MCPeerId == [p \in Peers |-> (me :> 1 @@ bob :> 2 @@ grp :> 3 @@ news :> 4 @@ mega :> 5)[p]]

\* A picture from bob, two messages to a chat, of which one quotes an older one, and
\* two messages of a megagroup: one below the history threshold, and a picture.
MixedMsgs ==
  {Msg(bob, me, 1, "load", FALSE, FALSE),
   Msg(bob, grp, 2, "none", FALSE, FALSE), Msg(bob, grp, 3, "none", TRUE, FALSE),
   Msg(bob, mega, 1, "none", FALSE, TRUE), Msg(bob, mega, 2, "load", FALSE, FALSE)}

\* Four messages of a channel, more than a history page holds, with a deleted one
\* between them, and a private message that waits for a picture.
HoleMsgs ==
  {Msg(news, news, 1, "none", FALSE, FALSE), Msg(news, news, 2, "load", FALSE, FALSE),
   Msg(news, news, 4, "none", FALSE, FALSE), Msg(news, news, 5, "none", FALSE, FALSE),
   Msg(bob, me, 1, "load", FALSE, FALSE)}
=============================================================================
