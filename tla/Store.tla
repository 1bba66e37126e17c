-------------------------------- MODULE Store --------------------------------
(***************************************************************************)
(* What the state store promises everyone who edits a copy of the state    *)
(* (session/state/write.ts: "Applies this process's changes to whatever is *)
(* on disk now").  An item is one edit: a chat, a message, a queued turn,  *)
(* a title.  It is made in a copy, is stored once, and leaves the disk     *)
(* only because someone took it out, its chat was deleted, or, for a       *)
(* title, another was stored in its place.  What has left stays away.      *)
(***************************************************************************)
EXTENDS Naturals

CONSTANT Chats

Kinds == {"chat", "title", "queued", "message"}
Items == [chat : Chats, kind : Kinds, n : Nat]

VARIABLES made,     \* the items made so far
          here,     \* those a reader finds on disk
          gone,     \* those that were there and are not any more
          dropped,  \* those someone took out of a copy
          deleted   \* the chats someone deleted in a copy

storeVars == <<made, here, gone, dropped, deleted>>

Init ==
  /\ made \subseteq Items /\ here = made
  /\ gone = {} /\ dropped = {} /\ deleted = {}

Make ==
  /\ made \subseteq made' /\ made' \subseteq Items
  /\ UNCHANGED <<here, gone, dropped, deleted>>

\* One item is taken out, or a chat with all that is in it.
Remove ==
  /\ dropped \subseteq dropped' /\ deleted \subseteq deleted'
  /\ UNCHANGED <<made, here, gone>>

MayLeave(i, stored) ==
  \/ i \in dropped \/ i.chat \in deleted
  \/ i.kind = "title"
     /\ \E j \in stored : j.chat = i.chat /\ j.kind = "title"

\* One write reaches the disk: everything it stores and takes out, at once.
Write ==
  /\ here' \subseteq made /\ here' \cap gone = {}
  /\ \A i \in here \ here' : MayLeave(i, here' \ here)
  /\ gone' = gone \cup (here \ here')
  /\ UNCHANGED <<made, dropped, deleted>>

Next == Make \/ Remove \/ Write

Spec == Init /\ [][Next]_storeVars
=============================================================================
