-------------------------------- MODULE Mailbox --------------------------------
(***************************************************************************)
(* What the news store promises the client: a news item appears, and then  *)
(* stays readable, once, until the client acknowledges it.                 *)
(***************************************************************************)
CONSTANT News

VARIABLE unread

Init == unread = {}

Publish == \E S \in SUBSET News : unread' = unread \cup S

Acknowledge(n) == n \in unread /\ unread' = unread \ {n}

Next == Publish \/ \E n \in News : Acknowledge(n)

Spec == Init /\ [][Next]_unread
=============================================================================
