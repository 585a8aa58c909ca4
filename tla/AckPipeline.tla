---------------------------- MODULE AckPipeline ----------------------------
(***************************************************************************)
(* What the client promises about invalidation acknowledgements (spec 8): *)
(* an invalidation is handed to the listener, acknowledged by it at most   *)
(* once, and then sent to the server at most once, possibly together with *)
(* others.  A crash forgets everything not yet sent.  InvalidationClient   *)
(* implements this specification under the mapping in its AckRefinement.  *)
(***************************************************************************)
CONSTANTS Invalidations

VARIABLES
  delivered,  \* handed to the listener, not yet acknowledged
  acked,      \* acknowledged by the listener, not yet sent
  sent        \* acknowledged to the server

vars == <<delivered, acked, sent>>

Init == delivered = {} /\ acked = {} /\ sent = {}

Deliver(i) ==
  /\ i \notin delivered \cup acked \cup sent
  /\ delivered' = delivered \cup {i}
  /\ UNCHANGED <<acked, sent>>

Acknowledge(i) ==
  /\ i \in delivered
  /\ delivered' = delivered \ {i}
  /\ acked' = acked \cup {i}
  /\ UNCHANGED sent

\* One outbound message carries a non-empty set of pending acks.
Send(S) ==
  /\ S # {} /\ S \subseteq acked
  /\ acked' = acked \ S
  /\ sent' = sent \cup S
  /\ UNCHANGED delivered

\* A crash loses what the process holds in memory.
Lose ==
  /\ delivered' = {} /\ acked' = {}
  /\ UNCHANGED sent

Next ==
  \/ \E i \in Invalidations : Deliver(i) \/ Acknowledge(i)
  \/ \E S \in SUBSET Invalidations : Send(S)
  \/ Lose

Spec == Init /\ [][Next]_vars

==============================================================================
