--------------------------- MODULE OneUseAuthority ---------------------------
(***************************************************************************)
(* What a one-use capability promises, with none of the machinery: a grant *)
(* is issued once, is held until it is claimed or becomes void, and only a *)
(* claimed grant starts a process, once.  Issuing voids what was held.     *)
(***************************************************************************)
CONSTANT Grant

VARIABLE phase

Phase == {"unissued", "held", "void", "claimed", "launched"}

Init == phase = [g \in Grant |-> "unissued"]

\* A new grant, which an atomic handoff may claim or abort at once.
Issue(g, to) ==
  /\ phase[g] = "unissued"
  /\ to \in {"held", "claimed", "void"}
  /\ phase' = [x \in Grant |-> IF x = g THEN to
                               ELSE IF phase[x] = "held" THEN "void"
                               ELSE phase[x]]

\* Expiry, refusal, blocking, restart.
Void(S) ==
  /\ \A g \in S : phase[g] = "held"
  /\ phase' = [x \in Grant |-> IF x \in S THEN "void" ELSE phase[x]]

ClaimGrant(g) ==
  /\ phase[g] = "held"
  /\ phase' = [phase EXCEPT ![g] = "claimed"]

Launch(g) ==
  /\ phase[g] = "claimed"
  /\ phase' = [phase EXCEPT ![g] = "launched"]

Next ==
  \/ \E g \in Grant, to \in {"held", "claimed", "void"} : Issue(g, to)
  \/ \E S \in SUBSET Grant : Void(S)
  \/ \E g \in Grant : ClaimGrant(g) \/ Launch(g)

Spec == Init /\ [][Next]_phase
=============================================================================
