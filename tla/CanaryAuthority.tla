--------------------------- MODULE CanaryAuthority ---------------------------
(***************************************************************************)
(* CanaryOneShot implements OneUseAuthority twice: for its permits and for *)
(* its windows.                                                            *)
(***************************************************************************)
EXTENDS CanaryOneShot

\* The phase of a capability row, given the claims that name it.
PhaseOf(status, claims) ==
  IF status = "NONE" THEN "unissued"
  ELSE IF status = "ARMED" THEN "held"
  ELSE IF claims = {} THEN "void"
  ELSE IF \E c \in claims : spawns[c] > 0 THEN "launched"
  ELSE "claimed"

PermitClaims(p) == {c \in Claim : claim[c].permit = p}
WindowClaims(w) == {c \in Claim : claim[c].window = w}

permitPhase == [p \in Permit |-> PhaseOf(permit[p].status, PermitClaims(p))]
windowPhase == [w \in Window |-> PhaseOf(window[w].status, WindowClaims(w))]

PermitAuthority == INSTANCE OneUseAuthority WITH Grant <- Permit, phase <- permitPhase
WindowAuthority == INSTANCE OneUseAuthority WITH Grant <- Window, phase <- windowPhase

\* An Execution Permit is a one-use authority: expired, aborted, blocked and
\* refused permits never start a process, a claimed one starts at most one.
PermitIsOneUse == PermitAuthority!Spec

\* So is a Canary window, though it may be spent with another permit than the
\* one that armed it.
WindowIsOneUse == WindowAuthority!Spec
=============================================================================
