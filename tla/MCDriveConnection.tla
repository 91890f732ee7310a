-------------------------- MODULE MCDriveConnection --------------------------
EXTENDS DriveConnection, TLC

CONSTANTS u1, u2, u3, r1, r2, i1, i2, h1, h2, a1, a2, k1

MCUsers == {u1, u2, u3}
MCRequests == {r1, r2}
MCInvitations == {i1, i2}
MCHandoffs == {h1, h2}
MCAttempts == {a1, a2}
MCCalls == {k1}
Interchangeable ==
  Permutations({u2, u3}) \cup Permutations(MCInvitations) \cup Permutations(MCAttempts)

(* Two requests and two claims as long as Drive is not touched; beside it  *)
(* one request, among those who have joined before.                        *)
OneBesideDrive ==
  (\E a \in Attempts : attempt[a] # NoAttempt) =>
    request[r2] = Idle /\ \A h \in Handoffs : handoff[h] = None
=============================================================================
