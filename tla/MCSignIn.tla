------------------------------- MODULE MCSignIn -------------------------------
EXTENDS SignIn, TLC

CONSTANTS u1, u2, s1, s2, s3, s4, s5, a1, a2, r1, r2

MCIdentities == {"g", "l"}
MCProviders == {"google", "line"}
MCProviderOf == [i \in MCIdentities |-> IF i = "g" THEN "google" ELSE "line"]
OneUser == {u1}
TwoUsers == {u1, u2}
ThreeSessions == {s1, s2, s3}
FiveSessions == {s1, s2, s3, s4, s5}
OneAttempt == {a1}
TwoAttempts == {a1, a2}
OneRequest == {r1}
TwoRequests == {r1, r2}
Interchangeable ==
  Permutations(Users) \cup Permutations(Sessions)
    \cup Permutations(Attempts) \cup Permutations(Requests)
=============================================================================
