---------------------------- MODULE MCDocumentIntake ----------------------------
(* A member's web key, used for two files and an unsafe one; the same      *)
(* member's message to a LINE group; and a Drive file that both managers   *)
(* may select.  The message and the Drive file carry the same bytes.       *)
EXTENDS DocumentIntake, TLC

CONSTANTS r1, r2, r3, member, owner, admin, web, line, drive, c1, c2, virus

MCRequests == {r1, r2, r3}
MCUsers == {member, owner, admin}
MCManagers == {owner, admin}
MCOrigins == {web, line, drive}
MCGroups == {line}
MCContents == {c1, c2, virus}
MCUnsafe == {virus}
MCChannelOf == [o \in MCOrigins |->
  CASE o = web -> "Web" [] o = line -> "LINE" [] o = drive -> "Drive"]
MCSendersOf == [o \in MCOrigins |-> IF o = drive THEN MCManagers ELSE {member}]
MCFilesOf == [o \in MCOrigins |-> IF o = web THEN MCContents ELSE {c1}]
Attempts == Permutations(MCRequests)
=============================================================================
