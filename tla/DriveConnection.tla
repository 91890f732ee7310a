---------------------------- MODULE DriveConnection ----------------------------
(***************************************************************************)
(* The Google Drive connection of an organization, beside its memberships: *)
(* the owner authorizes it, Google refuses its token one day, a manager's  *)
(* call finds out and asks the owner for a new authorization by a task.    *)
(* Calls to Google lie between the reads and the writes of the database.   *)
(***************************************************************************)
EXTENDS Membership

CONSTANTS
  Attempts,      \* drive_oauth_attempts, and the token each may obtain
  Calls,         \* calls that use the connection's token
  MaxGeneration  \* of credentials: as many as there are attempts

ASSUME DriveAssumption ==
  /\ IsFiniteSet(Attempts) /\ None \notin Attempts
  /\ MaxGeneration = Cardinality(Attempts)

VARIABLES
  attempt,       \* each authorization: how far it is, and whose it is
  drive,         \* the row of drive_connections
  refused,       \* the tokens Google does not accept any more
  call,          \* what each call read, and whether it was refused
  reconnect      \* drive_reconnect_tasks by generation: its task's state

driveVars == <<attempt, drive, refused, call, reconnect>>
vars == <<memberVars, driveVars>>

NoAttempt == [step |-> None, user |-> None]
NoCall == [step |-> None, generation |-> 0, token |-> None]
Statuses == {"Connected", "Reauthorization Required", "Not Connected"}

DriveTypeOK ==
  /\ attempt \in [Attempts ->
       [step : {None, "begun", "exchanged", "done", "refused", "failed"},
        user : Users \cup {None}]]
  /\ drive \in [status : Statuses, generation : 0 .. MaxGeneration,
                token : Attempts \cup {None}]
  /\ (drive.status = "Connected") <=> (drive.token # None)
  /\ refused \subseteq Attempts
  /\ call \in [Calls -> [step : {None, "refreshing", "refused"},
                         generation : 0 .. MaxGeneration,
                         token : Attempts \cup {None}]]
  /\ reconnect \in [1 .. MaxGeneration -> {None, "Open", "Closed"}]

(* Memberships, roles, invitations and the connection have their types,    *)
(* and a token is kept exactly as long as the connection is in use.        *)
OrgTypeOK == MembershipTypeOK /\ DriveTypeOK

Init ==
  /\ MemberInit
  /\ attempt = [a \in Attempts |-> NoAttempt]
  /\ drive = [status |-> "Not Connected", generation |-> 0, token |-> None]
  /\ refused = {}
  /\ call = [c \in Calls |-> NoCall]
  /\ reconnect = [g \in 1 .. MaxGeneration |-> None]

-----------------------------------------------------------------------------
SaveAttempt(u, a) ==
  /\ role[u] = "Owner"
  /\ attempt' = [attempt EXCEPT ![a] = [step |-> "begun", user |-> u]]

Begin(u, a) ==
  /\ attempt[a] = NoAttempt
  /\ SaveAttempt(u, a)
  /\ UNCHANGED <<drive, refused, call, reconnect>>

(* The owner is sent to Google.                                            *)
ConnectDrive(u) == \E a \in Attempts : Begin(u, a)

(* The callback of the same user and session consumes the attempt, obtains *)
(* a token and reads the connection for its folder, which takes a member.  *)
ConsumeAttempt(a) == attempt' = [attempt EXCEPT ![a].step = "exchanged"]

Exchange(a) ==
  /\ attempt[a].step = "begun"
  /\ IsMember(attempt[a].user)
  /\ ConsumeAttempt(a)
  /\ UNCHANGED <<drive, refused, call, reconnect>>

(* It expired, was denied, or failed on the way.                           *)
Abandon(a) ==
  /\ attempt[a].step \in {"begun", "exchanged"}
  /\ attempt' = [attempt EXCEPT ![a].step = "failed"]
  /\ UNCHANGED <<drive, refused, call, reconnect>>

(* The open tasks of older generations, which SaveConnection sets to Done. *)
Unfinished == {g \in 1 .. drive.generation : reconnect[g] = "Open"}

SaveConnection(a) ==
  /\ attempt[a].step = "exchanged"
  /\ role[attempt[a].user] = "Owner"
  /\ Unfinished = {}
  /\ drive' = [status |-> "Connected", generation |-> drive.generation + 1, token |-> a]
  /\ attempt' = [attempt EXCEPT ![a].step = "done"]
  /\ UNCHANGED <<refused, call, reconnect>>

(* A task that is Done needs completed_at and completed_by_user_id, which  *)
(* the update leaves NULL: the CHECK of tasks refuses the whole            *)
(* transaction, and the callback answers that connecting failed.           *)
SaveRefused(a) ==
  /\ attempt[a].step = "exchanged"
  /\ role[attempt[a].user] = "Owner"
  /\ Unfinished # {}
  /\ attempt' = [attempt EXCEPT ![a].step = "refused"]
  /\ UNCHANGED <<drive, refused, call, reconnect>>

ForgetToken == drive' = [drive EXCEPT !.status = "Not Connected", !.token = None]

(* The token is forgotten first; that Google is asked to revoke it, and    *)
(* may fail to, is GoogleRefuses.                                          *)
Disconnect ==
  /\ drive.status # "Not Connected"
  /\ ForgetToken
  /\ UNCHANGED <<attempt, refused, call, reconnect>>

DisconnectDrive(u) == role[u] = "Owner" /\ Disconnect

(* The owner, or who disconnects, or Google itself revokes a token.        *)
GoogleRefuses(a) ==
  /\ attempt[a].step \in {"exchanged", "done"}
  /\ a \notin refused
  /\ refused' = refused \cup {a}
  /\ UNCHANGED <<attempt, drive, call, reconnect>>

(* A call reads the connection, ...                                        *)
ReadConnection(c) ==
  /\ call[c] = NoCall
  /\ drive.status = "Connected"
  /\ call' = [call EXCEPT ![c] =
       [step |-> "refreshing", generation |-> drive.generation, token |-> drive.token]]
  /\ UNCHANGED <<attempt, drive, refused, reconnect>>

(* ... the owner's check of it, or the download of a file that a manager   *)
(* selected: others do not see the token.                                  *)
CheckDrive(c) == \E u \in Users : role[u] = "Owner" /\ ReadConnection(c)
DownloadSelected(c) == \E u \in Users : IsManager(u) /\ ReadConnection(c)

(* ... ask Google for an access token, ...                                 *)
Refresh(c) ==
  /\ call[c].step = "refreshing"
  /\ \/ call' = [call EXCEPT ![c] = NoCall]
     \/ call[c].token \in refused /\ call' = [call EXCEPT ![c].step = "refused"]
  /\ UNCHANGED <<attempt, drive, refused, reconnect>>

(* Defect: whatever is connected now is what was refused.                  *)
IsStillCurrent(c) == drive.status = "Connected"

(* ... and after invalid_grant require a new authorization, unless the     *)
(* connection has changed since it was read.                               *)
IsCurrent(c) ==
  /\ drive.generation = call[c].generation
  /\ drive.status = "Connected"

(* mark_drive_reconnect_required makes one task of a generation, for the   *)
(* owner of that moment.                                                   *)
RequireReconnect(c) ==
  /\ call[c].step = "refused"
  /\ call' = [call EXCEPT ![c] = NoCall]
  /\ IF IsCurrent(c)
     THEN /\ drive' = [drive EXCEPT !.status = "Reauthorization Required", !.token = None]
          /\ reconnect' = [reconnect EXCEPT ![drive.generation] = IF @ = None THEN "Open" ELSE @]
     ELSE UNCHANGED <<drive, reconnect>>
  /\ UNCHANGED <<attempt, refused>>

(* Someone completes or cancels the task by hand.                          *)
CloseTask(g) ==
  /\ reconnect[g] = "Open"
  /\ reconnect' = [reconnect EXCEPT ![g] = "Closed"]
  /\ UNCHANGED <<attempt, drive, refused, call>>

DriveNext ==
  \/ \E a \in Attempts :
       \/ Exchange(a) \/ Abandon(a)
       \/ SaveConnection(a) \/ SaveRefused(a)
       \/ GoogleRefuses(a)
  \/ \E u \in Users : ConnectDrive(u) \/ DisconnectDrive(u)
  \/ \E c \in Calls : CheckDrive(c) \/ DownloadSelected(c) \/ Refresh(c) \/ RequireReconnect(c)
  \/ \E g \in 1 .. MaxGeneration : CloseTask(g)

Next ==
  \/ MemberNext /\ UNCHANGED driveVars
  \/ DriveNext /\ UNCHANGED memberVars

Spec == Init /\ [][Next]_vars

-----------------------------------------------------------------------------
(* A connection is taken out of use only when its own token was refused: a *)
(* refusal of an older one, reported late, does no harm to the new.        *)
StaleRefusalHarmless ==
  [][drive.status = "Connected" /\ drive'.status = "Reauthorization Required"
       => drive.token \in refused]_vars

(* An owner who authorizes the connection again is not turned away.        *)
ReconnectAccepted == \A a \in Attempts : attempt[a].step # "refused"
=============================================================================
