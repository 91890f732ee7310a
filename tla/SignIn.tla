-------------------------------- MODULE SignIn --------------------------------
(***************************************************************************)
(* Users, the identities they prove at Google or LINE, and their sessions. *)
(* A callback of a provider consumes its attempt once, asks the provider   *)
(* who it is, and then logs in, links the identity or re-authenticates.    *)
(* A login is several statements, each committed on its own; linking,      *)
(* re-authenticating and unlinking are transactions that replace the       *)
(* session they came with.                                                 *)
(***************************************************************************)
EXTENDS Naturals, FiniteSets

CONSTANTS
  Users,         \* ids drawn for new users
  Identities,    \* the (issuer, subject) pairs providers answer with
  Providers,
  ProviderOf,    \* the provider of each identity
  Sessions,      \* ids drawn for new sessions
  Attempts,      \* authorizations in flight
  Requests       \* unlinks and logouts of every session in flight

ASSUME SignInAssumption ==
  /\ ProviderOf \in [Identities -> Providers]
  /\ IsFiniteSet(Identities)

VARIABLES
  identity,      \* auth_identities: owner and whether it is enabled
  session,       \* sessions, and (a ghost) the session each one replaced
  attempt,       \* auth_transactions, and the callback that consumed each
  request        \* transactions between their statements

vars == <<identity, session, attempt, request>>

None == "none"
ASSUME NoneIsNothing ==
  None \notin Users \cup Identities \cup Providers \cup Sessions

NoSession ==
  [user |-> None, provider |-> None, live |-> FALSE, recent |-> FALSE,
   from |-> None]
NoAttempt ==
  [step |-> None, purpose |-> None, session |-> None, identity |-> None,
   user |-> None]
NoRequest ==
  [step |-> None, session |-> None, provider |-> None, identity |-> None,
   targets |-> {}]

IdentityRow == [owner : Users \cup {None}, enabled : BOOLEAN]
SessionRow ==
  [user : Users \cup {None}, provider : Providers \cup {None},
   live : BOOLEAN, recent : BOOLEAN, from : Sessions \cup {None}]
AttemptRow ==
  [step : {None, "open", "known", "new", "found", "confirmed"},
   purpose : {None, "login", "link", "reauth"},
   session : Sessions \cup {None}, identity : Identities \cup {None},
   user : Users \cup {None}]
RequestRow ==
  [step : {None, "counted", "disabled", "revoking"},
   session : Sessions \cup {None}, provider : Providers \cup {None},
   identity : Identities \cup {None}, targets : SUBSET Sessions]

\* Identities, sessions, attempts and transactions have their types, and an
\* identity nobody owns is not enabled.
SignInTypeOK ==
  /\ identity \in [Identities -> IdentityRow]
  /\ \A i \in Identities : identity[i].owner = None => ~identity[i].enabled
  /\ session \in [Sessions -> SessionRow]
  /\ attempt \in [Attempts -> AttemptRow]
  /\ request \in [Requests -> RequestRow]

Init ==
  /\ identity = [i \in Identities |-> [owner |-> None, enabled |-> FALSE]]
  /\ session = [s \in Sessions |-> NoSession]
  /\ attempt = [a \in Attempts |-> NoAttempt]
  /\ request = [r \in Requests |-> NoRequest]

Owned(u) == {i \in Identities : identity[i].owner = u}
Active(u) == {i \in Owned(u) : identity[i].enabled}
SessionsOf(u) == {s \in Sessions : session[s].user = u /\ session[s].live}

\* Rows that an unfinished transaction has locked: others wait for them.
Locked(s) == \E r \in Requests : request[r].session = s
IdentityLocked(i) == \E r \in Requests : request[r].identity = i

\* A session somebody proved an identity for just now, in place of another.
NewSession(u, p, old) ==
  [user |-> u, provider |-> p, live |-> TRUE, recent |-> TRUE, from |-> old]

-----------------------------------------------------------------------------
\* The attempt is stored before the browser is sent to the provider.
BeginAuthorization(a, purpose, s) ==
  /\ attempt[a] = NoAttempt
  /\ attempt' = [attempt EXCEPT ![a] =
       [NoAttempt EXCEPT !.step = "open", !.purpose = purpose, !.session = s]]
  /\ UNCHANGED <<identity, session, request>>

StartLogin(a) == BeginAuthorization(a, "login", None)

StartProtected(a, purpose, s) ==
  /\ session[s].live /\ session[s].recent
  /\ BeginAuthorization(a, purpose, s)

StartLink(a) == \E s \in Sessions : StartProtected(a, "link", s)
StartReauth(a) == \E s \in Sessions : StartProtected(a, "reauth", s)

\* The callback: the attempt is consumed, the provider says who came back.
\* The browser need not be the one of any session, only the attempt's own.
Callback(a) ==
  /\ attempt[a].step = "open"
  /\ \E i \in Identities :
       attempt' = [attempt EXCEPT ![a].step = "known", ![a].identity = i]
  /\ UNCHANGED <<identity, session, request>>

\* An attempt that expires, a refusal by the provider or by any check below,
\* and every failure: the attempt is consumed and nothing else is changed.
Abandon(a) ==
  /\ attempt[a] # NoAttempt
  /\ attempt' = [attempt EXCEPT ![a] = NoAttempt]
  /\ UNCHANGED <<identity, session, request>>

-----------------------------------------------------------------------------
\* Login, first statement.  A disabled identity is Abandon.
FindLogin(a) ==
  /\ attempt[a].step = "known" /\ attempt[a].purpose = "login"
  /\ LET row == identity[attempt[a].identity]
     IN \/ /\ row.enabled
           /\ attempt' = [attempt EXCEPT ![a].step = "found",
                                         ![a].user = row.owner]
        \/ /\ row.owner = None
           /\ attempt' = [attempt EXCEPT ![a].step = "new"]
  /\ UNCHANGED <<identity, session, request>>

\* The user and the identity are inserted together, unless the identity was
\* inserted in the meantime (23505): then its owner is looked up again.
Login(a) ==
  LET i == attempt[a].identity
  IN /\ attempt[a].step = "new"
     /\ \/ /\ identity[i].owner = None
           /\ \E u \in Users :
                /\ Owned(u) = {}
                /\ identity' = [identity EXCEPT ![i] =
                     [owner |-> u, enabled |-> TRUE]]
                /\ attempt' = [attempt EXCEPT ![a].step = "found",
                                              ![a].user = u]
        \/ /\ identity[i].owner # None
           /\ attempt' = [attempt EXCEPT ![a].step = "known"]
           /\ UNCHANGED identity
     /\ UNCHANGED <<session, request>>

\* issueSession, a statement of its own: nothing of the identity is read again.
CreateSession(a) ==
  /\ attempt[a].step = "found"
  /\ \E s \in Sessions :
       /\ session[s] = NoSession
       /\ session' = [session EXCEPT ![s] =
            NewSession(attempt[a].user, ProviderOf[attempt[a].identity], None)]
  /\ attempt' = [attempt EXCEPT ![a] = NoAttempt]
  /\ UNCHANGED <<identity, request>>

-----------------------------------------------------------------------------
\* A link or a re-authentication comes back with the session it started from.
Authenticate(a) ==
  /\ attempt[a].step = "known" /\ attempt[a].purpose \in {"link", "reauth"}
  /\ session[attempt[a].session].live
  /\ attempt' = [attempt EXCEPT ![a].step = "confirmed"]
  /\ UNCHANGED <<identity, session, request>>

\* Defect: the number of rows that were affected is not looked at.
RotatesAnyway(old) == ~Locked(old)

\* The UPDATE of rotateSession affects a row, once its lock is free.
Rotates(old) == session[old].live /\ ~Locked(old)

\* The old session is revoked and a fresh one inserted in its place.
RotateSession(a) ==
  LET old == attempt[a].session
  IN /\ Rotates(old)
     /\ \E new \in Sessions :
          /\ session[new] = NoSession
          /\ session' = [session EXCEPT ![old].live = FALSE,
               ![new] = NewSession(session[old].user,
                                   ProviderOf[attempt[a].identity], old)]
     /\ attempt' = [attempt EXCEPT ![a] = NoAttempt]

\* Defect: the row is inserted, on conflict updated, whoever it is of.
Upserted(i, u) == TRUE

\* The identity is unknown, or was the same user's and is disabled.
Linkable(i, u) ==
  identity[i].owner = None \/ (identity[i].owner = u /\ ~identity[i].enabled)

LinkIdentityAndRotate(a) ==
  LET i == attempt[a].identity
      u == session[attempt[a].session].user
  IN /\ attempt[a].step = "confirmed" /\ attempt[a].purpose = "link"
     /\ session[attempt[a].session].recent
     /\ ~IdentityLocked(i)
     /\ Linkable(i, u)
     /\ \A j \in Active(u) : ProviderOf[j] # ProviderOf[i]
     /\ identity' = [identity EXCEPT ![i] = [owner |-> u, enabled |-> TRUE]]
     /\ RotateSession(a)
     /\ UNCHANGED request

ReauthenticateAndRotate(a) ==
  LET i == attempt[a].identity
  IN /\ attempt[a].step = "confirmed" /\ attempt[a].purpose = "reauth"
     /\ ~IdentityLocked(i)
     /\ i \in Active(session[attempt[a].session].user)
     /\ RotateSession(a)
     /\ UNCHANGED <<identity, request>>

-----------------------------------------------------------------------------
\* UnlinkIdentityAndRotate, up to its count: the caller's own session is
\* locked, and must be recent and of another provider.  The identities that
\* are counted are not locked.
CountIdentities(r) ==
  \E s \in Sessions, p \in Providers :
    /\ request[r] = NoRequest
    /\ session[s].live /\ session[s].recent /\ ~Locked(s)
    /\ session[s].provider # p
    /\ Cardinality(Active(session[s].user)) >= 2
    /\ request' = [request EXCEPT ![r] =
         [NoRequest EXCEPT !.step = "counted", !.session = s, !.provider = p]]
    /\ UNCHANGED <<identity, session, attempt>>

\* It updates one row, which must be there, and then begins to revoke the
\* sessions there are: the ones inserted from now on are not among them.
DisableIdentity(r) ==
  LET u == session[request[r].session].user
  IN /\ request[r].step = "counted"
     /\ \E i \in Active(u) :
          /\ ProviderOf[i] = request[r].provider
          /\ ~IdentityLocked(i)
          /\ request' = [request EXCEPT ![r].step = "disabled",
               ![r].identity = i, ![r].targets = SessionsOf(u)]
     /\ UNCHANGED <<identity, session, attempt>>

\* An UPDATE of sessions waits for the locked ones among those it found.
Reaches(r) ==
  \A s \in request[r].targets : Locked(s) => s = request[r].session

Revoked(r) ==
  [s \in Sessions |->
     IF s \in request[r].targets THEN [session[s] EXCEPT !.live = FALSE]
     ELSE session[s]]

CommitUnlink(r) ==
  LET old == request[r].session
  IN /\ request[r].step = "disabled"
     /\ Reaches(r)
     /\ identity' = [identity EXCEPT ![request[r].identity].enabled = FALSE]
     /\ \E new \in Sessions :
          /\ session[new] = NoSession
          /\ session' = [Revoked(r) EXCEPT ![new] =
               NewSession(session[old].user, session[old].provider, old)]
     /\ request' = [request EXCEPT ![r] = NoRequest]
     /\ UNCHANGED attempt

\* No row to disable, a deadlock of two unlinks, or any other failure.
RollBack(r) ==
  /\ request[r] # NoRequest
  /\ request' = [request EXCEPT ![r] = NoRequest]
  /\ UNCHANGED <<identity, session, attempt>>

-----------------------------------------------------------------------------
\* RevokeSession, by id.
Logout(s) ==
  /\ session[s].live /\ ~Locked(s)
  /\ session' = [session EXCEPT ![s].live = FALSE]
  /\ UNCHANGED <<identity, attempt, request>>

\* RevokeUserSessions finds the sessions of the user and waits for locks.
LogoutAll(r) ==
  \E s \in Sessions :
    /\ request[r] = NoRequest
    /\ session[s].live
    /\ request' = [request EXCEPT ![r] =
         [NoRequest EXCEPT !.step = "revoking",
                           !.targets = SessionsOf(session[s].user)]]
    /\ UNCHANGED <<identity, session, attempt>>

RevokeUserSessions(r) ==
  /\ request[r].step = "revoking"
  /\ Reaches(r)
  /\ session' = Revoked(r)
  /\ request' = [request EXCEPT ![r] = NoRequest]
  /\ UNCHANGED <<identity, attempt>>

\* Ten minutes after it was authenticated a session is not recent any more;
\* fourteen idle days, or thirty in all, later it does not resolve.  Neither
\* falls within a transaction.
RecencyEnds(s) ==
  /\ session[s].recent /\ ~Locked(s)
  /\ session' = [session EXCEPT ![s].recent = FALSE]
  /\ UNCHANGED <<identity, attempt, request>>

SessionExpires(s) ==
  /\ session[s].live /\ ~session[s].recent /\ ~Locked(s)
  /\ session' = [session EXCEPT ![s].live = FALSE]
  /\ UNCHANGED <<identity, attempt, request>>

Next ==
  \/ \E a \in Attempts :
       \/ StartLogin(a) \/ StartLink(a) \/ StartReauth(a)
       \/ Callback(a) \/ Abandon(a)
       \/ FindLogin(a) \/ Login(a) \/ CreateSession(a)
       \/ Authenticate(a)
       \/ LinkIdentityAndRotate(a) \/ ReauthenticateAndRotate(a)
  \/ \E r \in Requests :
       \/ CountIdentities(r) \/ DisableIdentity(r) \/ CommitUnlink(r)
       \/ RollBack(r)
       \/ LogoutAll(r) \/ RevokeUserSessions(r)
  \/ \E s \in Sessions : Logout(s) \/ RecencyEnds(s) \/ SessionExpires(s)

Spec == Init /\ [][Next]_vars

-----------------------------------------------------------------------------
\* A session is of a user whose identity was proved with the provider the
\* session names, and is still that user's, enabled or not: whatever logins,
\* links and unlinks of the same identity interleave, nobody is let into the
\* account of another user by an identity that changed hands.
SessionsEarned ==
  \A s \in Sessions : session[s] # NoSession =>
    \E i \in Owned(session[s].user) : ProviderOf[i] = session[s].provider

\* A session is replaced at most once: two callbacks, or a callback and an
\* unlink, that both found it live do not leave two sessions in its place,
\* one of which its user would never know of.
OneSuccessor ==
  \A s, t \in Sessions :
    s # t /\ session[s].from = session[t].from => session[s].from = None

\* "ErrLastIdentity: last identity cannot be unlinked": whoever has an
\* identity keeps one that can sign in.
AnIdentityRemains ==
  \A u \in Users : Owned(u) # {} => Active(u) # {}

=============================================================================
