------------------------------ MODULE SignInProofs ------------------------------
(***************************************************************************)
(* What TLC checks of SignIn for two users, two identities and three       *)
(* sessions, proved for any number of them.  That a session is earned      *)
(* needs to know what the statements of a login, a link or an unlink have  *)
(* read before; that it is replaced once needs to know which sessions a    *)
(* transaction has locked, and that a replaced session is dead.            *)
(***************************************************************************)
EXTENDS SignIn, TLAPS

(* A session in use has a user and a provider.                             *)
SessionsKnown ==
  \A s \in Sessions :
    session[s] = NoSession \/
      (session[s].user \in Users /\ session[s].provider \in Providers)

(* What an attempt has found is still so when its next statement runs: the *)
(* identity that was found has not changed hands, and the session that was *)
(* bound has a user.                                                       *)
Knows(q) ==
  /\ q.step \in {"known", "new", "found", "confirmed"} => q.identity \in Identities
  /\ q.step = "found" => q.user \in Users /\ identity[q.identity].owner = q.user
  /\ q.purpose \in {"link", "reauth"} =>
       q.session \in Sessions /\ session[q.session].user \in Users
  /\ q.step = "confirmed" => q.purpose \in {"link", "reauth"}
AttemptsKnow == \A a \in Attempts : Knows(attempt[a])

(* An unlink holds the lock of a session that is live, alone, and will     *)
(* revoke it with the others.                                              *)
Holds(q) ==
  /\ q.step \in {"counted", "disabled"} =>
       q.session \in Sessions /\ session[q.session].live
  /\ q.step \in {None, "revoking"} => q.session = None
  /\ q.step = "disabled" => q.session \in q.targets /\ q.identity \in Identities
Alone(r, s) == \A p \in Requests \ {r} : s # None => request[p].session # s
RequestsHold ==
  \A r \in Requests : Holds(request[r]) /\ Alone(r, request[r].session)

(* A session that was replaced is dead, and its id was really in use.      *)
ReplacedAreDead ==
  \A s \in Sessions : session[s].from # None =>
    /\ ~session[session[s].from].live
    /\ session[session[s].from] # NoSession

IInv ==
  /\ SignInTypeOK
  /\ SessionsKnown
  /\ AttemptsKnow
  /\ RequestsHold
  /\ ReplacedAreDead
  /\ SessionsEarned
  /\ OneSuccessor

-----------------------------------------------------------------------------
LEMMA InitIInv == Init => IInv
<1> SUFFICES ASSUME Init PROVE IInv
  OBVIOUS
<1>1. SignInTypeOK
  BY DEF Init, SignInTypeOK, NoSession, NoAttempt, NoRequest, IdentityRow, SessionRow,
         AttemptRow, RequestRow
<1>2. \A s \in Sessions : session[s] = NoSession /\ session[s].from = None
  BY DEF Init, NoSession
<1>3. AttemptsKnow /\ RequestsHold
  BY DEF Init, AttemptsKnow, Knows, RequestsHold, Holds, Alone, NoAttempt, NoRequest, None
<1> QED BY <1>1, <1>2, <1>3
     DEF IInv, SessionsKnown, ReplacedAreDead, SessionsEarned, OneSuccessor

(* A step of an attempt that leaves rows alone: what it knows is enough.   *)
LEMMA AttemptStep ==
  ASSUME IInv, UNCHANGED <<identity, session, request>>,
         NEW a \in Attempts, NEW q \in AttemptRow, Knows(q),
         attempt' = [attempt EXCEPT ![a] = q]
  PROVE  IInv'
<1>1. AttemptsKnow'
  BY DEF IInv, SignInTypeOK, AttemptsKnow, Knows
<1> QED BY <1>1 DEF IInv, SignInTypeOK, SessionsKnown, RequestsHold, Holds, Alone,
     ReplacedAreDead, SessionsEarned, OneSuccessor, Owned

(* A step of a request that leaves rows alone.                             *)
LEMMA RequestStep ==
  ASSUME IInv, UNCHANGED <<identity, session, attempt>>,
         NEW r \in Requests, NEW q \in RequestRow, Holds(q), Alone(r, q.session),
         request' = [request EXCEPT ![r] = q]
  PROVE  IInv'
<1>1. RequestsHold'
  BY DEF IInv, SignInTypeOK, RequestsHold, Holds, Alone
<1> QED BY <1>1 DEF IInv, SignInTypeOK, SessionsKnown, AttemptsKnow, Knows,
     ReplacedAreDead, SessionsEarned, OneSuccessor, Owned

(* Forgetting an attempt or a transaction.                                 *)
LEMMA Forgotten ==
  /\ NoAttempt \in AttemptRow /\ Knows(NoAttempt)
  /\ NoRequest \in RequestRow /\ Holds(NoRequest)
  /\ \A r \in Requests : Alone(r, NoRequest.session)
BY DEF NoAttempt, NoRequest, AttemptRow, RequestRow, Knows, Holds, Alone, None

LEMMA AbandonKeeps ==
  ASSUME IInv, NEW a \in Attempts, Abandon(a)
  PROVE  IInv'
BY Forgotten, AttemptStep DEF Abandon

LEMMA RollBackKeeps ==
  ASSUME IInv, NEW r \in Requests, RollBack(r)
  PROVE  IInv'
BY Forgotten, RequestStep DEF RollBack

-----------------------------------------------------------------------------
LEMMA BeginKeeps ==
  ASSUME IInv, NEW a \in Attempts, NEW purpose \in {"login", "link", "reauth"},
         NEW s \in Sessions \cup {None},
         purpose = "login" \/ (s \in Sessions /\ session[s].live),
         BeginAuthorization(a, purpose, s)
  PROVE  IInv'
<1> DEFINE q == [NoAttempt EXCEPT !.step = "open", !.purpose = purpose, !.session = s]
<1>1. q \in AttemptRow /\ q.step = "open" /\ q.purpose = purpose /\ q.session = s
  BY DEF NoAttempt, AttemptRow
<1>2. purpose # "login" => s \in Sessions /\ session[s].user \in Users
  BY DEF IInv, SessionsKnown, NoSession
<1>3. Knows(q)
  BY <1>1, <1>2 DEF Knows
<1> QED BY <1>1, <1>3, AttemptStep DEF BeginAuthorization

LEMMA StartKeeps ==
  ASSUME IInv, NEW a \in Attempts, StartLogin(a) \/ StartLink(a) \/ StartReauth(a)
  PROVE  IInv'
<1>1. CASE StartLogin(a)
  BY <1>1, BeginKeeps DEF StartLogin
<1>2. CASE StartLink(a)
  BY <1>2, BeginKeeps DEF StartLink, StartProtected
<1>3. CASE StartReauth(a)
  BY <1>3, BeginKeeps DEF StartReauth, StartProtected
<1> QED BY <1>1, <1>2, <1>3

(* The row of an attempt under way, to be changed in part.                 *)
LEMMA RowOf ==
  ASSUME IInv, NEW a \in Attempts
  PROVE  /\ attempt[a] \in AttemptRow
         /\ Knows(attempt[a])
BY DEF IInv, SignInTypeOK, AttemptsKnow

LEMMA CallbackKeeps ==
  ASSUME IInv, NEW a \in Attempts, Callback(a)
  PROVE  IInv'
<1>1. PICK i \in Identities :
        attempt' = [attempt EXCEPT ![a].step = "known", ![a].identity = i]
  BY DEF Callback
<1> DEFINE q == [attempt[a] EXCEPT !.step = "known", !.identity = i]
<1>2. q \in AttemptRow /\ Knows(q)
  BY RowOf DEF AttemptRow, Knows
<1>3. attempt' = [attempt EXCEPT ![a] = q]
  BY <1>1 DEF IInv, SignInTypeOK
<1> QED BY <1>2, <1>3, AttemptStep DEF Callback

(* An enabled identity has an owner, who is written down with it.          *)
LEMMA FindLoginKeeps ==
  ASSUME IInv, NEW a \in Attempts, FindLogin(a)
  PROVE  IInv'
<1> DEFINE row == identity[attempt[a].identity]
<1>1. attempt[a].identity \in Identities
  BY RowOf DEF FindLogin, Knows
<1>2. CASE row.enabled /\ attempt' = [attempt EXCEPT ![a].step = "found", ![a].user = row.owner]
  <2> DEFINE q == [attempt[a] EXCEPT !.step = "found", !.user = row.owner]
  <2>1. row.owner \in Users
    BY <1>1, <1>2 DEF IInv, SignInTypeOK, IdentityRow
  <2>2. q \in AttemptRow /\ Knows(q)
    BY <1>1, <2>1, RowOf DEF AttemptRow, Knows
  <2>3. attempt' = [attempt EXCEPT ![a] = q]
    BY <1>2 DEF IInv, SignInTypeOK
  <2> QED BY <2>2, <2>3, AttemptStep DEF FindLogin
<1>3. CASE attempt' = [attempt EXCEPT ![a].step = "new"]
  <2> DEFINE q == [attempt[a] EXCEPT !.step = "new"]
  <2>1. q \in AttemptRow /\ Knows(q)
    BY <1>1, RowOf DEF AttemptRow, Knows
  <2> QED BY <1>3, <2>1, AttemptStep DEF FindLogin
<1> QED BY <1>2, <1>3 DEF FindLogin

LEMMA AuthenticateKeeps ==
  ASSUME IInv, NEW a \in Attempts, Authenticate(a)
  PROVE  IInv'
<1> DEFINE q == [attempt[a] EXCEPT !.step = "confirmed"]
<1>1. q \in AttemptRow /\ Knows(q)
  BY RowOf DEF AttemptRow, Knows, Authenticate
<1> QED BY <1>1, AttemptStep DEF Authenticate

-----------------------------------------------------------------------------
(* Identities change: an owned one keeps its owner.                        *)
LEMMA OwnersStay ==
  ASSUME IInv, NEW i \in Identities, NEW row \in IdentityRow,
         row.owner \in Users, identity[i].owner \in {None, row.owner},
         identity' = [identity EXCEPT ![i] = row]
  PROVE  /\ identity' \in [Identities -> IdentityRow]
         /\ \A j \in Identities : identity'[j].owner = None => ~identity'[j].enabled
         /\ \A j \in Identities :
              identity[j].owner # None => identity'[j].owner = identity[j].owner
         /\ \A u \in Users : Owned(u) \subseteq Owned(u)'
<1>1. \A j \in Identities :
        identity[j].owner # None => identity'[j].owner = identity[j].owner
  BY DEF IInv, SignInTypeOK
<1>2. \A u \in Users : u # None
  BY NoneIsNothing
<1> QED BY <1>1, <1>2 DEF IInv, SignInTypeOK, Owned

(* What attempts and sessions know of identities survives such a change.   *)
LEMMA KnowledgeStays ==
  ASSUME IInv, UNCHANGED session,
         \A j \in Identities :
           identity[j].owner # None => identity'[j].owner = identity[j].owner
  PROVE  /\ \A q \in AttemptRow : Knows(q) => Knows(q)'
         /\ SessionsEarned'
<1>1. \A u \in Users : u # None
  BY NoneIsNothing
<1>2. \A u \in Users : Owned(u) \subseteq Owned(u)'
  BY <1>1 DEF Owned
<1>3. ASSUME NEW q \in AttemptRow, Knows(q) PROVE Knows(q)'
  BY <1>1, <1>3 DEF Knows
<1> QED BY <1>2, <1>3 DEF IInv, SessionsEarned, SessionsKnown

LEMMA AttemptTyped ==
  ASSUME IInv, NEW a \in Attempts, NEW q \in AttemptRow,
         attempt' = [attempt EXCEPT ![a] = q]
  PROVE  attempt' \in [Attempts -> AttemptRow]
BY DEF IInv, SignInTypeOK

LEMMA AttemptEnds ==
  ASSUME IInv, NEW a \in Attempts, attempt' = [attempt EXCEPT ![a] = NoAttempt],
         \A q \in AttemptRow : Knows(q) => Knows(q)'
  PROVE  attempt' \in [Attempts -> AttemptRow] /\ AttemptsKnow'
BY Forgotten DEF IInv, SignInTypeOK, AttemptsKnow

LEMMA LoginKeeps ==
  ASSUME IInv, NEW a \in Attempts, Login(a)
  PROVE  IInv'
<1> DEFINE i == attempt[a].identity
<1>1. i \in Identities
  BY RowOf DEF Login, Knows
<1>2. CASE /\ attempt' = [attempt EXCEPT ![a].step = "known"]
           /\ UNCHANGED identity
  <2> DEFINE q == [attempt[a] EXCEPT !.step = "known"]
  <2>1. q \in AttemptRow /\ Knows(q)
    BY <1>1, RowOf DEF AttemptRow, Knows
  <2> QED BY <1>2, <2>1, AttemptStep DEF Login
<1>3. ASSUME NEW u \in Users, identity[i].owner = None,
             identity' = [identity EXCEPT ![i] = [owner |-> u, enabled |-> TRUE]],
             attempt' = [attempt EXCEPT ![a].step = "found", ![a].user = u]
      PROVE  IInv'
  <2> DEFINE q == [attempt[a] EXCEPT !.step = "found", !.user = u]
             row == [owner |-> u, enabled |-> TRUE]
  <2>0. UNCHANGED <<session, request>>
    BY DEF Login
  <2>1. q \in AttemptRow /\ row \in IdentityRow
    BY RowOf DEF AttemptRow, IdentityRow
  <2>2. attempt' = [attempt EXCEPT ![a] = q]
    BY <1>3 DEF IInv, SignInTypeOK
  <2>3. /\ identity' \in [Identities -> IdentityRow]
        /\ \A j \in Identities : identity'[j].owner = None => ~identity'[j].enabled
        /\ \A j \in Identities :
             identity[j].owner # None => identity'[j].owner = identity[j].owner
    BY <1>1, <1>3, <2>1, OwnersStay
  <2>4. identity'[i].owner = u
    BY <1>1, <1>3 DEF IInv, SignInTypeOK
  <2>5. Knows(attempt[a])'
    <3>1. attempt'[a] = q
      BY <2>2 DEF IInv, SignInTypeOK
    <3>2. /\ q.step = "found" /\ q.user = u /\ q.identity = i
          /\ q.purpose = attempt[a].purpose /\ q.session = attempt[a].session
      BY RowOf DEF AttemptRow
    <3> HIDE DEF q, i
    <3> QED BY <1>1, <2>0, <2>4, <3>1, <3>2, RowOf DEF Knows
  <2>6. AttemptsKnow'
    BY <2>0, <2>2, <2>3, <2>5, KnowledgeStays DEF IInv, SignInTypeOK, AttemptsKnow
  <2>7. attempt' \in [Attempts -> AttemptRow]
    BY <2>1, <2>2, AttemptTyped
  <2>9. SignInTypeOK'
    BY <2>0, <2>3, <2>7 DEF IInv, SignInTypeOK
  <2>8. SessionsEarned'
    BY <2>0, <2>3, KnowledgeStays
  <2> QED BY <2>0, <2>6, <2>8, <2>9
       DEF IInv, SessionsKnown, RequestsHold, Holds, Alone, ReplacedAreDead, OneSuccessor
<1> QED BY <1>2, <1>3 DEF Login

-----------------------------------------------------------------------------
(* Sessions change: those of N are new, the others at most lose something. *)
Fades(s) ==
  /\ session'[s].user = session[s].user
  /\ session'[s].provider = session[s].provider
  /\ session'[s].from = session[s].from
  /\ session'[s].live => session[s].live
  /\ session[s] = NoSession => session'[s] = NoSession

Begins(n) ==
  /\ session[n] = NoSession
  /\ session'[n].user \in Users /\ session'[n].provider \in Providers
  /\ session'[n].from # None =>
       /\ session'[n].from \in Sessions
       /\ session[session'[n].from].live /\ ~session'[session'[n].from].live
  /\ \E i \in Identities :
       /\ identity'[i].owner = session'[n].user
       /\ ProviderOf[i] = session'[n].provider

LEMMA SessionsMove ==
  ASSUME IInv, NEW N \in SUBSET Sessions,
         session' \in [Sessions -> SessionRow],
         \A s \in Sessions \ N : Fades(s),
         \A n \in N : Begins(n) /\ N = {n},
         \A j \in Identities :
           identity[j].owner # None => identity'[j].owner = identity[j].owner
  PROVE  /\ SessionsKnown' /\ ReplacedAreDead' /\ SessionsEarned' /\ OneSuccessor'
         /\ \A q \in AttemptRow : Knows(q) => Knows(q)'
<1>0. None \notin Users /\ None \notin Sessions
  BY NoneIsNothing
<1>1. \A s \in Sessions : session[s] # NoSession => s \notin N
  BY DEF Begins
<1>2. SessionsKnown'
  <2> SUFFICES ASSUME NEW s \in Sessions, session'[s] # NoSession
               PROVE  session'[s].user \in Users /\ session'[s].provider \in Providers
    BY DEF SessionsKnown
  <2>1. CASE s \in N
    BY <2>1 DEF Begins
  <2>2. CASE s \notin N
    BY <2>2 DEF Fades, IInv, SessionsKnown
  <2> QED BY <2>1, <2>2
<1>3. ReplacedAreDead'
  <2> SUFFICES ASSUME NEW s \in Sessions, session'[s].from # None
               PROVE  /\ ~session'[session'[s].from].live
                      /\ session'[session'[s].from] # NoSession
    BY DEF ReplacedAreDead
  <2> DEFINE f == session'[s].from
  <2>1. f \in Sessions
    BY DEF SessionRow
  <2>2. ASSUME NEW t \in Sessions, session[t] # NoSession PROVE session'[t] # NoSession
    BY <1>0, <1>1, <2>2 DEF Fades, IInv, SessionsKnown, NoSession
  <2>3. CASE s \in N
    <3>1. session[f].live /\ ~session'[f].live
      BY <2>3 DEF Begins
    <3>2. session[f] # NoSession
      BY <3>1 DEF NoSession
    <3> QED BY <2>1, <2>2, <3>1, <3>2
  <2>4. CASE s \notin N
    <3>1. session[s].from = f
      BY <2>4 DEF Fades
    <3>2. ~session[f].live /\ session[f] # NoSession
      BY <3>1 DEF IInv, ReplacedAreDead
    <3>3. ~session'[f].live
      BY <1>1, <2>1, <3>2 DEF Fades
    <3> QED BY <2>1, <2>2, <3>2, <3>3
  <2> QED BY <2>3, <2>4
<1>4. SessionsEarned'
  <2> SUFFICES ASSUME NEW s \in Sessions, session'[s] # NoSession
               PROVE  \E i \in Owned(session[s].user)' : ProviderOf[i] = session'[s].provider
    BY DEF SessionsEarned
  <2>1. CASE s \in N
    BY <2>1 DEF Begins, Owned
  <2>2. CASE s \notin N
    <3>1. session[s] # NoSession
      BY <2>2 DEF Fades
    <3>2. PICK i \in Owned(session[s].user) : ProviderOf[i] = session[s].provider
      BY <3>1 DEF IInv, SessionsEarned
    <3>3. session[s].user \in Users
      BY <3>1 DEF IInv, SessionsKnown
    <3>4. identity'[i].owner = session[s].user
      BY <1>0, <3>2, <3>3 DEF Owned
    <3> QED BY <2>2, <3>2, <3>4 DEF Owned, Fades
  <2> QED BY <2>1, <2>2
<1>5. OneSuccessor'
  <2> SUFFICES ASSUME NEW s \in Sessions, NEW t \in Sessions, s # t,
                      session'[s].from = session'[t].from, session'[s].from # None
               PROVE  FALSE
    BY DEF OneSuccessor
  <2>1. ASSUME NEW x \in Sessions, NEW y \in Sessions, x # y, x \in N,
               session'[x].from = session'[y].from, session'[x].from # None
        PROVE  FALSE
    <3>1. y \notin N
      BY <2>1
    <3>2. session[y].from = session'[x].from
      BY <2>1, <3>1 DEF Fades
    <3>3. session[session'[x].from].live
      BY <2>1 DEF Begins
    <3> QED BY <2>1, <3>2, <3>3 DEF IInv, ReplacedAreDead
  <2>2. s \notin N /\ t \notin N
    BY <2>1
  <2>3. session[s].from = session[t].from /\ session[s].from # None
    BY <2>2 DEF Fades
  <2> QED BY <2>3 DEF IInv, OneSuccessor
<1>6. ASSUME NEW q \in AttemptRow, Knows(q) PROVE Knows(q)'
  <2>1. ASSUME NEW s \in Sessions, session[s].user \in Users
        PROVE  session'[s].user \in Users
    <3>1. session[s] # NoSession
      BY <1>0, <2>1 DEF NoSession
    <3>2. Fades(s)
      BY <1>1, <3>1
    <3> QED BY <2>1, <3>2 DEF Fades
  <2>2. q.step = "found" =>
          /\ q.identity \in Identities /\ q.user \in Users
          /\ identity'[q.identity].owner = q.user
    BY <1>0, <1>6 DEF Knows
  <2> QED BY <1>6, <2>1, <2>2 DEF Knows
<1> QED BY <1>2, <1>3, <1>4, <1>5, <1>6

(* Transactions that go on still hold their sessions.                      *)
LEMMA RequestsStay ==
  ASSUME IInv, \A r \in Requests : request'[r] \in {request[r], NoRequest},
         \A r \in Requests : request'[r].step \in {"counted", "disabled"} =>
           session'[request'[r].session].live
  PROVE  RequestsHold'
<1>1. NoRequest.session = None /\ NoRequest.step = None
  BY DEF NoRequest
<1>2. ASSUME NEW r \in Requests PROVE Holds(request[r])'
  <2>1. CASE request'[r] = request[r]
    <3>1. Holds(request[r])
      BY DEF IInv, RequestsHold
    <3> QED BY <2>1, <3>1 DEF Holds
  <2>2. CASE request'[r] = NoRequest
    BY <1>1, <2>2 DEF Holds, None
  <2> QED BY <2>1, <2>2
<1>3. ASSUME NEW r \in Requests PROVE Alone(r, request[r].session)'
  <2>1. SUFFICES ASSUME NEW p \in Requests \ {r}, request'[r].session # None
                 PROVE  request'[p].session # request'[r].session
    BY DEF Alone
  <2>2. request'[r].session = request[r].session
    BY <1>1, <2>1
  <2>3. request[p].session # request[r].session
    BY <2>1, <2>2 DEF IInv, RequestsHold, Alone
  <2> QED BY <1>1, <2>1, <2>2, <2>3
<1> QED BY <1>2, <1>3 DEF RequestsHold

(* One session begins, or none does.                                       *)
LEMMA OneBegins ==
  ASSUME IInv, NEW n \in Sessions,
         session' \in [Sessions -> SessionRow],
         \A s \in Sessions \ {n} : Fades(s), Begins(n),
         \A j \in Identities :
           identity[j].owner # None => identity'[j].owner = identity[j].owner
  PROVE  /\ SessionsKnown' /\ ReplacedAreDead' /\ SessionsEarned' /\ OneSuccessor'
         /\ \A q \in AttemptRow : Knows(q) => Knows(q)'
<1> DEFINE N == {n}
<1>1. N \in SUBSET Sessions /\ \A m \in N : Begins(m) /\ N = {m}
  OBVIOUS
<1>2. \A s \in Sessions \ N : Fades(s)
  OBVIOUS
<1> HIDE DEF N
<1> QED BY <1>1, <1>2, SessionsMove

LEMMA NoneBegins ==
  ASSUME IInv, UNCHANGED identity,
         session' \in [Sessions -> SessionRow],
         \A s \in Sessions : Fades(s)
  PROVE  /\ SessionsKnown' /\ ReplacedAreDead' /\ SessionsEarned' /\ OneSuccessor'
         /\ \A q \in AttemptRow : Knows(q) => Knows(q)'
<1> DEFINE N == {}
<1>1. N \in SUBSET Sessions /\ \A m \in N : Begins(m) /\ N = {m}
  OBVIOUS
<1>2. \A s \in Sessions \ N : Fades(s)
  OBVIOUS
<1> HIDE DEF N
<1> QED BY <1>1, <1>2, SessionsMove

LEMMA NewSessionRow ==
  ASSUME NEW u \in Users, NEW p \in Providers, NEW old \in Sessions \cup {None}
  PROVE  /\ NewSession(u, p, old) \in SessionRow
         /\ NewSession(u, p, old).user = u /\ NewSession(u, p, old).provider = p
         /\ NewSession(u, p, old).from = old
BY DEF NewSession, SessionRow

LEMMA CreateSessionKeeps ==
  ASSUME IInv, NEW a \in Attempts, CreateSession(a)
  PROVE  IInv'
<1> DEFINE i == attempt[a].identity
           u == attempt[a].user
<1>1. i \in Identities /\ u \in Users /\ identity[i].owner = u /\ ProviderOf[i] \in Providers
  BY SignInAssumption, RowOf DEF CreateSession, Knows
<1>2. PICK s \in Sessions :
        /\ session[s] = NoSession
        /\ session' = [session EXCEPT ![s] = NewSession(u, ProviderOf[i], None)]
  BY DEF CreateSession
<1> DEFINE w == NewSession(u, ProviderOf[i], None)
<1>3. w \in SessionRow /\ w.user = u /\ w.provider = ProviderOf[i] /\ w.from = None
  BY <1>1, NewSessionRow
<1>4. /\ session' \in [Sessions -> SessionRow] /\ session'[s] = w
      /\ \A t \in Sessions : t # s => session'[t] = session[t]
  BY <1>2, <1>3 DEF IInv, SignInTypeOK
<1> HIDE DEF w
<1>5. UNCHANGED <<identity, request>> /\ attempt' = [attempt EXCEPT ![a] = NoAttempt]
  BY DEF CreateSession
<1>6. Begins(s)
  BY <1>1, <1>2, <1>3, <1>4, <1>5 DEF Begins
<1>7. \A t \in Sessions \ {s} : Fades(t)
  BY <1>4 DEF Fades
<1>8. /\ SessionsKnown' /\ ReplacedAreDead' /\ SessionsEarned' /\ OneSuccessor'
      /\ \A q \in AttemptRow : Knows(q) => Knows(q)'
  <2>1. \A j \in Identities :
          identity[j].owner # None => identity'[j].owner = identity[j].owner
    BY <1>5
  <2> HIDE DEF u, i
  <2> QED BY <1>4, <1>6, <1>7, <2>1, OneBegins
<1>9. RequestsHold'
  <2>1. \A r \in Requests : request'[r].step \in {"counted", "disabled"} =>
          request[r].session # s /\ request[r].session \in Sessions
                                 /\ session[request[r].session].live
    BY <1>2, <1>5 DEF IInv, RequestsHold, Holds, NoSession
  <2> QED BY <1>4, <1>5, <2>1, RequestsStay
<1>10. SignInTypeOK' /\ AttemptsKnow'
  BY <1>4, <1>5, <1>8, Forgotten DEF IInv, SignInTypeOK, AttemptsKnow
<1> QED BY <1>8, <1>9, <1>10 DEF IInv

-----------------------------------------------------------------------------
(* A callback that replaces the session it came with, which no transaction *)
(* has locked.                                                             *)
LEMMA RotateKeeps ==
  ASSUME IInv, NEW a \in Attempts, attempt[a].step = "confirmed",
         RotateSession(a), UNCHANGED request,
         identity' \in [Identities -> IdentityRow],
         \A j \in Identities : identity'[j].owner = None => ~identity'[j].enabled,
         \A j \in Identities :
           identity[j].owner # None => identity'[j].owner = identity[j].owner,
         identity'[attempt[a].identity].owner = session[attempt[a].session].user
  PROVE  IInv'
<1> DEFINE i == attempt[a].identity
           old == attempt[a].session
           u == session[old].user
<1>1. i \in Identities /\ ProviderOf[i] \in Providers /\ old \in Sessions /\ u \in Users
  BY SignInAssumption, RowOf DEF Knows
<1>2. session[old].live /\ ~Locked(old) /\ attempt' = [attempt EXCEPT ![a] = NoAttempt]
  BY DEF RotateSession, Rotates
<1> DEFINE w == NewSession(u, ProviderOf[i], old)
<1>3. PICK n \in Sessions :
        /\ session[n] = NoSession
        /\ session' = [session EXCEPT ![old].live = FALSE, ![n] = w]
  BY DEF RotateSession
<1>4. w \in SessionRow /\ w.user = u /\ w.provider = ProviderOf[i] /\ w.from = old
  BY <1>1, NewSessionRow
<1>5. n # old
  BY <1>2, <1>3 DEF NoSession
<1> HIDE DEF w
<1>6. /\ session' \in [Sessions -> SessionRow] /\ session'[n] = w
      /\ session'[old] = [session[old] EXCEPT !.live = FALSE]
      /\ \A t \in Sessions \ {n, old} : session'[t] = session[t]
  BY <1>1, <1>3, <1>4, <1>5 DEF IInv, SignInTypeOK, SessionRow
<1>7. ~session'[old].live /\ Fades(old)
  BY <1>1, <1>2, <1>6 DEF Fades, IInv, SignInTypeOK, SessionRow, NoSession
<1>8. Begins(n)
  BY <1>1, <1>2, <1>3, <1>4, <1>6, <1>7 DEF Begins
<1>9. \A t \in Sessions \ {n} : Fades(t)
  BY <1>6, <1>7 DEF Fades
<1>10. /\ SessionsKnown' /\ ReplacedAreDead' /\ SessionsEarned' /\ OneSuccessor'
       /\ \A q \in AttemptRow : Knows(q) => Knows(q)'
  BY <1>6, <1>8, <1>9, OneBegins
<1>11. RequestsHold'
  <2>1. ASSUME NEW r \in Requests, request[r].step \in {"counted", "disabled"}
        PROVE  session'[request[r].session].live
    <3>1. request[r].session \in Sessions /\ session[request[r].session].live
      BY <2>1 DEF IInv, RequestsHold, Holds
    <3>2. request[r].session # old /\ request[r].session # n
      BY <1>2, <1>3, <3>1 DEF Locked, NoSession
    <3> QED BY <1>6, <3>1, <3>2
  <2> QED BY <2>1, RequestsStay
<1>12. attempt' \in [Attempts -> AttemptRow] /\ AttemptsKnow'
  BY <1>2, <1>10, AttemptEnds
<1> QED BY <1>6, <1>10, <1>11, <1>12 DEF IInv, SignInTypeOK

LEMMA LinkIdentityAndRotateKeeps ==
  ASSUME IInv, NEW a \in Attempts, LinkIdentityAndRotate(a)
  PROVE  IInv'
<1> DEFINE i == attempt[a].identity
           u == session[attempt[a].session].user
           row == [owner |-> u, enabled |-> TRUE]
<1>1. attempt[a].step = "confirmed" /\ i \in Identities /\ u \in Users
  BY RowOf DEF LinkIdentityAndRotate, Knows
<1>2. row \in IdentityRow /\ row.owner = u
  BY <1>1 DEF IdentityRow
<1>3. /\ identity[i].owner \in {None, u}
      /\ identity' = [identity EXCEPT ![i] = row]
      /\ RotateSession(a) /\ UNCHANGED request
  BY DEF LinkIdentityAndRotate, Linkable
<1> HIDE DEF row
<1>4. /\ identity' \in [Identities -> IdentityRow]
      /\ \A j \in Identities : identity'[j].owner = None => ~identity'[j].enabled
      /\ \A j \in Identities :
           identity[j].owner # None => identity'[j].owner = identity[j].owner
  BY <1>1, <1>2, <1>3, OwnersStay
<1>5. identity'[i].owner = u
  BY <1>1, <1>2, <1>3 DEF IInv, SignInTypeOK
<1> QED BY <1>1, <1>3, <1>4, <1>5, RotateKeeps

LEMMA ReauthenticateAndRotateKeeps ==
  ASSUME IInv, NEW a \in Attempts, ReauthenticateAndRotate(a)
  PROVE  IInv'
<1>1. /\ attempt[a].step = "confirmed" /\ RotateSession(a)
      /\ UNCHANGED <<identity, request>>
      /\ identity[attempt[a].identity].owner = session[attempt[a].session].user
  BY DEF ReauthenticateAndRotate, Active, Owned
<1> QED BY <1>1, RotateKeeps DEF IInv, SignInTypeOK

-----------------------------------------------------------------------------
(* The transactions of an unlink and of a logout everywhere.               *)
LEMMA CountIdentitiesKeeps ==
  ASSUME IInv, NEW r \in Requests, CountIdentities(r)
  PROVE  IInv'
<1>1. PICK s \in Sessions, p \in Providers :
        /\ session[s].live /\ ~Locked(s)
        /\ request' = [request EXCEPT ![r] =
             [NoRequest EXCEPT !.step = "counted", !.session = s, !.provider = p]]
        /\ UNCHANGED <<identity, session, attempt>>
  BY DEF CountIdentities
<1> DEFINE q == [NoRequest EXCEPT !.step = "counted", !.session = s, !.provider = p]
<1>2. q \in RequestRow /\ q.step = "counted" /\ q.session = s
  BY DEF NoRequest, RequestRow
<1>3. Holds(q) /\ Alone(r, q.session)
  BY <1>1, <1>2 DEF Holds, Alone, Locked, None
<1> HIDE DEF q
<1> QED BY <1>1, <1>2, <1>3, RequestStep DEF q

LEMMA DisableIdentityKeeps ==
  ASSUME IInv, NEW r \in Requests, DisableIdentity(r)
  PROVE  IInv'
<1> DEFINE s == request[r].session
<1>1. PICK i \in Identities :
        /\ request' = [request EXCEPT ![r].step = "disabled",
             ![r].identity = i, ![r].targets = SessionsOf(session[s].user)]
        /\ UNCHANGED <<identity, session, attempt>>
  BY DEF DisableIdentity, Active, Owned
<1> DEFINE T == SessionsOf(session[s].user)
           q == [request[r] EXCEPT !.step = "disabled", !.identity = i, !.targets = T]
<1>2. s \in Sessions /\ session[s].live /\ Alone(r, s)
  BY DEF DisableIdentity, IInv, RequestsHold, Holds
<1>3. T \in SUBSET Sessions /\ s \in T
  BY <1>2 DEF SessionsOf
<1>4. request[r] \in RequestRow
  BY DEF IInv, SignInTypeOK
<1> HIDE DEF T
<1>5. /\ q \in RequestRow /\ q.step = "disabled" /\ q.session = s
      /\ q.identity = i /\ q.targets = T
  BY <1>3, <1>4 DEF RequestRow
<1>6. request' = [request EXCEPT ![r] = q]
  BY <1>1 DEF IInv, SignInTypeOK, T
<1> HIDE DEF q
<1>7. Holds(q) /\ Alone(r, q.session)
  BY <1>2, <1>3, <1>5 DEF Holds, None
<1> QED BY <1>1, <1>5, <1>6, <1>7, RequestStep

LEMMA LogoutAllKeeps ==
  ASSUME IInv, NEW r \in Requests, LogoutAll(r)
  PROVE  IInv'
<1>1. PICK s \in Sessions :
        /\ request' = [request EXCEPT ![r] =
             [NoRequest EXCEPT !.step = "revoking",
                               !.targets = SessionsOf(session[s].user)]]
        /\ UNCHANGED <<identity, session, attempt>>
  BY DEF LogoutAll
<1> DEFINE T == SessionsOf(session[s].user)
           q == [NoRequest EXCEPT !.step = "revoking", !.targets = T]
<1>2. T \in SUBSET Sessions
  BY DEF SessionsOf
<1>3. q \in RequestRow /\ q.step = "revoking" /\ q.session = None
  BY <1>2 DEF NoRequest, RequestRow
<1>4. Holds(q) /\ Alone(r, q.session)
  BY <1>3 DEF Holds, Alone, None
<1> HIDE DEF q
<1> QED BY <1>1, <1>3, <1>4, RequestStep DEF q

(* The sessions that are revoked are nobody else's lock.                   *)
LEMMA RevokedFade ==
  ASSUME IInv, NEW r \in Requests, Reaches(r)
  PROVE  /\ Revoked(r) \in [Sessions -> SessionRow]
         /\ \A s \in Sessions :
              /\ Revoked(r)[s].user = session[s].user
              /\ Revoked(r)[s].provider = session[s].provider
              /\ Revoked(r)[s].from = session[s].from
              /\ Revoked(r)[s].live => session[s].live /\ s \notin request[r].targets
              /\ s \notin request[r].targets => Revoked(r)[s] = session[s]
              /\ session[s] = NoSession => Revoked(r)[s] = NoSession
         /\ \A p \in Requests \ {r} : request[p].step \in {"counted", "disabled"} =>
              /\ request[p].session \in Sessions
              /\ session[request[p].session].live
              /\ Revoked(r)[request[p].session] = session[request[p].session]
<1>1. ASSUME NEW s \in Sessions
      PROVE  /\ Revoked(r)[s] \in SessionRow
             /\ Revoked(r)[s].user = session[s].user
             /\ Revoked(r)[s].provider = session[s].provider
             /\ Revoked(r)[s].from = session[s].from
             /\ Revoked(r)[s].live => session[s].live /\ s \notin request[r].targets
             /\ s \notin request[r].targets => Revoked(r)[s] = session[s]
             /\ session[s] = NoSession => Revoked(r)[s] = NoSession
  <2>1. session[s] \in SessionRow
    BY DEF IInv, SignInTypeOK
  <2>2. CASE s \notin request[r].targets
    BY <2>1, <2>2 DEF Revoked
  <2>3. CASE s \in request[r].targets
    <3>1. Revoked(r)[s] = [session[s] EXCEPT !.live = FALSE]
      BY <2>3 DEF Revoked
    <3>2. NoSession \in SessionRow /\ NoSession.live = FALSE
      BY DEF NoSession, SessionRow
    <3>3. session[s] = NoSession => Revoked(r)[s] = NoSession
      BY <3>1, <3>2 DEF SessionRow
    <3> QED BY <2>1, <2>3, <3>1, <3>3 DEF SessionRow
  <2> QED BY <2>2, <2>3
<1>2. ASSUME NEW p \in Requests \ {r}, request[p].step \in {"counted", "disabled"}
      PROVE  /\ request[p].session \in Sessions
             /\ session[request[p].session].live
             /\ request[p].session \notin request[r].targets
  <2>1. /\ request[p].session \in Sessions /\ session[request[p].session].live
        /\ Alone(r, request[r].session)
    BY <1>2 DEF IInv, RequestsHold, Holds
  <2>2. Locked(request[p].session)
    BY DEF Locked
  <2>3. request[p].session # request[r].session
    BY <2>1, NoneIsNothing DEF Alone
  <2> QED BY <2>1, <2>2, <2>3 DEF Reaches
<1>3. Revoked(r) \in [Sessions -> SessionRow]
  BY <1>1 DEF Revoked
<1> QED BY <1>1, <1>2, <1>3

(* A transaction ends: the others still hold what they have locked.        *)
LEMMA RequestEnds ==
  ASSUME IInv, NEW r \in Requests, request' = [request EXCEPT ![r] = NoRequest],
         \A p \in Requests \ {r} : request[p].step \in {"counted", "disabled"} =>
           session'[request[p].session].live
  PROVE  request' \in [Requests -> RequestRow] /\ RequestsHold'
<1>1. NoRequest \in RequestRow /\ NoRequest.step = None
  BY Forgotten DEF NoRequest
<1>2. \A p \in Requests : request'[p] \in {request[p], NoRequest}
  BY DEF IInv, SignInTypeOK
<1>3. \A p \in Requests : request'[p].step \in {"counted", "disabled"} =>
        session'[request'[p].session].live
  BY <1>1 DEF IInv, SignInTypeOK, None
<1>4. request' \in [Requests -> RequestRow]
  BY <1>1 DEF IInv, SignInTypeOK
<1> QED BY <1>2, <1>3, <1>4, RequestsStay

LEMMA RevokeUserSessionsKeeps ==
  ASSUME IInv, NEW r \in Requests, RevokeUserSessions(r)
  PROVE  IInv'
<1>1. /\ Reaches(r) /\ session' = Revoked(r)
      /\ request' = [request EXCEPT ![r] = NoRequest]
      /\ UNCHANGED <<identity, attempt>>
  BY DEF RevokeUserSessions
<1>2. session' \in [Sessions -> SessionRow] /\ \A s \in Sessions : Fades(s)
  BY <1>1, RevokedFade DEF Fades
<1>3. /\ SessionsKnown' /\ ReplacedAreDead' /\ SessionsEarned' /\ OneSuccessor'
      /\ \A q \in AttemptRow : Knows(q) => Knows(q)'
  BY <1>1, <1>2, NoneBegins
<1>4. request' \in [Requests -> RequestRow] /\ RequestsHold'
  BY <1>1, RevokedFade, RequestEnds
<1>5. AttemptsKnow'
  BY <1>1, <1>3 DEF IInv, SignInTypeOK, AttemptsKnow
<1> QED BY <1>1, <1>2, <1>3, <1>4, <1>5 DEF IInv, SignInTypeOK

(* The fresh session is the successor of the caller's own, which is among  *)
(* the revoked ones.                                                       *)
LEMMA CommitUnlinkKeeps ==
  ASSUME IInv, NEW r \in Requests, CommitUnlink(r)
  PROVE  IInv'
<1> DEFINE old == request[r].session
           u == session[old].user
           p == session[old].provider
           i == request[r].identity
           w == NewSession(u, p, old)
<1>1. /\ request[r].step = "disabled" /\ Reaches(r)
      /\ identity' = [identity EXCEPT ![i].enabled = FALSE]
      /\ request' = [request EXCEPT ![r] = NoRequest]
      /\ UNCHANGED attempt
  BY DEF CommitUnlink
<1>2. PICK n \in Sessions :
        session[n] = NoSession /\ session' = [Revoked(r) EXCEPT ![n] = w]
  BY DEF CommitUnlink
<1>3. old \in Sessions /\ session[old].live /\ old \in request[r].targets /\ i \in Identities
  BY <1>1 DEF IInv, RequestsHold, Holds
<1>4. u \in Users /\ p \in Providers /\ n # old /\ session[old] # NoSession
  BY <1>2, <1>3 DEF IInv, SessionsKnown, NoSession
<1>5. w \in SessionRow /\ w.user = u /\ w.provider = p /\ w.from = old
  BY <1>3, <1>4, NewSessionRow
<1> HIDE DEF w
<1>6. /\ session' \in [Sessions -> SessionRow] /\ session'[n] = w
      /\ \A t \in Sessions \ {n} : session'[t] = Revoked(r)[t]
  BY <1>1, <1>2, <1>5, RevokedFade
<1>7. /\ \A j \in Identities : identity'[j].owner = identity[j].owner
      /\ identity' \in [Identities -> IdentityRow]
      /\ \A j \in Identities : identity'[j].owner = None => ~identity'[j].enabled
  BY <1>1, <1>3 DEF IInv, SignInTypeOK, IdentityRow
<1>8. \E j \in Identities : identity'[j].owner = u /\ ProviderOf[j] = p
  BY <1>3, <1>4, <1>7 DEF IInv, SessionsEarned, Owned
<1>9. ~session'[old].live
  BY <1>1, <1>3, <1>4, <1>6, RevokedFade
<1>10. Begins(n)
  BY <1>2, <1>3, <1>4, <1>5, <1>6, <1>8, <1>9 DEF Begins
<1>11. \A t \in Sessions \ {n} : Fades(t)
  BY <1>1, <1>6, RevokedFade DEF Fades
<1>12. /\ SessionsKnown' /\ ReplacedAreDead' /\ SessionsEarned' /\ OneSuccessor'
       /\ \A q \in AttemptRow : Knows(q) => Knows(q)'
  BY <1>6, <1>7, <1>10, <1>11, OneBegins
<1>13. \A o \in Requests \ {r} : request[o].step \in {"counted", "disabled"} =>
         session'[request[o].session].live
  BY <1>1, <1>2, <1>6, RevokedFade DEF NoSession
<1>14. request' \in [Requests -> RequestRow] /\ RequestsHold'
  BY <1>1, <1>13, RequestEnds
<1>15. AttemptsKnow'
  BY <1>1, <1>12 DEF IInv, SignInTypeOK, AttemptsKnow
<1> QED BY <1>1, <1>6, <1>7, <1>12, <1>14, <1>15 DEF IInv, SignInTypeOK

-----------------------------------------------------------------------------
(* A step that touches one session no transaction has locked.              *)
LEMMA FadeKeeps ==
  ASSUME IInv, NEW s \in Sessions, NEW x \in SessionRow, ~Locked(s),
         x.user = session[s].user, x.provider = session[s].provider,
         x.from = session[s].from, x.live => session[s].live,
         session[s] = NoSession => x = NoSession,
         session' = [session EXCEPT ![s] = x],
         UNCHANGED <<identity, attempt, request>>
  PROVE  IInv'
<1>1. /\ session' \in [Sessions -> SessionRow]
      /\ session'[s] = x /\ \A t \in Sessions \ {s} : session'[t] = session[t]
  BY DEF IInv, SignInTypeOK
<1>2. \A t \in Sessions : Fades(t)
  BY <1>1 DEF Fades
<1>3. /\ SessionsKnown' /\ ReplacedAreDead' /\ SessionsEarned' /\ OneSuccessor'
      /\ \A q \in AttemptRow : Knows(q) => Knows(q)'
  BY <1>1, <1>2, NoneBegins
<1>4. \A r \in Requests : request[r].step \in {"counted", "disabled"} =>
        session'[request[r].session].live
  BY <1>1 DEF IInv, RequestsHold, Holds, Locked
<1>5. RequestsHold'
  BY <1>4, RequestsStay
<1>6. AttemptsKnow'
  BY <1>3 DEF IInv, SignInTypeOK, AttemptsKnow
<1> QED BY <1>1, <1>3, <1>5, <1>6 DEF IInv, SignInTypeOK

LEMMA SessionStepKeeps ==
  ASSUME IInv, NEW s \in Sessions, Logout(s) \/ RecencyEnds(s) \/ SessionExpires(s)
  PROVE  IInv'
<1>1. session[s] \in SessionRow
  BY DEF IInv, SignInTypeOK
<1>2. CASE Logout(s) \/ SessionExpires(s)
  <2> DEFINE x == [session[s] EXCEPT !.live = FALSE]
  <2>1. /\ x \in SessionRow /\ ~Locked(s)
        /\ x.user = session[s].user /\ x.provider = session[s].provider
        /\ x.from = session[s].from /\ ~x.live
    BY <1>1, <1>2 DEF SessionRow, Logout, SessionExpires
  <2>3. session[s] # NoSession
    BY <1>2 DEF Logout, SessionExpires, NoSession
  <2>2. session' = [session EXCEPT ![s] = x] /\ UNCHANGED <<identity, attempt, request>>
    BY <1>2 DEF Logout, SessionExpires
  <2> HIDE DEF x
  <2> QED BY <2>1, <2>2, <2>3, FadeKeeps
<1>3. CASE RecencyEnds(s)
  <2> DEFINE x == [session[s] EXCEPT !.recent = FALSE]
  <2>1. /\ x \in SessionRow /\ ~Locked(s)
        /\ x.user = session[s].user /\ x.provider = session[s].provider
        /\ x.from = session[s].from /\ x.live = session[s].live
    BY <1>1, <1>3 DEF SessionRow, RecencyEnds
  <2>3. session[s] # NoSession
    BY <1>3 DEF RecencyEnds, NoSession
  <2>2. session' = [session EXCEPT ![s] = x] /\ UNCHANGED <<identity, attempt, request>>
    BY <1>3 DEF RecencyEnds
  <2> HIDE DEF x
  <2> QED BY <2>1, <2>2, <2>3, FadeKeeps
<1> QED BY <1>2, <1>3

-----------------------------------------------------------------------------
LEMMA NextKeeps == IInv /\ [Next]_vars => IInv'
<1> SUFFICES ASSUME IInv, [Next]_vars PROVE IInv'
  OBVIOUS
<1>1. ASSUME NEW a \in Attempts,
             \/ StartLogin(a) \/ StartLink(a) \/ StartReauth(a)
             \/ Callback(a) \/ Abandon(a)
             \/ FindLogin(a) \/ Login(a) \/ CreateSession(a)
             \/ Authenticate(a)
             \/ LinkIdentityAndRotate(a) \/ ReauthenticateAndRotate(a)
      PROVE  IInv'
  BY <1>1, StartKeeps, CallbackKeeps, AbandonKeeps, FindLoginKeeps, LoginKeeps,
     CreateSessionKeeps, AuthenticateKeeps, LinkIdentityAndRotateKeeps,
     ReauthenticateAndRotateKeeps
<1>2. ASSUME NEW r \in Requests,
             \/ CountIdentities(r) \/ DisableIdentity(r) \/ CommitUnlink(r)
             \/ RollBack(r)
             \/ LogoutAll(r) \/ RevokeUserSessions(r)
      PROVE  IInv'
  BY <1>2, CountIdentitiesKeeps, DisableIdentityKeeps, CommitUnlinkKeeps,
     RollBackKeeps, LogoutAllKeeps, RevokeUserSessionsKeeps
<1>3. CASE UNCHANGED vars
  BY <1>3 DEF vars, IInv, SignInTypeOK, SessionsKnown, AttemptsKnow, Knows,
              RequestsHold, Holds, Alone, ReplacedAreDead, SessionsEarned, Owned,
              OneSuccessor
<1> QED BY <1>1, <1>2, <1>3, SessionStepKeeps DEF Next

LEMMA Inductive == Spec => []IInv
BY InitIInv, NextKeeps, PTL DEF Spec

(* Identities, sessions, attempts and transactions have their types, and   *)
(* an identity nobody owns never signs in (service.go, auth.go).           *)
THEOREM SignInTypeCorrect == Spec => []SignInTypeOK
<1>1. IInv => SignInTypeOK
  BY DEF IInv
<1> QED BY <1>1, Inductive, PTL

(* Whatever logins, links, re-authentications and unlinks interleave, for  *)
(* any number of them, a session is of a user who still owns an identity   *)
(* of the provider it names (issueSession, rotateSession of auth.go).      *)
THEOREM SessionsAreEarned == Spec => []SessionsEarned
<1>1. IInv => SessionsEarned
  BY DEF IInv
<1> QED BY <1>1, Inductive, PTL

(* The UPDATE of rotateSession and the locks of an unlink let one request  *)
(* replace a session: never do two sessions come from the same one.        *)
THEOREM ReplacedOnce == Spec => []OneSuccessor
<1>1. IInv => OneSuccessor
  BY DEF IInv
<1> QED BY <1>1, Inductive, PTL
=============================================================================
