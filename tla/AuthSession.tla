----------------------------- MODULE AuthSession -----------------------------
(***************************************************************************)
(* The phone's session: AuthSessionManager with its vault and its single   *)
(* refresh in flight, the sign-out barrier of AppModel, and the requests   *)
(* of APIClient that take a credential, are rejected, refresh and retry.   *)
(*                                                                         *)
(* The manager is an actor: what lies between two awaits is one step, and  *)
(* anything may happen at an await.  The remote rotates refresh tokens; a  *)
(* session is its user and the version the remote issued.  Abstracted: the *)
(* clock (an access token may expire, or be rejected, at any time).        *)
(***************************************************************************)
EXTENDS Integers

CONSTANTS
  Users, Requests, NoUser,
  MaxVersion,  \* bound: sessions the remote issues
  MaxFlights   \* bound: refreshes of one life of the app

AuthAssumption == NoUser \notin Users /\ {MaxVersion, MaxFlights} \subseteq Nat

VARIABLES
  session,     \* the manager's session
  vault,       \* the Keychain's
  generation,
  flight,      \* the refreshes sent to the remote, by number
  current,     \* refreshFlight: its number, or 0
  barrier,     \* ExplicitSignOutBarrier
  app,         \* "running", or inside signOut ("leaving") or a sign-in ("entering")
  request,     \* per request: program counter, credential and awaited flight
  issued,      \* versions the remote has issued
  live,        \* versions whose refresh token the remote still accepts
  signedOut    \* history: the owner signed out and nobody has signed in since

manager == <<session, vault, generation, flight, current>>
outside == <<issued, live>>
vars == <<manager, barrier, app, request, outside, signedOut>>

NoSession == [user |-> NoUser, ver |-> 0]
Sessions == [user : Users, ver : 1..MaxVersion]
NoCredential == [user |-> NoUser, ver |-> 0, gen |-> 0]
Fresh == [pc |-> "idle", cred |-> NoCredential, first |-> NoCredential, flight |-> 0]
Credential(s) == [user |-> s.user, ver |-> s.ver, gen |-> generation]

Init ==
  /\ session = NoSession /\ vault = NoSession /\ generation = 0
  /\ flight = [i \in 1..MaxFlights |-> [gen |-> 0, user |-> NoUser, ver |-> 0, new |-> 0,
                                        reply |-> "none"]]
  /\ current = 0 /\ barrier = FALSE /\ app = "running"
  /\ request = [r \in Requests |-> Fresh]
  /\ issued = 0 /\ live = {} /\ signedOut = FALSE

-----------------------------------------------------------------------------
(* The manager's own transitions.                                          *)

\* The flight is cancelled; its request may still reach the remote.
InvalidateRefreshes ==
  /\ generation' = generation + 1
  /\ current' = 0

\* The Keychain may refuse to clear.
ClearVault == vault' \in {vault, NoSession}

R(r) == request[r]
Requested(r, next) == request' = [request EXCEPT ![r] = next]
Ends(r) == Requested(r, Fresh)

Unsent(i) == flight[i].reply = "none"
Launch(i) ==
  /\ Unsent(i) /\ \A j \in 1..(i - 1) : ~Unsent(j)
  /\ flight' = [flight EXCEPT ![i] = [gen |-> generation, user |-> session.user,
                                      ver |-> session.ver, new |-> 0, reply |-> "pending"]]
  /\ current' = i

\* refresh, up to its await: join the flight of this session or start it.
JoinFlight(r, purpose) ==
  \/ /\ current # 0
     /\ Requested(r, [R(r) EXCEPT !.pc = purpose, !.flight = current])
     /\ UNCHANGED <<flight, current>>
  \/ /\ current = 0
     /\ \E i \in 1..MaxFlights :
          Launch(i) /\ Requested(r, [R(r) EXCEPT !.pc = purpose, !.flight = i])

F(r) == flight[R(r).flight]
Refreshed(r) == [user |-> F(r).user, ver |-> F(r).new]
Others == UNCHANGED <<barrier, app, outside, signedOut>>

\* The request goes on with the token of the session s.
Proceeds(r, s) ==
  LET c == [user |-> s.user, ver |-> s.ver, gen |-> generation] IN
  IF R(r).pc = "await" THEN Requested(r, [R(r) EXCEPT !.pc = "sent", !.cred = c, !.first = c])
  ELSE Requested(r, [R(r) EXCEPT !.pc = "retried", !.cred = c])

\* A waiter whose flight came back in time: the first one commits the new
\* session, the others accept what it committed, or fail.
Adopt(r) ==
  /\ F(r).reply = "ok" /\ generation = F(r).gen
  /\ IF current = R(r).flight
     THEN \/ /\ vault' = Refreshed(r) /\ session' = Refreshed(r) /\ current' = 0
             /\ Proceeds(r, Refreshed(r))
          \/ /\ current' = 0 /\ Ends(r)      \* the Keychain refused
             /\ UNCHANGED <<session, vault>>
     ELSE /\ UNCHANGED <<session, vault, current>>
          /\ IF session = Refreshed(r) THEN Proceeds(r, session) ELSE Ends(r)
  /\ UNCHANGED <<generation, flight>>

\* The flight failed: a refused refresh token ends the session.
Disappointed(r) ==
  /\ F(r).reply \in {"refused", "lost"} /\ generation = F(r).gen
  /\ Ends(r)
  /\ IF F(r).reply = "refused"
     THEN InvalidateRefreshes /\ session' = NoSession /\ ClearVault
     ELSE /\ current' = IF current = R(r).flight THEN 0 ELSE current
          /\ UNCHANGED <<generation, session, vault>>
  /\ UNCHANGED flight

\* The generation moved on: whatever the flight brings, the caller is out.
Outdated(r) ==
  /\ generation # F(r).gen
  /\ Ends(r)
  /\ UNCHANGED manager

Resume(r) ==
  /\ R(r).pc \in {"await", "reawait"}
  /\ Adopt(r) \/ Disappointed(r) \/ Outdated(r)
  /\ Others

-----------------------------------------------------------------------------
(* send: credential, request, one refresh after a 401, one retry.          *)

Begin(r) ==
  /\ R(r).pc = "idle" /\ session # NoSession
  /\ \/ /\ Requested(r, [Fresh EXCEPT !.pc = "sent", !.cred = Credential(session),
                                      !.first = Credential(session)])
        /\ UNCHANGED <<flight, current>>
     \/ JoinFlight(r, "await")       \* within the leeway of its expiry
  /\ UNCHANGED <<session, vault, generation>> /\ Others

\* Whatever the answer is, but a first 401.
Answered(r) ==
  /\ R(r).pc \in {"sent", "retried"}
  /\ Ends(r)
  /\ UNCHANGED manager /\ Others

\* A 401: refreshAfterUnauthorized(rejectedCredential:), up to its await.
Rejected(r) ==
  /\ R(r).pc = "sent"
  /\ IF session.user # R(r).cred.user \/ generation # R(r).cred.gen
     THEN Ends(r) /\ UNCHANGED <<flight, current>>
     ELSE IF session.ver # R(r).cred.ver
     THEN /\ Requested(r, [R(r) EXCEPT !.pc = "retried", !.cred = Credential(session)])
          /\ UNCHANGED <<flight, current>>
     ELSE JoinFlight(r, "reawait")
  /\ UNCHANGED <<session, vault, generation>> /\ Others

-----------------------------------------------------------------------------
(* The remote.                                                             *)

\* A refresh rotates the token; its reply may be lost.
Serve(i) ==
  /\ flight[i].reply = "pending"
  /\ IF flight[i].ver \in live
     THEN /\ issued < MaxVersion /\ issued' = issued + 1
          /\ live' = (live \ {flight[i].ver}) \cup {issued'}
          /\ \E reply \in {"ok", "lost"} :
               flight' = [flight EXCEPT ![i].reply = reply, ![i].new = issued']
     ELSE /\ flight' = [flight EXCEPT ![i].reply = "refused"]
          /\ UNCHANGED outside
  /\ UNCHANGED <<session, vault, generation, current, barrier, app, request, signedOut>>

Lose(i) ==
  /\ flight[i].reply = "pending"
  /\ flight' = [flight EXCEPT ![i].reply = "lost"]
  /\ UNCHANGED <<session, vault, generation, current, barrier, app, request, outside, signedOut>>

\* Every session of the account is revoked, from this phone or elsewhere.
Revoke(v) ==
  /\ v \in live /\ live' = live \ {v}
  /\ UNCHANGED <<manager, barrier, app, request, issued, signedOut>>

-----------------------------------------------------------------------------
(* AppModel.                                                               *)

\* signOut records the barrier first, or does not sign out.
SignOutBarrier ==
  /\ app = "running" /\ session # NoSession
  /\ barrier' = TRUE /\ signedOut' = TRUE /\ app' = "leaving"
  /\ UNCHANGED <<manager, request, outside>>

SignOutSession ==
  /\ app = "leaving" /\ app' = "running"
  /\ InvalidateRefreshes /\ session' = NoSession /\ ClearVault
  /\ UNCHANGED <<flight, barrier, request, outside, signedOut>>

\* acceptVerifiedSession: the session is accepted, then the barrier cleared.
SignIn(u) ==
  /\ app = "running" /\ issued < MaxVersion
  /\ issued' = issued + 1 /\ live' = live \cup {issued'}
  /\ session' = [user |-> u, ver |-> issued'] /\ vault' = session'
  /\ InvalidateRefreshes /\ app' = "entering" /\ signedOut' = FALSE
  /\ UNCHANGED <<flight, barrier, request>>

SignedIn ==
  /\ app = "entering" /\ app' = "running"
  /\ \/ barrier' = FALSE /\ UNCHANGED manager
     \/ /\ barrier' \in {barrier, FALSE}   \* clearing it is not confirmed
        /\ InvalidateRefreshes /\ session' = NoSession /\ ClearVault
        /\ UNCHANGED flight
  /\ UNCHANGED <<request, outside, signedOut>>

\* (mutant) the barrier is not read when the app starts
RestartUnbarred ==
  /\ app' = "running" /\ generation' = 0 /\ current' = 0
  /\ request' = [r \in Requests |-> Fresh]
  /\ session' = vault /\ UNCHANGED vault
  /\ UNCHANGED <<flight, barrier, outside, signedOut>>

\* The app is killed and started again: bootstrap.
Restart ==
  /\ app' = "running" /\ generation' = 0 /\ current' = 0
  /\ request' = [r \in Requests |-> Fresh]
  /\ IF barrier THEN session' = NoSession /\ ClearVault
     ELSE session' = vault /\ UNCHANGED vault
  /\ UNCHANGED <<flight, barrier, outside, signedOut>>

Next ==
  \/ SignOutBarrier \/ SignOutSession \/ SignedIn \/ Restart
  \/ \E u \in Users : SignIn(u)
  \/ \E r \in Requests : Begin(r) \/ Answered(r) \/ Rejected(r) \/ Resume(r)
  \/ \E i \in 1..MaxFlights : Serve(i) \/ Lose(i)
  \/ \E v \in live : Revoke(v)

Spec == Init /\ [][Next]_vars

-----------------------------------------------------------------------------
TypeOK ==
  /\ session \in Sessions \cup {NoSession} /\ vault \in Sessions \cup {NoSession}
  /\ generation \in Nat /\ current \in 0..MaxFlights
  /\ app \in {"running", "leaving", "entering"} /\ barrier \in BOOLEAN
  /\ \A r \in Requests : R(r).pc \in {"idle", "sent", "await", "reawait", "retried"}
  /\ live \subseteq 1..issued

\* Once the owner signed out, no late refresh, restart or Keychain failure
\* brings a session back before somebody signs in.
SignedOutStays == signedOut /\ app # "leaving" => session = NoSession

\* A request retried after a 401 carries a token of the account and the
\* session generation it was made under.
OneAccountPerRequest ==
  \A r \in Requests : R(r).pc = "retried" =>
    R(r).cred.user = R(r).first.user /\ R(r).cred.gen = R(r).first.gen

\* The token of a refresh rotates: the requests of one session share one
\* refresh, they do not present its token twice side by side.
RefreshShared ==
  \A r, q \in Requests :
    /\ R(r).pc \in {"await", "reawait"} /\ F(r).reply = "pending" /\ F(r).gen = generation
    /\ R(q).pc \in {"await", "reawait"} /\ F(q).reply = "pending" /\ F(q).gen = generation
    => R(r).flight = R(q).flight

\* The session in use is the one a restart would find.
SessionSurvivesRestart == session # NoSession => vault = session
=============================================================================
