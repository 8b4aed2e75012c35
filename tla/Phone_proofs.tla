---------------------------- MODULE Phone_proofs ----------------------------
(***************************************************************************)
(* The phone, proved: its session, its search, its outbox and its composer *)
(* each have an inductive invariant over their own variables, and a step   *)
(* of the phone is a step of one of them.                                  *)
(***************************************************************************)
EXTENDS Phone, Cuts_proofs

-----------------------------------------------------------------------------
(* The session.                                                            *)

\* What the session's variables hold.
Names == Users \cup {NoUser}
Creds == [user : Names, ver : 0 .. MaxVersion, gen : Nat]
Held == Auth!Sessions \cup {Auth!NoSession}
FlightType == [gen : Nat, user : Names, ver : 0 .. MaxVersion, new : 0 .. MaxVersion,
               reply : {"none", "pending", "ok", "lost", "refused"}]
RequestType == [pc : {"idle", "sent", "await", "reawait", "retried"}, cred : Creds,
                first : Creds, flight : 0 .. MaxFlights]
AuthTypes ==
  /\ held \in Held /\ vault \in Held
  /\ generation \in Nat /\ current \in 0 .. MaxFlights
  /\ app \in {"running", "leaving", "entering"} /\ barrier \in BOOLEAN /\ signedOut \in BOOLEAN
  /\ issued \in 0 .. MaxVersion /\ live \subseteq 1 .. issued
  /\ flight \in [1 .. MaxFlights -> FlightType]
  /\ request \in [Requests -> RequestType]

\* Signing out is recorded by the barrier, which a restart reads.
Barred ==
  /\ signedOut => barrier /\ app # "entering"
  /\ Auth!SignedOutStays

\* A refresh that succeeded brought a session.
Rotated == \A i \in 1 .. MaxFlights : flight[i].reply = "ok" => flight[i].new # 0

\* The refresh that may be joined is of the session in use.
CurrentIsOfSession ==
  current # 0 =>
    /\ flight[current].gen = generation /\ flight[current].reply # "none"
    /\ held # Auth!NoSession /\ flight[current].user = held.user

\* A caller waits for a refresh that was sent.  Unless the generation moved on
\* the session is still of its account, and the only refresh under way is the
\* current one.
Awaits(r) ==
  request[r].pc \in {"await", "reawait"} =>
    LET i == request[r].flight IN
    /\ i \in 1 .. MaxFlights
    /\ flight[i].reply # "none" /\ flight[i].gen <= generation
    /\ flight[i].gen = generation =>
         /\ held # Auth!NoSession /\ flight[i].user = held.user
         /\ flight[i].reply = "pending" => i = current
    /\ request[r].pc = "reawait" =>
         flight[i].gen = request[r].first.gen /\ flight[i].user = request[r].first.user

\* A request carries the credential it was made with until it is rejected, and
\* after that one of the same account and generation.
Carries(r) ==
  /\ request[r].pc = "sent" =>
       request[r].cred = request[r].first /\ request[r].cred.user \in Users
  /\ request[r].pc = "retried" =>
       /\ request[r].cred.user = request[r].first.user
       /\ request[r].cred.gen = request[r].first.gen

AuthInv ==
  /\ AuthTypes /\ Barred /\ Auth!SessionSurvivesRestart /\ Rotated /\ CurrentIsOfSession
  /\ \A r \in Requests : Awaits(r) /\ Carries(r)

LEMMA AuthBounds == MaxVersion \in Nat /\ MaxFlights \in Nat /\ NoUser \notin Users
BY PhoneAssumption DEF Auth!AuthAssumption

LEMMA NoSessionIsHeld == Auth!NoSession \in Held
BY DEF Held

LEMMA FreshIsRequest == Auth!Fresh \in RequestType
BY AuthBounds DEF Auth!Fresh, Auth!NoCredential, RequestType, Creds, Names

LEMMA AuthBegins ==
  ASSUME Auth!Init PROVE AuthInv
<1>1. [gen |-> 0, user |-> NoUser, ver |-> 0, new |-> 0, reply |-> "none"] \in FlightType
  BY AuthBounds DEF FlightType, Names
<1>2. AuthTypes
  <2>1. held \in Held /\ vault \in Held
    BY NoSessionIsHeld DEF Auth!Init
  <2>2. barrier \in BOOLEAN /\ signedOut \in BOOLEAN /\ app = "running" /\ generation \in Nat
    BY DEF Auth!Init
  <2>3. current \in 0 .. MaxFlights /\ issued \in 0 .. MaxVersion /\ live \subseteq 1 .. issued
    BY AuthBounds DEF Auth!Init
  <2>4. flight \in [1 .. MaxFlights -> FlightType]
    BY <1>1 DEF Auth!Init
  <2>5. request \in [Requests -> RequestType]
    BY FreshIsRequest DEF Auth!Init
  <2> QED BY <2>1, <2>2, <2>3, <2>4, <2>5 DEF AuthTypes
<1>3. Barred /\ Auth!SessionSurvivesRestart /\ Rotated /\ CurrentIsOfSession
  BY DEF Auth!Init, Barred, Auth!SignedOutStays, Auth!SessionSurvivesRestart, Rotated,
     CurrentIsOfSession
<1>4. \A r \in Requests : Awaits(r) /\ Carries(r)
  BY DEF Auth!Init, Awaits, Carries, Auth!Fresh
<1> QED BY <1>2, <1>3, <1>4 DEF AuthInv

-----------------------------------------------------------------------------
(* Steps that leave the refreshes and the requests alone.                  *)

\* What ends the life of a session ends that of its refreshes.
LEMMA Invalidated ==
  ASSUME AuthInv, Auth!InvalidateRefreshes, UNCHANGED <<flight, request>>
  PROVE  Rotated' /\ CurrentIsOfSession' /\ \A r \in Requests : Awaits(r)' /\ Carries(r)'
<1>1. Rotated' /\ CurrentIsOfSession'
  BY DEF AuthInv, Rotated, CurrentIsOfSession, Auth!InvalidateRefreshes
<1>2. ASSUME NEW r \in Requests PROVE Awaits(r)'
  BY DEF AuthInv, AuthTypes, Awaits, Auth!InvalidateRefreshes, FlightType
<1>3. ASSUME NEW r \in Requests PROVE Carries(r)'
  BY DEF AuthInv, Carries
<1> QED BY <1>1, <1>2, <1>3

LEMMA OutsideKeeps ==
  ASSUME AuthInv, UNCHANGED <<Auth!manager, request>>
  PROVE  /\ Auth!SessionSurvivesRestart' /\ Rotated' /\ CurrentIsOfSession'
         /\ \A r \in Requests : Awaits(r)' /\ Carries(r)'
BY DEF AuthInv, Auth!manager, Auth!SessionSurvivesRestart, Rotated, CurrentIsOfSession,
       Awaits, Carries

LEMMA RevokeKeeps ==
  ASSUME AuthInv, NEW v \in live, Auth!Revoke(v) PROVE AuthInv'
<1>1. AuthTypes' /\ Barred'
  BY DEF AuthInv, AuthTypes, Barred, Auth!SignedOutStays, Auth!Revoke, Auth!manager
<1> QED BY <1>1, OutsideKeeps DEF AuthInv, Auth!Revoke

LEMMA SignOutBarrierKeeps ==
  ASSUME AuthInv, Auth!SignOutBarrier PROVE AuthInv'
<1>1. AuthTypes' /\ Barred'
  BY DEF AuthInv, AuthTypes, Barred, Auth!SignedOutStays, Auth!SignOutBarrier, Auth!manager,
     Auth!outside
<1> QED BY <1>1, OutsideKeeps DEF AuthInv, Auth!SignOutBarrier

LEMMA SignOutSessionKeeps ==
  ASSUME AuthInv, Auth!SignOutSession PROVE AuthInv'
<1>1. AuthTypes'
  BY AuthBounds, NoSessionIsHeld DEF AuthInv, AuthTypes, Auth!SignOutSession, Auth!InvalidateRefreshes,
     Auth!ClearVault, Auth!outside
<1>2. Barred' /\ Auth!SessionSurvivesRestart'
  BY DEF AuthInv, Barred, Auth!SignedOutStays, Auth!SignOutSession, Auth!SessionSurvivesRestart
<1> QED BY <1>1, <1>2, Invalidated DEF AuthInv, Auth!SignOutSession

LEMMA SignInKeeps ==
  ASSUME AuthInv, NEW u \in Users, Auth!SignIn(u) PROVE AuthInv'
<1>1. AuthTypes'
  <2>1. issued' \in 1 .. MaxVersion /\ live' \subseteq 1 .. issued'
    BY AuthBounds DEF AuthInv, AuthTypes, Auth!SignIn
  <2>2. held' \in Held /\ vault' \in Held
    BY <2>1 DEF Held, Auth!Sessions, Auth!SignIn
  <2>3. generation' \in Nat /\ current' \in 0 .. MaxFlights
    BY AuthBounds DEF AuthInv, AuthTypes, Auth!SignIn, Auth!InvalidateRefreshes
  <2>4. signedOut' \in BOOLEAN /\ barrier' \in BOOLEAN /\ app' = "entering"
    BY DEF AuthInv, AuthTypes, Auth!SignIn
  <2>5. issued' \in 0 .. MaxVersion
    BY <2>1
  <2> QED BY <2>1, <2>2, <2>3, <2>4, <2>5 DEF AuthInv, AuthTypes, Auth!SignIn
<1>2. Barred' /\ Auth!SessionSurvivesRestart'
  BY DEF Barred, Auth!SignedOutStays, Auth!SignIn, Auth!SessionSurvivesRestart
<1> QED BY <1>1, <1>2, Invalidated DEF AuthInv, Auth!SignIn

LEMMA SignedInKeeps ==
  ASSUME AuthInv, Auth!SignedIn PROVE AuthInv'
<1>1. AuthTypes'
  <2>1. /\ held' \in Held /\ vault' \in Held
        /\ generation' \in Nat /\ current' \in 0 .. MaxFlights /\ flight' = flight
    <3>1. CASE UNCHANGED Auth!manager
      BY <3>1 DEF AuthInv, AuthTypes, Auth!manager
    <3>2. CASE Auth!InvalidateRefreshes /\ held' = Auth!NoSession /\ Auth!ClearVault /\ flight' = flight
      BY <3>2, AuthBounds, NoSessionIsHeld DEF AuthInv, AuthTypes, Auth!InvalidateRefreshes, Auth!ClearVault
    <3> QED BY <3>1, <3>2 DEF Auth!SignedIn
  <2> QED BY <2>1 DEF AuthInv, AuthTypes, Auth!SignedIn, Auth!outside
<1>2. Barred' /\ Auth!SessionSurvivesRestart'
  BY DEF AuthInv, Barred, Auth!SignedOutStays, Auth!SignedIn, Auth!SessionSurvivesRestart,
     Auth!manager
<1> QED BY <1>1, <1>2, Invalidated, OutsideKeeps DEF AuthInv, Auth!SignedIn

LEMMA RestartKeeps ==
  ASSUME AuthInv, Auth!Restart PROVE AuthInv'
<1>1. AuthTypes'
  BY AuthBounds, NoSessionIsHeld, FreshIsRequest
  DEF AuthInv, AuthTypes, Auth!Restart, Auth!ClearVault, Auth!outside
<1>2. Barred' /\ Auth!SessionSurvivesRestart' /\ Rotated' /\ CurrentIsOfSession'
  BY DEF AuthInv, AuthTypes, Barred, Auth!SignedOutStays, Auth!Restart, Rotated, CurrentIsOfSession,
     Auth!SessionSurvivesRestart
<1>3. \A r \in Requests : Awaits(r)' /\ Carries(r)'
  BY DEF Awaits, Carries, Auth!Restart, Auth!Fresh
<1> QED BY <1>1, <1>2, <1>3 DEF AuthInv

-----------------------------------------------------------------------------
(* The remote answers a refresh, or its answer is lost.                    *)

LEMMA ReplyKeeps ==
  ASSUME AuthInv, NEW i \in 1 .. MaxFlights, flight[i].reply = "pending",
         NEW f \in FlightType, f.gen = flight[i].gen, f.user = flight[i].user,
         f.reply \in {"ok", "lost", "refused"}, f.reply = "ok" => f.new # 0,
         flight' = [flight EXCEPT ![i] = f],
         UNCHANGED <<held, vault, generation, current, barrier, app, request, signedOut>>,
         issued' \in 0 .. MaxVersion, live' \subseteq 1 .. issued'
  PROVE  AuthInv'
<1>1. AuthTypes'
  BY DEF AuthInv, AuthTypes
<1>2. Barred' /\ Auth!SessionSurvivesRestart'
  BY DEF AuthInv, Barred, Auth!SignedOutStays, Auth!SessionSurvivesRestart
<1>3. \A j \in 1 .. MaxFlights : flight'[j] = IF j = i THEN f ELSE flight[j]
  BY DEF AuthInv, AuthTypes
<1>4. Rotated' /\ CurrentIsOfSession'
  BY <1>3 DEF AuthInv, AuthTypes, Rotated, CurrentIsOfSession
<1>5. ASSUME NEW r \in Requests PROVE Awaits(r)'
  BY <1>3 DEF AuthInv, AuthTypes, Awaits
<1>6. ASSUME NEW r \in Requests PROVE Carries(r)'
  BY DEF AuthInv, Carries
<1> QED BY <1>1, <1>2, <1>4, <1>5, <1>6 DEF AuthInv

LEMMA ServeKeeps ==
  ASSUME AuthInv, NEW i \in 1 .. MaxFlights, Auth!Serve(i) PROVE AuthInv'
<1>1. flight[i] \in FlightType
  BY DEF AuthInv, AuthTypes
<1>2. CASE flight[i].ver \in live
  <2>1. PICK reply \in {"ok", "lost"} :
          flight' = [flight EXCEPT ![i].reply = reply, ![i].new = issued']
    BY <1>2 DEF Auth!Serve
  <2>2. issued' \in 1 .. MaxVersion /\ live' \subseteq 1 .. issued'
    BY <1>2, AuthBounds DEF Auth!Serve, AuthInv, AuthTypes
  <2> DEFINE f == [flight[i] EXCEPT !.reply = reply, !.new = issued']
  <2>3. flight' = [flight EXCEPT ![i] = f]
    BY <2>1 DEF AuthInv, AuthTypes
  <2>4. /\ f \in FlightType /\ f.gen = flight[i].gen /\ f.user = flight[i].user
        /\ f.reply = reply /\ f.new = issued'
    <3>1. issued' \in 0 .. MaxVersion
      BY <2>2
    <3> QED BY <1>1, <2>1, <3>1 DEF FlightType
  <2> HIDE DEF f
  <2>5. issued' \in 0 .. MaxVersion /\ (f.reply = "ok" => f.new # 0)
    BY <2>2, <2>4
  <2>6. f.reply \in {"ok", "lost", "refused"}
    BY <2>4
  <2>7. /\ flight[i].reply = "pending"
        /\ UNCHANGED <<held, vault, generation, current, barrier, app, request, signedOut>>
    BY DEF Auth!Serve
  <2> QED BY <2>2, <2>3, <2>4, <2>5, <2>6, <2>7, ReplyKeeps
<1>3. CASE flight[i].ver \notin live
  <2> DEFINE f == [flight[i] EXCEPT !.reply = "refused"]
  <2>1. flight' = [flight EXCEPT ![i] = f] /\ UNCHANGED <<issued, live>>
    BY <1>3 DEF AuthInv, AuthTypes, Auth!Serve, Auth!outside
  <2>2. /\ f \in FlightType /\ f.gen = flight[i].gen /\ f.user = flight[i].user
        /\ f.reply = "refused"
    BY <1>1 DEF FlightType
  <2>3. issued' \in 0 .. MaxVersion /\ live' \subseteq 1 .. issued'
    BY <2>1 DEF AuthInv, AuthTypes
  <2> HIDE DEF f
  <2> QED BY <2>1, <2>2, <2>3, ReplyKeeps DEF Auth!Serve
<1> QED BY <1>2, <1>3

LEMMA LoseKeeps ==
  ASSUME AuthInv, NEW i \in 1 .. MaxFlights, Auth!Lose(i) PROVE AuthInv'
<1>1. flight[i] \in FlightType
  BY DEF AuthInv, AuthTypes
<1> DEFINE f == [flight[i] EXCEPT !.reply = "lost"]
<1>2. flight' = [flight EXCEPT ![i] = f] /\ UNCHANGED <<issued, live>>
  BY DEF AuthInv, AuthTypes, Auth!Lose, Auth!outside
<1>3. /\ f \in FlightType /\ f.gen = flight[i].gen /\ f.user = flight[i].user
      /\ f.reply = "lost"
  BY <1>1 DEF FlightType
<1>4. issued' \in 0 .. MaxVersion /\ live' \subseteq 1 .. issued'
  BY <1>2 DEF AuthInv, AuthTypes
<1> HIDE DEF f
<1> QED BY <1>2, <1>3, <1>4, ReplyKeeps DEF Auth!Lose

-----------------------------------------------------------------------------
(* The steps of a request.                                                 *)

LEMMA OneRequest ==
  ASSUME AuthInv, NEW r \in Requests, NEW next \in RequestType, Auth!Requested(r, next)
  PROVE  /\ request' \in [Requests -> RequestType] /\ request'[r] = next
         /\ \A q \in Requests \ {r} : request'[q] = request[q]
BY DEF AuthInv, AuthTypes, Auth!Requested

\* A request that ends, or goes on with its token, while the manager stays.
LEMMA EndKeeps ==
  ASSUME AuthInv, NEW r \in Requests, Auth!Ends(r), UNCHANGED Auth!manager, Auth!Others
  PROVE  AuthInv'
<1>1. /\ request' \in [Requests -> RequestType] /\ request'[r] = Auth!Fresh
      /\ \A q \in Requests \ {r} : request'[q] = request[q]
  BY OneRequest, FreshIsRequest DEF Auth!Ends
<1>2. AuthTypes' /\ Barred' /\ Auth!SessionSurvivesRestart' /\ Rotated' /\ CurrentIsOfSession'
  BY <1>1 DEF AuthInv, AuthTypes, Barred, Auth!SignedOutStays, Auth!SessionSurvivesRestart,
     Rotated, CurrentIsOfSession, Auth!manager, Auth!Others, Auth!outside
<1>3. ASSUME NEW q \in Requests PROVE Awaits(q)' /\ Carries(q)'
  <2>1. CASE q = r
    BY <1>1, <2>1 DEF Awaits, Carries, Auth!Fresh
  <2>2. CASE q # r
    BY <1>1, <2>2 DEF AuthInv, Awaits, Carries, Auth!manager
  <2> QED BY <2>1, <2>2
<1> QED BY <1>2, <1>3 DEF AuthInv

LEMMA JoinKeeps ==
  ASSUME AuthInv, NEW r \in Requests, NEW purpose \in {"await", "reawait"},
         Auth!JoinFlight(r, purpose), held # Auth!NoSession,
         purpose = "reawait" =>
           request[r].first.gen = generation /\ request[r].first.user = held.user,
         UNCHANGED <<held, vault, generation>>, Auth!Others
  PROVE  AuthInv'
<1>0. request[r] \in RequestType
  BY DEF AuthInv, AuthTypes
<1>1. Barred' /\ Auth!SessionSurvivesRestart'
  BY DEF AuthInv, Barred, Auth!SignedOutStays, Auth!SessionSurvivesRestart, Auth!Others
<1>2. ASSUME NEW i \in 1 .. MaxFlights,
             Auth!Requested(r, [request[r] EXCEPT !.pc = purpose, !.flight = i])
      PROVE  /\ request' \in [Requests -> RequestType]
             /\ \A q \in Requests \ {r} : request'[q] = request[q]
             /\ request'[r].pc = purpose /\ request'[r].flight = i
             /\ request'[r].first = request[r].first
  <2> DEFINE next == [request[r] EXCEPT !.pc = purpose, !.flight = i]
  <2>1. i \in 0 .. MaxFlights
    BY AuthBounds
  <2>2. /\ next \in RequestType /\ next.pc = purpose /\ next.flight = i
        /\ next.first = request[r].first
    BY <1>0, <2>1 DEF RequestType
  <2>3. Auth!Requested(r, next)
    BY <1>2
  <2> HIDE DEF next
  <2> QED BY <2>2, <2>3, OneRequest
<1>3. CASE current # 0
  <2>1. /\ Auth!Requested(r, [request[r] EXCEPT !.pc = purpose, !.flight = current])
        /\ UNCHANGED <<flight, current>> /\ current \in 1 .. MaxFlights
    <3>1. current \in 1 .. MaxFlights
      BY <1>3, AuthBounds DEF AuthInv, AuthTypes
    <3> QED BY <1>3, <3>1 DEF Auth!JoinFlight, Auth!R
  <2>2. /\ request' \in [Requests -> RequestType]
        /\ \A q \in Requests \ {r} : request'[q] = request[q]
        /\ request'[r].pc = purpose /\ request'[r].flight = current
        /\ request'[r].first = request[r].first
    BY <1>2, <2>1
  <2>3. AuthTypes' /\ Rotated' /\ CurrentIsOfSession'
    BY <2>1, <2>2 DEF AuthInv, AuthTypes, Rotated, CurrentIsOfSession, Auth!Others, Auth!outside
  <2>4. ASSUME NEW q \in Requests PROVE Awaits(q)' /\ Carries(q)'
    <3>1. CASE q = r
      BY <1>3, <2>1, <2>2, <3>1 DEF AuthInv, AuthTypes, CurrentIsOfSession, Awaits, Carries
    <3>2. CASE q # r
      BY <2>1, <2>2, <3>2 DEF AuthInv, Awaits, Carries
    <3> QED BY <3>1, <3>2
  <2> QED BY <1>1, <2>3, <2>4 DEF AuthInv
<1>4. CASE current = 0
  <2>1. PICK i \in 1 .. MaxFlights :
          /\ Auth!Launch(i)
          /\ Auth!Requested(r, [request[r] EXCEPT !.pc = purpose, !.flight = i])
    BY <1>4 DEF Auth!JoinFlight, Auth!R
  <2>2. /\ request' \in [Requests -> RequestType]
        /\ \A q \in Requests \ {r} : request'[q] = request[q]
        /\ request'[r].pc = purpose /\ request'[r].flight = i
        /\ request'[r].first = request[r].first
    BY <1>2, <2>1
  <2> DEFINE f == [gen |-> generation, user |-> held.user, ver |-> held.ver, new |-> 0,
                   reply |-> "pending"]
  <2>3. flight[i].reply = "none" /\ flight' = [flight EXCEPT ![i] = f] /\ current' = i
    BY <2>1 DEF Auth!Launch, Auth!Unsent
  <2>4. held.user \in Users /\ held.ver \in 0 .. MaxVersion
    BY AuthBounds DEF AuthInv, AuthTypes, Held, Auth!Sessions
  <2>5. /\ f \in FlightType /\ f.gen = generation /\ f.user = held.user
        /\ f.reply = "pending"
    BY <2>4, AuthBounds DEF AuthInv, AuthTypes, FlightType, Names
  <2> HIDE DEF f
  <2>6. flight' \in [1 .. MaxFlights -> FlightType] /\ flight'[i] = f
        /\ \A j \in 1 .. MaxFlights : j # i => flight'[j] = flight[j]
    BY <2>3, <2>5 DEF AuthInv, AuthTypes
  <2>7. AuthTypes'
    BY <2>2, <2>3, <2>6, AuthBounds DEF AuthInv, AuthTypes, Auth!Others, Auth!outside
  <2>8. Rotated' /\ CurrentIsOfSession'
    BY <2>3, <2>5, <2>6, AuthBounds DEF AuthInv, Rotated, CurrentIsOfSession
  <2>9. ASSUME NEW q \in Requests PROVE Awaits(q)' /\ Carries(q)'
    <3>1. CASE q = r
      BY <2>2, <2>3, <2>5, <2>6, <3>1 DEF AuthInv, AuthTypes, Awaits, Carries
    <3>2. CASE q # r
      <4>1. request'[q] = request[q]
        BY <2>2, <3>2
      <4>2. Awaits(q)'
        BY <1>4, <2>3, <2>6, <4>1 DEF AuthInv, Awaits
      <4>3. Carries(q)'
        BY <4>1 DEF AuthInv, Carries
      <4> QED BY <4>2, <4>3
    <3> QED BY <3>1, <3>2
  <2> QED BY <1>1, <2>7, <2>8, <2>9 DEF AuthInv
<1> QED BY <1>3, <1>4

\* A request that goes on with a credential, the refreshes staying.
LEMMA CarryKeeps ==
  ASSUME AuthInv, NEW r \in Requests, NEW next \in RequestType, Auth!Requested(r, next),
         next.pc \in {"sent", "retried"},
         next.pc = "sent" => next.cred = next.first /\ next.cred.user \in Users,
         next.pc = "retried" =>
           next.cred.user = next.first.user /\ next.cred.gen = next.first.gen,
         UNCHANGED Auth!manager, Auth!Others
  PROVE  AuthInv'
<1>1. /\ request' \in [Requests -> RequestType] /\ request'[r] = next
      /\ \A q \in Requests \ {r} : request'[q] = request[q]
  BY OneRequest
<1>2. AuthTypes' /\ Barred' /\ Auth!SessionSurvivesRestart' /\ Rotated' /\ CurrentIsOfSession'
  BY <1>1 DEF AuthInv, AuthTypes, Barred, Auth!SignedOutStays, Auth!SessionSurvivesRestart,
     Rotated, CurrentIsOfSession, Auth!manager, Auth!Others, Auth!outside
<1>3. ASSUME NEW q \in Requests PROVE Awaits(q)' /\ Carries(q)'
  <2>1. CASE q = r
    BY <1>1, <2>1 DEF Awaits, Carries
  <2>2. CASE q # r
    BY <1>1, <2>2 DEF AuthInv, Awaits, Carries, Auth!manager
  <2> QED BY <2>1, <2>2
<1> QED BY <1>2, <1>3 DEF AuthInv

LEMMA BeginKeeps ==
  ASSUME AuthInv, NEW r \in Requests, Auth!Begin(r) PROVE AuthInv'
<1>1. CASE Auth!JoinFlight(r, "await")
  BY <1>1, JoinKeeps DEF Auth!Begin
<1>2. CASE ~Auth!JoinFlight(r, "await")
  <2> DEFINE c == Auth!Credential(held)
             next == [Auth!Fresh EXCEPT !.pc = "sent", !.cred = c, !.first = c]
  <2>1. Auth!Requested(r, next) /\ UNCHANGED Auth!manager /\ Auth!Others
    BY <1>2 DEF Auth!Begin, Auth!manager
  <2>2. c \in Creds /\ c.user \in Users
    BY AuthBounds DEF Auth!Begin, AuthInv, AuthTypes, Held, Auth!Sessions, Creds, Names,
       Auth!Credential
  <2> HIDE DEF c
  <2>3. next \in RequestType /\ next.pc = "sent" /\ next.cred = c /\ next.first = c
    BY <2>2, FreshIsRequest DEF RequestType
  <2> HIDE DEF next
  <2> QED BY <2>1, <2>2, <2>3, CarryKeeps
<1> QED BY <1>1, <1>2

LEMMA AnsweredKeeps ==
  ASSUME AuthInv, NEW r \in Requests, Auth!Answered(r) PROVE AuthInv'
BY EndKeeps DEF Auth!Answered

LEMMA RejectedKeeps ==
  ASSUME AuthInv, NEW r \in Requests, Auth!Rejected(r) PROVE AuthInv'
<1>0. /\ request[r] \in RequestType
      /\ request[r].cred = request[r].first /\ request[r].cred.user \in Users
  BY DEF AuthInv, AuthTypes, Carries, Auth!Rejected, Auth!R
<1>1. CASE held.user # request[r].cred.user \/ generation # request[r].cred.gen
  BY <1>1, EndKeeps DEF Auth!Rejected, Auth!R, Auth!manager
<1>2. CASE /\ held.user = request[r].cred.user /\ generation = request[r].cred.gen
           /\ held.ver # request[r].cred.ver
  <2> DEFINE c == Auth!Credential(held)
             next == [request[r] EXCEPT !.pc = "retried", !.cred = c]
  <2>1. Auth!Requested(r, next) /\ UNCHANGED Auth!manager /\ Auth!Others
    BY <1>2 DEF Auth!Rejected, Auth!R, Auth!manager
  <2>2. c \in Creds /\ c.user = held.user /\ c.gen = generation
    BY <1>0, <1>2, AuthBounds DEF AuthInv, AuthTypes, Held, Auth!Sessions, Auth!NoSession, Creds,
       Names, Auth!Credential
  <2> HIDE DEF c
  <2>3. /\ next \in RequestType /\ next.pc = "retried" /\ next.cred = c
        /\ next.first = request[r].first
    BY <1>0, <2>2 DEF RequestType
  <2> HIDE DEF next
  <2> QED BY <1>0, <1>2, <2>1, <2>2, <2>3, CarryKeeps
<1>3. CASE /\ held.user = request[r].cred.user /\ generation = request[r].cred.gen
           /\ held.ver = request[r].cred.ver
  <2>1. Auth!JoinFlight(r, "reawait")
    BY <1>3 DEF Auth!Rejected, Auth!R
  <2>2. held # Auth!NoSession
    BY <1>0, <1>3, AuthBounds DEF Auth!NoSession
  <2> QED BY <1>0, <1>3, <2>1, <2>2, JoinKeeps DEF Auth!Rejected
<1> QED BY <1>1, <1>2, <1>3

-----------------------------------------------------------------------------
(* A waiter hears of its refresh.                                          *)

LEMMA OutdatedKeeps ==
  ASSUME AuthInv, NEW r \in Requests, Auth!Outdated(r), Auth!Others PROVE AuthInv'
BY EndKeeps DEF Auth!Outdated

LEMMA DisappointedKeeps ==
  ASSUME AuthInv, NEW r \in Requests, request[r].pc \in {"await", "reawait"},
         Auth!Disappointed(r), Auth!Others
  PROVE  AuthInv'
<1> DEFINE i == request[r].flight
<1>0. /\ i \in 1 .. MaxFlights /\ flight[i].gen = generation
      /\ flight[i].reply \in {"refused", "lost"}
  BY DEF AuthInv, Awaits, Auth!Disappointed, Auth!F, Auth!R
<1>1. /\ request' \in [Requests -> RequestType] /\ request'[r] = Auth!Fresh
      /\ \A q \in Requests \ {r} : request'[q] = request[q]
  BY OneRequest, FreshIsRequest DEF Auth!Ends, Auth!Disappointed
<1>2. flight' = flight /\ Rotated'
  BY DEF AuthInv, Rotated, Auth!Disappointed
<1>3. ASSUME NEW q \in Requests PROVE Carries(q)'
  BY <1>1 DEF AuthInv, Carries, Auth!Fresh
<1>4. CASE flight[i].reply = "refused"
  <2>1. Auth!InvalidateRefreshes /\ held' = Auth!NoSession /\ Auth!ClearVault
    BY <1>4 DEF Auth!Disappointed, Auth!F, Auth!R
  <2>2. AuthTypes'
    <3>1. held' \in Held /\ vault' \in Held
      BY <2>1, NoSessionIsHeld DEF AuthInv, AuthTypes, Auth!ClearVault
    <3>2. generation' \in Nat /\ current' \in 0 .. MaxFlights
      BY <2>1, AuthBounds DEF AuthInv, AuthTypes, Auth!InvalidateRefreshes
    <3> QED BY <1>1, <1>2, <3>1, <3>2 DEF AuthInv, AuthTypes, Auth!Others, Auth!outside
  <2>3. Barred' /\ Auth!SessionSurvivesRestart' /\ CurrentIsOfSession'
    BY <2>1 DEF AuthInv, Barred, Auth!SignedOutStays, Auth!SessionSurvivesRestart,
       CurrentIsOfSession, Auth!InvalidateRefreshes, Auth!Others
  <2>4. ASSUME NEW q \in Requests PROVE Awaits(q)'
    <3>1. CASE q = r
      BY <1>1, <3>1 DEF Awaits, Auth!Fresh
    <3>2. CASE q # r
      BY <1>1, <1>2, <2>1, <3>2
      DEF AuthInv, AuthTypes, FlightType, Awaits, Auth!InvalidateRefreshes
    <3> QED BY <3>1, <3>2
  <2> QED BY <1>2, <1>3, <2>2, <2>3, <2>4 DEF AuthInv
<1>5. CASE flight[i].reply = "lost"
  <2>1. /\ current' = IF current = i THEN 0 ELSE current
        /\ UNCHANGED <<generation, held, vault>>
    BY <1>5 DEF Auth!Disappointed, Auth!F, Auth!R
  <2>2. AuthTypes'
    BY <1>1, <1>2, <2>1, AuthBounds DEF AuthInv, AuthTypes, Auth!Others, Auth!outside
  <2>3. Barred' /\ Auth!SessionSurvivesRestart' /\ CurrentIsOfSession'
    BY <1>2, <2>1 DEF AuthInv, Barred, Auth!SignedOutStays, Auth!SessionSurvivesRestart,
       CurrentIsOfSession, Auth!Others
  <2>4. ASSUME NEW q \in Requests PROVE Awaits(q)'
    <3>1. CASE q = r
      BY <1>1, <3>1 DEF Awaits, Auth!Fresh
    <3>2. CASE q # r
      BY <1>1, <1>2, <1>5, <2>1, <3>2 DEF AuthInv, Awaits
    <3> QED BY <3>1, <3>2
  <2> QED BY <1>2, <1>3, <2>2, <2>3, <2>4 DEF AuthInv
<1> QED BY <1>0, <1>4, <1>5

\* The request of a waiter that goes on with the session s.
LEMMA ProceedsNext ==
  ASSUME AuthInv, NEW r \in Requests, request[r].pc \in {"await", "reawait"},
         flight[request[r].flight].gen = generation,
         NEW s \in Auth!Sessions, s.user = flight[request[r].flight].user,
         Auth!Proceeds(r, s)
  PROVE  /\ request' \in [Requests -> RequestType]
         /\ \A q \in Requests \ {r} : request'[q] = request[q]
         /\ request'[r].pc \in {"sent", "retried"} /\ Carries(r)'
<1> DEFINE c == [user |-> s.user, ver |-> s.ver, gen |-> generation]
<1>1. c \in Creds /\ c.user \in Users /\ c.user = s.user /\ c.gen = generation
  BY AuthBounds DEF AuthInv, AuthTypes, Auth!Sessions, Creds, Names
<1>2. request[r] \in RequestType
  BY DEF AuthInv, AuthTypes
<1>3. CASE request[r].pc = "await"
  <2> DEFINE next == [request[r] EXCEPT !.pc = "sent", !.cred = c, !.first = c]
  <2>1. Auth!Requested(r, next)
    BY <1>3 DEF Auth!Proceeds, Auth!R
  <2> HIDE DEF c
  <2>2. next \in RequestType /\ next.pc = "sent" /\ next.cred = c /\ next.first = c
    BY <1>1, <1>2 DEF RequestType
  <2> HIDE DEF next
  <2> QED BY <1>1, <2>1, <2>2, OneRequest DEF Carries
<1>4. CASE request[r].pc = "reawait"
  <2> DEFINE next == [request[r] EXCEPT !.pc = "retried", !.cred = c]
  <2>1. Auth!Requested(r, next)
    BY <1>4 DEF Auth!Proceeds, Auth!R
  <2>2. request[r].first.gen = generation /\ request[r].first.user = s.user
    BY <1>4 DEF AuthInv, Awaits
  <2> HIDE DEF c
  <2>3. /\ next \in RequestType /\ next.pc = "retried" /\ next.cred = c
        /\ next.first = request[r].first
    BY <1>1, <1>2 DEF RequestType
  <2> HIDE DEF next
  <2> QED BY <1>1, <2>1, <2>2, <2>3, OneRequest DEF Carries
<1> QED BY <1>3, <1>4

LEMMA AdoptKeeps ==
  ASSUME AuthInv, NEW r \in Requests, request[r].pc \in {"await", "reawait"},
         Auth!Adopt(r), Auth!Others
  PROVE  AuthInv'
<1> DEFINE i == request[r].flight
           s == Auth!Refreshed(r)
<1>1. /\ i \in 1 .. MaxFlights /\ flight[i].gen = generation /\ flight[i].reply = "ok"
      /\ held # Auth!NoSession /\ flight[i].user = held.user /\ flight[i].new # 0
  BY DEF AuthInv, Awaits, Rotated, Auth!Adopt, Auth!F, Auth!R
<1>2. s \in Auth!Sessions /\ s.user = held.user /\ s.user = flight[i].user
  <2>1. flight[i] \in FlightType /\ held \in Auth!Sessions
    BY <1>1 DEF AuthInv, AuthTypes, Held
  <2> QED BY <1>1, <2>1, AuthBounds
      DEF FlightType, Auth!Sessions, Auth!Refreshed, Auth!F, Auth!R
<1>3. s # Auth!NoSession
  BY <1>2, AuthBounds DEF Auth!Sessions, Auth!NoSession
<1>4. UNCHANGED <<generation, flight>> /\ Rotated'
  BY DEF AuthInv, Rotated, Auth!Adopt
<1> HIDE DEF s
<1>5. CASE /\ current = i /\ vault' = s /\ held' = s /\ current' = 0
           /\ Auth!Proceeds(r, s)
  <2>1. /\ request' \in [Requests -> RequestType]
        /\ \A q \in Requests \ {r} : request'[q] = request[q]
        /\ request'[r].pc \in {"sent", "retried"} /\ Carries(r)'
    BY <1>1, <1>2, <1>5, ProceedsNext
  <2>2. AuthTypes'
    BY <1>2, <1>4, <1>5, <2>1, AuthBounds DEF AuthInv, AuthTypes, Held, Auth!Others, Auth!outside
  <2>3. Barred' /\ Auth!SessionSurvivesRestart' /\ CurrentIsOfSession'
    BY <1>1, <1>5 DEF AuthInv, Barred, Auth!SignedOutStays, Auth!SessionSurvivesRestart,
       CurrentIsOfSession, Auth!Others
  <2>4. ASSUME NEW q \in Requests PROVE Awaits(q)' /\ Carries(q)'
    <3>1. CASE q = r
      BY <2>1, <3>1 DEF Awaits
    <3>2. CASE q # r
      BY <1>1, <1>2, <1>3, <1>4, <1>5, <2>1, <3>2 DEF AuthInv, Awaits, Carries
    <3> QED BY <3>1, <3>2
  <2> QED BY <1>4, <2>2, <2>3, <2>4 DEF AuthInv
<1>6. CASE current = i /\ current' = 0 /\ Auth!Ends(r) /\ UNCHANGED <<held, vault>>
  <2>1. /\ request' \in [Requests -> RequestType] /\ request'[r] = Auth!Fresh
        /\ \A q \in Requests \ {r} : request'[q] = request[q]
    BY <1>6, OneRequest, FreshIsRequest DEF Auth!Ends
  <2>2. AuthTypes'
    BY <1>4, <1>6, <2>1, AuthBounds DEF AuthInv, AuthTypes, Auth!Others, Auth!outside
  <2>3. Barred' /\ Auth!SessionSurvivesRestart' /\ CurrentIsOfSession'
    BY <1>6 DEF AuthInv, Barred, Auth!SignedOutStays, Auth!SessionSurvivesRestart,
       CurrentIsOfSession, Auth!Others
  <2>4. ASSUME NEW q \in Requests PROVE Awaits(q)' /\ Carries(q)'
    <3>1. CASE q = r
      BY <2>1, <3>1 DEF Awaits, Carries, Auth!Fresh
    <3>2. CASE q # r
      BY <1>1, <1>4, <1>6, <2>1, <3>2 DEF AuthInv, Awaits, Carries
    <3> QED BY <3>1, <3>2
  <2> QED BY <1>4, <2>2, <2>3, <2>4 DEF AuthInv
<1>7. CASE UNCHANGED <<held, vault, current>> /\ held = s /\ Auth!Proceeds(r, held)
  <2>1. /\ request' \in [Requests -> RequestType]
        /\ \A q \in Requests \ {r} : request'[q] = request[q]
        /\ request'[r].pc \in {"sent", "retried"} /\ Carries(r)'
    BY <1>1, <1>2, <1>7, ProceedsNext
  <2>2. AuthTypes'
    BY <1>4, <1>7, <2>1 DEF AuthInv, AuthTypes, Auth!Others, Auth!outside
  <2>3. Barred' /\ Auth!SessionSurvivesRestart' /\ CurrentIsOfSession'
    BY <1>4, <1>7 DEF AuthInv, Barred, Auth!SignedOutStays, Auth!SessionSurvivesRestart,
       CurrentIsOfSession, Auth!Others
  <2>4. ASSUME NEW q \in Requests PROVE Awaits(q)' /\ Carries(q)'
    <3>1. CASE q = r
      BY <2>1, <3>1 DEF Awaits
    <3>2. CASE q # r
      BY <1>4, <1>7, <2>1, <3>2 DEF AuthInv, Awaits, Carries
    <3> QED BY <3>1, <3>2
  <2> QED BY <1>4, <2>2, <2>3, <2>4 DEF AuthInv
<1>8. CASE UNCHANGED <<held, vault, current>> /\ Auth!Ends(r)
  BY <1>4, <1>8, EndKeeps DEF Auth!manager
<1> QED BY <1>5, <1>6, <1>7, <1>8 DEF s, Auth!Adopt, Auth!R

LEMMA AuthStepKeeps ==
  ASSUME AuthInv, Auth!Next PROVE AuthInv'
<1>1. ASSUME NEW r \in Requests, Auth!Resume(r) PROVE AuthInv'
  BY <1>1, AdoptKeeps, DisappointedKeeps, OutdatedKeeps DEF Auth!Resume, Auth!R
<1> QED BY <1>1, SignOutBarrierKeeps, SignOutSessionKeeps, SignInKeeps, SignedInKeeps,
           RestartKeeps, BeginKeeps, AnsweredKeeps, RejectedKeeps, ServeKeeps, LoseKeeps,
           RevokeKeeps
    DEF Auth!Next

\* Two requests that wait for a reply under this generation wait for the same.
LEMMA AuthInvSuffices ==
  ASSUME AuthInv
  PROVE  /\ Auth!TypeOK /\ Auth!SignedOutStays /\ Auth!OneAccountPerRequest
         /\ Auth!RefreshShared /\ Auth!SessionSurvivesRestart
<1>1. Auth!TypeOK
  <2>1. \A r \in Requests : request[r].pc \in {"idle", "sent", "await", "reawait", "retried"}
    BY DEF AuthInv, AuthTypes, RequestType
  <2> QED BY <2>1 DEF AuthInv, AuthTypes, Held, Auth!TypeOK, Auth!R
<1>2. Auth!OneAccountPerRequest
  BY DEF AuthInv, Carries, Auth!OneAccountPerRequest, Auth!R
<1>3. Auth!RefreshShared
  BY DEF AuthInv, Awaits, Auth!RefreshShared, Auth!R, Auth!F
<1> QED BY <1>1, <1>2, <1>3 DEF AuthInv, Barred

LEMMA AuthStutterKeeps ==
  ASSUME AuthInv, UNCHANGED authVars PROVE AuthInv'
<1>1. AuthTypes' /\ Barred'
  BY DEF AuthInv, AuthTypes, Barred, Auth!SignedOutStays, authVars
<1> QED BY <1>1, OutsideKeeps DEF AuthInv, authVars, Auth!manager

-----------------------------------------------------------------------------
(* The search.                                                             *)

Lists == [items : SUBSET Notes, cursor : Search!Cursors, pages : 1 .. MaxPages,
          filter : Search!Filters, base : [Notes -> Search!NoteType]]
ModelType == [filter : Search!Filters, list : Lists \cup {Search!NoList}, searching : BOOLEAN,
              more : BOOLEAN, failed : BOOLEAN, searches : 0 .. MaxSearches]
Asks == [current : BOOLEAN, filter : Search!Filters, cursor : Search!Cursors]
Failures == [current : BOOLEAN, asked : Search!Cursors, ok : {FALSE}]
Pages == [items : SUBSET Notes, cursor : Search!Cursors]
Replies == [current : BOOLEAN, asked : Search!Cursors, ok : {TRUE}, filter : Search!Filters,
            base : [Notes -> Search!NoteType], page : Pages]

SearchTypes ==
  /\ note \in [Notes -> Search!NoteType] /\ model \in ModelType
  /\ sent \subseteq Asks /\ answered \subseteq Failures \cup Replies

\* A note with the content m comes after the cursor c.
After(c, m, n) == c.score > m.score \/ (c.score = m.score /\ c.note < n)

\* The notes were once as in base, and an edit shows in their revision.
Kept(base) ==
  \A n \in Notes : /\ base[n].rev <= note[n].rev
                   /\ base[n].rev = note[n].rev => base[n] = note[n]

\* A page has all that matched between its two cursors.
HasAll(base, filter, from, page) ==
  \A n \in Notes :
    /\ Search!Matches(base[n], filter)
    /\ from # Search!NoCursor => After(from, base[n], n)
    /\ page.cursor = Search!NoCursor \/ ~After(page.cursor, base[n], n)
    => n \in page.items

\* A list has all that matched up to its cursor and has not changed since.
Covers(list) ==
  \A n \in Notes :
    /\ Search!Matches(list.base[n], list.filter) /\ note[n] = list.base[n]
    /\ list.cursor = Search!NoCursor \/ ~After(list.cursor, note[n], n)
    => n \in list.items

Listed ==
  model.list # Search!NoList =>
    model.list.filter = model.filter /\ Kept(model.list.base) /\ Covers(model.list)

\* What the model waits for: the first page, or the page after the list's last.
Waiting ==
  /\ ~(model.searching /\ model.more)
  /\ model.more => /\ model.list # Search!NoList /\ model.list.cursor # Search!NoCursor
                   /\ model.list.pages < MaxPages
Expects(c) == IF c = Search!NoCursor THEN model.searching
              ELSE model.more /\ c = model.list.cursor
OneCurrent ==
  /\ \A r1, r2 \in sent : r1.current /\ r2.current => r1 = r2
  /\ \A a1, a2 \in answered : a1.current /\ a2.current => a1 = a2
  /\ \A r \in sent, a \in answered : ~(r.current /\ a.current)
Asked(r) == r.current => r.filter = model.filter /\ Expects(r.cursor)
Told(a) ==
  /\ a.current => /\ Expects(a.asked)
                  /\ a.ok => /\ a.filter = model.filter
                             /\ a.asked # Search!NoCursor =>
                                  \A n \in Notes : model.list.base[n].rev <= a.base[n].rev
  /\ a.ok => Kept(a.base) /\ HasAll(a.base, a.filter, a.asked, a.page)

SearchInv ==
  /\ SearchTypes /\ Listed /\ Waiting /\ OneCurrent
  /\ \A r \in sent : Asked(r)
  /\ \A a \in answered : Told(a)

LEMMA SearchSets ==
  ASSUME NEW S
  PROVE  /\ Search!IsFiniteSet(S) <=> IsFiniteSet(S)
         /\ Search!Cardinality(S) = Cardinality(S)
<1>1. Search!IsFiniteSet(S) <=> IsFiniteSet(S)
  BY DEF Search!IsFiniteSet, IsFiniteSet
<1>2. Search!Cardinality(S) = Cardinality(S)
  BY DEF Search!Cardinality, Cardinality
<1> QED BY <1>1, <1>2

LEMMA SearchBounds ==
  /\ Notes \subseteq Nat \ {0} /\ IsFiniteSet(Notes)
  /\ MaxScore \in Nat /\ Limit \in Nat \ {0} /\ MaxPages \in Nat \ {0} /\ MaxSearches \in Nat
BY PhoneAssumption, SearchSets DEF Search!SearchAssumption, Search!PagesAssumption

LEMMA NoCursorIsCursor ==
  /\ Search!NoCursor \in Search!Cursors /\ Search!NoCursor.note = 0
BY SearchBounds DEF Search!NoCursor, Search!Cursors, Search!Filters

LEMMA NoListIsEmpty ==
  /\ Search!NoList.cursor = Search!NoCursor /\ Search!NoList.pages = 0
  /\ Search!NoList.items = {} /\ Search!NoList \notin Lists
BY DEF Search!NoList, Lists

\* The results of a search are in one order, the best first.
Order == {p \in Notes \X Notes : Search!Before(p[1], p[2])}

LEMMA OrderIsStrict ==
  ASSUME note \in [Notes -> Search!NoteType], NEW S, S \subseteq Notes
  PROVE  StrictOrder(Order, S)
<1>1. \A n \in Notes : note[n].score \in Int /\ n \in Int
  BY SearchBounds DEF Search!NoteType
<1>2. \A x, y \in Notes :
        <<x, y>> \in Order <=>
          note[x].score > note[y].score \/ (note[x].score = note[y].score /\ x < y)
  BY DEF Order, Search!Before
<1> QED BY <1>1, <1>2 DEF StrictOrder

\* A page holds all the pool has up to the page's cursor.
LEMMA PageIsWhole ==
  ASSUME note \in [Notes -> Search!NoteType], NEW filter \in Search!Filters, NEW c \in Search!Cursors
  PROVE  /\ Search!Page(filter, c) \in Pages
         /\ HasAll(note, filter, c, Search!Page(filter, c))
<1> DEFINE P == Search!Pool(filter, c)
           I == {n \in P : Search!Cardinality({m \in P : Search!Before(m, n)}) < Limit}
           last == CHOOSE n \in I : \A m \in I \ {n} : Search!Before(m, n)
           next == [note |-> last, rev |-> note[last].rev, score |-> note[last].score,
                    filter |-> filter]
           page == Search!Page(filter, c)
<1>1. page = [items |-> I, cursor |-> IF I = P THEN Search!NoCursor ELSE next]
  BY DEF Search!Page
<1>2. P \subseteq Notes /\ IsFiniteSet(P)
  <2>1. P \subseteq Notes
    BY DEF Search!Pool, Search!Found
  <2> QED BY <2>1, SearchBounds, FS_Subset
<1>4. \A n \in Notes :
        /\ Search!Matches(note[n], filter)
        /\ c # Search!NoCursor => After(c, note[n], n)
        => n \in P
  BY DEF Search!Pool, Search!Found, Search!Stands, Search!Before, After
<1> HIDE DEF P, I, next, page
<1>3. /\ page.items = I
      /\ page.cursor = IF I = P THEN Search!NoCursor ELSE next
  BY <1>1
<1>5. I = FirstOf(Limit, Order, P)
  <2>1. ASSUME NEW n \in P PROVE {m \in P : Search!Before(m, n)} = Ahead(n, Order, P)
    BY <1>2 DEF Ahead, Order
  <2> QED BY <2>1, SearchSets DEF FirstOf, I
<1>6. StrictOrder(Order, P)
  BY <1>2, OrderIsStrict
<1>7. I \subseteq P
  BY DEF I
<1>8. CASE I = P
  <2>1. page \in Pages
    BY <1>1, <1>2, <1>8, NoCursorIsCursor DEF Pages, page
  <2>2. HasAll(note, filter, c, page)
    BY <1>3, <1>4, <1>8 DEF HasAll
  <2> QED BY <2>1, <2>2 DEF page
<1>9. CASE I # P
  <2>1. \E n \in I : \A m \in I \ {n} : <<m, n>> \in Order
    BY <1>2, <1>5, <1>6, <1>9, SearchBounds, FirstHasLast
  <2>2. last \in I /\ \A m \in I \ {last} : Search!Before(m, last)
    BY <1>2, <1>7, <2>1 DEF Order
  <2> HIDE DEF last
  <2>3. last \in Notes /\ last # 0
    BY <1>2, <1>7, <2>2, SearchBounds
  <2>4. next \in Search!Cursors /\ next.note = last /\ next.score = note[last].score
    BY <2>3 DEF Search!Cursors, Search!NoteType, next
  <2>5. page.cursor = next
    BY <1>3, <1>9
  <2>6. page \in Pages
    BY <1>1, <1>2, <1>7, <1>9, <2>4 DEF Pages, page
  <2>7. ASSUME NEW n \in P, ~After(next, note[n], n) PROVE n \in I
    <3>1. n \in Notes /\ note[n].score \in Int /\ n \in Int
          /\ note[last].score \in Int /\ last \in Int
      BY <1>2, <2>3, SearchBounds DEF Search!NoteType
    <3>2. n = last \/ Search!Before(n, last)
      BY <2>4, <2>7, <3>1 DEF After, Search!Before
    <3>3. CASE Search!Before(n, last)
      <4>1. <<n, last>> \in Order
        BY <2>3, <3>1, <3>3 DEF Order
      <4> QED BY <1>2, <1>5, <1>6, <2>2, <4>1, SearchBounds, FirstIsDownward
    <3> QED BY <2>2, <3>2, <3>3
  <2>8. next # Search!NoCursor
    BY <2>3, <2>4, NoCursorIsCursor
  <2>9. HasAll(note, filter, c, page)
    BY <1>3, <1>4, <2>5, <2>7, <2>8 DEF HasAll
  <2> QED BY <2>6, <2>9 DEF page
<1> QED BY <1>8, <1>9

LEMMA SearchBegins ==
  ASSUME Search!Init PROVE SearchInv
<1>1. note \in [Notes -> Search!NoteType]
  <2>1. [score : 0 .. MaxScore, archived : BOOLEAN, rev : {0}] \subseteq Search!NoteType
    BY DEF Search!NoteType
  <2> HIDE DEF Search!NoteType
  <2> QED BY <2>1 DEF Search!Init
<1>2. /\ model \in ModelType /\ model.list = Search!NoList
      /\ ~model.searching /\ ~model.more
  BY SearchBounds DEF Search!Init, ModelType, Search!Filters
<1> QED BY <1>1, <1>2 DEF Search!Init, SearchInv, SearchTypes, Listed, Waiting, OneCurrent

LEMMA SearchEditKeeps ==
  ASSUME SearchInv, NEW n \in Notes, Search!Edit(n) PROVE SearchInv'
<1>1. PICK score \in 0 .. MaxScore, archived \in BOOLEAN :
        note' = [note EXCEPT ![n] = [score |-> score, archived |-> archived, rev |-> @.rev + 1]]
  BY DEF Search!Edit, Search!Edited
<1> DEFINE m == [score |-> score, archived |-> archived, rev |-> note[n].rev + 1]
<1>2. note \in [Notes -> Search!NoteType] /\ note[n].rev \in Nat
  BY DEF SearchInv, SearchTypes, Search!NoteType
<1>3. m \in Search!NoteType /\ m.rev = note[n].rev + 1
  BY <1>2, SearchBounds DEF Search!NoteType
<1> HIDE DEF m
<1>4. /\ note' \in [Notes -> Search!NoteType] /\ note'[n] = m
      /\ \A k \in Notes \ {n} : note'[k] = note[k]
  BY <1>1, <1>2, <1>3 DEF m
<1>5. UNCHANGED <<model, sent, answered>>
  BY DEF Search!Edit
<1>6. ASSUME NEW base \in [Notes -> Search!NoteType], Kept(base)
      PROVE  /\ \A k \in Notes : /\ base[k].rev <= note'[k].rev
                                 /\ base[k].rev = note'[k].rev => base[k] = note'[k]
             /\ \A k \in Notes : note'[k] = base[k] => note[k] = base[k]
  <2>1. base[n].rev \in Nat /\ base[n].rev <= note[n].rev
    BY <1>6 DEF Kept, Search!NoteType
  <2> QED BY <1>2, <1>3, <1>4, <1>6, <2>1 DEF Kept
<1>7. Listed'
  <2> SUFFICES ASSUME model.list # Search!NoList
               PROVE  model.list.filter = model.filter /\ Kept(model.list.base)' /\ Covers(model.list)'
    BY <1>5 DEF Listed
  <2>1. model.list \in Lists /\ Kept(model.list.base) /\ Covers(model.list)
    BY DEF SearchInv, SearchTypes, ModelType, Listed
  <2>2. model.list.base \in [Notes -> Search!NoteType]
    BY <2>1 DEF Lists
  <2>3. Kept(model.list.base)'
    BY <1>5, <1>6, <2>1, <2>2 DEF Kept
  <2>4. Covers(model.list)'
    BY <1>5, <1>6, <2>1, <2>2 DEF Covers
  <2> QED BY <2>3, <2>4 DEF SearchInv, Listed
<1>8. ASSUME NEW a \in answered PROVE Told(a)'
  <2>1. a.ok => a \in Replies
    BY DEF SearchInv, SearchTypes, Failures
  <2>2. a.ok => a.base \in [Notes -> Search!NoteType]
    BY <2>1 DEF Replies
  <2>3. a.ok => Kept(a.base)'
    BY <1>6, <2>2 DEF SearchInv, Told, Kept
  <2> QED BY <1>5, <2>3 DEF SearchInv, Told, Expects
<1> QED BY <1>4, <1>5, <1>7, <1>8
        DEF SearchInv, SearchTypes, Waiting, OneCurrent, Asked, Expects

\* What is still on its way when a search is called off.
LEMMA OutdatedMessages ==
  ASSUME SearchInv
  PROVE  /\ Search!Outdated(sent) \subseteq Asks /\ \A r \in Search!Outdated(sent) : ~r.current
         /\ Search!Outdated(answered) \subseteq Failures \cup Replies
         /\ \A a \in Search!Outdated(answered) :
              ~a.current /\ (a.ok => Kept(a.base) /\ HasAll(a.base, a.filter, a.asked, a.page))
<1>1. ASSUME NEW m \in sent
      PROVE  [m EXCEPT !.current = FALSE] \in Asks /\ ~[m EXCEPT !.current = FALSE].current
  BY DEF SearchInv, SearchTypes, Asks
<1>2. ASSUME NEW m \in answered
      PROVE  LET a == [m EXCEPT !.current = FALSE] IN
             /\ a \in Failures \cup Replies /\ ~a.current
             /\ a.ok => Kept(a.base) /\ HasAll(a.base, a.filter, a.asked, a.page)
  <2> DEFINE a == [m EXCEPT !.current = FALSE]
  <2>1. CASE m \in Failures
    <3>1. a \in Failures /\ ~a.current /\ ~a.ok
      BY <2>1 DEF Failures
    <3> QED BY <3>1
  <2>2. CASE m \in Replies
    <3>1. /\ a \in Replies /\ ~a.current /\ a.base = m.base /\ a.filter = m.filter
          /\ a.asked = m.asked /\ a.page = m.page /\ m.ok
      BY <2>2 DEF Replies
    <3>2. Kept(m.base) /\ HasAll(m.base, m.filter, m.asked, m.page)
      BY <3>1 DEF SearchInv, Told
    <3> HIDE DEF a
    <3>3. Kept(a.base) /\ HasAll(a.base, a.filter, a.asked, a.page)
      BY <3>1, <3>2
    <3> QED BY <3>1, <3>3 DEF a
  <2> QED BY <2>1, <2>2 DEF SearchInv, SearchTypes
<1> QED BY <1>1, <1>2 DEF Search!Outdated

LEMMA NewSearchKeeps ==
  ASSUME SearchInv, NEW filter \in Search!Filters, Search!Search(filter) PROVE SearchInv'
<1> DEFINE ask == Search!Ask(filter, Search!NoCursor)
<1>1. /\ ask \in Asks /\ ask.current /\ ask.filter = filter /\ ask.cursor = Search!NoCursor
  BY NoCursorIsCursor DEF Search!Ask, Asks
<1>2. /\ model' \in ModelType /\ model'.filter = filter /\ model'.list = Search!NoList
      /\ model'.searching /\ ~model'.more
  <2>1. model.searches + 1 \in 0 .. MaxSearches
    BY SearchBounds DEF SearchInv, SearchTypes, ModelType, Search!Search
  <2> QED BY <2>1 DEF Search!Search, ModelType
<1>3. /\ sent' = Search!Outdated(sent) \cup {ask} /\ answered' = Search!Outdated(answered)
      /\ note' = note
  BY DEF Search!Search
<1> HIDE DEF ask
<1>4. /\ Search!Outdated(sent) \subseteq Asks /\ \A r \in Search!Outdated(sent) : ~r.current
      /\ Search!Outdated(answered) \subseteq Failures \cup Replies
      /\ \A a \in Search!Outdated(answered) :
           ~a.current /\ (a.ok => Kept(a.base) /\ HasAll(a.base, a.filter, a.asked, a.page))
  BY OutdatedMessages
<1> HIDE DEF Search!Outdated
<1>5. SearchTypes'
  BY <1>1, <1>2, <1>3, <1>4 DEF SearchInv, SearchTypes
<1>6. Listed' /\ Waiting' /\ OneCurrent'
  BY <1>2, <1>3, <1>4 DEF Listed, Waiting, OneCurrent
<1>7. \A r \in sent' : Asked(r)'
  BY <1>1, <1>2, <1>3, <1>4 DEF Asked, Expects
<1>8. \A a \in answered' : Told(a)'
  BY <1>3, <1>4 DEF Told, Kept
<1> QED BY <1>5, <1>6, <1>7, <1>8 DEF SearchInv

LEMMA LoadMoreKeeps ==
  ASSUME SearchInv, Search!LoadMore PROVE SearchInv'
<1> DEFINE ask == Search!Ask(model.filter, model.list.cursor)
<1>0. /\ model.filter \in Search!Filters /\ model.list.cursor \in Search!Cursors
      /\ model.list # Search!NoList
  BY NoListIsEmpty, NoCursorIsCursor
  DEF SearchInv, SearchTypes, ModelType, Lists, Search!LoadMore, Search!CanLoadMore
<1>1. /\ ask \in Asks /\ ask.current /\ ask.filter = model.filter
      /\ ask.cursor = model.list.cursor
  BY <1>0 DEF Search!Ask, Asks
<1>2. /\ model' \in ModelType /\ model'.filter = model.filter /\ model'.list = model.list
      /\ ~model'.searching /\ model'.more
  BY DEF Search!LoadMore, SearchInv, SearchTypes, ModelType
<1>3. /\ sent' = sent \cup {ask} /\ answered' = answered /\ note' = note
      /\ model.list.cursor # Search!NoCursor /\ model.list.pages < MaxPages
      /\ ~model.searching /\ ~model.more
  BY DEF Search!LoadMore, Search!CanLoadMore
<1> HIDE DEF ask
<1>4. (\A r \in sent : ~r.current) /\ (\A a \in answered : ~a.current)
  BY <1>3 DEF SearchInv, Asked, Told, Expects
<1>5. SearchTypes'
  BY <1>1, <1>2, <1>3 DEF SearchInv, SearchTypes
<1>6. Listed'
  BY <1>2, <1>3 DEF SearchInv, Listed, Kept, Covers
<1>7. Waiting'
  BY <1>0, <1>2, <1>3 DEF Waiting
<1>8. OneCurrent'
  BY <1>3, <1>4 DEF OneCurrent
<1>9. \A r \in sent' : Asked(r)'
  BY <1>1, <1>2, <1>3, <1>4 DEF Asked, Expects
<1>10. \A a \in answered' : Told(a)'
  BY <1>3, <1>4 DEF SearchInv, Told, Kept
<1> QED BY <1>5, <1>6, <1>7, <1>8, <1>9, <1>10 DEF SearchInv

\* A request r comes to an answer a.
LEMMA AnswerKeeps ==
  ASSUME SearchInv, NEW r \in sent, NEW a \in Failures \cup Replies,
         sent' = sent \ {r}, answered' = answered \cup {a}, UNCHANGED <<note, model>>,
         a.current = r.current, Told(a)
  PROVE  SearchInv'
<1>1. SearchTypes'
  BY DEF SearchInv, SearchTypes
<1>2. Listed' /\ Waiting'
  BY DEF SearchInv, Listed, Kept, Covers, Waiting
<1>3. OneCurrent'
  <2>1. OneCurrent
    BY DEF SearchInv
  <2>2. \A r1, r2 \in sent' : r1.current /\ r2.current => r1 = r2
    BY <2>1 DEF OneCurrent
  <2>3. r.current => \A b \in answered : ~b.current
    BY <2>1 DEF OneCurrent
  <2>4. \A a1, a2 \in answered' : a1.current /\ a2.current => a1 = a2
    BY <2>1, <2>3 DEF OneCurrent
  <2>5. r.current => \A q \in sent' : ~q.current
    BY <2>1 DEF OneCurrent
  <2>6. \A q \in sent', b \in answered' : ~(q.current /\ b.current)
    BY <2>1, <2>5 DEF OneCurrent
  <2> QED BY <2>2, <2>4, <2>6 DEF OneCurrent
<1>4. \A q \in sent' : Asked(q)'
  BY DEF SearchInv, Asked, Expects
<1>5. \A b \in answered' : Told(b)'
  BY DEF SearchInv, Told, Expects, Kept
<1> QED BY <1>1, <1>2, <1>3, <1>4, <1>5 DEF SearchInv

LEMMA FailureKeeps ==
  ASSUME SearchInv, NEW r \in sent, sent' = sent \ {r},
         answered' = answered \cup {Search!Failure(r)}, UNCHANGED <<note, model>>
  PROVE  SearchInv'
<1> DEFINE a == Search!Failure(r)
<1>1. /\ a \in Failures /\ a.current = r.current /\ a.asked = r.cursor /\ ~a.ok
  BY DEF SearchInv, SearchTypes, Asks, Failures, Search!Failure
<1> HIDE DEF a
<1>2. Told(a)
  BY <1>1 DEF SearchInv, Asked, Told
<1>3. answered' = answered \cup {a}
  BY DEF a
<1> QED BY <1>1, <1>2, <1>3, AnswerKeeps

LEMMA SearchLoseKeeps ==
  ASSUME SearchInv, NEW r \in sent, Search!Lose(r) PROVE SearchInv'
BY FailureKeeps DEF Search!Lose

LEMMA SearchServeKeeps ==
  ASSUME SearchInv, NEW r \in sent, Search!Serve(r) PROVE SearchInv'
<1>1. CASE ~Search!Admitted(r.filter, r.cursor)
  BY <1>1, FailureKeeps DEF Search!Serve
<1>2. CASE Search!Admitted(r.filter, r.cursor)
  <2> DEFINE page == Search!Page(r.filter, r.cursor)
             a == [current |-> r.current, asked |-> r.cursor, ok |-> TRUE, filter |-> r.filter,
                   base |-> note, page |-> page]
  <2>1. /\ sent' = sent \ {r} /\ answered' = answered \cup {a} /\ UNCHANGED <<note, model>>
    BY <1>2 DEF Search!Serve
  <2>2. /\ r.filter \in Search!Filters /\ r.cursor \in Search!Cursors /\ r.current \in BOOLEAN
        /\ note \in [Notes -> Search!NoteType]
    BY DEF SearchInv, SearchTypes, Asks
  <2>3. page \in Pages /\ HasAll(note, r.filter, r.cursor, page)
    BY <2>2, PageIsWhole
  <2> HIDE DEF page
  <2>4. /\ a \in Replies /\ a.current = r.current /\ a.asked = r.cursor /\ a.filter = r.filter
        /\ a.base = note /\ a.page = page
    BY <2>2, <2>3 DEF Replies
  <2> HIDE DEF a
  <2>5. Kept(a.base)
    BY <2>2, <2>4 DEF Kept, Search!NoteType
  <2>6. ASSUME r.current
        PROVE  /\ Expects(a.asked) /\ a.filter = model.filter
               /\ a.asked # Search!NoCursor =>
                    \A n \in Notes : model.list.base[n].rev <= a.base[n].rev
    <3>1. r.filter = model.filter /\ Expects(r.cursor)
      BY <2>6 DEF SearchInv, Asked
    <3>2. r.cursor # Search!NoCursor => Kept(model.list.base)
      BY <3>1 DEF Expects, SearchInv, Waiting, Listed
    <3> QED BY <2>4, <3>1, <3>2 DEF Kept
  <2>7. Told(a)
    BY <2>3, <2>4, <2>5, <2>6 DEF Told
  <2> QED BY <2>1, <2>4, <2>7, AnswerKeeps
<1> QED BY <1>1, <1>2

LEMMA HearKeeps ==
  ASSUME SearchInv, NEW a \in answered, Search!Hear(a) PROVE SearchInv'
<1>0. /\ answered' = answered \ {a} /\ UNCHANGED <<note, sent>>
      /\ model \in ModelType /\ a \in Failures \cup Replies
  BY DEF Search!Hear, SearchInv, SearchTypes
<1>1. a.ok => a \in Replies
  BY <1>0 DEF Failures
<1>2. CASE ~a.current
  <2>1. model' = model
    BY <1>2 DEF Search!Hear
  <2> QED BY <1>0, <2>1 DEF SearchInv, SearchTypes, Listed, Kept, Covers, Waiting, OneCurrent,
          Asked, Told, Expects
<1>3. CASE a.current
  <2>1. /\ Told(a) /\ Expects(a.asked)
        /\ \A r \in sent : ~r.current
        /\ \A b \in answered \ {a} : ~b.current
    <3>1. \A r \in sent : ~r.current
      BY <1>3 DEF SearchInv, OneCurrent
    <3>2. \A b \in answered \ {a} : ~b.current
      BY <1>3 DEF SearchInv, OneCurrent
    <3> QED BY <1>3, <3>1, <3>2 DEF SearchInv, Told
  <2>2. ASSUME model' \in ModelType, Listed', Waiting' PROVE SearchInv'
    <3>1. SearchTypes' /\ OneCurrent'
      BY <1>0, <2>1, <2>2 DEF SearchInv, SearchTypes, OneCurrent
    <3>2. \A r \in sent' : Asked(r)'
      BY <1>0, <2>1 DEF Asked
    <3>3. \A b \in answered' : Told(b)'
      BY <1>0, <2>1 DEF SearchInv, Told, Kept
    <3> QED BY <2>2, <3>1, <3>2, <3>3 DEF SearchInv
  <2>3. CASE a.asked = Search!NoCursor
    <3> DEFINE list == IF a.ok THEN Search!First(a) ELSE Search!NoList
    <3>1. model' = [model EXCEPT !.searching = FALSE, !.list = list]
      BY <1>3, <2>3 DEF Search!Hear
    <3>2. ASSUME a.ok
          PROVE  /\ list \in Lists /\ list.filter = model.filter /\ Kept(list.base)
                 /\ Covers(list)
      <4>1. /\ a.page \in Pages /\ a.filter \in Search!Filters
            /\ a.base \in [Notes -> Search!NoteType]
        BY <1>1, <3>2 DEF Replies
      <4>2. list = [items |-> a.page.items, cursor |-> a.page.cursor, pages |-> 1,
                    filter |-> a.filter, base |-> a.base]
        BY <3>2 DEF Search!First
      <4>3. /\ list \in Lists /\ list.items = a.page.items /\ list.cursor = a.page.cursor
            /\ list.filter = a.filter /\ list.base = a.base
        BY <4>1, <4>2, SearchBounds DEF Lists, Pages
      <4> HIDE DEF list
      <4>4. /\ a.filter = model.filter /\ Kept(a.base)
            /\ HasAll(a.base, a.filter, a.asked, a.page)
        BY <1>3, <2>1, <3>2 DEF Told
      <4>5. Covers(list)
        BY <2>3, <4>3, <4>4 DEF Covers, HasAll
      <4> QED BY <4>3, <4>4, <4>5
    <3>3. list = Search!NoList \/ a.ok
      OBVIOUS
    <3>4. list \in Lists \cup {Search!NoList}
      BY <3>2, <3>3
    <3> HIDE DEF list
    <3>5. /\ model' \in ModelType /\ model'.list = list /\ model'.filter = model.filter
          /\ model'.more = model.more
      BY <1>0, <3>1, <3>4 DEF ModelType
    <3>6. ~model.more
      BY <2>1, <2>3 DEF Expects, SearchInv, Waiting
    <3>7. Listed'
      BY <1>0, <3>2, <3>3, <3>5 DEF Listed, Kept, Covers
    <3>8. Waiting'
      BY <3>5, <3>6 DEF Waiting
    <3> QED BY <2>2, <3>5, <3>7, <3>8
  <2>4. CASE a.asked # Search!NoCursor /\ a.ok /\ Search!Appends(a)
    <3> DEFINE l == model.list
               list == Search!Appended(a)
    <3>1. model' = [model EXCEPT !.more = FALSE, !.list = list]
      BY <1>3, <2>4 DEF Search!Hear
    <3>2. /\ model.more /\ a.asked = l.cursor /\ l # Search!NoList /\ l \in Lists
          /\ l.pages < MaxPages /\ l.filter = model.filter /\ Kept(l.base) /\ Covers(l)
      BY <1>0, <2>1, <2>4 DEF Expects, SearchInv, Waiting, Listed, ModelType
    <3>3. /\ a.page \in Pages /\ a.base \in [Notes -> Search!NoteType]
          /\ Kept(a.base) /\ HasAll(a.base, a.filter, a.asked, a.page)
          /\ a.filter = model.filter /\ \A n \in Notes : l.base[n].rev <= a.base[n].rev
      BY <1>1, <1>3, <2>1, <2>4 DEF Replies, Told
    <3>4. /\ list \in Lists /\ list.items = l.items \cup a.page.items
          /\ list.cursor = a.page.cursor /\ list.filter = l.filter /\ list.base = l.base
      <4>1. l.pages + 1 \in 1 .. MaxPages
        BY <3>2, SearchBounds DEF Lists
      <4> QED BY <3>2, <3>3, <4>1 DEF Search!Appended, Lists, Pages
    <3> HIDE DEF list
    <3>5. ASSUME NEW n \in Notes, Search!Matches(list.base[n], list.filter), note[n] = list.base[n],
                 list.cursor = Search!NoCursor \/ ~After(list.cursor, note[n], n)
          PROVE  n \in list.items
      <4>1. /\ l.base[n].rev \in Nat /\ a.base[n].rev \in Nat
            /\ l.base[n].rev <= a.base[n].rev /\ a.base[n].rev <= note[n].rev
            /\ a.base[n].rev = note[n].rev => a.base[n] = note[n]
        BY <3>2, <3>3 DEF Kept, Lists, Search!NoteType
      <4>2. a.base[n] = note[n]
        BY <3>4, <3>5, <4>1
      <4>3. CASE After(a.asked, note[n], n)
        BY <3>2, <3>3, <3>4, <3>5, <4>2, <4>3 DEF HasAll
      <4>4. CASE ~After(a.asked, note[n], n)
        BY <3>2, <3>4, <3>5, <4>4 DEF Covers
      <4> QED BY <4>3, <4>4
    <3>6. Covers(list)
      BY <3>5 DEF Covers
    <3>7. /\ model' \in ModelType /\ model'.list = list /\ model'.filter = model.filter
          /\ ~model'.more
      BY <1>0, <3>1, <3>4 DEF ModelType
    <3>8. Listed'
      BY <1>0, <3>2, <3>4, <3>6, <3>7 DEF Listed, Kept, Covers
    <3>9. Waiting'
      BY <3>7 DEF Waiting
    <3> QED BY <2>2, <3>7, <3>8, <3>9
  <2>5. CASE a.asked # Search!NoCursor /\ ~(a.ok /\ Search!Appends(a))
    <3>1. model' = [model EXCEPT !.more = FALSE, !.failed = TRUE]
      BY <1>3, <2>5 DEF Search!Hear
    <3>2. /\ model' \in ModelType /\ model'.list = model.list /\ model'.filter = model.filter
          /\ ~model'.more
      BY <1>0, <3>1 DEF ModelType
    <3>3. Listed' /\ Waiting'
      BY <1>0, <3>2 DEF SearchInv, Listed, Kept, Covers, Waiting
    <3> QED BY <2>2, <3>2, <3>3
  <2> QED BY <2>3, <2>4, <2>5
<1> QED BY <1>2, <1>3

LEMMA SearchStepKeeps ==
  ASSUME SearchInv, Search!Next PROVE SearchInv'
BY SearchEditKeeps, NewSearchKeeps, LoadMoreKeeps, SearchServeKeeps, SearchLoseKeeps, HearKeeps
DEF Search!Next, Search!Answer, Search!Deliver

LEMMA SearchStutterKeeps ==
  ASSUME SearchInv, UNCHANGED searchVars PROVE SearchInv'
BY DEF SearchInv, searchVars, SearchTypes, Listed, Kept, Covers, Waiting, OneCurrent, Asked,
       Told, Expects

LEMMA SearchInvSuffices ==
  ASSUME SearchInv
  PROVE  Search!TypeOK /\ Search!ListIsOfThisSearch /\ Search!EndedIsComplete
<1>1. Search!TypeOK
  <2>1. /\ model.filter \in Search!Filters /\ model.searches \in 0 .. MaxSearches
        /\ {model.searching, model.more, model.failed} \subseteq BOOLEAN
    BY DEF SearchInv, SearchTypes, ModelType
  <2>2. /\ model.list.items \subseteq Notes /\ model.list.cursor \in Search!Cursors
        /\ model.list.pages \in 0 .. MaxPages
    <3>1. CASE model.list = Search!NoList
      BY <3>1, NoListIsEmpty, NoCursorIsCursor, SearchBounds
    <3>2. CASE model.list \in Lists
      BY <3>2 DEF Lists
    <3> QED BY <3>1, <3>2 DEF SearchInv, SearchTypes, ModelType
  <2>3. \A r \in sent : r.filter \in Search!Filters /\ r.cursor \in Search!Cursors
    BY DEF SearchInv, SearchTypes, Asks
  <2>4. \A a \in answered : a.asked \in Search!Cursors
    BY DEF SearchInv, SearchTypes, Failures, Replies
  <2> QED BY <2>1, <2>2, <2>3, <2>4 DEF SearchInv, SearchTypes, Search!TypeOK
<1>2. Search!ListIsOfThisSearch
  BY DEF SearchInv, Listed, Search!ListIsOfThisSearch
<1>3. Search!EndedIsComplete
  BY DEF SearchInv, Listed, Covers, Search!EndedIsComplete
<1> QED BY <1>1, <1>2, <1>3

-----------------------------------------------------------------------------
(* The outbox.                                                             *)

RowType == {r \in [state : Outbox!RowStates, attempt : 0 .. MaxAttempts, lapsed : BOOLEAN,
                   gen : Nat] :
              (r.state = "leased" => r.attempt # 0) /\ (r.lapsed => r.state = "leased")}
ComposerType == [gen : {0}, draft : Nat, sheet : {0}, saves : {{}}, sends : {{}}]
Pauses == [pc : {"idle", "next"}]
Holding == {"upload", "uploading", "uploaded", "creating", "acked", "refresh"}
Turns == [pc : Holding \cup {"claimed", "token", "failing"}, c : Captures,
          by : Profiles \cup {NoOne}, att : SUBSET Attachments, fresh : BOOLEAN,
          why : {"none", "auth", "silent", "verdict", "local", "permanent"}]
Creates == [is : {"create"}, c : Captures, by : Profiles]
Uploads == [is : {"upload"}, a : Attachments, by : Profiles]
AtServer == [is : {"none", "stored", "deleted"}, by : Profiles \cup {NoOne}]

\* What a drain of the profile p knows of its entry, the server holding s of the
\* captures and u of the attachments.
Known(p, d, s, u) ==
  \/ d \in Pauses
  \/ /\ d \in Turns /\ Owner[d.c] = p /\ d.att \subseteq Outbox!AttachmentsOf(d.c)
     /\ d.pc \in Holding => d.by = p
     /\ d.pc = "acked" => s[d.c].is # "none"
     /\ d.pc = "uploaded" => \A a \in d.att : u[a] # "none"

Phoned == /\ session \in Profiles \cup {NoOne} /\ active \subseteq Profiles
          /\ composer \in [Profiles -> ComposerType]
Rows == /\ row \in [Captures -> RowType]
        /\ \A c \in Captures : row[c].state = "synced" => server[c].is # "none"
Marked == uploaded \subseteq Attachments /\ \A a \in uploaded : upload[a] # "none"
Drains == /\ drain \in [Profiles -> Pauses \cup Turns]
          /\ \A p \in Profiles : Known(p, drain[p], server, upload)
Requested == /\ net \subseteq Creates \cup Uploads /\ \A m \in net : m.by = Outbox!Served(m)
             /\ sealing \subseteq net \cap Creates
Accepted(s, u, c) ==
  /\ s.is # "none" => s.by = Owner[c]
  /\ s.is = "stored" => \A a \in Outbox!AttachmentsOf(c) : u[a] = "bound"
  /\ s.is = "deleted" => \A a \in Outbox!AttachmentsOf(c) : u[a] = "gone"
Stored == /\ server \in [Captures -> AtServer]
          /\ upload \in [Attachments -> {"none", "unbound", "bound", "gone"}]
          /\ \A c \in Captures : Accepted(server[c], upload, c)

OutboxInv == Phoned /\ Rows /\ Marked /\ Drains /\ Requested /\ Stored

LEMMA OutboxBounds ==
  /\ Owner \in [Captures -> Profiles] /\ CaptureOf \in [Attachments -> Captures]
  /\ NoOne \notin Profiles /\ MaxAttempts \in Nat \ {0}
BY PhoneAssumption DEF Outbox!OutboxAssumption

LEMMA NoRowIsRow ==
  Outbox!NoRow \in RowType /\ Outbox!NoRow.state = "none" /\ ~Outbox!NoRow.lapsed
BY OutboxBounds DEF Outbox!NoRow, RowType, Outbox!RowStates

LEMMA OutboxBegins ==
  ASSUME Outbox!Init PROVE OutboxInv
<1>1. Outbox!NoRow \in RowType /\ Outbox!NoRow.state # "synced"
  BY NoRowIsRow
<1>2. Outbox!NoDraft \in ComposerType
  BY DEF Outbox!NoDraft, ComposerType
<1>3. Outbox!Idle \in Pauses
  BY DEF Outbox!Idle, Pauses
<1>4. Outbox!Absent \in AtServer /\ Outbox!Absent.is = "none"
  BY DEF Outbox!Absent, AtServer
<1>5. Phoned
  BY <1>2 DEF Outbox!Init, Phoned
<1>6. Rows /\ Marked
  BY <1>1 DEF Outbox!Init, Rows, Marked
<1>7. Drains
  BY <1>3 DEF Outbox!Init, Drains, Known
<1>8. Requested /\ Stored
  BY <1>4 DEF Outbox!Init, Requested, Stored, Accepted
<1> QED BY <1>5, <1>6, <1>7, <1>8 DEF OutboxInv

\* What a row of a lease that ends looks like.
LEMMA LeaseEnds ==
  ASSUME NEW r \in RowType, r.state = "leased"
  PROVE  /\ \A s \in {"retry", "waiting_for_sign_in"} :
              /\ Outbox!Retires(r, s) \in RowType
              /\ Outbox!Retires(r, s).state # "synced"
         /\ Outbox!MarkRetry(r, FALSE) \in RowType /\ Outbox!MarkRetry(r, FALSE).state = "retry"
         /\ \A s \in {"failed", "synced"} :
              /\ Outbox!TransitionLease(r, s) \in RowType
              /\ Outbox!TransitionLease(r, s).state = s
<1> USE OutboxBounds DEF RowType, Outbox!RowStates, Outbox!Due
<1>1. \A s \in {"retry", "waiting_for_sign_in"} :
         /\ Outbox!Retires(r, s) \in RowType
         /\ Outbox!Retires(r, s).state # "synced"
  BY DEF Outbox!Retires
<1>2. Outbox!MarkRetry(r, FALSE) \in RowType /\ Outbox!MarkRetry(r, FALSE).state = "retry"
  <2>1. r.attempt - 1 \in 0 .. MaxAttempts
    OBVIOUS
  <2> QED BY <2>1 DEF Outbox!MarkRetry
<1>3. \A s \in {"failed", "synced"} :
         /\ Outbox!TransitionLease(r, s) \in RowType
         /\ Outbox!TransitionLease(r, s).state = s
  BY DEF Outbox!TransitionLease
<1> QED BY <1>1, <1>2, <1>3

\* How a row may change: nothing becomes synced that the server does not hold, and
\* what is synced or failed is left alone.
Turned(c, r) ==
  /\ r \in RowType
  /\ r.state = "synced" => server[c].is # "none"
  /\ row[c].state = "synced" => r = row[c]
  /\ row[c].state = "failed" => r.state = "failed"
RowsTurn == row' \in [Captures -> RowType] /\ \A c \in Captures : Turned(c, row'[c])

LEMMA RowsStay ==
  ASSUME Rows, row' = row PROVE RowsTurn
BY DEF Rows, RowsTurn, Turned

LEMMA OneRowTurns ==
  ASSUME Rows, NEW c \in Captures, NEW r, Turned(c, r), row' = [row EXCEPT ![c] = r]
  PROVE  RowsTurn
BY DEF Rows, RowsTurn, Turned

\* The write that ends the turn of the entry c.
LEMMA WritesTurn ==
  ASSUME Rows, NEW c \in Captures, NEW r, row[c].state = "leased" => r \in RowType,
         row[c].state = "leased" => r.state # "synced", Outbox!Writes(c, r)
  PROVE  RowsTurn
<1>1. CASE row[c].state = "leased" /\ row' = [row EXCEPT ![c] = r]
  <2>1. Turned(c, r)
    BY <1>1 DEF Turned
  <2> QED BY <1>1, <2>1, OneRowTurns
<1>2. CASE row' = row
  BY <1>2, RowsStay
<1>3. row' = row \/ (row[c].state = "leased" /\ row' = [row EXCEPT ![c] = r])
  BY DEF Outbox!Writes, Rows
<1> QED BY <1>1, <1>2, <1>3

\* A step of the phone that leaves the server and the requests to it alone.
PhoneOnly == UNCHANGED <<net, sealing, server, upload>>

\* What is shown of a step.
Holds == OutboxInv' /\ Outbox!AcceptedStep /\ Outbox!SettledStep

LEMMA RowsOnlyKeep ==
  ASSUME OutboxInv, RowsTurn, UNCHANGED <<session, active, composer, uploaded, drain>>, PhoneOnly
  PROVE  Holds
<1>1. Rows'
  BY DEF RowsTurn, Turned, Rows, PhoneOnly
<1>2. Phoned' /\ Marked' /\ Drains' /\ Requested' /\ Stored'
  BY DEF OutboxInv, PhoneOnly, Phoned, Marked, Drains, Requested, Stored
<1>3. Outbox!AcceptedStep /\ Outbox!SettledStep
  BY DEF PhoneOnly, RowsTurn, Turned, Outbox!AcceptedStep, Outbox!SettledStep
<1> QED BY <1>1, <1>2, <1>3 DEF OutboxInv, Holds

\* A step of the drain of p after which it knows d.
LEMMA DrainKeeps ==
  ASSUME OutboxInv, NEW p \in Profiles, NEW d, Known(p, d, server, upload),
         Outbox!Goes(p, d), RowsTurn, uploaded' \in {uploaded, uploaded \cup drain[p].att},
         uploaded' = uploaded \/ drain[p].pc = "uploaded",
         UNCHANGED <<session, active, composer, sealing, server, upload>>, Requested'
  PROVE  Holds
<1>1. Rows'
  BY DEF RowsTurn, Turned, Rows
<1>2. Drains'
  BY DEF OutboxInv, Drains, Outbox!Goes, Known
<1>3. Marked'
  <2>1. drain[p].pc = "uploaded" =>
          /\ drain[p].att \subseteq Attachments /\ \A a \in drain[p].att : upload[a] # "none"
    BY DEF OutboxInv, Drains, Known, Pauses, Turns, Outbox!AttachmentsOf
  <2> QED BY <2>1 DEF OutboxInv, Marked
<1>4. Phoned' /\ Stored'
  BY DEF OutboxInv, Phoned, Stored
<1>5. Outbox!AcceptedStep /\ Outbox!SettledStep
  BY DEF RowsTurn, Turned, Outbox!AcceptedStep, Outbox!SettledStep
<1> QED BY <1>1, <1>2, <1>3, <1>4, <1>5 DEF OutboxInv, Holds

\* A step of the session, the app or the composer that writes no row.
LEMMA PhoneStepKeeps ==
  ASSUME OutboxInv, Phoned', UNCHANGED <<row, uploaded>>, PhoneOnly,
         drain' = drain \/ drain' = [p \in Profiles |-> Outbox!Idle]
  PROVE  Holds
<1>1. Drains'
  BY DEF OutboxInv, Drains, Known, Outbox!Idle, Pauses, PhoneOnly
<1>2. Rows' /\ Marked' /\ Requested' /\ Stored'
  BY DEF OutboxInv, PhoneOnly, Rows, Marked, Requested, Stored
<1>3. Outbox!AcceptedStep /\ Outbox!SettledStep
  BY DEF PhoneOnly, Outbox!AcceptedStep, Outbox!SettledStep
<1> QED BY <1>1, <1>2, <1>3 DEF OutboxInv, Holds

LEMMA OutsideStepKeeps ==
  ASSUME OutboxInv,
         \/ Outbox!SignOut \/ Outbox!SessionLost \/ Outbox!Crash
         \/ \E p \in Profiles : Outbox!SignIn(p) \/ Outbox!Activate(p) \/ Outbox!Deactivate(p)
  PROVE  Holds
<1>1. CASE Outbox!Crash
  <2>1. \A p \in Profiles : [composer[p] EXCEPT !.sheet = 0, !.saves = {}, !.sends = {}] \in ComposerType
    BY DEF OutboxInv, Phoned, ComposerType
  <2>2. Phoned'
    BY <1>1, <2>1 DEF OutboxInv, Phoned, Outbox!Crash
  <2> QED BY <1>1, <2>2, PhoneStepKeeps DEF Outbox!Crash, Outbox!remote, PhoneOnly
<1>2. CASE Outbox!SignOut \/ Outbox!SessionLost
  <2>1. Phoned'
    BY <1>2 DEF OutboxInv, Phoned, Outbox!SignOut, Outbox!SessionLost
  <2> QED BY <1>2, <2>1, PhoneStepKeeps
          DEF Outbox!SignOut, Outbox!SessionLost, Outbox!remote, PhoneOnly
<1>3. ASSUME NEW p \in Profiles, Outbox!SignIn(p) \/ Outbox!Activate(p) \/ Outbox!Deactivate(p)
      PROVE  Holds
  <2>1. Phoned'
    BY <1>3 DEF OutboxInv, Phoned, Outbox!SignIn, Outbox!Activate, Outbox!Deactivate
  <2> QED BY <1>3, <2>1, PhoneStepKeeps
          DEF Outbox!SignIn, Outbox!Activate, Outbox!Deactivate, Outbox!remote, PhoneOnly
<1> QED BY <1>1, <1>2, <1>3

\* Without a generation to open a sheet for, the composer does nothing.
LEMMA NoSheetOpens ==
  ASSUME OutboxInv, NEW p \in Profiles, Outbox!Compose(p) PROVE FALSE
<1>1. /\ composer[p].gen = 0 /\ composer[p].sheet = 0 /\ composer[p].saves = {}
      /\ composer[p].sends = {}
  BY DEF OutboxInv, Phoned, ComposerType
<1> QED BY <1>1 DEF Outbox!Compose, Outbox!OpenSheet, Outbox!Autosave, Outbox!Discard,
        Outbox!SaveDraft, Outbox!Send, Outbox!Enqueue

LEMMA EntryStepKeeps ==
  ASSUME OutboxInv, NEW c \in Captures, Outbox!EnqueueAgain(c) \/ Outbox!Lapse(c) PROVE Holds
<1>1. PICK r : r = row'[c]
  OBVIOUS
<1>2. row[c] \in RowType /\ row \in [Captures -> RowType]
  BY DEF OutboxInv, Rows
<1>3. Turned(c, r) /\ row' = [row EXCEPT ![c] = r]
  <2>1. CASE Outbox!EnqueueAgain(c)
    <3>1. [Outbox!NoRow EXCEPT !.state = "pending"] \in RowType
      <4>1. \A n \in RowType : ~n.lapsed => [n EXCEPT !.state = "pending"] \in RowType
        BY DEF RowType, Outbox!RowStates, Outbox!Due
      <4>2. Outbox!NoRow \in RowType /\ ~Outbox!NoRow.lapsed
        BY NoRowIsRow
      <4> QED BY <4>1, <4>2
    <3>2. [Outbox!NoRow EXCEPT !.state = "pending"].state = "pending"
      BY DEF Outbox!NoRow
    <3>3. /\ r = [Outbox!NoRow EXCEPT !.state = "pending"] /\ row[c].state = "none"
          /\ row' = [row EXCEPT ![c] = r]
      BY <1>1, <1>2, <2>1 DEF Outbox!EnqueueAgain
    <3> QED BY <3>1, <3>2, <3>3 DEF Turned
  <2>2. CASE Outbox!Lapse(c)
    <3>1. /\ r = [row[c] EXCEPT !.lapsed = TRUE] /\ row[c].state = "leased"
          /\ row' = [row EXCEPT ![c] = r]
      BY <1>1, <1>2, <2>2 DEF Outbox!Lapse
    <3>2. r \in RowType /\ r.state = "leased"
      BY <1>2, <3>1 DEF RowType
    <3> QED BY <3>1, <3>2 DEF Turned
  <2> QED BY <2>1, <2>2
<1>4. RowsTurn
  BY <1>3, OneRowTurns DEF OutboxInv
<1> QED BY <1>4, RowsOnlyKeep DEF Outbox!EnqueueAgain, Outbox!Lapse, Outbox!remote, PhoneOnly

LEMMA RetryFailedKeeps ==
  ASSUME OutboxInv, NEW c \in Captures, Outbox!RetryFailed(c) PROVE Holds
<1> DEFINE r == [row[c] EXCEPT !.state = "retry", !.attempt = 0]
<1>1. row[c] \in RowType /\ row \in [Captures -> RowType]
  BY DEF OutboxInv, Rows
<1>2. row' = [row EXCEPT ![c] = r] /\ row[c].state = "failed" /\ session = Owner[c]
  BY DEF Outbox!RetryFailed
<1>3. r \in RowType /\ r.state = "retry" /\ r.attempt = 0
  <2>1. 0 \in 0 .. MaxAttempts
    BY OutboxBounds
  <2>2. /\ row[c] \in [state : Outbox!RowStates, attempt : 0 .. MaxAttempts, lapsed : BOOLEAN,
                      gen : Nat]
        /\ ~row[c].lapsed
    BY <1>1, <1>2 DEF RowType
  <2>3. /\ r \in [state : Outbox!RowStates, attempt : 0 .. MaxAttempts, lapsed : BOOLEAN,
                 gen : Nat]
        /\ r.state = "retry" /\ r.attempt = 0 /\ ~r.lapsed
    BY <2>1, <2>2 DEF Outbox!RowStates, Outbox!Due
  <2> QED BY <2>3 DEF RowType
<1> HIDE DEF r
<1>4. row'[c] = r /\ \A k \in Captures \ {c} : row'[k] = row[k]
  BY <1>1, <1>2
<1>5. UNCHANGED <<session, active, composer, uploaded, drain, net, sealing, server, upload>>
  BY DEF Outbox!RetryFailed, Outbox!remote
<1>6. Rows'
  BY <1>1, <1>2, <1>3, <1>4, <1>5 DEF OutboxInv, Rows
<1>7. Phoned' /\ Marked' /\ Drains' /\ Requested' /\ Stored'
  BY <1>5 DEF OutboxInv, Phoned, Marked, Drains, Requested, Stored
<1>8. Outbox!AcceptedStep
  BY <1>5 DEF Outbox!AcceptedStep
<1>9. Outbox!SettledStep
  BY <1>2, <1>3, <1>4 DEF Outbox!SettledStep
<1> QED BY <1>6, <1>7, <1>8, <1>9 DEF OutboxInv, Holds

\* What the drain of p knows when it is in a turn.
LEMMA InTurn ==
  ASSUME OutboxInv, NEW p \in Profiles, drain[p].pc \notin {"idle", "next"}
  PROVE  /\ drain[p] \in Turns /\ drain[p].c \in Captures /\ Owner[drain[p].c] = p
         /\ drain[p].att \subseteq Outbox!AttachmentsOf(drain[p].c)
         /\ drain[p].pc \in Holding => drain[p].by = p
BY DEF OutboxInv, Drains, Known, Pauses, Turns

\* The turn goes on, or fails.
LEMMA TurnGoesOn ==
  ASSUME OutboxInv, NEW p \in Profiles, drain[p].pc \notin {"idle", "next"}
  PROVE  /\ \A w \in {"auth", "silent", "verdict", "local", "permanent"} :
              Known(p, Outbox!Fails(p, w), server, upload)
         /\ Known(p, Outbox!At(p, "token"), server, upload)
         /\ drain[p].pc \in Holding => \A x \in {"upload", "refresh", "creating"} :
                                         Known(p, Outbox!At(p, x), server, upload)
<1>1. /\ drain[p] \in Turns /\ Owner[drain[p].c] = p
      /\ drain[p].att \subseteq Outbox!AttachmentsOf(drain[p].c)
      /\ drain[p].pc \in Holding => drain[p].by = p
  BY InTurn
<1> HIDE DEF Outbox!AttachmentsOf
<1> DEFINE d == drain[p]
<1>2. \A w \in {"auth", "silent", "verdict", "local", "permanent"} :
        LET e == [d EXCEPT !.pc = "failing", !.why = w] IN
        e \in Turns /\ e.c = d.c /\ e.att = d.att /\ e.pc = "failing"
  BY <1>1 DEF Turns
<1>3. \A x \in {"token", "upload", "refresh", "creating"} :
        LET e == [d EXCEPT !.pc = x] IN
        e \in Turns /\ e.c = d.c /\ e.att = d.att /\ e.pc = x /\ e.by = d.by
  BY <1>1 DEF Turns, Holding
<1>4. \A w \in {"auth", "silent", "verdict", "local", "permanent"} :
        Known(p, Outbox!Fails(p, w), server, upload)
  BY <1>1, <1>2 DEF Known, Outbox!Fails, Outbox!D, Holding
<1>5. Known(p, Outbox!At(p, "token"), server, upload)
  BY <1>1, <1>3 DEF Known, Outbox!At, Outbox!D, Holding
<1>6. drain[p].pc \in Holding => \A x \in {"upload", "refresh", "creating"} :
                                   Known(p, Outbox!At(p, x), server, upload)
  BY <1>1, <1>3 DEF Known, Outbox!At, Outbox!D, Holding
<1> QED BY <1>4, <1>5, <1>6

\* Between two entries, and at rest.
LEMMA Pausing ==
  ASSUME NEW p \in Profiles
  PROVE  Known(p, Outbox!Idle, server, upload) /\ Known(p, [pc |-> "next"], server, upload)
BY DEF Known, Pauses, Outbox!Idle

\* A step of the drain that leaves the rows and the attachments as they are.
LEMMA HopKeeps ==
  ASSUME OutboxInv, NEW p \in Profiles, NEW d, Known(p, d, server, upload),
         Outbox!Goes(p, d), Outbox!Hop, Requested'
  PROVE  Holds
<1>1. RowsTurn
  BY RowsStay DEF OutboxInv, Outbox!Hop
<1> QED BY <1>1, DrainKeeps DEF Outbox!Hop, Outbox!remote

LEMMA QuietHopKeeps ==
  ASSUME OutboxInv, NEW p \in Profiles, NEW d, Known(p, d, server, upload),
         Outbox!Goes(p, d), Outbox!Hop, UNCHANGED net
  PROVE  Holds
<1>1. Requested'
  BY DEF OutboxInv, Requested, Outbox!Hop, Outbox!remote
<1> QED BY <1>1, HopKeeps

\* A step of the drain that ends the turn of the entry c or takes one.
LEMMA RowHopKeeps ==
  ASSUME OutboxInv, NEW p \in Profiles, NEW d, Known(p, d, server, upload),
         Outbox!Goes(p, d), RowsTurn,
         UNCHANGED <<session, active, composer, uploaded, net, sealing, server, upload>>
  PROVE  Holds
<1>1. Requested'
  BY DEF OutboxInv, Requested
<1> QED BY <1>1, DrainKeeps

LEMMA StartKeeps ==
  ASSUME OutboxInv, NEW p \in Profiles, Outbox!StartOnly(p) \/ Outbox!StartRecovering(p)
  PROVE  Holds
<1>1. RowsTurn
  <2>1. CASE row' = row
    BY <2>1, RowsStay DEF OutboxInv
  <2>2. CASE row' = Outbox!Recovered(p)
    <3>1. ASSUME NEW c \in Captures PROVE row'[c] \in RowType /\ Turned(c, row'[c])
      <4>1. row[c] \in RowType /\ (row[c].state = "synced" => server[c].is # "none")
        BY DEF OutboxInv, Rows
      <4>2. CASE Owner[c] = p /\ row[c].lapsed
        <5>1. row'[c] = Outbox!Retires(row[c], "retry")
          BY <2>2, <4>2 DEF Outbox!Recovered, Outbox!RecoverExpiredLease
        <5>2. row[c].state = "leased"
          BY <4>1, <4>2 DEF RowType
        <5>3. /\ Outbox!Retires(row[c], "retry") \in RowType
              /\ Outbox!Retires(row[c], "retry").state # "synced"
          BY <4>1, <5>2, LeaseEnds
        <5> QED BY <5>1, <5>2, <5>3 DEF Turned
      <4>3. CASE ~(Owner[c] = p /\ row[c].lapsed)
        BY <2>2, <4>1, <4>3 DEF Outbox!Recovered, Turned
      <4> QED BY <4>2, <4>3
    <3>2. row' = [c \in Captures |-> row'[c]]
      BY <2>2 DEF Outbox!Recovered
    <3> QED BY <3>1, <3>2 DEF RowsTurn
  <2> QED BY <2>1, <2>2 DEF Outbox!StartOnly, Outbox!StartRecovering
<1>2. /\ Outbox!Goes(p, [pc |-> "next"])
      /\ UNCHANGED <<session, active, composer, uploaded, net, sealing, server, upload>>
  BY DEF Outbox!StartOnly, Outbox!StartRecovering, Outbox!Start, Outbox!remote
<1> QED BY <1>1, <1>2, Pausing, RowHopKeeps

LEMMA ClaimKeeps ==
  ASSUME OutboxInv, NEW p \in Profiles, NEW c \in Captures, Outbox!Claim(p, c) PROVE Holds
<1> DEFINE r == [row[c] EXCEPT !.state = "leased", !.attempt = row[c].attempt + 1]
           d == [pc |-> "claimed", c |-> c, by |-> NoOne, att |-> {}, fresh |-> FALSE,
                 why |-> "none"]
<1>1. /\ row' = [row EXCEPT ![c] = r] /\ Outbox!Goes(p, d)
      /\ UNCHANGED <<session, active, composer, uploaded, net, sealing, server, upload>>
  BY DEF Outbox!Claim, Outbox!remote, OutboxInv, Rows
<1>2. /\ Owner[c] = p /\ row[c].state \in Outbox!Due /\ ~(row[c].attempt >= MaxAttempts)
  BY DEF Outbox!Claim, Outbox!Claimable, Outbox!AtLimit
<1>3. row[c] \in RowType
  BY DEF OutboxInv, Rows
<1>4. r \in RowType /\ r.state = "leased"
  <2>1. row[c].attempt + 1 \in 0 .. MaxAttempts /\ row[c].attempt + 1 # 0
    BY <1>2, <1>3, OutboxBounds DEF RowType
  <2> QED BY <1>3, <2>1 DEF RowType, Outbox!RowStates
<1>5. Known(p, d, server, upload)
  BY <1>2 DEF Known, Turns, Holding
<1> HIDE DEF r, d
<1>6. RowsTurn
  <2>1. Turned(c, r)
    BY <1>2, <1>4 DEF Turned, Outbox!Due
  <2> QED BY <1>1, <2>1, OneRowTurns DEF OutboxInv
<1> QED BY <1>1, <1>5, <1>6, RowHopKeeps

LEMMA StopKeeps ==
  ASSUME OutboxInv, NEW p \in Profiles, Outbox!Stop(p) PROVE Holds
BY Pausing, QuietHopKeeps DEF Outbox!Stop

\* The turn of p ends with the row r for its entry.
LEMMA TurnEnds ==
  ASSUME OutboxInv, NEW p \in Profiles, drain[p].pc \notin {"idle", "next"}, NEW r,
         row[drain[p].c].state = "leased" => r \in RowType /\ r.state # "synced",
         Outbox!Writes(drain[p].c, r),
         Outbox!Goes(p, Outbox!Idle) \/ Outbox!Goes(p, [pc |-> "next"])
  PROVE  Holds
<1>1. drain[p].c \in Captures
  BY InTurn
<1>2. RowsTurn
  BY <1>1, WritesTurn DEF OutboxInv
<1>3. UNCHANGED <<session, active, composer, uploaded, net, sealing, server, upload>>
  BY DEF Outbox!Writes, Outbox!remote
<1> QED BY <1>2, <1>3, Pausing, RowHopKeeps

LEMMA RecheckKeeps ==
  ASSUME OutboxInv, NEW p \in Profiles, Outbox!Recheck(p) PROVE Holds
<1> DEFINE c == drain[p].c
<1>1. drain[p].pc = "claimed" /\ c \in Captures
  BY InTurn DEF Outbox!Recheck, Outbox!D
<1>2. CASE Outbox!Authorized(p)
  BY <1>1, <1>2, TurnGoesOn, QuietHopKeeps DEF Outbox!Recheck
<1>3. CASE ~Outbox!Authorized(p)
  <2>1. row[c].state = "leased" => /\ Outbox!MarkWaitingForSignIn(row[c]) \in RowType
                                   /\ Outbox!MarkWaitingForSignIn(row[c]).state # "synced"
    BY <1>1, LeaseEnds DEF OutboxInv, Rows, Outbox!MarkWaitingForSignIn
  <2>2. /\ Outbox!Writes(c, Outbox!MarkWaitingForSignIn(row[c])) /\ Outbox!Goes(p, Outbox!Idle)
    BY <1>3 DEF Outbox!Recheck, Outbox!D
  <2> QED BY <1>1, <2>1, <2>2, TurnEnds
<1> QED BY <1>2, <1>3

LEMMA HandleErrorKeeps ==
  ASSUME OutboxInv, NEW p \in Profiles, Outbox!HandleError(p) PROVE Holds
<1> DEFINE c == drain[p].c
           w == drain[p].why
           r == CASE w = "auth" -> Outbox!MarkWaitingForSignIn(row[c])
                  [] w = "permanent" -> Outbox!TransitionLease(row[c], "failed")
                  [] w = "silent" -> Outbox!MarkRetry(row[c], FALSE)
                  [] OTHER -> Outbox!MarkRetry(row[c], TRUE)
<1>1. drain[p].pc = "failing" /\ c \in Captures
  BY InTurn DEF Outbox!HandleError, Outbox!D
<1>2. row[c].state = "leased" => r \in RowType /\ r.state # "synced"
  <2> SUFFICES ASSUME row[c].state = "leased" PROVE r \in RowType /\ r.state # "synced"
    OBVIOUS
  <2>1. row[c] \in RowType
    BY <1>1 DEF OutboxInv, Rows
  <2>2. /\ Outbox!MarkWaitingForSignIn(row[c]) \in RowType
        /\ Outbox!MarkWaitingForSignIn(row[c]).state # "synced"
    BY <2>1, LeaseEnds DEF Outbox!MarkWaitingForSignIn
  <2>3. /\ Outbox!TransitionLease(row[c], "failed") \in RowType
        /\ Outbox!TransitionLease(row[c], "failed").state # "synced"
    BY <2>1, LeaseEnds
  <2>4. /\ Outbox!MarkRetry(row[c], FALSE) \in RowType
        /\ Outbox!MarkRetry(row[c], FALSE).state # "synced"
    BY <2>1, LeaseEnds
  <2>5. /\ Outbox!MarkRetry(row[c], TRUE) \in RowType
        /\ Outbox!MarkRetry(row[c], TRUE).state # "synced"
    BY <2>1, LeaseEnds DEF Outbox!MarkRetry
  <2> QED BY <2>2, <2>3, <2>4, <2>5
<1>3. Outbox!Writes(c, r)
  BY DEF Outbox!HandleError, Outbox!D
<1>4. Outbox!Goes(p, Outbox!Idle) \/ Outbox!Goes(p, [pc |-> "next"])
  BY DEF Outbox!HandleError
<1> HIDE DEF r
<1> QED BY <1>1, <1>2, <1>3, <1>4, TurnEnds

LEMMA TakeTokenKeeps ==
  ASSUME OutboxInv, NEW p \in Profiles, Outbox!TakeToken(p) PROVE Holds
<1>1. drain[p].pc = "token"
  BY DEF Outbox!TakeToken, Outbox!D
<1>2. Known(p, [Outbox!At(p, "upload") EXCEPT !.by = p], server, upload)
  <2>1. /\ drain[p] \in Turns /\ Owner[drain[p].c] = p
        /\ drain[p].att \subseteq Outbox!AttachmentsOf(drain[p].c)
    BY <1>1, InTurn
  <2> DEFINE d == [[drain[p] EXCEPT !.pc = "upload"] EXCEPT !.by = p]
  <2>2. d \in Turns /\ d.c = drain[p].c /\ d.att = drain[p].att /\ d.pc = "upload" /\ d.by = p
    BY <2>1 DEF Turns, Holding
  <2> HIDE DEF d, Outbox!AttachmentsOf
  <2>3. Known(p, d, server, upload)
    BY <2>1, <2>2 DEF Known
  <2> QED BY <2>3 DEF d, Outbox!At, Outbox!D
<1>3. \E d : Known(p, d, server, upload) /\ Outbox!Goes(p, d)
  BY <1>1, <1>2, TurnGoesOn DEF Outbox!TakeToken
<1>4. Outbox!Hop /\ UNCHANGED net
  BY DEF Outbox!TakeToken
<1> QED BY <1>3, <1>4, QuietHopKeeps

\* A request the drain of p sends for its own profile.
LEMMA RequestSent ==
  ASSUME OutboxInv, NEW p \in Profiles, drain[p].pc \notin {"idle", "next"},
         UNCHANGED sealing, NEW m,
         \/ m = [is |-> "create", c |-> drain[p].c, by |-> p]
         \/ \E a \in Outbox!AttachmentsOf(drain[p].c) : m = [is |-> "upload", a |-> a, by |-> p],
         net' = net \cup {m}
  PROVE  Requested'
<1>1. drain[p].c \in Captures /\ Owner[drain[p].c] = p
  BY InTurn
<1>2. m \in Creates \cup Uploads /\ m.by = Outbox!Served(m)
  <2>1. CASE m = [is |-> "create", c |-> drain[p].c, by |-> p]
    BY <1>1, <2>1 DEF Creates, Outbox!Served
  <2>2. ASSUME NEW a \in Outbox!AttachmentsOf(drain[p].c),
               m = [is |-> "upload", a |-> a, by |-> p]
        PROVE  m \in Creates \cup Uploads /\ m.by = Outbox!Served(m)
    <3>1. a \in Attachments /\ CaptureOf[a] = drain[p].c
      BY DEF Outbox!AttachmentsOf
    <3>2. m \in Uploads /\ m.is = "upload" /\ m.a = a /\ m.by = p
      BY <2>2, <3>1 DEF Uploads
    <3> QED BY <1>1, <3>1, <3>2 DEF Outbox!Served
  <2> QED BY <2>1, <2>2
<1> QED BY <1>2 DEF OutboxInv, Requested

LEMMA SendUploadKeeps ==
  ASSUME OutboxInv, NEW p \in Profiles, NEW a \in Attachments, Outbox!SendUpload(p, a) PROVE Holds
<1>1. drain[p].pc = "upload" /\ a \in Outbox!AttachmentsOf(drain[p].c)
  BY DEF Outbox!SendUpload, Outbox!D, Outbox!Missing
<1>2. drain[p] \in Turns /\ Owner[drain[p].c] = p /\ drain[p].by = p
  BY <1>1, InTurn DEF Holding
<1> DEFINE d == [[drain[p] EXCEPT !.pc = "uploading"] EXCEPT !.att = {a}]
<1>3. Known(p, d, server, upload)
  <2>1. d \in Turns /\ d.c = drain[p].c /\ d.att = {a} /\ d.pc = "uploading" /\ d.by = p
    BY <1>2 DEF Turns, Holding
  <2> HIDE DEF d
  <2> QED BY <1>1, <1>2, <2>1 DEF Known
<1>4. /\ Outbox!Goes(p, d) /\ Outbox!Hop /\ UNCHANGED sealing
      /\ net' = net \cup {[is |-> "upload", a |-> a, by |-> p]}
  BY <1>2 DEF Outbox!SendUpload, Outbox!At, Outbox!D, Outbox!Hop, Outbox!remote
<1> HIDE DEF d
<1>5. Requested'
  BY <1>1, <1>4, RequestSent
<1> QED BY <1>3, <1>4, <1>5, HopKeeps

LEMMA SendCreateKeeps ==
  ASSUME OutboxInv, NEW p \in Profiles, Outbox!SendCreate(p) PROVE Holds
<1>1. drain[p].pc = "upload"
  BY DEF Outbox!SendCreate, Outbox!D
<1>2. drain[p].by = p
  BY <1>1, InTurn DEF Holding
<1>3. /\ Outbox!Goes(p, Outbox!At(p, "creating")) /\ Outbox!Hop /\ UNCHANGED sealing
      /\ net' = net \cup {[is |-> "create", c |-> drain[p].c, by |-> p]}
  BY <1>2 DEF Outbox!SendCreate, Outbox!Creating, Outbox!D, Outbox!Hop, Outbox!remote
<1>4. Known(p, Outbox!At(p, "creating"), server, upload)
  BY <1>1, TurnGoesOn DEF Holding
<1>5. Requested'
  BY <1>1, <1>3, RequestSent
<1> QED BY <1>3, <1>4, <1>5, HopKeeps

LEMMA RefreshKeeps ==
  ASSUME OutboxInv, NEW p \in Profiles, Outbox!Refresh(p) PROVE Holds
<1>1. drain[p].pc = "refresh" /\ Outbox!Hop
  BY DEF Outbox!Refresh, Outbox!D
<1>2. drain[p] \in Turns /\ Owner[drain[p].c] = p /\ drain[p].by = p
      /\ drain[p].att \subseteq Outbox!AttachmentsOf(drain[p].c)
  BY <1>1, InTurn DEF Holding
<1> DEFINE d == [[[drain[p] EXCEPT !.pc = "creating"] EXCEPT !.by = p] EXCEPT !.fresh = TRUE]
<1>3. Known(p, d, server, upload)
  <2>1. d \in Turns /\ d.c = drain[p].c /\ d.att = drain[p].att /\ d.pc = "creating" /\ d.by = p
    BY <1>2 DEF Turns, Holding
  <2> HIDE DEF d, Outbox!AttachmentsOf
  <2> QED BY <1>2, <2>1 DEF Known
<1>4. CASE /\ Outbox!Goes(p, d)
           /\ net' = net \cup {[is |-> "create", c |-> drain[p].c, by |-> p]}
  <2> HIDE DEF d
  <2>1. Requested'
    BY <1>1, <1>4, RequestSent DEF Outbox!Hop, Outbox!remote
  <2> QED BY <1>1, <1>3, <1>4, <2>1, HopKeeps
<1>5. CASE UNCHANGED net /\ \E why \in {"auth", "silent", "verdict"} :
                               Outbox!Goes(p, Outbox!Fails(p, why))
  BY <1>1, <1>5, TurnGoesOn, QuietHopKeeps
<1>6. [Outbox!Creating(p) EXCEPT !.by = p] = [is |-> "create", c |-> drain[p].c, by |-> p]
  BY DEF Outbox!Creating, Outbox!D
<1>7. [Outbox!At(p, "creating") EXCEPT !.by = p, !.fresh = TRUE] = d
  BY DEF Outbox!At, Outbox!D
<1> HIDE DEF d
<1> QED BY <1>4, <1>5, <1>6, <1>7 DEF Outbox!Refresh

LEMMA MarkUploadedKeeps ==
  ASSUME OutboxInv, NEW p \in Profiles, Outbox!MarkUploaded(p) PROVE Holds
<1>1. /\ drain[p].pc = "uploaded"
      /\ UNCHANGED <<session, active, composer, row, net, sealing, server, upload>>
  BY DEF Outbox!MarkUploaded, Outbox!D, Outbox!remote
<1>2. RowsTurn /\ Requested'
  BY <1>1, RowsStay DEF OutboxInv, Requested
<1>3. /\ Known(p, Outbox!At(p, "upload"), server, upload)
      /\ Known(p, Outbox!Fails(p, "local"), server, upload)
  BY <1>1, TurnGoesOn DEF Holding
<1>4. \E d : /\ Known(p, d, server, upload) /\ Outbox!Goes(p, d)
             /\ uploaded' \in {uploaded, uploaded \cup drain[p].att}
  BY <1>3 DEF Outbox!MarkUploaded, Outbox!D
<1> QED BY <1>1, <1>2, <1>4, DrainKeeps

LEMMA MarkSyncedKeeps ==
  ASSUME OutboxInv, NEW p \in Profiles, Outbox!MarkSynced(p) PROVE Holds
<1> DEFINE c == drain[p].c
<1>1. /\ drain[p].pc = "acked" /\ c \in Captures /\ row[c] \in RowType
      /\ UNCHANGED <<session, active, composer, uploaded, net, sealing, server, upload>>
  BY InTurn DEF Outbox!MarkSynced, Outbox!D, Outbox!remote, OutboxInv, Rows
<1>2. server[c].is # "none"
  BY <1>1 DEF OutboxInv, Drains, Known, Pauses
<1>3. CASE row' = row /\ Outbox!Goes(p, Outbox!Fails(p, "local"))
  <2>1. RowsTurn
    BY <1>3, RowsStay DEF OutboxInv
  <2> QED BY <1>1, <1>3, <2>1, TurnGoesOn, RowHopKeeps
<1>4. CASE /\ row[c].state = "leased" /\ Outbox!Goes(p, [pc |-> "next"])
           /\ row' = [row EXCEPT ![c] = Outbox!TransitionLease(row[c], "synced")]
  <2>1. Turned(c, Outbox!TransitionLease(row[c], "synced"))
    BY <1>1, <1>2, <1>4, LeaseEnds DEF Turned
  <2>2. RowsTurn
    BY <1>1, <1>4, <2>1, OneRowTurns DEF OutboxInv
  <2> QED BY <1>1, <1>4, <2>2, Pausing, RowHopKeeps
<1> QED BY <1>3, <1>4 DEF Outbox!MarkSynced, Outbox!D

LEMMA GiveUpKeeps ==
  ASSUME OutboxInv, NEW p \in Profiles, Outbox!GiveUp(p) PROVE Holds
BY TurnGoesOn, QuietHopKeeps DEF Outbox!GiveUp, Outbox!D

LEMMA SubmitKeeps ==
  ASSUME OutboxInv, NEW p \in Profiles, Outbox!Submit(p) PROVE Holds
BY StopKeeps, RecheckKeeps, TakeTokenKeeps, MarkUploadedKeeps, SendCreateKeeps, RefreshKeeps,
   MarkSyncedKeeps, HandleErrorKeeps, ClaimKeeps, SendUploadKeeps
DEF Outbox!Submit

\* What the server does to a capture or an attachment is not undone.
Grows ==
  /\ \A c \in Captures : server[c].is # "none" => server'[c].is # "none"
  /\ \A a \in Attachments : upload[a] # "none" => upload'[a] # "none"

\* A step of the server: it answers the request m or nobody.
LEMMA ServerKeeps ==
  ASSUME OutboxInv, Stored', Grows, Outbox!AcceptedStep, Outbox!ServerOnly,
         sealing' \subseteq net \cap Creates, NEW m \in net, NEW answer,
         UNCHANGED drain \/ Outbox!Answer(m, answer),
         answer \in {"ok", "unauthorized", "verdict", "permanent"},
         answer = "ok" /\ m.is = "create" => server'[m.c].is # "none",
         answer = "ok" /\ m.is = "upload" => upload'[m.a] # "none"
  PROVE  Holds
<1>1. Phoned' /\ Rows' /\ Marked' /\ Requested' /\ Outbox!SettledStep
  <2>1. UNCHANGED <<session, active, composer, row, uploaded, net>>
    BY DEF Outbox!ServerOnly
  <2>2. Phoned' /\ Rows' /\ Requested'
    BY <2>1 DEF OutboxInv, Phoned, Rows, Requested, Grows
  <2>3. Marked'
    BY <2>1 DEF OutboxInv, Marked, Grows
  <2> QED BY <2>1, <2>2, <2>3 DEF Outbox!SettledStep
<1>2. \A p \in Profiles : \A d : Known(p, d, server, upload) => Known(p, d, server', upload')
  <2> SUFFICES ASSUME NEW p \in Profiles, NEW d, Known(p, d, server, upload)
               PROVE  Known(p, d, server', upload')
    OBVIOUS
  <2>1. d \in Turns => d.c \in Captures /\ d.att \subseteq Attachments
    BY DEF Turns
  <2> QED BY <2>1 DEF Known, Grows
<1>3. Drains'
  <2>1. CASE UNCHANGED drain
    BY <1>2, <2>1 DEF OutboxInv, Drains
  <2>2. CASE drain' # drain
    <3> DEFINE p == Outbox!Served(m)
    <3>1. /\ Outbox!Waits(m) /\ drain' = [drain EXCEPT ![p] = Outbox!Answered(m, answer)]
      BY <2>2 DEF Outbox!Answer
    <3>2. p \in Profiles
      BY OutboxBounds DEF OutboxInv, Requested, Creates, Uploads, Outbox!Served
    <3>3. /\ drain[p].pc \in {"creating", "uploading"}
          /\ m.is = "create" => drain[p].pc = "creating" /\ drain[p].c = m.c
          /\ m.is = "upload" => drain[p].pc = "uploading" /\ drain[p].att = {m.a}
          /\ m.is \in {"create", "upload"}
      BY <3>1 DEF Outbox!Waits, Outbox!D, OutboxInv, Requested, Creates, Uploads
    <3>4. /\ drain[p] \in Turns /\ Owner[drain[p].c] = p /\ drain[p].by = p
          /\ drain[p].att \subseteq Outbox!AttachmentsOf(drain[p].c)
      BY <3>2, <3>3, InTurn DEF Holding
    <3> HIDE DEF p
    <3>5. Known(p, Outbox!Answered(m, answer), server', upload')
      <4>1. CASE answer = "ok"
        <5> DEFINE x == IF m.is = "create" THEN "acked" ELSE "uploaded"
                   d == [drain[p] EXCEPT !.pc = x]
        <5>1. d \in Turns /\ d.c = drain[p].c /\ d.att = drain[p].att /\ d.pc = x /\ d.by = p
          BY <3>4 DEF Turns, Holding
        <5>2. Outbox!Answered(m, answer) = d
          BY <4>1 DEF Outbox!Answered, Outbox!At, Outbox!D, p
        <5> HIDE DEF d, Outbox!AttachmentsOf
        <5>3. Known(p, d, server', upload')
          BY <3>3, <3>4, <4>1, <5>1 DEF Known
        <5> QED BY <5>2, <5>3
      <4>2. CASE answer # "ok"
        <5>1. \/ Outbox!Answered(m, answer) = Outbox!At(p, "refresh")
              \/ \E w \in {"auth", "verdict", "permanent"} :
                   Outbox!Answered(m, answer) = Outbox!Fails(p, w)
          BY <4>2 DEF Outbox!Answered, p
        <5>2. Known(p, Outbox!Answered(m, answer), server, upload)
          BY <3>2, <3>3, <5>1, TurnGoesOn DEF Holding
        <5> QED BY <1>2, <3>2, <5>2
      <4> QED BY <4>1, <4>2
    <3>6. \A q \in Profiles \ {p} : drain'[q] = drain[q]
      BY <3>1 DEF OutboxInv, Drains, p
    <3>7. drain'[p] = Outbox!Answered(m, answer) /\ drain' = [q \in Profiles |-> drain'[q]]
      BY <3>1, <3>2 DEF OutboxInv, Drains, p
    <3>8. \A q \in Profiles : Known(q, drain'[q], server', upload')
      BY <1>2, <3>5, <3>6, <3>7 DEF OutboxInv, Drains
    <3> QED BY <3>7, <3>8 DEF Drains, Known
  <2> QED BY <2>1, <2>2
<1> QED BY <1>1, <1>3 DEF OutboxInv, Holds

LEMMA RequestOf ==
  ASSUME OutboxInv, NEW m \in net
  PROVE  /\ m.is \in {"create", "upload"}
         /\ m.is = "create" => m.c \in Captures /\ m.by = Owner[m.c]
         /\ m.is = "upload" => m.a \in Attachments
BY DEF OutboxInv, Requested, Creates, Uploads, Outbox!Served

LEMMA RefuseKeeps ==
  ASSUME OutboxInv, NEW m \in net, NEW answer \in {"unauthorized", "verdict", "permanent"},
         Outbox!Refuse(m, answer)
  PROVE  Holds
<1>1. UNCHANGED <<sealing, server, upload>> /\ Outbox!ServerOnly /\ Outbox!Answer(m, answer)
  BY DEF Outbox!Refuse, Outbox!remote
<1>2. Stored' /\ Grows /\ Outbox!AcceptedStep /\ sealing' \subseteq net \cap Creates
  BY <1>1 DEF OutboxInv, Stored, Grows, Outbox!AcceptedStep, Requested
<1> QED BY <1>1, <1>2, ServerKeeps

LEMMA CreateAttachmentKeeps ==
  ASSUME OutboxInv, NEW m \in net, Outbox!CreateAttachment(m) PROVE Holds
<1>1. /\ m.is = "upload" /\ m.a \in Attachments
      /\ UNCHANGED <<sealing, server>> /\ Outbox!ServerOnly
  BY RequestOf DEF Outbox!CreateAttachment
<1>2. CASE upload[m.a] = "gone"
  <2>1. upload' = upload /\ Outbox!Answer(m, "verdict")
    BY <1>2 DEF Outbox!CreateAttachment
  <2>2. Stored' /\ Grows /\ Outbox!AcceptedStep /\ sealing' \subseteq net \cap Creates
    BY <1>1, <2>1 DEF OutboxInv, Stored, Grows, Outbox!AcceptedStep, Requested
  <2> QED BY <1>1, <2>1, <2>2, ServerKeeps
<1>3. CASE upload[m.a] # "gone"
  <2> DEFINE u == IF upload[m.a] = "none" THEN "unbound" ELSE upload[m.a]
  <2>1. upload' = [upload EXCEPT ![m.a] = u] /\ Outbox!Answer(m, "ok")
    BY <1>3 DEF Outbox!CreateAttachment
  <2>2. /\ u \in {"unbound", "bound", "gone"}
        /\ upload[m.a] # "none" => u = upload[m.a]
    BY <1>1 DEF OutboxInv, Stored
  <2> HIDE DEF u
  <2>3. /\ upload' \in [Attachments -> {"none", "unbound", "bound", "gone"}]
        /\ \A a \in Attachments : upload[a] # "none" => upload'[a] = upload[a]
        /\ upload'[m.a] # "none"
    BY <1>1, <2>1, <2>2 DEF OutboxInv, Stored
  <2>4. Stored' /\ Grows /\ Outbox!AcceptedStep /\ sealing' \subseteq net \cap Creates
    <3>1. \A c \in Captures : Accepted(server'[c], upload', c)
      BY <1>1, <2>3 DEF OutboxInv, Stored, Accepted, Outbox!AttachmentsOf
    <3> QED BY <1>1, <2>3, <3>1 DEF OutboxInv, Stored, Grows, Outbox!AcceptedStep, Requested
  <2> QED BY <1>1, <2>1, <2>3, <2>4, ServerKeeps
<1> QED BY <1>2, <1>3

LEMMA FindExistingKeeps ==
  ASSUME OutboxInv, NEW m \in net, Outbox!FindExisting(m) PROVE Holds
<1>1. /\ m.is = "create" /\ m \in Creates
      /\ UNCHANGED <<server, upload>> /\ Outbox!ServerOnly
  BY DEF Outbox!FindExisting, OutboxInv, Requested, Creates, Uploads
<1>2. Stored' /\ Grows /\ Outbox!AcceptedStep
  BY <1>1 DEF OutboxInv, Stored, Grows, Outbox!AcceptedStep
<1>3. sealing' \subseteq net \cap Creates
  BY <1>1 DEF OutboxInv, Requested, Outbox!FindExisting
<1>4. CASE Outbox!Replayable(m)
  <2>1. Outbox!Answer(m, "ok") /\ server'[m.c].is # "none"
    BY <1>1, <1>4 DEF Outbox!FindExisting, Outbox!Replayable
  <2> QED BY <1>1, <1>2, <1>3, <2>1, ServerKeeps
<1>5. CASE ~Outbox!Replayable(m)
  BY <1>1, <1>2, <1>3, <1>5, ServerKeeps DEF Outbox!FindExisting
<1> QED BY <1>4, <1>5

LEMMA AcceptKeeps ==
  ASSUME OutboxInv, NEW m \in net, m.is = "create", server[m.c].is = "none",
         Outbox!Unbound(m.c), Outbox!Accept(m)
  PROVE  Stored' /\ Grows /\ Outbox!AcceptedStep /\ server'[m.c].is # "none"
<1>1. m.c \in Captures /\ m.by = Owner[m.c]
  BY RequestOf
<1>2. server' = [server EXCEPT ![m.c] = [is |-> "stored", by |-> m.by]]
  BY DEF Outbox!Accept
<1>3. upload' = [a \in Attachments |-> IF CaptureOf[a] = m.c THEN "bound" ELSE upload[a]]
  BY DEF Outbox!Accept
<1>4. /\ server' \in [Captures -> AtServer] /\ server'[m.c] = [is |-> "stored", by |-> m.by]
      /\ \A c \in Captures \ {m.c} : server'[c] = server[c]
  <2>1. [is |-> "stored", by |-> m.by] \in AtServer
    BY <1>1, OutboxBounds DEF AtServer
  <2> QED BY <1>1, <1>2, <2>1 DEF OutboxInv, Stored
<1>5. /\ upload' \in [Attachments -> {"none", "unbound", "bound", "gone"}]
      /\ \A a \in Attachments : upload'[a] = IF CaptureOf[a] = m.c THEN "bound" ELSE upload[a]
  BY <1>3 DEF OutboxInv, Stored
<1>6. ASSUME NEW c \in Captures PROVE Accepted(server'[c], upload', c)
  <2>1. CASE c = m.c
    BY <1>1, <1>4, <1>5, <2>1 DEF Accepted, Outbox!AttachmentsOf
  <2>2. CASE c # m.c
    BY <1>4, <1>5, <2>2 DEF Accepted, Outbox!AttachmentsOf, OutboxInv, Stored
  <2> QED BY <2>1, <2>2
<1>7. Grows
  BY <1>4, <1>5 DEF Grows
<1>8. Outbox!AcceptedStep
  BY <1>4 DEF Outbox!AcceptedStep
<1> QED BY <1>4, <1>5, <1>6, <1>7, <1>8 DEF Stored

LEMMA CreateCaptureKeeps ==
  ASSUME OutboxInv, NEW m \in sealing, Outbox!CreateCapture(m) PROVE Holds
<1>1. m \in net /\ m.is = "create" /\ sealing' \subseteq net \cap Creates /\ Outbox!ServerOnly
  BY DEF OutboxInv, Requested, Creates, Outbox!CreateCapture
<1>2. CASE server[m.c].is = "none" /\ Outbox!Unbound(m.c) /\ Outbox!Accept(m) /\ Outbox!Answer(m, "ok")
  BY <1>1, <1>2, AcceptKeeps, ServerKeeps
<1>3. CASE UNCHANGED <<server, upload>> /\ Outbox!Answer(m, "permanent")
  <2>1. Stored' /\ Grows /\ Outbox!AcceptedStep
    BY <1>3 DEF OutboxInv, Stored, Grows, Outbox!AcceptedStep
  <2> QED BY <1>1, <1>3, <2>1, ServerKeeps
<1>4. CASE /\ server[m.c].is # "none" /\ UNCHANGED <<server, upload>>
           /\ Outbox!Answer(m, IF Outbox!Replayable(m) THEN "ok" ELSE "verdict")
  <2>1. Stored' /\ Grows /\ Outbox!AcceptedStep
    BY <1>4 DEF OutboxInv, Stored, Grows, Outbox!AcceptedStep
  <2> QED BY <1>1, <1>4, <2>1, ServerKeeps
<1> QED BY <1>2, <1>3, <1>4 DEF Outbox!CreateCapture

LEMMA DeleteCaptureKeeps ==
  ASSUME OutboxInv, NEW c \in Captures, Outbox!DeleteCapture(c) PROVE Holds
<1>1. /\ server[c].is = "stored" /\ server' = [server EXCEPT ![c].is = "deleted"]
      /\ upload' = [a \in Attachments |-> IF CaptureOf[a] = c THEN "gone" ELSE upload[a]]
      /\ UNCHANGED <<session, active, composer, row, uploaded, drain, net, sealing>>
  BY DEF Outbox!DeleteCapture
<1>2. server[c] \in AtServer /\ server \in [Captures -> AtServer]
  BY DEF OutboxInv, Stored
<1>3. /\ server' \in [Captures -> AtServer]
      /\ server'[c] = [server[c] EXCEPT !.is = "deleted"]
      /\ server'[c].is = "deleted" /\ server'[c].by = server[c].by
      /\ \A k \in Captures \ {c} : server'[k] = server[k]
  <2>1. /\ [server[c] EXCEPT !.is = "deleted"] \in AtServer
        /\ [server[c] EXCEPT !.is = "deleted"].is = "deleted"
        /\ [server[c] EXCEPT !.is = "deleted"].by = server[c].by
    BY <1>2 DEF AtServer
  <2> QED BY <1>1, <1>2, <2>1
<1>4. /\ upload' \in [Attachments -> {"none", "unbound", "bound", "gone"}]
      /\ \A a \in Attachments : upload'[a] = IF CaptureOf[a] = c THEN "gone" ELSE upload[a]
  BY <1>1 DEF OutboxInv, Stored
<1>5. ASSUME NEW k \in Captures PROVE Accepted(server'[k], upload', k)
  <2>1. CASE k = c
    BY <1>1, <1>3, <1>4, <2>1 DEF Accepted, Outbox!AttachmentsOf, OutboxInv, Stored
  <2>2. CASE k # c
    BY <1>3, <1>4, <2>2 DEF Accepted, Outbox!AttachmentsOf, OutboxInv, Stored
  <2> QED BY <2>1, <2>2
<1>6. Stored' /\ Grows /\ Outbox!AcceptedStep
  BY <1>1, <1>3, <1>4, <1>5 DEF Stored, Grows, Outbox!AcceptedStep
<1>7. Phoned' /\ Rows' /\ Marked' /\ Requested'
  BY <1>1, <1>6 DEF OutboxInv, Phoned, Rows, Marked, Requested, Grows
<1>8. Drains'
  <2>1. \A p \in Profiles : drain[p] \in Turns =>
          drain[p].c \in Captures /\ drain[p].att \subseteq Attachments
    BY DEF Turns
  <2> QED BY <1>1, <1>6, <2>1 DEF OutboxInv, Drains, Known, Grows
<1>9. Outbox!SettledStep
  BY <1>1 DEF Outbox!SettledStep
<1> QED BY <1>6, <1>7, <1>8, <1>9 DEF OutboxInv, Holds

LEMMA OutboxStepKeeps ==
  ASSUME OutboxInv, Outbox!Next PROVE Holds
<1>1. ASSUME NEW m \in net, Outbox!Serve(m) PROVE Holds
  BY <1>1, CreateAttachmentKeeps, FindExistingKeeps, CreateCaptureKeeps
  DEF Outbox!Serve, Outbox!CreateCapture
<1>2. CASE \E p \in Profiles : Outbox!Compose(p)
  BY <1>2, NoSheetOpens
<1>3. CASE \E p \in Profiles : \/ Outbox!StartOnly(p) \/ Outbox!StartRecovering(p)
                               \/ Outbox!Submit(p) \/ Outbox!GiveUp(p)
  BY <1>3, StartKeeps, SubmitKeeps, GiveUpKeeps
<1>4. CASE \E c \in Captures : \/ Outbox!EnqueueAgain(c) \/ Outbox!RetryFailed(c)
                               \/ Outbox!Lapse(c) \/ Outbox!DeleteCapture(c)
  BY <1>4, EntryStepKeeps, RetryFailedKeeps, DeleteCaptureKeeps
<1>5. CASE \E m \in net, answer \in {"unauthorized", "verdict", "permanent"} :
             Outbox!Refuse(m, answer)
  BY <1>5, RefuseKeeps
<1> QED BY <1>1, <1>2, <1>3, <1>4, <1>5, OutsideStepKeeps DEF Outbox!Next

LEMMA OutboxStutterKeeps ==
  ASSUME OutboxInv, UNCHANGED outboxVars PROVE Holds
BY DEF OutboxInv, Holds, outboxVars, Phoned, Rows, Marked, Drains, Requested, Stored,
       Outbox!AcceptedStep, Outbox!SettledStep

LEMMA OutboxInvSuffices ==
  ASSUME OutboxInv
  PROVE  Outbox!TypeOK /\ Outbox!OnlyUnderItsProfile /\ Outbox!SyncedMeansAccepted
<1>1. Outbox!TypeOK
  <2>1. \A p \in Profiles : composer[p].gen \in 0 .. (0 + 1)
    BY DEF OutboxInv, Phoned, ComposerType
  <2>2. \A c \in Captures : row[c].state \in Outbox!RowStates /\ row[c].attempt \in 0 .. MaxAttempts
    BY DEF OutboxInv, Rows, RowType
  <2>3. \A c \in Captures : server[c].is \in {"none", "stored", "deleted"}
    BY DEF OutboxInv, Stored, AtServer
  <2> QED BY <2>1, <2>2, <2>3 DEF OutboxInv, Phoned, Marked, Requested, Stored, Outbox!TypeOK
<1>2. Outbox!OnlyUnderItsProfile
  BY DEF OutboxInv, Requested, Outbox!OnlyUnderItsProfile
<1>3. Outbox!SyncedMeansAccepted
  <2>1. ASSUME NEW c \in Captures, row[c].state = "synced"
        PROVE  /\ server[c].is # "none" /\ server[c].by = Owner[c]
               /\ \A a \in Outbox!AttachmentsOf(c) : upload[a] \in {"bound", "gone"}
    <3>1. server[c].is \in {"stored", "deleted"}
      BY <2>1 DEF OutboxInv, Rows, Stored, AtServer
    <3> QED BY <3>1 DEF OutboxInv, Stored, Accepted
  <2> QED BY <2>1 DEF OutboxInv, Marked, Outbox!SyncedMeansAccepted
<1> QED BY <1>1, <1>2, <1>3

-----------------------------------------------------------------------------
(* The composer.                                                           *)

Sheets == [gen : 0 .. MaxGeneration + 1, draft : 0 .. MaxGeneration, sheet : 0 .. MaxGeneration,
           saves : SUBSET (1 .. MaxGeneration), sends : SUBSET (Drafts \X (1 .. MaxGeneration))]
Entries == [state : {"none", "pending"}, attempt : 0 .. 1, lapsed : BOOLEAN, gen : 0 .. MaxGeneration]

ComposerTypes ==
  /\ session \in Writers \cup {NoOne} /\ active \subseteq Writers
  /\ composer \in [Writers -> Sheets] /\ row \in [Drafts -> Entries]
  /\ uploaded = {} /\ sealing = {} /\ upload \in [{} -> {"none"}]
  /\ server = [c \in Drafts |-> Composer!Absent]

\* The generation of a text that was sent is over: neither an autosave that is
\* still to come nor another press of the button finds it current.
Spent(c) ==
  row[c].gen # 0 => /\ row[c].gen < composer[Writer[c]].gen
                    /\ row[c].gen # composer[Writer[c]].draft
OwnSends == \A p \in Writers : \A s \in composer[p].sends : Writer[s[1]] = p

ComposerInv ==
  /\ ComposerTypes /\ OwnSends /\ Composer!SentOnce
  /\ \A c \in Drafts : Spent(c)

LEMMA ComposerBounds ==
  Writer \in [Drafts -> Writers] /\ NoOne \notin Writers /\ MaxGeneration \in Nat
BY PhoneAssumption DEF Composer!OutboxAssumption

LEMMA ComposerBegins ==
  ASSUME Composer!Init PROVE ComposerInv
<1>1. Composer!NoRow \in Entries /\ Composer!NoRow.gen = 0
  BY ComposerBounds DEF Composer!NoRow, Entries
<1>2. Composer!NoDraft \in Sheets /\ Composer!NoDraft.sends = {}
  BY ComposerBounds DEF Composer!NoDraft, Sheets
<1>3. ComposerTypes
  BY <1>1, <1>2 DEF Composer!Init, ComposerTypes
<1>4. OwnSends
  BY <1>2 DEF Composer!Init, OwnSends
<1>5. \A c \in Drafts : row[c].gen = 0
  BY <1>1 DEF Composer!Init
<1> QED BY <1>3, <1>4, <1>5 DEF ComposerInv, Spent, Composer!SentOnce

\* The composer of p becomes k and no row changes: a generation never goes back,
\* and a draft is saved for the current one only.
LEMMA SheetKeeps ==
  ASSUME ComposerInv, NEW p \in Writers, NEW k \in Sheets, Composer!Composer(p, k), row' = row,
         k.gen >= composer[p].gen, k.draft \in {0, composer[p].draft, composer[p].gen},
         \A s \in k.sends : Writer[s[1]] = p
  PROVE  ComposerInv'
<1>1. /\ composer' = [composer EXCEPT ![p] = k]
      /\ UNCHANGED <<session, active, row, uploaded, drain, net, sealing, server, upload>>
  BY DEF Composer!Composer, Composer!remote
<1>2. /\ composer' \in [Writers -> Sheets] /\ composer'[p] = k
      /\ \A q \in Writers \ {p} : composer'[q] = composer[q]
  BY <1>1 DEF ComposerInv, ComposerTypes
<1>3. ComposerTypes'
  BY <1>1, <1>2 DEF ComposerInv, ComposerTypes
<1>4. OwnSends'
  BY <1>2 DEF ComposerInv, OwnSends
<1>5. ASSUME NEW c \in Drafts PROVE Spent(c)'
  <2>1. CASE Writer[c] = p
    <3>1. /\ k.gen \in Nat /\ composer[p].gen \in Nat /\ row[c].gen \in Nat
      BY ComposerBounds DEF ComposerInv, ComposerTypes, Sheets, Entries
    <3> QED BY <1>1, <1>2, <2>1, <3>1 DEF ComposerInv, Spent
  <2>2. CASE Writer[c] # p
    BY <1>1, <1>2, <2>2, ComposerBounds DEF ComposerInv, Spent
  <2> QED BY <2>1, <2>2
<1>6. Composer!SentOnce'
  BY <1>1 DEF ComposerInv, Composer!SentOnce
<1> QED BY <1>3, <1>4, <1>5, <1>6 DEF ComposerInv

LEMMA OpenSheetKeeps ==
  ASSUME ComposerInv, NEW p \in Writers, Composer!OpenSheet(p) PROVE ComposerInv'
<1> DEFINE g == composer[p].gen
           k == [composer[p] EXCEPT !.gen = g + 1, !.sheet = g + 1]
<1>1. composer[p] \in Sheets /\ g < MaxGeneration /\ Composer!Composer(p, k) /\ row' = row
  BY DEF ComposerInv, ComposerTypes, Composer!OpenSheet
<1>2. g \in Nat /\ g + 1 \in 0 .. MaxGeneration /\ g + 1 \in 0 .. MaxGeneration + 1
  BY <1>1, ComposerBounds DEF Sheets
<1>3. k \in Sheets /\ k.gen = g + 1 /\ k.draft = composer[p].draft /\ k.sends = composer[p].sends
  BY <1>1, <1>2 DEF Sheets
<1> HIDE DEF k
<1> QED BY <1>1, <1>2, <1>3, SheetKeeps DEF ComposerInv, OwnSends

LEMMA AutosaveKeeps ==
  ASSUME ComposerInv, NEW p \in Writers, Composer!Autosave(p) PROVE ComposerInv'
<1> DEFINE k == [composer[p] EXCEPT !.saves = composer[p].saves \cup {composer[p].sheet}]
<1>1. composer[p] \in Sheets /\ composer[p].sheet # 0 /\ Composer!Composer(p, k) /\ row' = row
  BY DEF ComposerInv, ComposerTypes, Composer!Autosave
<1>2. composer[p].sheet \in 1 .. MaxGeneration /\ composer[p].gen \in Nat
  BY <1>1, ComposerBounds DEF Sheets
<1>3. k \in Sheets /\ k.gen = composer[p].gen /\ k.draft = composer[p].draft
      /\ k.sends = composer[p].sends
  BY <1>1, <1>2 DEF Sheets
<1> HIDE DEF k
<1> QED BY <1>1, <1>2, <1>3, SheetKeeps DEF ComposerInv, OwnSends

LEMMA SaveDraftKeeps ==
  ASSUME ComposerInv, NEW p \in Writers, NEW g \in 1 .. MaxGeneration, Composer!SaveDraft(p, g)
  PROVE  ComposerInv'
<1>1. PICK text \in {0, g} :
        Composer!Composer(p, [composer[p] EXCEPT !.saves = composer[p].saves \ {g},
                                !.draft = IF composer[p].gen = g THEN text ELSE composer[p].draft])
  BY DEF Composer!SaveDraft
<1> DEFINE t == IF composer[p].gen = g THEN text ELSE composer[p].draft
           k == [composer[p] EXCEPT !.saves = composer[p].saves \ {g}, !.draft = t]
<1>2. composer[p] \in Sheets /\ Composer!Composer(p, k) /\ row' = row
  BY <1>1 DEF ComposerInv, ComposerTypes, Composer!SaveDraft
<1>3. t \in 0 .. MaxGeneration /\ t \in {0, composer[p].draft, composer[p].gen}
      /\ composer[p].gen \in Nat
  BY <1>2, ComposerBounds DEF Sheets
<1> HIDE DEF t
<1>4. k \in Sheets /\ k.gen = composer[p].gen /\ k.draft = t /\ k.sends = composer[p].sends
  BY <1>2, <1>3 DEF Sheets
<1> HIDE DEF k
<1> QED BY <1>2, <1>3, <1>4, SheetKeeps DEF ComposerInv, OwnSends

LEMMA DiscardKeeps ==
  ASSUME ComposerInv, NEW p \in Writers, Composer!Discard(p) PROVE ComposerInv'
<1> DEFINE g == composer[p].gen
<1>1. composer[p] \in Sheets /\ composer[p].sheet # 0 /\ row' = row
  BY DEF ComposerInv, ComposerTypes, Composer!Discard
<1>2. g \in Nat
  BY <1>1, ComposerBounds DEF Sheets
<1>3. CASE g = composer[p].sheet
  <2> DEFINE k == [composer[p] EXCEPT !.sheet = 0, !.gen = g + 1, !.draft = 0]
  <2>1. Composer!Composer(p, k)
    BY <1>3 DEF Composer!Discard
  <2>2. g + 1 \in 0 .. MaxGeneration + 1 /\ 0 \in 0 .. MaxGeneration
    BY <1>1, <1>2, <1>3, ComposerBounds DEF Sheets
  <2>3. k \in Sheets /\ k.gen = g + 1 /\ k.draft = 0 /\ k.sends = composer[p].sends
    BY <1>1, <2>2 DEF Sheets
  <2> HIDE DEF k
  <2> QED BY <1>1, <1>2, <2>1, <2>3, SheetKeeps DEF ComposerInv, OwnSends
<1>4. CASE g # composer[p].sheet
  <2> DEFINE k == [composer[p] EXCEPT !.sheet = 0]
  <2>1. Composer!Composer(p, k)
    BY <1>4 DEF Composer!Discard
  <2>2. 0 \in 0 .. MaxGeneration
    BY ComposerBounds
  <2>3. k \in Sheets /\ k.gen = g /\ k.draft = composer[p].draft /\ k.sends = composer[p].sends
    BY <1>1, <2>2 DEF Sheets
  <2> HIDE DEF k
  <2> QED BY <1>1, <1>2, <2>1, <2>3, SheetKeeps DEF ComposerInv, OwnSends
<1> QED BY <1>3, <1>4

LEMMA SendKeeps ==
  ASSUME ComposerInv, NEW p \in Writers, NEW c \in Drafts, Composer!Send(p, c) PROVE ComposerInv'
<1> DEFINE s == <<c, composer[p].sheet>>
           k == [composer[p] EXCEPT !.sends = composer[p].sends \cup {s}]
<1>1. /\ composer[p] \in Sheets /\ composer[p].sheet # 0 /\ Writer[c] = p
      /\ Composer!Composer(p, k) /\ row' = row
  BY DEF ComposerInv, ComposerTypes, Composer!Send
<1>2. s \in Drafts \X (1 .. MaxGeneration) /\ s[1] = c /\ composer[p].gen \in Nat
  BY <1>1, ComposerBounds DEF Sheets
<1> HIDE DEF s
<1>3. k \in Sheets /\ k.gen = composer[p].gen /\ k.draft = composer[p].draft
      /\ k.sends = composer[p].sends \cup {s}
  BY <1>1, <1>2 DEF Sheets
<1> HIDE DEF k
<1> QED BY <1>1, <1>2, <1>3, SheetKeeps DEF ComposerInv, OwnSends

LEMMA EnqueueKeeps ==
  ASSUME ComposerInv, NEW p \in Writers, NEW c \in Drafts, NEW g \in 1 .. MaxGeneration,
         Composer!Enqueue(p, c, g)
  PROVE  ComposerInv'
<1> DEFINE s == <<c, g>>
<1>1. /\ composer[p] \in Sheets /\ row \in [Drafts -> Entries]
      /\ s \in composer[p].sends /\ Writer[c] = p /\ composer[p].gen \in Nat /\ g \in Nat /\ g # 0
  BY ComposerBounds DEF ComposerInv, ComposerTypes, Composer!Enqueue, Sheets, OwnSends
<1>2. CASE ~(composer[p].gen = g /\ row[c].state = "none")
  <2> DEFINE k == [composer[p] EXCEPT !.sends = composer[p].sends \ {s}]
  <2>1. row' = row /\ Composer!Composer(p, k)
    BY <1>2 DEF Composer!Enqueue
  <2>2. k \in Sheets /\ k.gen = composer[p].gen /\ k.draft = composer[p].draft
        /\ k.sends \subseteq composer[p].sends
    BY <1>1 DEF Sheets
  <2> HIDE DEF k
  <2> QED BY <1>1, <2>1, <2>2, SheetKeeps DEF ComposerInv, OwnSends
<1>3. CASE composer[p].gen = g /\ row[c].state = "none"
  <2> DEFINE k == [composer[p] EXCEPT !.sends = composer[p].sends \ {s}, !.draft = 0, !.gen = g + 1]
             r == [Composer!NoRow EXCEPT !.state = "pending", !.gen = g]
  <2>1. /\ row' = [row EXCEPT ![c] = r] /\ composer' = [composer EXCEPT ![p] = k]
        /\ UNCHANGED <<session, active, uploaded, drain, net, sealing, server, upload>>
    BY <1>3 DEF Composer!Enqueue, Composer!Composer, Composer!remote
  <2>2. k \in Sheets /\ k.gen = g + 1 /\ k.draft = 0 /\ k.sends \subseteq composer[p].sends
    <3>1. g + 1 \in 0 .. MaxGeneration + 1 /\ 0 \in 0 .. MaxGeneration
      BY ComposerBounds
    <3> QED BY <1>1, <3>1 DEF Sheets
  <2>3. r \in Entries /\ r.gen = g
    <3>1. Composer!NoRow \in Entries
      BY ComposerBounds DEF Composer!NoRow, Entries
    <3>2. \A n \in Entries : LET q == [n EXCEPT !.state = "pending", !.gen = g] IN
                             q \in Entries /\ q.gen = g
      <4>1. g \in 0 .. MaxGeneration
        BY ComposerBounds
      <4> QED BY <4>1 DEF Entries
    <3> QED BY <3>1, <3>2
  <2> HIDE DEF k, r
  <2>4. /\ composer' \in [Writers -> Sheets] /\ composer'[p] = k
        /\ \A q \in Writers \ {p} : composer'[q] = composer[q]
    BY <2>1, <2>2 DEF ComposerInv, ComposerTypes
  <2>5. /\ row' \in [Drafts -> Entries] /\ row'[c] = r
        /\ \A d \in Drafts \ {c} : row'[d] = row[d]
    BY <1>1, <2>1, <2>3
  <2>6. ComposerTypes'
    BY <2>1, <2>4, <2>5 DEF ComposerInv, ComposerTypes
  <2>7. OwnSends'
    BY <2>2, <2>4 DEF ComposerInv, OwnSends
  <2>8. ASSUME NEW d \in Drafts PROVE Spent(d)'
    <3>1. row[d].gen \in Nat
      BY <1>1, ComposerBounds DEF Entries
    <3>2. CASE d = c
      BY <1>1, <2>2, <2>3, <2>4, <2>5, <3>2 DEF Spent
    <3>3. CASE d # c /\ Writer[d] = p
      BY <1>1, <1>3, <2>2, <2>4, <2>5, <3>1, <3>3 DEF Spent, ComposerInv
    <3>4. CASE d # c /\ Writer[d] # p
      BY <2>4, <2>5, <3>4, ComposerBounds DEF Spent, ComposerInv
    <3> QED BY <3>2, <3>3, <3>4
  <2>9. Composer!SentOnce'
    <3>1. \A d \in Drafts \ {c} : row[d].gen # 0 /\ Writer[d] = p => row[d].gen < g
      BY <1>3 DEF ComposerInv, Spent
    <3>2. \A d \in Drafts : row[d].gen \in Nat
      BY <1>1, ComposerBounds DEF Entries
    <3>3. \A d \in Drafts \ {c} : row'[d].gen # 0 /\ Writer[d] = Writer[c] => row'[d].gen # row'[c].gen
      BY <1>1, <2>3, <2>5, <3>1, <3>2
    <3>4. \A d, e \in Drafts \ {c} : row'[d].gen # 0 /\ Writer[d] = Writer[e]
                                       /\ row'[d].gen = row'[e].gen => d = e
      BY <2>5 DEF ComposerInv, Composer!SentOnce
    <3> QED BY <3>3, <3>4 DEF Composer!SentOnce
  <2> QED BY <2>6, <2>7, <2>8, <2>9 DEF ComposerInv
<1> QED BY <1>2, <1>3

LEMMA ComposerEnqueueAgainKeeps ==
  ASSUME ComposerInv, NEW c \in Drafts, Composer!EnqueueAgain(c) PROVE ComposerInv'
<1> DEFINE r == [Composer!NoRow EXCEPT !.state = "pending"]
<1>1. /\ row' = [row EXCEPT ![c] = r]
      /\ UNCHANGED <<session, active, composer, uploaded, drain, net, sealing, server, upload>>
  BY DEF Composer!EnqueueAgain, Composer!remote
<1>2. r \in Entries /\ r.gen = 0
  <2>1. Composer!NoRow \in Entries /\ Composer!NoRow.gen = 0
    BY ComposerBounds DEF Composer!NoRow, Entries
  <2>2. \A n \in Entries : LET q == [n EXCEPT !.state = "pending"] IN q \in Entries /\ q.gen = n.gen
    BY DEF Entries
  <2> QED BY <2>1, <2>2
<1> HIDE DEF r
<1>3. /\ row' \in [Drafts -> Entries] /\ row'[c] = r
      /\ \A d \in Drafts \ {c} : row'[d] = row[d]
  BY <1>1, <1>2 DEF ComposerInv, ComposerTypes
<1>4. ComposerTypes' /\ OwnSends'
  BY <1>1, <1>3 DEF ComposerInv, ComposerTypes, OwnSends
<1>5. \A d \in Drafts : Spent(d)'
  BY <1>1, <1>2, <1>3 DEF ComposerInv, Spent
<1>6. Composer!SentOnce'
  BY <1>2, <1>3 DEF ComposerInv, Composer!SentOnce
<1> QED BY <1>4, <1>5, <1>6 DEF ComposerInv

LEMMA ComposerOutsideKeeps ==
  ASSUME ComposerInv, Composer!SignOut \/ Composer!Crash \/ \E p \in Writers : Composer!SignIn(p)
  PROVE  ComposerInv'
<1>1. CASE Composer!Crash
  <2> DEFINE K(p) == [composer[p] EXCEPT !.sheet = 0, !.saves = {}, !.sends = {}]
  <2>1. ASSUME NEW p \in Writers
        PROVE  /\ K(p) \in Sheets /\ K(p).sends = {} /\ K(p).gen = composer[p].gen
               /\ K(p).draft = composer[p].draft
    <3>1. composer[p] \in Sheets /\ 0 \in 0 .. MaxGeneration
      BY ComposerBounds DEF ComposerInv, ComposerTypes
    <3> QED BY <3>1 DEF Sheets
  <2>2. /\ composer' = [p \in Writers |-> K(p)] /\ active' = {}
        /\ UNCHANGED <<session, row, uploaded, net, sealing, server, upload>>
    BY <1>1 DEF Composer!Crash, Composer!remote
  <2> HIDE DEF K
  <2>3. ComposerTypes' /\ OwnSends'
    BY <2>1, <2>2 DEF ComposerInv, ComposerTypes, OwnSends
  <2>4. \A c \in Drafts : Spent(c)'
    BY <2>1, <2>2, ComposerBounds DEF ComposerInv, Spent
  <2>5. Composer!SentOnce'
    BY <2>2 DEF ComposerInv, Composer!SentOnce
  <2> QED BY <2>3, <2>4, <2>5 DEF ComposerInv
<1>2. CASE Composer!SignOut \/ \E p \in Writers : Composer!SignIn(p)
  <2>1. /\ session' \in Writers \cup {NoOne} /\ active' \subseteq active
        /\ UNCHANGED <<composer, row, uploaded, net, sealing, server, upload>>
    BY <1>2 DEF Composer!SignOut, Composer!SignIn, Composer!remote
  <2> QED BY <2>1 DEF ComposerInv, ComposerTypes, OwnSends, Spent, Composer!SentOnce
<1> QED BY <1>1, <1>2

LEMMA ComposerStepKeeps ==
  ASSUME ComposerInv, Composer!ComposeNext PROVE ComposerInv'
<1>1. ASSUME NEW p \in Writers, Composer!Compose(p) PROVE ComposerInv'
  BY <1>1, OpenSheetKeeps, AutosaveKeeps, DiscardKeeps, SaveDraftKeeps, SendKeeps, EnqueueKeeps
  DEF Composer!Compose
<1> QED BY <1>1, ComposerOutsideKeeps, ComposerEnqueueAgainKeeps DEF Composer!ComposeNext

LEMMA ComposerStutterKeeps ==
  ASSUME ComposerInv, UNCHANGED outboxVars PROVE ComposerInv'
BY DEF ComposerInv, outboxVars, ComposerTypes, OwnSends, Spent, Composer!SentOnce

LEMMA ComposerInvSuffices ==
  ASSUME ComposerInv PROVE Composer!TypeOK /\ Composer!SentOnce /\ Composer!DraftNeverReturns
<1>1. Composer!TypeOK
  <2>1. \A p \in Writers : composer[p].gen \in 0 .. (MaxGeneration + 1)
    BY DEF ComposerInv, ComposerTypes, Sheets
  <2>2. \A c \in Drafts : row[c].state \in Composer!RowStates /\ row[c].attempt \in 0 .. 1
    BY DEF ComposerInv, ComposerTypes, Entries, Composer!RowStates, Composer!Due
  <2>3. \A c \in Drafts : server[c].is = "none"
    BY DEF ComposerInv, ComposerTypes, Composer!Absent
  <2> QED BY <2>1, <2>2, <2>3 DEF ComposerInv, ComposerTypes, Composer!TypeOK
<1> QED BY <1>1 DEF ComposerInv, Spent, Composer!DraftNeverReturns

-----------------------------------------------------------------------------
(* The phone.                                                              *)

PhoneInv ==
  /\ part = "auth" => AuthInv
  /\ part = "search" => SearchInv
  /\ part = "outbox" => OutboxInv
  /\ part = "composer" => ComposerInv

LEMMA PhoneBegins ==
  ASSUME Init PROVE PhoneInv
BY AuthBegins, SearchBegins, OutboxBegins, ComposerBegins DEF Init, PhoneInv

Once == part = "outbox" => Outbox!AcceptedStep /\ Outbox!SettledStep

LEMMA PhoneStep == PhoneInv /\ [Next]_vars => PhoneInv' /\ Once
<1> SUFFICES ASSUME PhoneInv, [Next]_vars PROVE PhoneInv' /\ Once
  OBVIOUS
<1>1. part' = part
  BY DEF Next, vars
<1>2. CASE part = "auth"
  <2>1. AuthInv /\ (Auth!Next \/ UNCHANGED authVars)
    BY <1>2 DEF PhoneInv, Next, vars
  <2>2. AuthInv'
    BY <2>1, AuthStepKeeps, AuthStutterKeeps
  <2> QED BY <1>1, <1>2, <2>2 DEF PhoneInv, Once
<1>3. CASE part = "search"
  <2>1. SearchInv /\ (Search!Next \/ UNCHANGED searchVars)
    BY <1>3 DEF PhoneInv, Next, vars
  <2>2. SearchInv'
    BY <2>1, SearchStepKeeps, SearchStutterKeeps
  <2> QED BY <1>1, <1>3, <2>2 DEF PhoneInv, Once
<1>4. CASE part = "outbox"
  <2>1. OutboxInv /\ (Outbox!Next \/ UNCHANGED outboxVars)
    BY <1>4 DEF PhoneInv, Next, vars
  <2>2. Holds
    BY <2>1, OutboxStepKeeps, OutboxStutterKeeps
  <2> QED BY <1>1, <1>4, <2>2 DEF PhoneInv, Once, Holds
<1>5. CASE part = "composer"
  <2>1. ComposerInv /\ (Composer!ComposeNext \/ UNCHANGED outboxVars)
    BY <1>5 DEF PhoneInv, Next, vars
  <2>2. ComposerInv'
    BY <2>1, ComposerStepKeeps, ComposerStutterKeeps
  <2> QED BY <1>1, <1>5, <2>2 DEF PhoneInv, Once
<1>6. CASE part \notin {"auth", "search", "outbox", "composer"}
  BY <1>1, <1>6 DEF PhoneInv, Once
<1> QED BY <1>2, <1>3, <1>4, <1>5, <1>6

LEMMA PhoneAlways == Spec => []PhoneInv
<1>1. Init => PhoneInv
  BY PhoneBegins
<1> QED BY <1>1, PhoneStep, PTL DEF Spec

\* Every variable of the phone has the values its component gives it.
THEOREM PhoneTypes == Spec => []TypeOK
<1>1. PhoneInv => TypeOK
  BY AuthInvSuffices, SearchInvSuffices, OutboxInvSuffices, ComposerInvSuffices
  DEF PhoneInv, TypeOK
<1> QED BY PhoneAlways, <1>1, PTL

\* The session is the owner's throughout (AuthSessionManager, APIClient and the
\* sign-out barrier of AppModel), whatever accounts, requests, refreshes and
\* losses there are.
THEOREM SessionOfTheOwner == Spec => []SessionIsTheOwners
<1>1. PhoneInv => SessionIsTheOwners
  BY AuthInvSuffices DEF PhoneInv, SessionIsTheOwners
<1> QED BY PhoneAlways, <1>1, PTL

\* The list the phone shows is that of the search asked for last, and whole when
\* it says there is no more (AppModel.search, loadMoreSearch and the pages of
\* the server), for every number of notes, of results on a page and of edits.
THEOREM ListOfTheSearch == Spec => []ListIsWhole
<1>1. PhoneInv => ListIsWhole
  BY SearchInvSuffices DEF PhoneInv, ListIsWhole
<1> QED BY PhoneAlways, <1>1, PTL

\* A capture leaves the phone only under the account it was written in, and what
\* the phone shows as synced the server holds (OutboxSyncEngine, LocalDatabase
\* and the capture handlers), for every number of accounts, captures and
\* attachments and however many attempts are allowed.
THEOREM DeliveredToItsOwner == Spec => []DeliveredUnderItsProfile
<1>1. PhoneInv => DeliveredUnderItsProfile
  BY OutboxInvSuffices DEF PhoneInv, DeliveredUnderItsProfile
<1> QED BY PhoneAlways, <1>1, PTL

\* However often it is sent, a capture is accepted once and is not brought back
\* once deleted, and its entry stays settled until the owner retries it
\* (create_encrypted_capture_with_job, claimNext, retryFailedCapture).
THEOREM CaptureAcceptedOnce == Spec => AcceptedOnce
<1>1. Spec => [][Once]_vars
  BY PhoneAlways, PhoneStep, PTL DEF Spec
<1> QED BY <1>1 DEF AcceptedOnce, Once

\* One sheet of the composer sends one capture, and no autosave brings back the
\* draft of a text that was sent (saveComposerDraft, enqueue), for every number
\* of accounts, captures and sheets.
THEOREM CaptureOfItsSheet == Spec => []OneSheetOneCapture
<1>1. PhoneInv => OneSheetOneCapture
  BY ComposerInvSuffices DEF PhoneInv, OneSheetOneCapture
<1> QED BY PhoneAlways, <1>1, PTL
=============================================================================
