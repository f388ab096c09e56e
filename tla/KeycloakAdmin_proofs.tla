------------------------- MODULE KeycloakAdmin_proofs -------------------------
(***************************************************************************)
(* Proofs about KeycloakAdmin.  The service never takes a token for good   *)
(* for longer than a timeout after Keycloak stops taking it, and a call    *)
(* that keeps its headers has just had them taken.                         *)
(***************************************************************************)
EXTENDS KeycloakAdmin, TLAPS

(* Where the clock of the service may be behind that of Keycloak.          *)
ExpiryLags == expiry <= token + Latency

(* A request is awaited no longer than its timeout.                        *)
Awaited == \A c \in Callers : calls[c] # Idle =>
             calls[c].at <= now /\ now <= calls[c].at + Latency

(* A call keeps the headers of its first request.                          *)
Kept == \A c \in Callers : (calls[c] # Idle /\ calls[c].pc = "request" /\ calls[c].i = 1) =>
          calls[c].held = calls[c].headers

InRange == \A c \in Callers : calls[c] # Idle => calls[c].i <= Len(Requests[calls[c].op])

AdminInv == TypeOK /\ ExpiryLags /\ Awaited /\ Kept /\ InRange /\ TokenStaleness

-----------------------------------------------------------------------------
(* No call makes more than three requests, and only getUser's is third.    *)
LEMMA RequestsOf ==
  ASSUME NEW op \in DOMAIN Requests
  PROVE  /\ Len(Requests[op]) \in 1..3
         /\ Len(Requests[op]) = 3 => Requests[op][3] = "get"
  BY DEF Requests

LEMMA TimesAreNumbers ==
  ASSUME KeycloakAssumption
  PROVE  \A a : (a \in 0..MaxTime => a \in Nat /\ a \in Token) /\ (a \in Token => a \in Nat)
  BY DEF KeycloakAssumption, Token

(* What one call looks like when it is good, at the time t.                *)
Good(k, t) == /\ k \in Call
              /\ k.i <= Len(Requests[k.op])
              /\ k.at <= t /\ t <= k.at + Latency
              /\ k.pc = "request" => k.at < k.headers + Latency
              /\ k.pc = "request" /\ k.i = 1 => k.held = k.headers

LEMMA GoodCalls ==
  ASSUME AdminInv, NEW c \in Callers, calls[c] # Idle
  PROVE  Good(calls[c], now)
  BY DEF AdminInv, TypeOK, Awaited, Kept, InRange, TokenStaleness, Good

LEMMA SendFields ==
  ASSUME KeycloakAssumption, NEW k \in Call, NEW h \in Token, now \in 0..MaxTime
  PROVE  /\ Send(k, h) \in Call
         /\ Send(k, h).pc = "request" /\ Send(k, h).at = now /\ Send(k, h).headers = h
         /\ Send(k, h).i = k.i /\ Send(k, h).op = k.op
         /\ k.i = 1 => Send(k, h).held = h
<1> DEFINE m == [[[k EXCEPT !.pc = "request"] EXCEPT !.at = now] EXCEPT !.headers = h]
<1>1. /\ m \in Call /\ m.pc = "request" /\ m.at = now /\ m.headers = h
      /\ m.i = k.i /\ m.op = k.op /\ m.held \in Token
  BY DEF Call
<1>2. Send(k, h) = [m EXCEPT !.held = IF k.i = 1 THEN h ELSE @]
  BY DEF Send
<1> HIDE DEF m
<1>3. CASE k.i = 1
  <2>1. Send(k, h) = [m EXCEPT !.held = h]
    BY <1>2, <1>3
  <2> QED
    BY <1>1, <2>1 DEF Call
<1>4. CASE k.i # 1
  <2>1. Send(k, h) = m
    BY <1>1, <1>2, <1>4 DEF Call
  <2> QED
    BY <1>1, <1>4, <2>1
<1> QED
  BY <1>3, <1>4

(* The sum of two times, kept from the provers' types.                     *)
LEMMA Sums ==
  ASSUME NEW a \in Nat, NEW b \in Nat, NEW c \in Nat, NEW l \in Nat,
         a <= b + l, b < c
  PROVE  a < c + l
  OBVIOUS

LEMMA NextOfThree ==
  ASSUME NEW a \in 1..3, NEW n \in 1..3, a <= n, a # n
  PROVE  a + 1 \in 1..3 /\ a + 1 <= n
  OBVIOUS

LEMMA SendGood ==
  ASSUME KeycloakAssumption, NEW k \in Call, NEW h \in Token, now \in 0..MaxTime,
         k.i <= Len(Requests[k.op]), now < h + Latency
  PROVE  Good(Send(k, h), now)
<1>1. now <= now /\ now <= now + Latency
  BY DEF KeycloakAssumption
<1> QED
  BY <1>1, SendFields DEF Good

(* Headers that are got now are good for what the lag allows.              *)
LEMMA HeadersGood ==
  ASSUME KeycloakAssumption, TypeOK, ExpiryLags, NEW k \in Call, k.i <= Len(Requests[k.op])
  PROVE  Good(GetAdminHeaders(k), now)
<1>1. now \in 0..MaxTime /\ now \in Nat /\ token \in Token /\ token \in Nat /\ expiry \in Nat /\ Latency \in Nat
  BY TimesAreNumbers DEF TypeOK, KeycloakAssumption
<1>2. CASE now < expiry
  <2>1. now < token + Latency
    BY <1>1, <1>2 DEF ExpiryLags
  <2>2. GetAdminHeaders(k) = Send(k, token)
    BY <1>2 DEF GetAdminHeaders
  <2> QED
    BY <1>1, <2>1, <2>2, SendGood
<1>3. CASE ~(now < expiry)
  <2> DEFINE m == [op |-> k.op, user |-> k.user, field |-> k.field, n |-> k.n, i |-> k.i,
                   pc |-> "token", at |-> now, held |-> k.held, headers |-> k.headers,
                   read |-> k.read]
  <2>1. GetAdminHeaders(k) = m
    BY <1>3 DEF GetAdminHeaders, Call
  <2>2. m \in Call
    BY <1>1 DEF Call
  <2>3. now <= now /\ now <= now + Latency
    BY <1>1
  <2> QED
    BY <2>1, <2>2, <2>3 DEF Good
<1> QED
  BY <1>2, <1>3

(* The first request, or the one after a good one.                         *)
LEMMA ProceedGood ==
  ASSUME KeycloakAssumption, TypeOK, ExpiryLags, NEW k \in Call, k.i <= Len(Requests[k.op]),
         k.i = 2 => now < k.held + Latency
  PROVE  Good(Proceed(k), now)
<1>1. CASE k.i = 1 \/ Request(k) = "get"
  BY <1>1, HeadersGood DEF Proceed
<1>2. CASE ~(k.i = 1 \/ Request(k) = "get")
  <2>1. k.op \in DOMAIN Requests /\ k.i \in 1..3 /\ k.held \in Token
    BY DEF Call
  <2>2. k.i # 3
    BY <1>2, <2>1, RequestsOf DEF Request
  <2>3. k.i = 2
    BY <1>2, <2>1, <2>2
  <2>4. Proceed(k) = Send(k, k.held) /\ now \in 0..MaxTime
    BY <1>2 DEF Proceed, TypeOK
  <2> QED
    BY <2>1, <2>3, <2>4, SendGood
<1> QED
  BY <1>1, <1>2

-----------------------------------------------------------------------------
(* A step that makes good calls of the calls it changes, keeps the clock   *)
(* and the token or moves them with their lag.                             *)
LEMMA CallsGood ==
  ASSUME TypeOK', ExpiryLags',
         \A c \in Callers : calls'[c] # Idle => Good(calls'[c], now')
  PROVE  AdminInv'
<1>1. Awaited' /\ Kept' /\ InRange' /\ TokenStaleness'
  BY DEF Good, Awaited, Kept, InRange, TokenStaleness
<1> QED
  BY <1>1 DEF AdminInv

LEMMA StartStep ==
  ASSUME KeycloakAssumption, AdminInv, NEW c \in Callers, NEW op \in DOMAIN Requests,
         NEW u \in Users, NEW f \in Fields, Start(c, op, u, f)
  PROVE  AdminInv'
<1> DEFINE k == [op |-> op, user |-> u, field |-> f, n |-> made + 1, i |-> 1, pc |-> "token",
                 at |-> now, held |-> 0, headers |-> 0, read |-> NoUser]
<1>1. made + 1 \in 1..MaxCalls /\ now \in 0..MaxTime /\ 0 \in Token /\ NoUser \in Profile
  BY DEF KeycloakAssumption, AdminInv, TypeOK, Start, Token, NoUser, Profile
<1>2. k \in Call /\ k.i = 1 /\ k.op = op
  BY <1>1 DEF Call
<1>3. calls' = [calls EXCEPT ![c] = Proceed(k)]
  BY DEF Start
<1> HIDE DEF k
<1>4. k.i <= Len(Requests[k.op])
  <2>1. 1 <= Len(Requests[op])
    BY RequestsOf, SMTT(30)
  <2> QED
    BY <1>2, <2>1, Zenon
<1>5. Good(Proceed(k), now)
  BY <1>2, <1>4, ProceedGood DEF AdminInv
<1>6. UNCHANGED <<now, token, expiry, profile, wrote>> /\ made' = made + 1 /\ clean' \subseteq clean
  BY DEF Start
<1>7. \A d \in Callers : calls'[d] # Idle => Good(calls'[d], now')
  BY <1>3, <1>5, <1>6, GoodCalls DEF AdminInv, TypeOK
<1>8. calls' \in [Callers -> Call \cup {Idle}]
  BY <1>3, <1>5 DEF AdminInv, TypeOK, Good
<1>9. TypeOK'
  BY <1>1, <1>6, <1>8 DEF AdminInv, TypeOK, KeycloakAssumption
<1>10. ExpiryLags'
  BY <1>6 DEF AdminInv, ExpiryLags
<1> QED
  BY <1>7, <1>9, <1>10, CallsGood

(* A token comes that was issued since it was asked for: it is taken for   *)
(* good from its arrival on, a timeout too long at most.                   *)
LEMMA RefreshStep ==
  ASSUME KeycloakAssumption, AdminInv, NEW c \in Callers, RefreshAdminToken(c)
  PROVE  AdminInv'
<1> DEFINE k == calls[c]
<1>1. k # Idle /\ Good(k, now) /\ k \in Call /\ k.at \in 0..MaxTime
  BY GoodCalls DEF RefreshAdminToken, Good, Call
<1>2. PICK issued \in k.at..now :
        /\ token' = issued + Life /\ expiry' = now + Life
        /\ calls' = [calls EXCEPT ![c] = Send(k, issued + Life)]
  BY DEF RefreshAdminToken
<1>3. k.at <= now /\ now <= k.at + Latency /\ k.i <= Len(Requests[k.op])
  BY <1>1 DEF Good
<1>4. UNCHANGED <<now, profile, wrote, clean, made>>
  BY DEF RefreshAdminToken
<1>5. now \in 0..MaxTime
  BY DEF AdminInv, TypeOK
<1> HIDE DEF k
<1>6. issued \in Nat /\ issued <= now /\ now <= issued + Latency
  BY <1>1, <1>2, <1>3, <1>5 DEF KeycloakAssumption
<1>7. issued + Life \in Token /\ now + Life \in Token /\ now + Life <= (issued + Life) + Latency
      /\ now < (issued + Life) + Latency
  BY <1>5, <1>6 DEF KeycloakAssumption, Token
<1>8. Good(Send(k, issued + Life), now)
  BY <1>1, <1>3, <1>5, <1>7, SendGood
<1>9. \A d \in Callers : calls'[d] # Idle => Good(calls'[d], now')
  BY <1>2, <1>4, <1>8, GoodCalls DEF AdminInv, TypeOK
<1>10. calls' \in [Callers -> Call \cup {Idle}]
  BY <1>2, <1>8 DEF AdminInv, TypeOK, Good
<1>11. TypeOK'
  BY <1>2, <1>4, <1>7, <1>10 DEF AdminInv, TypeOK
<1>12. ExpiryLags'
  BY <1>2, <1>4, <1>7 DEF ExpiryLags
<1> QED
  BY <1>9, <1>11, <1>12, CallsGood

(* A request is answered: what it was sent with was good when it was sent, *)
(* so it is for no longer than the wait for the answer that it is kept.    *)
LEMMA AnswerStep ==
  ASSUME KeycloakAssumption, AdminInv, NEW c \in Callers, Answer(c)
  PROVE  AdminInv'
<1> DEFINE k == calls[c]
           j == Following(k)
<1>1. k # Idle /\ Good(k, now) /\ k.pc = "request" /\ k.at < k.headers
  BY GoodCalls DEF Answer
<1>2. /\ k \in Call /\ k.op \in DOMAIN Requests /\ k.user \in Users /\ k.field \in Fields
      /\ k.n \in 1..MaxCalls /\ k.i \in 1..3 /\ k.at \in Nat /\ k.headers \in Nat
      /\ k.held \in Token
  BY <1>1, TimesAreNumbers DEF Good, Call
<1>3. calls' = [calls EXCEPT ![c] = IF k.i = Len(Requests[k.op]) THEN Idle ELSE Proceed(j)]
  BY DEF Answer
<1>4. UNCHANGED <<now, token, expiry, clean, made>> /\ Effect(k)
  BY DEF Answer
<1>5. profile \in [Users -> Profile] /\ wrote \in [Users -> Profile] /\ now \in 0..MaxTime /\ now \in Nat
  BY DEF AdminInv, TypeOK
<1>6. now <= k.at + Latency /\ k.i <= Len(Requests[k.op]) /\ (k.i = 1 => k.held = k.headers)
  BY <1>1 DEF Good
<1> HIDE DEF k
<1>7. ASSUME k.i # Len(Requests[k.op])
      PROVE  Good(Proceed(j), now)
  <2> DEFINE r == IF Request(k) = "get" THEN profile[k.user] ELSE k.read
  <2>1. Len(Requests[k.op]) \in 1..3
    BY <1>2, RequestsOf
  <2>2. k.i + 1 \in 1..3 /\ k.i + 1 <= Len(Requests[k.op])
    BY <1>2, <1>6, <1>7, <2>1, NextOfThree
  <2>3. r \in Profile
    <3>1. k.read \in Profile /\ profile[k.user] \in Profile
      BY <1>2, <1>5 DEF Call
    <3> QED
      BY <3>1, Zenon
  <2>4. j = [[k EXCEPT !.i = k.i + 1] EXCEPT !.read = r]
    BY DEF Following
  <2> HIDE DEF j, r
  <2>5. j \in Call /\ j.i = k.i + 1 /\ j.op = k.op /\ j.held = k.held
    BY <1>2, <2>2, <2>3, <2>4 DEF Call
  <2>6. j.i <= Len(Requests[j.op])
    BY <2>2, <2>5, Zenon
  <2>7. ASSUME j.i = 2 PROVE now < j.held + Latency
    <3>1. k.i = 1
      BY <1>2, <2>5, <2>7
    <3>2. j.held = k.headers
      BY <1>6, <2>5, <3>1
    <3>3. now < k.headers + Latency
      BY <1>1, <1>2, <1>5, <1>6, Sums DEF KeycloakAssumption
    <3> QED
      BY <3>2, <3>3
  <2> QED
    BY <2>5, <2>6, <2>7, ProceedGood DEF AdminInv
<1>8. /\ calls' \in [Callers -> Call \cup {Idle}]
      /\ \A d \in Callers : calls'[d] # Idle => Good(calls'[d], now')
  <2>1. calls' = [calls EXCEPT ![c] = Idle] \/ (calls' = [calls EXCEPT ![c] = Proceed(j)] /\ Good(Proceed(j), now))
    BY <1>3, <1>7
  <2> QED
    BY <1>4, <2>1, GoodCalls DEF AdminInv, TypeOK, Good
<1>9. profile' \in [Users -> Profile] /\ wrote' \in [Users -> Profile]
  <2>1. [f \in Fields |-> k.n] \in Profile /\ \A u \in Users : [wrote[u] EXCEPT ![k.field] = k.n] \in Profile
    BY <1>2, <1>5 DEF Profile
  <2>2. UpdatePayload(k) \in Profile
    BY <1>2 DEF UpdatePayload, Profile, Call
  <2> QED
    BY <1>2, <1>4, <1>5, <2>1, <2>2 DEF Effect
<1>10. TypeOK'
  BY <1>4, <1>8, <1>9 DEF AdminInv, TypeOK
<1>11. ExpiryLags'
  BY <1>4 DEF AdminInv, ExpiryLags
<1> QED
  BY <1>8, <1>10, <1>11, CallsGood

LEMMA FailStep ==
  ASSUME KeycloakAssumption, AdminInv, NEW c \in Callers, Fails(c)
  PROVE  AdminInv'
<1>1. /\ UNCHANGED <<now, token, expiry, profile, wrote, made>> /\ clean' \subseteq clean
      /\ calls' = [calls EXCEPT ![c] = Idle]
  BY DEF Fails
<1>2. TypeOK' /\ ExpiryLags'
  BY <1>1 DEF AdminInv, TypeOK, ExpiryLags
<1>3. \A d \in Callers : calls'[d] # Idle => Good(calls'[d], now')
  BY <1>1, GoodCalls DEF AdminInv, TypeOK
<1> QED
  BY <1>2, <1>3, CallsGood

LEMMA TickStep ==
  ASSUME KeycloakAssumption, AdminInv, Tick
  PROVE  AdminInv'
<1>1. /\ UNCHANGED <<token, expiry, calls, profile, wrote, clean, made>>
      /\ now' = now + 1 /\ now' \in 0..MaxTime /\ now \in Nat
      /\ \A c \in Callers : calls[c] # Idle => now < calls[c].at + Latency
  BY DEF Tick, AdminInv, TypeOK, KeycloakAssumption
<1>2. TypeOK' /\ ExpiryLags'
  BY <1>1 DEF AdminInv, TypeOK, ExpiryLags
<1>3. ASSUME NEW d \in Callers, calls[d] # Idle PROVE Good(calls[d], now')
  <2>1. calls[d].at \in Nat /\ calls[d].at <= now /\ Latency \in Nat
    BY <1>3, GoodCalls, TimesAreNumbers DEF Good, Call, KeycloakAssumption
  <2>2. calls[d].at <= now' /\ now' <= calls[d].at + Latency
    BY <1>1, <1>3, <2>1
  <2> QED
    BY <1>3, <2>2, GoodCalls DEF Good
<1> QED
  BY <1>1, <1>2, <1>3, CallsGood

-----------------------------------------------------------------------------
LEMMA InitInv == KeycloakAssumption /\ Init => AdminInv
<1> SUFFICES ASSUME KeycloakAssumption, Init PROVE AdminInv
  OBVIOUS
<1>1. NoUser \in Profile
  BY DEF NoUser, Profile, KeycloakAssumption
<1>2. now \in 0..MaxTime /\ Life \in Token /\ now + Life \in Token /\ now + Life <= Life + Latency
  BY DEF Init, KeycloakAssumption, Token
<1>3. TypeOK
  BY <1>1, <1>2 DEF Init, TypeOK, KeycloakAssumption
<1>4. ExpiryLags
  BY <1>2 DEF Init, ExpiryLags
<1>5. Awaited /\ Kept /\ InRange /\ TokenStaleness
  BY DEF Init, Awaited, Kept, InRange, TokenStaleness
<1> QED
  BY <1>3, <1>4, <1>5 DEF AdminInv

LEMMA StepInv == KeycloakAssumption /\ AdminInv /\ [Next]_vars => AdminInv'
<1> SUFFICES ASSUME KeycloakAssumption, AdminInv, [Next]_vars PROVE AdminInv'
  OBVIOUS
<1>1. CASE UNCHANGED vars
  <2>1. TypeOK' /\ ExpiryLags'
    BY <1>1 DEF AdminInv, TypeOK, ExpiryLags, vars
  <2>2. \A d \in Callers : calls'[d] # Idle => Good(calls'[d], now')
    BY <1>1, GoodCalls DEF vars
  <2> QED
    BY <2>1, <2>2, CallsGood
<1>2. ASSUME NEW c \in Callers, NEW u \in Users,
             \/ GetUser(c, u) \/ CreateUser(c, u) \/ \E f \in Fields : UpdateUser(c, u, f)
             \/ AssignRole(c, u) \/ RevokeRole(c, u) \/ GetUserRoles(c, u)
      PROVE  AdminInv'
  <2>0. AnyField \in Fields
    BY DEF AnyField, KeycloakAssumption
  <2>1. PICK op \in DOMAIN Requests, f \in Fields : Start(c, op, u, f)
    BY <1>2, <2>0 DEF GetUser, CreateUser, UpdateUser, AssignRole, RevokeRole, GetUserRoles, Requests
  <2> QED
    BY <2>1, StartStep
<1>3. CASE \E c \in Callers : RefreshAdminToken(c) \/ Answer(c) \/ Fails(c)
  BY <1>3, RefreshStep, AnswerStep, FailStep
<1>4. CASE Tick
  BY <1>4, TickStep
<1> QED
  BY <1>1, <1>2, <1>3, <1>4 DEF Next

(* Every reachable state of the Keycloak client is well typed.             *)
THEOREM AdminTyped ==
  ASSUME KeycloakAssumption
  PROVE  Spec => []TypeOK
<1>1. AdminInv => TypeOK
  BY DEF AdminInv
<1>2. Init => AdminInv
  BY InitInv
<1>3. AdminInv /\ [Next]_vars => AdminInv'
  BY StepInv
<1> QED
  BY <1>1, <1>2, <1>3, PTL DEF Spec

(* However many calls refresh the admin token at once and in whatever      *)
(* order the answers come, getAdminHeaders sends no request with a token   *)
(* that Keycloak has refused for as long as one request may take.          *)
THEOREM NoStaleToken ==
  ASSUME KeycloakAssumption
  PROVE  Spec => []TokenStaleness
<1>1. AdminInv => TokenStaleness
  BY DEF AdminInv
<1>2. Init => AdminInv
  BY InitInv
<1>3. AdminInv /\ [Next]_vars => AdminInv'
  BY StepInv
<1> QED
  BY <1>1, <1>2, <1>3, PTL DEF Spec

-----------------------------------------------------------------------------
(* A user whose writes were never at once: it is as it was written last,   *)
(* one call at most writes it, and what updateUser has read of it is still *)
(* what Keycloak has when it sends the whole user back.                    *)
Apart ==
  \A u \in clean :
    /\ profile[u] = wrote[u]
    /\ \A c, d \in Callers : Writing(c, u) /\ Writing(d, u) => c = d
    /\ \A c \in Callers : Writing(c, u) /\ calls[c].op = "updateUser" /\ calls[c].i = 2 =>
         calls[c].read = profile[u]

WriteInv == AdminInv /\ Apart

LEMMA SendKeeps ==
  ASSUME NEW k \in Call, NEW h
  PROVE  /\ Send(k, h).user = k.user /\ Send(k, h).op = k.op
         /\ Send(k, h).i = k.i /\ Send(k, h).read = k.read
  BY DEF Send, Call

LEMMA ProceedKeeps ==
  ASSUME NEW k \in Call
  PROVE  /\ Proceed(k).user = k.user /\ Proceed(k).op = k.op
         /\ Proceed(k).i = k.i /\ Proceed(k).read = k.read
<1>1. \A h : /\ Send(k, h).user = k.user /\ Send(k, h).op = k.op
             /\ Send(k, h).i = k.i /\ Send(k, h).read = k.read
  BY SendKeeps
<1>2. /\ GetAdminHeaders(k).user = k.user /\ GetAdminHeaders(k).op = k.op
      /\ GetAdminHeaders(k).i = k.i /\ GetAdminHeaders(k).read = k.read
  BY <1>1 DEF GetAdminHeaders, Call
<1> QED
  BY <1>1, <1>2 DEF Proceed

(* A step that writes nothing, and after which the calls write no more     *)
(* than they did.                                                          *)
LEMMA ApartKept ==
  ASSUME Apart, UNCHANGED <<profile, wrote>>, clean' \subseteq clean,
         \A c \in Callers : \A u \in clean' : Writing(c, u)' =>
           /\ Writing(c, u) /\ calls'[c].op = calls[c].op
           /\ calls'[c].i = calls[c].i /\ calls'[c].read = calls[c].read
  PROVE  Apart'
  BY DEF Apart

LEMMA StartApart ==
  ASSUME KeycloakAssumption, WriteInv, NEW c \in Callers, NEW op \in DOMAIN Requests,
         NEW u \in Users, NEW f \in Fields, Start(c, op, u, f)
  PROVE  Apart'
<1> DEFINE k == [op |-> op, user |-> u, field |-> f, n |-> made + 1, i |-> 1, pc |-> "token",
                 at |-> now, held |-> 0, headers |-> 0, read |-> NoUser]
<1>1. made + 1 \in 1..MaxCalls /\ now \in 0..MaxTime /\ 0 \in Token /\ NoUser \in Profile
  BY DEF KeycloakAssumption, WriteInv, AdminInv, TypeOK, Start, Token, NoUser, Profile
<1>2. k \in Call /\ k.i = 1 /\ k.op = op /\ k.user = u
  BY <1>1 DEF Call
<1>3. /\ calls' = [calls EXCEPT ![c] = Proceed(k)] /\ calls[c] = Idle /\ UNCHANGED <<profile, wrote>>
      /\ clean' = IF op \in {"createUser", "updateUser"}
                  THEN clean \ {v \in {u} : \E d \in Callers : Writing(d, v)} ELSE clean
  BY DEF Start
<1> HIDE DEF k
<1>4. calls'[c] = Proceed(k) /\ \A d \in Callers \ {c} : calls'[d] = calls[d]
  BY <1>3 DEF WriteInv, AdminInv, TypeOK
<1>5. calls'[c].i = 1 /\ calls'[c].op = op /\ calls'[c].user = u
  BY <1>2, <1>4, ProceedKeeps
<1>6. ASSUME NEW v \in clean'
      PROVE  /\ profile[v] = wrote[v]
             /\ \A d, e \in Callers : Writing(d, v)' /\ Writing(e, v)' => d = e
             /\ \A d \in Callers : Writing(d, v)' /\ calls'[d].op = "updateUser" /\ calls'[d].i = 2 =>
                  calls'[d].read = profile[v]
  <2>1. v \in clean
    BY <1>3, <1>6
  <2>2. \A d \in Callers \ {c} : Writing(d, v)' <=> Writing(d, v)
    BY <1>4 DEF Writing
  <2>3. Writing(c, v)' => \A d \in Callers : ~Writing(d, v)
    <3>1. ASSUME Writing(c, v)' PROVE v = u /\ op \in {"createUser", "updateUser"}
      BY <1>5, <3>1 DEF Writing
    <3> QED
      BY <1>3, <1>6, <3>1
  <2> QED
    BY <1>4, <1>5, <2>1, <2>2, <2>3 DEF WriteInv, Apart
<1> QED
  BY <1>3, <1>6 DEF Apart

LEMMA RefreshApart ==
  ASSUME KeycloakAssumption, WriteInv, NEW c \in Callers, RefreshAdminToken(c)
  PROVE  Apart'
<1>1. PICK h : calls' = [calls EXCEPT ![c] = Send(calls[c], h)]
  BY DEF RefreshAdminToken
<1>2. UNCHANGED <<profile, wrote, clean>> /\ calls[c] \in Call /\ calls[c] # Idle
  BY DEF RefreshAdminToken, WriteInv, AdminInv, TypeOK
<1>3. calls'[c] = Send(calls[c], h) /\ \A d \in Callers \ {c} : calls'[d] = calls[d]
  BY <1>1 DEF WriteInv, AdminInv, TypeOK
<1>4. /\ calls'[c].user = calls[c].user /\ calls'[c].op = calls[c].op
      /\ calls'[c].i = calls[c].i /\ calls'[c].read = calls[c].read
  BY <1>2, <1>3, SendKeeps
<1>5. \A d \in Callers : \A u \in clean : Writing(d, u)' =>
        /\ Writing(d, u) /\ calls'[d].op = calls[d].op
        /\ calls'[d].i = calls[d].i /\ calls'[d].read = calls[d].read
  BY <1>2, <1>3, <1>4 DEF Writing
<1> QED
  BY <1>2, <1>5, ApartKept DEF WriteInv

LEMMA AnswerApart ==
  ASSUME KeycloakAssumption, WriteInv, NEW c \in Callers, Answer(c)
  PROVE  Apart'
<1> DEFINE k == calls[c]
           j == Following(k)
<1>1. /\ k # Idle /\ k \in Call /\ Effect(k) /\ clean' = clean
      /\ calls' = [calls EXCEPT ![c] = IF k.i = Len(Requests[k.op]) THEN Idle ELSE Proceed(j)]
  BY DEF Answer, WriteInv, AdminInv, TypeOK
<1>2. /\ k.op \in DOMAIN Requests /\ k.user \in Users /\ k.i \in 1..3 /\ k.read \in Profile
      /\ k.field \in Fields /\ k.n \in 1..MaxCalls
      /\ profile \in [Users -> Profile] /\ wrote \in [Users -> Profile] /\ clean \subseteq Users
      /\ calls \in [Callers -> Call \cup {Idle}]
  BY <1>1 DEF Call, WriteInv, AdminInv, TypeOK
<1>3. k.i <= Len(Requests[k.op])
  BY <1>1 DEF WriteInv, AdminInv, InRange
<1>4. Len(Requests[k.op]) \in 1..3
  BY <1>2, RequestsOf
<1>5. /\ Request(k) = "post" => k.op = "createUser"
      /\ Request(k) = "put" => k.op = "updateUser" /\ k.i = 2
      /\ k.op = "updateUser" /\ k.i = 1 => Request(k) = "get"
  BY <1>2, <1>3 DEF Request, Requests
<1>6. /\ \A d \in Callers \ {c} : calls'[d] = calls[d]
      /\ calls'[c] = Idle \/ (calls'[c] = Proceed(j) /\ k.i # Len(Requests[k.op]))
  BY <1>1, <1>2
<1>7. ASSUME k.i # Len(Requests[k.op])
      PROVE  /\ Proceed(j).user = k.user /\ Proceed(j).op = k.op /\ Proceed(j).i = k.i + 1
             /\ Proceed(j).read = IF Request(k) = "get" THEN profile[k.user] ELSE k.read
  <2> DEFINE r == IF Request(k) = "get" THEN profile[k.user] ELSE k.read
  <2>1. k.i + 1 \in 1..3
    BY <1>2, <1>3, <1>4, <1>7, NextOfThree
  <2>2. r \in Profile
    BY <1>2, Zenon
  <2>3. j = [[k EXCEPT !.i = k.i + 1] EXCEPT !.read = r]
    BY DEF Following
  <2> HIDE DEF r, j, k
  <2>4. j \in Call /\ j.i = k.i + 1 /\ j.op = k.op /\ j.user = k.user /\ j.read = r
    BY <1>1, <2>1, <2>2, <2>3 DEF Call
  <2> QED
    BY <2>4, ProceedKeeps DEF r
<1> HIDE DEF k, j
<1>8. ASSUME NEW u \in clean
      PROVE  /\ \A d \in Callers : Writing(d, u)' => Writing(d, u)
             /\ \A d \in Callers \ {c} : Writing(d, u)' => calls'[d] = calls[d]
             /\ Writing(c, u)' => /\ u = k.user /\ calls'[c].op = k.op /\ calls'[c].i = k.i + 1
                                  /\ calls'[c].read = IF Request(k) = "get" THEN profile[k.user] ELSE k.read
  <2>1. \A d \in Callers \ {c} : (Writing(d, u)' <=> Writing(d, u)) /\ calls'[d] = calls[d]
    BY <1>6 DEF Writing
  <2>2. Writing(c, u)' => calls'[c] = Proceed(j) /\ k.i # Len(Requests[k.op])
    BY <1>6 DEF Writing
  <2>3. Writing(c, u)' => /\ u = k.user /\ calls'[c].op = k.op /\ calls'[c].i = k.i + 1
                          /\ calls'[c].read = IF Request(k) = "get" THEN profile[k.user] ELSE k.read
    BY <1>7, <2>2 DEF Writing
  <2>4. Writing(c, u)' => Writing(c, u)
    BY <1>1, <2>3 DEF Writing, k
  <2> QED
    BY <2>1, <2>3, <2>4
<1>9. ASSUME NEW u \in clean, NEW d \in Callers, Writing(d, u), Request(k) \in {"post", "put"}, u = k.user
      PROVE  d = c
  <2>1. Writing(c, u)
    BY <1>1, <1>5, <1>9 DEF Writing, k
  <2> QED
    BY <1>9, <2>1 DEF WriteInv, Apart
<1>10. ASSUME NEW u \in clean
       PROVE  profile'[u] = wrote'[u] /\ ((u = k.user /\ Request(k) \in {"post", "put"}) \/ profile'[u] = profile[u])
  <2>0. profile[u] = wrote[u] /\ u \in Users
    BY <1>2 DEF WriteInv, Apart
  <2>1. CASE Request(k) = "post"
    <3>1. /\ profile' = [profile EXCEPT ![k.user] = [f \in Fields |-> k.n]]
          /\ wrote' = [wrote EXCEPT ![k.user] = [f \in Fields |-> k.n]]
      BY <1>1, <2>1 DEF Effect
    <3> QED
      BY <1>2, <2>0, <2>1, <3>1
  <2>2. CASE Request(k) = "put"
    <3>1. /\ profile' = [profile EXCEPT ![k.user] = UpdatePayload(k)]
          /\ wrote' = [wrote EXCEPT ![k.user] = [wrote[k.user] EXCEPT ![k.field] = k.n]]
      BY <1>1, <2>2 DEF Effect
    <3>2. CASE u # k.user
      BY <1>2, <2>0, <3>1, <3>2
    <3>3. CASE u = k.user
      <4>1. Writing(c, u) /\ k.op = "updateUser" /\ k.i = 2
        BY <1>1, <1>5, <2>2, <3>3 DEF Writing, k
      <4>2. k.read = profile[u]
        BY <4>1 DEF WriteInv, Apart, k
      <4>3. profile[u] \in [Fields -> 0..MaxCalls]
        BY <1>2, <2>0 DEF Profile
      <4>4. UpdatePayload(k) = [profile[u] EXCEPT ![k.field] = k.n]
        BY <1>2, <4>2, <4>3 DEF UpdatePayload
      <4> QED
        BY <1>2, <2>0, <2>2, <3>1, <3>3, <4>4
    <3> QED
      BY <3>2, <3>3
  <2>3. CASE Request(k) \notin {"post", "put"}
    <3>1. profile' = profile /\ wrote' = wrote
      BY <1>1, <2>3 DEF Effect
    <3> QED
      BY <2>0, <3>1
  <2> QED
    BY <2>1, <2>2, <2>3
<1>11. ASSUME NEW u \in clean, NEW d \in Callers, Writing(d, u)', calls'[d].op = "updateUser", calls'[d].i = 2
       PROVE  calls'[d].read = profile'[u]
  <2>1. CASE d = c
    <3>1. u = k.user /\ k.op = "updateUser" /\ k.i + 1 = 2
      BY <1>8, <1>11, <2>1
    <3>2. k.i = 1
      BY <1>2, <3>1
    <3>3. Request(k) = "get"
      BY <1>5, <3>1, <3>2
    <3>4. calls'[c].read = profile[u]
      BY <1>8, <1>11, <2>1, <3>1, <3>3
    <3>5. profile'[u] = profile[u]
      BY <1>10, <3>3
    <3> QED
      BY <2>1, <3>4, <3>5
  <2>2. CASE d # c
    <3>1. Writing(d, u) /\ calls'[d] = calls[d]
      BY <1>8, <1>11, <2>2
    <3>2. ~(u = k.user /\ Request(k) \in {"post", "put"})
      BY <1>9, <2>2, <3>1
    <3>3. profile'[u] = profile[u]
      BY <1>10, <3>2
    <3> QED
      BY <1>11, <3>1, <3>3 DEF WriteInv, Apart
  <2> QED
    BY <2>1, <2>2
<1> QED
  BY <1>1, <1>8, <1>10, <1>11 DEF WriteInv, Apart

LEMMA WriteStep == KeycloakAssumption /\ WriteInv /\ [Next]_vars => WriteInv'
<1> SUFFICES ASSUME KeycloakAssumption, WriteInv, [Next]_vars PROVE Apart'
  BY StepInv DEF WriteInv
<1>1. ASSUME NEW c \in Callers, NEW u \in Users,
             \/ GetUser(c, u) \/ CreateUser(c, u) \/ \E f \in Fields : UpdateUser(c, u, f)
             \/ AssignRole(c, u) \/ RevokeRole(c, u) \/ GetUserRoles(c, u)
      PROVE  Apart'
  <2>0. AnyField \in Fields
    BY DEF AnyField, KeycloakAssumption
  <2>1. PICK op \in DOMAIN Requests, f \in Fields : Start(c, op, u, f)
    BY <1>1, <2>0 DEF GetUser, CreateUser, UpdateUser, AssignRole, RevokeRole, GetUserRoles, Requests
  <2> QED
    BY <2>1, StartApart
<1>2. ASSUME NEW c \in Callers, Fails(c) PROVE Apart'
  <2>1. /\ UNCHANGED <<profile, wrote>> /\ clean' \subseteq clean
        /\ calls' = [calls EXCEPT ![c] = Idle] /\ calls \in [Callers -> Call \cup {Idle}]
    BY <1>2 DEF Fails, WriteInv, AdminInv, TypeOK
  <2>2. calls'[c] = Idle /\ \A d \in Callers \ {c} : calls'[d] = calls[d]
    BY <2>1
  <2>3. \A d \in Callers : \A u \in clean' : Writing(d, u)' =>
          /\ Writing(d, u) /\ calls'[d].op = calls[d].op
          /\ calls'[d].i = calls[d].i /\ calls'[d].read = calls[d].read
    BY <2>2 DEF Writing
  <2> QED
    BY <2>1, <2>3, ApartKept DEF WriteInv
<1>3. CASE Tick \/ UNCHANGED vars
  <2>1. UNCHANGED <<calls, profile, wrote, clean>>
    BY <1>3 DEF Tick, vars
  <2> QED
    BY <2>1 DEF WriteInv, Apart, Writing
<1> QED
  BY <1>1, <1>2, <1>3, RefreshApart, AnswerApart DEF Next

(* What updateUser puts back is what it has read: a user that calls wrote  *)
(* one after another, none of them failing, has in every field what was    *)
(* written there last, for any number of callers, users and fields.        *)
THEOREM UpdatesSafe ==
  ASSUME KeycloakAssumption
  PROVE  Spec => []UpdatesKept
<1>1. Init => WriteInv
  BY InitInv DEF WriteInv, Apart, Init, Writing
<1>2. WriteInv /\ [Next]_vars => WriteInv'
  BY WriteStep
<1>3. WriteInv => UpdatesKept
  BY DEF WriteInv, Apart, UpdatesKept
<1> QED
  BY <1>1, <1>2, <1>3, PTL DEF Spec
=============================================================================
