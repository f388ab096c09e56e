---------------------------- MODULE KeycloakAdmin ----------------------------
(***************************************************************************)
(* The users and roles of the auth service: KeycloakService asks the admin *)
(* API of Keycloak with one admin token that all of its calls share.  A    *)
(* call that finds the token expired gets another one, whatever the others *)
(* do; it takes the token as it is then, and uses it for all the requests  *)
(* it makes, but for those it makes through getUser.                       *)
(*                                                                         *)
(* Keycloak is external: it takes a request until its token expires, and   *)
(* counts that from when it issued the token; the service counts from when *)
(* the token arrived.  A profile is, for each field, the number of the     *)
(* call that wrote it.                                                     *)
(***************************************************************************)
EXTENDS Naturals, Sequences

CONSTANTS Users, Fields, Callers,
          Life,      \* of an admin token
          Latency,   \* the timeout of every request
          MaxTime, MaxCalls

KeycloakAssumption ==
  /\ Life \in Nat \ {0} /\ Latency \in Nat /\ MaxCalls \in Nat
  /\ MaxTime \in Nat /\ Latency <= MaxTime
  /\ Fields # {}

VARIABLES
  now,
  token,     \* adminToken: the time at which Keycloak stops taking it
  expiry,    \* tokenExpiry
  calls,     \* the calls under way
  profile,   \* Keycloak: the users and their fields
  wrote,     \* history: the call that last wrote each field of a user
  clean,     \* history: users whose writes never overlapped and never failed
  made       \* calls made: they number the calls

vars == <<now, token, expiry, calls, profile, wrote, clean, made>>

\* The requests of each call, one after the other.
Requests == [getUser      |-> <<"get">>,
             createUser   |-> <<"post", "get">>,
             updateUser   |-> <<"get", "put", "get">>,
             assignRole   |-> <<"roles", "map">>,
             revokeRole   |-> <<"roles", "unmap">>,
             getUserRoles |-> <<"mapped">>]

Idle    == [op |-> "idle"]
NoUser  == [f \in Fields |-> 0]
Profile == [Fields -> 0..MaxCalls]
Token   == 0..(MaxTime + Life)
Call == [op: DOMAIN Requests, user: Users, field: Fields, n: 1..MaxCalls,
         i: 1..3,                       \* the request it makes
         pc: {"token", "request"}, at: 0..MaxTime,   \* what it awaits, and since when
         held: Token, headers: Token,   \* its headers, and those of the request
         read: Profile]

TypeOK ==
  /\ now \in 0..MaxTime
  /\ token \in Token /\ expiry \in Token
  /\ calls \in [Callers -> Call \cup {Idle}]
  /\ profile \in [Users -> Profile] /\ wrote \in [Users -> Profile]
  /\ clean \subseteq Users
  /\ made \in 0..MaxCalls

\* onModuleInit has awaited the first token.
Init ==
  /\ now \in 0..Latency /\ token = Life /\ expiry = now + Life
  /\ calls = [c \in Callers |-> Idle]
  /\ profile = [u \in Users |-> NoUser] /\ wrote = profile
  /\ clean = Users
  /\ made = 0

Writing(c, u) == calls[c] # Idle /\ calls[c].user = u /\ calls[c].op \in {"createUser", "updateUser"}
Request(k)    == Requests[k.op][k.i]

-----------------------------------------------------------------------------
(* getAdminHeaders: the call k sends its next request, or first awaits a   *)
(* token.                                                                  *)

Send(k, headers) == [k EXCEPT !.pc = "request", !.at = now, !.headers = headers,
                              !.held = IF k.i = 1 THEN headers ELSE @]

(* Mutant: a token that was there once is used for ever.                   *)
HeadersKept(k) == Send(k, token)
GetAdminHeaders(k) ==
  IF now < expiry THEN Send(k, token) ELSE [k EXCEPT !.pc = "token", !.at = now]

\* getUser asks for headers of its own.
Proceed(k) ==
  IF k.i = 1 \/ Request(k) = "get" THEN GetAdminHeaders(k) ELSE Send(k, k.held)

-----------------------------------------------------------------------------
Start(c, op, u, f) ==
  /\ calls[c] = Idle /\ made < MaxCalls
  /\ made' = made + 1
  /\ calls' = [calls EXCEPT ![c] = Proceed(
       [op |-> op, user |-> u, field |-> f, n |-> made + 1, i |-> 1, pc |-> "token",
        at |-> now, held |-> 0, headers |-> 0, read |-> NoUser])]
  /\ clean' = IF op \in {"createUser", "updateUser"}
              THEN clean \ {v \in {u} : \E d \in Callers : Writing(d, v)} ELSE clean
  /\ UNCHANGED <<now, token, expiry, profile, wrote>>

AnyField == CHOOSE f \in Fields : TRUE
GetUser(c, u)       == Start(c, "getUser", u, AnyField)
CreateUser(c, u)    == Start(c, "createUser", u, AnyField)
UpdateUser(c, u, f) == Start(c, "updateUser", u, f)
AssignRole(c, u)    == Start(c, "assignRole", u, AnyField)
RevokeRole(c, u)    == Start(c, "revokeRole", u, AnyField)
GetUserRoles(c, u)  == Start(c, "getUserRoles", u, AnyField)

\* Keycloak issued it at some time since it was asked.
RefreshAdminToken(c) ==
  /\ calls[c] # Idle /\ calls[c].pc = "token"
  /\ \E issued \in calls[c].at..now :
       /\ token' = issued + Life /\ expiry' = now + Life
       /\ calls' = [calls EXCEPT ![c] = Send(calls[c], issued + Life)]
  /\ UNCHANGED <<now, profile, wrote, clean, made>>

(* Mutant: the fields that are not updated are not sent.                   *)
PayloadOfUpdates(k) == [f \in Fields |-> IF f = k.field THEN k.n ELSE 0]
\* The whole user as it was read, with the field that is updated.
UpdatePayload(k) == [f \in Fields |-> IF f = k.field THEN k.n ELSE k.read[f]]

\* What a request does to the user; it is refused without the user ("post":
\* with the user there already), but for the list of all roles.
Effect(k) ==
  /\ Request(k) # "roles" => (Request(k) = "post" <=> profile[k.user] = NoUser)
  /\ CASE Request(k) = "post" ->
            /\ profile' = [profile EXCEPT ![k.user] = [f \in Fields |-> k.n]]
            /\ wrote' = [wrote EXCEPT ![k.user] = [f \in Fields |-> k.n]]
       [] Request(k) = "put" ->
            /\ profile' = [profile EXCEPT ![k.user] = UpdatePayload(k)]
            /\ wrote' = [wrote EXCEPT ![k.user] = [@ EXCEPT ![k.field] = k.n]]
       [] OTHER -> UNCHANGED <<profile, wrote>>

Following(k) == [k EXCEPT !.i = @ + 1, !.read = IF Request(k) = "get" THEN profile[k.user] ELSE @]
\* Keycloak took the request while its token was good.
Answer(c) ==
  /\ calls[c] # Idle /\ calls[c].pc = "request" /\ calls[c].at < calls[c].headers
  /\ Effect(calls[c])
  /\ calls' = [calls EXCEPT ![c] =
       IF @.i = Len(Requests[@.op]) THEN Idle ELSE Proceed(Following(@))]
  /\ UNCHANGED <<now, token, expiry, clean, made>>

\* A request fails or is refused, and the call with it; nothing is undone.
Fails(c) ==
  /\ calls[c] # Idle
  /\ calls' = [calls EXCEPT ![c] = Idle]
  /\ clean' = IF calls[c].pc = "request" /\ Request(calls[c]) \in {"post", "put"}
              THEN clean \ {calls[c].user} ELSE clean
  /\ UNCHANGED <<now, token, expiry, profile, wrote, made>>

\* No request is awaited longer than its timeout.
Tick ==
  /\ now < MaxTime /\ now' = now + 1
  /\ \A c \in Callers : calls[c] # Idle => now < calls[c].at + Latency
  /\ UNCHANGED <<token, expiry, calls, profile, wrote, clean, made>>

Next ==
  \/ \E c \in Callers, u \in Users :
       \/ GetUser(c, u) \/ CreateUser(c, u) \/ \E f \in Fields : UpdateUser(c, u, f)
       \/ AssignRole(c, u) \/ RevokeRole(c, u) \/ GetUserRoles(c, u)
  \/ \E c \in Callers : RefreshAdminToken(c) \/ Answer(c) \/ Fails(c)
  \/ Tick

Spec == Init /\ [][Next]_vars

-----------------------------------------------------------------------------
(* However many calls get a token at once and in whatever order the tokens *)
(* arrive, and however long a call holds on to the one it began with, no   *)
(* request is sent with a token that Keycloak has refused for as long as   *)
(* one request may take.  (So nothing has to refresh a token that is       *)
(* refused: the service finds out by itself.)                              *)
TokenStaleness ==
  \A c \in Callers : calls[c] # Idle /\ calls[c].pc = "request" =>
    calls[c].at < calls[c].headers + Latency

(* A user that was never written by two calls at once, nor by one that     *)
(* failed half-way, has in every field what was written there last:        *)
(* updateUser puts back the whole user it has read, so that an update it   *)
(* overlaps with is undone.                                                *)
UpdatesKept == \A u \in clean : profile[u] = wrote[u]
=============================================================================
