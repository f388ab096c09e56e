---------------------------- MODULE AuthPermissions ----------------------------
(***************************************************************************)
(* auth-service: PermissionCacheService and the role changes, composed     *)
(* with AuthSessions, whose authenticate and validateToken end by filling  *)
(* or reading the cached roles of the user.                                *)
(*                                                                         *)
(* The roles of the user in Keycloak are a version number, one more for    *)
(* every change.                                                           *)
(***************************************************************************)
EXTENDS AuthSessions, Naturals

CONSTANT MaxRoles    \* bound on the changes of the user's roles

ASSUME RolesAssumption == MaxRoles \in Nat /\ None \notin 0..MaxRoles

VARIABLES roles,     \* Keycloak: the user's roles
          cache,     \* the userPermissionCache row: the roles it holds, or None
          fetched,   \* the roles a handler fetched from Keycloak
          assign,    \* assignRole: "idle", or "invalidate" after Keycloak's answer
          promised,  \* history: the roles of the last assignRole that returned
          lateWrite  \* history: older roles were written after it had

permVars == <<roles, cache, fetched, assign, promised, lateWrite>>
vars     == <<sessionVars, permVars>>

PermTypeOK ==
  /\ roles \in 0..MaxRoles
  /\ cache \in 0..MaxRoles \cup {None}
  /\ fetched \in [Handler -> 0..MaxRoles]
  /\ assign \in {"idle", "invalidate"}
  /\ promised \in 0..MaxRoles
  /\ lateWrite \in BOOLEAN

PermInit ==
  /\ roles = 0
  /\ cache = None
  /\ fetched = [h \in Handler |-> 0]
  /\ assign = "idle"
  /\ promised = 0
  /\ lateWrite = FALSE

-------------------------------------------------------------------------------
(* getUserRoles, by authenticate and by the fetch function of warmCache. *)
FetchRoles(h, from, to) ==
  /\ handler[h].pc = from
  /\ fetched' = [fetched EXCEPT ![h] = roles]
  /\ Goto(h, to)
  /\ UNCHANGED <<issued, row, black, revoker, historyVars, roles, cache, assign,
                 promised, lateWrite>>

(* setCachedPermissions is an upsert. *)
SetCachedPermissions(h) ==
  /\ cache' = fetched[h]
  /\ lateWrite' = (lateWrite \/ fetched[h] < promised)
  /\ fetched' = [fetched EXCEPT ![h] = 0]
  /\ UNCHANGED <<roles, assign, promised>>

LoginRoles(h) == FetchRoles(h, "loginRoles", "loginCache")

(* authenticate caches the roles and answers. *)
LoginCache(h) ==
  /\ handler[h].pc = "loginCache"
  /\ SetCachedPermissions(h)
  /\ Answer(h)
  /\ UNCHANGED <<issued, row, black, revoker, revoked, excused>>

(* warmCache reads; an entry that has expired is invalidated and missed. *)
GetCachedPermissions(h) ==
  /\ handler[h].pc = "permGet"
  /\ \/ cache # None /\ Goto(h, "valid") /\ UNCHANGED cache
     \/ cache' = None /\ Goto(h, "permFetch")
  /\ UNCHANGED <<issued, row, black, revoker, historyVars, roles, fetched, assign,
                 promised, lateWrite>>

WarmFetch(h) == FetchRoles(h, "permFetch", "permSet")

WarmSet(h) ==
  /\ handler[h].pc = "permSet"
  /\ SetCachedPermissions(h)
  /\ Goto(h, "valid")
  /\ UNCHANGED <<issued, row, black, revoker, historyVars>>

(* { valid: true, roles } is returned. *)
ValidateAnswer(h) ==
  /\ handler[h].pc = "valid"
  /\ Return(h)
  /\ UNCHANGED <<issued, row, black, revoker, historyVars, permVars>>

-------------------------------------------------------------------------------
AssignKc ==
  /\ assign = "idle"
  /\ roles < MaxRoles
  /\ roles' = roles + 1
  /\ assign' = "invalidate"
  /\ UNCHANGED <<sessionVars, cache, fetched, promised, lateWrite>>

(* Mutant: the entry of another tenant is invalidated. *)
AssignInvalidateOther ==
  /\ assign = "invalidate"
  /\ assign' = "idle"
  /\ promised' = roles
  /\ lateWrite' = FALSE
  /\ UNCHANGED <<sessionVars, roles, cache, fetched>>

(* invalidateCache, and assignRole returns. *)
AssignInvalidate ==
  /\ assign = "invalidate"
  /\ cache' = None
  /\ assign' = "idle"
  /\ promised' = roles
  /\ lateWrite' = FALSE
  /\ UNCHANGED <<sessionVars, roles, fetched>>

(* The invalidation fails: assignRole reports INTERNAL, the role is assigned. *)
AssignFails ==
  /\ assign = "invalidate"
  /\ assign' = "idle"
  /\ UNCHANGED <<sessionVars, roles, cache, fetched, promised, lateWrite>>

(* AuthController.revokeRole changes Keycloak and leaves the cache alone. *)
RevokeRole ==
  /\ roles < MaxRoles
  /\ roles' = roles + 1
  /\ UNCHANGED <<sessionVars, cache, fetched, assign, promised, lateWrite>>

(* cleanupExpiredCache, hourly. *)
CleanupExpiredCache ==
  /\ cache # None
  /\ cache' = None
  /\ UNCHANGED <<sessionVars, roles, fetched, assign, promised, lateWrite>>

Fails(h) ==
  /\ HandlerFails(h)
  /\ fetched' = [fetched EXCEPT ![h] = 0]
  /\ UNCHANGED <<roles, cache, assign, promised, lateWrite>>

Init == SessionInit /\ PermInit

Permissions(h) ==
  \/ LoginRoles(h) \/ LoginCache(h)
  \/ GetCachedPermissions(h) \/ WarmFetch(h) \/ WarmSet(h) \/ ValidateAnswer(h)

Next ==
  \/ SessionStep /\ UNCHANGED permVars
  \/ \E h \in Handler : Fails(h)
  \/ \E h \in Handler : Permissions(h)
  \/ AssignKc \/ AssignInvalidate \/ AssignFails
  \/ RevokeRole
  \/ CleanupExpiredCache

Spec == Init /\ [][Next]_vars

-------------------------------------------------------------------------------
TypeOK == SessionTypeOK /\ PermTypeOK

(* Once assignRole has returned, the cache holds roles from before it only   *)
(* if a handler that had fetched them earlier wrote them late.              *)
AssignedRolesStay == cache # None /\ cache < promised => lateWrite
===============================================================================
