--------------------------- MODULE MCAuthPermissions ---------------------------
(* A small instance of AuthPermissions, and with it AuthSessions, for TLC. *)
EXTENDS AuthPermissions, TLC

(* Logins, token pairs and handlers are interchangeable. *)
AuthSymmetry == Permutations(Login) \cup Permutations(Pair) \cup Permutations(Handler)
===============================================================================
