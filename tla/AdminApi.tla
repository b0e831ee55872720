------------------------------ MODULE AdminApi ------------------------------
(***************************************************************************)
(* What every page of the admin app goes through: adminCall() of           *)
(* lib/admin-api.ts, requireAdmin() of lib/session.ts and withAdmin() of   *)
(* api/admin/_guard.ts.  Constant operators only; a status is an HTTP      *)
(* status.                                                                 *)
(***************************************************************************)
EXTENDS Naturals

(* adminCall(): what the service answers, or 502 when it cannot be reached or does
   not keep to the contract, 504 after ten seconds, 500 when its address is not
   configured or the answer is not JSON.  Nothing is ever tried again. *)
AdminCall(answers) == answers \union {500, 502, 504}

(* requireAdmin(): 200 with a session.  The exchange of the cookie and the profile
   are two calls; a 401 of the first is a visitor, any other failure is thrown. *)
RequireAdmin(cookie, refreshed, profile, privileged, mfa) ==
    IF ~cookie \/ refreshed = 401 THEN 401
    ELSE IF refreshed # 200 THEN refreshed
    ELSE IF profile # 200 THEN profile
    ELSE IF privileged /\ mfa THEN 200 ELSE 403

(* Every status the guard may come to. *)
GuardStatuses ==
    {RequireAdmin(c, r, p, v, m) : c \in BOOLEAN, r \in AdminCall({200, 401}),
                                   p \in AdminCall({200}), v \in BOOLEAN, m \in BOOLEAN}

(* withAdmin() and adminProblem(): the route answers 200 with the result, or the
   status of the error. *)
RouteStatus(status) == IF status \in {200, 202, 204} THEN 200 ELSE status
=============================================================================
