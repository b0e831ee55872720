-------------------------------- MODULE Bff --------------------------------
(***************************************************************************)
(* What every page of the storefront goes through: the browser's client    *)
(* (lib/api-client.ts), the route handlers' error envelope                 *)
(* (api/bff/_problem.ts), the service client behind them (lib/bff.ts) and  *)
(* the session cookie (lib/session.ts).  Constant operators only.  A status*)
(* is an HTTP status, 0 for "could not reach it"; a code is the machine    *)
(* code of the RFC 9457 envelope.                                          *)
(***************************************************************************)
EXTENDS Naturals

Unreachable == 0
Garbled == 502
TimedOut == 504

(* once(): the status of one exchange with a service: what it answers, or that
   there is no connection, no answer in time, or one that is not JSON or does not
   match its schema. *)
Once(answers) == answers \union {Unreachable, Garbled, TimedOut}

(* Whether a body with these fields passes a strict schema: every required field
   and none it does not know. *)
Strict(fields, required, optional) ==
    required \subseteq fields /\ fields \subseteq required \union optional

(* BffError.retriable *)
Retriable(status) == status \in {0, 502, 503, 504}

(* call(): how many attempts a request may take. *)
MaxAttempts(method, keyed, attempts) ==
    IF method = "GET" \/ keyed THEN attempts ELSE 1

(* call(): whether another attempt follows this one. *)
TriesAgain(status, attempt, max) == Retriable(status) /\ attempt < max

(* problemResponse() *)
ProblemStatus(status) == IF status = 0 THEN 502 ELSE status

(* toProblem() and problemResponse(): the code that reaches the browser with a
   status this app made up itself; a service's own code is passed through. *)
CodeOf(status) ==
    CASE status \in {0, 502, 503} -> "UPSTREAM_UNAVAILABLE"
      [] status = 504             -> "UPSTREAM_TIMEOUT"
      [] status = 401             -> "UNAUTHENTICATED"
      [] OTHER                    -> "INTERNAL_ERROR"

(* apiFetch(): what the page's call comes to, a result or an ApiError. *)
Succeeds(status) == status \in {200, 202, 204}

(* ApiError.userMessage: codes that have a text of their own. *)
KnownCodes ==
    {"UNAUTHENTICATED", "TOKEN_EXPIRED", "REFRESH_TOKEN_REUSED", "MFA_REQUIRED", "FORBIDDEN",
     "ACCOUNT_LOCKED", "WEAK_PASSWORD", "VALIDATION_FAILED", "INVENTORY_INSUFFICIENT_STOCK",
     "CART_STALE", "ORDER_NOT_CANCELLABLE", "PAYMENT_DECLINED", "PAYMENT_REQUIRES_ACTION",
     "RATE_LIMITED", "PRODUCT_NOT_FOUND", "UPSTREAM_TIMEOUT", "UPSTREAM_UNAVAILABLE"}
UserMessage(code) == IF code \in KnownCodes THEN code ELSE "reference"

(* getAccessToken(): the status with which a request that holds a refresh cookie
   goes on, 200 with a token and 401 without one; anything but a 401 of identity
   is thrown, so that a redeploy of it is not a signed-out state. *)
TokenStatus(cookie, refresh) == IF cookie THEN refresh ELSE 401
=============================================================================
