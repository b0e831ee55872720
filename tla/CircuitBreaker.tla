--------------------------- MODULE CircuitBreaker ---------------------------
(***************************************************************************)
(* The rolling-window circuit breaker of cart-service and the gRPC client  *)
(* that uses it (circuit-breaker.ts, pricing.ts).  Time passes in ticks:   *)
(* what matters of it is how long a call has been under way and how long   *)
(* the breaker has been open.                                              *)
(***************************************************************************)
EXTENDS Naturals, Sequences, FiniteSets

CONSTANTS
    Requests,      \* HTTP requests that cart-service serves concurrently
    WindowSize,    \* windowSize: results the breaker judges on
    Deadline,      \* DEADLINE_MS, in ticks
    ProbeAfter     \* probeAfterMs, in ticks

ASSUME BreakerAssumption ==
    /\ WindowSize \in Nat \ {0}
    /\ Deadline \in Nat
    /\ ProbeAfter \in Nat
    /\ Deadline < ProbeAfter     \* 250 ms and 10 s

VARIABLES
    state,         \* CircuitBreaker.state
    failures,      \* CircuitBreaker.failures
    openedFor,     \* now() - openedAt, capped at ProbeAfter
    calls          \* the CalculateCart calls under way

breakerVars == <<state, failures, openedFor, calls>>

NoCall == [age |-> 0, probe |-> FALSE, live |-> FALSE]

BreakerTypeOK ==
    /\ state \in {"closed", "open", "half-open"}
    /\ failures \in Seq(BOOLEAN) /\ Len(failures) <= WindowSize
    /\ openedFor \in 0 .. ProbeAfter
    /\ calls \in [Requests -> [age : 0 .. Deadline, probe : BOOLEAN, live : BOOLEAN]]

BreakerInit ==
    /\ state = "closed"
    /\ failures = <<>>
    /\ openedFor = 0
    /\ calls = [r \in Requests |-> NoCall]

Live(r) == calls[r].live

-----------------------------------------------------------------------------
(* Mutant: the breaker probes as soon as it opened. *)
ProbeAtOnce == TRUE

(* Whether the time the breaker has to stay open is over. *)
ProbeDue == openedFor >= ProbeAfter

(* allow() would answer true. *)
Allow == state = "closed" \/ (state = "open" /\ ProbeDue)

(* calculate() on an admitting breaker: the call starts, and is the probe if
   the breaker was open. *)
StartCall(r) ==
    /\ Allow
    /\ calls' = [calls EXCEPT ![r] = [age |-> 0, probe |-> state = "open", live |-> TRUE]]
    /\ state' = IF state = "open" THEN "half-open" ELSE state
    /\ UNCHANGED <<failures, openedFor>>

(* push, and shift when the window is exceeded. *)
Push(window, failed) ==
    LET longer == Append(window, failed)
    IN  IF Len(longer) > WindowSize THEN Tail(longer) ELSE longer

(* The window is full and at least half of it (failureThreshold) failed. *)
TooManyFailures(window) ==
    /\ Len(window) = WindowSize
    /\ 2 * Cardinality({i \in DOMAIN window : window[i]}) >= Len(window)

(* record(success) in the callback of the call of r. *)
Record(r, success) ==
    /\ calls' = [calls EXCEPT ![r] = NoCall]
    /\ \/ /\ state = "half-open"
          /\ state' = IF success THEN "closed" ELSE "open"
          /\ failures' = IF success THEN <<>> ELSE failures
          /\ openedFor' = 0
       \/ /\ state # "half-open"
          /\ failures' = Push(failures, ~success)
          /\ IF state = "closed" /\ TooManyFailures(failures')
             THEN state' = "open" /\ openedFor' = 0
             ELSE UNCHANGED <<state, openedFor>>

(* A tick passes.  gRPC reports a call at its deadline before time goes on. *)
Tick ==
    /\ \A r \in Requests : Live(r) => calls[r].age < Deadline
    /\ \/ \E r \in Requests : Live(r)
       \/ state = "open" /\ ~ProbeDue
    /\ calls' = [r \in Requests |-> IF Live(r) THEN [calls[r] EXCEPT !.age = @ + 1] ELSE calls[r]]
    /\ openedFor' = IF state = "open" /\ ~ProbeDue THEN openedFor + 1 ELSE openedFor
    /\ UNCHANGED <<state, failures>>

(* "Half-open admits exactly one probe": while the breaker is half-open, the
   probe is under way and no other call is.  It holds because DEADLINE_MS is
   shorter than probeAfterMs, two numbers in two files: whatever was admitted
   before the breaker opened has been recorded before it probes.  Otherwise
   record() would take an old call for the probe, and a half-open breaker whose
   probe is gone would refuse for ever. *)
HalfOpenHasItsProbe ==
    state = "half-open" =>
        \E r \in Requests : /\ Live(r) /\ calls[r].probe
                            /\ \A q \in Requests : Live(q) => q = r
=============================================================================
