--------------------------- MODULE Notifications ---------------------------
(***************************************************************************)
(* notification-service: events become at most one message to the customer *)
(* (delivery.ts, index.ts, templates.ts).  Workers are pods, two of which  *)
(* may hold one partition during a rebalance; an event is delivered again  *)
(* until its offset is committed.  Cassandra and the mail and SMS provider *)
(* are external.                                                           *)
(***************************************************************************)
EXTENDS Naturals, FiniteSets

CONSTANTS
    Events,        \* what is on the three topics: records with a unique offset
    Workers,
    MaxRefusals,   \* bound: how often the provider fails in a retriable way
    MaxFaults      \* bound: crashes, lost answers of Cassandra and rebalances

ASSUME NotificationsAssumption == MaxRefusals \in Nat /\ MaxFaults \in Nat

VARIABLES
    dedupe,        \* the dedupe table: keys that are claimed
    suppressed,    \* whether the address is in suppression_list
    work,          \* what each worker is doing
    acked,         \* events whose offset is committed
    accepted,      \* history: how often the provider took a message, by key
    unaware,        \* history: messages taken that the code cannot know of any more, by key
    outcomes,      \* history: statuses in delivery_log, by key
    refusals, faults

vars == <<dedupe, suppressed, work, acked, accepted, unaware, outcomes, refusals, faults>>

-----------------------------------------------------------------------------
Templates == {"order_confirmed", "order_cancelled", "order_shipped", "order_delivered",
              "payment_failed", "payment_refunded", "password_reset", "email_verification",
              "security_alert", "abandoned_cart", "back_in_stock"}

(* TRANSACTIONAL: templates that ignore opt-out and quiet hours. *)
Transactional == Templates \ {"abandoned_cart", "back_in_stock"}

(* templateExists() *)
TemplateExists(name) == name \in Templates

Email(e, template, known) ==
    [channel |-> "EMAIL", template |-> template, to |-> FALSE, user |-> known,
     key |-> <<template, e.subject>>]

(* toCommand(): the command of an event, if it has one.  Only the order events
   that order-service publishes carry the userId. *)
ToCommand(e) ==
    CASE e.type = "souq.order.confirmed.v1" -> {Email(e, "order_confirmed", TRUE)}
      [] e.type = "souq.order.cancelled.v1" -> {Email(e, "order_cancelled", TRUE)}
      [] e.type = "souq.order.shipped.v1"   -> {Email(e, "order_shipped", FALSE)}
      [] e.type = "souq.payment.failed.v1"  ->
            IF e.retriable THEN {} ELSE {Email(e, "payment_failed", FALSE)}
      [] e.type = "souq.payment.refunded.v1" -> {Email(e, "payment_refunded", FALSE)}
      [] e.type = "souq.notify.v1" ->
            {[channel |-> e.channel, template |-> e.template, to |-> e.to, user |-> e.user,
              key |-> <<e.template, e.subject>>]}
      [] OTHER -> {}

(* The commands that reach deliver(). *)
Commands(e) == {c \in ToCommand(e) : TemplateExists(c.template)}

Keys == {c.key : c \in UNION {Commands(e) : e \in Events}}
Idle == [pc |-> "idle"]

Init ==
    /\ dedupe = {}
    /\ suppressed = FALSE
    /\ work = [w \in Workers |-> Idle]
    /\ acked = {}
    /\ accepted = [k \in Keys |-> 0]
    /\ unaware = [k \in Keys |-> 0]
    /\ outcomes = [k \in Keys |-> {}]
    /\ refusals = 0 /\ faults = 0

Busy(w, pc) == work[w].pc = pc
Goto(w, next) == work' = [work EXCEPT ![w] = next]
Logged(key, status) == outcomes' = [outcomes EXCEPT ![key] = @ \union {status}]

-----------------------------------------------------------------------------
(* A worker takes an event that is not committed.  That another one is still at
   it takes a rebalance, which moves the partition under a busy worker. *)
Take(w, e) ==
    /\ Busy(w, "idle") /\ e \notin acked
    /\ IF \E v \in Workers : ~Busy(v, "idle") /\ work[v].event = e
       THEN faults < MaxFaults /\ faults' = faults + 1
       ELSE UNCHANGED faults

(* Events that produce nothing are skipped. *)
Skip(w, e) ==
    /\ Take(w, e)
    /\ Commands(e) = {}
    /\ Goto(w, [pc |-> "commit", event |-> e])
    /\ UNCHANGED <<dedupe, suppressed, acked, accepted, unaware, outcomes, refusals>>

(* [applied] of INSERT ... IF NOT EXISTS. *)
Applied(key) == key \notin dedupe

(* Mutant: a duplicate is thrown like a failure, not suppressed. *)
ClaimOrThrow(w, e) ==
    /\ Take(w, e)
    /\ \E c \in Commands(e) :
         /\ dedupe' = dedupe \union {c.key}
         /\ Goto(w, IF Applied(c.key) THEN [pc |-> "check", event |-> e, cmd |-> c] ELSE Idle)
    /\ UNCHANGED <<suppressed, acked, accepted, unaware, outcomes, refusals>>

(* claimDedupeKey() *)
Claim(w, e) ==
    /\ Take(w, e)
    /\ \E c \in Commands(e) :
         /\ dedupe' = dedupe \union {c.key}
         /\ Goto(w, IF Applied(c.key) THEN [pc |-> "check", event |-> e, cmd |-> c]
                    ELSE [pc |-> "commit", event |-> e])
    /\ UNCHANGED <<suppressed, acked, accepted, unaware, outcomes, refusals>>

(* Cassandra applies the claim and its answer is lost: deliver() throws, kafkajs
   delivers the event again. *)
ClaimAnswerLost(w, e) ==
    /\ Busy(w, "idle") /\ e \notin acked /\ faults < MaxFaults
    /\ \E c \in Commands(e) : Applied(c.key) /\ dedupe' = dedupe \union {c.key}
    /\ faults' = faults + 1
    /\ UNCHANGED <<suppressed, work, acked, accepted, unaware, outcomes, refusals>>

(* What loadRecipient() may answer, from identity-service, fresh or stale from
   the cache, or nothing. *)
Recipients(cmd) ==
    {[known |-> FALSE, address |-> FALSE, optedOut |-> FALSE]}
        \union (IF cmd.user THEN [known : {TRUE}, address : BOOLEAN, optedOut : BOOLEAN] ELSE {})

(* Why deliver() does not send, in its order of checks. *)
Suppressions(cmd, r, night) ==
    LET marketing == cmd.template \notin Transactional
        reachable == cmd.to \/ (r.address /\ cmd.channel \in {"EMAIL", "SMS"})
    IN  IF ~reachable THEN {"NO_ADDRESS"}
        ELSE IF marketing /\ r.known /\ r.optedOut THEN {"OPTED_OUT"}
        ELSE IF marketing /\ cmd.channel = "SMS" /\ night THEN {"QUIET_HOURS"}
        ELSE IF suppressed THEN {"HARD_BOUNCED"}
        ELSE {}

Check(w) ==
    /\ Busy(w, "check")
    /\ \E r \in Recipients(work[w].cmd), night \in BOOLEAN :
         LET why == Suppressions(work[w].cmd, r, night)
         IN  \/ /\ why = {}
                /\ Goto(w, [work[w] EXCEPT !.pc = "send"])
                /\ UNCHANGED outcomes
             \/ /\ why # {}
                /\ Goto(w, [pc |-> "commit", event |-> work[w].event])
                /\ \E reason \in why : Logged(work[w].cmd.key, reason)
    /\ UNCHANGED <<dedupe, suppressed, acked, accepted, unaware, refusals, faults>>

(* What a provider may answer, and whether it took the message.  Push and
   webhooks are not implemented. *)
Answers(channel) ==
    IF channel \in {"EMAIL", "SMS"}
    THEN {<<"ok", TRUE>>, <<"throttled", FALSE>>, <<"timeout", TRUE>>, <<"timeout", FALSE>>,
          <<"5xx", TRUE>>, <<"5xx", FALSE>>}
    ELSE {<<"unimplemented", FALSE>>}

(* Mutant: a timeout is retried too. *)
RetriableTimeout(answer) == answer \in {"throttled", "5xx", "timeout"}

(* isRetriable(): throttled or refused connections, and any 5xx. *)
Retriable(answer) == answer \in {"throttled", "5xx"}

Send(w) ==
    /\ Busy(w, "send")
    /\ \E a \in Answers(work[w].cmd.channel) :
         LET key == work[w].cmd.key
         IN  /\ accepted' = [accepted EXCEPT ![key] = IF a[2] THEN @ + 1 ELSE @]
             /\ unaware' = [unaware EXCEPT ![key] = IF a = <<"5xx", TRUE>> THEN @ + 1 ELSE @]
             /\ Logged(key, IF a[1] = "ok" THEN "SENT"
                            ELSE IF Retriable(a[1]) THEN "RETRY" ELSE "FAILED")
             /\ IF Retriable(a[1])
                THEN /\ refusals < MaxRefusals /\ refusals' = refusals + 1
                     /\ Goto(w, [work[w] EXCEPT !.pc = "release"])
                ELSE /\ Goto(w, [pc |-> "commit", event |-> work[w].event])
                     /\ UNCHANGED refusals
    /\ UNCHANGED <<dedupe, suppressed, acked, faults>>

(* The SDK's clients try again by themselves, after a timeout too: deliver() does
   not hear of an attempt that failed, nor whether the provider took it. *)
SdkRetries(w) ==
    /\ Busy(w, "send") /\ work[w].cmd.channel \in {"EMAIL", "SMS"}
    /\ refusals < MaxRefusals /\ refusals' = refusals + 1
    /\ \E taken \in 0 .. 1 :
         /\ accepted' = [accepted EXCEPT ![work[w].cmd.key] = @ + taken]
         /\ unaware' = [unaware EXCEPT ![work[w].cmd.key] = @ + taken]
    /\ UNCHANGED <<dedupe, suppressed, work, acked, outcomes, faults>>

(* Mutant: a retriable failure commits the offset instead of throwing. *)
ReleaseWithoutThrow(w) ==
    /\ Busy(w, "release")
    /\ dedupe' = dedupe \ {work[w].cmd.key}
    /\ Goto(w, [pc |-> "commit", event |-> work[w].event])
    /\ UNCHANGED <<suppressed, acked, accepted, unaware, outcomes, refusals, faults>>

(* releaseDedupeKey(), and the throw that makes kafkajs deliver the event again;
   a DELETE that fails leaves the key claimed. *)
Release(w) ==
    /\ Busy(w, "release")
    /\ \/ dedupe' = dedupe \ {work[w].cmd.key} /\ UNCHANGED faults
       \/ UNCHANGED dedupe /\ faults < MaxFaults /\ faults' = faults + 1
    /\ Goto(w, Idle)
    /\ UNCHANGED <<suppressed, acked, accepted, unaware, outcomes, refusals>>

(* eachMessage resolved: the offset is committed. *)
Commit(w) ==
    /\ Busy(w, "commit")
    /\ acked' = acked \union {work[w].event}
    /\ Goto(w, Idle)
    /\ UNCHANGED <<dedupe, suppressed, accepted, unaware, outcomes, refusals, faults>>

(* A claim is thirty days old, which no delivery is. *)
ClaimExpires(key) ==
    /\ key \in dedupe
    /\ \A w \in Workers : work[w].pc \in {"check", "send", "release"} => work[w].cmd.key # key
    /\ dedupe' = dedupe \ {key}
    /\ unaware' = [unaware EXCEPT ![key] = accepted[key]]
    /\ UNCHANGED <<suppressed, work, acked, accepted, outcomes, refusals, faults>>

(* The pod dies anywhere, also with the message at the provider. *)
Crash(w) ==
    /\ ~Busy(w, "idle") /\ faults < MaxFaults
    /\ faults' = faults + 1
    /\ \/ UNCHANGED accepted
       \/ /\ Busy(w, "send") /\ work[w].cmd.channel \in {"EMAIL", "SMS"}
          /\ accepted' = [accepted EXCEPT ![work[w].cmd.key] = @ + 1]
    /\ Goto(w, Idle)
    /\ UNCHANGED <<dedupe, suppressed, acked, unaware, outcomes, refusals>>

(* POST /v1/webhooks/ses: a permanent bounce or a complaint. *)
Bounce ==
    /\ ~suppressed
    /\ suppressed' = TRUE
    /\ UNCHANGED <<dedupe, work, acked, accepted, unaware, outcomes, refusals, faults>>

Step(w) ==
    \/ \E e \in Events : Skip(w, e) \/ Claim(w, e)
    \/ Check(w) \/ Send(w) \/ Release(w) \/ Commit(w)

Next ==
    \/ \E w \in Workers : \/ Step(w) \/ SdkRetries(w) \/ Crash(w)
                          \/ \E e \in Events : ClaimAnswerLost(w, e)
    \/ Bounce
    \/ \E key \in Keys : ClaimExpires(key)

(* Workers keep consuming; deliver() has no wait that does not end. *)
Spec == Init /\ [][Next]_vars /\ \A w \in Workers : WF_vars(Step(w))

-----------------------------------------------------------------------------
(* "The thing this file is really about: not sending the same email twice":
   one message per key at the provider, through redeliveries, rebalances, two
   producers of one key, retries and crashes.  There is one more for each message
   that the code cannot know of: the provider took it and answered 5xx, which
   isRetriable() takes for certainty that it did not; the SDK repeated the attempt
   that delivered it; or its claim is older than the table keeps one. *)
SentOnce == \A k \in Keys : accepted[k] <= 1 + unaware[k]

(* At-most-once is not "sometimes never": while no pod died, no answer was lost
   and no partition moved under a busy worker (whose duplicate then commits the
   offset that the retry needs), an event whose offset is committed was sent, failed or suppressed
   for a reason in the log, or somebody still has its key in hand. *)
NoSilentDrop ==
    faults = 0 =>
        \A e \in acked : \A c \in Commands(e) :
            \/ outcomes[c.key] \ {"RETRY"} # {}
            \/ \E w \in Workers : work[w].pc \in {"check", "send", "release"}
                                  /\ work[w].cmd.key = c.key
            \/ \E f \in Events \ acked : c.key \in {d.key : d \in Commands(f)}

(* Every event is dealt with in the end: a provider that refuses for a while, a
   lost answer or a dead pod never blocks its partition. *)
EveryEventSettles == \A e \in Events : <>(e \in acked)
=============================================================================
