------------------------- MODULE NotificationProofs -------------------------
(***************************************************************************)
(* Proofs about module Notifications, for every set of events and workers  *)
(* and any number of refusals and faults.                                  *)
(***************************************************************************)
EXTENDS Notifications, TLAPS

AllCommands == UNION {Commands(e) : e \in Events}
KeysOf(e) == {c.key : c \in Commands(e)}

\* The phases in which a worker has a key in hand.
Owning == {"check", "send", "release"}

Jobs ==
    {Idle} \union [pc : {"commit"}, event : Events]
           \union {j \in [pc : Owning, event : Events, cmd : AllCommands] :
                      j.cmd \in Commands(j.event)}

\* What the delivery log may say.
Statuses == {"SENT", "RETRY", "FAILED", "NO_ADDRESS", "OPTED_OUT", "QUIET_HOURS", "HARD_BOUNCED"}

Types ==
    /\ dedupe \in SUBSET Keys
    /\ work \in [Workers -> Jobs]
    /\ acked \in SUBSET Events
    /\ accepted \in [Keys -> Nat] /\ unaware \in [Keys -> Nat]
    /\ outcomes \in [Keys -> SUBSET Statuses]
    /\ faults \in Nat

LEMMA KeyOfCommand ==
    ASSUME NEW e \in Events, NEW c \in Commands(e)
    PROVE  c \in AllCommands /\ c.key \in Keys /\ c.key \in KeysOf(e)
  BY DEF AllCommands, Keys, KeysOf

\* toCommand() makes one command of an event, or none.
LEMMA OneCommand ==
    ASSUME NEW e, NEW c \in Commands(e), NEW d \in Commands(e)
    PROVE  c = d
  <1>1. c \in ToCommand(e) /\ d \in ToCommand(e)
    BY DEF Commands
  <1>2. CASE e.type = "souq.order.confirmed.v1"
    BY <1>1, <1>2 DEF ToCommand
  <1>3. CASE e.type = "souq.order.cancelled.v1"
    BY <1>1, <1>3 DEF ToCommand
  <1>4. CASE e.type = "souq.order.shipped.v1"
    BY <1>1, <1>4 DEF ToCommand
  <1>5. CASE e.type = "souq.payment.failed.v1"
    BY <1>1, <1>5 DEF ToCommand
  <1>6. CASE e.type = "souq.payment.refunded.v1"
    BY <1>1, <1>6 DEF ToCommand
  <1>7. CASE e.type = "souq.notify.v1"
    BY <1>1, <1>7 DEF ToCommand
  <1>8. CASE e.type \notin {"souq.order.confirmed.v1", "souq.order.cancelled.v1", "souq.order.shipped.v1",
                            "souq.payment.failed.v1", "souq.payment.refunded.v1", "souq.notify.v1"}
    BY <1>1, <1>8 DEF ToCommand
  <1> QED
    BY <1>2, <1>3, <1>4, <1>5, <1>6, <1>7, <1>8

LEMMA OneKey ==
    ASSUME NEW e, NEW c \in Commands(e)
    PROVE  KeysOf(e) = {c.key}
  BY OneCommand DEF KeysOf

LEMMA JobFacts ==
    ASSUME Types, NEW w \in Workers
    PROVE  /\ work[w].pc = "idle" \/ work[w].pc = "commit" \/ work[w].pc \in Owning
           /\ work[w].pc # "idle" => work[w].event \in Events
           /\ work[w].pc \in Owning =>
                /\ work[w].event \in Events /\ work[w].cmd \in Commands(work[w].event)
                /\ work[w].cmd.key \in Keys /\ KeysOf(work[w].event) = {work[w].cmd.key}
                /\ \A p \in Owning : [work[w] EXCEPT !.pc = p] \in Jobs
                /\ \A p \in Owning : /\ [work[w] EXCEPT !.pc = p].pc = p
                                     /\ [work[w] EXCEPT !.pc = p].event = work[w].event
                                     /\ [work[w] EXCEPT !.pc = p].cmd = work[w].cmd
  <1>1. work[w] \in Jobs
    BY DEF Types
  <1>2. CASE work[w] = Idle
    BY <1>2 DEF Idle, Owning
  <1>3. CASE work[w] \in [pc : {"commit"}, event : Events]
    BY <1>3 DEF Owning
  <1>4. CASE work[w] \in [pc : Owning, event : Events, cmd : AllCommands]
             /\ work[w].cmd \in Commands(work[w].event)
    <2>1. work[w].cmd.key \in Keys /\ KeysOf(work[w].event) = {work[w].cmd.key}
      BY <1>4, KeyOfCommand, OneKey
    <2> DEFINE j == work[w]
    <2>2. \A p \in Owning : [j EXCEPT !.pc = p] \in Jobs
      BY <1>4 DEF Jobs
    <2> QED
      BY <1>4, <2>1, <2>2 DEF Owning
  <1> QED
    BY <1>1, <1>2, <1>3, <1>4 DEF Jobs

LEMMA GotoFacts ==
    ASSUME Types, NEW w \in Workers, NEW next \in Jobs, Goto(w, next)
    PROVE  /\ work'[w] = next /\ (\A v \in Workers \ {w} : work'[v] = work[v])
           /\ work' \in [Workers -> Jobs]
  BY DEF Types, Goto

LEMMA PlainJobs ==
    ASSUME NEW e \in Events
    PROVE  /\ Idle \in Jobs /\ Idle.pc = "idle"
           /\ [pc |-> "commit", event |-> e] \in Jobs
           /\ \A c \in Commands(e) : [pc |-> "check", event |-> e, cmd |-> c] \in Jobs
  <1>1. \A c \in Commands(e) : [pc |-> "check", event |-> e, cmd |-> c] \in Jobs
    BY KeyOfCommand DEF Jobs, Owning
  <1> QED
    BY <1>1 DEF Jobs, Idle

LEMMA IdleJob == Idle \in Jobs /\ Idle.pc = "idle" /\ "idle" \notin Owning /\ "commit" \notin Owning
  BY DEF Jobs, Idle, Owning
-----------------------------------------------------------------------------
(* The inductive invariant.  d stands for the dedupe table, W for the      *)
(* workers, a for the committed events and o for the delivery log.         *)

Owns(W, w, k) == W[w].pc \in Owning /\ W[w].cmd.key = k
Owned(W, k) == \E w \in Workers : Owns(W, w, k)

\* A key in hand is claimed, and by one worker.  As long as it is free or in
\* hand, the provider took no message for it but what the code cannot know of.
OnceAt(k, d, W, acc, mis) ==
    /\ \A w \in Workers : Owns(W, w, k) => k \in d
    /\ \A v, w \in Workers : Owns(W, v, k) /\ Owns(W, w, k) => v = w
    /\ k \notin d \/ Owned(W, k) => acc[k] <= mis[k]
    /\ acc[k] <= 1 + mis[k]

OnceInv == \A k \in Keys : OnceAt(k, dedupe, work, accepted, unaware)

\* The log says what became of the key.
Closed(o, k) == o[k] \ {"RETRY"} # {}

Committing(W, e) == \E w \in Workers : W[w].pc = "commit" /\ W[w].event = e

\* An event with the key that will be handled (again).
Waiting(W, a, k) == \E f \in Events \ a : k \in KeysOf(f) /\ ~Committing(W, f)

Accounted(W, a, o, k) == Closed(o, k) \/ Owned(W, k) \/ Waiting(W, a, k)

\* Without faults a partition has one worker ...
Apart(W, a) ==
    /\ \A w \in Workers : W[w].pc # "idle" => W[w].event \notin a
    /\ \A v, w \in Workers :
          W[v].pc # "idle" /\ W[w].pc # "idle" /\ W[v].event = W[w].event => v = w

\* ... a claim is in hand or was logged, and what is committed, or about to be,
\* is accounted for.
NothingLost(d, W, a, o) ==
    /\ \A k \in d : Closed(o, k) \/ Owned(W, k)
    /\ \A e \in Events : e \in a \/ Committing(W, e) =>
          \A k \in KeysOf(e) : Accounted(W, a, o, k)

DropInv == faults = 0 => Apart(work, acked) /\ NothingLost(dedupe, work, acked, outcomes)

Inv == Types /\ OnceInv /\ DropInv

\* What a step of w does to the other workers.
Others(w) == \A v \in Workers \ {w} : work'[v] = work[v]

\* Claims on a key are untouched by a step that has nothing to do with it.
LEMMA OnceElsewhere ==
    ASSUME NEW w \in Workers, Others(w), NEW k \in Keys,
           ~Owns(work, w, k), ~Owns(work', w, k), k \in dedupe' <=> k \in dedupe,
           accepted'[k] = accepted[k], unaware'[k] = unaware[k],
           OnceAt(k, dedupe, work, accepted, unaware)
    PROVE  OnceAt(k, dedupe', work', accepted', unaware')
  <1>1. \A v \in Workers : Owns(work', v, k) <=> Owns(work, v, k)
    BY DEF Others, Owns
  <1> QED
    BY <1>1 DEF OnceAt, Owned

\* A key that a worker keeps in hand.
LEMMA OnceInHand ==
    ASSUME NEW w \in Workers, Others(w), NEW k \in Keys,
           Owns(work, w, k), Owns(work', w, k), UNCHANGED dedupe,
           accepted'[k] <= unaware'[k], accepted'[k] \in Nat, unaware'[k] \in Nat,
           OnceAt(k, dedupe, work, accepted, unaware)
    PROVE  OnceAt(k, dedupe', work', accepted', unaware')
  <1>1. \A v \in Workers : Owns(work', v, k) <=> Owns(work, v, k)
    BY DEF Others, Owns
  <1> QED
    BY <1>1 DEF OnceAt, Owned

\* A key that a worker lets go of, still claimed.
LEMMA OnceLeft ==
    ASSUME NEW w \in Workers, Others(w), NEW k \in Keys,
           Owns(work, w, k), ~Owns(work', w, k), UNCHANGED dedupe,
           accepted'[k] <= 1 + unaware'[k],
           OnceAt(k, dedupe, work, accepted, unaware)
    PROVE  OnceAt(k, dedupe', work', accepted', unaware')
  <1>1. \A v \in Workers : ~Owns(work', v, k)
    BY DEF Others, Owns, OnceAt
  <1>2. k \in dedupe'
    BY DEF OnceAt
  <1> QED
    BY <1>1, <1>2 DEF OnceAt, Owned

\* Ownership depends on the key a worker has in hand.
LEMMA OwnsOne ==
    ASSUME NEW W, NEW w, NEW k, NEW key, W[w].pc \in Owning, W[w].cmd.key = key
    PROVE  Owns(W, w, k) <=> k = key
  BY DEF Owns

LEMMA LostNothing ==
    ASSUME NothingLost(dedupe, work, acked, outcomes),
           \A k \in Keys : Accounted(work, acked, outcomes, k) => Accounted(work', acked', outcomes', k),
           \A k \in dedupe' : Closed(outcomes', k) \/ Owned(work', k),
           \A e \in Events :
              (e \in acked' \/ Committing(work', e)) /\ ~(e \in acked \/ Committing(work, e)) =>
                  \A k \in KeysOf(e) : Accounted(work', acked', outcomes', k)
    PROVE  NothingLost(dedupe', work', acked', outcomes')
  <1>1. \A e \in Events : \A k \in KeysOf(e) : k \in Keys
    BY KeyOfCommand DEF KeysOf
  <1> QED
    BY <1>1 DEF NothingLost

LEMMA SkipKeeps ==
    ASSUME Inv, NEW w \in Workers, NEW e \in Events, Skip(w, e)
    PROVE  Inv'
  <1>1. /\ work[w].pc = "idle" /\ e \notin acked /\ Commands(e) = {}
        /\ UNCHANGED <<dedupe, suppressed, acked, accepted, unaware, outcomes, refusals>>
        /\ Goto(w, [pc |-> "commit", event |-> e])
    BY DEF Skip, Take, Busy
  <1>2. /\ work'[w] = [pc |-> "commit", event |-> e] /\ Others(w)
        /\ work' \in [Workers -> Jobs]
    BY <1>1, GotoFacts, PlainJobs DEF Inv, Others
  <1>3. faults' \in Nat /\ (faults' = 0 => faults = 0 /\ ~\E v \in Workers : ~Busy(v, "idle") /\ work[v].event = e)
    BY DEF Skip, Take, Inv, Types
  <1>4. Types'
    BY <1>1, <1>2, <1>3 DEF Inv, Types
  <1>5. OnceInv'
    BY <1>1, <1>2, OnceElsewhere, IdleJob DEF Inv, OnceInv, Owns
  <1>6. ASSUME faults' = 0
        PROVE  Apart(work', acked') /\ NothingLost(dedupe', work', acked', outcomes')
    <2>1. Apart(work, acked) /\ NothingLost(dedupe, work, acked, outcomes)
      BY <1>3, <1>6 DEF Inv, DropInv
    <2>2. Apart(work', acked')
      BY <1>1, <1>2, <1>3, <1>6, <2>1 DEF Apart, Others, Busy
    <2>3. KeysOf(e) = {}
      BY <1>1 DEF KeysOf
    <2>4. \A v \in Workers, k \in Keys : Owns(work', v, k) <=> Owns(work, v, k)
      BY <1>1, <1>2, IdleJob DEF Owns, Others
    <2>5. \A f \in Events \ {e} : Committing(work', f) <=> Committing(work, f)
      BY <1>1, <1>2 DEF Committing, Others
    <2>6. \A k \in Keys : Owned(work', k) <=> Owned(work, k)
      BY <2>4 DEF Owned
    <2>7. \A k \in Keys : Waiting(work, acked, k) => Waiting(work', acked', k)
      BY <1>1, <2>3, <2>5 DEF Waiting
    <2>9. \A k \in Keys : Accounted(work, acked, outcomes, k) => Accounted(work', acked', outcomes', k)
      BY <1>1, <2>6, <2>7 DEF Accounted
    <2>10. \A k \in dedupe' : Closed(outcomes', k) \/ Owned(work', k)
      BY <1>1, <1>4, <2>1, <2>6 DEF NothingLost, Types
    <2>11. NothingLost(dedupe', work', acked', outcomes')
      BY <1>1, <2>1, <2>3, <2>5, <2>9, <2>10, LostNothing
    <2> QED
      BY <2>2, <2>11
  <1> QED
    BY <1>4, <1>5, <1>6 DEF Inv, DropInv

LEMMA ClaimKeeps ==
    ASSUME Inv, NEW w \in Workers, NEW e \in Events, Claim(w, e)
    PROVE  Inv'
  <1>1. /\ work[w].pc = "idle" /\ e \notin acked
        /\ UNCHANGED <<suppressed, acked, accepted, unaware, outcomes, refusals>>
    BY DEF Claim, Take, Busy
  <1>2. PICK c \in Commands(e) :
          /\ dedupe' = dedupe \union {c.key}
          /\ Goto(w, IF Applied(c.key) THEN [pc |-> "check", event |-> e, cmd |-> c]
                     ELSE [pc |-> "commit", event |-> e])
    BY DEF Claim
  <1>3. c.key \in Keys /\ KeysOf(e) = {c.key}
    BY KeyOfCommand, OneKey
  <1>4. /\ c.key \notin dedupe => work'[w] = [pc |-> "check", event |-> e, cmd |-> c]
        /\ c.key \in dedupe => work'[w] = [pc |-> "commit", event |-> e]
        /\ Others(w) /\ work' \in [Workers -> Jobs]
    <2>1. (IF Applied(c.key) THEN [pc |-> "check", event |-> e, cmd |-> c]
           ELSE [pc |-> "commit", event |-> e]) \in Jobs
      BY PlainJobs
    <2> QED
      BY <1>2, <2>1, GotoFacts DEF Inv, Others, Applied
  <1>5. faults' \in Nat /\ (faults' = 0 => faults = 0 /\ ~\E v \in Workers : ~Busy(v, "idle") /\ work[v].event = e)
    BY DEF Claim, Take, Inv, Types
  <1>6. Types'
    BY <1>1, <1>2, <1>3, <1>4, <1>5 DEF Inv, Types
  <1>7. work'[w].pc \in {"check", "commit"} /\ work'[w].event = e
        /\ (c.key \notin dedupe => work'[w].pc = "check" /\ work'[w].cmd = c)
        /\ (c.key \in dedupe => work'[w].pc = "commit")
    BY <1>4
  <1>8. \A k \in Keys : ~Owns(work, w, k)
    BY <1>1, IdleJob DEF Owns
  <1>9. \A k \in Keys : Owns(work', w, k) <=> k = c.key /\ c.key \notin dedupe
    BY <1>7, IdleJob DEF Owns, Owning
  <1>10. OnceInv'
    <2>1. ASSUME NEW k \in Keys, k # c.key \/ c.key \in dedupe
          PROVE  OnceAt(k, dedupe', work', accepted', unaware')
      BY <1>1, <1>2, <1>4, <1>8, <1>9, <2>1, OnceElsewhere DEF Inv, OnceInv
    <2>2. ASSUME NEW k \in Keys, k = c.key, c.key \notin dedupe
          PROVE  OnceAt(k, dedupe', work', accepted', unaware')
      <3>1. \A v \in Workers \ {w} : ~Owns(work', v, k)
        BY <1>4, <2>2 DEF Others, Owns, OnceAt, Inv, OnceInv
      <3> QED
        BY <1>1, <1>2, <2>2, <3>1 DEF OnceAt, Inv, OnceInv
    <2> QED
      BY <2>1, <2>2 DEF OnceInv
  <1>11. ASSUME faults' = 0
         PROVE  Apart(work', acked') /\ NothingLost(dedupe', work', acked', outcomes')
    <2>1. Apart(work, acked) /\ NothingLost(dedupe, work, acked, outcomes)
      BY <1>5, <1>11 DEF Inv, DropInv
    <2>2. Apart(work', acked')
      BY <1>1, <1>4, <1>5, <1>7, <1>11, <2>1 DEF Apart, Others, Busy
    <2>3. \A k \in Keys : Owned(work, k) => Owned(work', k)
      BY <1>4, <1>8 DEF Owned, Owns, Others
    <2>4. Closed(outcomes', c.key) \/ Owned(work', c.key)
      <3>1. CASE c.key \in dedupe
        BY <1>1, <1>3, <2>1, <2>3, <3>1 DEF NothingLost
      <3>2. CASE c.key \notin dedupe
        BY <1>3, <1>9, <3>2 DEF Owned
      <3> QED
        BY <3>1, <3>2
    <2>5. \A f \in Events \ {e} : Committing(work', f) <=> Committing(work, f)
      BY <1>1, <1>4, <1>7 DEF Committing, Others
    <2>6. \A k \in Keys : Waiting(work, acked, k) => Waiting(work', acked', k) \/ k = c.key
      BY <1>1, <1>3, <2>5 DEF Waiting
    <2>7. \A k \in Keys : Accounted(work, acked, outcomes, k) => Accounted(work', acked', outcomes', k)
      BY <1>1, <2>3, <2>4, <2>6 DEF Accounted
    <2>8. \A k \in dedupe' : Closed(outcomes', k) \/ Owned(work', k)
      BY <1>1, <1>2, <2>1, <2>3, <2>4 DEF NothingLost, Inv, Types
    <2>9. Accounted(work', acked', outcomes', c.key)
      BY <2>4 DEF Accounted
    <2>10. NothingLost(dedupe', work', acked', outcomes')
      BY <1>1, <1>3, <2>1, <2>5, <2>7, <2>8, <2>9, LostNothing
    <2> QED
      BY <2>2, <2>10
  <1> QED
    BY <1>6, <1>10, <1>11 DEF Inv, DropInv

\* A worker is done with its key: the log says why.
LEMMA DoneKeeps ==
    ASSUME Inv, NEW w \in Workers, work[w].pc \in Owning,
           Goto(w, [pc |-> "commit", event |-> work[w].event]),
           NEW status \in Statuses \ {"RETRY"}, Logged(work[w].cmd.key, status),
           UNCHANGED <<dedupe, acked, faults>>,
           accepted' \in [Keys -> Nat], unaware' \in [Keys -> Nat],
           \A k \in Keys \ {work[w].cmd.key} : accepted'[k] = accepted[k] /\ unaware'[k] = unaware[k],
           accepted'[work[w].cmd.key] <= 1 + unaware'[work[w].cmd.key]
    PROVE  Inv'
  <1> DEFINE key == work[w].cmd.key
             e == work[w].event
  <1>1. key \in Keys /\ e \in Events /\ KeysOf(e) = {key}
    BY JobFacts DEF Inv
  <1>2. /\ work'[w] = [pc |-> "commit", event |-> e] /\ Others(w) /\ work' \in [Workers -> Jobs]
        /\ work'[w].pc = "commit" /\ work'[w].event = e
    BY <1>1, GotoFacts, PlainJobs DEF Inv, Others
  <1>3. /\ outcomes' \in [Keys -> SUBSET Statuses] /\ status \in outcomes'[key]
        /\ \A k \in Keys : outcomes[k] \subseteq outcomes'[k]
    BY <1>1 DEF Logged, Inv, Types
  <1>4. Types'
    BY <1>2, <1>3 DEF Inv, Types
  <1>5. \A k \in Keys : Owns(work, w, k) <=> k = key
    BY OwnsOne
  <1>6. \A k \in Keys : ~Owns(work', w, k)
    BY <1>2, IdleJob DEF Owns
  <1>7. OnceInv'
    <2>1. ASSUME NEW k \in Keys, k # key
          PROVE  OnceAt(k, dedupe', work', accepted', unaware')
      BY <1>2, <1>5, <1>6, <2>1, OnceElsewhere DEF Inv, OnceInv
    <2>2. OnceAt(key, dedupe', work', accepted', unaware')
      BY <1>1, <1>2, <1>5, <1>6, OnceLeft DEF Inv, OnceInv
    <2> QED
      BY <2>1, <2>2 DEF OnceInv
  <1>8. ASSUME faults' = 0
        PROVE  Apart(work', acked') /\ NothingLost(dedupe', work', acked', outcomes')
    <2>1. Apart(work, acked) /\ NothingLost(dedupe, work, acked, outcomes)
      BY <1>8 DEF Inv, DropInv
    <2>2. work[w].pc # "idle" /\ work[w].pc # "commit"
      BY IdleJob
    <2>3. Apart(work', acked')
      BY <1>2, <2>1, <2>2 DEF Apart, Others
    <2>4. Closed(outcomes', key) /\ \A k \in Keys : Closed(outcomes, k) => Closed(outcomes', k)
      BY <1>3 DEF Closed
    <2>5. \A k \in Keys \ {key} : Owned(work, k) => Owned(work', k)
      BY <1>2, <1>5 DEF Owned, Owns, Others
    <2>6. \A f \in Events \ {e} : Committing(work', f) <=> Committing(work, f)
      BY <1>2, <2>2 DEF Committing, Others
    <2> HIDE DEF key, e
    <2>7. \A k \in Keys \ {key} : Waiting(work, acked, k) => Waiting(work', acked', k)
      BY <1>1, <2>6 DEF Waiting
    <2>8. \A k \in Keys : Accounted(work, acked, outcomes, k) => Accounted(work', acked', outcomes', k)
      BY <2>4, <2>5, <2>7 DEF Accounted
    <2>9. \A k \in dedupe' : Closed(outcomes', k) \/ Owned(work', k)
      BY <2>1, <2>4, <2>5 DEF NothingLost, Inv, Types
    <2>10. Accounted(work', acked', outcomes', key)
      BY <2>4 DEF Accounted
    <2>11. NothingLost(dedupe', work', acked', outcomes')
      BY <1>1, <2>1, <2>6, <2>8, <2>9, <2>10, LostNothing
    <2> QED
      BY <2>3, <2>11
  <1> QED
    BY <1>4, <1>7, <1>8 DEF Inv, DropInv

\* A worker goes on with its key in hand.
LEMMA OnwardKeeps ==
    ASSUME Inv, NEW w \in Workers, work[w].pc \in Owning, NEW p \in Owning,
           Goto(w, [work[w] EXCEPT !.pc = p]),
           outcomes' \in [Keys -> SUBSET Statuses], \A k \in Keys : outcomes[k] \subseteq outcomes'[k],
           UNCHANGED <<dedupe, acked, faults>>,
           accepted' \in [Keys -> Nat], unaware' \in [Keys -> Nat],
           \A k \in Keys \ {work[w].cmd.key} : accepted'[k] = accepted[k] /\ unaware'[k] = unaware[k],
           accepted'[work[w].cmd.key] <= unaware'[work[w].cmd.key]
    PROVE  Inv'
  <1> DEFINE key == work[w].cmd.key
  <1>1. key \in Keys
    BY JobFacts DEF Inv
  <1>2. /\ Others(w) /\ work' \in [Workers -> Jobs] /\ work'[w].pc \in Owning
        /\ work'[w].event = work[w].event /\ work'[w].cmd = work[w].cmd
    <2> DEFINE next == [work[w] EXCEPT !.pc = p]
    <2>1. next \in Jobs /\ next.pc = p /\ next.event = work[w].event /\ next.cmd = work[w].cmd
      BY JobFacts DEF Inv
    <2> HIDE DEF next
    <2>2. Goto(w, next)
      BY DEF next
    <2> QED
      BY <2>1, <2>2, GotoFacts DEF Inv, Others
  <1>3. Types'
    BY <1>2 DEF Inv, Types
  <1>4. \A k \in Keys : (Owns(work, w, k) <=> k = key) /\ (Owns(work', w, k) <=> k = key)
    BY <1>2, OwnsOne DEF Owns
  <1>5. OnceInv'
    <2>1. ASSUME NEW k \in Keys, k # key
          PROVE  OnceAt(k, dedupe', work', accepted', unaware')
      BY <1>2, <1>4, <2>1, OnceElsewhere DEF Inv, OnceInv
    <2>2. OnceAt(key, dedupe', work', accepted', unaware')
      <3>1. accepted'[key] \in Nat /\ unaware'[key] \in Nat
        BY <1>1
      <3> QED
        BY <1>1, <1>2, <1>4, <3>1, OnceInHand DEF Inv, OnceInv
    <2> QED
      BY <2>1, <2>2 DEF OnceInv
  <1>6. ASSUME faults' = 0
        PROVE  Apart(work', acked') /\ NothingLost(dedupe', work', acked', outcomes')
    <2>1. Apart(work, acked) /\ NothingLost(dedupe, work, acked, outcomes)
      BY <1>6 DEF Inv, DropInv
    <2>2. work[w].pc \notin {"idle", "commit"} /\ work'[w].pc \notin {"idle", "commit"}
      BY <1>2, IdleJob
    <2>3. Apart(work', acked')
      BY <1>2, <2>1, <2>2 DEF Apart, Others
    <2>4. \A k \in Keys : Closed(outcomes, k) => Closed(outcomes', k)
      BY DEF Closed
    <2>5. \A k \in Keys : Owned(work, k) => Owned(work', k)
      BY <1>2 DEF Owned, Owns, Others
    <2>6. \A f \in Events : Committing(work', f) <=> Committing(work, f)
      BY <1>2, <2>2 DEF Committing, Others
    <2>7. \A k \in Keys : Waiting(work, acked, k) => Waiting(work', acked', k)
      BY <2>6 DEF Waiting
    <2>8. \A k \in Keys : Accounted(work, acked, outcomes, k) => Accounted(work', acked', outcomes', k)
      BY <2>4, <2>5, <2>7 DEF Accounted
    <2>9. \A k \in dedupe' : Closed(outcomes', k) \/ Owned(work', k)
      BY <2>1, <2>4, <2>5 DEF NothingLost, Inv, Types
    <2>10. NothingLost(dedupe', work', acked', outcomes')
      BY <2>1, <2>6, <2>8, <2>9, LostNothing
    <2> QED
      BY <2>3, <2>10
  <1> QED
    BY <1>3, <1>5, <1>6 DEF Inv, DropInv

\* While a key is in hand the provider took nothing but what the code cannot know of.
LEMMA InHand ==
    ASSUME Inv, NEW w \in Workers, work[w].pc \in Owning
    PROVE  LET key == work[w].cmd.key
           IN  /\ key \in Keys /\ accepted[key] \in Nat /\ unaware[key] \in Nat
               /\ accepted[key] <= unaware[key]
  <1>1. work[w].cmd.key \in Keys
    BY JobFacts DEF Inv
  <1>2. Owned(work, work[w].cmd.key)
    BY DEF Owned, Owns
  <1> QED
    BY <1>1, <1>2 DEF Inv, Types, OnceInv, OnceAt

LEMMA CheckKeeps ==
    ASSUME Inv, NEW w \in Workers, Check(w)
    PROVE  Inv'
  <1>1. /\ work[w].pc \in Owning
        /\ UNCHANGED <<dedupe, suppressed, acked, accepted, unaware, refusals, faults>>
    BY DEF Check, Busy, Owning
  <1>2. accepted' \in [Keys -> Nat] /\ unaware' \in [Keys -> Nat]
        /\ work[w].cmd.key \in Keys /\ accepted'[work[w].cmd.key] <= unaware'[work[w].cmd.key]
        /\ accepted'[work[w].cmd.key] <= 1 + unaware'[work[w].cmd.key]
    BY <1>1, InHand DEF Inv, Types
  <1>3. CASE Goto(w, [work[w] EXCEPT !.pc = "send"]) /\ UNCHANGED outcomes
    <2>1. "send" \in Owning /\ outcomes' \in [Keys -> SUBSET Statuses]
      BY <1>3 DEF Owning, Inv, Types
    <2> QED
      BY <1>1, <1>2, <1>3, <2>1, OnwardKeeps
  <1>4. ASSUME NEW reason \in Statuses \ {"RETRY"}, Logged(work[w].cmd.key, reason),
               Goto(w, [pc |-> "commit", event |-> work[w].event])
        PROVE  Inv'
    BY <1>1, <1>2, <1>4, DoneKeeps
  <1>5. ASSUME NEW cmd, NEW r, NEW night, NEW reason \in Suppressions(cmd, r, night)
        PROVE  reason \in Statuses \ {"RETRY"}
    <2>1. \/ Suppressions(cmd, r, night) = {"NO_ADDRESS"}
          \/ Suppressions(cmd, r, night) = {"OPTED_OUT"}
          \/ Suppressions(cmd, r, night) = {"QUIET_HOURS"}
          \/ Suppressions(cmd, r, night) = {"HARD_BOUNCED"}
          \/ Suppressions(cmd, r, night) = {}
      BY Zenon DEF Suppressions
    <2> QED
      BY <2>1 DEF Statuses
  <1>6. \/ Goto(w, [work[w] EXCEPT !.pc = "send"]) /\ UNCHANGED outcomes
        \/ /\ Goto(w, [pc |-> "commit", event |-> work[w].event])
           /\ \E r \in Recipients(work[w].cmd), night \in BOOLEAN :
                \E reason \in Suppressions(work[w].cmd, r, night) : Logged(work[w].cmd.key, reason)
    BY DEF Check
  <1> QED
    BY <1>3, <1>4, <1>5, <1>6

\* A provider that invites a retry either took nothing or answered 5xx.
LEMMA AnswerFacts ==
    ASSUME NEW channel, NEW a \in Answers(channel)
    PROVE  /\ Retriable(a[1]) => a[1] # "ok"
           /\ Retriable(a[1]) /\ a[2] => a = <<"5xx", TRUE>>
  <1>1. a \in {<<"ok", TRUE>>, <<"throttled", FALSE>>, <<"timeout", TRUE>>, <<"timeout", FALSE>>,
               <<"5xx", TRUE>>, <<"5xx", FALSE>>, <<"unimplemented", FALSE>>}
    BY Zenon DEF Answers
  <1>2. CASE a = <<"ok", TRUE>>
    BY <1>2 DEF Retriable
  <1>3. CASE a = <<"throttled", FALSE>>
    BY <1>3 DEF Retriable
  <1>4. CASE a = <<"timeout", TRUE>>
    BY <1>4 DEF Retriable
  <1>5. CASE a = <<"timeout", FALSE>>
    BY <1>5 DEF Retriable
  <1>6. CASE a = <<"5xx", TRUE>>
    BY <1>6 DEF Retriable
  <1>7. CASE a = <<"5xx", FALSE>>
    BY <1>7 DEF Retriable
  <1>8. CASE a = <<"unimplemented", FALSE>>
    BY <1>8 DEF Retriable
  <1> QED
    BY <1>1, <1>2, <1>3, <1>4, <1>5, <1>6, <1>7, <1>8

LEMMA SendKeeps ==
    ASSUME Inv, NEW w \in Workers, Send(w)
    PROVE  Inv'
  <1> DEFINE key == work[w].cmd.key
             Status(a) == IF a[1] = "ok" THEN "SENT"
                          ELSE IF Retriable(a[1]) THEN "RETRY" ELSE "FAILED"
  <1>1. work[w].pc \in Owning /\ UNCHANGED <<dedupe, suppressed, acked, faults>>
    BY DEF Send, Busy, Owning
  <1>2. PICK a \in Answers(work[w].cmd.channel) :
          /\ accepted' = [accepted EXCEPT ![key] = IF a[2] THEN @ + 1 ELSE @]
          /\ unaware' = [unaware EXCEPT ![key] = IF a = <<"5xx", TRUE>> THEN @ + 1 ELSE @]
          /\ Logged(key, Status(a))
          /\ IF Retriable(a[1])
             THEN /\ refusals < MaxRefusals /\ refusals' = refusals + 1
                  /\ Goto(w, [work[w] EXCEPT !.pc = "release"])
             ELSE /\ Goto(w, [pc |-> "commit", event |-> work[w].event])
                  /\ UNCHANGED refusals
    BY DEF Send
  <1>3. /\ key \in Keys /\ accepted[key] \in Nat /\ unaware[key] \in Nat
        /\ accepted[key] <= unaware[key]
        /\ accepted \in [Keys -> Nat] /\ unaware \in [Keys -> Nat]
        /\ outcomes \in [Keys -> SUBSET Statuses]
    BY <1>1, InHand DEF Inv, Types
  <1> DEFINE took == a[2]
             lied == a = <<"5xx", TRUE>>
             retry == Retriable(a[1])
             status == Status(a)
  <1>4. (retry /\ took => lied) /\ (retry => status = "RETRY")
        /\ (~retry => status \in Statuses \ {"RETRY"})
    <2>1. retry => a[1] # "ok"
      BY AnswerFacts
    <2>2. retry => status = "RETRY"
      BY <2>1, Zenon
    <2>3. ~retry => status = "SENT" \/ status = "FAILED"
      BY Zenon
    <2> QED
      BY <2>2, <2>3, AnswerFacts DEF Statuses
  <1>5. /\ accepted' = [accepted EXCEPT ![key] = IF took THEN @ + 1 ELSE @]
        /\ unaware' = [unaware EXCEPT ![key] = IF lied THEN @ + 1 ELSE @]
        /\ Logged(key, status)
        /\ retry => Goto(w, [work[w] EXCEPT !.pc = "release"])
        /\ ~retry => Goto(w, [pc |-> "commit", event |-> work[w].event])
    BY <1>2
  <1> HIDE DEF took, lied, retry, status
  <1>6. /\ accepted'[key] = (IF took THEN accepted[key] + 1 ELSE accepted[key])
        /\ unaware'[key] = (IF lied THEN unaware[key] + 1 ELSE unaware[key])
        /\ \A k \in Keys \ {key} : accepted'[k] = accepted[k] /\ unaware'[k] = unaware[k]
        /\ accepted' \in [Keys -> Nat] /\ unaware' \in [Keys -> Nat]
    BY <1>3, <1>5
  <1>7. CASE retry
    <2>1. accepted'[key] <= unaware'[key]
      BY <1>3, <1>4, <1>6, <1>7
    <2>2. outcomes' \in [Keys -> SUBSET Statuses] /\ \A k \in Keys : outcomes[k] \subseteq outcomes'[k]
      <3>1. status \in Statuses
        BY <1>4, <1>7 DEF Statuses
      <3> QED
        BY <1>3, <1>5, <3>1 DEF Logged
    <2>3. "release" \in Owning
      BY DEF Owning
    <2> QED
      BY <1>1, <1>5, <1>6, <1>7, <2>1, <2>2, <2>3, OnwardKeeps
  <1>8. CASE ~retry
    <2>1. accepted'[key] <= 1 + unaware'[key]
      BY <1>3, <1>6
    <2> QED
      BY <1>1, <1>4, <1>5, <1>6, <1>8, <2>1, DoneKeeps
  <1> QED
    BY <1>7, <1>8

\* A worker goes back to idle: after a release, a commit or a crash.
LEMMA IdleKeepsOnce ==
    ASSUME Inv, NEW w \in Workers, Others(w), work'[w] = Idle, NEW key \in Keys,
           \A k \in Keys \ {key} : /\ ~Owns(work, w, k) /\ (k \in dedupe' <=> k \in dedupe)
                                   /\ accepted'[k] = accepted[k] /\ unaware'[k] = unaware[k],
           OnceAt(key, dedupe', work', accepted', unaware')
    PROVE  OnceInv'
  <1>1. \A k \in Keys : ~Owns(work', w, k)
    BY IdleJob DEF Owns
  <1>2. ASSUME NEW k \in Keys, k # key
        PROVE  OnceAt(k, dedupe', work', accepted', unaware')
    BY <1>1, <1>2, OnceElsewhere DEF Inv, OnceInv
  <1> QED
    BY <1>2 DEF OnceInv

LEMMA ReleaseKeeps ==
    ASSUME Inv, NEW w \in Workers, Release(w)
    PROVE  Inv'
  <1> DEFINE key == work[w].cmd.key
             e == work[w].event
  <1>1. /\ work[w].pc \in Owning /\ Goto(w, Idle)
        /\ UNCHANGED <<suppressed, acked, accepted, unaware, outcomes, refusals>>
        /\ \/ dedupe' = dedupe \ {key} /\ UNCHANGED faults
           \/ UNCHANGED dedupe /\ faults' = faults + 1
    BY DEF Release, Busy, Owning
  <1>2. work'[w] = Idle /\ Others(w) /\ work' \in [Workers -> Jobs]
    BY <1>1, GotoFacts, IdleJob DEF Inv, Others
  <1>3. key \in Keys /\ e \in Events /\ KeysOf(e) = {key} /\ accepted[key] <= unaware[key]
    BY <1>1, JobFacts, InHand DEF Inv
  <1>4. Types'
    BY <1>1, <1>2 DEF Inv, Types
  <1>5. \A k \in Keys : (Owns(work, w, k) <=> k = key) /\ ~Owns(work', w, k)
    BY <1>1, <1>2, IdleJob DEF Owns
  <1>6. \A v \in Workers : ~Owns(work', v, key)
    BY <1>2, <1>3, <1>5 DEF Others, Owns, OnceAt, Inv, OnceInv
  <1>7. OnceInv'
    <2>1. OnceAt(key, dedupe', work', accepted', unaware')
      BY <1>1, <1>3, <1>6 DEF OnceAt, Owned, Inv, OnceInv
    <2> HIDE DEF key
    <2> QED
      BY <1>1, <1>2, <1>3, <1>5, <2>1, IdleKeepsOnce
  <1>8. ASSUME faults' = 0
        PROVE  Apart(work', acked') /\ NothingLost(dedupe', work', acked', outcomes')
    <2>1. faults = 0 /\ dedupe' = dedupe \ {key}
      BY <1>1, <1>8 DEF Inv, Types
    <2>2. Apart(work, acked) /\ NothingLost(dedupe, work, acked, outcomes)
      BY <2>1 DEF Inv, DropInv
    <2>3. work[w].pc # "idle" /\ work[w].pc # "commit" /\ work'[w].pc = "idle"
      BY <1>1, <1>2, IdleJob
    <2>4. Apart(work', acked')
      BY <1>1, <1>2, <2>2, <2>3 DEF Apart, Others
    <2>5. \A k \in Keys \ {key} : Owned(work, k) => Owned(work', k)
      BY <1>2, <1>5 DEF Owned, Owns, Others
    <2>6. \A f \in Events : Committing(work', f) <=> Committing(work, f)
      BY <1>2, <2>3 DEF Committing, Others
    <2>7. Waiting(work', acked', key)
      <3>1. e \notin acked /\ ~Committing(work, e)
        BY <2>2, <2>3 DEF Apart, Committing
      <3> QED
        BY <1>1, <1>3, <2>6, <3>1 DEF Waiting
    <2> HIDE DEF key, e
    <2>8. \A k \in Keys : Waiting(work, acked, k) => Waiting(work', acked', k)
      BY <1>1, <2>6 DEF Waiting
    <2>9. \A k \in Keys : Accounted(work, acked, outcomes, k) => Accounted(work', acked', outcomes', k)
      BY <1>1, <2>5, <2>7, <2>8 DEF Accounted
    <2>10. \A k \in dedupe' : Closed(outcomes', k) \/ Owned(work', k)
      BY <1>1, <2>1, <2>2, <2>5 DEF NothingLost, Inv, Types
    <2>11. NothingLost(dedupe', work', acked', outcomes')
      BY <1>1, <2>2, <2>6, <2>9, <2>10, LostNothing
    <2> QED
      BY <2>4, <2>11
  <1> QED
    BY <1>4, <1>7, <1>8 DEF Inv, DropInv

LEMMA CommitKeeps ==
    ASSUME Inv, NEW w \in Workers, Commit(w)
    PROVE  Inv'
  <1> DEFINE e == work[w].event
  <1>1. /\ work[w].pc = "commit" /\ Goto(w, Idle) /\ acked' = acked \union {e}
        /\ UNCHANGED <<dedupe, suppressed, accepted, unaware, outcomes, refusals, faults>>
    BY DEF Commit, Busy
  <1>2. work'[w] = Idle /\ Others(w) /\ work' \in [Workers -> Jobs] /\ work'[w].pc = "idle"
    BY <1>1, GotoFacts, IdleJob DEF Inv, Others
  <1>3. e \in Events
    BY <1>1, JobFacts DEF Inv
  <1>4. Types'
    BY <1>1, <1>2, <1>3 DEF Inv, Types
  <1>5. \A k \in Keys : ~Owns(work, w, k) /\ ~Owns(work', w, k)
    BY <1>1, <1>2, IdleJob DEF Owns
  <1>6. OnceInv'
    BY <1>1, <1>2, <1>5, OnceElsewhere DEF Inv, OnceInv
  <1>7. ASSUME faults' = 0
        PROVE  Apart(work', acked') /\ NothingLost(dedupe', work', acked', outcomes')
    <2>1. Apart(work, acked) /\ NothingLost(dedupe, work, acked, outcomes)
      BY <1>1, <1>7 DEF Inv, DropInv
    <2>2. Apart(work', acked')
      BY <1>1, <1>2, <2>1 DEF Apart, Others
    <2>3. \A k \in Keys : Owned(work, k) => Owned(work', k)
      BY <1>2, <1>5 DEF Owned, Owns, Others
    <2>4. /\ Committing(work, e) /\ \A f \in Events : Committing(work', f) => Committing(work, f)
      BY <1>1, <1>2 DEF Committing, Others
    <2> HIDE DEF e
    <2>5. \A k \in Keys : Waiting(work, acked, k) => Waiting(work', acked', k)
      BY <1>1, <2>4 DEF Waiting
    <2>6. \A k \in Keys : Accounted(work, acked, outcomes, k) => Accounted(work', acked', outcomes', k)
      BY <1>1, <2>3, <2>5 DEF Accounted
    <2>7. \A k \in dedupe' : Closed(outcomes', k) \/ Owned(work', k)
      BY <1>1, <2>1, <2>3 DEF NothingLost, Inv, Types
    <2>8. NothingLost(dedupe', work', acked', outcomes')
      BY <1>1, <2>1, <2>4, <2>6, <2>7, LostNothing
    <2> QED
      BY <2>2, <2>8
  <1> QED
    BY <1>4, <1>6, <1>7 DEF Inv, DropInv

LEMMA CrashKeeps ==
    ASSUME Inv, NEW w \in Workers, Crash(w)
    PROVE  Inv'
  <1> DEFINE key == work[w].cmd.key
  <1>1. /\ work[w].pc # "idle" /\ Goto(w, Idle) /\ faults' = faults + 1
        /\ UNCHANGED <<dedupe, suppressed, acked, unaware, outcomes, refusals>>
    BY DEF Crash, Busy
  <1>2. work'[w] = Idle /\ Others(w) /\ work' \in [Workers -> Jobs]
    BY <1>1, GotoFacts, IdleJob DEF Inv, Others
  <1>3. \A k \in Keys : ~Owns(work', w, k)
    BY <1>2, IdleJob DEF Owns
  <1>4. faults' \in Nat /\ faults' # 0
    BY <1>1 DEF Inv, Types
  <1>5. CASE work[w].pc \in Owning
    <2>1. key \in Keys /\ accepted[key] \in Nat /\ unaware[key] \in Nat /\ accepted[key] <= unaware[key]
      BY <1>5, InHand
    <2>2. accepted' = accepted \/ accepted' = [accepted EXCEPT ![key] = @ + 1]
      BY DEF Crash
    <2>3. /\ accepted' \in [Keys -> Nat] /\ accepted'[key] <= 1 + unaware'[key]
          /\ \A k \in Keys \ {key} : accepted'[k] = accepted[k]
      BY <1>1, <2>1, <2>2 DEF Inv, Types
    <2>4. Types'
      BY <1>1, <1>2, <1>4, <2>3 DEF Inv, Types
    <2>5. \A k \in Keys : Owns(work, w, k) <=> k = key
      BY <1>5, OwnsOne
    <2>6. OnceAt(key, dedupe', work', accepted', unaware')
      BY <1>1, <1>2, <1>3, <2>1, <2>3, <2>5, OnceLeft DEF Inv, OnceInv
    <2> HIDE DEF key
    <2>7. OnceInv'
      BY <1>1, <1>2, <2>1, <2>3, <2>5, <2>6, IdleKeepsOnce
    <2> QED
      BY <1>4, <2>4, <2>7 DEF Inv, DropInv
  <1>6. CASE work[w].pc \notin Owning
    <2>1. UNCHANGED accepted
      BY <1>6 DEF Crash, Busy, Owning
    <2>2. Types'
      BY <1>1, <1>2, <1>4, <2>1 DEF Inv, Types
    <2>3. \A k \in Keys : ~Owns(work, w, k)
      BY <1>6 DEF Owns
    <2>4. OnceInv'
      BY <1>1, <1>2, <1>3, <2>1, <2>3, OnceElsewhere DEF Inv, OnceInv
    <2> QED
      BY <1>4, <2>2, <2>4 DEF Inv, DropInv
  <1> QED
    BY <1>5, <1>6

LEMMA ClaimAnswerLostKeeps ==
    ASSUME Inv, NEW w \in Workers, NEW e \in Events, ClaimAnswerLost(w, e)
    PROVE  Inv'
  <1>1. UNCHANGED <<suppressed, work, acked, accepted, unaware, outcomes, refusals>>
        /\ faults' = faults + 1
    BY DEF ClaimAnswerLost
  <1>2. PICK c \in Commands(e) : c.key \notin dedupe /\ dedupe' = dedupe \union {c.key}
    BY DEF ClaimAnswerLost, Applied
  <1>3. c.key \in Keys
    BY KeyOfCommand
  <1>4. Types'
    BY <1>1, <1>2, <1>3 DEF Inv, Types
  <1>5. OnceInv'
    BY <1>1, <1>2, <1>3 DEF Inv, OnceInv, OnceAt, Owned
  <1>6. faults' # 0
    BY <1>1 DEF Inv, Types
  <1> QED
    BY <1>4, <1>5, <1>6 DEF Inv, DropInv

LEMMA SdkRetriesKeeps ==
    ASSUME Inv, NEW w \in Workers, SdkRetries(w)
    PROVE  Inv'
  <1> DEFINE key == work[w].cmd.key
  <1>1. work[w].pc \in Owning /\ UNCHANGED <<dedupe, work, acked, outcomes, faults>>
    BY DEF SdkRetries, Busy, Owning
  <1>2. PICK taken \in 0 .. 1 : /\ accepted' = [accepted EXCEPT ![key] = @ + taken]
                                /\ unaware' = [unaware EXCEPT ![key] = @ + taken]
    BY DEF SdkRetries
  <1>3. /\ key \in Keys /\ accepted[key] \in Nat /\ unaware[key] \in Nat /\ accepted[key] <= unaware[key]
        /\ accepted \in [Keys -> Nat] /\ unaware \in [Keys -> Nat]
    BY <1>1, InHand DEF Inv, Types
  <1> HIDE DEF key
  <1>4. /\ accepted' \in [Keys -> Nat] /\ unaware' \in [Keys -> Nat]
        /\ accepted'[key] <= unaware'[key]
        /\ \A k \in Keys \ {key} : accepted'[k] = accepted[k] /\ unaware'[k] = unaware[k]
    BY <1>2, <1>3
  <1>5. Types'
    BY <1>1, <1>4 DEF Inv, Types
  <1>6. OnceAt(key, dedupe', work', accepted', unaware')
    <2>1. accepted'[key] \in Nat /\ unaware'[key] \in Nat
      BY <1>3, <1>4
    <2>2. OnceAt(key, dedupe, work, accepted, unaware)
      BY <1>3 DEF Inv, OnceInv
    <2> QED
      BY <1>1, <1>4, <2>1, <2>2 DEF OnceAt
  <1>7. OnceInv'
    BY <1>1, <1>4, <1>6 DEF Inv, OnceInv, OnceAt
  <1> QED
    BY <1>1, <1>5, <1>7 DEF Inv, DropInv

LEMMA ClaimExpiresKeeps ==
    ASSUME Inv, NEW key \in Keys, ClaimExpires(key)
    PROVE  Inv'
  <1>1. /\ UNCHANGED <<work, acked, accepted, outcomes, faults>>
        /\ dedupe' = dedupe \ {key} /\ unaware' = [unaware EXCEPT ![key] = accepted[key]]
    BY DEF ClaimExpires
  <1>2. Types' /\ unaware'[key] = accepted[key] /\ \A k \in Keys \ {key} : unaware'[k] = unaware[k]
    BY <1>1 DEF Inv, Types
  <1>3. \A w \in Workers : ~Owns(work, w, key)
    BY DEF ClaimExpires, Owns, Owning
  <1>4. OnceAt(key, dedupe', work', accepted', unaware')
    <2>1. accepted[key] \in Nat
      BY DEF Inv, Types
    <2> QED
      BY <1>1, <1>2, <1>3, <2>1 DEF OnceAt, Owned
  <1>5. OnceInv'
    BY <1>1, <1>2, <1>4 DEF Inv, OnceInv, OnceAt
  <1>6. DropInv'
    BY <1>1 DEF Inv, DropInv, NothingLost
  <1> QED
    BY <1>2, <1>5, <1>6 DEF Inv

LEMMA InvStep ==
    ASSUME Inv, [Next]_vars
    PROVE  Inv'
  <1>1. CASE Bounce \/ UNCHANGED vars
    <2>1. UNCHANGED <<dedupe, work, acked, accepted, unaware, outcomes, faults>>
      BY <1>1 DEF Bounce, vars
    <2> QED
      BY <2>1 DEF Inv, Types, OnceInv, DropInv
  <1> QED
    BY <1>1, SkipKeeps, ClaimKeeps, CheckKeeps, SendKeeps, ReleaseKeeps, CommitKeeps, CrashKeeps,
       ClaimAnswerLostKeeps, SdkRetriesKeeps, ClaimExpiresKeeps DEF Next, Step

LEMMA InvInit ==
    ASSUME Init
    PROVE  Inv
  <1>1. \A w \in Workers : work[w] = Idle
    BY DEF Init
  <1>2. Types
    BY IdleJob DEF Init, Types
  <1>3. OnceInv
    BY <1>1, IdleJob DEF Init, OnceInv, OnceAt, Owns, Owned
  <1>4. DropInv
    BY <1>1, IdleJob DEF Init, DropInv, Apart, NothingLost, Committing
  <1> QED
    BY <1>2, <1>3, <1>4 DEF Inv

LEMMA InvHolds == Spec => []Inv
  <1>1. Init => Inv
    BY InvInit
  <1>2. Inv /\ [Next]_vars => Inv'
    BY InvStep
  <1> QED
    BY <1>1, <1>2, PTL DEF Spec

\* deliver() sends one message per key at most, whatever is delivered again, by
\* however many pods, and however they crash; a second one goes out only where the
\* provider denied the first with 5xx, the SDK repeated it or its claim expired.
THEOREM OneMessagePerKey == Spec => []SentOnce
  <1>1. Inv => SentOnce
    BY DEF Inv, OnceInv, OnceAt, SentOnce
  <1> QED
    BY <1>1, InvHolds, PTL

\* Without faults the dedupe claim never swallows a message: an event whose
\* offset is committed was sent, failed or suppressed on the record, or its key
\* is in hand or will be taken again.
THEOREM NothingIsDropped == Spec => []NoSilentDrop
  <1>1. Inv => NoSilentDrop
    <2> SUFFICES ASSUME Inv, faults = 0, NEW e \in acked, NEW c \in Commands(e)
                 PROVE  \/ outcomes[c.key] \ {"RETRY"} # {}
                        \/ \E w \in Workers : work[w].pc \in {"check", "send", "release"}
                                              /\ work[w].cmd.key = c.key
                        \/ \E f \in Events \ acked : c.key \in {d.key : d \in Commands(f)}
      BY DEF NoSilentDrop
    <2>1. e \in Events
      BY DEF Inv, Types
    <2>2. c.key \in KeysOf(e)
      BY DEF KeysOf
    <2>3. Accounted(work, acked, outcomes, c.key)
      BY <2>1, <2>2 DEF Inv, DropInv, NothingLost
    <2> QED
      BY <2>3 DEF Accounted, Closed, Owned, Owns, Owning, Waiting, KeysOf
  <1> QED
    BY <1>1, InvHolds, PTL
=============================================================================
