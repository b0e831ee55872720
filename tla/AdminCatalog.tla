---------------------------- MODULE AdminCatalog ----------------------------
(***************************************************************************)
(* Merchandising: the catalogue page of the admin app with its status and  *)
(* price controls, the route handlers under api/admin/catalog, and behind  *)
(* them catalog-service: the product row with its version, the variant row *)
(* with its price, the outbox and the relay to the compacted topic.  One   *)
(* product with one variant.                                               *)
(*                                                                         *)
(* Every edit is one READ COMMITTED transaction: its first statement locks *)
(* the row it changes, then the product is read again for the event, then  *)
(* it commits.  An edit keeps what it wrote to itself until it commits.    *)
(***************************************************************************)
EXTENDS AdminApi, FiniteSets, Sequences, SequencesExt

CONSTANTS
    Operators,       \* people at the admin app
    Relays,          \* replicas of catalog-service that run the outbox relay
    Statuses,        \* of a product, DISCONTINUED is treated as DRAFT is
    Prices,          \* prices, as small numbers
    MaxAttempts,     \* MAX_ATTEMPTS of the relay
    MaxEdits,        \* bound: edits sent
    MaxAdminFaults   \* bound: calls, connections, pods and sends that fail

ASSUME AdminCatalogAssumption ==
    /\ {"ACTIVE", "ARCHIVED"} \subseteq Statuses
    /\ Prices \subseteq Nat /\ Prices # {}
    /\ MaxAttempts \in Nat /\ MaxEdits \in Nat /\ MaxAdminFaults \in Nat

VARIABLES
    product,    \* products: status and version
    variant,    \* variants: price and list price, 0 for none
    edits,      \* the edits by number, each with its request and its transaction
    pages,      \* the row as each operator's page shows it
    waits,      \* the edit each control of an operator waits for, 0 for none
    outbox,     \* its rows in the order of their ids
    relays,     \* ids of the batch each relay still has to send
    topic,      \* id of the last message on the topic, 0 for none
    changes,    \* history: the price_changed events in the order of their commits
    crossed,    \* history: a transaction read for its event while another's event was not committed
    reordered,  \* history: a message was sent after a newer one
    faults

catalogVars ==
    <<product, variant, edits, pages, waits, outbox, relays, topic, changes, crossed, reordered, faults>>

Numbers == 1 .. MaxEdits
Controls == {"status", "price"}
NoEdit == [pc |-> "none"]
Current == [status |-> product.status, version |-> product.version,
            price |-> variant.price, list |-> variant.list]

(* A product that was published before the operators open their pages. *)
AdminCatalogInit ==
    /\ product = [status |-> "ACTIVE", version |-> 0]
    /\ \E p \in Prices, l \in Prices \union {0} :
         (l = 0 \/ l >= p) /\ variant = [price |-> p, list |-> l]
    /\ edits = [n \in Numbers |-> NoEdit]
    /\ pages = [o \in Operators |-> Current]
    /\ waits = [o \in Operators |-> [c \in Controls |-> 0]]
    /\ outbox = <<>> /\ relays = [r \in Relays |-> {}] /\ topic = 0
    /\ changes = <<>> /\ crossed = FALSE /\ reordered = FALSE /\ faults = 0

Used == {n \in Numbers : edits[n].pc # "none"}
NextNumber == Cardinality(Used) + 1
AdminFault == faults < MaxAdminFaults /\ faults' = faults + 1

-----------------------------------------------------------------------------
(* The page. *)

Request(n, edit) == edits' = [edits EXCEPT ![n] = edit]

(* Mutant: the product is read again and its fresh version sent. *)
FreshVersion(o) == product.version

(* The version that goes with a change of status: the one of the row on display. *)
SentVersion(o) == pages[o].version

(* change(): another status than the one on display; the menu is disabled while
   it waits. *)
ChangeStatus(o) ==
    /\ waits[o]["status"] = 0 /\ NextNumber \in Numbers
    /\ \E s \in Statuses \ {pages[o].status} :
         Request(NextNumber, [pc |-> "route", op |-> "status", status |-> s,
                              version |-> SentVersion(o), seen |-> pages[o].status])
    /\ waits' = [waits EXCEPT ![o]["status"] = NextNumber]
    /\ UNCHANGED <<product, variant, pages, outbox, relays, topic, changes, crossed, reordered, faults>>

(* save(), with a reason and a price that is not above the reference price on
   display, which goes with it. *)
SavePrice(o) ==
    /\ waits[o]["price"] = 0 /\ NextNumber \in Numbers
    /\ \E p \in Prices :
         /\ pages[o].list = 0 \/ p <= pages[o].list
         /\ Request(NextNumber, [pc |-> "route", op |-> "price", price |-> p,
                                 list |-> pages[o].list, old |-> 0])
    /\ waits' = [waits EXCEPT ![o]["price"] = NextNumber]
    /\ UNCHANGED <<product, variant, pages, outbox, relays, topic, changes, crossed, reordered, faults>>

(* DELETE, which no page offers and another client of the API may use. *)
SendArchive ==
    /\ NextNumber \in Numbers
    /\ Request(NextNumber, [pc |-> "route", op |-> "archive"])
    /\ UNCHANGED <<product, variant, pages, waits, outbox, relays, topic, changes, crossed, reordered, faults>>

(* The table is rendered anew, with what catalog-service has committed; when the
   call fails the panel is unavailable and the row stays as it was. *)
RenderCatalog(o) ==
    /\ pages[o] # Current
    /\ pages' = [pages EXCEPT ![o] = Current]
    /\ UNCHANGED <<product, variant, edits, waits, outbox, relays, topic, changes, crossed, reordered, faults>>

-----------------------------------------------------------------------------
(* The route handlers and ProductService. *)

Answer(n, status) ==
    edits' = [edits EXCEPT ![n] = [pc |-> "answered", ok |-> RouteStatus(status) = 200]]

(* withAdmin() *)
Guard(n) ==
    /\ edits[n].pc = "route"
    /\ \E status \in GuardStatuses :
         IF status = 200 THEN edits' = [edits EXCEPT ![n].pc = "call"] ELSE Answer(n, status)
    /\ UNCHANGED <<product, variant, pages, waits, outbox, relays, topic, changes, crossed, reordered, faults>>

(* Edits of the same row whose transactions hold its lock. *)
OnProduct(n) == edits[n].op \in {"status", "archive"}
Locks(m) == edits[m].pc \in {"read", "written", "enqueued"}
Locked(n) == \E m \in Used \ {n} : Locks(m) /\ OnProduct(m) = OnProduct(n)

(* updateProduct: the version is compared in the statement that writes. *)
UpdateProduct(n) ==
    /\ edits[n].pc = "call" /\ edits[n].op = "status" /\ ~Locked(n)
    /\ IF edits[n].version = product.version THEN edits' = [edits EXCEPT ![n].pc = "written"]
       ELSE Answer(n, 409)
    /\ UNCHANGED <<product, variant, pages, waits, outbox, relays, topic, changes, crossed, reordered, faults>>

(* archive: no version, and a product that is archived is not found. *)
ArchiveProduct(n) ==
    /\ edits[n].pc = "call" /\ edits[n].op = "archive" /\ ~Locked(n)
    /\ IF product.status # "ARCHIVED" THEN edits' = [edits EXCEPT ![n].pc = "written"]
       ELSE Answer(n, 404)
    /\ UNCHANGED <<product, variant, pages, waits, outbox, relays, topic, changes, crossed, reordered, faults>>

(* Mutant: a plain SELECT. *)
PlainSelect(n) == TRUE

(* SELECT ... FOR UPDATE *)
ForUpdate(n) == ~Locked(n)

(* changePrice: the old price is read (the control has seen to it that the
   reference price is not below the new one), *)
ReadPrice(n) ==
    /\ edits[n].pc = "call" /\ edits[n].op = "price" /\ ForUpdate(n)
    /\ edits' = [edits EXCEPT ![n].pc = "read", ![n].old = variant.price]
    /\ UNCHANGED <<product, variant, pages, waits, outbox, relays, topic, changes, crossed, reordered, faults>>

(* and the row is written. *)
WritePrice(n) ==
    /\ edits[n].pc = "read"
    /\ ~\E m \in Used \ {n} : edits[m].pc \in {"written", "enqueued"} /\ edits[m].op = "price"
    /\ edits' = [edits EXCEPT ![n].pc = "written"]
    /\ UNCHANGED <<product, variant, pages, waits, outbox, relays, topic, changes, crossed, reordered, faults>>

(* What the transaction of an edit has made of the rows. *)
ProductOf(n) ==
    CASE edits[n].op = "status"  -> [status |-> edits[n].status, version |-> product.version + 1]
      [] edits[n].op = "archive" -> [status |-> "ARCHIVED", version |-> product.version + 1]
      [] OTHER                   -> product
VariantOf(n) == IF edits[n].op = "price" THEN [price |-> edits[n].price, list |-> edits[n].list] ELSE variant

Message(n, kind) ==
    [kind |-> kind, edit |-> n, published |-> FALSE, attempts |-> 0,
     status |-> ProductOf(n).status, price |-> VariantOf(n).price, list |-> VariantOf(n).list]

(* Mutant: a price change tells the price only. *)
PriceChangedOnly(n) == <<Message(n, "price_changed")>>

(* The events of a price change: the narrow one and the snapshot. *)
PriceEvents(n) == <<Message(n, "price_changed"), Message(n, "upserted")>>

(* priceChanged, productUpserted and productDeleted with its tombstone: the product
   as the transaction sees it is put into the outbox, where nobody else sees it
   before the commit. *)
Enqueue(n) ==
    /\ edits[n].pc = "written"
    /\ outbox' = outbox \o CASE edits[n].op = "price"   -> PriceEvents(n)
                             [] edits[n].op = "archive" -> <<Message(n, "deleted"), Message(n, "tombstone")>>
                             [] OTHER                   -> <<Message(n, "upserted")>>
    /\ edits' = [edits EXCEPT ![n].pc = "enqueued"]
    /\ crossed' = (crossed \/ \E m \in Used : edits[m].pc = "enqueued")
    /\ UNCHANGED <<product, variant, pages, waits, relays, topic, changes, reordered, faults>>

CommitEdit(n) ==
    /\ edits[n].pc = "enqueued"
    /\ product' = ProductOf(n) /\ variant' = VariantOf(n)
    /\ changes' = IF edits[n].op = "price"
                  THEN Append(changes, [old |-> edits[n].old, new |-> edits[n].price]) ELSE changes
    /\ Answer(n, 200)
    /\ UNCHANGED <<pages, waits, outbox, relays, topic, crossed, reordered, faults>>

(* The pod dies: what was not committed is rolled back, ids that were drawn stay
   drawn. *)
EditFails(n) ==
    /\ edits[n].pc \in {"call", "read", "written", "enqueued"} /\ AdminFault
    /\ \E status \in AdminCall({}) : Answer(n, status)
    /\ outbox' = [i \in DOMAIN outbox |->
                    IF outbox[i].edit = n THEN [outbox[i] EXCEPT !.kind = "none"] ELSE outbox[i]]
    /\ UNCHANGED <<product, variant, pages, waits, relays, topic, changes, crossed, reordered>>

-----------------------------------------------------------------------------
(* The answer reaches its control: done, somebody else was faster, or an error;
   whichever it was, the control is free and the page may be rendered anew. *)
ControlAnswered(o, c) ==
    /\ waits[o][c] > 0 /\ edits[waits[o][c]].pc = "answered"
    /\ waits' = [waits EXCEPT ![o][c] = 0]
    /\ UNCHANGED <<product, variant, edits, pages, outbox, relays, topic, changes, crossed, reordered, faults>>

(* adminCall() gives up after ten seconds, or the browser loses the connection, and
   the edit goes on. *)
ControlGivesUp(o, c) ==
    /\ waits[o][c] > 0 /\ AdminFault
    /\ waits' = [waits EXCEPT ![o][c] = 0]
    /\ UNCHANGED <<product, variant, edits, pages, outbox, relays, topic, changes, crossed, reordered>>

-----------------------------------------------------------------------------
(* OutboxRelay. *)

Committed(i) == outbox[i].kind # "none" /\ edits[outbox[i].edit].pc = "answered"
Unpublished == {i \in DOMAIN outbox : Committed(i) /\ ~outbox[i].published}

(* publishBatch, called from within its class and so outside a transaction: the
   locks of its SELECT are gone when it returns.  A row that was tried MaxAttempts
   times is parked. *)
Batch == {i \in Unpublished : outbox[i].attempts < MaxAttempts}
ReadBatch(r) ==
    /\ relays[r] = {} /\ Batch # {}
    /\ relays' = [relays EXCEPT ![r] = Batch]
    /\ UNCHANGED <<product, variant, edits, pages, waits, outbox, topic, changes, crossed, reordered, faults>>

(* The rows of a batch are sent and marked in the order of their ids.  When the send
   fails, is not confirmed in ten seconds or the mark is not written, the message may
   be on the topic or not: the attempt is counted, the row is left for a later batch
   and the loop goes on with the next. *)
SendRow(r) ==
    \E i \in relays[r] :
      /\ \A j \in relays[r] : i <= j
      /\ relays' = [relays EXCEPT ![r] = @ \ {i}]
      /\ \/ /\ topic' = i
            /\ outbox' = [outbox EXCEPT ![i].published = TRUE]
            /\ UNCHANGED faults
         \/ /\ AdminFault
            /\ topic' \in {topic, i}
            /\ outbox' = [outbox EXCEPT ![i].attempts = @ + 1]
      /\ reordered' = (reordered \/ topic' < topic)
      /\ UNCHANGED <<product, variant, edits, pages, waits, changes, crossed>>

-----------------------------------------------------------------------------
EditGoesOn(n) ==
    \/ Guard(n) \/ UpdateProduct(n) \/ ArchiveProduct(n) \/ ReadPrice(n) \/ WritePrice(n)
    \/ Enqueue(n) \/ CommitEdit(n)

CatalogGoesOn ==
    \/ \E n \in Used : EditGoesOn(n)
    \/ \E o \in Operators, c \in Controls : ControlAnswered(o, c)

AdminCatalogNext ==
    \/ \E o \in Operators : ChangeStatus(o) \/ SavePrice(o) \/ RenderCatalog(o)
    \/ SendArchive
    \/ CatalogGoesOn
    \/ \E n \in Used : EditFails(n)
    \/ \E o \in Operators, c \in Controls : ControlGivesUp(o, c)
    \/ \E r \in Relays : ReadBatch(r) \/ SendRow(r)

(* Handlers run on, and a lock is held no longer than its transaction. *)
AdminCatalogSpec ==
    AdminCatalogInit /\ [][AdminCatalogNext]_catalogVars /\ WF_catalogVars(CatalogGoesOn)

-----------------------------------------------------------------------------
Commits(n) == edits[n].pc = "enqueued" /\ edits'[n].pc = "answered" /\ edits'[n].ok

(* "retrying would reapply the change against a product the operator never looked
   at": a change of status replaces the status that was on display when it was
   chosen, whatever was saved, archived or lost meanwhile. *)
StatusChangesWhatWasSeen ==
    [][\A n \in Numbers : Commits(n) /\ edits[n].op = "status" => product.status = edits[n].seen]_catalogVars

(* "one of the two history rows would record a transition that never happened": the
   announced price changes form a chain that ends at the price. *)
PriceChangesChain ==
    /\ \A i \in 1 .. Len(changes) - 1 : changes[i].new = changes[i + 1].old
    /\ changes # <<>> => Last(changes).new = variant.price

(* Every row is published and no edit is open. *)
AllPublished == Unpublished = {} /\ topic > 0 /\ \A n \in Used : ~Locks(n)

(* What compaction keeps of the topic is the product as it is, or a tombstone for
   an archived one. *)
LastMessageIsCurrent ==
    LET last == outbox[topic]
    IN  \/ last.kind = "tombstone" /\ product.status = "ARCHIVED"
        \/ /\ last.kind = "upserted" /\ last.status = product.status
           /\ last.price = variant.price /\ last.list = variant.list

(* "That message therefore has to be the full current state", once everything is
   published.  Two exceptions are the code's: a price change and a product change
   whose transactions each read the product before the other committed, and a
   message sent after a newer one (a failed send, a second relay). *)
TopicIsCurrent == AllPublished /\ ~crossed /\ ~reordered => LastMessageIsCurrent
=============================================================================
