------------------------------ MODULE Reviews ------------------------------
(***************************************************************************)
(* review-service for one product: submitting and moderating, the          *)
(* rating summary kept incrementally, the projection of confirmed orders   *)
(* behind the "verified" badge and the paged listing (reviews.ts,          *)
(* rating.ts, index.ts).  MongoDB makes single operations atomic and       *)
(* nothing more: every await is a step boundary.                           *)
(***************************************************************************)
EXTENDS Integers, FiniteSetsExt

CONSTANTS
    Users,
    Buyers,        \* the users who may order the product
    ReviewIds,     \* ids that POST /v1/reviews may mint
    Ratings,       \* star ratings in use, within 1 .. 5
    Moderators,    \* moderation requests served concurrently
    PageSize,      \* opts.limit of the listing
    MaxModerations \* bound: moderation and rebuild requests

ASSUME ReviewsAssumption ==
    /\ Ratings \subseteq 1 .. 5
    /\ Buyers \subseteq Users
    /\ PageSize \in Nat \ {0}
    /\ MaxModerations \in Nat

VARIABLES
    reviews,       \* the collection; a status "none" stands for no document
    summary,       \* the product's document in rating_summaries
    purchases,     \* users with a purchase record of the product
    author,        \* create(): users between the purchase lookup and the insert
    mod,           \* the moderation and rebuild requests under way
    moderations,   \* bound: how many there were
    raced,         \* history: two requests met in a way that breaks the count
    reader         \* somebody who pages through the listing

vars == <<reviews, summary, purchases, author, mod, moderations, raced, reader>>

Statuses == {"PENDING_MODERATION", "PUBLISHED", "REJECTED"}
NoReview == [status |-> "none"]
Exists(id) == reviews[id].status # "none"
Published == {id \in ReviewIds : reviews[id].status = "PUBLISHED"}
EmptyDistribution == [s \in 1 .. 5 |-> 0]
NoSummary == [shape |-> "none", distribution |-> EmptyDistribution, count |-> 0,
              verifiedCount |-> 0, average |-> 0]
Free == [pc |-> "idle"]
NoReader == [pc |-> "idle"]

Init ==
    /\ reviews = [id \in ReviewIds |-> NoReview]
    /\ summary = NoSummary
    /\ purchases = {}
    /\ author = [u \in Users |-> Free]
    /\ mod = [m \in Moderators |-> Free]
    /\ moderations = 0
    /\ raced = FALSE
    /\ reader = NoReader

-----------------------------------------------------------------------------
(* rating.ts: summarise(), the average in tenths, rounded half up. *)
Count(distribution) == MapThenSumSet(LAMBDA s : distribution[s], 1 .. 5)
Weighted(distribution) == MapThenSumSet(LAMBDA s : s * distribution[s], 1 .. 5)
Average(distribution) ==
    LET n == Count(distribution)
        sign == IF n < 0 THEN -1 ELSE 1
    IN  IF n = 0 THEN 0
        ELSE (20 * sign * Weighted(distribution) + sign * n) \div (2 * sign * n)

(* Mutant: the index covers published reviews only. *)
LivePublished(user) == {id \in Published : reviews[id].user = user}

(* The unique partial index: the reviews of a user that are not rejected. *)
Live(user) == {id \in ReviewIds : Exists(id) /\ reviews[id].user = user
                                  /\ reviews[id].status # "REJECTED"}

(* The consumer of the order topic records a purchase for every item an event
   lists, keyed by user and product, so that a redelivery changes nothing.  An
   event without items, or one whose handling throws, records nothing. *)
RecordPurchase(u) ==
    /\ u \in Buyers \ purchases
    /\ purchases' = purchases \union {u}
    /\ UNCHANGED <<reviews, summary, author, mod, moderations, raced, reader>>

(* The purchase_ttl index. *)
PurchaseExpires(u) ==
    /\ u \in purchases
    /\ purchases' = purchases \ {u}
    /\ UNCHANGED <<reviews, summary, author, mod, moderations, raced, reader>>

(* create(): hasPurchased(), ... *)
CreateBegin(u) ==
    /\ author[u] = Free
    /\ \E id \in ReviewIds : ~Exists(id)
    /\ author' = [author EXCEPT ![u] = [pc |-> "insert", verified |-> u \in purchases]]
    /\ UNCHANGED <<reviews, summary, purchases, mod, moderations, raced, reader>>

(* ... then insertOne(), which the unique index may reject.  Two reviews may
   carry the same millisecond. *)
Latest == Max({0} \union {reviews[id].createdAt : id \in {i \in ReviewIds : Exists(i)}})

CreateInsert(u, rating) ==
    /\ author[u] # Free
    /\ author' = [author EXCEPT ![u] = Free]
    /\ \/ /\ Live(u) = {}
          /\ \E id \in ReviewIds, at \in {Latest, Latest + 1} :
               /\ ~Exists(id)
               /\ reviews' = [reviews EXCEPT ![id] =
                    [status |-> "PENDING_MODERATION", user |-> u, rating |-> rating,
                     verified |-> author[u].verified, createdAt |-> at]]
       \/ Live(u) # {} /\ UNCHANGED reviews
    /\ UNCHANGED <<summary, purchases, mod, moderations, raced, reader>>

-----------------------------------------------------------------------------
(* moderate(): findOne(), with the early return when nothing changes. *)
ModerateFind(m, id, decision) ==
    /\ mod[m] = Free /\ moderations < MaxModerations
    /\ Exists(id) /\ reviews[id].status # decision
    /\ mod' = [mod EXCEPT ![m] = [pc |-> "update", id |-> id, decision |-> decision,
                                  before |-> reviews[id].status]]
    /\ moderations' = moderations + 1
    /\ UNCHANGED <<reviews, summary, purchases, author, raced, reader>>

(* A rebuild that has read the reviews no longer sees what changes. *)
Outdated == [m \in Moderators |->
    IF mod[m].pc = "replace" THEN [mod[m] EXCEPT !.overlapped = TRUE] ELSE mod[m]]

(* updateOne() by id alone, whatever the status is by now; only the unique index
   can refuse, and then the request ends. *)
ModerateUpdate(m) ==
    LET q == mod[m]
        counted == q.before = "PUBLISHED"
        counts  == q.decision = "PUBLISHED"
        refused == /\ counts /\ reviews[q.id].status = "REJECTED"
                   /\ Live(reviews[q.id].user) # {}
    IN  /\ q.pc = "update"
        /\ \/ /\ refused
              /\ mod' = [mod EXCEPT ![m] = Free]
              /\ UNCHANGED <<reviews, raced, reader>>
           \/ /\ ~refused
              /\ reviews' = [reviews EXCEPT ![q.id].status = q.decision]
              /\ mod' = [Outdated EXCEPT ![m] =
                           IF counted = counts THEN Free
                           ELSE [pc |-> "inc", id |-> q.id, delta |-> IF counts THEN 1 ELSE -1]]
              /\ raced' = (raced \/ reviews[q.id].status # q.before)
              /\ reader' = IF reader.pc = "paging" /\ ~counts
                           THEN [reader EXCEPT !.stable = @ \ {q.id}] ELSE reader
        /\ UNCHANGED <<summary, purchases, author, moderations>>

(* Mutant: the bucket is off by one. *)
BucketShifted(rating) == IF rating = 5 THEN 5 ELSE rating + 1

(* bucketFor() *)
Bucket(rating) == rating

(* applyRatingDelta(): $inc, which creates the document if there is none.  MongoDB
   creates "distribution.<n>" of a new document as an object, not as an array. *)
DeltaInc(m) ==
    LET q == mod[m]
        r == reviews[q.id]
    IN  /\ q.pc = "inc"
        /\ summary' = [summary EXCEPT
              !.shape = IF @ = "none" THEN "object" ELSE @,
              !.distribution[Bucket(r.rating)] = @ + q.delta,
              !.count = @ + q.delta,
              !.verifiedCount = IF r.verified THEN @ + q.delta ELSE @]
        /\ mod' = [Outdated EXCEPT ![m] = [pc |-> "read"]]
        /\ UNCHANGED <<reviews, purchases, author, moderations, raced, reader>>

(* ... findOne() and summarise(), which throws on an object, ... *)
DeltaRead(m) ==
    /\ mod[m].pc = "read"
    /\ mod' = [mod EXCEPT ![m] = IF summary.shape = "array"
                                 THEN [pc |-> "set", distribution |-> summary.distribution]
                                 ELSE Free]
    /\ UNCHANGED <<reviews, summary, purchases, author, moderations, raced, reader>>

(* ... and $set of the average and the count. *)
DeltaSet(m) ==
    /\ mod[m].pc = "set"
    /\ summary' = [summary EXCEPT !.average = Average(mod[m].distribution),
                                  !.count = Count(mod[m].distribution)]
    /\ mod' = [mod EXCEPT ![m] = Free]
    /\ UNCHANGED <<reviews, purchases, author, moderations, raced, reader>>

(* rebuildSummary(): the aggregation, ... *)
RebuildRead(m) ==
    LET dist == [s \in 1 .. 5 |-> Cardinality({id \in Published : reviews[id].rating = s})]
    IN  /\ mod[m] = Free /\ moderations < MaxModerations
        /\ mod' = [mod EXCEPT ![m] =
             [pc |-> "replace", overlapped |-> \E n \in Moderators : mod[n].pc = "inc",
              new |-> [shape |-> "array", distribution |-> dist, count |-> Count(dist),
                       verifiedCount |-> Cardinality({id \in Published : reviews[id].verified}),
                       average |-> Average(dist)]]]
        /\ moderations' = moderations + 1
        /\ UNCHANGED <<reviews, summary, purchases, author, raced, reader>>

(* ... then replaceOne(). *)
RebuildReplace(m) ==
    /\ mod[m].pc = "replace"
    /\ summary' = mod[m].new
    /\ raced' = (raced \/ mod[m].overlapped)
    /\ mod' = [Outdated EXCEPT ![m] = Free]
    /\ UNCHANGED <<reviews, purchases, author, moderations, reader>>

(* A request dies, or MongoDB fails, between two steps. *)
ModeratorDies(m) ==
    /\ mod[m] # Free
    /\ mod' = [mod EXCEPT ![m] = Free]
    /\ raced' = (raced \/ mod[m].pc = "inc")
    /\ UNCHANGED <<reviews, summary, purchases, author, moderations, reader>>

-----------------------------------------------------------------------------
(* Mutant: the filter includes the cursor itself. *)
ListedInclusive(before) == {id \in Published : reviews[id].createdAt <= before}

(* listForProduct(): published reviews older than the cursor, newest first. *)
Listed(before) == {id \in Published : reviews[id].createdAt < before}

(* The pages that a sort by createdAt may produce: the newest PageSize. *)
Pages(before) ==
    {p \in SUBSET Listed(before) :
        /\ Cardinality(p) = Min({PageSize, Cardinality(Listed(before))})
        /\ \A i \in p, j \in Listed(before) \ p : reviews[i].createdAt >= reviews[j].createdAt}

(* The oldest of a page, which the cursor is made of. *)
Oldest(page) == Min({reviews[id].createdAt : id \in page})

OpenListing ==
    /\ reader.pc = "idle" /\ Published # {}
    /\ reader' = [pc |-> "paging", cursor |-> Latest + 1, seen |-> {}, twice |-> FALSE,
                  tied |-> {}, stable |-> Published]
    /\ UNCHANGED <<reviews, summary, purchases, author, mod, moderations, raced>>

(* One request for a page; "tied" are the reviews that share the millisecond of
   the cursor with the last of the page and did not fit. *)
NextPage ==
    /\ reader.pc = "paging"
    /\ \E page \in Pages(reader.cursor) :
         LET rest == Listed(reader.cursor) \ page
             at   == Oldest(page)
         IN  reader' = [reader EXCEPT
               !.pc     = IF rest = {} THEN "done" ELSE "paging",
               !.cursor = IF rest = {} THEN @ ELSE at,
               !.twice  = @ \/ page \cap reader.seen # {},
               !.seen   = @ \union page,
               !.tied   = @ \union {id \in rest : reviews[id].createdAt = at}]
    /\ UNCHANGED <<reviews, summary, purchases, author, mod, moderations, raced>>

Next ==
    \/ \E u \in Users : \/ RecordPurchase(u)
                        \/ PurchaseExpires(u)
                        \/ CreateBegin(u)
                        \/ \E rating \in Ratings : CreateInsert(u, rating)
    \/ \E m \in Moderators :
         \/ \E id \in ReviewIds, d \in {"PUBLISHED", "REJECTED"} : ModerateFind(m, id, d)
         \/ ModerateUpdate(m) \/ DeltaInc(m) \/ DeltaRead(m) \/ DeltaSet(m)
         \/ RebuildRead(m) \/ RebuildReplace(m) \/ ModeratorDies(m)
    \/ OpenListing \/ NextPage

Spec == Init /\ [][Next]_vars

-----------------------------------------------------------------------------
(* Decisions that are written and not yet counted, up or down. *)
Uncounted(s, delta) ==
    {m \in Moderators : mod[m].pc = "inc" /\ mod[m].delta = delta /\ reviews[mod[m].id].rating = s}
Pending(s) == Cardinality(Uncounted(s, 1)) - Cardinality(Uncounted(s, -1))

(* moderate() keeps the star histogram equal to the published reviews, however
   many moderators decide on different reviews of the product at once and
   whatever is published, withdrawn or resubmitted.  The exceptions are a
   decision written over another moderator's, a request that dies between the
   two writes, and a rebuild that overlaps a moderation. *)
HistogramIsExact ==
    raced \/ \A s \in 1 .. 5 :
        summary.distribution[s] + Pending(s)
            = Cardinality({id \in Published : reviews[id].rating = s})

(* One review per user and product that is not rejected, in every interleaving
   of submissions, rejections, resubmissions and late publications. *)
OneLiveReview ==
    \A i, j \in ReviewIds :
        /\ Exists(i) /\ reviews[i].status # "REJECTED"
        /\ Exists(j) /\ reviews[j].status # "REJECTED"
        /\ reviews[i].user = reviews[j].user
        => i = j

(* The cursor makes paging exact while reviews appear and disappear: nothing is
   listed twice, and who reads to the end has seen every review that was
   published throughout, except those that share a millisecond with the last
   of a page. *)
PagingIsExact ==
    reader.pc # "idle" =>
        /\ ~reader.twice
        /\ reader.pc = "done" => reader.stable \subseteq reader.seen \union reader.tied
=============================================================================
