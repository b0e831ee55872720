---------------------------- MODULE ReviewProofs ----------------------------
(***************************************************************************)
(* Proofs about module Reviews, for every set of users, reviews, ratings   *)
(* and moderators and every page size.                                     *)
(***************************************************************************)
EXTENDS Reviews, FiniteSetTheorems, WellFoundedInduction, TLAPS

-----------------------------------------------------------------------------
(* Types.                                                                  *)

Documents ==
    [status : Statuses, user : Users, rating : Ratings, verified : BOOLEAN, createdAt : Nat]

\* A document of rating_summaries, of which only the histogram matters here.
Summary(sh, d, c, v, a) ==
    [shape |-> sh, distribution |-> d, count |-> c, verifiedCount |-> v, average |-> a]
Histograms == [1 .. 5 -> Int]
IsSummary(x) == \E d \in Histograms : \E sh, c, v, a : x = Summary(sh, d, c, v, a)

Updates == [pc : {"update"}, id : ReviewIds, decision : {"PUBLISHED", "REJECTED"}, before : Statuses]
Incs == [pc : {"inc"}, id : ReviewIds, delta : {1, -1}]
IsReplace(x) ==
    \E o \in BOOLEAN : \E n : x = [pc |-> "replace", overlapped |-> o, new |-> n] /\ IsSummary(n)
IsRequest(x) ==
    \/ x = Free \/ x \in Updates \/ x \in Incs \/ x = [pc |-> "read"]
    \/ \E d : x = [pc |-> "set", distribution |-> d]
    \/ IsReplace(x)

DocumentTypes == reviews \in [ReviewIds -> {NoReview} \union Documents]
AuthorTypes == author \in [Users -> {Free} \union [pc : {"insert"}, verified : BOOLEAN]]
RequestTypes ==
    /\ mod = [m \in Moderators |-> mod[m]]
    /\ \A m \in Moderators : IsRequest(mod[m])

\* A request that decides on a review found it.
FoundInv == \A m \in Moderators : mod[m].pc \in {"update", "inc"} => reviews[mod[m].id].status # "none"

Types == DocumentTypes /\ AuthorTypes /\ RequestTypes /\ IsSummary(summary) /\ FoundInv

LEMMA DocumentFacts ==
    ASSUME DocumentTypes, NEW id \in ReviewIds
    PROVE  /\ NoReview.status = "none"
           /\ reviews[id].status # "none" <=> reviews[id] \in Documents
           /\ reviews[id] \in Documents =>
                /\ reviews[id].status \in Statuses /\ reviews[id].user \in Users
                /\ reviews[id].rating \in 1 .. 5 /\ reviews[id].createdAt \in Nat
  <1>1. reviews[id] = NoReview \/ reviews[id] \in Documents
    BY DEF DocumentTypes
  <1>2. NoReview.status = "none"
    BY DEF NoReview
  <1>3. ASSUME reviews[id] \in Documents
        PROVE  /\ reviews[id].status \in Statuses /\ reviews[id].status # "none"
               /\ reviews[id].user \in Users /\ reviews[id].rating \in 1 .. 5
               /\ reviews[id].createdAt \in Nat
    <2>1. reviews[id].rating \in 1 .. 5
      BY <1>3, ReviewsAssumption DEF Documents
    <2> QED
      BY <1>3, <2>1 DEF Documents, Statuses
  <1> QED
    BY <1>1, <1>2, <1>3

LEMMA SummaryFields ==
    ASSUME NEW sh, NEW d, NEW c, NEW v, NEW a
    PROVE  /\ Summary(sh, d, c, v, a).distribution = d
           /\ d \in Histograms => IsSummary(Summary(sh, d, c, v, a))
  BY DEF Summary, IsSummary

LEMMA SummaryFacts ==
    ASSUME NEW x, IsSummary(x)
    PROVE  x.distribution \in Histograms
  BY SummaryFields DEF IsSummary

LEMMA RequestFacts ==
    ASSUME RequestTypes, NEW m \in Moderators
    PROVE  /\ mod[m].pc \in {"idle", "update", "inc", "read", "set", "replace"}
           /\ mod[m].pc = "idle" <=> mod[m] = Free
           /\ mod[m].pc = "update" => mod[m] \in Updates
           /\ mod[m].pc = "inc" => mod[m] \in Incs
           /\ mod[m].pc = "replace" => IsReplace(mod[m])
  BY DEF RequestTypes, IsRequest, Free, Updates, Incs, IsReplace

LEMMA Overlap ==
    ASSUME NEW p, NEW o, NEW n, NEW b
    PROVE  [[pc |-> p, overlapped |-> o, new |-> n] EXCEPT !.overlapped = b]
             = [pc |-> p, overlapped |-> b, new |-> n]
  OBVIOUS

LEMMA ReplaceFacts ==
    ASSUME NEW x, IsReplace(x)
    PROVE  /\ x.pc = "replace" /\ x.overlapped \in BOOLEAN /\ IsSummary(x.new)
           /\ [x EXCEPT !.overlapped = TRUE] = [pc |-> "replace", overlapped |-> TRUE, new |-> x.new]
  <1>0. PICK o \in BOOLEAN : \E n : x = [pc |-> "replace", overlapped |-> o, new |-> n] /\ IsSummary(n)
    BY DEF IsReplace
  <1>1. PICK n : x = [pc |-> "replace", overlapped |-> o, new |-> n] /\ IsSummary(n)
    BY <1>0
  <1>2. x.pc = "replace" /\ x.new = n
    BY <1>1
  <1>3. x.overlapped = o
    BY <1>1
  <1>4. [x EXCEPT !.overlapped = TRUE] = [pc |-> "replace", overlapped |-> TRUE, new |-> n]
    <2>1. PICK b : b = TRUE
      OBVIOUS
    <2>2. [x EXCEPT !.overlapped = b] = [pc |-> "replace", overlapped |-> b, new |-> n]
      BY <1>1, Overlap
    <2> QED
      BY <2>1, <2>2, Zenon
  <1>5. x.overlapped \in BOOLEAN
    BY <1>3
  <1> QED
    BY <1>1, <1>2, <1>4, <1>5

\* What Outdated leaves of the requests other than m.
Bumped(m) ==
    \A n \in Moderators \ {m} :
        /\ mod'[n].pc = mod[n].pc
        /\ mod[n].pc # "replace" => mod'[n] = mod[n]
        /\ mod[n].pc = "replace" => mod'[n].overlapped /\ mod'[n].new = mod[n].new
Alone(m) == \A n \in Moderators \ {m} : mod'[n] = mod[n]

LEMMA BumpedFacts ==
    ASSUME RequestTypes, NEW m \in Moderators, NEW next, IsRequest(next),
           mod' = [Outdated EXCEPT ![m] = next]
    PROVE  mod'[m] = next /\ Bumped(m) /\ RequestTypes'
  <1>1. Outdated = [n \in Moderators |-> Outdated[n]]
        /\ \A n \in Moderators : Outdated[n] =
             IF mod[n].pc = "replace" THEN [mod[n] EXCEPT !.overlapped = TRUE] ELSE mod[n]
    BY DEF Outdated
  <1>2. mod'[m] = next /\ (\A n \in Moderators \ {m} : mod'[n] = Outdated[n])
        /\ mod' = [n \in Moderators |-> mod'[n]]
    BY <1>1
  <1>3. ASSUME NEW n \in Moderators, mod[n].pc = "replace"
        PROVE  /\ Outdated[n] = [pc |-> "replace", overlapped |-> TRUE, new |-> mod[n].new]
               /\ IsSummary(mod[n].new)
    BY <1>1, <1>3, RequestFacts, ReplaceFacts
  <1>4. ASSUME NEW n \in Moderators, mod[n].pc = "replace"
        PROVE  /\ IsRequest(Outdated[n]) /\ Outdated[n].pc = "replace"
               /\ Outdated[n].overlapped /\ Outdated[n].new = mod[n].new
    <2>1. Outdated[n] = [pc |-> "replace", overlapped |-> TRUE, new |-> mod[n].new]
          /\ IsSummary(mod[n].new)
      BY <1>3, <1>4
    <2>2. IsReplace(Outdated[n])
      BY <2>1 DEF IsReplace
    <2> QED
      BY <2>1, <2>2 DEF IsRequest
  <1>5. Bumped(m)
    BY <1>1, <1>2, <1>4 DEF Bumped
  <1>6. \A n \in Moderators : IsRequest(mod'[n])
    BY <1>1, <1>2, <1>4 DEF RequestTypes
  <1> QED
    BY <1>2, <1>5, <1>6 DEF RequestTypes

LEMMA AloneFacts ==
    ASSUME RequestTypes, NEW m \in Moderators, NEW next, IsRequest(next),
           mod' = [mod EXCEPT ![m] = next]
    PROVE  mod'[m] = next /\ Alone(m) /\ RequestTypes'
  <1>1. mod'[m] = next /\ Alone(m) /\ mod' = [n \in Moderators |-> mod'[n]]
    BY DEF RequestTypes, Alone
  <1> QED
    BY <1>1 DEF RequestTypes, Alone
-----------------------------------------------------------------------------
(* What the actions do to the collection.                                  *)

\* Times that reviews carry; Latest is the greatest.
Times(R) == {0} \union {R[id].createdAt : id \in {i \in ReviewIds : R[i].status # "none"}}
LatestInv == \E x \in Times(reviews) : \A y \in Times(reviews) : y <= x

LEMMA TimesAreNat ==
    ASSUME DocumentTypes
    PROVE  Times(reviews) \subseteq Nat
  BY DocumentFacts DEF Times

LEMMA LatestFacts ==
    ASSUME DocumentTypes, LatestInv
    PROVE  Latest \in Times(reviews) /\ Latest \in Nat /\ \A y \in Times(reviews) : y <= Latest
  <1>1. Latest = Max(Times(reviews))
    BY DEF Latest, Times, Exists
  <1>2. Max(Times(reviews)) \in Times(reviews) /\ \A y \in Times(reviews) : y <= Max(Times(reviews))
    <2> DEFINE T == Times(reviews)
    <2>1. \E x \in T : \A y \in T : x >= y
      BY TimesAreNat DEF LatestInv
    <2> HIDE DEF T
    <2>2. Max(T) \in T /\ \A y \in T : Max(T) >= y
      BY <2>1 DEF Max
    <2> QED
      BY <2>2, TimesAreNat DEF T
  <1> QED
    BY <1>1, <1>2, TimesAreNat

Inserted(id, u) ==
    /\ reviews[id].status = "none"
    /\ reviews'[id] \in Documents /\ reviews'[id].status = "PENDING_MODERATION"
    /\ reviews'[id].user = u
    /\ \A y \in Times(reviews) : y <= reviews'[id].createdAt
    /\ \A i \in ReviewIds \ {id} : reviews'[i] = reviews[i]
    /\ DocumentTypes'

Decided(id, d) ==
    /\ reviews[id].status # "none"
    /\ reviews'[id].status = d
    /\ reviews'[id].user = reviews[id].user /\ reviews'[id].rating = reviews[id].rating
    /\ reviews'[id].createdAt = reviews[id].createdAt
    /\ \A i \in ReviewIds \ {id} : reviews'[i] = reviews[i]
    /\ DocumentTypes'

LEMMA InsertFacts ==
    ASSUME Types, LatestInv, NEW u \in Users, NEW rating \in Ratings, CreateInsert(u, rating)
    PROVE  /\ UNCHANGED <<summary, purchases, mod, moderations, raced, reader>>
           /\ AuthorTypes'
           /\ \/ UNCHANGED reviews
              \/ Live(u) = {} /\ \E id \in ReviewIds : Inserted(id, u)
  <1>1. UNCHANGED <<summary, purchases, mod, moderations, raced, reader>> /\ AuthorTypes'
    BY DEF CreateInsert, Types, AuthorTypes
  <1>2. CASE UNCHANGED reviews
    BY <1>1, <1>2
  <1>3. ASSUME Live(u) = {}, NEW id \in ReviewIds, NEW at \in {Latest, Latest + 1}, ~Exists(id),
               reviews' = [reviews EXCEPT ![id] =
                    [status |-> "PENDING_MODERATION", user |-> u, rating |-> rating,
                     verified |-> author[u].verified, createdAt |-> at]]
        PROVE  Inserted(id, u)
    <2>1. author[u].verified \in BOOLEAN
      BY DEF Types, AuthorTypes, CreateInsert
    <2>2. at \in Nat /\ \A y \in Times(reviews) : y <= at
      BY <1>3, LatestFacts, TimesAreNat DEF Types
    <2> DEFINE doc == [status |-> "PENDING_MODERATION", user |-> u, rating |-> rating,
                       verified |-> author[u].verified, createdAt |-> at]
    <2>3. doc \in Documents
      BY <2>1, <2>2 DEF Documents, Statuses
    <2>4. doc.status = "PENDING_MODERATION" /\ doc.user = u /\ doc.createdAt = at
      OBVIOUS
    <2>5. reviews' = [reviews EXCEPT ![id] = doc]
      BY <1>3
    <2> HIDE DEF doc
    <2>6. reviews'[id] = doc /\ (\A i \in ReviewIds \ {id} : reviews'[i] = reviews[i]) /\ DocumentTypes'
      BY <2>3, <2>5 DEF Types, DocumentTypes
    <2> QED
      BY <1>3, <2>2, <2>3, <2>4, <2>6 DEF Inserted, Exists
  <1> QED
    BY <1>1, <1>2, <1>3 DEF CreateInsert

LEMMA UpdateFacts ==
    ASSUME Types, NEW m \in Moderators, ModerateUpdate(m)
    PROVE  LET q == mod[m]
               counted == q.before = "PUBLISHED"
               counts  == q.decision = "PUBLISHED"
           IN  /\ q \in Updates /\ reviews[q.id].status # "none"
               /\ UNCHANGED <<summary, purchases, author, moderations>>
               /\ \/ mod' = [mod EXCEPT ![m] = Free] /\ UNCHANGED <<reviews, raced, reader>>
                  \/ /\ Decided(q.id, q.decision)
                     /\ counts /\ reviews[q.id].status = "REJECTED" => Live(reviews[q.id].user) = {}
                     /\ mod' = [Outdated EXCEPT ![m] =
                                  IF counted = counts THEN Free
                                  ELSE [pc |-> "inc", id |-> q.id, delta |-> IF counts THEN 1 ELSE -1]]
                     /\ raced' = (raced \/ reviews[q.id].status # q.before)
                     /\ reader' = IF reader.pc = "paging" /\ ~counts
                                  THEN [reader EXCEPT !.stable = @ \ {q.id}] ELSE reader
  <1> DEFINE q == mod[m]
  <1>1. q \in Updates /\ reviews[q.id].status # "none"
    BY RequestFacts DEF ModerateUpdate, Types, FoundInv
  <1>2. ASSUME reviews' = [reviews EXCEPT ![q.id].status = q.decision]
        PROVE  Decided(q.id, q.decision)
    <2>1. q.id \in ReviewIds /\ q.decision \in Statuses /\ reviews[q.id] \in Documents
      BY <1>1, DocumentFacts DEF Types, Updates, Statuses
    <2> DEFINE doc == [reviews[q.id] EXCEPT !.status = q.decision]
    <2>2. /\ doc \in Documents /\ doc.status = q.decision /\ doc.user = reviews[q.id].user
          /\ doc.rating = reviews[q.id].rating /\ doc.createdAt = reviews[q.id].createdAt
      BY <2>1 DEF Documents
    <2>3. reviews' = [reviews EXCEPT ![q.id] = doc]
      BY <1>2
    <2> HIDE DEF doc, q
    <2>4. /\ reviews'[q.id] = doc /\ (\A i \in ReviewIds \ {q.id} : reviews'[i] = reviews[i])
          /\ DocumentTypes'
      BY <2>1, <2>2, <2>3 DEF Types, DocumentTypes
    <2> QED
      BY <1>1, <2>2, <2>4 DEF Decided
  <1> QED
    BY <1>1, <1>2 DEF ModerateUpdate

\* Steps that change neither the collection nor the requests.
LEMMA QuietFacts ==
    ASSUME Types,
           \/ \E u \in Users : RecordPurchase(u) \/ PurchaseExpires(u) \/ CreateBegin(u)
           \/ OpenListing \/ NextPage \/ UNCHANGED vars
    PROVE  UNCHANGED <<reviews, summary, mod, raced>> /\ AuthorTypes'
  <1>1. ASSUME NEW u \in Users, CreateBegin(u)
        PROVE  AuthorTypes'
    <2>1. (u \in purchases) \in BOOLEAN
      OBVIOUS
    <2> QED
      BY <1>1, <2>1 DEF CreateBegin, Types, AuthorTypes
  <1> QED
    BY <1>1 DEF RecordPurchase, PurchaseExpires, CreateBegin, OpenListing, NextPage, vars, Types,
                AuthorTypes
-----------------------------------------------------------------------------
(* Types are kept, and so is that only finitely many reviews and increments *)
(* exist, that Latest exists and that a decision is about a review.        *)

Stored(R) == {id \in ReviewIds : R[id].status # "none"}
Incrementing(M) == {m \in Moderators : M[m].pc = "inc"}
FiniteInv == IsFiniteSet(Stored(reviews)) /\ IsFiniteSet(Incrementing(mod))

RatedAt(R, s) == {id \in ReviewIds : R[id].status = "PUBLISHED" /\ R[id].rating = s}

Base == Types /\ LatestInv /\ FiniteInv

LEMMA RatedIsFinite ==
    ASSUME FiniteInv, NEW s \in 1 .. 5
    PROVE  IsFiniteSet(RatedAt(reviews, s)) /\ Cardinality(RatedAt(reviews, s)) \in Nat
  <1>1. RatedAt(reviews, s) \subseteq Stored(reviews)
    BY DEF RatedAt, Stored
  <1> QED
    BY <1>1, FS_Subset, FS_CardinalityType DEF FiniteInv

LEMMA IncFacts ==
    ASSUME Types, NEW m \in Moderators, DeltaInc(m)
    PROVE  LET q == mod[m]
               s == reviews[q.id].rating
           IN  /\ q \in Incs /\ s \in 1 .. 5
               /\ summary'.distribution = [summary.distribution EXCEPT ![s] = @ + q.delta]
               /\ IsSummary(summary')
               /\ mod' = [Outdated EXCEPT ![m] = [pc |-> "read"]]
               /\ UNCHANGED <<reviews, purchases, author, moderations, raced, reader>>
  <1> DEFINE q == mod[m]
             r == reviews[q.id]
  <1>1. q \in Incs /\ r \in Documents
    BY RequestFacts, DocumentFacts DEF DeltaInc, Types, FoundInv, Incs
  <1>2. r.rating \in 1 .. 5 /\ q.delta \in Int
    <2>1. r.rating \in 1 .. 5
      BY <1>1, ReviewsAssumption DEF Documents
    <2>2. q.delta \in {1, -1}
      BY <1>1 DEF Incs
    <2> HIDE DEF q, r
    <2> QED
      BY <2>1, <2>2
  <1>0. PICK d \in Histograms : \E sh, c, v, a : summary = Summary(sh, d, c, v, a)
    BY DEF Types, IsSummary
  <1>3. PICK sh, c, v, a : summary = Summary(sh, d, c, v, a)
    BY <1>0
  <1> DEFINE nd == [d EXCEPT ![r.rating] = @ + q.delta]
             nsh == IF sh = "none" THEN "object" ELSE sh
             nv == IF r.verified THEN v + q.delta ELSE v
  <1>4. nd \in Histograms
    BY <1>2 DEF Histograms
  <1>5. summary' = [summary EXCEPT !.shape = IF @ = "none" THEN "object" ELSE @,
              !.distribution[r.rating] = @ + q.delta,
              !.count = @ + q.delta,
              !.verifiedCount = IF r.verified THEN @ + q.delta ELSE @]
    BY DEF DeltaInc, Bucket
  <1>6. summary' = Summary(nsh, nd, c + q.delta, nv, a)
    <2>1. summary.shape = sh /\ summary.distribution = d /\ summary.count = c
          /\ summary.verifiedCount = v
      BY <1>3 DEF Summary
    <2>2. summary' = [summary EXCEPT !.shape = nsh, !.distribution = nd, !.count = c + q.delta,
                                     !.verifiedCount = nv]
      BY <1>5, <2>1
    <2> HIDE DEF q, r, nd, nsh, nv
    <2> QED
      BY <1>3, <2>2 DEF Summary
  <1> HIDE DEF nd, nsh, nv
  <1>7. IsSummary(summary') /\ summary'.distribution = nd /\ summary.distribution = d
    BY <1>3, <1>4, <1>6, SummaryFields DEF IsSummary
  <1> QED
    BY <1>1, <1>2, <1>7 DEF DeltaInc, nd

LEMMA SetFacts ==
    ASSUME Types, NEW m \in Moderators, DeltaSet(m)
    PROVE  IsSummary(summary') /\ summary'.distribution = summary.distribution
  <1>0. PICK d \in Histograms : \E sh, c, v, a : summary = Summary(sh, d, c, v, a)
    BY DEF Types, IsSummary
  <1>1. PICK sh, c, v, a : summary = Summary(sh, d, c, v, a)
    BY <1>0
  <1> DEFINE na == Average(mod[m].distribution)
             nc == Count(mod[m].distribution)
  <1>2. summary' = [summary EXCEPT !.average = na, !.count = nc]
    BY DEF DeltaSet
  <1> HIDE DEF na, nc
  <1>3. summary' = Summary(sh, d, nc, v, na)
    BY <1>1, <1>2 DEF Summary
  <1> QED
    BY <1>1, <1>3, SummaryFields DEF IsSummary

LEMMA RebuildFacts ==
    ASSUME Base, NEW m \in Moderators, RebuildRead(m)
    PROVE  \E new :
             /\ IsSummary(new)
             /\ \A s \in 1 .. 5 : new.distribution[s] = Cardinality(RatedAt(reviews, s))
             /\ mod' = [mod EXCEPT ![m] = [pc |-> "replace",
                          overlapped |-> \E n \in Moderators : mod[n].pc = "inc", new |-> new]]
             /\ UNCHANGED <<reviews, summary, author, raced, reader>>
  <1> DEFINE dist == [s \in 1 .. 5 |-> Cardinality({id \in Published : reviews[id].rating = s})]
             v == Cardinality({id \in Published : reviews[id].verified})
             new == Summary("array", dist, Count(dist), v, Average(dist))
  <1>1. \A s \in 1 .. 5 : {id \in Published : reviews[id].rating = s} = RatedAt(reviews, s)
    BY DEF Published, RatedAt
  <1>2. \A s \in 1 .. 5 : dist[s] = Cardinality(RatedAt(reviews, s))
    BY <1>1
  <1>3. \A s \in 1 .. 5 : Cardinality(RatedAt(reviews, s)) \in Int
    BY RatedIsFinite DEF Base
  <1>4. dist \in Histograms
    BY <1>1, <1>3 DEF Histograms
  <1>5. mod' = [mod EXCEPT ![m] = [pc |-> "replace",
                     overlapped |-> \E n \in Moderators : mod[n].pc = "inc", new |-> new]]
        /\ UNCHANGED <<reviews, summary, author, raced, reader>>
    BY DEF RebuildRead, Summary
  <1> HIDE DEF dist
  <1>6. IsSummary(new) /\ new.distribution = dist
    <2> HIDE DEF v
    <2> QED
      BY <1>4, SummaryFields
  <1> HIDE DEF new
  <1> QED
    BY <1>2, <1>5, <1>6, Zenon

LEMMA CollectionKept ==
    ASSUME Base,
           \/ UNCHANGED reviews
           \/ \E id \in ReviewIds, u \in Users : Inserted(id, u)
           \/ \E id \in ReviewIds, d \in {"PUBLISHED", "REJECTED"} : Decided(id, d)
    PROVE  /\ DocumentTypes' /\ LatestInv' /\ IsFiniteSet(Stored(reviews'))
           /\ Stored(reviews) \subseteq Stored(reviews')
  <1>t. DocumentTypes /\ LatestInv /\ IsFiniteSet(Stored(reviews))
    BY DEF Base, Types, FiniteInv
  <1>1. CASE UNCHANGED reviews
    BY <1>1, <1>t DEF DocumentTypes, LatestInv, Times
  <1>2. ASSUME NEW id \in ReviewIds, NEW u \in Users, Inserted(id, u)
        PROVE  /\ DocumentTypes' /\ LatestInv' /\ IsFiniteSet(Stored(reviews'))
               /\ Stored(reviews) \subseteq Stored(reviews')
    <2>1. Stored(reviews') = Stored(reviews) \union {id}
      BY <1>2 DEF Inserted, Stored
    <2>2. IsFiniteSet(Stored(reviews'))
      BY <1>t, <2>1, FS_AddElement
    <2>3. Times(reviews') = Times(reviews) \union {reviews'[id].createdAt}
      BY <1>2 DEF Inserted, Times
    <2>4. reviews'[id].createdAt \in Nat
      BY <1>2 DEF Inserted, Documents
    <2>5. LatestInv'
      BY <1>2, <2>3, <2>4 DEF LatestInv, Inserted
    <2> QED
      BY <1>2, <2>1, <2>2, <2>5 DEF Inserted
  <1>3. ASSUME NEW id \in ReviewIds, NEW d \in {"PUBLISHED", "REJECTED"}, Decided(id, d)
        PROVE  /\ DocumentTypes' /\ LatestInv' /\ IsFiniteSet(Stored(reviews'))
               /\ Stored(reviews) \subseteq Stored(reviews')
    <2>1. Stored(reviews') = Stored(reviews)
      BY <1>3 DEF Decided, Stored
    <2>2. Times(reviews') = Times(reviews)
      <3>1. \A i \in ReviewIds : reviews'[i].createdAt = reviews[i].createdAt
        BY <1>3 DEF Decided
      <3> QED
        BY <2>1, <3>1 DEF Times, Stored
    <2> QED
      BY <1>3, <1>t, <2>1, <2>2 DEF Decided, LatestInv
  <1> QED
    BY <1>1, <1>2, <1>3

\* One request moves on; the others stay or are told of it.
LEMMA RequestsKept ==
    ASSUME Base, NEW m \in Moderators, Alone(m) \/ Bumped(m), RequestTypes',
           Stored(reviews) \subseteq Stored(reviews'),
           mod'[m].pc \in {"update", "inc"} => mod'[m].id \in Stored(reviews')
    PROVE  FoundInv' /\ IsFiniteSet(Incrementing(mod'))
  <1>1. \A n \in Moderators \ {m} : mod'[n].pc = mod[n].pc /\ (mod[n].pc # "replace" => mod'[n] = mod[n])
    BY DEF Alone, Bumped
  <1>2. Incrementing(mod') \subseteq Incrementing(mod) \union {m}
    BY <1>1 DEF Incrementing
  <1>3. IsFiniteSet(Incrementing(mod) \union {m})
    BY FS_AddElement DEF Base, FiniteInv
  <1>4. ASSUME NEW n \in Moderators, mod'[n].pc \in {"update", "inc"}
        PROVE  reviews'[mod'[n].id].status # "none"
    <2>1. CASE n = m
      BY <1>4, <2>1 DEF Stored
    <2>2. CASE n # m
      <3>1. mod'[n] = mod[n]
        BY <1>1, <1>4, <2>2
      <3>2. mod[n].id \in ReviewIds
        BY <1>4, <3>1, RequestFacts DEF Base, Types, Updates, Incs
      <3> QED
        BY <1>4, <3>1, <3>2 DEF Base, Types, FoundInv, Stored
    <2> QED
      BY <2>1, <2>2
  <1> QED
    BY <1>2, <1>3, <1>4, FS_Subset DEF FoundInv

LEMMA BaseByParts ==
    ASSUME Base, DocumentTypes', LatestInv', IsFiniteSet(Stored(reviews')), AuthorTypes',
           RequestTypes', FoundInv', IsFiniteSet(Incrementing(mod')), IsSummary(summary')
    PROVE  Base'
  BY DEF Base, Types, FiniteInv

LEMMA QuietBase ==
    ASSUME Base, UNCHANGED <<reviews, summary, mod, raced>>, AuthorTypes'
    PROVE  Base'
  BY DEF Base, Types, FiniteInv, DocumentTypes, RequestTypes, FoundInv, LatestInv, Times

LEMMA BaseStep ==
    ASSUME Base, [Next]_vars
    PROVE  Base'
  <1>t. Types /\ RequestTypes /\ LatestInv /\ DocumentTypes /\ IsSummary(summary)
    BY DEF Base, Types
  <1>1. CASE \/ \E u \in Users : RecordPurchase(u) \/ PurchaseExpires(u) \/ CreateBegin(u)
             \/ OpenListing \/ NextPage \/ UNCHANGED vars
    BY <1>1, <1>t, QuietFacts, QuietBase
  <1>2. ASSUME NEW u \in Users, NEW rating \in Ratings, CreateInsert(u, rating)
        PROVE  Base'
    <2>1. UNCHANGED <<summary, mod>> /\ AuthorTypes'
          /\ (UNCHANGED reviews \/ \E id \in ReviewIds : Inserted(id, u))
      BY <1>2, <1>t, InsertFacts
    <2>2. /\ DocumentTypes' /\ LatestInv' /\ IsFiniteSet(Stored(reviews'))
          /\ Stored(reviews) \subseteq Stored(reviews')
      BY <2>1, CollectionKept
    <2>3. RequestTypes' /\ IsFiniteSet(Incrementing(mod')) /\ IsSummary(summary')
      BY <2>1, <1>t DEF RequestTypes, Base, FiniteInv
    <2>4. FoundInv'
      <3>1. \A n \in Moderators : mod[n].pc \in {"update", "inc"} => mod[n].id \in ReviewIds
        BY <1>t, RequestFacts DEF Updates, Incs
      <3> QED
        BY <2>1, <2>2, <3>1, <1>t DEF FoundInv, Types, Stored
    <2> QED
      BY <2>1, <2>2, <2>3, <2>4, BaseByParts
  <1>3. ASSUME NEW m \in Moderators, NEW id \in ReviewIds, NEW d \in {"PUBLISHED", "REJECTED"},
               ModerateFind(m, id, d)
        PROVE  Base'
    <2> DEFINE next == [pc |-> "update", id |-> id, decision |-> d, before |-> reviews[id].status]
    <2>1. /\ mod' = [mod EXCEPT ![m] = next] /\ reviews[id].status # "none"
          /\ UNCHANGED <<reviews, summary, author>>
      BY <1>3 DEF ModerateFind, Exists
    <2>2. next \in Updates
      BY <2>1, <1>t, DocumentFacts DEF Updates
    <2>3. next.id = id
      OBVIOUS
    <2> HIDE DEF next
    <2>4. mod'[m] = next /\ Alone(m) /\ RequestTypes'
      BY <2>1, <2>2, <1>t, AloneFacts DEF IsRequest
    <2>5. /\ DocumentTypes' /\ LatestInv' /\ IsFiniteSet(Stored(reviews'))
          /\ Stored(reviews) \subseteq Stored(reviews')
      BY <2>1, CollectionKept
    <2>6. id \in Stored(reviews')
      BY <2>1 DEF Stored
    <2>7. FoundInv' /\ IsFiniteSet(Incrementing(mod'))
      BY <2>3, <2>4, <2>5, <2>6, RequestsKept
    <2>8. AuthorTypes' /\ IsSummary(summary')
      BY <2>1, <1>t DEF Types, AuthorTypes
    <2> QED
      BY <2>4, <2>5, <2>7, <2>8, BaseByParts
  <1>4. ASSUME NEW m \in Moderators, ModerateUpdate(m)
        PROVE  Base'
    <2> DEFINE q == mod[m]
               next == IF (q.before = "PUBLISHED") = (q.decision = "PUBLISHED") THEN Free
                       ELSE [pc |-> "inc", id |-> q.id,
                             delta |-> IF q.decision = "PUBLISHED" THEN 1 ELSE -1]
    <2>1. q \in Updates /\ reviews[q.id].status # "none" /\ UNCHANGED <<summary, author>>
          /\ \/ mod' = [mod EXCEPT ![m] = Free] /\ UNCHANGED reviews
             \/ Decided(q.id, q.decision) /\ mod' = [Outdated EXCEPT ![m] = next]
      BY <1>4, <1>t, UpdateFacts
    <2>2. q.id \in ReviewIds /\ q.decision \in {"PUBLISHED", "REJECTED"}
      BY <2>1 DEF Updates
    <2>3. /\ DocumentTypes' /\ LatestInv' /\ IsFiniteSet(Stored(reviews'))
          /\ Stored(reviews) \subseteq Stored(reviews')
      BY <2>1, <2>2, CollectionKept
    <2>4. IsRequest(next) /\ IsRequest(Free) /\ Free.pc = "idle"
          /\ (next.pc = "idle" \/ (next.pc = "inc" /\ next.id = q.id))
      <3> DEFINE delta == IF q.decision = "PUBLISHED" THEN 1 ELSE -1
                 inc == [pc |-> "inc", id |-> q.id, delta |-> delta]
      <3>0. delta \in {1, -1}
        OBVIOUS
      <3>1. next = Free \/ next = inc
        <4>1. CASE (q.before = "PUBLISHED") = (q.decision = "PUBLISHED")
          BY <4>1, Zenon
        <4>2. CASE ~((q.before = "PUBLISHED") = (q.decision = "PUBLISHED"))
          BY <4>2, Zenon
        <4> QED
          BY <4>1, <4>2
      <3> HIDE DEF delta, next
      <3>2. next = Free \/ (next \in Incs /\ next.id = q.id)
        BY <2>2, <3>0, <3>1 DEF Incs
      <3> QED
        BY <3>2 DEF IsRequest, Free, Incs
    <2> HIDE DEF next
    <2>5. /\ RequestTypes' /\ (Alone(m) \/ Bumped(m)) /\ (mod'[m] = Free \/ mod'[m] = next)
      BY <2>1, <2>4, <1>t, AloneFacts, BumpedFacts
    <2>6. mod'[m].pc \in {"update", "inc"} => mod'[m].id \in Stored(reviews')
      <3>1. q.id \in Stored(reviews)
        BY <2>1, <2>2 DEF Stored
      <3> QED
        BY <2>3, <2>4, <2>5, <3>1
    <2>7. FoundInv' /\ IsFiniteSet(Incrementing(mod'))
      BY <2>3, <2>5, <2>6, RequestsKept
    <2>8. AuthorTypes' /\ IsSummary(summary')
      BY <2>1, <1>t DEF Types, AuthorTypes
    <2> QED
      BY <2>3, <2>5, <2>7, <2>8, BaseByParts
  <1>5. ASSUME NEW m \in Moderators, NEW next, IsRequest(next), next.pc \notin {"update", "inc"},
               mod' = [mod EXCEPT ![m] = next] \/ mod' = [Outdated EXCEPT ![m] = next],
               IsSummary(summary'), UNCHANGED <<reviews, author>>
        PROVE  Base'
    <2>1. RequestTypes' /\ (Alone(m) \/ Bumped(m)) /\ mod'[m] = next
      BY <1>5, <1>t, AloneFacts, BumpedFacts
    <2>2. /\ DocumentTypes' /\ LatestInv' /\ IsFiniteSet(Stored(reviews'))
          /\ Stored(reviews) \subseteq Stored(reviews')
      BY <1>5, CollectionKept
    <2>3. FoundInv' /\ IsFiniteSet(Incrementing(mod'))
      BY <1>5, <2>1, <2>2, RequestsKept
    <2>4. AuthorTypes'
      BY <1>5, <1>t DEF Types, AuthorTypes
    <2> QED
      BY <1>5, <2>1, <2>2, <2>3, <2>4, BaseByParts
  <1>f. IsRequest(Free) /\ Free.pc = "idle"
    BY DEF IsRequest, Free
  <1>6. ASSUME NEW m \in Moderators, DeltaInc(m)
        PROVE  Base'
    <2> DEFINE next == [pc |-> "read"]
    <2>1. IsRequest(next) /\ next.pc = "read"
      BY DEF IsRequest
    <2>2. IsSummary(summary') /\ mod' = [Outdated EXCEPT ![m] = next] /\ UNCHANGED <<reviews, author>>
      BY <1>6, <1>t, IncFacts
    <2> HIDE DEF next
    <2> QED
      BY <1>5, <2>1, <2>2
  <1>7. ASSUME NEW m \in Moderators, DeltaRead(m)
        PROVE  Base'
    <2> DEFINE next == [pc |-> "set", distribution |-> summary.distribution]
    <2>1. IsRequest(next) /\ next.pc = "set"
      BY DEF IsRequest
    <2>2. UNCHANGED <<reviews, author, summary>>
          /\ (mod' = [mod EXCEPT ![m] = next] \/ mod' = [mod EXCEPT ![m] = Free])
      BY <1>7 DEF DeltaRead
    <2> HIDE DEF next
    <2> QED
      BY <1>5, <1>f, <1>t, <2>1, <2>2
  <1>8. ASSUME NEW m \in Moderators, DeltaSet(m)
        PROVE  Base'
    <2>1. mod' = [mod EXCEPT ![m] = Free] /\ UNCHANGED <<reviews, author>> /\ IsSummary(summary')
      BY <1>8, <1>t, SetFacts DEF DeltaSet
    <2> QED
      BY <1>5, <1>f, <2>1
  <1>9. ASSUME NEW m \in Moderators, RebuildRead(m)
        PROVE  Base'
    <2>1. PICK new : /\ IsSummary(new) /\ UNCHANGED <<reviews, summary, author>>
                     /\ mod' = [mod EXCEPT ![m] = [pc |-> "replace",
                          overlapped |-> \E n \in Moderators : mod[n].pc = "inc", new |-> new]]
      BY <1>9, RebuildFacts
    <2> DEFINE o == \E n \in Moderators : mod[n].pc = "inc"
               next == [pc |-> "replace", overlapped |-> o, new |-> new]
    <2>2. o \in BOOLEAN
      OBVIOUS
    <2> HIDE DEF o
    <2>3. IsReplace(next)
      BY <2>1, <2>2 DEF IsReplace
    <2>4. mod' = [mod EXCEPT ![m] = next]
      BY <2>1 DEF o
    <2> HIDE DEF next
    <2>5. IsRequest(next) /\ next.pc = "replace"
      BY <2>3, ReplaceFacts DEF IsRequest
    <2> QED
      BY <1>5, <1>t, <2>1, <2>4, <2>5
  <1>10. ASSUME NEW m \in Moderators, RebuildReplace(m)
         PROVE  Base'
    <2>1. /\ mod[m].pc = "replace" /\ summary' = mod[m].new /\ mod' = [Outdated EXCEPT ![m] = Free]
          /\ UNCHANGED <<reviews, author>>
      BY <1>10 DEF RebuildReplace
    <2>2. IsSummary(summary')
      BY <2>1, <1>t, RequestFacts, ReplaceFacts
    <2> QED
      BY <1>5, <1>f, <2>1, <2>2
  <1>11. ASSUME NEW m \in Moderators, ModeratorDies(m)
         PROVE  Base'
    <2>1. mod' = [mod EXCEPT ![m] = Free] /\ UNCHANGED <<reviews, author, summary>>
      BY <1>11 DEF ModeratorDies
    <2> QED
      BY <1>5, <1>f, <1>t, <2>1
  <1> QED
    BY <1>1, <1>2, <1>3, <1>4, <1>6, <1>7, <1>8, <1>9, <1>10, <1>11 DEF Next

LEMMA BaseInit ==
    ASSUME Init
    PROVE  Base
  <1>1. DocumentTypes /\ AuthorTypes
    BY DEF Init, DocumentTypes, AuthorTypes
  <1>2. RequestTypes
    BY DEF Init, RequestTypes, IsRequest
  <1>3. IsSummary(summary)
    <2>1. EmptyDistribution \in Histograms
      BY DEF EmptyDistribution, Histograms
    <2>2. summary = Summary("none", EmptyDistribution, 0, 0, 0)
      BY DEF Init, NoSummary, Summary
    <2> QED
      BY <2>1, <2>2, SummaryFields
  <1>4. FoundInv /\ Incrementing(mod) = {}
    BY DEF Init, FoundInv, Free, Incrementing
  <1>5. Stored(reviews) = {}
    BY DEF Init, NoReview, Stored
  <1>6. LatestInv
    <2>1. Times(reviews) = {0}
      BY <1>5 DEF Stored, Times
    <2> QED
      BY <2>1 DEF LatestInv
  <1> QED
    BY <1>1, <1>2, <1>3, <1>4, <1>5, <1>6, FS_EmptySet DEF Base, Types, FiniteInv

-----------------------------------------------------------------------------
(* One live review per user.                                               *)

\* The three ways in which a step leaves the collection.
LEMMA CollectionSteps ==
    ASSUME Base, [Next]_vars
    PROVE  \/ UNCHANGED reviews
           \/ \E id \in ReviewIds, u \in Users : Inserted(id, u) /\ Live(u) = {}
           \/ \E id \in ReviewIds, d \in {"PUBLISHED", "REJECTED"} :
                /\ Decided(id, d)
                /\ d = "PUBLISHED" /\ reviews[id].status = "REJECTED" => Live(reviews[id].user) = {}
  <1>t. Types /\ LatestInv
    BY DEF Base
  <1>1. ASSUME NEW u \in Users, NEW rating \in Ratings, CreateInsert(u, rating)
        PROVE  UNCHANGED reviews \/ \E id \in ReviewIds : Inserted(id, u) /\ Live(u) = {}
    BY <1>1, <1>t, InsertFacts
  <1>2. ASSUME NEW m \in Moderators, ModerateUpdate(m)
        PROVE  \/ UNCHANGED reviews
               \/ \E id \in ReviewIds, d \in {"PUBLISHED", "REJECTED"} :
                /\ Decided(id, d)
                /\ d = "PUBLISHED" /\ reviews[id].status = "REJECTED" => Live(reviews[id].user) = {}
    <2> DEFINE q == mod[m]
    <2>1. q \in Updates
          /\ \/ UNCHANGED reviews
             \/ /\ Decided(q.id, q.decision)
                /\ q.decision = "PUBLISHED" /\ reviews[q.id].status = "REJECTED"
                     => Live(reviews[q.id].user) = {}
      BY <1>2, <1>t, UpdateFacts
    <2>2. q.id \in ReviewIds /\ q.decision \in {"PUBLISHED", "REJECTED"}
      BY <2>1 DEF Updates
    <2> QED
      BY <2>1, <2>2, Zenon
  <1>3. ASSUME \/ \E u \in Users : RecordPurchase(u) \/ PurchaseExpires(u) \/ CreateBegin(u)
               \/ OpenListing \/ NextPage \/ UNCHANGED vars
        PROVE  UNCHANGED reviews
    BY <1>3, <1>t, QuietFacts
  <1>4. ASSUME NEW m \in Moderators,
               \/ \E id \in ReviewIds, d \in {"PUBLISHED", "REJECTED"} : ModerateFind(m, id, d)
               \/ DeltaInc(m) \/ DeltaRead(m) \/ DeltaSet(m)
               \/ RebuildRead(m) \/ RebuildReplace(m) \/ ModeratorDies(m)
        PROVE  UNCHANGED reviews
    BY <1>4 DEF ModerateFind, DeltaInc, DeltaRead, DeltaSet, RebuildRead, RebuildReplace,
                ModeratorDies
  <1> QED
    BY <1>1, <1>2, <1>3, <1>4 DEF Next

LEMMA LiveStep ==
    ASSUME Base, OneLiveReview, [Next]_vars
    PROVE  OneLiveReview'
  <1>1. CASE UNCHANGED reviews
    BY <1>1 DEF OneLiveReview, Exists
  <1>2. ASSUME NEW id \in ReviewIds, NEW u \in Users, Inserted(id, u), Live(u) = {}
        PROVE  OneLiveReview'
    BY <1>2 DEF OneLiveReview, Exists, Inserted, Live
  <1>3. ASSUME NEW id \in ReviewIds, NEW d \in {"PUBLISHED", "REJECTED"}, Decided(id, d),
               d = "PUBLISHED" /\ reviews[id].status = "REJECTED" => Live(reviews[id].user) = {}
        PROVE  OneLiveReview'
    BY <1>3 DEF OneLiveReview, Exists, Decided, Live
  <1> QED
    BY <1>1, <1>2, <1>3, CollectionSteps

(* Of a user's reviews of the product at most one is not rejected, in every
   interleaving of create() and moderate(): the partial unique index is enough,
   although moderate() writes without looking at the status it overwrites. *)
THEOREM OneReviewIsLive == Spec => []OneLiveReview
  <1>1. Init => Base
    BY BaseInit
  <1>2. Init => OneLiveReview
    BY DEF Init, OneLiveReview, Exists, NoReview
  <1>3. (Base /\ OneLiveReview) /\ [Next]_vars => (Base /\ OneLiveReview)'
    BY BaseStep, LiveStep
  <1> QED
    BY <1>1, <1>2, <1>3, PTL DEF Spec

-----------------------------------------------------------------------------
(* The histogram.                                                          *)

\* The decisions of M not yet counted, and the equation of the histogram.
Counting(R, M, s, delta) ==
    {m \in Moderators : M[m].pc = "inc" /\ M[m].delta = delta /\ R[M[m].id].rating = s}
Exact(D, R, M) ==
    \A s \in 1 .. 5 :
        D[s] + (Cardinality(Counting(R, M, s, 1)) - Cardinality(Counting(R, M, s, -1)))
            = Cardinality(RatedAt(R, s))

\* A rebuild that nothing overlapped would write what is published now.
FreshInv ==
    \A m \in Moderators :
        mod[m].pc = "replace" /\ ~mod[m].overlapped =>
            /\ \A n \in Moderators : mod[n].pc # "inc"
            /\ \A s \in 1 .. 5 : mod[m].new.distribution[s] = Cardinality(RatedAt(reviews, s))

HistInv == HistogramIsExact /\ FreshInv

LEMMA HistogramForm ==
    /\ HistogramIsExact <=> (raced \/ Exact(summary.distribution, reviews, mod))
    /\ HistogramIsExact' <=> (raced' \/ Exact(summary'.distribution, reviews', mod'))
  <1>1. \A s : {id \in Published : reviews[id].rating = s} = RatedAt(reviews, s)
    BY DEF Published, RatedAt
  <1>2. \A s : {id \in Published' : reviews'[id].rating = s} = RatedAt(reviews', s)
    BY DEF Published, RatedAt
  <1> QED
    BY <1>1, <1>2, Zenon DEF HistogramIsExact, Exact, Pending, Uncounted, Counting

LEMMA CountingIsFinite ==
    ASSUME FiniteInv, NEW s, NEW delta
    PROVE  /\ IsFiniteSet(Counting(reviews, mod, s, delta))
           /\ Cardinality(Counting(reviews, mod, s, delta)) \in Nat
  <1>1. Counting(reviews, mod, s, delta) \subseteq Incrementing(mod)
    BY DEF Counting, Incrementing
  <1> QED
    BY <1>1, FS_Subset, FS_CardinalityType DEF FiniteInv

\* What a step of request m leaves of the decisions of the others.
LEMMA CountingOthers ==
    ASSUME Base, NEW m \in Moderators, Alone(m) \/ Bumped(m),
           \A id \in Stored(reviews) : reviews'[id].rating = reviews[id].rating,
           NEW s, NEW delta, NEW n \in Moderators \ {m}
    PROVE  n \in Counting(reviews', mod', s, delta) <=> n \in Counting(reviews, mod, s, delta)
  <1>1. mod'[n].pc = mod[n].pc /\ (mod[n].pc # "replace" => mod'[n] = mod[n])
    BY DEF Alone, Bumped
  <1>2. CASE mod[n].pc # "inc"
    BY <1>1, <1>2 DEF Counting
  <1>3. CASE mod[n].pc = "inc"
    <2>1. mod'[n] = mod[n] /\ mod[n].id \in Stored(reviews)
      BY <1>1, <1>3, RequestFacts DEF Base, Types, FoundInv, Stored, Incs
    <2> QED
      BY <2>1 DEF Counting
  <1> QED
    BY <1>2, <1>3

LEMMA CountingKept ==
    ASSUME Base, NEW m \in Moderators, Alone(m) \/ Bumped(m),
           \A id \in Stored(reviews) : reviews'[id].rating = reviews[id].rating,
           mod[m].pc # "inc", mod'[m].pc # "inc", NEW s, NEW delta
    PROVE  Counting(reviews', mod', s, delta) = Counting(reviews, mod, s, delta)
  <1>1. m \notin Counting(reviews', mod', s, delta) /\ m \notin Counting(reviews, mod, s, delta)
    BY DEF Counting
  <1>2. Counting(reviews', mod', s, delta) \subseteq Moderators
        /\ Counting(reviews, mod, s, delta) \subseteq Moderators
    BY DEF Counting
  <1> QED
    BY <1>1, <1>2, CountingOthers

\* The step changes neither side of the equation.
LEMMA ExactKept ==
    ASSUME Base, NEW m \in Moderators, Alone(m) \/ Bumped(m),
           \A id \in Stored(reviews) : reviews'[id].rating = reviews[id].rating,
           mod[m].pc # "inc", mod'[m].pc # "inc",
           \A s \in 1 .. 5 : RatedAt(reviews', s) = RatedAt(reviews, s),
           summary'.distribution = summary.distribution,
           Exact(summary.distribution, reviews, mod)
    PROVE  Exact(summary'.distribution, reviews', mod')
  <1>1. \A s, delta : Counting(reviews', mod', s, delta) = Counting(reviews, mod, s, delta)
    BY CountingKept
  <1> QED
    BY <1>1, Zenon DEF Exact

LEMMA FreshKept ==
    ASSUME FreshInv, NEW m \in Moderators, mod'[m].pc \notin {"replace", "inc"}, Alone(m),
           \A s \in 1 .. 5 : RatedAt(reviews', s) = RatedAt(reviews, s)
    PROVE  FreshInv'
  BY DEF FreshInv, Alone

LEMMA BumpedIsFresh ==
    ASSUME NEW m \in Moderators, Bumped(m), mod'[m].pc # "replace"
    PROVE  FreshInv'
  BY DEF FreshInv, Bumped

\* One more element in a finite set, or one less.
LEMMA OneMore ==
    ASSUME NEW S, NEW T, NEW x, IsFiniteSet(S), x \notin S, x \in T,
           \A y : y # x => (y \in T <=> y \in S)
    PROVE  Cardinality(T) = Cardinality(S) + 1
  <1>1. T = S \union {x}
    OBVIOUS
  <1> QED
    BY <1>1, FS_AddElement

LEMMA SameSet ==
    ASSUME NEW S, NEW T, NEW x, x \in S <=> x \in T, \A y : y # x => (y \in T <=> y \in S)
    PROVE  Cardinality(T) = Cardinality(S)
  <1>1. T = S
    OBVIOUS
  <1> QED
    BY <1>1

\* A decision that is written moves one review and opens one increment.
LEMMA DecisionIsPending ==
    ASSUME Base, NEW m \in Moderators, mod[m].pc = "update", Bumped(m),
           NEW id \in ReviewIds, NEW d \in {"PUBLISHED", "REJECTED"}, Decided(id, d),
           mod'[m].pc = "inc", mod'[m].id = id,
           \/ d = "PUBLISHED" /\ reviews[id].status # "PUBLISHED" /\ mod'[m].delta = 1
           \/ d # "PUBLISHED" /\ reviews[id].status = "PUBLISHED" /\ mod'[m].delta = -1,
           summary'.distribution = summary.distribution,
           Exact(summary.distribution, reviews, mod)
    PROVE  Exact(summary'.distribution, reviews', mod')
  <1>t. FiniteInv /\ \A i \in ReviewIds : reviews'[i].rating = reviews[i].rating
    BY DEF Base, Decided
  <1>r. \A i \in Stored(reviews) : reviews'[i].rating = reviews[i].rating
    BY <1>t DEF Stored
  <1>m. \A x, delta : m \notin Counting(reviews, mod, x, delta)
    BY DEF Counting
  <1>h. summary.distribution \in Histograms
    BY SummaryFacts DEF Base, Types
  <1> SUFFICES ASSUME NEW s \in 1 .. 5
               PROVE  summary'.distribution[s]
                        + (Cardinality(Counting(reviews', mod', s, 1))
                             - Cardinality(Counting(reviews', mod', s, -1)))
                      = Cardinality(RatedAt(reviews', s))
    BY DEF Exact
  <1>o. \A delta, n : n # m =>
          (n \in Counting(reviews', mod', s, delta) <=> n \in Counting(reviews, mod, s, delta))
    <2>1. \A delta : \A n \in Moderators \ {m} :
            n \in Counting(reviews', mod', s, delta) <=> n \in Counting(reviews, mod, s, delta)
      BY <1>r, CountingOthers
    <2> QED
      BY <2>1 DEF Counting
  <1>i. \A i : i # id => (i \in RatedAt(reviews', s) <=> i \in RatedAt(reviews, s))
    BY DEF RatedAt, Decided
  <1>f. /\ IsFiniteSet(RatedAt(reviews, s))
        /\ IsFiniteSet(RatedAt(reviews', s))
        /\ \A delta : IsFiniteSet(Counting(reviews, mod, s, delta))
    <2>1. RatedAt(reviews', s) \subseteq RatedAt(reviews, s) \union {id}
      BY <1>i
    <2> QED
      BY <1>t, <2>1, RatedIsFinite, CountingIsFinite, FS_AddElement, FS_Subset
  <1>c. PICK a \in Nat, b \in Nat, c \in Nat, c1 \in Nat :
          /\ a = Cardinality(Counting(reviews, mod, s, 1))
          /\ b = Cardinality(Counting(reviews, mod, s, -1))
          /\ c = Cardinality(RatedAt(reviews, s)) /\ c1 = Cardinality(RatedAt(reviews', s))
    BY <1>f, FS_CardinalityType
  <1>e. PICK v \in Int : v = summary.distribution[s] /\ v + (a - b) = c
    BY <1>c, <1>h DEF Histograms, Exact
  <1>1. CASE reviews[id].rating # s
    <2>1. m \notin Counting(reviews', mod', s, 1) /\ m \notin Counting(reviews', mod', s, -1)
      BY <1>1, <1>t DEF Counting
    <2>2. id \notin RatedAt(reviews', s) /\ id \notin RatedAt(reviews, s)
      BY <1>1, <1>t DEF RatedAt
    <2>3. /\ Cardinality(Counting(reviews', mod', s, 1)) = a
          /\ Cardinality(Counting(reviews', mod', s, -1)) = b
      BY <2>1, <1>m, <1>o, <1>c, SameSet
    <2>4. Cardinality(RatedAt(reviews', s)) = c
      BY <2>2, <1>i, <1>c, SameSet
    <2> QED
      BY <2>3, <2>4, <1>e
  <1>2. CASE reviews[id].rating = s /\ d = "PUBLISHED"
    <2>1. m \in Counting(reviews', mod', s, 1) /\ m \notin Counting(reviews', mod', s, -1)
      BY <1>2, <1>t DEF Counting
    <2>2. id \in RatedAt(reviews', s) /\ id \notin RatedAt(reviews, s)
      BY <1>2, <1>t DEF RatedAt, Decided
    <2>3. Cardinality(Counting(reviews', mod', s, 1)) = a + 1
      BY <2>1, <1>m, <1>o, <1>c, <1>f, OneMore
    <2>4. Cardinality(Counting(reviews', mod', s, -1)) = b
      BY <2>1, <1>m, <1>o, <1>c, SameSet
    <2>5. Cardinality(RatedAt(reviews', s)) = c + 1
      BY <2>2, <1>i, <1>c, <1>f, OneMore
    <2>6. v + ((a + 1) - b) = c + 1
      BY <1>e
    <2> QED
      BY <2>3, <2>4, <2>5, <2>6, <1>e
  <1>3. CASE reviews[id].rating = s /\ d # "PUBLISHED"
    <2>1. m \notin Counting(reviews', mod', s, 1) /\ m \in Counting(reviews', mod', s, -1)
      BY <1>3, <1>t DEF Counting
    <2>2. id \notin RatedAt(reviews', s) /\ id \in RatedAt(reviews, s)
      BY <1>3, <1>t DEF RatedAt, Decided
    <2>3. Cardinality(Counting(reviews', mod', s, -1)) = b + 1
      BY <2>1, <1>m, <1>o, <1>c, <1>f, OneMore
    <2>4. Cardinality(Counting(reviews', mod', s, 1)) = a
      BY <2>1, <1>m, <1>o, <1>c, SameSet
    <2>5. c = c1 + 1
      BY <2>2, <1>i, <1>c, <1>f, OneMore
    <2>6. v + (a - (b + 1)) = c1
      <3>1. v + (a - b) = c1 + 1
        BY <1>e, <2>5
      <3>2. \A w \in Int : \A x, y, z \in Nat : w + (x - y) = z + 1 => w + (x - (y + 1)) = z
        OBVIOUS
      <3> QED
        BY <3>1, <3>2
    <2>7. Cardinality(RatedAt(reviews', s)) = c1 /\ summary'.distribution[s] = v
      BY <1>c, <1>e
    <2> QED
      BY <2>3, <2>4, <2>6, <2>7
  <1> QED
    BY <1>1, <1>2, <1>3

\* The increment closes it.
LEMMA IncrementCounts ==
    ASSUME Base, NEW m \in Moderators, DeltaInc(m), Exact(summary.distribution, reviews, mod)
    PROVE  Exact(summary'.distribution, reviews', mod')
  <1> DEFINE q == mod[m]
             r == reviews[q.id].rating
             next == [pc |-> "read"]
  <1>1. /\ q \in Incs /\ r \in 1 .. 5 /\ UNCHANGED reviews
        /\ summary'.distribution = [summary.distribution EXCEPT ![r] = @ + q.delta]
        /\ mod' = [Outdated EXCEPT ![m] = next] /\ q.pc = "inc"
    BY IncFacts DEF Base, DeltaInc
  <1>2. IsRequest(next) /\ next.pc = "read"
    BY DEF IsRequest
  <1> HIDE DEF next
  <1>3. mod'[m] = next /\ Bumped(m)
    BY <1>1, <1>2, BumpedFacts DEF Base, Types
  <1>t. FiniteInv /\ summary.distribution \in Histograms
    BY SummaryFacts DEF Base, Types
  <1>d. q.delta \in {1, -1}
    BY <1>1 DEF Incs
  <1> HIDE DEF q
  <1> SUFFICES ASSUME NEW s \in 1 .. 5
               PROVE  summary'.distribution[s]
                        + (Cardinality(Counting(reviews', mod', s, 1))
                             - Cardinality(Counting(reviews', mod', s, -1)))
                      = Cardinality(RatedAt(reviews', s))
    BY DEF Exact
  <1>o. \A delta, n : n # m =>
          (n \in Counting(reviews', mod', s, delta) <=> n \in Counting(reviews, mod, s, delta))
    <2>1. \A delta : \A n \in Moderators \ {m} :
            n \in Counting(reviews', mod', s, delta) <=> n \in Counting(reviews, mod, s, delta)
      BY <1>1, <1>3, CountingOthers
    <2> QED
      BY <2>1 DEF Counting
  <1>m. \A delta : /\ m \notin Counting(reviews', mod', s, delta)
                   /\ m \in Counting(reviews, mod, s, delta) <=> (q.delta = delta /\ r = s)
    BY <1>1, <1>2, <1>3 DEF Counting, q
  <1> HIDE DEF r
  <1>f. \A delta : /\ IsFiniteSet(Counting(reviews, mod, s, delta))
                   /\ IsFiniteSet(Counting(reviews', mod', s, delta))
    <2>1. \A delta : Counting(reviews', mod', s, delta) \subseteq Counting(reviews, mod, s, delta)
      BY <1>o, <1>m
    <2> QED
      BY <1>t, <2>1, CountingIsFinite, FS_Subset
  <1>c. PICK a \in Nat, b \in Nat, a1 \in Nat, b1 \in Nat, c \in Nat :
          /\ a = Cardinality(Counting(reviews, mod, s, 1))
          /\ b = Cardinality(Counting(reviews, mod, s, -1))
          /\ a1 = Cardinality(Counting(reviews', mod', s, 1))
          /\ b1 = Cardinality(Counting(reviews', mod', s, -1))
          /\ c = Cardinality(RatedAt(reviews, s))
    BY <1>f, <1>t, RatedIsFinite, FS_CardinalityType
  <1>e. PICK v \in Int : v = summary.distribution[s] /\ v + (a - b) = c
    BY <1>c, <1>t DEF Histograms, Exact
  <1>v. summary'.distribution[s] = IF r = s THEN v + q.delta ELSE v
    BY <1>1, <1>t, <1>e DEF Histograms
  <1>u. Cardinality(RatedAt(reviews', s)) = c
    BY <1>1, <1>c
  <1>4. CASE r # s
    <2>1. a1 = a /\ b1 = b
      BY <1>4, <1>m, <1>o, <1>c, SameSet
    <2> QED
      BY <2>1, <1>4, <1>c, <1>e, <1>v, <1>u
  <1>5. CASE r = s /\ q.delta = 1
    <2>1. a = a1 + 1
      BY <1>5, <1>m, <1>o, <1>c, <1>f, OneMore
    <2>2. b1 = b
      BY <1>5, <1>m, <1>o, <1>c, SameSet
    <2>3. (v + 1) + (a1 - b1) = c
      BY <2>1, <2>2, <1>e
    <2> QED
      BY <2>3, <1>5, <1>c, <1>v, <1>u
  <1>6. CASE r = s /\ q.delta = -1
    <2>1. b = b1 + 1
      BY <1>6, <1>m, <1>o, <1>c, <1>f, OneMore
    <2>2. a1 = a
      BY <1>6, <1>m, <1>o, <1>c, SameSet
    <2>3. (v + -1) + (a1 - b1) = c
      BY <2>1, <2>2, <1>e
    <2> QED
      BY <2>3, <1>6, <1>c, <1>v, <1>u
  <1> QED
    BY <1>4, <1>5, <1>6, <1>d

\* A request moves on without touching a review or the histogram.
LEMMA QuietRequest ==
    ASSUME Base, HistInv, NEW m \in Moderators, Alone(m), UNCHANGED reviews,
           summary'.distribution = summary.distribution, mod'[m].pc \notin {"replace", "inc"},
           mod[m].pc # "inc" \/ raced', raced => raced'
    PROVE  HistInv'
  <1>1. FreshInv'
    BY FreshKept DEF HistInv
  <1>2. CASE raced'
    BY <1>1, <1>2, HistogramForm DEF HistInv
  <1>3. CASE ~raced'
    <2>1. Exact(summary.distribution, reviews, mod) /\ mod[m].pc # "inc"
      BY <1>3, HistogramForm DEF HistInv
    <2>2. Exact(summary'.distribution, reviews', mod')
      BY <2>1, ExactKept
    <2> QED
      BY <1>1, <2>2, HistogramForm DEF HistInv
  <1> QED
    BY <1>2, <1>3

LEMMA UpdateHist ==
    ASSUME Base, HistInv, NEW m \in Moderators, ModerateUpdate(m)
    PROVE  HistInv'
  <1> DEFINE q == mod[m]
             counted == q.before = "PUBLISHED"
             counts == q.decision = "PUBLISHED"
             delta == IF counts THEN 1 ELSE -1
             next == IF counted = counts THEN Free ELSE [pc |-> "inc", id |-> q.id, delta |-> delta]
  <1>1. q \in Updates /\ UNCHANGED summary
        /\ \/ mod' = [mod EXCEPT ![m] = Free] /\ UNCHANGED <<reviews, raced>>
           \/ /\ Decided(q.id, q.decision) /\ mod' = [Outdated EXCEPT ![m] = next]
              /\ raced' = (raced \/ reviews[q.id].status # q.before)
    BY UpdateFacts DEF Base
  <1>2. /\ q.id \in ReviewIds /\ q.decision \in {"PUBLISHED", "REJECTED"} /\ q.pc = "update"
    BY <1>1 DEF Updates
  <1>f. IsRequest(Free) /\ Free.pc = "idle"
    BY DEF IsRequest, Free
  <1>3. CASE mod' = [mod EXCEPT ![m] = Free] /\ UNCHANGED <<reviews, raced>>
    <2>1. Alone(m) /\ mod'[m] = Free
      BY <1>3, <1>f, AloneFacts DEF Base, Types
    <2> QED
      BY <1>1, <1>2, <1>3, <1>f, <2>1, QuietRequest
  <1>4. ASSUME Decided(q.id, q.decision), mod' = [Outdated EXCEPT ![m] = next],
               raced' = (raced \/ reviews[q.id].status # q.before)
        PROVE  HistInv'
    <2>d. delta \in {1, -1} /\ (counts => delta = 1) /\ (~counts => delta = -1)
      OBVIOUS
    <2>n. /\ (counted <=> counts) => next = Free
          /\ ~(counted <=> counts) => next = [pc |-> "inc", id |-> q.id, delta |-> delta]
      BY Zenon
    <2> HIDE DEF q, next, delta
    <2>1. IsRequest(next) /\ next.pc \in {"idle", "inc"}
          /\ (next.pc = "idle" <=> (counted <=> counts))
          /\ (next.pc = "inc" => next.id = q.id /\ next.delta = delta)
      <3>1. CASE counted <=> counts
        BY <2>n, <3>1, <1>f
      <3>2. CASE ~(counted <=> counts)
        <4> DEFINE inc == [pc |-> "inc", id |-> q.id, delta |-> delta]
        <4>1. inc \in Incs /\ inc.pc = "inc" /\ inc.id = q.id /\ inc.delta = delta
          BY <2>d, <1>2 DEF Incs
        <4>2. next = inc
          BY <2>n, <3>2
        <4> HIDE DEF inc
        <4> QED
          BY <3>2, <4>1, <4>2 DEF IsRequest
      <3> QED
        BY <3>1, <3>2
    <2>2. Bumped(m) /\ mod'[m] = next
      BY <1>4, <2>1, BumpedFacts DEF Base, Types
    <2>3. FreshInv'
      BY <2>1, <2>2, BumpedIsFresh
    <2>4. CASE raced'
      BY <2>3, <2>4, HistogramForm DEF HistInv
    <2>5. CASE ~raced'
      <3>1. Exact(summary.distribution, reviews, mod) /\ reviews[q.id].status = q.before
        BY <1>4, <2>5, HistogramForm DEF HistInv
      <3>2. CASE next.pc = "idle"
        <4>1. \A id \in ReviewIds :
                /\ reviews'[id].rating = reviews[id].rating
                /\ reviews'[id].status = "PUBLISHED" <=> reviews[id].status = "PUBLISHED"
          BY <1>4, <2>1, <3>1, <3>2 DEF Decided
        <4>2. \A s \in 1 .. 5 : RatedAt(reviews', s) = RatedAt(reviews, s)
          BY <4>1 DEF RatedAt
        <4>3. \A id \in Stored(reviews) : reviews'[id].rating = reviews[id].rating
          BY <4>1 DEF Stored
        <4>4. Exact(summary'.distribution, reviews', mod')
          BY <1>1, <1>2, <2>2, <3>1, <3>2, <4>2, <4>3, ExactKept DEF q
        <4> QED
          BY <2>3, <4>4, HistogramForm DEF HistInv
      <3>3. CASE next.pc = "inc"
        <4>1. mod'[m].pc = "inc" /\ mod'[m].id = q.id
              /\ \/ counts /\ reviews[q.id].status # "PUBLISHED" /\ mod'[m].delta = 1
                 \/ ~counts /\ reviews[q.id].status = "PUBLISHED" /\ mod'[m].delta = -1
          BY <2>1, <2>2, <2>d, <3>1, <3>3
        <4>2. Exact(summary'.distribution, reviews', mod')
          BY <1>1, <1>2, <1>4, <2>2, <3>1, <4>1, DecisionIsPending DEF q
        <4> QED
          BY <2>3, <4>2, HistogramForm DEF HistInv
      <3> QED
        BY <2>1, <3>2, <3>3
    <2> QED
      BY <2>4, <2>5
  <1> QED
    BY <1>1, <1>3, <1>4

LEMMA RebuildReadHist ==
    ASSUME Base, HistInv, NEW m \in Moderators, RebuildRead(m)
    PROVE  HistInv'
  <1>1. PICK new : /\ IsSummary(new) /\ UNCHANGED <<reviews, summary, raced>>
                   /\ \A s \in 1 .. 5 : new.distribution[s] = Cardinality(RatedAt(reviews, s))
                   /\ mod' = [mod EXCEPT ![m] = [pc |-> "replace",
                        overlapped |-> \E n \in Moderators : mod[n].pc = "inc", new |-> new]]
    BY RebuildFacts
  <1> DEFINE o == \E n \in Moderators : mod[n].pc = "inc"
             next == [pc |-> "replace", overlapped |-> o, new |-> new]
  <1>2. o \in BOOLEAN
    OBVIOUS
  <1>3. mod' = [mod EXCEPT ![m] = next]
    BY <1>1
  <1> HIDE DEF o
  <1>4. IsReplace(next) /\ next.pc = "replace" /\ next.new = new
    BY <1>1, <1>2 DEF IsReplace
  <1>5. next.overlapped <=> o
    BY <1>2
  <1> HIDE DEF next
  <1>6. Alone(m) /\ mod'[m] = next
    BY <1>3, <1>4, AloneFacts DEF Base, Types, IsRequest
  <1>7. mod[m].pc = "idle"
    BY DEF RebuildRead, Free
  <1>8. FreshInv'
    <2> SUFFICES ASSUME NEW n \in Moderators, mod'[n].pc = "replace", ~mod'[n].overlapped
                 PROVE  /\ \A k \in Moderators : mod'[k].pc # "inc"
                        /\ \A s \in 1 .. 5 : mod'[n].new.distribution[s] = Cardinality(RatedAt(reviews', s))
      BY DEF FreshInv
    <2>1. (\A k \in Moderators : mod[k].pc # "inc") => \A k \in Moderators : mod'[k].pc # "inc"
      BY <1>4, <1>6 DEF Alone
    <2>2. CASE n = m
      BY <1>1, <1>4, <1>5, <1>6, <2>1, <2>2 DEF o
    <2>3. CASE n # m
      BY <1>1, <1>6, <2>1, <2>3 DEF HistInv, FreshInv, Alone
    <2> QED
      BY <2>2, <2>3
  <1>9. Exact(summary.distribution, reviews, mod) => Exact(summary'.distribution, reviews', mod')
    BY <1>1, <1>4, <1>6, <1>7, ExactKept
  <1> QED
    BY <1>1, <1>8, <1>9, HistogramForm DEF HistInv

LEMMA RebuildReplaceHist ==
    ASSUME Base, HistInv, NEW m \in Moderators, RebuildReplace(m)
    PROVE  HistInv'
  <1>1. /\ mod[m].pc = "replace" /\ summary' = mod[m].new /\ raced' = (raced \/ mod[m].overlapped)
        /\ mod' = [Outdated EXCEPT ![m] = Free] /\ UNCHANGED reviews
    BY DEF RebuildReplace
  <1>f. IsRequest(Free) /\ Free.pc = "idle"
    BY DEF IsRequest, Free
  <1>2. Bumped(m) /\ mod'[m] = Free
    BY <1>1, <1>f, BumpedFacts DEF Base, Types
  <1>3. FreshInv'
    BY <1>2, <1>f, BumpedIsFresh
  <1>4. CASE raced'
    BY <1>3, <1>4, HistogramForm DEF HistInv
  <1>5. CASE ~raced'
    <2>1. /\ \A n \in Moderators : mod[n].pc # "inc"
          /\ \A s \in 1 .. 5 : summary'.distribution[s] = Cardinality(RatedAt(reviews', s))
      BY <1>1, <1>5 DEF HistInv, FreshInv
    <2>2. \A n \in Moderators : mod'[n].pc # "inc"
      BY <1>2, <1>f, <2>1 DEF Bumped
    <2>3. \A s, delta : Counting(reviews', mod', s, delta) = {}
      BY <2>2 DEF Counting
    <2>4. \A s \in 1 .. 5 : Cardinality(RatedAt(reviews', s)) \in Nat
      BY <1>1, RatedIsFinite DEF Base
    <2>5. Exact(summary'.distribution, reviews', mod')
      <3> SUFFICES ASSUME NEW s \in 1 .. 5
                   PROVE  summary'.distribution[s]
                            + (Cardinality(Counting(reviews', mod', s, 1))
                                 - Cardinality(Counting(reviews', mod', s, -1)))
                          = Cardinality(RatedAt(reviews', s))
        BY DEF Exact
      <3>1. Cardinality(Counting(reviews', mod', s, 1)) = 0
            /\ Cardinality(Counting(reviews', mod', s, -1)) = 0
        BY <2>3, FS_EmptySet
      <3>2. PICK c \in Nat : c = Cardinality(RatedAt(reviews', s)) /\ summary'.distribution[s] = c
        BY <2>1, <2>4
      <3> QED
        BY <3>1, <3>2
    <2> QED
      BY <1>3, <2>5, HistogramForm DEF HistInv
  <1> QED
    BY <1>4, <1>5

LEMMA InsertHist ==
    ASSUME Base, HistInv, UNCHANGED <<summary, mod, raced>>,
           NEW id \in ReviewIds, NEW u \in Users, Inserted(id, u)
    PROVE  HistInv'
  <1>1. \A s : RatedAt(reviews', s) = RatedAt(reviews, s)
    BY DEF Inserted, RatedAt
  <1>2. \A s, delta : Counting(reviews', mod', s, delta) = Counting(reviews, mod, s, delta)
    <2>1. \A m \in Moderators : mod[m].pc = "inc" => mod[m].id \in ReviewIds \ {id}
      BY RequestFacts DEF Base, Types, FoundInv, Incs, Inserted
    <2>2. \A m \in Moderators : mod[m].pc = "inc" => reviews'[mod[m].id] = reviews[mod[m].id]
      BY <2>1 DEF Inserted
    <2> QED
      BY <2>2 DEF Counting
  <1>3. Exact(summary.distribution, reviews, mod) => Exact(summary'.distribution, reviews', mod')
    BY <1>1, <1>2, Zenon DEF Exact
  <1>4. FreshInv'
    BY <1>1 DEF HistInv, FreshInv
  <1> QED
    BY <1>3, <1>4, HistogramForm DEF HistInv

LEMMA HistStep ==
    ASSUME Base, HistInv, [Next]_vars
    PROVE  HistInv'
  <1>t. Types /\ LatestInv /\ RequestTypes
    BY DEF Base, Types
  <1>f. IsRequest(Free) /\ Free.pc = "idle"
    BY DEF IsRequest, Free
  <1>q. ASSUME UNCHANGED <<reviews, summary, mod, raced>>
        PROVE  HistInv'
    BY <1>q, HistogramForm DEF HistInv, FreshInv
  <1>1. CASE \/ \E u \in Users : RecordPurchase(u) \/ PurchaseExpires(u) \/ CreateBegin(u)
             \/ OpenListing \/ NextPage \/ UNCHANGED vars
    BY <1>1, <1>q, <1>t, QuietFacts
  <1>2. ASSUME NEW u \in Users, NEW rating \in Ratings, CreateInsert(u, rating)
        PROVE  HistInv'
    BY <1>2, <1>q, <1>t, InsertFacts, InsertHist
  <1>3. ASSUME NEW m \in Moderators, NEW id \in ReviewIds, NEW d \in {"PUBLISHED", "REJECTED"},
               ModerateFind(m, id, d)
        PROVE  HistInv'
    <2> DEFINE next == [pc |-> "update", id |-> id, decision |-> d, before |-> reviews[id].status]
    <2>1. /\ mod' = [mod EXCEPT ![m] = next] /\ mod[m] = Free /\ reviews[id].status # "none"
          /\ UNCHANGED <<reviews, summary, raced>>
      BY <1>3 DEF ModerateFind, Exists
    <2>2. next \in Updates /\ next.pc = "update"
      BY <2>1, <1>t, DocumentFacts DEF Updates, Types
    <2> HIDE DEF next
    <2>3. Alone(m) /\ mod'[m] = next
      BY <2>1, <2>2, <1>t, AloneFacts DEF IsRequest
    <2> QED
      BY <1>f, <2>1, <2>2, <2>3, QuietRequest
  <1>4. ASSUME NEW m \in Moderators, DeltaInc(m)
        PROVE  HistInv'
    <2> DEFINE next == [pc |-> "read"]
    <2>1. mod' = [Outdated EXCEPT ![m] = next] /\ UNCHANGED <<reviews, raced>>
      BY <1>4 DEF DeltaInc
    <2>2. IsRequest(next) /\ next.pc = "read"
      BY DEF IsRequest
    <2> HIDE DEF next
    <2>3. FreshInv'
      BY <1>t, <2>1, <2>2, BumpedFacts, BumpedIsFresh
    <2>4. Exact(summary.distribution, reviews, mod) => Exact(summary'.distribution, reviews', mod')
      BY <1>4, IncrementCounts
    <2> QED
      BY <2>1, <2>3, <2>4, HistogramForm DEF HistInv
  <1>5. ASSUME NEW m \in Moderators, DeltaRead(m)
        PROVE  HistInv'
    <2> DEFINE next == [pc |-> "set", distribution |-> summary.distribution]
    <2>1. IsRequest(next) /\ next.pc = "set"
      BY DEF IsRequest
    <2>2. UNCHANGED <<reviews, summary, raced>> /\ mod[m].pc = "read"
          /\ (mod' = [mod EXCEPT ![m] = next] \/ mod' = [mod EXCEPT ![m] = Free])
      BY <1>5 DEF DeltaRead
    <2> HIDE DEF next
    <2>3. Alone(m) /\ mod'[m] \in {next, Free}
      BY <1>f, <1>t, <2>1, <2>2, AloneFacts
    <2> QED
      BY <1>f, <2>1, <2>2, <2>3, QuietRequest
  <1>6. ASSUME NEW m \in Moderators, DeltaSet(m)
        PROVE  HistInv'
    <2>1. /\ mod' = [mod EXCEPT ![m] = Free] /\ UNCHANGED <<reviews, raced>> /\ mod[m].pc = "set"
          /\ summary'.distribution = summary.distribution
      BY <1>6, <1>t, SetFacts DEF DeltaSet
    <2>2. Alone(m) /\ mod'[m] = Free
      BY <1>f, <1>t, <2>1, AloneFacts
    <2> QED
      BY <1>f, <2>1, <2>2, QuietRequest
  <1>7. ASSUME NEW m \in Moderators, ModeratorDies(m)
        PROVE  HistInv'
    <2>1. /\ mod' = [mod EXCEPT ![m] = Free] /\ UNCHANGED <<reviews, summary>>
          /\ raced' = (raced \/ mod[m].pc = "inc")
      BY <1>7 DEF ModeratorDies
    <2>2. Alone(m) /\ mod'[m] = Free
      BY <1>f, <1>t, <2>1, AloneFacts
    <2> QED
      BY <1>f, <2>1, <2>2, QuietRequest
  <1> QED
    BY <1>1, <1>2, <1>3, <1>4, <1>5, <1>6, <1>7, UpdateHist, RebuildReadHist, RebuildReplaceHist
    DEF Next

(* The star histogram and the increments still to come add up to what is
   published, for any number of moderators: applyRatingDelta() counts each
   decision of moderate() once, unless one of the three races the code leaves
   open (a decision over a decision, a death between the writes, a rebuild
   that overlaps) has happened. *)
THEOREM HistogramAddsUp == Spec => []HistogramIsExact
  <1>1. Init => Base
    BY BaseInit
  <1>2. Init => HistInv
    <2> SUFFICES ASSUME Init
                 PROVE  HistInv
      OBVIOUS
    <2>1. FreshInv /\ \A s, delta : Counting(reviews, mod, s, delta) = {}
      BY DEF Init, FreshInv, Free, Counting
    <2>2. \A s : RatedAt(reviews, s) = {}
      BY DEF Init, RatedAt, NoReview
    <2>3. \A s \in 1 .. 5 : summary.distribution[s] = 0
      BY DEF Init, NoSummary, EmptyDistribution
    <2>4. Cardinality({}) = 0
      BY FS_EmptySet
    <2>5. Exact(summary.distribution, reviews, mod)
      BY <2>1, <2>2, <2>3, <2>4 DEF Exact
    <2> QED
      BY <2>1, <2>5, HistogramForm DEF HistInv
  <1>3. (Base /\ HistInv) /\ [Next]_vars => (Base /\ HistInv)'
    BY BaseStep, HistStep
  <1>4. HistInv => HistogramIsExact
    BY DEF HistInv
  <1> QED
    BY <1>1, <1>2, <1>3, <1>4, PTL DEF Spec

-----------------------------------------------------------------------------
(* Paging.                                                                 *)

Reader(p, c, s, t, e, st) ==
    [pc |-> p, cursor |-> c, seen |-> s, twice |-> t, tied |-> e, stable |-> st]

\* What was listed lies at or above the cursor; what stayed published was
\* listed, was tied with a cursor, or is still to come.
Paged(R, p, c, s, t, e, st) ==
    /\ p \in {"paging", "done"} /\ c \in Nat /\ t \in BOOLEAN /\ ~t
    /\ s \subseteq Stored(R)
    /\ p = "paging" => /\ \A id \in s : R[id].createdAt >= c
                       /\ \A id \in st : id \in ReviewIds /\ R[id].status = "PUBLISHED"
    /\ \A id \in st : id \in s \union e \/ (p = "paging" /\ R[id].createdAt < c)

PageInv ==
    \/ reader = NoReader
    \/ \E p, c, s, t, e, st : reader = Reader(p, c, s, t, e, st) /\ Paged(reviews, p, c, s, t, e, st)

LEMMA ReaderFields ==
    ASSUME NEW p, NEW c, NEW s, NEW t, NEW e, NEW st, NEW x, x = Reader(p, c, s, t, e, st)
    PROVE  x.pc = p /\ x.cursor = c /\ x.seen = s /\ x.twice = t /\ x.tied = e /\ x.stable = st
  BY DEF Reader

LEMMA ReaderLoses ==
    ASSUME NEW p, NEW c, NEW s, NEW t, NEW e, NEW st, NEW x
    PROVE  [Reader(p, c, s, t, e, st) EXCEPT !.stable = x] = Reader(p, c, s, t, e, x)
  BY DEF Reader

LEMMA ReaderIsRecord ==
    ASSUME NEW x, x = [i \in {"pc", "cursor", "seen", "twice", "tied", "stable"} |-> x[i]]
    PROVE  x = Reader(x.pc, x.cursor, x.seen, x.twice, x.tied, x.stable)
  BY DEF Reader

LEMMA PagingHolds ==
    ASSUME PageInv
    PROVE  PagingIsExact
  <1>1. CASE reader = NoReader
    BY <1>1 DEF PagingIsExact, NoReader
  <1>2. ASSUME NEW p, NEW c, NEW s, NEW t, NEW e, NEW st, reader = Reader(p, c, s, t, e, st),
               Paged(reviews, p, c, s, t, e, st)
        PROVE  PagingIsExact
    <2>1. /\ reader.pc = p /\ reader.seen = s /\ reader.tied = e /\ reader.stable = st
          /\ reader.twice = t
      BY <1>2, ReaderFields DEF Paged
    <2>2. ~t /\ (p = "done" => st \subseteq s \union e)
      BY <1>2 DEF Paged
    <2> QED
      BY <2>1, <2>2 DEF PagingIsExact
  <1> QED
    BY <1>1, <1>2 DEF PageInv

\* The collection changes under the reader.
LEMMA PagedWhileChanging ==
    ASSUME Base, NEW p, NEW c, NEW s, NEW t, NEW e, NEW st, Paged(reviews, p, c, s, t, e, st)
    PROVE  /\ (\E id \in ReviewIds, u \in Users : Inserted(id, u)) => Paged(reviews', p, c, s, t, e, st)
           /\ \A id \in ReviewIds, d \in {"PUBLISHED", "REJECTED"} : Decided(id, d) =>
                /\ d = "PUBLISHED" \/ p = "done" => Paged(reviews', p, c, s, t, e, st)
                /\ Paged(reviews', p, c, s, t, e, st \ {id})
  <1>1. ASSUME NEW id \in ReviewIds, NEW u \in Users, Inserted(id, u)
        PROVE  Paged(reviews', p, c, s, t, e, st)
    <2>1. \A i \in Stored(reviews) : i \in Stored(reviews') /\ reviews'[i] = reviews[i]
      BY <1>1 DEF Inserted, Stored
    <2>2. p = "paging" => st \subseteq Stored(reviews)
      BY DEF Paged, Stored
    <2> QED
      BY <2>1, <2>2 DEF Paged
  <1>2. ASSUME NEW id \in ReviewIds, NEW d \in {"PUBLISHED", "REJECTED"}, Decided(id, d)
        PROVE  /\ d = "PUBLISHED" \/ p = "done" => Paged(reviews', p, c, s, t, e, st)
               /\ Paged(reviews', p, c, s, t, e, st \ {id})
    <2>1. \A i \in ReviewIds : /\ i \in Stored(reviews) => i \in Stored(reviews')
                               /\ reviews'[i].createdAt = reviews[i].createdAt
                               /\ i # id \/ d = "PUBLISHED" =>
                                    (reviews[i].status = "PUBLISHED" => reviews'[i].status = "PUBLISHED")
      BY <1>2 DEF Decided, Stored
    <2>2. s \subseteq ReviewIds
      BY DEF Paged, Stored
    <2> QED
      BY <2>1, <2>2 DEF Paged
  <1> QED
    BY <1>1, <1>2

LEMMA MinExists ==
    ASSUME NEW T, T \subseteq Nat, T # {}
    PROVE  Min(T) \in T /\ \A y \in T : Min(T) <= y
  <1> DEFINE R == OpToRel(<, Nat)
  <1>1. \A x, y \in Nat : x < y => <<x, y>> \in R
    BY DEF OpToRel
  <1>2. IsWellFoundedOn(R, Nat)
    BY NatLessThanWellFounded
  <1> HIDE DEF R
  <1>3. PICK x \in T : \A y \in T : ~(<<y, x>> \in R)
    BY <1>2, WFMin
  <1>4. \A y \in T : x <= y
    <2>1. \A y \in T : ~(y < x)
      BY <1>1, <1>3
    <2> QED
      BY <2>1
  <1> QED
    BY <1>4 DEF Min

LEMMA PageFacts ==
    ASSUME Base, NEW c \in Nat, NEW page \in Pages(c)
    PROVE  /\ page \subseteq Listed(c)
           /\ \A id \in Listed(c) : reviews[id].createdAt \in Nat /\ reviews[id].createdAt < c
           /\ Listed(c) \subseteq Stored(reviews)
           /\ Listed(c) \ page # {} =>
                LET at == Oldest(page)
                IN  /\ at \in Nat /\ at < c
                    /\ \A id \in page : at <= reviews[id].createdAt
                    /\ \A id \in Listed(c) \ page : reviews[id].createdAt <= at
  <1>1. /\ page \subseteq Listed(c) /\ Cardinality(page) = Min({PageSize, Cardinality(Listed(c))})
        /\ \A i \in page, j \in Listed(c) \ page : reviews[i].createdAt >= reviews[j].createdAt
    BY DEF Pages
  <1>2. /\ \A id \in Listed(c) : reviews[id].createdAt \in Nat /\ reviews[id].createdAt < c
        /\ Listed(c) \subseteq Stored(reviews)
    BY DocumentFacts DEF Listed, Published, Stored, Base, Types
  <1>3. ASSUME Listed(c) \ page # {}
        PROVE  page # {}
    <2>1. IsFiniteSet(Listed(c))
      BY <1>2, FS_Subset DEF Base, FiniteInv
    <2>2. PICK k \in Nat : k = Cardinality(Listed(c)) /\ k # 0
      BY <1>3, <2>1, FS_CardinalityType, FS_EmptySet
    <2>3. Min({PageSize, k}) \in {PageSize, k}
      <3>1. PageSize \in Nat /\ {PageSize, k} \subseteq Nat /\ {PageSize, k} # {}
        BY ReviewsAssumption
      <3> QED
        BY <3>1, MinExists
    <2>4. Cardinality(page) # 0
      BY <1>1, <2>2, <2>3, ReviewsAssumption
    <2> QED
      BY <2>4, FS_EmptySet
  <1>4. ASSUME Listed(c) \ page # {}
        PROVE  LET at == Oldest(page)
               IN  /\ at \in Nat /\ at < c
                   /\ \A id \in page : at <= reviews[id].createdAt
                   /\ \A id \in Listed(c) \ page : reviews[id].createdAt <= at
    <2> DEFINE T == {reviews[id].createdAt : id \in page}
    <2>1. T \subseteq Nat /\ T # {}
      BY <1>1, <1>2, <1>3, <1>4
    <2>2. Oldest(page) \in T /\ \A y \in T : Oldest(page) <= y
      BY <2>1, MinExists DEF Oldest
    <2>3. PICK i \in page : Oldest(page) = reviews[i].createdAt
      BY <2>2
    <2> QED
      BY <1>1, <1>2, <2>2, <2>3
  <1> QED
    BY <1>1, <1>2, <1>4

LEMMA PageStep ==
    ASSUME Base, PageInv, NextPage
    PROVE  PageInv'
  <1>1. PICK p, c, s, t, e, st : reader = Reader(p, c, s, t, e, st) /\ Paged(reviews, p, c, s, t, e, st)
    BY DEF PageInv, NextPage, NoReader
  <1>2. /\ reader.pc = p /\ reader.cursor = c /\ reader.seen = s /\ reader.tied = e
        /\ reader.stable = st /\ reader.twice = t /\ p = "paging" /\ c \in Nat /\ t \in BOOLEAN /\ ~t
    BY <1>1, ReaderFields DEF NextPage, Paged
  <1>3. PICK page \in Pages(c) :
          LET rest == Listed(c) \ page
              at   == Oldest(page)
          IN  reader' = [reader EXCEPT
                !.pc     = IF rest = {} THEN "done" ELSE "paging",
                !.cursor = IF rest = {} THEN c ELSE at,
                !.twice  = t \/ page \cap s # {},
                !.seen   = s \union page,
                !.tied   = e \union {id \in rest : reviews[id].createdAt = at}]
    BY <1>2 DEF NextPage
  <1> DEFINE rest == Listed(c) \ page
             at == Oldest(page)
             np == IF rest = {} THEN "done" ELSE "paging"
             nc == IF rest = {} THEN c ELSE at
             nt == t \/ page \cap s # {}
             ns == s \union page
             ne == e \union {id \in rest : reviews[id].createdAt = at}
  <1>4. /\ page \subseteq Listed(c)
        /\ \A id \in Listed(c) : reviews[id].createdAt \in Nat /\ reviews[id].createdAt < c
        /\ Listed(c) \subseteq Stored(reviews)
        /\ rest # {} => /\ at \in Nat /\ at < c
                        /\ \A id \in page : at <= reviews[id].createdAt
                        /\ \A id \in rest : reviews[id].createdAt <= at
    BY <1>2, PageFacts
  <1>5. \A id \in s : reviews[id].createdAt \in Nat /\ reviews[id].createdAt >= c
    BY <1>1, <1>2, DocumentFacts DEF Paged, Stored, Base, Types
  <1>6. nt \in BOOLEAN /\ ~nt
    <2>1. page \cap s = {}
      BY <1>2, <1>4, <1>5
    <2> QED
      BY <1>2, <2>1
  <1>7. \A id \in st : id \in s \union e \/ id \in Listed(c)
    BY <1>1, <1>2 DEF Paged, Listed, Published
  <1>8. reader' = Reader(np, nc, ns, nt, ne, st) /\ UNCHANGED reviews
    <2>1. reader' = [Reader(p, c, s, t, e, st) EXCEPT
            !.pc = np, !.cursor = nc, !.twice = nt, !.seen = ns, !.tied = ne]
      BY <1>1, <1>3
    <2> HIDE DEF np, nc, nt, ns, ne
    <2>2. reader' = [i \in {"pc", "cursor", "seen", "twice", "tied", "stable"} |-> reader'[i]]
      BY <2>1 DEF Reader
    <2>3. /\ reader'.pc = np /\ reader'.cursor = nc /\ reader'.seen = ns /\ reader'.twice = nt
          /\ reader'.tied = ne /\ reader'.stable = st
      BY <2>1 DEF Reader
    <2> QED
      BY <2>2, <2>3, ReaderIsRecord DEF NextPage
  <1>9. Paged(reviews, np, nc, ns, nt, ne, st)
    <2>1. ns \subseteq Stored(reviews)
      BY <1>1, <1>4 DEF Paged
    <2> HIDE DEF nt
    <2>2. CASE rest = {}
      <3>1. np = "done" /\ nc = c
        BY <2>2
      <3>2. \A id \in st : id \in ns \union ne
        BY <1>7, <2>2
      <3> HIDE DEF np, nc, ns, ne
      <3> QED
        BY <1>2, <1>6, <2>1, <3>1, <3>2 DEF Paged
    <2>3. CASE rest # {}
      <3>1. np = "paging" /\ nc = at
        BY <2>3
      <3>2. \A id \in ns : reviews[id].createdAt >= at
        BY <1>2, <1>4, <1>5, <2>3
      <3>3. \A id \in st : id \in ns \union ne \/ reviews[id].createdAt < at
        <4> SUFFICES ASSUME NEW id \in st, id \notin s \union e, id \notin page
                     PROVE  id \in ne \/ reviews[id].createdAt < at
          OBVIOUS
        <4>1. id \in rest /\ reviews[id].createdAt <= at /\ reviews[id].createdAt \in Nat /\ at \in Nat
          BY <1>4, <1>7, <2>3
        <4> HIDE DEF at, rest
        <4> QED
          BY <4>1
      <3>4. \A id \in st : id \in ReviewIds /\ reviews[id].status = "PUBLISHED"
        BY <1>1, <1>2 DEF Paged
      <3>5. at \in Nat
        BY <1>4, <2>3
      <3> HIDE DEF np, nc, ns, ne, at
      <3> QED
        BY <1>6, <2>1, <3>1, <3>2, <3>3, <3>4, <3>5 DEF Paged
    <2> QED
      BY <2>2, <2>3
  <1> HIDE DEF np, nc, ns, nt, ne
  <1> QED
    BY <1>8, <1>9, Zenon DEF PageInv

LEMMA PageInvStep ==
    ASSUME Base, PageInv, [Next]_vars
    PROVE  PageInv'
  <1>t. Types /\ LatestInv /\ DocumentTypes
    BY DEF Base, Types
  <1>1. CASE UNCHANGED <<reviews, reader>>
    BY <1>1 DEF PageInv
  <1>2. ASSUME NEW u \in Users, NEW rating \in Ratings, CreateInsert(u, rating)
        PROVE  PageInv'
    <2>1. UNCHANGED reader /\ (UNCHANGED reviews \/ \E id \in ReviewIds : Inserted(id, u))
      BY <1>2, <1>t, InsertFacts
    <2>2. ASSUME NEW id \in ReviewIds, Inserted(id, u)
          PROVE  PageInv'
      BY <2>1, <2>2, PagedWhileChanging DEF PageInv
    <2> QED
      BY <1>1, <2>1, <2>2
  <1>3. ASSUME NEW m \in Moderators, ModerateUpdate(m)
        PROVE  PageInv'
    <2> DEFINE id == mod[m].id
               d == mod[m].decision
    <2>1. mod[m] \in Updates
          /\ \/ UNCHANGED <<reviews, reader>>
             \/ /\ Decided(id, d)
                /\ reader' = IF reader.pc = "paging" /\ ~(d = "PUBLISHED")
                             THEN [reader EXCEPT !.stable = @ \ {id}] ELSE reader
      BY <1>3, <1>t, UpdateFacts
    <2>2. id \in ReviewIds /\ d \in {"PUBLISHED", "REJECTED"}
      BY <2>1 DEF Updates
    <2> HIDE DEF id, d
    <2>3. ASSUME Decided(id, d),
                 reader' = IF reader.pc = "paging" /\ ~(d = "PUBLISHED")
                           THEN [reader EXCEPT !.stable = @ \ {id}] ELSE reader
          PROVE  PageInv'
      <3>1. CASE reader = NoReader
        BY <2>3, <3>1 DEF PageInv, NoReader
      <3>2. ASSUME NEW p, NEW c, NEW s, NEW t, NEW e, NEW st, reader = Reader(p, c, s, t, e, st),
                   Paged(reviews, p, c, s, t, e, st)
            PROVE  PageInv'
        <4>1. reader.pc = p /\ reader.stable = st /\ p \in {"paging", "done"}
              /\ [reader EXCEPT !.stable = st \ {id}] = Reader(p, c, s, t, e, st \ {id})
          BY <3>2, ReaderFields, ReaderLoses DEF Paged
        <4>2. /\ d = "PUBLISHED" \/ p = "done" => Paged(reviews', p, c, s, t, e, st)
              /\ Paged(reviews', p, c, s, t, e, st \ {id})
          BY <2>2, <2>3, <3>2, PagedWhileChanging
        <4>3. CASE p = "paging" /\ d # "PUBLISHED"
          <5>1. reader' = Reader(p, c, s, t, e, st \ {id})
            BY <2>3, <4>1, <4>3
          <5> QED
            BY <4>2, <5>1, Zenon DEF PageInv
        <4>4. CASE ~(p = "paging" /\ d # "PUBLISHED")
          <5>1. reader' = Reader(p, c, s, t, e, st) /\ Paged(reviews', p, c, s, t, e, st)
            BY <2>3, <3>2, <4>1, <4>2, <4>4
          <5> QED
            BY <5>1, Zenon DEF PageInv
        <4> QED
          BY <4>3, <4>4
      <3> QED
        BY <3>1, <3>2 DEF PageInv
    <2> QED
      BY <1>1, <2>1, <2>3
  <1>4. ASSUME OpenListing
        PROVE  PageInv'
    <2>1. PICK b : b = FALSE
      OBVIOUS
    <2>2. b \in BOOLEAN /\ ~b
      BY <2>1
    <2>3. reader' = Reader("paging", Latest + 1, {}, b, {}, Published) /\ UNCHANGED reviews
      BY <1>4, <2>1, Zenon DEF OpenListing, Reader
    <2>4. Latest \in Nat /\ \A id \in Published : id \in ReviewIds /\ reviews[id].status = "PUBLISHED"
            /\ reviews[id].createdAt \in Nat /\ reviews[id].createdAt <= Latest
      BY <1>t, LatestFacts, DocumentFacts DEF Published, Times
    <2>5. Paged(reviews, "paging", Latest + 1, {}, b, {}, Published)
      BY <2>2, <2>4 DEF Paged
    <2> QED
      BY <2>3, <2>5 DEF PageInv
  <1>5. ASSUME \/ \E u \in Users : RecordPurchase(u) \/ PurchaseExpires(u) \/ CreateBegin(u)
               \/ \E m \in Moderators :
                    \/ \E id \in ReviewIds, d \in {"PUBLISHED", "REJECTED"} : ModerateFind(m, id, d)
                    \/ DeltaInc(m) \/ DeltaRead(m) \/ DeltaSet(m)
                    \/ RebuildRead(m) \/ RebuildReplace(m) \/ ModeratorDies(m)
               \/ UNCHANGED vars
        PROVE  UNCHANGED <<reviews, reader>>
    BY <1>5 DEF RecordPurchase, PurchaseExpires, CreateBegin, ModerateFind, DeltaInc, DeltaRead,
                DeltaSet, RebuildRead, RebuildReplace, ModeratorDies, vars
  <1> QED
    BY <1>1, <1>2, <1>3, <1>4, <1>5, PageStep DEF Next

(* Whoever pages through listForProduct() sees no review twice and, at the end,
   has seen every review that stayed published, except those that shared a
   millisecond with a cursor: for any page size and whatever is submitted and
   moderated meanwhile. *)
THEOREM PagesAreExact == Spec => []PagingIsExact
  <1>1. Init => Base
    BY BaseInit
  <1>2. Init => PageInv
    BY DEF Init, PageInv
  <1>3. (Base /\ PageInv) /\ [Next]_vars => (Base /\ PageInv)'
    BY BaseStep, PageInvStep
  <1>4. PageInv => PagingIsExact
    BY PagingHolds
  <1> QED
    BY <1>1, <1>2, <1>3, <1>4, PTL DEF Spec
=============================================================================
