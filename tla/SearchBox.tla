----------------------------- MODULE SearchBox -----------------------------
(***************************************************************************)
(* Search with type-ahead (components/layout/search-box.tsx and            *)
(* api/bff/suggest/route.ts).  Every change of the box is a generation;    *)
(* suggestions are known by the generation they were asked for, 0 for an   *)
(* empty list.  The effect's cleanup clears the timer and aborts the call  *)
(* of the generation before.                                               *)
(***************************************************************************)
EXTENDS Bff

CONSTANT MaxGenerations   \* bound: changes of the box

ASSUME SearchBoxAssumption == MaxGenerations \in Nat

VARIABLES
    generation,
    noise,         \* the trimmed query has fewer than two characters
    calls,         \* the type-ahead of each generation
    suggestions,   \* the generation of the suggestions in state
    open,
    searched       \* whether the form was submitted for this generation

searchVars == <<generation, noise, calls, suggestions, open, searched>>

Generations == 1 .. MaxGenerations
InFlight == {"asking", "answered"}

SearchInit ==
    /\ generation = 0 /\ noise = TRUE
    /\ calls = [g \in Generations |-> "none"]
    /\ suggestions = 0 /\ open = FALSE /\ searched = FALSE

(* loading is set by the timer and reset by the finally of any call. *)
SearchLoading == \E g \in Generations : calls[g] \in InFlight

(* Nothing is under way for a query that is worth one. *)
AtRest == ~noise /\ \A g \in Generations : calls[g] = "none"

(* Mutant: the cleanup clears the timer and leaves the call. *)
CleanupTimer(g) == IF calls[g] \in InFlight THEN calls[g] ELSE "none"

(* The effect's cleanup: the call rejects at once and its catch empties the list. *)
Cleanup(g) == "none"

(* The value changes: a key, the cleared box or a navigation. *)
Change ==
    /\ generation < MaxGenerations
    /\ generation' = generation + 1
    /\ noise' \in BOOLEAN
    /\ calls' = [g \in Generations |->
                    IF g = generation' THEN IF noise' THEN "none" ELSE "timer" ELSE Cleanup(g)]
    /\ suggestions' = IF noise' \/ SearchLoading THEN 0 ELSE suggestions
    /\ searched' = FALSE
    /\ UNCHANGED open

(* 180 ms without a change. *)
Debounced(g) ==
    /\ calls[g] = "timer"
    /\ calls' = [calls EXCEPT ![g] = "asking"]
    /\ UNCHANGED <<generation, noise, suggestions, open, searched>>

(* GET /api/bff/suggest: whatever search-service answers, 200; a failure is an
   empty list. *)
Suggest(g) ==
    /\ calls[g] = "asking"
    /\ calls' = [calls EXCEPT ![g] = "answered"]
    /\ UNCHANGED <<generation, noise, suggestions, open, searched>>

(* The answer, an empty one, or none. *)
SuggestionsArrive(g) ==
    /\ calls[g] = "answered"
    /\ \E status \in Once({200}), some \in BOOLEAN :
         IF Succeeds(status)
         THEN suggestions' = (IF some THEN g ELSE 0) /\ open' = some
         ELSE suggestions' = 0 /\ UNCHANGED open
    /\ calls' = [calls EXCEPT ![g] = "none"]
    /\ UNCHANGED <<generation, noise, searched>>

(* Enter submits whatever the list shows. *)
SubmitSearch ==
    /\ ~searched
    /\ searched' = TRUE /\ open' = FALSE
    /\ UNCHANGED <<generation, noise, calls, suggestions>>

(* Escape, a click outside or on a suggestion. *)
Close ==
    /\ open
    /\ open' = FALSE
    /\ UNCHANGED <<generation, noise, calls, suggestions, searched>>

Focus ==
    /\ ~open /\ suggestions # 0
    /\ open' = TRUE
    /\ UNCHANGED <<generation, noise, calls, suggestions, searched>>

-----------------------------------------------------------------------------
SearchServe == \E g \in Generations : Debounced(g) \/ Suggest(g) \/ SuggestionsArrive(g)

SearchNext == Change \/ SearchServe \/ SubmitSearch \/ Close \/ Focus

(* Timers fire and the route handler's calls end. *)
SearchSpec == SearchInit /\ [][SearchNext]_searchVars /\ WF_searchVars(SearchServe)

-----------------------------------------------------------------------------
(* "the suggestions for "so" can land after the suggestions for "sony" and
   overwrite them ... cancelling [fixes that]": suggestions never give way to
   those of an older query, and once nothing is under way the list is empty or
   belongs to what is in the box. *)
SuggestionsFollowTheBox ==
    [][/\ suggestions' \in {0, suggestions, generation}
       /\ AtRest' => suggestions' \in {0, generation'}]_searchVars
=============================================================================
