------------------------------- MODULE Toasts -------------------------------
(***************************************************************************)
(* The toast store of hooks/use-toast.ts: a list outside React, newest     *)
(* first, cut at TOAST_LIMIT.  A closed toast stays for its exit animation *)
(* and is dropped by a timer of its own.                                   *)
(***************************************************************************)
EXTENDS Naturals, Sequences

CONSTANTS
    ToastLimit,   \* TOAST_LIMIT, 3 in the code
    MaxToasts     \* bound: toasts shown

ASSUME ToastsAssumption == ToastLimit \in Nat \ {0} /\ MaxToasts \in Nat

VARIABLES
    toasts,         \* memoryState.toasts
    count,
    removalTimers   \* ids with a timer running

toastVars == <<toasts, count, removalTimers>>

ToastsInit == toasts = <<>> /\ count = 0 /\ removalTimers = {}

(* toast() *)
Toast ==
    /\ count < MaxToasts
    /\ count' = count + 1
    /\ LET all == <<[id |-> count', open |-> TRUE]>> \o toasts
       IN  toasts' = SubSeq(all, 1, IF Len(all) > ToastLimit THEN ToastLimit ELSE Len(all))
    /\ UNCHANGED removalTimers

(* dismiss() and onOpenChange: closed, and a timer is set unless there is one.
   It may be called again, and for a toast that is no longer in the list. *)
Dismiss(id) ==
    /\ id \in 1 .. count
    /\ toasts' = [i \in DOMAIN toasts |->
                    IF toasts[i].id = id THEN [toasts[i] EXCEPT !.open = FALSE] ELSE toasts[i]]
    /\ removalTimers' = removalTimers \union {id}
    /\ UNCHANGED count

(* The timer of scheduleRemoval(). *)
RemoveToast(id) ==
    /\ id \in removalTimers
    /\ removalTimers' = removalTimers \ {id}
    /\ toasts' = SelectSeq(toasts, LAMBDA t : t.id # id)
    /\ UNCHANGED count

ToastsNext ==
    \/ Toast
    \/ \E id \in 1 .. MaxToasts : Dismiss(id) \/ RemoveToast(id)

(* A timer that was set fires. *)
ToastsSpec == ToastsInit /\ [][ToastsNext]_toastVars /\ \A id \in 1 .. MaxToasts : WF_toastVars(RemoveToast(id))
=============================================================================
