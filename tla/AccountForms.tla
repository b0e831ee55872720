---------------------------- MODULE AccountForms ----------------------------
(***************************************************************************)
(* The forms for registration and for a reset link (register-form.tsx,     *)
(* forgot-password-form.tsx) and their route handlers, which pass          *)
(* identity-service's 202 on, the same for an address that has an account  *)
(* and for one that has none.                                              *)
(***************************************************************************)
EXTENDS Bff

VARIABLE forms

Forms == {"register", "forgot"}

FormsInit == forms = [f \in Forms |-> "form"]

(* onSubmit: the button is disabled while the form waits. *)
SubmitAccountForm(f) ==
    /\ forms[f] \in {"form", "error"}
    /\ forms' = [forms EXCEPT ![f] = "busy"]

(* Registration shows an error; a request for a link ends the same way whatever
   happened. *)
FormOutcome(f, status) == IF f = "forgot" \/ Succeeds(status) THEN "check your email" ELSE "error"

AccountFormAnswered(f) ==
    /\ forms[f] = "busy"
    /\ \E status \in Once({202} \union IF f = "register" THEN {422} ELSE {}) :
         forms' = [forms EXCEPT ![f] = FormOutcome(f, status)]

FormsNext == \E f \in Forms : SubmitAccountForm(f) \/ AccountFormAnswered(f)

(* A call to a service ends at its timeout. *)
FormsSpec == FormsInit /\ [][FormsNext]_forms /\ \A f \in Forms : WF_forms(AccountFormAnswered(f))
=============================================================================
