----------------------------- MODULE Storefront -----------------------------
(***************************************************************************)
(* The storefront: the parts a customer works with, each with the route    *)
(* handlers and the service behind it.  They keep their state apart (a     *)
(* provider, a page or a store each) and meet only in the services, so a   *)
(* behaviour of the model is one of a single part, chosen at the start.    *)
(* One part, the refresh tokens, is identity-service's own side of the     *)
(* session.                                                                *)
(***************************************************************************)
EXTENDS Checkout, OrderProgress, Basket, SearchBox, Toasts, Session, Tokens,
        Account, AccountForms

VARIABLE part

storefrontVars ==
    <<part, checkoutVars, progressVars, basketVars, searchVars, toastVars, sessionVars,
      tokenVars, accountVars, forms>>

Parts == {"checkout", "progress", "basket", "search", "toasts", "session", "tokens", "account", "forms"}

(* A part that is not looked at starts in one of its initial states. *)
StorefrontInit ==
    /\ part \in Parts
    /\ CheckoutInit /\ ProgressInit /\ BasketInit /\ SearchInit
    /\ ToastsInit /\ SessionInit /\ TokensInit /\ AccountInit /\ FormsInit
    /\ part # "progress" => placed = "PENDING" /\ stream = "open"
    /\ part # "basket" => signed

(* What a step of one part leaves alone. *)
OfCheckout ==
    /\ part = "checkout"
    /\ UNCHANGED <<part, progressVars, basketVars, searchVars, toastVars, sessionVars, tokenVars, accountVars, forms>>
OfProgress ==
    /\ part = "progress"
    /\ UNCHANGED <<part, checkoutVars, basketVars, searchVars, toastVars, sessionVars, tokenVars, accountVars, forms>>
OfBasket ==
    /\ part = "basket"
    /\ UNCHANGED <<part, checkoutVars, progressVars, searchVars, toastVars, sessionVars, tokenVars, accountVars, forms>>
OfSearch ==
    /\ part = "search"
    /\ UNCHANGED <<part, checkoutVars, progressVars, basketVars, toastVars, sessionVars, tokenVars, accountVars, forms>>
OfToasts ==
    /\ part = "toasts"
    /\ UNCHANGED <<part, checkoutVars, progressVars, basketVars, searchVars, sessionVars, tokenVars, accountVars, forms>>
OfSession ==
    /\ part = "session"
    /\ UNCHANGED <<part, checkoutVars, progressVars, basketVars, searchVars, toastVars, tokenVars, accountVars, forms>>
OfTokens ==
    /\ part = "tokens"
    /\ UNCHANGED <<part, checkoutVars, progressVars, basketVars, searchVars, toastVars, sessionVars, accountVars, forms>>
OfAccount ==
    /\ part = "account"
    /\ UNCHANGED <<part, checkoutVars, progressVars, basketVars, searchVars, toastVars, sessionVars, tokenVars, forms>>
OfForms ==
    /\ part = "forms"
    /\ UNCHANGED <<part, checkoutVars, progressVars, basketVars, searchVars, toastVars, sessionVars, tokenVars, accountVars>>

StorefrontNext ==
    \/ OfCheckout /\ CheckoutNext
    \/ OfProgress /\ ProgressNext
    \/ OfBasket /\ BasketNext
    \/ OfSearch /\ SearchNext
    \/ OfToasts /\ ToastsNext
    \/ OfSession /\ SessionNext
    \/ OfTokens /\ TokensNext
    \/ OfAccount /\ AccountNext
    \/ OfForms /\ FormsNext

(* A page has up to two controls that work at the same time: the form of each tab,
   the enrolment page of each tab, registration and the request for a link. *)
Controls == {1, 2}
FormOf == <<"register", "forgot">>

(* What goes on by itself for control n: a call to a service ends at its timeout, a
   handler runs on, a timer fires. *)
Served(n) ==
    \/ OfCheckout /\ Serve
    \/ OfProgress /\ Stall
    \/ OfBasket /\ BasketServe
    \/ OfSearch /\ SearchServe
    \/ OfSession /\ SessionServe(<<n, "form">>)
    \/ OfAccount /\ EnrolmentBusy(n) /\ AccountServe(pages[n].busy)
    \/ OfForms /\ AccountFormAnswered(FormOf[n])

StorefrontFairness == \A n \in Controls : WF_storefrontVars(Served(n))

StorefrontSpec ==
    StorefrontInit /\ [][StorefrontNext]_storefrontVars /\ StorefrontFairness

-----------------------------------------------------------------------------
(* Control n has the customer wait: the button of the checkout, the status page
   that has neither settled nor said that it takes long, the controls of the
   basket, the type-ahead, a form of the session or of an account, an enrolment
   page. *)
Spins(n) ==
    \/ part = "checkout" /\ SubmittingOrder
    \/ part = "progress" /\ Spinning
    \/ part = "basket" /\ Loading
    \/ part = "search" /\ SearchLoading
    \/ part = "session" /\ Submitting(n)
    \/ part = "account" /\ EnrolmentBusy(n)
    \/ part = "forms" /\ forms[FormOf[n]] = "busy"

(* Nothing the customer waits for spins for ever, whatever fails: every control by
   itself comes back. *)
NothingSpinsForEver == \A n \in Controls : Spins(n) ~> ~Spins(n)
=============================================================================
