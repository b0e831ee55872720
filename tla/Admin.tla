------------------------------- MODULE Admin -------------------------------
(***************************************************************************)
(* The admin app: merchandising and operations, which share the session    *)
(* and nothing else, so a behaviour of the model is one of either part,    *)
(* chosen at the start.                                                    *)
(***************************************************************************)
EXTENDS AdminCatalog, AdminOrders

VARIABLE desk

adminVars == <<desk, catalogVars, ordersVars>>

OfCatalog == desk = "catalog" /\ UNCHANGED <<desk, ordersVars>>
OfOrders == desk = "orders" /\ UNCHANGED <<desk, catalogVars>>

(* The part that is not looked at starts in one of its initial states; the product
   starts at the lowest price, with any reference price or none. *)
AdminInit ==
    /\ desk \in {"catalog", "orders"}
    /\ AdminCatalogInit /\ AdminOrdersInit
    /\ desk # "orders" => routed /\ saga = "PENDING"
    /\ \A p \in Prices : variant.price <= p
    /\ desk # "catalog" => variant.list = 0

AdminNext ==
    \/ OfCatalog /\ AdminCatalogNext
    \/ OfOrders /\ AdminOrdersNext

AdminSpec ==
    /\ AdminInit /\ [][AdminNext]_adminVars
    /\ WF_adminVars((OfCatalog /\ CatalogGoesOn) \/ (OfOrders /\ ActionsGoOn))

-----------------------------------------------------------------------------
OperatorWaits ==
    \/ \E o \in Operators, c \in Controls : waits[o][c] > 0
    \/ \E o \in Staff : rows[o].busy # "none"

(* Every control of the admin app comes back, whatever the services behind it do:
   no lock, stale version or lost answer leaves an operator with a spinner. *)
OperatorsAreAnswered == OperatorWaits ~> ~OperatorWaits
=============================================================================
