-------------------------- MODULE OrderStateMachine -------------------------
(***************************************************************************)
(* What services/execution/execution_svc/order_tracker.py promises at its  *)
(* head: the life of an order is                                           *)
(*     SUBMITTED -> ACCEPTED -> FILLED                                     *)
(*     SUBMITTED -> ACCEPTED -> PARTIALLY_FILLED -> FILLED                 *)
(*     SUBMITTED -> REJECTED                                               *)
(*     SUBMITTED -> ACCEPTED -> CANCELLED                                  *)
(* An order may be registered again, which begins a new life, and the      *)
(* process may end, which forgets every order.                             *)
(***************************************************************************)
CONSTANT Orders

VARIABLE status  \* status[o], "none" while o is unknown

Edges == {<<"SUBMITTED", "ACCEPTED">>, <<"SUBMITTED", "REJECTED">>,
          <<"ACCEPTED", "FILLED">>, <<"ACCEPTED", "PARTIALLY_FILLED">>,
          <<"ACCEPTED", "CANCELLED">>, <<"PARTIALLY_FILLED", "FILLED">>,
          <<"PARTIALLY_FILLED", "PARTIALLY_FILLED">>,
          <<"PARTIALLY_FILLED", "CANCELLED">>}

Nothing == [o \in Orders |-> "none"]

Init == status = Nothing

Register(o) == status' = [status EXCEPT ![o] = "SUBMITTED"]

Move(o, to) ==
    /\ <<status[o], to>> \in Edges
    /\ status' = [status EXCEPT ![o] = to]

Forget == status' = Nothing

Next ==
    \/ \E o \in Orders : Register(o) \/ \E e \in Edges : Move(o, e[2])
    \/ Forget

Spec == Init /\ [][Next]_status

=============================================================================
