---------------------------- MODULE ChannelSale ----------------------------
(***************************************************************************)
(* What the server promises about each channel it sells, whatever crashes: *)
(* an offer is paid or withdrawn, a paid one is taken up once, and one     *)
(* that was taken up is delivered or abandoned, never both and never       *)
(* again.  A paid sale may also stay where it is.                          *)
(***************************************************************************)
CONSTANT Reqs                \* the sales

VARIABLE sale

Init == sale = [q \in Reqs |-> "none"]

Move(q, from, to) == sale[q] = from /\ sale' = [sale EXCEPT ![q] = to]

Offer(q) == Move(q, "none", "offered")
Withdraw(q) == Move(q, "offered", "void")
Pay(q) == Move(q, "offered", "paid")
TakeUp(q) == Move(q, "paid", "serving")
Deliver(q) == Move(q, "serving", "delivered")

\* The end of the server's process abandons every sale being served.
Abandon(Q) == /\ \A q \in Q : sale[q] = "serving"
              /\ sale' = [q \in Reqs |-> IF q \in Q THEN "abandoned" ELSE sale[q]]

Next == \/ \E q \in Reqs : \/ Offer(q) \/ Withdraw(q) \/ Pay(q)
                           \/ TakeUp(q) \/ Deliver(q)
        \/ \E Q \in SUBSET Reqs : Abandon(Q)

Spec == Init /\ [][Next]_sale
=============================================================================
