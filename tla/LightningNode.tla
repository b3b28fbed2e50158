--------------------------- MODULE LightningNode ---------------------------
(***************************************************************************)
(* The dcrlnd node as the server sees it through lnrpc (external code):    *)
(* its invoices, the stream of invoice updates, and the channels it opens. *)
(* An invoice and the channel bought with it share the request that asked  *)
(* for them.  Payments and the chain are the environment's.                *)
(***************************************************************************)
EXTENDS Integers, Sequences, FiniteSets

CONSTANTS Reqs,            \* requests, each with at most one invoice and channel
          InvoiceExpiry,   \* Invoice.Expiry, in ticks
          MaxOverpay,      \* bound on what a payer adds to the invoice's value
          MaxDrops,        \* bound on lost connections of the update stream
          MaxDuplicates    \* bound on updates delivered twice

ASSUME InvoiceExpiryAssumption == InvoiceExpiry \in Nat
ASSUME LNBoundsAssumption ==
    MaxOverpay \in Nat /\ MaxDrops \in Nat /\ MaxDuplicates \in Nat

VARIABLES invoice,         \* each request's invoice
          subscribed,      \* a SubscribeInvoices stream is registered
          updates,         \* updates sent on the stream and not read yet
          chan,            \* each request's channel
          opens,           \* OpenChannel calls accepted for each request
          drops, duplicates

lnVars == <<invoice, subscribed, updates, chan, opens, drops, duplicates>>

NoInvoice == [state |-> "none", value |-> 0, paid |-> 0, created |-> 0]

LNInit ==
    /\ invoice = [q \in Reqs |-> NoInvoice]
    /\ subscribed = FALSE
    /\ updates = <<>>
    /\ chan = [q \in Reqs |-> "none"]
    /\ opens = [q \in Reqs |-> 0]
    /\ drops = 0
    /\ duplicates = 0

-----------------------------------------------------------------------------
(* Invoices and their updates.                                             *)

\* A subscription made with no index only hears of what happens after it:
\* an update with nobody subscribed is gone.
Notify(q) == updates' = IF subscribed THEN Append(updates, q) ELSE updates

LNAddInvoice(q, amount, t) ==
    /\ invoice[q].state = "none"
    /\ invoice' = [invoice EXCEPT ![q] = [state |-> "open", value |-> amount,
                                          paid |-> 0, created |-> t]]
    /\ UNCHANGED <<subscribed, updates, chan, opens, drops, duplicates>>

Payable(q, t) == /\ invoice[q].state = "open"
                 /\ t <= invoice[q].created + InvoiceExpiry

\* The node takes at least the invoice's value.
LNSettle(q, t) ==
    /\ Payable(q, t)
    /\ \E extra \in 0..MaxOverpay :
          invoice' = [invoice EXCEPT ![q].state = "settled",
                                     ![q].paid = invoice[q].value + extra]
    /\ Notify(q)
    /\ UNCHANGED <<subscribed, chan, opens, drops, duplicates>>

LNCancel(q, t) ==
    /\ invoice[q].state = "open"
    /\ ~Payable(q, t)
    /\ invoice' = [invoice EXCEPT ![q].state = "canceled"]
    /\ Notify(q)
    /\ UNCHANGED <<subscribed, chan, opens, drops, duplicates>>

LNSubscribe ==
    /\ ~subscribed
    /\ subscribed' = TRUE
    /\ UNCHANGED <<invoice, updates, chan, opens, drops, duplicates>>

\* The stream breaks: updates past a point never reach the subscriber.
LNDrop ==
    /\ subscribed
    /\ drops < MaxDrops
    /\ drops' = drops + 1
    /\ subscribed' = FALSE
    /\ \E k \in 0..Len(updates) : updates' = SubSeq(updates, 1, k)
    /\ UNCHANGED <<invoice, chan, opens, duplicates>>

\* The node tells of a finished invoice again.
LNDuplicate(q) ==
    /\ subscribed
    /\ duplicates < MaxDuplicates
    /\ invoice[q].state \in {"settled", "canceled"}
    /\ duplicates' = duplicates + 1
    /\ updates' = Append(updates, q)
    /\ UNCHANGED <<invoice, subscribed, chan, opens, drops>>

-----------------------------------------------------------------------------
(* Channels.                                                               *)

\* The OpenChannel stream is established; the node funds the channel or
\* reports its refusal on the stream.
LNOpenChannel(q) ==
    /\ opens' = [opens EXCEPT ![q] = @ + 1]
    /\ \E outcome \in {"pending", "failed"} : chan' = [chan EXCEPT ![q] = outcome]
    /\ UNCHANGED <<invoice, subscribed, updates, drops, duplicates>>

LNConfirm(q) ==
    /\ chan[q] = "pending"
    /\ chan' = [chan EXCEPT ![q] = "open"]
    /\ UNCHANGED <<invoice, subscribed, updates, opens, drops, duplicates>>

LNClose(q) ==
    /\ chan[q] = "open"
    /\ chan' = [chan EXCEPT ![q] = "closed"]
    /\ UNCHANGED <<invoice, subscribed, updates, opens, drops, duplicates>>

LNTypeOK ==
    /\ invoice \in [Reqs -> [state : {"none", "open", "settled", "canceled"},
                             value : Nat, paid : Nat, created : Nat]]
    /\ subscribed \in BOOLEAN
    /\ updates \in Seq(Reqs)
    /\ chan \in [Reqs -> {"none", "pending", "failed", "open", "closed"}]
    /\ opens \in [Reqs -> Nat]
    /\ drops \in 0..MaxDrops
    /\ duplicates \in 0..MaxDuplicates

\* len(PendingChannels().PendingOpenChannels)
PendingOpenChannels == {q \in Reqs : chan[q] = "pending"}
OpenChannels == {q \in Reqs : chan[q] = "open"}
=============================================================================
