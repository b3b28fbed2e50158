------------------------------ MODULE LPClient ------------------------------
(***************************************************************************)
(* One Client.RequestChannel: the checks against the server's policy, the  *)
(* invoice, the goroutine that watches for the channel (watchForChannel),  *)
(* the payment, and the wait for the goroutine's word.  The server, its    *)
(* configuration, the client's node and other peers are the environment's. *)
(***************************************************************************)
EXTENDS Integers, Sequences

CONSTANTS ChanSize,       \* the size asked for
          Policies,       \* policies the server may publish
          RateScale,      \* ChanInvoiceFeeRate is a multiple of 1/RateScale
          MaxOutbound,    \* ChannelBalance.MaxOutboundAmount
          MaxChannels,    \* bound on channels open between client and server
          MaxOthers       \* bound on channels other peers open

ASSUME ClientAssumption ==
    /\ ChanSize \in Nat /\ RateScale \in Nat \ {0} /\ MaxOutbound \in Nat
    /\ Policies \subseteq [MinChanSize : Nat, MaxChanSize : Nat,
                           MaxNbChannels : Nat, ChanInvoiceFeeRate : Nat]
    /\ MaxChannels \in Nat /\ MaxOthers \in Nat

VARIABLES
    pc,          \* where RequestChannel is
    result,      \* what it returned
    policy,      \* the policy it fetched
    invoice,     \* the amount of the invoice it got
    watcher,     \* the watchForChannel goroutine
    serverPolicy, existing,
    paid,        \* the amount the server was paid
    newChan,     \* the channel the server opens for it
    events,      \* channel events on the goroutine's stream
    others       \* channels opened by other peers

clientVars == <<pc, result, policy, invoice, watcher>>
envVars == <<serverPolicy, existing, paid, newChan, events, others>>
vars == <<clientVars, envVars>>

\* The policy before it was fetched.
NoPolicy == [MinChanSize |-> 0, MaxChanSize |-> 0, MaxNbChannels |-> 0,
             ChanInvoiceFeeRate |-> 0]

EstimatedInvoiceAmount(p) == (ChanSize * p.ChanInvoiceFeeRate) \div RateScale

Init ==
    /\ pc = "policy"
    /\ result = "none"
    /\ policy = NoPolicy
    /\ invoice = 0
    /\ watcher = "none"
    /\ serverPolicy \in Policies
    /\ existing \in 0..MaxChannels
    /\ paid = 0
    /\ newChan = "none"
    /\ events = <<>>
    /\ others = 0

-----------------------------------------------------------------------------
(* RequestChannel.                                                         *)

Goto(stage) == pc' = stage /\ UNCHANGED result
\* A slip: the error is dropped on the way out.
ReturnNothing(value) == pc' = "returned" /\ UNCHANGED result
Return(value) == pc' = "returned" /\ result' = value

FetchPolicy ==
    /\ pc = "policy"
    /\ \/ policy' = serverPolicy /\ Goto("check")
       \/ Return("error") /\ UNCHANGED policy
    /\ UNCHANGED <<invoice, watcher, envVars>>

PolicyAllows ==
    /\ policy.MinChanSize <= ChanSize /\ ChanSize <= policy.MaxChanSize
    /\ existing < policy.MaxNbChannels
    /\ EstimatedInvoiceAmount(policy) <= MaxOutbound

\* The checks against the policy, the route, the PolicyFetched callback and the
\* connection to the server's node: any of them may end the request.
CheckPolicy ==
    /\ pc = "check"
    /\ \/ PolicyAllows /\ Goto("invoice")
       \/ Return("error")
    /\ UNCHANGED <<policy, invoice, watcher, envVars>>

\* The server may price the invoice by another policy than the one it published.
RequestInvoice ==
    /\ pc = "invoice"
    /\ \/ /\ \E p \in Policies : invoice' = EstimatedInvoiceAmount(p)
          /\ Goto("validate")
       \/ Return("error") /\ UNCHANGED invoice
    /\ UNCHANGED <<policy, watcher, envVars>>

\* A slip: the invoice may not be dearer than the wallet can pay, and that is all.
ValidateByBalance ==
    /\ pc = "validate"
    /\ IF invoice <= MaxOutbound
       THEN Goto("pay") /\ watcher' = "subscribing"
       ELSE Return("error") /\ UNCHANGED watcher
    /\ UNCHANGED <<policy, invoice, envVars>>

\* The amounts are compared and the goroutine starts.
ValidateInvoice ==
    /\ pc = "validate"
    /\ IF invoice = EstimatedInvoiceAmount(policy)
       THEN Goto("pay") /\ watcher' = "subscribing"
       ELSE Return("error") /\ UNCHANGED watcher
    /\ UNCHANGED <<policy, invoice, envVars>>

\* SendPayment is opened and the request is sent.
Pay ==
    /\ pc = "pay"
    /\ Goto("settling") \/ Return("error")
    /\ UNCHANGED <<policy, invoice, watcher, envVars>>

\* A slip: PaymentError is not looked at.
PaymentAnsweredBlindly ==
    /\ pc = "settling"
    /\ Goto("wait") \/ Return("error")
    /\ UNCHANGED <<policy, invoice, watcher, envVars>>

\* The first answer: the payment went through, or an error.  A broken stream is
\* an error too, whatever became of the payment.
PaymentAnswered ==
    /\ pc = "settling"
    /\ \/ paid > 0 /\ Goto("wait")
       \/ Return("error")
    /\ UNCHANGED <<policy, invoice, watcher, envVars>>

\* <-chanOpenedChan: both ends of the unbuffered channel meet.
HearWatcher ==
    /\ pc = "wait"
    /\ \/ watcher = "tell opened" /\ Return("nil")
       \/ watcher = "tell error" /\ Return("error")
    /\ watcher' = "done"
    /\ UNCHANGED <<policy, invoice, envVars>>

-----------------------------------------------------------------------------
(* watchForChannel.                                                        *)

\* Nothing that happened before the subscription is told.
WatcherSubscribes ==
    /\ watcher = "subscribing"
    /\ watcher' \in {"watching", "tell error"}
    /\ UNCHANGED <<pc, result, policy, invoice, envVars>>

\* A slip: the event is waited for without leaving the loop.
WatcherReadsOn ==
    /\ watcher = "watching" /\ events /= <<>>
    /\ events' = Tail(events)
    /\ UNCHANGED <<clientVars, serverPolicy, existing, paid, newChan,
                   others>>

\* A slip: the first event of any kind is the channel.
WatcherReadsFirst ==
    /\ watcher = "watching" /\ events /= <<>>
    /\ watcher' = "tell opened"
    /\ events' = Tail(events)
    /\ UNCHANGED <<pc, result, policy, invoice, serverPolicy, existing, paid,
                   newChan, others>>

\* A PENDING_OPEN_CHANNEL event is only shown to the user.  Any channel that
\* opens counts.
WatcherReads ==
    /\ watcher = "watching" /\ events /= <<>>
    /\ watcher' = IF Head(events) = "pending" THEN "watching" ELSE "tell opened"
    /\ events' = Tail(events)
    /\ UNCHANGED <<pc, result, policy, invoice, serverPolicy, existing,
                   paid, newChan, others>>

\* A slip: a broken stream ends the goroutine without a word.
WatcherFallsSilent ==
    /\ watcher = "watching"
    /\ watcher' = "done"
    /\ UNCHANGED <<pc, result, policy, invoice, envVars>>

\* The stream breaks, or RequestChannel returned and canceled it.
WatcherLosesStream ==
    /\ watcher = "watching"
    /\ watcher' = "tell error"
    /\ UNCHANGED <<pc, result, policy, invoice, envVars>>

-----------------------------------------------------------------------------
(* The server, the client's node and other peers.                          *)

Tell(event) == events' = IF watcher = "watching" THEN Append(events, event)
                                                 ELSE events

ServerRestarts ==
    /\ serverPolicy' \in Policies \ {serverPolicy}
    /\ UNCHANGED <<clientVars, existing, paid, newChan, events, others>>

\* The payment was sent; it may go through after RequestChannel has returned.
PaymentUnderWay == pc = "settling" \/ (pc = "returned" /\ watcher /= "none")

PaymentSettles ==
    /\ PaymentUnderWay
    /\ paid = 0 /\ invoice > 0
    /\ paid' = invoice
    /\ UNCHANGED <<clientVars, serverPolicy, existing, newChan, events,
                   others>>

ServerOpens ==
    /\ paid > 0
    /\ \/ newChan = "none" /\ newChan' = "pending"
       \/ newChan = "pending" /\ newChan' = "open"
    /\ Tell(newChan')
    /\ UNCHANGED <<clientVars, serverPolicy, existing, paid, others>>

OtherOpens ==
    /\ others < MaxOthers
    /\ others' = others + 1
    /\ Tell("other")
    /\ UNCHANGED <<clientVars, serverPolicy, existing, paid, newChan>>

-----------------------------------------------------------------------------

Request == FetchPolicy \/ CheckPolicy \/ RequestInvoice \/ ValidateInvoice
               \/ Pay \/ PaymentAnswered \/ HearWatcher

Watcher == WatcherSubscribes \/ WatcherReads \/ WatcherLosesStream

Environment == ServerRestarts \/ PaymentSettles \/ ServerOpens \/ OtherOpens

Next == Request \/ Watcher \/ Environment

Spec == Init /\ [][Next]_vars

\* Both goroutines are scheduled; a stream need not break, and the environment
\* owes nothing.
FairSpec == Spec /\ WF_vars(HearWatcher) /\ WF_vars(WatcherSubscribes)
                 /\ WF_vars(WatcherReads)

-----------------------------------------------------------------------------
(* Correctness.                                                            *)

\* The type invariant; a request has a result as soon as it returned.
TypeOK ==
    /\ pc \in {"policy", "check", "invoice", "validate", "pay", "settling",
               "wait", "returned"}
    /\ result \in {"none", "nil", "error"}
    /\ (result = "none") = (pc /= "returned")
    /\ policy \in Policies \cup {NoPolicy} /\ serverPolicy \in Policies
    /\ invoice \in Nat /\ paid \in Nat
    /\ watcher \in {"none", "subscribing", "watching", "tell opened",
                    "tell error", "done"}
    /\ newChan \in {"none", "pending", "open"}
    /\ events \in Seq({"pending", "open", "other"})

\* Whatever the server's policy becomes while the request is on its way, the
\* client pays what the policy it was shown asks for, within what its wallet
\* can send and for a size that policy allows (RequestChannel).
PaysWhatWasShown ==
    paid > 0 => paid = EstimatedInvoiceAmount(policy) /\ PolicyAllows

\* Whatever fails in the goroutine, a request that waits for its channel has a
\* goroutine that can still end the wait (RequestChannel, watchForChannel).
WaitIsAnswerable == pc = "wait" => watcher \notin {"none", "done"}

\* Success is reported for nothing that was not paid for, and not before some
\* channel opened (RequestChannel, watchForChannel).
SuccessIsPaidFor == result = "nil" => paid > 0 /\ (newChan = "open" \/ others > 0)

OpenTold == \E i \in 1..Len(events) : events[i] /= "pending"

\* Once the goroutine's stream told of an open channel, a request that waits
\* returns: the goroutine is never left holding the news (watchForChannel).
OpeningIsHeard == (pc = "wait" /\ watcher = "watching" /\ OpenTold) ~> (pc = "returned")

-----------------------------------------------------------------------------
(* What the comments say, and the code does not keep.                      *)

\* "RequestChannel requests a new channel from the liquidity provider" and
\* "Wait for channel to be opened": success means that channel is open.
SuccessMeansChannel == result = "nil" => newChan = "open"
=============================================================================
