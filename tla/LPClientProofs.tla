--------------------------- MODULE LPClientProofs ---------------------------
(* The client is well typed, pays what it was shown, and waits for nothing *)
(* that cannot come, whatever the server and the other peers do.           *)
EXTENDS LPClient, TLAPS

\* What the client checked stays what it pays for: the policy is not fetched
\* again, and the goroutine is started once the invoice is found to fit it.
CheckedInv ==
    /\ pc \in {"invoice", "validate"} => PolicyAllows
    /\ watcher /= "none" =>
           /\ pc \in {"pay", "settling", "wait", "returned"}
           /\ invoice = EstimatedInvoiceAmount(policy)
           /\ PolicyAllows
    /\ pc \in {"pay", "settling", "wait"} => watcher \notin {"none", "done"}
    /\ paid > 0 => watcher /= "none" /\ paid = invoice
    /\ pc = "wait" => paid > 0

\* What the goroutine was told of has happened.
ToldInv ==
    /\ others \in Nat
    /\ \A i \in 1..Len(events) :
           /\ events[i] = "open" => newChan = "open"
           /\ events[i] = "other" => others > 0
    /\ watcher = "tell opened" => newChan = "open" \/ others > 0
    /\ result = "nil" => paid > 0 /\ (newChan = "open" \/ others > 0)

ClientInv == TypeOK /\ CheckedInv /\ ToldInv

\* A price is a natural number.
LEMMA AmountType ==
    ASSUME NEW p \in Policies
    PROVE  EstimatedInvoiceAmount(p) \in Nat
<1>1. ChanSize * p.ChanInvoiceFeeRate \in Nat
  BY ClientAssumption
<1> QED
  BY <1>1, ClientAssumption DEF EstimatedInvoiceAmount

\* Nothing was asked for yet.
LEMMA ClientInit == Init => ClientInv
BY ClientAssumption DEF Init, ClientInv, TypeOK, CheckedInv, ToldInv

\* What is left of a stream when its first event was read.
LEMMA TailOf ==
    ASSUME NEW S, NEW s \in Seq(S), s /= <<>>
    PROVE  /\ Head(s) = s[1] /\ Head(s) \in S /\ 1 \in 1..Len(s)
           /\ Tail(s) \in Seq(S)
           /\ \A i \in 1..Len(Tail(s)) : i + 1 \in 1..Len(s) /\ Tail(s)[i] = s[i + 1]
OBVIOUS

\* An event that is told is the last of the stream.
LEMMA TellStep ==
    ASSUME ClientInv, NEW e \in {"pending", "open", "other"}, Tell(e)
    PROVE  /\ events' \in Seq({"pending", "open", "other"})
           /\ \A i \in 1..Len(events') :
                  \/ i \in 1..Len(events) /\ events'[i] = events[i]
                  \/ events'[i] = e
<1> DEFINE Event == {"pending", "open", "other"}
<1>1. events \in Seq(Event)
  BY DEF ClientInv, TypeOK
<1>2. CASE watcher = "watching"
  <2>1. events' = Append(events, e)
    BY <1>2 DEF Tell
  <2>2. Len(events') = Len(events) + 1 /\ events'[Len(events) + 1] = e
    BY <1>1, <2>1
  <2>3. \A i \in 1..Len(events) : events'[i] = events[i]
    BY <1>1, <2>1
  <2> QED
    BY <1>1, <2>1, <2>2, <2>3
<1>3. CASE watcher /= "watching"
  BY <1>1, <1>3 DEF Tell
<1> QED
  BY <1>2, <1>3

\* What is known of the client rests on the state it keeps to itself, on what it
\* paid and on what it was told (RequestChannel).
LEMMA ClientUnchanged ==
    ASSUME ClientInv, serverPolicy' \in Policies,
           UNCHANGED <<clientVars, existing, paid, newChan, events, others>>
    PROVE  ClientInv'
<1>1. UNCHANGED <<pc, result, policy, invoice, watcher>>
  BY DEF clientVars
<1>2. PolicyAllows' = PolicyAllows
  BY <1>1 DEF PolicyAllows, EstimatedInvoiceAmount
<1>3. EstimatedInvoiceAmount(policy)' = EstimatedInvoiceAmount(policy)
  BY <1>1 DEF EstimatedInvoiceAmount
<1>4. TypeOK'
  BY <1>1 DEF ClientInv, TypeOK
<1>5. CheckedInv'
  BY <1>1, <1>2, <1>3 DEF ClientInv, CheckedInv
<1>6. ToldInv'
  BY <1>1 DEF ClientInv, ToldInv
<1> QED
  BY <1>4, <1>5, <1>6 DEF ClientInv

\* Every step of the client and of its environment keeps the invariant.
LEMMA ClientInvStep == ClientInv /\ [Next]_vars => ClientInv'
<1> SUFFICES ASSUME ClientInv, [Next]_vars
             PROVE  ClientInv'
  OBVIOUS
<1> USE DEF ClientInv, TypeOK, CheckedInv, ToldInv, clientVars, envVars, Goto, Return
<1>1. CASE FetchPolicy
  BY <1>1 DEF FetchPolicy
<1>2. CASE CheckPolicy
  BY <1>2 DEF CheckPolicy, PolicyAllows
<1>3. CASE RequestInvoice
  BY <1>3, AmountType DEF RequestInvoice, PolicyAllows
<1>4. CASE ValidateInvoice
  BY <1>4 DEF ValidateInvoice, PolicyAllows, EstimatedInvoiceAmount
<1>5. CASE Pay
  BY <1>5 DEF Pay, PolicyAllows, EstimatedInvoiceAmount
<1>6. CASE PaymentAnswered
  BY <1>6 DEF PaymentAnswered, PolicyAllows, EstimatedInvoiceAmount
<1>7. CASE HearWatcher
  BY <1>7 DEF HearWatcher, PolicyAllows, EstimatedInvoiceAmount
<1>8. CASE WatcherSubscribes
  BY <1>8 DEF WatcherSubscribes, PolicyAllows, EstimatedInvoiceAmount
<1>9. CASE WatcherReads
  <2> DEFINE Event == {"pending", "open", "other"}
  <2>1. events \in Seq(Event) /\ events /= <<>> /\ events' = Tail(events)
    BY <1>9 DEF WatcherReads
  <2>2. /\ events' \in Seq(Event)
        /\ \A i \in 1..Len(events') : i + 1 \in 1..Len(events) /\ events'[i] = events[i + 1]
        /\ Head(events) = events[1] /\ Head(events) \in Event /\ 1 \in 1..Len(events)
    <3> HIDE DEF Event
    <3>1. /\ Tail(events) \in Seq(Event)
          /\ \A i \in 1..Len(Tail(events)) :
                 i + 1 \in 1..Len(events) /\ Tail(events)[i] = events[i + 1]
          /\ Head(events) = events[1] /\ Head(events) \in Event /\ 1 \in 1..Len(events)
      <4>1. events \in Seq(Event) /\ events /= <<>>
        BY <2>1
      <4> QED
        BY ONLY <4>1, TailOf
    <3> QED
      BY <2>1, <3>1
  <2>3. TypeOK'
    BY <1>9, <2>2 DEF WatcherReads
  <2>4. CheckedInv'
    BY <1>9 DEF WatcherReads, PolicyAllows, EstimatedInvoiceAmount
  <2>5. ToldInv'
    <3>1. Head(events) /= "pending" => newChan = "open" \/ others > 0
      BY <2>2
    <3>2. watcher' = "tell opened" => newChan = "open" \/ others > 0
      BY <1>9, <3>1 DEF WatcherReads
    <3>3. \A i \in 1..Len(events') :
               /\ events'[i] = "open" => newChan = "open"
               /\ events'[i] = "other" => others > 0
      BY <2>2
    <3>4. UNCHANGED <<result, paid, newChan, others>>
      BY <1>9 DEF WatcherReads
    <3>5. watcher' = "tell opened" => newChan' = "open" \/ others' > 0
      BY <3>2, <3>4
    <3>6. \A i \in 1..Len(events') :
               /\ events'[i] = "open" => newChan' = "open"
               /\ events'[i] = "other" => others' > 0
      BY <3>3, <3>4
    <3>7. result' = "nil" => paid' > 0 /\ (newChan' = "open" \/ others' > 0)
      BY <3>4
    <3>8. others' \in Nat
      BY <3>4
    <3> QED
      BY <2>2, <3>5, <3>6, <3>7, <3>8
  <2> QED
    BY <2>3, <2>4, <2>5
<1>10. CASE WatcherLosesStream
  BY <1>10 DEF WatcherLosesStream, PolicyAllows, EstimatedInvoiceAmount
<1>11. CASE ServerRestarts
  BY <1>11, ClientUnchanged DEF ServerRestarts
<1>12. CASE PaymentSettles
  BY <1>12 DEF PaymentSettles, PaymentUnderWay, PolicyAllows, EstimatedInvoiceAmount
<1>13. CASE ServerOpens
  <2>1. newChan' \in {"pending", "open"} /\ Tell(newChan')
    BY <1>13 DEF ServerOpens
  <2>2. /\ events' \in Seq({"pending", "open", "other"})
        /\ \A i \in 1..Len(events') :
               \/ i \in 1..Len(events) /\ events'[i] = events[i]
               \/ events'[i] = newChan'
    BY <2>1, TellStep
  <2>3. newChan = "open" => newChan' = "open"
    BY <1>13 DEF ServerOpens
  <2>4. TypeOK'
    BY <1>13, <2>1, <2>2 DEF ServerOpens
  <2>5. CheckedInv'
    BY <1>13 DEF ServerOpens, PolicyAllows, EstimatedInvoiceAmount
  <2>6. ToldInv'
    BY <1>13, <2>1, <2>2, <2>3 DEF ServerOpens
  <2> QED
    BY <2>4, <2>5, <2>6
<1>14. CASE OtherOpens
  <2>1. /\ events' \in Seq({"pending", "open", "other"})
        /\ \A i \in 1..Len(events') :
               \/ i \in 1..Len(events) /\ events'[i] = events[i]
               \/ events'[i] = "other"
    BY <1>14, TellStep DEF OtherOpens
  <2>2. TypeOK'
    BY <1>14, <2>1 DEF OtherOpens
  <2>3. CheckedInv'
    BY <1>14 DEF OtherOpens, PolicyAllows, EstimatedInvoiceAmount
  <2>4. ToldInv'
    <3>1. /\ others' \in Nat /\ others' > 0
          /\ UNCHANGED <<result, paid, newChan, watcher>>
      <4>1. others' = others + 1 /\ UNCHANGED <<result, paid, newChan, watcher>>
        BY <1>14 DEF OtherOpens
      <4>2. others \in Nat
        OBVIOUS
      <4>3. others' \in Nat /\ others' > 0
        BY ONLY <4>1, <4>2
      <4> QED
        BY <4>1, <4>3
    <3>2. \A i \in 1..Len(events') : events'[i] = "open" => newChan = "open"
      BY <2>1
    <3>3. \A i \in 1..Len(events') :
               /\ events'[i] = "open" => newChan' = "open"
               /\ events'[i] = "other" => others' > 0
      BY <3>1, <3>2
    <3>4. result' = "nil" => paid' > 0 /\ (newChan' = "open" \/ others' > 0)
      BY <3>1
    <3> QED
      BY <2>1, <3>1, <3>3, <3>4
  <2> QED
    BY <2>2, <2>3, <2>4
<1>15. CASE UNCHANGED vars
  BY <1>15, ClientUnchanged DEF vars
<1> QED
  BY <1>1, <1>2, <1>3, <1>4, <1>5, <1>6, <1>7, <1>8, <1>9, <1>10, <1>11, <1>12,
     <1>13, <1>14, <1>15 DEF Next, Request, Watcher, Environment

\* The invariant of the client.
LEMMA ClientInvCorrect == Spec => []ClientInv
BY ClientInit, ClientInvStep, PTL DEF Spec

\* The request, its goroutine and its stream are well typed.
THEOREM ClientTypeCorrect == Spec => []TypeOK
BY ClientInvCorrect, PTL DEF ClientInv

\* The client pays what the policy it was shown asks for (RequestChannel).
THEOREM PaysWhatWasShownHolds == Spec => []PaysWhatWasShown
<1>1. ClientInv => PaysWhatWasShown
  BY DEF ClientInv, CheckedInv, PaysWhatWasShown
<1> QED
  BY <1>1, ClientInvCorrect, PTL

\* A request that waits has a goroutine that can end the wait (watchForChannel).
THEOREM WaitIsAnswerableHolds == Spec => []WaitIsAnswerable
<1>1. ClientInv => WaitIsAnswerable
  BY DEF ClientInv, CheckedInv, WaitIsAnswerable
<1> QED
  BY <1>1, ClientInvCorrect, PTL

\* Success follows a payment and the opening of a channel (RequestChannel).
THEOREM SuccessIsPaidForHolds == Spec => []SuccessIsPaidFor
<1>1. ClientInv => SuccessIsPaidFor
  BY DEF ClientInv, ToldInv, SuccessIsPaidFor
<1> QED
  BY <1>1, ClientInvCorrect, PTL
=============================================================================
