----------------------------- MODULE ClosePolicy -----------------------------
(***************************************************************************)
(* Which channels a round of management closes: the pure part of           *)
(* FetchManagedChannels.  A channel is a record of its id, capacity, local *)
(* balance, atoms sent and lifetime (in blocks) as they were read.         *)
(***************************************************************************)
EXTENDS Integers, Sequences, FiniteSets, SequencesExt

CONSTANTS MinWalletBalance,  \* cfg.MinWalletBalance
          MinChanLifetime,   \* cfg.MinChanLifetime, in blocks
          BlocksPerHour      \* time.Hour / chainParams.TargetTimePerBlock

ASSUME ClosePolicyAssumption ==
    /\ MinWalletBalance \in Nat
    /\ MinChanLifetime \in Nat
    /\ BlocksPerHour \in Nat \ {0}

\* Whole hours, and one for what is shorter.
Hours(c) == LET hours == c.lifetime \div BlocksPerHour
            IN  IF hours = 0 THEN 1 ELSE hours

\* channelActivity(c) < channelActivity(d): sent / capacity / hours, compared
\* without dividing.
LessActive(c, d) == c.sent * d.capacity * Hours(d) < d.sent * c.capacity * Hours(c)

\* channelActivity panics on any other channel.
HasScore(c) == c.lifetime > 0 /\ c.capacity > 0

\* The orders sort.Slice may leave the channels in; it is not stable.
ByScore(S) == {s \in SetToSeqs(S) :
                   \A i \in 1..Len(s) - 1 : ~LessActive(s[i + 1], s[i])}

HasMinLifetime(c) == c.lifetime >= MinChanLifetime
NeedsManagement(total) == total < MinWalletBalance

Local(c) == c.local

\* A slip: reaching the minimum is not enough.
MarkPast(closed, c, total) ==
    IF HasMinLifetime(c) /\ total + MapThenSumSet(Local, closed) <= MinWalletBalance
    THEN closed \cup {c} ELSE closed

\* A slip: one channel a round.
MarkFirst(closed, c, total) ==
    IF HasMinLifetime(c) /\ closed = {} THEN {c} ELSE closed

\* One turn of the closing loop: nothing more is marked once the balance and
\* what was reclaimed reach the minimum.
MarkNext(closed, c, total) ==
    IF HasMinLifetime(c) /\ total + MapThenSumSet(Local, closed) < MinWalletBalance
    THEN closed \cup {c} ELSE closed

\* A slip: the busiest channels come first.
MarkedBusiest(order, total) ==
    IF NeedsManagement(total)
    THEN FoldLeft(LAMBDA closed, c : MarkNext(closed, c, total), {}, Reverse(order))
    ELSE {}

\* The channels with WillClose, their scores sorted into the given order.
WillClose(order, total) ==
    IF NeedsManagement(total)
    THEN FoldLeft(LAMBDA closed, c : MarkNext(closed, c, total), {}, order)
    ELSE {}

-----------------------------------------------------------------------------
(* What the documentation asks of the choice W among the channels S.       *)

Eligible(S) == {c \in S : HasMinLifetime(c)}

\* "The channels with lowest score are closed" (dcrlnpd.conf:102-104).
LowestFirst(W, S) == \A c \in W, d \in Eligible(S) \ W : ~LessActive(d, c)

\* Closing goes on until the balance is restored or nothing can be closed.
Enough(W, S, total) ==
    NeedsManagement(total) =>
        W = Eligible(S) \/ total + MapThenSumSet(Local, W) >= MinWalletBalance

\* "As needed to recover coins": without the last channel it is not enough.
NoMore(W, total) ==
    W /= {} => \E last \in W :
                  /\ \A c \in W : ~LessActive(last, c)
                  /\ total + MapThenSumSet(Local, W \ {last}) < MinWalletBalance
=============================================================================
