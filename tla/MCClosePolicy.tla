--------------------------- MODULE MCClosePolicy ---------------------------
(* WillClose over every small set of channels, wallet and order.           *)
EXTENDS ClosePolicy

CONSTANTS Ids, Amounts, Lifetimes, Balances

ASSUME InputAssumption ==
    Amounts \subseteq Nat /\ Lifetimes \subseteq Nat /\ Balances \subseteq Int

VARIABLES channels, order, total

mcVars == <<channels, order, total>>

ChannelOf == [capacity : {2, 3}, local : Amounts, sent : Amounts,
              lifetime : Lifetimes]

Init == channels = {} /\ order = <<>> /\ total \in Balances

\* One more channel with the next id, and the sorted list any order allows.
AddChannel ==
    /\ \E f \in ChannelOf, i \in Ids :
          /\ i = Cardinality(channels) + 1
          /\ channels' = channels \cup {[id |-> i, capacity |-> f.capacity,
                                        local |-> f.local, sent |-> f.sent,
                                        lifetime |-> f.lifetime]}
    /\ order' \in ByScore(channels')
    /\ UNCHANGED total

Spec == Init /\ [][AddChannel]_mcVars

\* No channel is spared that is old enough and less active than one marked for
\* closing, whatever order equal scores come in (FetchManagedChannels).
ClosesLowestFirst == LowestFirst(WillClose(order, total), channels)

\* When coins are short, the channels marked bring the minimum back or are all
\* that may be closed (FetchManagedChannels).
ClosesEnough == Enough(WillClose(order, total), channels, total)

\* Without the last channel marked, the minimum would be missed: the loop stops
\* in time (FetchManagedChannels).
ClosesNoMore == NoMore(WillClose(order, total), total)
=============================================================================
