------------------------ MODULE MCClosePolicyProofs ------------------------
(* The choice of channels to close is right in every state of MCClosePolicy, *)
(* for any number of ids, amounts, lifetimes and balances.                   *)
EXTENDS MCClosePolicy, ClosePolicyProofs

\* The list holds the channels, sorted, and they have what scores are made of.
ListInv == /\ IsFiniteSet(channels)
           /\ \A c \in channels : Scored(c)
           /\ order \in ByScore(channels)
           /\ total \in Int

\* No channels make an empty list.
LEMMA ListInit == Init => ListInv
<1> SUFFICES ASSUME Init
             PROVE  ListInv
  OBVIOUS
<1>1. IsFiniteSet(channels) /\ Cardinality(channels) = 0
  BY FS_EmptySet DEF Init
<1>2. <<>> \in SetToSeqs(channels)
  BY <1>1 DEF Init, SetToSeqs
<1>3. order \in ByScore(channels)
  BY <1>2 DEF Init, ByScore
<1> QED
  BY <1>1, <1>3, InputAssumption DEF Init, ListInv

\* One more channel, and the list is sorted again (FetchManagedChannels).
LEMMA ListStep == ListInv /\ [AddChannel]_mcVars => ListInv'
<1> SUFFICES ASSUME ListInv, AddChannel
             PROVE  ListInv'
  BY DEF ListInv, mcVars
<1>1. PICK c : Scored(c) /\ channels' = channels \cup {c}
  <2>1. PICK f \in ChannelOf, i \in Ids :
           channels' = channels \cup {[id |-> i, capacity |-> f.capacity,
                                       local |-> f.local, sent |-> f.sent,
                                       lifetime |-> f.lifetime]}
    BY DEF AddChannel
  <2>2. /\ f.capacity \in {2, 3} /\ f.local \in Nat /\ f.sent \in Nat
        /\ f.lifetime \in Nat
    BY InputAssumption DEF ChannelOf
  <2>3. Scored([id |-> i, capacity |-> f.capacity, local |-> f.local,
                sent |-> f.sent, lifetime |-> f.lifetime])
    BY <2>2 DEF Scored
  <2> QED
    BY <2>1, <2>3
<1>2. IsFiniteSet(channels')
  BY <1>1, FS_AddElement DEF ListInv
<1>3. \A d \in channels' : Scored(d)
  BY <1>1 DEF ListInv
<1> QED
  BY <1>2, <1>3 DEF AddChannel, ListInv

\* So it is in every state.
LEMMA ListCorrect == Spec => []ListInv
  BY ListInit, ListStep, PTL DEF Spec

\* No channel is spared that is old enough and less active than one marked for
\* closing (FetchManagedChannels).
THEOREM ClosesLowestFirstHolds == Spec => []ClosesLowestFirst
<1>1. ListInv => ClosesLowestFirst
  BY ChoiceIsRight DEF ListInv, ClosesLowestFirst
<1> QED
  BY <1>1, ListCorrect, PTL

\* The channels marked bring the minimum back or are all that may be closed
\* (FetchManagedChannels).
THEOREM ClosesEnoughHolds == Spec => []ClosesEnough
<1>1. ListInv => ClosesEnough
  BY ChoiceIsRight DEF ListInv, ClosesEnough
<1> QED
  BY <1>1, ListCorrect, PTL

\* Without the last channel marked, the minimum would be missed
\* (FetchManagedChannels).
THEOREM ClosesNoMoreHolds == Spec => []ClosesNoMore
<1>1. ListInv => ClosesNoMore
  BY ChoiceIsRight DEF ListInv, ClosesNoMore
<1> QED
  BY <1>1, ListCorrect, PTL
=============================================================================
