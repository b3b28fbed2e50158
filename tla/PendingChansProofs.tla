------------------------- MODULE PendingChansProofs -------------------------
(* The table of pending requests is well typed, and what each operation does  *)
(* to the time its entries are good for.                                      *)
EXTENDS PendingChans, TLAPS

\* No operation writes an entry from the future.
LEMMA TableTypeStep == TableTypeOK /\ [TableNext]_tableVars => TableTypeOK'
<1> SUFFICES ASSUME TableTypeOK, [TableNext]_tableVars
             PROVE  TableTypeOK'
  OBVIOUS
<1> USE MaxTimeAssumption DEF TableTypeOK
<1>1. ASSUME NEW n \in Nodes, RegisterRequest(n)
      PROVE  TableTypeOK'
  BY <1>1 DEF RegisterRequest
<1>2. ASSUME NEW n \in Nodes, ReleaseNode(n)
      PROVE  TableTypeOK'
  BY <1>2 DEF ReleaseNode
<1>3. CASE Sweep
  BY <1>3 DEF Sweep
<1>4. CASE ForgetTable
  BY <1>4 DEF ForgetTable, EmptyTable
<1>5. CASE Tick
  BY <1>5 DEF Tick
<1>6. CASE UNCHANGED tableVars
  BY <1>6 DEF tableVars
<1> QED
  BY <1>1, <1>2, <1>3, <1>4, <1>5, <1>6 DEF TableNext

\* The type invariant of the table.
THEOREM TableTypeCorrect == TableSpec => []TableTypeOK
<1>1. TableInit => TableTypeOK
  BY MaxTimeAssumption DEF TableInit, TableTypeOK, EmptyTable
<1> QED
  BY <1>1, TableTypeStep, PTL DEF TableSpec

-----------------------------------------------------------------------------
(* The ticks left of each node's entry.                                    *)

\* Only an entry whose time is over is stale, and the other way round: a node
\* is let in exactly when it has no ticks left (hasPendingCreateChanReqs).
LEMMA PendingWhileTicksLeft ==
    ASSUME TableTypeOK, NEW n \in Nodes
    PROVE  /\ TicksLeft(n) \in Nat
           /\ HasPending(n) <=> TicksLeft(n) > 0
  BY InvoiceExpirationAssumption, MaxTimeAssumption
     DEF TableTypeOK, HasPending, Stale, TicksLeft

\* A node that is let in had no ticks left and gets all of them.
LEMMA RegisterGrants ==
    ASSUME TableTypeOK, NEW n \in Nodes, RegisterRequest(n)
    PROVE  /\ TicksLeft(n) = 0
           /\ TicksLeft(n)' = InvoiceExpiration + 1
           /\ \A m \in Nodes \ {n} : TicksLeft(m)' = TicksLeft(m)
<1> USE InvoiceExpirationAssumption, MaxTimeAssumption, NoEntryAssumption
        DEF TableTypeOK, RegisterRequest
<1>1. TicksLeft(n) = 0
  <2>1. TicksLeft(n) \in Nat /\ ~(TicksLeft(n) > 0)
    BY PendingWhileTicksLeft
  <2> QED
    BY <2>1
<1>2. TicksLeft(n)' = InvoiceExpiration + 1
  BY DEF TicksLeft
<1>3. \A m \in Nodes \ {n} : TicksLeft(m)' = TicksLeft(m)
  BY DEF TicksLeft
<1> QED
  BY <1>1, <1>2, <1>3

\* openChannel takes what the node has left, and nothing of another node's.
LEMMA ReleaseFrees ==
    ASSUME TableTypeOK, NEW n \in Nodes, ReleaseNode(n)
    PROVE  /\ TicksLeft(n)' = 0
           /\ \A m \in Nodes \ {n} : TicksLeft(m)' = TicksLeft(m)
  BY DEF TableTypeOK, ReleaseNode, TicksLeft

\* The cleanup takes nobody's ticks.
LEMMA SweepKeeps ==
    ASSUME TableTypeOK, Sweep, NEW n \in Nodes
    PROVE  TicksLeft(n)' = TicksLeft(n)
<1>1. CASE HasPending(n)
  BY <1>1 DEF TableTypeOK, Sweep, TicksLeft
<1>2. CASE ~HasPending(n)
  <2>1. TicksLeft(n) = 0
    BY <1>2, PendingWhileTicksLeft
  <2>2. pendingChans'[n] = NoEntry
    BY <1>2 DEF Sweep
  <2> QED
    BY <2>1, <2>2 DEF TicksLeft
<1> QED
  BY <1>1, <1>2

\* The clock takes one tick of every entry that has one left.
LEMMA TickElapses ==
    ASSUME TableTypeOK, Tick, NEW n \in Nodes
    PROVE  TicksLeft(n)' = IF TicksLeft(n) = 0 THEN 0 ELSE TicksLeft(n) - 1
  BY InvoiceExpirationAssumption, MaxTimeAssumption, NoEntryAssumption
     DEF TableTypeOK, Tick, TicksLeft
=============================================================================
