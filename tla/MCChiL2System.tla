---------------------------- MODULE MCChiL2System ----------------------------
(***************************************************************************)
(* TLC instances of ChiL2System.                                           *)
(***************************************************************************)
EXTENDS ChiL2System

\* Ids are only compared for equality, and the order of the nodes decides only
\* which of the ids reserved together a snooped node gets.  So it is enough to let
\* the requests take the ids in increasing order, and the nodes appear in order.
IdsInOrder ==
    \A txn \in issued, id \in L1TxnIds :
        id < txn.txnID => \E earlier \in issued : earlier.txnID = id

NodesInOrder ==
    \A txn \in issued, n \in Nodes :
        n < txn.srcNodeID =>
            \E earlier \in issued :
                earlier.srcNodeID = n /\ earlier.txnID < txn.txnID

InOrder == IdsInOrder /\ NodesInOrder
=============================================================================
