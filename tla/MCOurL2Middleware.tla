-------------------------- MODULE MCOurL2Middleware --------------------------
(***************************************************************************)
(* TLC instances of OurL2Middleware.                                       *)
(***************************************************************************)
EXTENDS OurL2Middleware

\* Ids are only compared for equality, and the order of the nodes decides only
\* which of the ids reserved together a snooped node gets.  So it is enough to let
\* the requests take the ids in increasing order, and the nodes appear in order.
IdsInOrder ==
    \A r \in issued, id \in L1TxnIds :
        id < r.txnID => \E earlier \in issued : earlier.txnID = id

NodesInOrder ==
    \A r \in issued, n \in Nodes :
        n < r.srcNodeID =>
            \E earlier \in issued :
                earlier.srcNodeID = n /\ earlier.txnID < r.txnID

InOrder == IdsInOrder /\ NodesInOrder
=============================================================================
