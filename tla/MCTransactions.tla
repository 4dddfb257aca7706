----------------------------- MODULE MCTransactions -----------------------------
(* Bounded instance of Transactions for TLC. *)
EXTENDS Transactions

\* The client waits for acknowledgement by default.
DefaultConcerns == [readConcern |-> "default", writeConcern |-> "default"]

SomeSessionOptions ==
    {[causal |-> FALSE, snapshot |-> FALSE, defaults |-> d] :
       d \in {<<>>, [writeConcern |-> "majority"], [maxCommitTimeMS |-> -1]}}
    \cup {[causal |-> c, snapshot |-> TRUE, defaults |-> <<>>] : c \in BOOLEAN}

\* Options that are refused, and those that are not.
SomeStartOptions ==
    {<<>>, [maxCommitTimeMS |-> 0, readConcern |-> "snapshot"],
     [writeConcern |-> "unacknowledged"], [maxCommitTimeMS |-> UInt32Max + 1],
     [maxCommitTimeMS |-> UInt32Max, readConcern |-> "other"]}

================================================================================
