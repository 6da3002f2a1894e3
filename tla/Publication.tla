---------------------------- MODULE Publication ----------------------------
(***************************************************************************)
(* What one run promises the server, whatever lane it is and however its   *)
(* requests fare: chunks are delivered in any order and at most one claim  *)
(* is made about them.  The claim that the delivery is whole can only be   *)
(* made by the chunk that makes it so, and nothing follows a claim.        *)
(* IngestLane implements this.                                             *)
(***************************************************************************)
EXTENDS Naturals

VARIABLES
    chunks,     \* the chunks the run has decided to deliver
    delivered,  \* those the server holds
    claim       \* what the server has been told of them

Claims == {"none", "partial", "whole"}

Init == chunks = {} /\ delivered = {} /\ claim = "none"

Plan ==
    /\ chunks = {}
    /\ chunks' \subseteq Nat
    /\ UNCHANGED <<delivered, claim>>

Deliver(c) ==
    /\ claim = "none"
    /\ c \in chunks \ delivered
    /\ delivered' = delivered \cup {c}
    /\ claim' \in Claims
    /\ claim' = "whole" => delivered' = chunks
    /\ UNCHANGED chunks

Next == Plan \/ \E c \in chunks : Deliver(c)

Spec == Init /\ [][Next]_<<chunks, delivered, claim>>
=============================================================================
