---------------------------- MODULE SecureChannel ----------------------------
(***************************************************************************)
(* What one direction of a NoiseTransport promises its user: messages are  *)
(* delivered once each and in the order in which they were accepted, until *)
(* the channel is lost, and a channel that is not lost delivers them all.  *)
(* A lost channel delivers nothing: there is no gap in what was delivered. *)
(***************************************************************************)
EXTENDS Integers, Sequences

VARIABLES accepted,  \* messages taken over from the sender, in order
          delivered, \* messages handed to the receiver, in order
          lost       \* the channel is beyond repair

vars == <<accepted, delivered, lost>>

Init ==
    /\ accepted = <<>>
    /\ delivered = <<>>
    /\ lost = FALSE

Accept ==
    /\ Len(accepted') = Len(accepted) + 1
    /\ SubSeq(accepted', 1, Len(accepted)) = accepted
    /\ UNCHANGED <<delivered, lost>>

Deliver ==
    /\ ~ lost
    /\ Len(delivered) < Len(accepted)
    /\ delivered' = Append(delivered, accepted[Len(delivered) + 1])
    /\ UNCHANGED accepted
    /\ lost' \in BOOLEAN

Lose ==
    /\ lost' = TRUE
    /\ UNCHANGED <<accepted, delivered>>

Next == Accept \/ Deliver \/ Lose

Spec == Init /\ [][Next]_vars /\ WF_vars(Deliver)
=============================================================================
