------------------------------ MODULE Channel ------------------------------
(***************************************************************************)
(* The channels that carry activations between graph nodes                 *)
(* (graph/internal/channel/channel.go), as operators on channel records.   *)
(*                                                                         *)
(* A channel is [version, available, seen].  "seen" is BarrierSet, the     *)
(* senders a barrier has heard from since it last fired.  The payload of a *)
(* LastValue channel is always the marker channelUpdateMarker, so the      *)
(* value itself is left out.  The graph builder creates LastValue and      *)
(* Barrier channels only; Topic and Ephemeral behave as LastValue does     *)
(* here.  LastUpdatedStep is read only for the UpdatedChannels list of a   *)
(* checkpoint, which no code path of the executors reads back.             *)
(*                                                                         *)
(* "expected" is the BarrierExpected set of a barrier; a LastValue channel *)
(* is passed the empty set, for which isBarrierSatisfiedLocked is TRUE.    *)
(***************************************************************************)
EXTENDS Naturals

\* The set of channel records with senders drawn from S.
ChannelType(S) == [version : Nat, available : BOOLEAN, seen : SUBSET S]

NewChannel == [version |-> 0, available |-> FALSE, seen |-> {}]

\* isBarrierSatisfiedLocked: every expected sender has been seen.
BarrierSatisfied(expected, seen) == expected \subseteq seen

(***************************************************************************)
(* Update.  A barrier records the sender and becomes available only when   *)
(* its expected set is complete; a LastValue channel (expected = {})       *)
(* becomes available at once and records nobody.                           *)
(***************************************************************************)
Update(ch, expected, sender) ==
  LET seen == IF expected = {} THEN ch.seen ELSE ch.seen \cup {sender}
  IN  [version   |-> ch.version + 1,
       available |-> BarrierSatisfied(expected, seen),
       seen      |-> seen]

\* SetBarrierSeen: restore the senders a checkpoint recorded.
SetBarrierSeen(ch, expected, seen) ==
  [ch EXCEPT !.seen = seen, !.available = BarrierSatisfied(expected, seen)]

\* Acknowledge (and a successful ConsumeIfAvailable): the activation is taken
\* and a barrier forgets its senders.
Acknowledge(ch) == [ch EXCEPT !.available = FALSE, !.seen = {}]
=============================================================================
