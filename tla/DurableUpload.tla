--------------------------- MODULE DurableUpload ---------------------------
(***************************************************************************)
(* What the upload store promises a sender, without files, locks, crashes  *)
(* or retries: the durable offset of an item only grows, the sender is     *)
(* told no more than is durable, the item is complete only when all of it  *)
(* is durable, and none of this is taken back unless somebody cancels.     *)
(***************************************************************************)
EXTENDS Integers

CONSTANTS Items, Size

VARIABLES
  phase,    \* "none", "open", "complete" or "released"
  durable,  \* bytes of the item that survive any failure
  told      \* highest offset the sender was given

avars == <<phase, durable, told>>

AInit ==
  /\ phase = [i \in Items |-> "none"]
  /\ durable = [i \in Items |-> 0]
  /\ told = [i \in Items |-> 0]

\* The item is registered; an empty one is complete at once.
Open(i) ==
  /\ phase[i] = "none"
  /\ phase' = [phase EXCEPT ![i] = IF Size[i] = 0 THEN "complete" ELSE "open"]
  /\ UNCHANGED <<durable, told>>

\* A checkpoint becomes durable.
Advance(i) ==
  /\ phase[i] = "open"
  /\ \E n \in durable[i] + 1 .. Size[i] : durable' = [durable EXCEPT ![i] = n]
  /\ UNCHANGED <<phase, told>>

\* The sender is given an offset that is durable, perhaps not the latest.
Tell(i) ==
  /\ phase[i] \in {"open", "complete"}
  /\ \E n \in told[i] + 1 .. durable[i] : told' = [told EXCEPT ![i] = n]
  /\ UNCHANGED <<phase, durable>>

\* The whole file is delivered, and the sender may be told in the same step.
Complete(i) ==
  /\ phase[i] = "open"
  /\ durable[i] = Size[i]
  /\ phase' = [phase EXCEPT ![i] = "complete"]
  /\ \/ told' = [told EXCEPT ![i] = Size[i]]
     \/ UNCHANGED told
  /\ UNCHANGED durable

\* A participant cancels: the promise ends.
Release(i) ==
  /\ phase[i] # "none"
  /\ phase' = [phase EXCEPT ![i] = "released"]
  /\ durable' = [durable EXCEPT ![i] = 0]
  /\ told' = [told EXCEPT ![i] = 0]

ANext == \E i \in Items : Open(i) \/ Advance(i) \/ Tell(i) \/ Complete(i) \/ Release(i)

Spec == AInit /\ [][ANext]_avars

=============================================================================
