---------------------------- MODULE CustodyRegister ----------------------------
(***************************************************************************)
(* What the assignment service promises (docs/02-architecture.md, 7.3):    *)
(* a register that says of every asset who holds it.  An asset has one     *)
(* holder at most, goes from holder to holder in one step, and nothing is  *)
(* issued, returned or transferred while the asset is in the recycle bin.  *)
(***************************************************************************)
CONSTANTS Assets, People, Nobody

VARIABLES
  holder,   \* who holds each asset
  listed    \* the assets that exist and are not in the recycle bin

vars == <<holder, listed>>

Init ==
  /\ holder = [a \in Assets |-> Nobody]
  /\ listed = {}

Issue(a, p) ==
  /\ a \in listed /\ holder[a] = Nobody
  /\ holder' = [holder EXCEPT ![a] = p]
  /\ UNCHANGED listed

GiveBack(a) ==
  /\ a \in listed /\ holder[a] # Nobody
  /\ holder' = [holder EXCEPT ![a] = Nobody]
  /\ UNCHANGED listed

HandOver(a, p) ==
  /\ a \in listed /\ holder[a] # Nobody
  /\ holder' = [holder EXCEPT ![a] = p]
  /\ UNCHANGED listed

\* An asset is added or restored, or put into the bin.
List(a) ==
  /\ listed' = listed \cup {a}
  /\ UNCHANGED holder

Unlist(a) ==
  /\ listed' = listed \ {a}
  /\ UNCHANGED holder

Next ==
  \E a \in Assets :
    \/ GiveBack(a) \/ List(a) \/ Unlist(a)
    \/ \E p \in People : Issue(a, p) \/ HandOver(a, p)

Spec == Init /\ [][Next]_vars
=============================================================================
