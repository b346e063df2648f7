------------------------- MODULE ReservationProofs -------------------------
(***************************************************************************)
(* What Reservation guarantees, for any names and addresses.  It holds of  *)
(* every controller that implements Reservation.                           *)
(***************************************************************************)
EXTENDS Reservation, TLAPS

\* Next speaks of functions only if holder and shown are functions.
Tables ==
    /\ holder = [i \in IPs |-> holder[i]]
    /\ shown = [n \in Names |-> shown[n]]
    /\ \A n \in Names : shown[n] \in IPs \cup {None}

IInv == Tables /\ ShownIsHeld

\* Initially nothing is shown.
LEMMA InitIInv == Init => IInv
  BY DEF Init, IInv, Tables, ShownIsHeld

\* An address is not taken from one that shows it, and is shown only by one
\* that holds it.
LEMMA NextIInv ==
  ASSUME None \notin Names, IInv, [Next]_<<holder, shown>>
  PROVE  IInv'
<1>1. CASE UNCHANGED <<holder, shown>>
  BY <1>1 DEF IInv, Tables, ShownIsHeld
<1>2. ASSUME NEW n \in Names, NEW S \in SUBSET IPs, Take(n, S)
      PROVE  IInv'
  BY <1>2 DEF IInv, Tables, ShownIsHeld, Take
<1>3. ASSUME NEW n \in Names, NEW i \in IPs, Show(n, i)
      PROVE  IInv'
  BY <1>3 DEF IInv, Tables, ShownIsHeld, Show
<1>4. ASSUME NEW n \in Names, Hide(n)
      PROVE  IInv'
  BY <1>4 DEF IInv, Tables, ShownIsHeld, Hide
<1>5. ASSUME NEW n \in Names, NEW i \in IPs, GiveBack(n, i)
      PROVE  IInv'
  BY <1>5 DEF IInv, Tables, ShownIsHeld, GiveBack
<1> QED BY <1>1, <1>2, <1>3, <1>4, <1>5 DEF Next

\* Whatever implements Reservation shows no address that it does not hold:
\* what status.ip of a resource in service is relied on for.
THEOREM ShownHeld ==
  ASSUME None \notin Names
  PROVE  Spec => []ShownIsHeld
<1>1. Init => IInv
  BY InitIInv
<1>2. IInv /\ [Next]_<<holder, shown>> => IInv'
  BY NextIInv
<1>3. IInv => ShownIsHeld
  BY DEF IInv
<1> QED BY <1>1, <1>2, <1>3, PTL DEF Spec

\* Two resources in service never show the same address.
THEOREM ShownDistinct ==
  ASSUME None \notin Names
  PROVE  Spec => [](\A m, n \in Names : shown[m] = shown[n] /\ m # n => shown[m] = None)
<1>1. ShownIsHeld => \A m, n \in Names : shown[m] = shown[n] /\ m # n => shown[m] = None
  BY DEF ShownIsHeld
<1> QED BY <1>1, ShownHeld, PTL
====
