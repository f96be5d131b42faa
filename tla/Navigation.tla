------------------------------ MODULE Navigation ------------------------------
(***************************************************************************)
(* What the session promises the user about the current collection: while  *)
(* connected there is a current collection and possibly a previous one;    *)
(* every successful move makes the collection just left the previous one,  *)
(* and "cd -" exchanges the two.  Closing forgets both.                    *)
(* Abstract specification of CadaverSession.                               *)
(***************************************************************************)
CONSTANTS Collections,   \* the collections a server can offer
          NoCollection   \* not connected, or no previous collection

VARIABLES here,          \* the current collection
          previous       \* the collection "cd -" returns to

vars == <<here, previous>>

TypeOK == /\ here \in Collections \cup {NoCollection}
          /\ previous \in Collections \cup {NoCollection}

Init == here = NoCollection /\ previous = NoCollection

Open == /\ here = NoCollection
        /\ here' \in Collections
        /\ UNCHANGED previous

Cd == /\ here # NoCollection
      /\ here' \in Collections
      /\ previous' = here

CdDash == /\ previous # NoCollection
          /\ here' = previous
          /\ previous' = here

Close == here' = NoCollection /\ previous' = NoCollection

Next == Open \/ Cd \/ CdDash \/ Close

Spec == Init /\ [][Next]_vars
================================================================================
