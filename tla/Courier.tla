-------------------------------- MODULE Courier --------------------------------
(* What the lanes may expect of the message transport: a message that has    *)
(* been posted is kept until each lane it is for has received it at least    *)
(* once, unless its signature is not accepted. Nothing is said of how often  *)
(* it arrives, nor in which order.                                           *)

CONSTANTS
  Parcel,      \* the messages
  Lane,        \* the lanes
  receivers,   \* receivers[m]: the lanes m is for
  accepted     \* accepted[m]: the signature of m is accepted

VARIABLES
  posted,      \* the messages that have been posted
  kept,        \* those of them the sending side still has
  got          \* the pairs <<m, l>> such that m has reached l

courierVars == <<posted, kept, got>>

Init == posted = {} /\ kept = {} /\ got = {}

Post(m) ==
  /\ m \notin posted
  /\ posted' = posted \cup {m}
  /\ kept' = kept \cup {m}
  /\ UNCHANGED got

Arrive(m, l) ==
  /\ m \in posted /\ l \in receivers[m]
  /\ got' = got \cup {<<m, l>>}
  /\ UNCHANGED <<posted, kept>>

Forget(m) ==
  /\ m \in kept
  /\ accepted[m] => \A l \in receivers[m] : <<m, l>> \in got
  /\ kept' = kept \ {m}
  /\ UNCHANGED <<posted, got>>

Next ==
  \E m \in Parcel : Post(m) \/ Forget(m) \/ \E l \in Lane : Arrive(m, l)

Spec == Init /\ [][Next]_courierVars
================================================================================
