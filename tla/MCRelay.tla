------------------------------- MODULE MCRelay -------------------------------
(* Three lanes of which two run a daemon, and one message of each sort.      *)
EXTENDS RelayDaemon

CONSTANTS a, b, c, direct, broadcast, unsigned, cross

MCFrom == [m \in Parcel |-> a]
MCTo == [m \in Parcel |-> IF m = broadcast THEN All ELSE b]
MCVia == [m \in Parcel |-> IF m = cross THEN "cross" ELSE "outbox"]
MCAccepted == [m \in Parcel |-> m # unsigned]
==============================================================================
