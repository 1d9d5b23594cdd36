---------------------------- MODULE DocumentSeeds ----------------------------
(***************************************************************************)
(* The documents of app/services/sap_mock_data.py, reduced to their status *)
(* and chain, and the store _build_store makes of them.  Ids are unique    *)
(* over the four domains, so one function holds them all.                  *)
(***************************************************************************)
EXTENDS DocumentChain, TLC

CONSTANT Sap       \* who filled the steps that come decided

Raw(status, steps) ==
  [status |-> status,
   steps  |-> [i \in DOMAIN steps |-> [status |-> steps[i], by |-> Sap]]]

\* The chains that occur.
Untouched(n) == Raw("none", [i \in 1..n |-> "none"])
HalfWay      == Raw("partial", <<"authorized", "none">>)
Approved(n)  == Raw("authorized", [i \in 1..n |-> "authorized"])
Received(n)  == Raw("received", [i \in 1..n |-> "authorized"])
TurnedDown   == Raw("rejected", <<"rejected">>)

RAW_PRE_ESTIMATES ==
  [PE001 |-> Untouched(2), PE002 |-> HalfWay, PE003 |-> Approved(2), PE004 |-> TurnedDown,
   PE005 |-> Received(3), PE006 |-> Untouched(2), PE007 |-> HalfWay, PE008 |-> Untouched(1)]

RAW_ESTIMATES ==
  [EST001 |-> Untouched(3), EST002 |-> HalfWay, EST003 |-> Approved(2), EST004 |-> TurnedDown,
   EST005 |-> Received(2), EST006 |-> Untouched(2), EST007 |-> HalfWay]

RAW_PAYMENTS ==
  [PAG001 |-> Untouched(2), PAG002 |-> Approved(1), PAG003 |-> HalfWay, PAG004 |-> TurnedDown,
   PAG005 |-> Received(2), PAG006 |-> Untouched(1), PAG007 |-> Untouched(2), PAG008 |-> Approved(2)]

RAW_PAYMENT_ORDERS ==
  [OP001 |-> Untouched(2), OP002 |-> HalfWay, OP003 |-> Approved(2), OP004 |-> TurnedDown,
   OP005 |-> Received(2), OP006 |-> Untouched(2)]

BuildStore == RAW_PRE_ESTIMATES @@ RAW_ESTIMATES @@ RAW_PAYMENTS @@ RAW_PAYMENT_ORDERS
==============================================================================
