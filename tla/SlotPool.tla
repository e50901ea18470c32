------------------------------ MODULE SlotPool ------------------------------
(***************************************************************************)
(* What the gateway promises about downstream concurrency, with no data    *)
(* structure in sight: every server has cap places, a call either takes a  *)
(* place or is turned away, and it is turned away only while cap places    *)
(* are taken.  docs/ARCHITECTURE.md:89 words it as a "per-downstream       *)
(* server cap on simultaneous in-flight tool calls".                       *)
(*                                                                         *)
(* The cap may be chosen anew while calls are in flight.  The pool may     *)
(* then let as many calls in beyond the cap as held a place at that        *)
(* moment, and no more.                                                    *)
(***************************************************************************)
EXTENDS Naturals, FiniteSets

CONSTANTS
    Servers,  \* the downstream servers
    Calls     \* the tool calls that ask for a place

VARIABLES
    cap,      \* resilience.rateLimit.perDownstreamConcurrency
    over,     \* over[s]: the places of s that were taken when cap was chosen
    held,     \* held[s]: the calls that occupy a place of server s
    refused   \* the calls whose last request for a place was turned away

vars == <<cap, over, held, refused>>

Occupied == UNION {held[s] : s \in Servers}

Init ==
    /\ cap \in Nat \ {0}
    /\ over = [s \in Servers |-> 0]
    /\ held = [s \in Servers |-> {}]
    /\ refused = {}

Grant(c, s) ==
    /\ c \notin Occupied
    /\ Cardinality(held[s]) < cap + over[s]
    /\ held' = [held EXCEPT ![s] = @ \cup {c}]
    /\ refused' = refused \ {c}
    /\ UNCHANGED <<cap, over>>

Refuse(c, s) ==
    /\ c \notin Occupied
    /\ Cardinality(held[s]) >= cap
    /\ refused' = refused \cup {c}
    /\ UNCHANGED <<cap, over, held>>

GiveBack(c, s) ==
    /\ c \in held[s]
    /\ held' = [held EXCEPT ![s] = @ \ {c}]
    /\ UNCHANGED <<cap, over, refused>>

ChooseCap ==
    /\ cap' \in Nat \ {0}
    /\ over' = [s \in Servers |-> Cardinality(held[s])]
    /\ UNCHANGED <<held, refused>>

Next ==
    \/ \E c \in Calls, s \in Servers :
          Grant(c, s) \/ Refuse(c, s) \/ GiveBack(c, s)
    \/ ChooseCap

Spec == Init /\ [][Next]_vars

=============================================================================
