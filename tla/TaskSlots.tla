----------------------------- MODULE TaskSlots -----------------------------
(***************************************************************************)
(* What a master may rely on when it sends tasks to an agent, without how  *)
(* the agent does it: a fixed number of slots, no task in two of them, one *)
(* answer for every task, and nothing but "cancelled" for a task whose     *)
(* cancellation was acknowledged.  A restart of the agent empties the      *)
(* slots and answers nobody.                                               *)
(*                                                                         *)
(* NodeAgent.execute_task and cancel_task implement it (module NodeAgent). *)
(***************************************************************************)
EXTENDS Naturals, FiniteSets

CONSTANTS
    Names,      \* task ids
    Slots       \* how many tasks may execute at a time

VARIABLES
    busy,       \* tasks that execute
    condemned,  \* those of them whose cancellation was acknowledged
    answer      \* what this step answered, if it answered a request

slotVars == <<busy, condemned, answer>>

SlotsInit == busy = {} /\ condemned = {} /\ answer = "none"

Begin(n) ==
    /\ n \notin busy /\ Cardinality(busy) < Slots
    /\ busy' = busy \cup {n}
    /\ answer' = "none"
    /\ UNCHANGED condemned

Refuse == answer' = "refused" /\ UNCHANGED <<busy, condemned>>

Proceed == answer' = "none" /\ UNCHANGED <<busy, condemned>>

Condemn(n) ==
    /\ n \in busy
    /\ condemned' = condemned \cup {n}
    /\ answer' = "none"
    /\ UNCHANGED busy

End(n) ==
    /\ n \in busy
    /\ busy' = busy \ {n} /\ condemned' = condemned \ {n}
    /\ answer' = IF n \in condemned THEN "cancelled" ELSE "result"

Reset == busy' = {} /\ condemned' = {} /\ answer' = "lost"

SlotsNext ==
    \/ \E n \in Names : Begin(n) \/ Condemn(n) \/ End(n)
    \/ Refuse \/ Proceed \/ Reset

SlotsSpec == SlotsInit /\ [][SlotsNext]_slotVars
=============================================================================
