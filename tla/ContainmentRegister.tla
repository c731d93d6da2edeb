------------------------- MODULE ContainmentRegister -------------------------
(***************************************************************************)
(* What the containment of a capability promises its user                  *)
(* (docs/security/INCIDENT_RESPONSE.md, incident.rs): a set of entries     *)
(* that only grows, except that the owner lifts an incident, and a notice  *)
(* of a publisher is taken at most once and only when it is newer than     *)
(* every notice taken from that publisher before.                          *)
(***************************************************************************)
EXTENDS Naturals

CONSTANTS
    Publishers,
    Notices      \* [publisher, sequence, entries]

VARIABLES
    active,      \* entries in force
    seen         \* publisher -> last sequence taken, 0 before the first

vars == <<active, seen>>

Init ==
    /\ active = {}
    /\ seen = [p \in Publishers |-> 0]

Install(n) ==
    /\ n.sequence > seen[n.publisher]
    /\ seen' = [seen EXCEPT ![n.publisher] = n.sequence]
    /\ active' = active \cup n.entries

Lift(incident) ==
    /\ \E e \in active : e.incident = incident
    /\ active' = {e \in active : e.incident # incident}
    /\ UNCHANGED seen

Incidents == {e.incident : e \in UNION {n.entries : n \in Notices}}

Next ==
    \/ \E n \in Notices : Install(n)
    \/ \E i \in Incidents : Lift(i)

Spec == Init /\ [][Next]_vars
=============================================================================
