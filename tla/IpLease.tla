------------------------------ MODULE IpLease -------------------------------
(***************************************************************************)
(* What the environment lifecycle promises about addresses, without its    *)
(* handlers, locks and VMs: a request is granted a free address of the     *)
(* pool at most once, within its user's limits, keeps it until the lease   *)
(* is released, and is never granted or given back an address afterwards.  *)
(***************************************************************************)
EXTENDS Naturals, FiniteSets

CONSTANTS Envs, IPs, Users, Admins, UserOf, MaxPerUser, MaxTotal

VARIABLES
  lease,   \* "new", "held" or "released"
  addr     \* the address granted, 0 before

leaseVars == <<lease, addr>>

Held == {e \in Envs : lease[e] = "held"}

LeaseInit ==
  /\ lease = [e \in Envs |-> "new"]
  /\ addr  = [e \in Envs |-> 0]

Entitled(u) ==
  \/ u \in Admins
  \/ /\ Cardinality({f \in Held : UserOf[f] = u}) < MaxPerUser
     /\ Cardinality(Held) < MaxTotal

Grant(e) ==
  /\ lease[e] = "new"
  /\ lease' = [lease EXCEPT ![e] = "held"]
  /\ Entitled(UserOf[e])
  /\ \E i \in IPs \ {addr[f] : f \in Held} : addr' = [addr EXCEPT ![e] = i]

\* One stop releases one lease; an image request or a restart releases many.
Release(S) ==
  /\ S # {}
  /\ UNCHANGED addr
  /\ lease' = [e \in Envs |-> IF e \in S THEN "released" ELSE lease[e]]

LeaseNext == (\E e \in Envs : Grant(e)) \/ (\E S \in SUBSET Held : Release(S))

LeaseSpec == LeaseInit /\ [][LeaseNext]_leaseVars

-----------------------------------------------------------------------------

LeaseTypeOK ==
  /\ lease \in [Envs -> {"new", "held", "released"}]
  /\ addr \in [Envs -> IPs \cup {0}]

\* No address is leased twice.
Exclusive == \A e, f \in Held : e # f => addr[e] # addr[f]
=============================================================================
