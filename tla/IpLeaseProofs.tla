---------------------------- MODULE IpLeaseProofs ----------------------------
(* What the lease specification gives whoever implements it.                *)
EXTENDS IpLease, TLAPS

LeaseInv == LeaseTypeOK /\ Exclusive

\* Every lease step keeps the leases exclusive.
LEMMA LeaseInvStep == LeaseInv /\ [LeaseNext]_leaseVars => LeaseInv'
<1>. SUFFICES ASSUME LeaseInv, [LeaseNext]_leaseVars PROVE LeaseInv'
  OBVIOUS
<1>. USE DEF LeaseInv, LeaseTypeOK, Exclusive, Held
<1>1. ASSUME NEW e \in Envs, Grant(e) PROVE LeaseInv'
  <2>1. PICK i \in IPs \ {addr[f] : f \in Held} : addr' = [addr EXCEPT ![e] = i]
    BY <1>1 DEF Grant
  <2>2. LeaseTypeOK'
    BY <1>1, <2>1 DEF Grant
  <2>3. \A f \in Held \ {e} : addr'[f] = addr[f] /\ addr[f] # i
    BY <2>1
  <2>4. Held' \subseteq Held \cup {e} /\ addr'[e] = i
    BY <1>1, <2>1 DEF Grant
  <2>. QED BY <2>2, <2>3, <2>4
<1>2. ASSUME NEW S \in SUBSET Held, Release(S) PROVE LeaseInv'
  BY <1>2 DEF Release
<1>3. CASE UNCHANGED leaseVars
  BY <1>3 DEF leaseVars
<1>. QED BY <1>1, <1>2, <1>3 DEF LeaseNext

\* No address is ever leased twice at the same time, however leases are
\* granted and released.
THEOREM LeasesExclusive == LeaseSpec => []Exclusive
<1>1. LeaseInit => LeaseInv
  BY DEF LeaseInit, LeaseInv, LeaseTypeOK, Exclusive, Held
<1>. QED BY <1>1, LeaseInvStep, PTL DEF LeaseSpec, LeaseInv
=============================================================================
