----------------------------- MODULE WriteLock ------------------------------
(***************************************************************************)
(* The two locks every writer of the orchestrator meets, and the order in  *)
(* which each kind of request takes them:                                  *)
(*   write    SQLite's write lock.  The first statement of a session takes *)
(*            it (BEGIN IMMEDIATE), commit or the session's end gives it   *)
(*            back.  Nobody queues: whoever tries when it is free has it.  *)
(*            After busy_timeout a waiter fails with `database is locked'. *)
(*   address  _ip_lock, an asyncio.Lock: first come, first served, and a   *)
(*            waiter waits as long as it takes.                            *)
(* start_env and extend_attack_machine come to the address lock with a     *)
(* transaction open; extend_env opens its transaction inside the address   *)
(* lock.  The two orders meet.                                             *)
(*                                                                         *)
(* A request goes through phases, between which it holds nothing.          *)
(*                                                                         *)
(* A definition called Faulty... is the one after it with a plausible bug; *)
(* nothing uses it.  Replacing the definition by it must break a property. *)
(***************************************************************************)
EXTENDS Naturals, Sequences

CONSTANTS
  Requests,
  KindOf,     \* what each request is
  Nobody

Kinds == {"start", "extend", "extend_attack", "write"}

ASSUME RequestAssumption ==
  /\ KindOf \in [Requests -> Kinds]
  /\ Nobody \notin Requests

VARIABLES
  state,     \* "idle", "busy", "answered" or "failed"
  phase,     \* of the busy request, counting along Phases
  held,      \* how many locks of that phase it has
  write,     \* who has the write lock
  address    \* who waits for the address lock; the first has it once it has taken it

vars == <<state, phase, held, write, address>>

\* Faulty: the attack machine is looked up inside the address lock.
FaultyPhases(kind) ==
  [start         |-> << <<"write", "address">>, <<"write">>, <<"write">> >>,
   extend        |-> << <<"address", "write">> >>,
   extend_attack |-> << <<"address", "write">> >>,
   write         |-> << <<"write">> >>][kind]

\* The locks each phase takes, in order: a start reserves its row, and when the VM
\* is up records it and sets it running, each in a transaction; the other writers
\* (stops, uploads, the tasks' claims and outcomes) take the write lock alone.
Phases(kind) ==
  [start         |-> << <<"write", "address">>, <<"write">>, <<"write">> >>,
   extend        |-> << <<"address", "write">> >>,
   extend_attack |-> << <<"write", "address">> >>,
   write         |-> << <<"write">> >>][kind]

Queued      == {address[i] : i \in DOMAIN address}
Locks(r)    == Phases(KindOf[r])[phase[r]]
Busy(r)     == state[r] = "busy"
HasAll(r)   == Busy(r) /\ held[r] = Len(Locks(r))
Wants(r, l) == Busy(r) /\ ~HasAll(r) /\ Locks(r)[held[r] + 1] = l
Has(r, l)   == Busy(r) /\ \E i \in 1 .. held[r] : Locks(r)[i] = l

Init ==
  /\ state = [r \in Requests |-> "idle"]
  /\ phase = [r \in Requests |-> 1]
  /\ held  = [r \in Requests |-> 0]
  /\ write = Nobody
  /\ address = <<>>

\* The request arrives.  Its user was looked up in a session that takes no lock.
Arrive(r) ==
  /\ state[r] = "idle"
  /\ state' = [state EXCEPT ![r] = "busy"]
  /\ UNCHANGED <<phase, held, write, address>>

TakeWrite(r) ==
  /\ Wants(r, "write") /\ write = Nobody
  /\ write' = r
  /\ held' = [held EXCEPT ![r] = @ + 1]
  /\ UNCHANGED <<state, phase, address>>

QueueForAddress(r) ==
  /\ Wants(r, "address") /\ r \notin Queued
  /\ address' = Append(address, r)
  /\ UNCHANGED <<state, phase, held, write>>

TakeAddress(r) ==
  /\ Wants(r, "address") /\ address # <<>> /\ Head(address) = r
  /\ held' = [held EXCEPT ![r] = @ + 1]
  /\ UNCHANGED <<state, phase, write, address>>

\* Faulty: a transaction that was refused is not rolled back.
FaultyRelease(r) ==
  /\ write' = IF write = r /\ state'[r] # "failed" THEN Nobody ELSE write
  /\ address' = IF Has(r, "address") THEN Tail(address) ELSE address

\* Leaving the phase gives both locks back.
Release(r) ==
  /\ write' = IF write = r THEN Nobody ELSE write
  /\ address' = IF Has(r, "address") THEN Tail(address) ELSE address

LastPhase(r) == phase[r] = Len(Phases(KindOf[r]))

\* Faulty: the last phase has a successor.
FaultyCommit(r) ==
  /\ HasAll(r)
  /\ phase' = [phase EXCEPT ![r] = @ + 1]
  /\ state' = [state EXCEPT ![r] = IF LastPhase(r) THEN "answered" ELSE @]
  /\ held' = [held EXCEPT ![r] = 0]
  /\ Release(r)

\* The phase's commit.
Commit(r) ==
  /\ HasAll(r)
  /\ phase' = [phase EXCEPT ![r] = IF LastPhase(r) THEN 1 ELSE @ + 1]
  /\ state' = [state EXCEPT ![r] = IF LastPhase(r) THEN "answered" ELSE @]
  /\ held' = [held EXCEPT ![r] = 0]
  /\ Release(r)

Fail(r) ==
  /\ state' = [state EXCEPT ![r] = "failed"]
  /\ phase' = [phase EXCEPT ![r] = 1] /\ held' = [held EXCEPT ![r] = 0]
  /\ Release(r)

\* A check made under the locks refuses the request, or stop_vm raises.
Refuse(r) == HasAll(r) /\ Fail(r)

\* Faulty: only who holds nothing gives up.
FaultyTimesOut(r) == Wants(r, "write") /\ write # Nobody /\ held[r] = 0 /\ Fail(r)

\* busy_timeout: the write lock was not to be had for 10 s.  The exception leaves
\* the address lock on its way.
TimesOut(r) == Wants(r, "write") /\ write # Nobody /\ Fail(r)

Step(r) ==
  \/ TakeWrite(r) \/ QueueForAddress(r) \/ TakeAddress(r)
  \/ Commit(r) \/ Refuse(r) \/ TimesOut(r)

Next == \E r \in Requests : Arrive(r) \/ Step(r)

Spec == Init /\ [][Next]_vars

\* Every command under the locks has a time limit, so has the wait for the write lock;
\* who gets it is not promised.
FairSpec == Spec /\ \A r \in Requests : WF_vars(Step(r))

(***************************************************************************)
(* Properties.                                                             *)
(***************************************************************************)

TypeOK ==
  /\ state \in [Requests -> {"idle", "busy", "answered", "failed"}]
  /\ phase \in [Requests -> 1 .. 3] /\ held \in [Requests -> 0 .. 2]
  /\ write \in Requests \cup {Nobody}
  /\ address \in Seq(Requests)

\* A lock is held by a request at the very point of its plan that holds it: no way
\* out of a handler keeps one, and no lock has two holders.
LocksAreInUse ==
  /\ \A r \in Requests : write = r <=> Has(r, "write")
  /\ \A r \in Requests : Has(r, "address") => r \in Queued /\ Head(address) = r
  /\ \A r \in Queued : Has(r, "address") \/ Wants(r, "address")

\* Where two requests wait for each other, the one in the address lock is extend_env:
\* it alone is there without the write lock, and by its timeout the circle opens.
CircleHasExtension ==
  \A r, s \in Requests :
    Has(r, "write") /\ Wants(r, "address") /\ Has(s, "address") /\ Wants(s, "write")
      => KindOf[s] = "extend"

\* Every request that arrives is answered, if only by an error.
AllAnswered == \A r \in Requests : state[r] = "busy" ~> state[r] \in {"answered", "failed"}
=============================================================================
