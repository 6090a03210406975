-------------------------- MODULE WriteLockProofs ---------------------------
(***************************************************************************)
(* WriteLock for any number of requests of every kind.                     *)
(*                                                                         *)
(* The inductive invariant says where a request may be on its way          *)
(* (Places), that each lock's holder and queue are the requests whose      *)
(* place says so (LocksAreInUse), and that nobody queues twice.            *)
(***************************************************************************)
EXTENDS WriteLock, TLAPS

LockNames == {"write", "address"}

\* The three ways a phase takes locks: none takes one twice.
Shapes == { <<"write">>, <<"write", "address">>, <<"address", "write">> }

LEMMA PhaseShapes ==
  ASSUME NEW k \in Kinds
  PROVE  /\ Len(Phases(k)) \in 1 .. 3
         /\ \A p \in 1 .. Len(Phases(k)) : Phases(k)[p] \in Shapes
<1>1. CASE k = "start"
  BY <1>1 DEF Phases, Shapes
<1>2. CASE k = "extend"
  BY <1>2 DEF Phases, Shapes
<1>3. CASE k = "extend_attack"
  BY <1>3 DEF Phases, Shapes
<1>4. CASE k = "write"
  BY <1>4 DEF Phases, Shapes
<1>. QED BY <1>1, <1>2, <1>3, <1>4 DEF Kinds

\* Only extend_env asks for the write lock inside the address lock.
LEMMA OnlyExtension ==
  ASSUME NEW k \in Kinds, NEW p \in 1 .. Len(Phases(k)),
         Phases(k)[p] = <<"address", "write">>
  PROVE  k = "extend"
<1>1. CASE k = "start"
  BY <1>1 DEF Phases
<1>2. CASE k = "extend_attack"
  BY <1>2 DEF Phases
<1>3. CASE k = "write"
  BY <1>3 DEF Phases
<1>. QED BY <1>1, <1>2, <1>3 DEF Kinds

-----------------------------------------------------------------------------
(* The inductive invariant. *)

Places ==
  \A r \in Requests :
    /\ phase[r] \in 1 .. Len(Phases(KindOf[r]))
    /\ held[r] \in 0 .. Len(Locks(r))
    /\ ~Busy(r) => held[r] = 0 /\ phase[r] = 1

QueuedOnce ==
  \A i, j \in DOMAIN address : address[i] = address[j] => i = j

IInv == TypeOK /\ Places /\ LocksAreInUse /\ QueuedOnce

LEMMA LocksShape ==
  ASSUME NEW r \in Requests, TypeOK, Places
  PROVE  Locks(r) \in Shapes
<1>1. KindOf[r] \in Kinds
  BY RequestAssumption
<1>. QED BY <1>1, PhaseShapes DEF Places, Locks

\* A request wants one lock at a time, and none that it has.
LEMMA WantsOne ==
  ASSUME NEW r \in Requests, TypeOK, Places
  PROVE  /\ ~(Wants(r, "write") /\ Wants(r, "address"))
         /\ \A l \in LockNames : ~(Wants(r, l) /\ Has(r, l)) /\ ~(Wants(r, l) /\ HasAll(r))
<1>1. Locks(r) \in Shapes /\ held[r] \in 0 .. Len(Locks(r))
  BY LocksShape DEF Places
<1>. QED BY <1>1 DEF Wants, Has, HasAll, Shapes, LockNames

\* What a request has once it has taken the lock it wanted.
LEMMA HasOneMore ==
  ASSUME NEW r \in Requests, NEW l \in LockNames, TypeOK, Places, Wants(r, l),
         UNCHANGED <<state, phase>>, held' = [held EXCEPT ![r] = @ + 1]
  PROVE  /\ held'[r] \in 0 .. Len(Locks(r)) /\ held'[r] \in 0 .. 2
         /\ Locks(r)' = Locks(r) /\ Busy(r)'
         /\ \A m \in LockNames : Has(r, m)' <=> (m = l \/ Has(r, m))
<1>1. Locks(r) \in Shapes /\ held[r] \in 0 .. Len(Locks(r)) /\ Locks(r)' = Locks(r)
  BY LocksShape DEF Places, Locks
<1>2. held'[r] = held[r] + 1 /\ Busy(r) /\ Busy(r)' /\ held[r] # Len(Locks(r))
  BY DEF TypeOK, Wants, Busy, HasAll
<1>3. held'[r] \in 0 .. Len(Locks(r)) /\ held'[r] \in 0 .. 2
  <2>1. PICK n \in 1 .. 2 : n = Len(Locks(r))
    BY <1>1 DEF Shapes
  <2>2. held[r] \in 0 .. n /\ held[r] # n
    BY <1>1, <1>2, <2>1
  <2>3. held[r] + 1 \in 0 .. n
    BY <2>2
  <2>. QED BY <1>2, <2>1, <2>3
<1>4. ASSUME NEW m \in LockNames PROVE Has(r, m)' <=> (m = l \/ Has(r, m))
  <2>1. Locks(r)[held[r] + 1] = l
    BY DEF Wants
  <2>2. 1 .. held'[r] = (1 .. held[r]) \cup {held[r] + 1}
    BY <1>1, <1>2 DEF Shapes
  <2>. QED BY <1>1, <1>2, <2>1, <2>2 DEF Has
<1>. QED BY <1>1, <1>2, <1>3, <1>4

LEMMA QueuedAreRequests ==
  ASSUME TypeOK
  PROVE  Queued \subseteq Requests
BY DEF TypeOK, Queued

\* Requests that take no step stay where they are.
LEMMA OthersStay ==
  ASSUME NEW s \in Requests,
         state'[s] = state[s], phase'[s] = phase[s], held'[s] = held[s]
  PROVE  /\ (Busy(s)' <=> Busy(s)) /\ Locks(s)' = Locks(s)
         /\ \A l \in LockNames : (Has(s, l)' <=> Has(s, l)) /\ (Wants(s, l)' <=> Wants(s, l))
BY DEF Busy, Locks, Has, Wants, HasAll

-----------------------------------------------------------------------------
(* One lemma per kind of step. *)

LEMMA ArriveStep ==
  ASSUME IInv, NEW r \in Requests, Arrive(r)
  PROVE  IInv'
<1>. USE DEF IInv
<1>1. state[r] = "idle" /\ held[r] = 0 /\ phase[r] = 1 /\ ~Busy(r)
  BY DEF Arrive, Places, Busy
<1>2. \A s \in Requests \ {r} : state'[s] = state[s]
  BY DEF Arrive, TypeOK
<1>3. UNCHANGED <<phase, held, write, address>> /\ state'[r] = "busy"
  BY DEF Arrive, TypeOK
<1>4. TypeOK'
  BY DEF Arrive, TypeOK
<1>5. Places'
  BY <1>1, <1>2, <1>3 DEF Places, Busy, Locks
<1>6. QueuedOnce' /\ Queued' = Queued
  BY <1>3 DEF QueuedOnce, Queued
<1>7. \A l \in LockNames : ~Has(r, l) /\ ~Has(r, l)' /\ ~Wants(r, l)
  BY <1>1, <1>3 DEF Has, Wants
<1>8. LocksAreInUse'
  <2>1. \A s \in Requests : write' = s <=> Has(s, "write")'
    BY <1>2, <1>3, <1>7, OthersStay DEF LocksAreInUse, LockNames
  <2>2. \A s \in Requests : Has(s, "address")' => s \in Queued' /\ Head(address)' = s
    BY <1>2, <1>3, <1>6, <1>7, OthersStay DEF LocksAreInUse, LockNames
  <2>3. ASSUME NEW s \in Queued' PROVE Has(s, "address")' \/ Wants(s, "address")'
    <3>1. s \in Requests /\ s \in Queued /\ s # r
      BY <1>6, <1>7, QueuedAreRequests DEF LocksAreInUse, LockNames
    <3>. QED BY <3>1, <1>2, <1>3, OthersStay DEF LocksAreInUse, LockNames
  <2>. QED BY <2>1, <2>2, <2>3 DEF LocksAreInUse
<1>. QED BY <1>4, <1>5, <1>6, <1>8

\* Taking the write lock, a place in the queue, or the address lock.
LEMMA TakeWriteStep ==
  ASSUME IInv, NEW r \in Requests, TakeWrite(r)
  PROVE  IInv'
<1>. USE DEF IInv
<1>1. /\ Wants(r, "write") /\ write = Nobody /\ write' = r
      /\ UNCHANGED <<state, phase, address>> /\ held' = [held EXCEPT ![r] = @ + 1]
  BY DEF TakeWrite
<1>2. /\ held'[r] \in 0 .. Len(Locks(r)) /\ held'[r] \in 0 .. 2
      /\ Locks(r)' = Locks(r) /\ Busy(r)'
      /\ \A m \in LockNames : Has(r, m)' <=> (m = "write" \/ Has(r, m))
  BY <1>1, HasOneMore DEF LockNames
<1>3. \A s \in Requests \ {r} : state'[s] = state[s] /\ phase'[s] = phase[s] /\ held'[s] = held[s]
  BY <1>1 DEF TypeOK
<1>4. Places'
  BY <1>1, <1>2, <1>3 DEF Places, Locks, Busy
<1>5. TypeOK'
  BY <1>1, <1>2 DEF TypeOK
<1>6. LocksAreInUse'
  <2>1. \A s \in Requests : write' = s <=> Has(s, "write")'
    BY <1>1, <1>2, <1>3, OthersStay, RequestAssumption DEF LocksAreInUse, LockNames
  <2>2. \A s \in Requests : Has(s, "address")' => s \in Queued' /\ Head(address)' = s
    BY <1>1, <1>2, <1>3, OthersStay DEF LocksAreInUse, LockNames, Queued
  <2>3. ASSUME NEW s \in Queued' PROVE Has(s, "address")' \/ Wants(s, "address")'
    <3>1. s \in Requests /\ s \in Queued
      BY <1>1 DEF Queued, TypeOK
    <3>2. CASE s = r
      BY <3>1, <3>2, <1>1, <1>2, WantsOne DEF LocksAreInUse, LockNames
    <3>. QED BY <3>1, <3>2, <1>3, OthersStay DEF LocksAreInUse, LockNames
  <2>. QED BY <2>1, <2>2, <2>3 DEF LocksAreInUse
<1>. QED BY <1>1, <1>4, <1>5, <1>6 DEF QueuedOnce

LEMMA QueueStep ==
  ASSUME IInv, NEW r \in Requests, QueueForAddress(r)
  PROVE  IInv'
<1>. USE DEF IInv
<1>1. /\ Wants(r, "address") /\ r \notin Queued /\ address' = Append(address, r)
      /\ UNCHANGED <<state, phase, held, write>> /\ address \in Seq(Requests)
  BY DEF QueueForAddress, TypeOK
<1>2. /\ DOMAIN address' = DOMAIN address \cup {Len(address) + 1}
      /\ \A i \in DOMAIN address : address'[i] = address[i]
      /\ address'[Len(address) + 1] = r /\ Len(address) + 1 \notin DOMAIN address
      /\ address' \in Seq(Requests)
  BY <1>1
<1>3. Queued' = Queued \cup {r}
  BY <1>2 DEF Queued
<1>4. TypeOK' /\ Places'
  BY <1>1, <1>2 DEF TypeOK, Places, Busy, Locks
<1>5. QueuedOnce'
  BY <1>1, <1>2 DEF QueuedOnce, Queued
<1>6. LocksAreInUse'
  <2>1. \A s \in Requests : write' = s <=> Has(s, "write")'
    BY <1>1, OthersStay DEF LocksAreInUse, LockNames
  <2>2. ASSUME NEW s \in Requests, Has(s, "address")' PROVE s \in Queued' /\ Head(address)' = s
    <3>1. Has(s, "address") /\ Head(address) = s /\ s \in Queued
      BY <2>2, <1>1, OthersStay DEF LocksAreInUse, LockNames
    <3>2. Len(address) > 0
      BY <3>1, <1>1 DEF Queued
    <3>. QED BY <3>1, <3>2, <1>1, <1>3
  <2>3. ASSUME NEW s \in Queued' PROVE Has(s, "address")' \/ Wants(s, "address")'
    BY <1>1, <1>3, OthersStay DEF LocksAreInUse, LockNames, Queued, TypeOK
  <2>. QED BY <2>1, <2>2, <2>3 DEF LocksAreInUse
<1>. QED BY <1>4, <1>5, <1>6

LEMMA TakeAddressStep ==
  ASSUME IInv, NEW r \in Requests, TakeAddress(r)
  PROVE  IInv'
<1>. USE DEF IInv
<1>1. /\ Wants(r, "address") /\ address # <<>> /\ Head(address) = r
      /\ UNCHANGED <<state, phase, write, address>> /\ held' = [held EXCEPT ![r] = @ + 1]
  BY DEF TakeAddress
<1>2. /\ held'[r] \in 0 .. Len(Locks(r)) /\ held'[r] \in 0 .. 2
      /\ Locks(r)' = Locks(r) /\ Busy(r)'
      /\ \A m \in LockNames : Has(r, m)' <=> (m = "address" \/ Has(r, m))
  BY <1>1, HasOneMore DEF LockNames
<1>3. \A s \in Requests \ {r} : state'[s] = state[s] /\ phase'[s] = phase[s] /\ held'[s] = held[s]
  BY <1>1 DEF TypeOK
<1>4. Places'
  BY <1>1, <1>2, <1>3 DEF Places, Locks, Busy
<1>5. TypeOK'
  BY <1>1, <1>2 DEF TypeOK
<1>6. Queued' = Queued /\ r \in Queued
  <2>1. Len(address) > 0 /\ r = address[1]
    BY <1>1 DEF TypeOK
  <2>. QED BY <1>1, <2>1 DEF Queued, TypeOK
<1>7. LocksAreInUse'
  <2>1. \A s \in Requests : write' = s <=> Has(s, "write")'
    BY <1>1, <1>2, <1>3, OthersStay DEF LocksAreInUse, LockNames
  <2>2. \A s \in Requests : Has(s, "address")' => s \in Queued' /\ Head(address)' = s
    BY <1>1, <1>2, <1>3, <1>6, OthersStay DEF LocksAreInUse, LockNames
  <2>3. ASSUME NEW s \in Queued' PROVE Has(s, "address")' \/ Wants(s, "address")'
    <3>1. s \in Requests /\ s \in Queued
      BY <1>6, QueuedAreRequests
    <3>. QED BY <3>1, <1>2, <1>3, OthersStay DEF LocksAreInUse, LockNames
  <2>. QED BY <2>1, <2>2, <2>3 DEF LocksAreInUse
<1>. QED BY <1>1, <1>4, <1>5, <1>7 DEF QueuedOnce

\* Who leaves the address lock leaves the queue with it; who leaves without the
\* lock is not in the queue.
LEMMA TailOnce ==
  ASSUME NEW S, NEW q \in Seq(S), q # <<>>,
         \A i, j \in DOMAIN q : q[i] = q[j] => i = j
  PROVE  /\ Tail(q) \in Seq(S)
         /\ {Tail(q)[i] : i \in DOMAIN Tail(q)} = {q[i] : i \in DOMAIN q} \ {Head(q)}
         /\ \A i, j \in DOMAIN Tail(q) : Tail(q)[i] = Tail(q)[j] => i = j
<1>1. /\ Tail(q) \in Seq(S) /\ DOMAIN Tail(q) = 1 .. (Len(q) - 1) /\ DOMAIN q = 1 .. Len(q)
      /\ \A i \in 1 .. (Len(q) - 1) : Tail(q)[i] = q[i + 1]
      /\ Head(q) = q[1] /\ Len(q) \in Nat /\ Len(q) > 0
  OBVIOUS
<1>2. ASSUME NEW x \in {q[i] : i \in DOMAIN q} \ {Head(q)}
      PROVE  x \in {Tail(q)[i] : i \in DOMAIN Tail(q)}
  <2>1. PICK i \in 1 .. Len(q) : x = q[i]
    BY <1>1, <1>2
  <2>2. i - 1 \in 1 .. (Len(q) - 1) /\ Tail(q)[i - 1] = q[i]
    <3>1. i # 1
      BY <2>1, <1>1, <1>2
    <3>2. i - 1 \in 1 .. (Len(q) - 1) /\ (i - 1) + 1 = i
      BY <3>1, <1>1
    <3>. QED BY <3>2, <1>1
  <2>. QED BY <2>1, <2>2, <1>1
<1>3. ASSUME NEW x \in {Tail(q)[i] : i \in DOMAIN Tail(q)}
      PROVE  x \in {q[i] : i \in DOMAIN q} \ {Head(q)}
  <2>1. PICK i \in 1 .. (Len(q) - 1) : x = Tail(q)[i]
    BY <1>1, <1>3
  <2>2. x = q[i + 1] /\ i + 1 \in DOMAIN q /\ 1 \in DOMAIN q /\ i + 1 # 1
    BY <2>1, <1>1
  <2>. QED BY <2>2, <1>1
<1>4. ASSUME NEW i \in DOMAIN Tail(q), NEW j \in DOMAIN Tail(q), Tail(q)[i] = Tail(q)[j]
      PROVE  i = j
  <2>1. q[i + 1] = q[j + 1] /\ i + 1 \in DOMAIN q /\ j + 1 \in DOMAIN q
    BY <1>1, <1>4
  <2>2. i + 1 = j + 1
    BY <2>1
  <2>. QED BY <2>2, <1>1
<1>. QED BY <1>1, <1>2, <1>3, <1>4

LEMMA LeaveStep ==
  ASSUME IInv, NEW r \in Requests, HasAll(r) \/ Wants(r, "write"), Release(r),
         held' = [held EXCEPT ![r] = 0],
         NEW p, p \in 1 .. Len(Phases(KindOf[r])), phase' = [phase EXCEPT ![r] = p],
         NEW x, x \in {"busy", "answered", "failed"}, state' = [state EXCEPT ![r] = x],
         x # "busy" => p = 1
  PROVE  IInv'
<1>. USE DEF IInv
<1>1. /\ held'[r] = 0 /\ phase'[r] = p /\ state'[r] = x /\ Busy(r)
      /\ \A s \in Requests \ {r} :
            state'[s] = state[s] /\ phase'[s] = phase[s] /\ held'[s] = held[s]
  BY DEF TypeOK, HasAll, Wants
<1>2. \A l \in LockNames : ~Has(r, l)'
  BY <1>1 DEF Has
<1>3. ~Wants(r, "address")
  BY WantsOne DEF LockNames
<1>4. /\ address' \in Seq(Requests) /\ Queued' = Queued \ {r} /\ QueuedOnce'
      /\ \A s \in Requests \ {r} : Has(s, "address") => address' = address
  <2>1. CASE Has(r, "address")
    <3>1. r \in Queued /\ Head(address) = r /\ address' = Tail(address)
      BY <2>1 DEF LocksAreInUse, Release
    <3>2. address # <<>> /\ address \in Seq(Requests)
      BY <3>1 DEF Queued, TypeOK
    <3>3. \A s \in Requests \ {r} : ~Has(s, "address")
      BY <3>1 DEF LocksAreInUse
    <3>4. \A i, j \in DOMAIN address : address[i] = address[j] => i = j
      BY DEF QueuedOnce
    <3>5. /\ Tail(address) \in Seq(Requests)
          /\ {Tail(address)[i] : i \in DOMAIN Tail(address)} = Queued \ {r}
          /\ \A i, j \in DOMAIN Tail(address) : Tail(address)[i] = Tail(address)[j] => i = j
      BY <3>1, <3>2, <3>4, TailOnce DEF Queued
    <3>6. Queued' = {Tail(address)[i] : i \in DOMAIN Tail(address)}
      BY <3>1 DEF Queued
    <3>7. QueuedOnce'
      BY <3>1, <3>5 DEF QueuedOnce
    <3>. QED BY <3>1, <3>3, <3>5, <3>6, <3>7
  <2>2. CASE ~Has(r, "address")
    <3>1. address' = address /\ r \notin Queued
      BY <2>2, <1>3 DEF LocksAreInUse, Release
    <3>. QED BY <3>1 DEF QueuedOnce, Queued, TypeOK
  <2>. QED BY <2>1, <2>2
<1>5. \A s \in Requests : write' = s <=> (write = s /\ s # r)
  BY RequestAssumption DEF Release, TypeOK
<1>6. TypeOK'
  <2>1. p \in 1 .. 3
    BY RequestAssumption, PhaseShapes
  <2>2. write' \in Requests \cup {Nobody}
    BY DEF Release, TypeOK
  <2>. QED BY <1>4, <2>1, <2>2 DEF TypeOK
<1>7. Places'
  <2>1. Len(Locks(r)') \in 1 .. 2
    <3>1. KindOf[r] \in Kinds
      BY RequestAssumption
    <3>2. Locks(r)' \in Shapes
      BY <3>1, <1>1, PhaseShapes DEF Locks
    <3>. QED BY <3>2 DEF Shapes
  <2>. QED BY <2>1, <1>1 DEF Places, Busy, Locks
<1>8. LocksAreInUse'
  <2>1. \A s \in Requests : write' = s <=> Has(s, "write")'
    BY <1>1, <1>2, <1>5, OthersStay DEF LocksAreInUse, LockNames
  <2>2. \A s \in Requests : Has(s, "address")' => s \in Queued' /\ Head(address)' = s
    BY <1>1, <1>2, <1>4, OthersStay DEF LocksAreInUse, LockNames
  <2>3. ASSUME NEW s \in Queued' PROVE Has(s, "address")' \/ Wants(s, "address")'
    <3>1. s \in Requests /\ s \in Queued /\ s # r
      BY <1>4, QueuedAreRequests
    <3>. QED BY <3>1, <1>1, OthersStay DEF LocksAreInUse, LockNames
  <2>. QED BY <2>1, <2>2, <2>3 DEF LocksAreInUse
<1>. QED BY <1>4, <1>6, <1>7, <1>8

LEMMA PhaseEnds ==
  ASSUME IInv, NEW r \in Requests, Commit(r) \/ Refuse(r) \/ TimesOut(r)
  PROVE  IInv'
<1>1. KindOf[r] \in Kinds /\ phase[r] \in 1 .. Len(Phases(KindOf[r])) /\ Len(Phases(KindOf[r])) \in 1 .. 3
  BY RequestAssumption, PhaseShapes DEF IInv, Places
<1>2. state \in [Requests -> {"idle", "busy", "answered", "failed"}] /\ phase \in [Requests -> 1 .. 3]
  BY DEF IInv, TypeOK
<1>3. CASE Commit(r) /\ LastPhase(r)
  <2>1. phase' = [phase EXCEPT ![r] = 1] /\ state' = [state EXCEPT ![r] = "answered"]
    BY <1>3 DEF Commit
  <2>2. 1 \in 1 .. Len(Phases(KindOf[r]))
    BY <1>1
  <2>3. HasAll(r) /\ Release(r) /\ held' = [held EXCEPT ![r] = 0]
    BY <1>3 DEF Commit
  <2>. QED BY <2>1, <2>2, <2>3, LeaveStep
<1>4. CASE Commit(r) /\ ~LastPhase(r)
  <2>1. phase' = [phase EXCEPT ![r] = phase[r] + 1] /\ state' = [state EXCEPT ![r] = "busy"]
    BY <1>2, <1>4 DEF Commit, HasAll, Busy
  <2>2. phase[r] + 1 \in 1 .. Len(Phases(KindOf[r]))
    BY <1>1, <1>4 DEF LastPhase
  <2>3. HasAll(r) /\ Release(r) /\ held' = [held EXCEPT ![r] = 0]
    BY <1>4 DEF Commit
  <2>. QED BY <2>1, <2>2, <2>3, LeaveStep
<1>5. CASE Refuse(r) \/ TimesOut(r)
  <2>1. /\ HasAll(r) \/ Wants(r, "write")
        /\ state' = [state EXCEPT ![r] = "failed"]
        /\ phase' = [phase EXCEPT ![r] = 1] /\ held' = [held EXCEPT ![r] = 0]
        /\ Release(r)
    BY <1>5 DEF Refuse, TimesOut, Fail
  <2>2. 1 \in 1 .. Len(Phases(KindOf[r]))
    BY <1>1
  <2>. QED BY <2>1, <2>2, LeaveStep
<1>. QED BY <1>3, <1>4, <1>5

-----------------------------------------------------------------------------
(* The theorems. *)

LEMMA Invariant == Spec => []IInv
<1>1. Init => IInv
  <2>. SUFFICES ASSUME Init PROVE IInv
    OBVIOUS
  <2>1. TypeOK /\ Queued = {} /\ QueuedOnce
    BY DEF Init, TypeOK, Queued, QueuedOnce
  <2>2. \A r \in Requests : ~Busy(r) /\ held[r] = 0 /\ phase[r] = 1
    BY DEF Init, Busy
  <2>3. ASSUME NEW r \in Requests
        PROVE  phase[r] \in 1 .. Len(Phases(KindOf[r])) /\ held[r] \in 0 .. Len(Locks(r))
    <3>1. KindOf[r] \in Kinds /\ Len(Phases(KindOf[r])) \in 1 .. 3
      BY RequestAssumption, PhaseShapes
    <3>2. Locks(r) \in Shapes
      BY <2>2, <3>1, PhaseShapes DEF Locks
    <3>3. Len(Locks(r)) \in 1 .. 2
      BY <3>2 DEF Shapes
    <3>. QED BY <2>2, <3>1, <3>3
  <2>4. LocksAreInUse
    BY <2>1, <2>2, RequestAssumption DEF Init, LocksAreInUse, Has
  <2>. QED BY <2>1, <2>2, <2>3, <2>4 DEF IInv, Places
<1>2. IInv /\ [Next]_vars => IInv'
  <2>. SUFFICES ASSUME IInv, [Next]_vars PROVE IInv'
    OBVIOUS
  <2>1. CASE UNCHANGED vars
    BY <2>1 DEF vars, IInv, TypeOK, Places, LocksAreInUse, QueuedOnce,
                Busy, Locks, HasAll, Wants, Has, Queued
  <2>2. CASE Next
    <3>1. PICK r \in Requests : Arrive(r) \/ Step(r)
      BY <2>2 DEF Next
    <3>. QED BY <3>1, ArriveStep, TakeWriteStep, QueueStep, TakeAddressStep, PhaseEnds DEF Step
  <2>. QED BY <2>1, <2>2
<1>. QED BY <1>1, <1>2, PTL DEF Spec

\* Every variable keeps its type.
THEOREM TypeCorrect == Spec => []TypeOK
BY Invariant, PTL DEF IInv

\* However the requests meet, and whichever are refused or time out, neither lock is
\* kept by a request that has left the statements under it, nor has two holders.
THEOREM LocksHeldInUse == Spec => []LocksAreInUse
BY Invariant, PTL DEF IInv

\* Whenever a request with the write lock and one with the address lock wait for each
\* other, the second is an extension: of all handlers it alone takes the locks in the
\* other order.
THEOREM CircleNeedsExtension == Spec => []CircleHasExtension
<1>1. IInv => CircleHasExtension
  <2>. SUFFICES ASSUME IInv, NEW s \in Requests, Has(s, "address"), Wants(s, "write")
                PROVE  KindOf[s] = "extend"
    BY DEF CircleHasExtension
  <2>1. Locks(s) \in Shapes /\ held[s] \in 0 .. Len(Locks(s))
    BY LocksShape DEF IInv, Places
  <2>2. Locks(s) = <<"address", "write">>
    BY <2>1 DEF Has, Wants, HasAll, Shapes
  <2>3. KindOf[s] \in Kinds /\ phase[s] \in 1 .. Len(Phases(KindOf[s]))
    BY RequestAssumption DEF IInv, Places
  <2>. QED BY <2>2, <2>3, OnlyExtension DEF Locks
<1>. QED BY <1>1, Invariant, PTL
=============================================================================
