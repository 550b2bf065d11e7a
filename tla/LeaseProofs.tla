----------------------------- MODULE LeaseProofs -----------------------------
(***************************************************************************)
(* At most one process schedules, for every number of hosts, every TTL,    *)
(* renewal period and start-up time, and all clocks within Skew.           *)
(*                                                                         *)
(* A process that acquired the lease and keeps to its times finds the      *)
(* expiry it wrote always further away than its next renewal, by more than *)
(* the clocks can differ; so nobody may take the lease meanwhile, and the  *)
(* row names it: two of them would both be named.                          *)
(***************************************************************************)
EXTENDS Lease, TLAPS

\* Initially nobody holds anything.
LEMMA InitInv == Init => LeaseInv
<1> SUFFICES ASSUME Init PROVE LeaseInv
  OBVIOUS
<1>1. 0 \in 0..TTL /\ 0 \in 0..(TTL + Skew)
  BY LeaseConstants
<1>2. TypeOK
  BY <1>1 DEF Init, TypeOK, Phase
<1>3. OwnerOnTime
  BY DEF Init, OwnerOnTime
<1> QED
  BY <1>2, <1>3 DEF LeaseInv

\* A process that keeps to its times owns a lease nobody finds expired.
LEMMA OwnerSafe ==
  ASSUME LeaseInv, ~faulty, NEW i \in Inst, phase[i] \in {"starting", "active"}, NEW j \in Inst
  PROVE  lease.by = i /\ lease.by # NoOne /\ ~Expired(j)
<1>1. Ahead[i] \in 0..Skew /\ Ahead[j] \in 0..Skew
  BY LeaseConstants
<1>2. timer[i] \in Nat /\ lease.left \in Nat /\ lease.by = i
  BY LeaseConstants DEF LeaseInv, TypeOK, OwnerOnTime
<1>3. lease.left + MaxStartup + Period >= TTL + Ahead[i] + timer[i]
  BY <1>1, <1>2, LeaseConstants DEF LeaseInv, OwnerOnTime
<1>4. lease.left > Skew
  BY <1>1, <1>2, <1>3, LeaseConstants
<1>5. lease.by # NoOne
  BY <1>2, LeaseConstants
<1> QED
  BY <1>1, <1>2, <1>4, <1>5, LeaseConstants DEF Expired

\* i acquires the lease while nobody else holds it on time.
LEMMA TakeInv ==
  ASSUME LeaseInv, NEW i \in Inst,
         NEW ttl \in 0..TTL, ~faulty => ttl = TTL,
         lease' = Written(i, ttl), Goto(i, "starting", MaxStartup), UNCHANGED faulty,
         ~faulty => \A k \in Inst : phase[k] \notin {"starting", "active"}
  PROVE  LeaseInv'
<1>1. Written(i, ttl) \in [by : Inst \cup {NoOne, Ghost}, left : 0..(TTL + Skew)]
  BY LeaseConstants DEF Written
<1>2. TypeOK'
  BY <1>1, LeaseConstants DEF LeaseInv, TypeOK, Goto, Phase
<1>3. OwnerOnTime'
  <2> SUFFICES ASSUME ~faulty PROVE OwnerOnTime'
    BY DEF OwnerOnTime
  <2>1. Ahead[i] \in Nat /\ lease'.by = i /\ lease'.left = TTL + Ahead[i]
    BY LeaseConstants DEF Written
  <2>2. phase'[i] = "starting" /\ timer'[i] = MaxStartup
    BY DEF LeaseInv, TypeOK, Goto
  <2>3. \A k \in Inst \ {i} :
          phase'[k] = phase[k] /\ timer'[k] = timer[k] /\ phase[k] \notin {"starting", "active"}
    BY DEF LeaseInv, TypeOK, Goto
  <2> QED
    BY <2>1, <2>2, <2>3, LeaseConstants DEF LeaseInv, OwnerOnTime
<1> QED
  BY <1>2, <1>3 DEF LeaseInv

\* i leaves for a phase in which it holds nothing; the row stays with others.
LEMMA LeaveInv ==
  ASSUME LeaseInv, NEW i \in Inst,
         NEW p \in {"off", "insert", "parked", "stopping"}, NEW t \in 0..TTL,
         p = "insert" => t = TTL,
         Goto(i, p, t), UNCHANGED faulty,
         lease' \in [by : Inst \cup {NoOne, Ghost}, left : 0..(TTL + Skew)],
         ~faulty => \A k \in Inst \ {i} : phase[k] \in {"starting", "active"} => lease' = lease
  PROVE  LeaseInv'
<1>1. TypeOK'
  BY LeaseConstants DEF LeaseInv, TypeOK, Goto, Phase
<1>2. OwnerOnTime'
  BY LeaseConstants DEF LeaseInv, TypeOK, OwnerOnTime, Goto
<1> QED
  BY <1>1, <1>2 DEF LeaseInv

LEMMA HeldInv ==
  ASSUME LeaseInv, NEW i \in Inst, phase[i] \notin {"starting", "active"},
         Held(i), UNCHANGED <<lease, faulty>>
  PROVE  LeaseInv'
<1>1. lease' \in [by : Inst \cup {NoOne, Ghost}, left : 0..(TTL + Skew)]
  BY DEF LeaseInv, TypeOK
<1>2. CASE i \in Standby
  <2>1. Goto(i, "parked", Period) /\ Period \in 0..TTL
    BY <1>2, LeaseConstants DEF Held
  <2> QED
    BY <1>1, <2>1, LeaveInv
<1>3. CASE i \notin Standby
  <2>1. Goto(i, "off", 0) /\ 0 \in 0..TTL
    BY <1>3, LeaseConstants DEF Held
  <2> QED
    BY <1>1, <2>1, LeaveInv
<1> QED
  BY <1>2, <1>3

LEMMA AcquireInv ==
  ASSUME LeaseInv, NEW i \in Inst, phase[i] \notin {"starting", "active"}, AcquireLease(i)
  PROVE  LeaseInv'
<1>0. lease \in [by : Inst \cup {NoOne, Ghost}, left : 0..(TTL + Skew)] /\ TTL \in 0..TTL
  BY LeaseConstants DEF LeaseInv, TypeOK
<1>1. CASE lease.by = NoOne /\ Goto(i, "insert", TTL) /\ UNCHANGED <<lease, faulty>>
  BY <1>0, <1>1, LeaveInv
<1>2. CASE lease.by # NoOne /\ Expired(i) /\ lease' = Written(i, TTL)
             /\ Goto(i, "starting", MaxStartup) /\ UNCHANGED faulty
  <2>1. ~faulty => \A k \in Inst : phase[k] \notin {"starting", "active"}
    BY <1>2, OwnerSafe
  <2> QED
    BY <1>2, <2>1, TakeInv, LeaseConstants
<1>3. CASE lease.by # NoOne /\ ~Expired(i) /\ Held(i) /\ UNCHANGED <<lease, faulty>>
  BY <1>3, HeldInv
<1> QED
  BY <1>1, <1>2, <1>3 DEF AcquireLease

LEMMA InsertInv ==
  ASSUME LeaseInv, NEW i \in Inst, Insert(i)
  PROVE  LeaseInv'
<1>1. CASE lease.by = NoOne
  <2>1. ~faulty => \A k \in Inst : phase[k] \notin {"starting", "active"}
    BY <1>1, OwnerSafe
  <2>2. timer[i] \in 0..TTL /\ (~faulty => timer[i] = TTL)
    BY DEF Insert, LeaseInv, TypeOK, OwnerOnTime
  <2> QED
    BY <1>1, <2>1, <2>2, TakeInv DEF Insert
<1>2. CASE lease.by # NoOne
  BY <1>2, HeldInv DEF Insert
<1> QED
  BY <1>1, <1>2

\* The scheduler begins, with what is left of its first lease.
LEMMA RunInv ==
  ASSUME LeaseInv, NEW i \in Inst, Run(i)
  PROVE  LeaseInv'
<1>1. TypeOK'
  BY LeaseConstants DEF LeaseInv, TypeOK, Run, Goto, Phase
<1>2. OwnerOnTime'
  <2> SUFFICES ASSUME ~faulty PROVE OwnerOnTime'
    BY DEF Run, OwnerOnTime
  <2>1. phase'[i] = "active" /\ timer'[i] = Period /\ lease' = lease
    BY DEF LeaseInv, TypeOK, Run, Goto
  <2>2. \A k \in Inst \ {i} : phase'[k] = phase[k] /\ timer'[k] = timer[k]
    BY DEF LeaseInv, TypeOK, Run, Goto
  <2>3. Ahead[i] \in Nat /\ timer[i] \in Nat /\ lease.left \in Nat
    BY LeaseConstants DEF LeaseInv, TypeOK
  <2>4. lease.by = i /\ lease.left + MaxStartup >= TTL + Ahead[i] + timer[i]
    BY DEF Run, LeaseInv, OwnerOnTime
  <2>5. lease.left + MaxStartup + Period >= TTL + Ahead[i] + Period
    BY <2>3, <2>4, LeaseConstants
  <2> QED
    BY <2>1, <2>2, <2>4, <2>5, LeaseConstants DEF LeaseInv, OwnerOnTime
<1> QED
  BY <1>1, <1>2 DEF LeaseInv

LEMMA RenewInv ==
  ASSUME LeaseInv, NEW i \in Inst, RenewLease(i) \/ RenewFails(i)
  PROVE  LeaseInv'
<1>1. Written(i, TTL) \in [by : Inst \cup {NoOne, Ghost}, left : 0..(TTL + Skew)]
  BY LeaseConstants DEF Written
<1>2. TypeOK'
  <2>1. Period \in 0..TTL /\ 0 \in 0..TTL
    BY LeaseConstants
  <2>2. (Goto(i, "active", Period) \/ Goto(i, "stopping", 0)) /\ lease' \in {lease, Written(i, TTL)}
    BY DEF RenewLease, RenewFails
  <2>3. phase' \in [Inst -> Phase] /\ timer' \in [Inst -> 0..TTL]
    BY <2>1, <2>2 DEF LeaseInv, TypeOK, Goto, Phase
  <2>4. lease' \in [by : Inst \cup {NoOne, Ghost}, left : 0..(TTL + Skew)]
    BY <1>1, <2>2 DEF LeaseInv, TypeOK
  <2>5. faulty' \in BOOLEAN
    BY DEF LeaseInv, TypeOK, RenewLease, RenewFails
  <2> QED
    BY <2>3, <2>4, <2>5 DEF TypeOK
<1>3. CASE RenewFails(i)
  BY <1>2, <1>3 DEF RenewFails, LeaseInv, OwnerOnTime
<1>4. CASE RenewLease(i) /\ lease.by = i
  <2>1. OwnerOnTime'
    <3> SUFFICES ASSUME ~faulty PROVE OwnerOnTime'
      BY <1>4 DEF RenewLease, OwnerOnTime
    <3>1. phase'[i] = "active" /\ timer'[i] = Period
      BY <1>4 DEF LeaseInv, TypeOK, RenewLease, Goto
    <3>2. Ahead[i] \in Nat /\ lease'.by = i /\ lease'.left = TTL + Ahead[i]
      BY <1>4, LeaseConstants DEF RenewLease, Written
    <3>3. \A k \in Inst \ {i} : phase'[k] = phase[k] /\ timer'[k] = timer[k]
      BY <1>4 DEF LeaseInv, TypeOK, RenewLease, Goto
    <3>4. \A k \in Inst \ {i} : phase[k] \notin {"starting", "active"}
      BY <1>4, OwnerSafe
    <3>5. lease'.left + MaxStartup + Period >= TTL + Ahead[i] + timer'[i]
      BY <3>1, <3>2, LeaseConstants
    <3> QED
      BY <3>1, <3>2, <3>3, <3>4, <3>5, LeaseConstants DEF LeaseInv, OwnerOnTime
  <2> QED
    BY <1>2, <2>1 DEF LeaseInv
<1>5. CASE RenewLease(i) /\ lease.by # i
  <2>1. OwnerOnTime'
    BY <1>5, LeaseConstants DEF LeaseInv, TypeOK, OwnerOnTime, RenewLease, Goto
  <2> QED
    BY <1>2, <2>1 DEF LeaseInv
<1> QED
  BY <1>3, <1>4, <1>5

\* Giving up, stopping, releasing and crashing.
LEMMA LeavingInv ==
  ASSUME LeaseInv, NEW i \in Inst, GiveUp(i) \/ Stop(i) \/ Exit(i) \/ Crash(i)
  PROVE  LeaseInv'
<1>1. /\ lease \in [by : Inst \cup {NoOne, Ghost}, left : 0..(TTL + Skew)]
      /\ ReleaseLease(i) \in [by : Inst \cup {NoOne, Ghost}, left : 0..(TTL + Skew)]
      /\ Abandoned(i) \in [by : Inst \cup {NoOne, Ghost}, left : 0..(TTL + Skew)]
      /\ 0 \in 0..TTL
  BY LeaseConstants DEF LeaseInv, TypeOK, ReleaseLease, Abandoned
<1>2. ~faulty => \A k \in Inst \ {i} : phase[k] \in {"starting", "active"} =>
        ReleaseLease(i) = lease /\ Abandoned(i) = lease
  BY OwnerSafe DEF ReleaseLease, Abandoned
<1>3. lease' \in {lease, ReleaseLease(i), Abandoned(i)} /\ UNCHANGED faulty
  BY DEF GiveUp, Stop, Exit, Crash
<1>4. Goto(i, "off", 0) \/ Goto(i, "stopping", 0)
  BY DEF GiveUp, Stop, Exit, Crash
<1>5. CASE Goto(i, "off", 0)
  BY <1>1, <1>2, <1>3, <1>5, LeaveInv
<1>6. CASE Goto(i, "stopping", 0)
  BY <1>1, <1>2, <1>3, <1>6, LeaveInv
<1> QED
  BY <1>4, <1>5, <1>6

\* A tick takes one from the expiry and one from every countdown.
LEMMA TickInv ==
  ASSUME LeaseInv, Tick
  PROVE  LeaseInv'
<1>1. lease'.by = lease.by /\ lease'.left = Less(lease.left)
  BY DEF Tick, LeaseInv, TypeOK
<1>2. TypeOK'
  BY LeaseConstants DEF LeaseInv, TypeOK, Tick, Less
<1>3. OwnerOnTime'
  <2> SUFFICES ASSUME ~faulty' PROVE OwnerOnTime'
    BY DEF OwnerOnTime
  <2>1. ~faulty /\ phase' = phase
    BY DEF Tick
  <2>2. ASSUME NEW i \in Inst, phase[i] \in {"starting", "active"}
        PROVE  /\ timer[i] \in Nat /\ lease.left \in Nat /\ Ahead[i] \in Nat
               /\ timer'[i] = timer[i] - 1 /\ lease'.left = lease.left - 1
    <3>1. timer[i] # 0
      BY <2>2 DEF Tick, Late
    <3>2. timer[i] \in Nat /\ lease.left \in Nat /\ Ahead[i] \in Nat
      BY LeaseConstants DEF LeaseInv, TypeOK
    <3>3. timer'[i] = timer[i] - 1
      BY <3>1, <3>2 DEF Tick, Less
    <3>4. ~Expired(i)
      BY <2>1, <2>2, OwnerSafe
    <3> QED
      BY <1>1, <3>2, <3>3, <3>4 DEF Expired, Less
  <2>3. \A i \in Inst : phase[i] # "insert"
    BY DEF Tick, Late
  <2> QED
    BY <1>1, <2>1, <2>2, <2>3, LeaseConstants DEF LeaseInv, OwnerOnTime
<1> QED
  BY <1>2, <1>3 DEF LeaseInv

LEMMA NextInv == LeaseInv /\ [Next]_vars => LeaseInv'
<1> SUFFICES ASSUME LeaseInv, [Next]_vars PROVE LeaseInv'
  OBVIOUS
<1>1. CASE UNCHANGED vars
  BY <1>1 DEF vars, LeaseInv, TypeOK, OwnerOnTime
<1>2. CASE Tick
  BY <1>2, TickInv
<1>3. ASSUME NEW i \in Inst, Step(i) PROVE LeaseInv'
  <2>1. CASE Serve(i) \/ Park(i)
    BY <2>1, AcquireInv DEF Serve, Park
  <2>2. CASE Insert(i)
    BY <2>2, InsertInv
  <2>3. CASE Run(i)
    BY <2>3, RunInv
  <2>4. CASE RenewLease(i) \/ RenewFails(i)
    BY <2>4, RenewInv
  <2>5. CASE GiveUp(i) \/ Stop(i) \/ Exit(i) \/ Crash(i)
    BY <2>5, LeavingInv
  <2> QED
    BY <1>3, <2>1, <2>2, <2>3, <2>4, <2>5 DEF Step
<1> QED
  BY <1>1, <1>2, <1>3 DEF Next

\* The countdowns of the lease, of start-ups and of renewals stay in step.
THEOREM LeaseInvariant == Spec => []LeaseInv
BY InitInv, NextInv, PTL DEF Spec

\* While start-ups and renewals keep to their times no two processes schedule.
THEOREM SingleScheduler == Spec => []OneScheduler
<1>1. LeaseInv => OneScheduler
  <2> SUFFICES ASSUME LeaseInv, ~faulty, NEW i \in Scheduling, NEW j \in Scheduling
               PROVE  i = j
    BY DEF OneScheduler
  <2>1. lease.by = i /\ lease.by = j
    BY OwnerSafe DEF Scheduling
  <2> QED
    BY <2>1
<1> QED
  BY <1>1, LeaseInvariant, PTL
=============================================================================
