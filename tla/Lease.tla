------------------------------- MODULE Lease -------------------------------
(***************************************************************************)
(* The scheduler lease: one row naming the process that may schedule, and  *)
(* the `cronova serve` processes that acquire it, renew it every Period,   *)
(* park in standby until it expires, and give it up.                       *)
(*                                                                         *)
(* Every process compares the expiry with its own clock; Ahead says by how *)
(* much each clock is ahead of true time.  Time is a set of countdowns: the*)
(* lease has `left` ticks until the expiry its holder wrote, and `timer`   *)
(* counts down a start-up, the next renewal, the next try of a standby, or *)
(* what is left of the TTL during an insert.                               *)
(* A holder id names one process: when it dies its row belongs to nobody.  *)
(***************************************************************************)
EXTENDS Naturals

CONSTANTS
    Inst,        \* hosts on which a scheduler may run
    Standby,     \* those started with -standby
    TTL, Period, \* leaseTTL and leaseTTL/3
    MaxStartup,  \* longest undisturbed start-up between acquiring and Run
    Ahead, Skew, \* clock of each host, and a bound on it
    NoOne, Ghost \* no row; a row of a process that is gone

ASSUME LeaseConstants ==
    /\ Standby \subseteq Inst
    /\ TTL \in Nat /\ Period \in Nat /\ MaxStartup \in Nat /\ Skew \in Nat
    /\ Ahead \in [Inst -> 0..Skew]
    /\ Period + MaxStartup + Skew < TTL
    /\ NoOne \notin Inst /\ Ghost \notin Inst /\ NoOne # Ghost

VARIABLES
    lease,  \* scheduler_lease: holder, and ticks until its expiry
    phase,  \* what each host's process is doing
    timer,
    faulty  \* history: a renewal failed, or something came later than it should

vars == <<lease, phase, timer, faulty>>

Phase == {"off", "insert", "parked", "starting", "active", "stopping"}

TypeOK ==
    /\ lease \in [by : Inst \cup {NoOne, Ghost}, left : 0..(TTL + Skew)]
    /\ phase \in [Inst -> Phase]
    /\ timer \in [Inst -> 0..TTL]
    /\ faulty \in BOOLEAN

Init ==
    /\ lease = [by |-> NoOne, left |-> 0]
    /\ phase = [i \in Inst |-> "off"]
    /\ timer = [i \in Inst |-> 0]
    /\ faulty = FALSE

Goto(i, p, t) == phase' = [phase EXCEPT ![i] = p] /\ timer' = [timer EXCEPT ![i] = t]

\* The expiry i writes is TTL, or what a transaction left of it, from now by
\* its own clock.
Written(i, ttl) == [by |-> i, left |-> ttl + Ahead[i]]

-----------------------------------------------------------------------------
(* Acquiring.                                                              *)

\* Mutant: only the own lease may be taken over.
ExpiredOwn(i) == lease.by = i

\* The expiry is not after now, by the clock of i.
Expired(i) == lease.left <= Ahead[i]

\* ErrLeaseHeld: a standby parks, any other process exits.
Held(i) == IF i \in Standby THEN Goto(i, "parked", Period) ELSE Goto(i, "off", 0)

\* The row is read under a lock; without a row there is nothing to lock, and
\* the insert is a step of its own, with the expiry computed before.
AcquireLease(i) ==
    /\ \/ lease.by = NoOne /\ Goto(i, "insert", TTL) /\ UNCHANGED lease
       \/ /\ lease.by # NoOne /\ Expired(i)
          /\ lease' = Written(i, TTL) /\ Goto(i, "starting", MaxStartup)
       \/ lease.by # NoOne /\ ~Expired(i) /\ Held(i) /\ UNCHANGED lease
    /\ UNCHANGED faulty

Serve(i) == phase[i] = "off" /\ AcquireLease(i)

Park(i) == phase[i] = "parked" /\ timer[i] = 0 /\ AcquireLease(i)

\* ON CONFLICT DO NOTHING tells the loser of the race.
Insert(i) ==
    /\ phase[i] = "insert"
    /\ IF lease.by = NoOne
       THEN lease' = Written(i, timer[i]) /\ Goto(i, "starting", MaxStartup)
       ELSE Held(i) /\ UNCHANGED lease
    /\ UNCHANGED faulty

\* Any other error of the store ends the process; so does a signal while parked.
GiveUp(i) ==
    /\ phase[i] \in {"insert", "parked"}
    /\ Goto(i, "off", 0)
    /\ UNCHANGED <<lease, faulty>>

-----------------------------------------------------------------------------
(* Holding.                                                                *)

\* The heartbeat starts with the scheduler, not with the acquisition.
Run(i) ==
    /\ phase[i] = "starting"
    /\ Goto(i, "active", Period)
    /\ UNCHANGED <<lease, faulty>>

\* Mutant: whoever holds the lease, the row is extended.
RenewAny(i) ==
    /\ phase[i] = "active" /\ timer[i] = 0
    /\ lease' = [by |-> lease.by, left |-> TTL + Ahead[i]] /\ Goto(i, "active", Period)
    /\ UNCHANGED faulty

\* A lost lease cancels the scheduler's context.
RenewLease(i) ==
    /\ phase[i] = "active" /\ timer[i] = 0
    /\ IF lease.by = i
       THEN lease' = Written(i, TTL) /\ Goto(i, "active", Period)
       ELSE Goto(i, "stopping", 0) /\ UNCHANGED lease
    /\ UNCHANGED faulty

\* A renewal that fails is logged and tried again at the next beat.
RenewFails(i) ==
    /\ phase[i] = "active" /\ timer[i] = 0
    /\ Goto(i, "active", Period)
    /\ faulty' = TRUE
    /\ UNCHANGED lease

\* A signal, a failed start-up or a failed console ends scheduling.
Stop(i) ==
    /\ phase[i] \in {"starting", "active"}
    /\ Goto(i, "stopping", 0)
    /\ UNCHANGED <<lease, faulty>>

\* Mutant: the row is dropped whoever holds it.
ReleaseAny(i) == [by |-> NoOne, left |-> 0]

ReleaseLease(i) == IF lease.by = i THEN [by |-> NoOne, left |-> 0] ELSE lease

Abandoned(i) == IF lease.by = i THEN [by |-> Ghost, left |-> lease.left] ELSE lease

\* The deferred release, once everything in flight has let go; it may fail.
Exit(i) ==
    /\ phase[i] = "stopping"
    /\ lease' \in {ReleaseLease(i), Abandoned(i)}
    /\ Goto(i, "off", 0)
    /\ UNCHANGED faulty

Crash(i) ==
    /\ phase[i] # "off"
    /\ lease' = Abandoned(i)
    /\ Goto(i, "off", 0)
    /\ UNCHANGED faulty

-----------------------------------------------------------------------------
Less(n) == IF n > 0 THEN n - 1 ELSE 0

\* An insert under way, or a start-up or a renewal whose time is up.
Late == \E i \in Inst : \/ phase[i] = "insert"
                        \/ phase[i] \in {"starting", "active"} /\ timer[i] = 0

\* Time passes.
Tick ==
    /\ lease' = [by |-> lease.by, left |-> Less(lease.left)]
    /\ timer' = [i \in Inst |-> Less(timer[i])]
    /\ faulty' = (faulty \/ Late)
    /\ UNCHANGED phase

Step(i) ==
    \/ Serve(i) \/ Park(i) \/ Insert(i) \/ GiveUp(i) \/ Run(i)
    \/ RenewLease(i) \/ RenewFails(i) \/ Stop(i) \/ Exit(i) \/ Crash(i)

Next == Tick \/ \E i \in Inst : Step(i)

Spec == Init /\ [][Next]_vars

\* Time passes, transactions end, a parked process keeps trying, renewals keep
\* being tried and do not fail for ever.  Nothing is assumed of people starting
\* or stopping schedulers, or of crashes.
Fairness ==
    /\ WF_vars(Tick)
    /\ \A i \in Inst : WF_vars(Insert(i)) /\ WF_vars(Park(i)) /\ WF_vars(Run(i))
                       /\ WF_vars(Exit(i)) /\ SF_vars(RenewLease(i))

FairSpec == Spec /\ Fairness

-----------------------------------------------------------------------------
(* Properties.                                                             *)

Scheduling == {i \in Inst : phase[i] = "active"}

\* Two processes never schedule at once while start-ups and renewals keep to
\* their times: tasks are not dispatched twice, however processes crash, stop
\* and race for the lease, and whatever their clocks within Skew.
OneScheduler == ~faulty => \A i, j \in Scheduling : i = j

\* When renewals did fail and another process took over, the old one finds
\* out and stops: the overlap ends.
LoserStops ==
    \A i \in Inst : phase[i] = "active" /\ lease.by # i ~> phase[i] # "active"

\* The lease of a process that died does not stay in the way of a standby.
Takeover ==
    \A i \in Standby : phase[i] = "parked" /\ lease.by = Ghost
                         ~> lease.by # Ghost \/ phase[i] # "parked"

-----------------------------------------------------------------------------
(* The inductive invariant behind OneScheduler.                            *)

\* Who has acquired the lease and is on time owns the row, and the expiry is
\* further away, for every clock, than its own next renewal.
OwnerOnTime ==
    ~faulty => \A i \in Inst :
        /\ phase[i] = "insert" => timer[i] = TTL
        /\ phase[i] = "starting" =>
             /\ lease.by = i /\ timer[i] <= MaxStartup
             /\ lease.left + MaxStartup >= TTL + Ahead[i] + timer[i]
        /\ phase[i] = "active" =>
             /\ lease.by = i /\ timer[i] <= Period
             /\ lease.left + MaxStartup + Period >= TTL + Ahead[i] + timer[i]

\* Types, and who is on time owns a lease that outlasts its next renewal: the
\* TTL of main.go leaves room for a start-up, a period and the clocks.
LeaseInv == TypeOK /\ OwnerOnTime
=============================================================================
