-------------------------- MODULE AsyncPoolProofs --------------------------
(***************************************************************************)
(* Proofs about AsyncPool for every number of connections, every queue     *)
(* capacity and every set of requests.                                     *)
(*                                                                         *)
(* The handlers of the scheduler first compute new slots, requests and     *)
(* queue and then call pump, so the invariant is stated on such triples    *)
(* (Discipline, QueueSound, Serving) and Pump is shown to keep it once.    *)
(* Two more invariants stand on it: what a request's record may claim      *)
(* (Honesty) and how far a shutdown is (Orderly).                          *)
(*                                                                         *)
(* The last part shows that the pool implements Pool.  With what an        *)
(* abstract step needs beside the invariants (Fit) every step but a        *)
(* helper's does one of a few things to each slot (Stays, Lends), to each  *)
(* request (Moves) and to the pool (Advances), and whatever does only      *)
(* those things is a step of Pool; the steps of a helper (Works), the only *)
(* ones on which work begins or returns, are shown to be one directly.     *)
(***************************************************************************)
EXTENDS AsyncPool, FiniteSetTheorems, SequenceTheorems, WellFoundedInduction, TLAPS

(* The inductive invariant.                                                 *)

\* LeaseDiscipline of one slot.
SlotDiscipline(slot, rq) ==
    /\ slot.owner = "none" <=> slot.state \in {"Needs_connect", "Connecting", "Closed"}
    /\ slot.job # "none" <=> slot.state = "Leased"
    /\ slot.state \in {"Idle", "Closed", "Close_failed"} => slot.lease = NoRequest
    /\ slot.state = "Leased" => slot.lease # NoRequest
    /\ slot.lease # NoRequest =>
        /\ slot.state = "Leased" => rq[slot.lease].state = "Dispatched"
        /\ slot.state # "Leased" => rq[slot.lease].state = "Settling"
                                    /\ rq[slot.lease].outcome # NoOutcome

Discipline(sl, rq) ==
    /\ \A s \in Slots : SlotDiscipline(sl[s], rq)
    /\ \A r \in Requests :
        rq[r].state \in {"Dispatched", "Settling"} <=> \E s \in Slots : sl[s].lease = r
    /\ \A s, t \in Slots : s # t /\ sl[s].lease = sl[t].lease => sl[s].lease = NoRequest

\* The maintenance helper works on the one slot that is Closing or Connecting, and
\* on the database once no slot has work left.
Serving(sl, mt) ==
    \A s \in Slots :
        /\ sl[s].state = "Closing" <=> mt.job = "close" /\ mt.slot = s
        /\ sl[s].state = "Connecting" <=> mt.job = "connect" /\ mt.slot = s
        /\ mt.job = "close_database" => sl[s].state \in {"Closed", "Close_failed"}

\* The queue holds exactly the queued requests, each once.
QueueSound(q, rq) ==
    /\ \A i, j \in 1..Len(q) : q[i] = q[j] => i = j
    /\ \A r \in Requests : rq[r].state = "Queued" <=> \E i \in 1..Len(q) : q[i] = r

NoIdle(q, sl) == q # <<>> => \A s \in Slots : sl[s].state # "Idle"

\* pump leaves nothing to do.
Pumped(sl, mt, lc) ==
    mt.job = "none" => Needing(sl) = {} /\ ~(lc = "Stopping" /\ AllClosed(sl))

IInv ==
    /\ TypeOK
    /\ Discipline(slots, requests)
    /\ Serving(slots, maintenance)
    /\ QueueSound(queue, requests)
    /\ NoIdle(queue, slots)
    /\ Pumped(slots, maintenance, lifecycle)

-----------------------------------------------------------------------------
(* Helpers.                                                                 *)

\* List.find returns one of the slots it is asked about.
LEMMA MinIsMember ==
    ASSUME NEW S \in SUBSET Slots, S # {}
    PROVE  Min(S) \in S
<1>1. S \subseteq Nat
  BY LimitsAssumption DEF Slots
<1>. DEFINE Less == {p \in Nat \X Nat : p[1] < p[2]}
<1>2. IsWellFoundedOn(Less, Nat)
  BY NatLessThanWellFounded DEF OpToRel
<1>3. PICK x \in S : \A y \in S : ~(<<y, x>> \in Less)
  BY <1>1, <1>2, WFMin
<1>4. ASSUME NEW y \in S
      PROVE  x <= y
  <2>1. <<y, x>> \in Nat \X Nat /\ <<y, x>>[1] = y /\ <<y, x>>[2] = x
    BY <1>1
  <2>2. ~(y < x)
    BY <1>3, <2>1
  <2>. QED
    BY <1>1, <2>2
<1>. QED
  BY <1>4 DEF Min

\* The jobs pump can leave behind when no slot needs it are jobs of the helper.
LEMMA NoJobType == NoJob \in Maintenance /\ [NoJob EXCEPT !.job = "close_database"] \in Maintenance
<1>1. 1 \in Slots
  BY LimitsAssumption DEF Slots
<1>. QED
  BY <1>1 DEF NoJob, Maintenance

-----------------------------------------------------------------------------
(* pump keeps the invariant of what it is given and leaves nothing to do.   *)

\* pump chooses at most one job, gives it to the helper only when that is free,
\* and closes the database only when every slot is closed.
LEMMA PumpKeeps ==
    ASSUME NEW sl \in [Slots -> Slot], NEW lc, NEW busy \in Maintenance, NEW rq,
           Discipline(sl, rq), Serving(sl, busy), Pump(sl, lc, busy)
    PROVE  /\ slots' \in [Slots -> Slot]
           /\ maintenance' \in Maintenance
           /\ Discipline(slots', rq)
           /\ Serving(slots', maintenance')
           /\ Pumped(slots', maintenance', lc)
           /\ \A s \in Slots : slots'[s].state = "Idle" => sl[s].state = "Idle"
<1>1. CASE busy.job # "none"
  <2>1. slots' = sl /\ maintenance' = busy
    BY <1>1 DEF Pump
  <2>. QED
    BY <1>1, <2>1 DEF Pumped
<1>2. CASE busy.job = "none" /\ Needing(sl) # {}
  <2>. DEFINE s == Min(Needing(sl))
              close == sl[s].state = "Needs_close"
              next == IF close THEN "Closing" ELSE "Connecting"
  <2>1. s \in Slots /\ sl[s].state \in {"Needs_close", "Needs_connect"}
    BY <1>2, MinIsMember DEF Needing
  <2>2. /\ slots' = [sl EXCEPT ![s].state = next]
        /\ maintenance' = [job |-> IF close THEN "close" ELSE "connect",
                           slot |-> s, result |-> "pending"]
    BY <1>2 DEF Pump, MaintenanceJob
  <2>. HIDE DEF s
  <2>3. /\ slots' \in [Slots -> Slot]
        /\ maintenance' \in Maintenance
    BY <2>1, <2>2 DEF Slot, SlotStates, Maintenance
  <2>4. /\ \A t \in Slots : t # s => slots'[t] = sl[t]
        /\ slots'[s].state = next /\ slots'[s].owner = sl[s].owner
        /\ slots'[s].lease = sl[s].lease /\ slots'[s].job = sl[s].job
    BY <2>1, <2>2 DEF Slot
  <2>5. Discipline(slots', rq)
    BY <2>1, <2>4 DEF Discipline, SlotDiscipline
  <2>6. Serving(slots', maintenance')
    BY <1>2, <2>1, <2>2, <2>4 DEF Serving
  <2>7. Pumped(slots', maintenance', lc)
    BY <2>2 DEF Pumped
  <2>. QED
    BY <2>1, <2>3, <2>4, <2>5, <2>6, <2>7
<1>3. CASE busy.job = "none" /\ Needing(sl) = {}
  <2>1. /\ slots' = sl
        /\ maintenance' = IF lc = "Stopping" /\ AllClosed(sl)
                          THEN [NoJob EXCEPT !.job = "close_database"] ELSE NoJob
    BY <1>3 DEF Pump
  <2>2. maintenance' \in Maintenance /\ maintenance'.job \in {"none", "close_database"}
    BY <2>1, NoJobType DEF NoJob
  <2>3. Serving(slots', maintenance')
    BY <1>3, <2>1, <2>2 DEF Serving, AllClosed, NoJob
  <2>4. Pumped(slots', maintenance', lc)
    BY <1>3, <2>1 DEF Pumped, NoJob
  <2>. QED
    BY <2>1, <2>2, <2>3, <2>4
<1>. QED
  BY <1>1, <1>2, <1>3

-----------------------------------------------------------------------------
(* finish, add_lease_cleanup and stop.                                      *)

\* finish publishes a result of the result type whatever the latch says.
LEMMA FinishType ==
    ASSUME NEW r \in Request, NEW result \in Outcomes \cup {"Pool_shutdown"}
    PROVE  /\ Finish(r, result) \in Request
           /\ Finish(r, result).state = "Finished"
<1>1. Classify(r, result) \in Results
  BY DEF Classify, Results, Outcomes
<1>. QED
  BY <1>1 DEF Finish, Request, RequestStates

\* Latching a request changes nothing else about it.
LEMMA LatchType ==
    ASSUME NEW r \in Request
    PROVE  /\ Latch(r) \in Request
           /\ Latch(r).state = r.state
           /\ Latch(r).outcome = r.outcome
  BY DEF Latch, Request

\* Slot s gives up the lease it had in sl; no other slot changes.
Releases(sl, s, sl2) ==
    /\ sl[s].state # "Leased"
    /\ sl2 \in [Slots -> Slot]
    /\ sl2[s].lease = NoRequest /\ sl2[s].job = "none" /\ sl2[s].state # "Leased"
    /\ sl2[s].owner = "none" <=> sl2[s].state \in {"Needs_connect", "Connecting", "Closed"}
    /\ \A t \in Slots : t # s => sl2[t] = sl[t]

\* finish_lease publishes the request of a slot that settled and keeps the
\* discipline when the slot goes to a state without a lease.
LEMMA FinishLeaseKeeps ==
    ASSUME NEW sl \in [Slots -> Slot], NEW rq \in [Requests -> Request],
           NEW s \in Slots, NEW sl2, Discipline(sl, rq), Releases(sl, s, sl2)
    PROVE  /\ FinishLease(sl, rq, s) \in [Requests -> Request]
           /\ Discipline(sl2, FinishLease(sl, rq, s))
           /\ \A r \in Requests : FinishLease(sl, rq, s)[r].state = "Queued"
                                    <=> rq[r].state = "Queued"
<1>. DEFINE rq2 == FinishLease(sl, rq, s)
<1>. USE DEF Releases
<1>1. ASSUME NEW r \in Requests, r = sl[s].lease
      PROVE  /\ rq2[r] \in Request /\ rq2[r].state = "Finished"
             /\ rq[r].state = "Settling"
  <2>1. rq[r].state = "Settling" /\ rq[r].outcome # NoOutcome
    BY <1>1, LimitsAssumption DEF Discipline, SlotDiscipline
  <2>2. rq[r] \in Request /\ rq[r].outcome \in Outcomes
    BY <2>1 DEF Request
  <2>3. rq2[r] = Finish(rq[r], rq[r].outcome)
    BY <1>1 DEF FinishLease
  <2>. QED
    BY <2>1, <2>2, <2>3, FinishType
<1>2. \A r \in Requests : r # sl[s].lease => rq2[r] = rq[r]
  BY DEF FinishLease
<1>3. rq2 \in [Requests -> Request]
  BY <1>1, <1>2 DEF FinishLease
<1>4. \A t \in Slots : t # s => sl2[t] = sl[t]
  OBVIOUS
<1>. HIDE DEF rq2
<1>5. ASSUME NEW t \in Slots
      PROVE  SlotDiscipline(sl2[t], rq2)
  <2>1. CASE t = s
    BY <2>1, <1>4 DEF SlotDiscipline
  <2>2. CASE t # s
    <3>1. SlotDiscipline(sl[t], rq) /\ sl2[t] = sl[t]
      BY <2>2, <1>4 DEF Discipline
    <3>2. sl[t].lease # NoRequest => sl[t].lease \in Requests /\ sl[t].lease # sl[s].lease
      BY <2>2 DEF Discipline, Slot
    <3>. QED
      BY <3>1, <3>2, <1>2 DEF SlotDiscipline
  <2>. QED
    BY <2>1, <2>2
<1>6. ASSUME NEW r \in Requests
      PROVE  rq2[r].state \in {"Dispatched", "Settling"} <=> \E t \in Slots : sl2[t].lease = r
  <2>1. CASE r = sl[s].lease
    <3>1. \A t \in Slots : sl2[t].lease # r
      BY <2>1, <1>4, LimitsAssumption DEF Discipline
    <3>. QED
      BY <2>1, <3>1, <1>1
  <2>2. CASE r # sl[s].lease
    BY <2>2, <1>2, <1>4, LimitsAssumption DEF Discipline
  <2>. QED
    BY <2>1, <2>2
<1>7. \A t, u \in Slots : t # u /\ sl2[t].lease = sl2[u].lease => sl2[t].lease = NoRequest
  BY <1>4 DEF Discipline
<1>8. Discipline(sl2, rq2)
  BY <1>5, <1>6, <1>7 DEF Discipline
<1>. QED
  BY <1>1, <1>2, <1>3, <1>8 DEF rq2

\* add_lease_cleanup only makes an outcome a failure.
LEMMA AddLeaseCleanupKeeps ==
    ASSUME NEW sl \in [Slots -> Slot], NEW rq \in [Requests -> Request], NEW s \in Slots,
           Discipline(sl, rq)
    PROVE  /\ AddLeaseCleanup(sl, rq, s) \in [Requests -> Request]
           /\ Discipline(sl, AddLeaseCleanup(sl, rq, s))
           /\ \A r \in Requests : AddLeaseCleanup(sl, rq, s)[r].state = rq[r].state
<1>. DEFINE rq2 == AddLeaseCleanup(sl, rq, s)
<1>1. /\ rq2 \in [Requests -> Request]
      /\ \A r \in Requests : /\ rq2[r].state = rq[r].state
                             /\ rq2[r].outcome \in {rq[r].outcome, "Failed"}
  BY DEF AddLeaseCleanup, Request, Outcomes
<1>. HIDE DEF rq2
<1>2. \A t \in Slots : sl[t].lease # NoRequest => sl[t].lease \in Requests
  BY DEF Slot
<1>3. Discipline(sl, rq2)
  BY <1>1, <1>2 DEF Discipline, SlotDiscipline, NoOutcome
<1>. QED
  BY <1>1, <1>3 DEF rq2

\* stop leaves every slot a slot.
LEMMA StopSlotsType ==
    ASSUME NEW sl \in [Slots -> Slot]
    PROVE  StopSlots(sl) \in [Slots -> Slot]
  BY DEF StopSlots, Slot, SlotStates

\* stop: every queued request settles, every leased one is latched and stays with
\* its slot, except that a slot waiting for a replacement gives up its request.
LEMMA StopKeeps ==
    ASSUME NEW sl \in [Slots -> Slot], NEW rq \in [Requests -> Request],
           NEW mt \in Maintenance, queue \in Seq(Requests),
           Discipline(sl, rq), QueueSound(queue, rq), Serving(sl, mt)
    PROVE  /\ StopSlots(sl) \in [Slots -> Slot]
           /\ StopRequests(sl, rq) \in [Requests -> Request]
           /\ Discipline(StopSlots(sl), StopRequests(sl, rq))
           /\ QueueSound(<<>>, StopRequests(sl, rq))
           /\ Serving(StopSlots(sl), mt)
           /\ \A s \in Slots : StopSlots(sl)[s].state # "Idle"
<1>. DEFINE sl2 == StopSlots(sl)
            rq2 == StopRequests(sl, rq)
<1>1. sl2 \in [Slots -> Slot]
  BY StopSlotsType
<1>2. ASSUME NEW s \in Slots
      PROVE  /\ sl2[s].owner = sl[s].owner /\ sl2[s].job = sl[s].job
             /\ sl[s].state = "Idle" => sl2[s].state = "Needs_close"
             /\ sl[s].state = "Needs_connect" =>
                    sl2[s].state = "Closed" /\ sl2[s].lease = NoRequest
             /\ sl[s].state # "Needs_connect" => sl2[s].lease = sl[s].lease
             /\ sl[s].state \notin {"Idle", "Needs_connect"} => sl2[s].state = sl[s].state
  BY DEF StopSlots, Slot
<1>3. ASSUME NEW r \in Requests
      PROVE  /\ rq2[r] \in Request
             /\ rq[r].state = "Queued" => rq2[r].state = "Finished"
             /\ \A s \in Slots : sl[s].lease = r =>
                    IF sl[s].state = "Needs_connect" THEN rq2[r].state = "Finished"
                    ELSE rq2[r].state = rq[r].state /\ rq2[r].outcome = rq[r].outcome
             /\ rq[r].state # "Queued" /\ (\A s \in Slots : sl[s].lease # r) => rq2[r] = rq[r]
  <2>1. Queued(r) <=> rq[r].state = "Queued"
    BY DEF QueueSound, Queued, Contains
  <2>2. rq[r] \in Request
    OBVIOUS
  <2>3. CASE rq[r].state = "Queued"
    <3>1. rq2[r] = Finish(rq[r], "Pool_shutdown")
      BY <2>1, <2>3 DEF StopRequests
    <3>2. \A s \in Slots : sl[s].lease # r
      BY <2>3 DEF Discipline
    <3>. QED
      BY <2>2, <2>3, <3>1, <3>2, FinishType
  <2>4. CASE rq[r].state # "Queued" /\ \E s \in Slots : sl[s].lease = r
    <3>1. PICK s \in Slots : sl[s].lease = r
      BY <2>4
    <3>2. \A t \in Slots : sl[t].lease = r => t = s
      BY <3>1, LimitsAssumption DEF Discipline
    <3>3. HeldBy(sl, r) = {s}
      BY <3>1, <3>2 DEF HeldBy
    <3>4. CASE sl[s].state = "Needs_connect"
      <4>1. rq2[r] = Finish(Latch(rq[r]), rq[r].outcome)
        BY <2>1, <2>4, <3>3, <3>4 DEF StopRequests
      <4>2. rq[r].outcome \in Outcomes
        BY <2>2, <3>1, <3>4, LimitsAssumption DEF Discipline, SlotDiscipline, Request
      <4>. QED
        BY <2>2, <2>4, <3>1, <3>2, <3>4, <4>1, <4>2, FinishType, LatchType
    <3>5. CASE sl[s].state # "Needs_connect"
      <4>1. rq2[r] = Latch(rq[r])
        BY <2>1, <2>4, <3>3, <3>5 DEF StopRequests
      <4>. QED
        BY <2>2, <2>4, <3>1, <3>2, <3>5, <4>1, LatchType
    <3>. QED
      BY <3>4, <3>5
  <2>5. CASE rq[r].state # "Queued" /\ \A s \in Slots : sl[s].lease # r
    <3>1. HeldBy(sl, r) = {}
      BY <2>5 DEF HeldBy
    <3>2. rq2[r] = rq[r]
      BY <2>1, <2>5, <3>1 DEF StopRequests
    <3>. QED
      BY <2>2, <2>5, <3>2
  <2>. QED
    BY <2>3, <2>4, <2>5
<1>4. rq2 \in [Requests -> Request]
  BY <1>3 DEF StopRequests
<1>. HIDE DEF sl2, rq2
<1>5. ASSUME NEW s \in Slots
      PROVE  SlotDiscipline(sl2[s], rq2)
  <2>1. SlotDiscipline(sl[s], rq)
    BY DEF Discipline
  <2>2. sl[s].lease # NoRequest => sl[s].lease \in Requests
    BY DEF Slot
  <2>3. CASE sl[s].state = "Needs_connect"
    BY <1>2, <2>1, <2>3 DEF SlotDiscipline
  <2>4. CASE sl[s].state = "Idle"
    BY <1>2, <2>1, <2>4 DEF SlotDiscipline
  <2>5. CASE sl[s].state \notin {"Idle", "Needs_connect"}
    <3>1. sl[s].lease # NoRequest => /\ rq2[sl[s].lease].state = rq[sl[s].lease].state
                                     /\ rq2[sl[s].lease].outcome = rq[sl[s].lease].outcome
      BY <1>3, <2>2, <2>5
    <3>. QED
      BY <1>2, <2>1, <2>5, <3>1 DEF SlotDiscipline
  <2>. QED
    BY <2>3, <2>4, <2>5
<1>6. ASSUME NEW r \in Requests
      PROVE  rq2[r].state \in {"Dispatched", "Settling"} <=> \E s \in Slots : sl2[s].lease = r
  <2>1. \A s \in Slots : sl2[s].lease = r <=> sl[s].lease = r /\ sl[s].state # "Needs_connect"
    BY <1>2, LimitsAssumption
  <2>2. CASE \E s \in Slots : sl[s].lease = r
    <3>1. PICK s \in Slots : sl[s].lease = r
      BY <2>2
    <3>2. \A t \in Slots : sl[t].lease = r => t = s
      BY <3>1, LimitsAssumption DEF Discipline
    <3>3. rq[r].state \in {"Dispatched", "Settling"}
      BY <3>1 DEF Discipline
    <3>. QED
      BY <1>3, <2>1, <3>1, <3>2, <3>3
  <2>3. CASE \A s \in Slots : sl[s].lease # r
    <3>1. rq[r].state \notin {"Dispatched", "Settling"}
      BY <2>3 DEF Discipline
    <3>. QED
      BY <1>3, <2>1, <2>3, <3>1
  <2>. QED
    BY <2>2, <2>3
<1>7. \A s, t \in Slots : s # t /\ sl2[s].lease = sl2[t].lease => sl2[s].lease = NoRequest
  BY <1>2 DEF Discipline
<1>8. Discipline(sl2, rq2)
  BY <1>5, <1>6, <1>7 DEF Discipline
<1>9. QueueSound(<<>>, rq2)
  <2>1. ASSUME NEW r \in Requests
        PROVE  rq2[r].state # "Queued"
    <3>1. CASE rq[r].state = "Queued"
      BY <1>3, <3>1
    <3>2. CASE rq[r].state # "Queued" /\ \E s \in Slots : sl[s].lease = r
      BY <1>3, <3>2
    <3>3. CASE rq[r].state # "Queued" /\ \A s \in Slots : sl[s].lease # r
      BY <1>3, <3>3
    <3>. QED
      BY <3>1, <3>2, <3>3
  <2>. QED
    BY <2>1 DEF QueueSound
<1>10. Serving(sl2, mt)
  BY <1>2 DEF Serving
<1>11. \A s \in Slots : sl2[s].state # "Idle"
  BY <1>2
<1>. QED
  BY <1>1, <1>4, <1>8, <1>9, <1>10, <1>11 DEF sl2, rq2

-----------------------------------------------------------------------------
(* dispatch and dispatch_waiting.                                           *)

\* dispatch marks the slot and hands its helper the request.
LEMMA DispatchedSlotIs ==
    ASSUME NEW slot \in Slot, NEW r \in Requests
    PROVE  /\ DispatchedSlot(slot, r) \in Slot
           /\ DispatchedSlot(slot, r).state = "Leased"
           /\ DispatchedSlot(slot, r).lease = r
           /\ DispatchedSlot(slot, r).job = "handed"
           /\ DispatchedSlot(slot, r).owner = slot.owner
  BY DEF DispatchedSlot, Slot, SlotStates

\* dispatch: an idle slot s and a request r no slot holds become each other's.
Dispatches(sl, rq, s, r, sl2, rq2) ==
    /\ sl[s].state = "Idle"
    /\ rq[r].state \notin {"Dispatched", "Settling"}
    /\ sl2[s] = DispatchedSlot(sl[s], r)
    /\ \A t \in Slots : t # s => sl2[t] = sl[t]
    /\ rq2[r].state = "Dispatched"
    /\ \A q \in Requests : q # r => rq2[q] = rq[q]

\* dispatch keeps the discipline of the leases.
LEMMA DispatchKeeps ==
    ASSUME NEW sl \in [Slots -> Slot], NEW rq, NEW s \in Slots, NEW r \in Requests,
           NEW sl2, NEW rq2, Discipline(sl, rq), Dispatches(sl, rq, s, r, sl2, rq2)
    PROVE  Discipline(sl2, rq2)
<1>. USE DEF Dispatches
<1>1. /\ DispatchedSlot(sl[s], r) \in Slot
      /\ DispatchedSlot(sl[s], r).state = "Leased"
      /\ DispatchedSlot(sl[s], r).lease = r
      /\ DispatchedSlot(sl[s], r).job = "handed"
      /\ DispatchedSlot(sl[s], r).owner = sl[s].owner
  BY DispatchedSlotIs
<1>2. /\ sl2[s] = DispatchedSlot(sl[s], r)
      /\ \A t \in Slots : t # s => sl2[t] = sl[t]
  OBVIOUS
<1>3. rq2[r].state = "Dispatched" /\ \A q \in Requests : q # r => rq2[q] = rq[q]
  OBVIOUS
<1>4. \A t \in Slots : sl[t].lease # r
  BY DEF Discipline
<1>5. sl[s].lease = NoRequest /\ r # NoRequest
  BY LimitsAssumption DEF Discipline, SlotDiscipline
<1>6. ASSUME NEW t \in Slots
      PROVE  SlotDiscipline(sl2[t], rq2)
  <2>1. SlotDiscipline(sl[t], rq)
    BY DEF Discipline
  <2>2. CASE t = s
    <3>1. sl2[t].state = "Leased" /\ sl2[t].lease = r /\ sl2[t].job # "none" /\ r # NoRequest
      BY <1>1, <1>2, <1>5, <2>2
    <3>2. sl2[t].owner # "none"
      BY <1>1, <1>2, <2>1, <2>2 DEF SlotDiscipline
    <3>. QED
      BY <1>3, <3>1, <3>2 DEF SlotDiscipline
  <2>3. CASE t # s
    <3>1. sl[t].lease # NoRequest => sl[t].lease \in Requests /\ sl[t].lease # r
      BY <1>4 DEF Slot
    <3>. QED
      BY <1>2, <1>3, <2>1, <2>3, <3>1 DEF SlotDiscipline
  <2>. QED
    BY <2>2, <2>3
<1>7. \A q \in Requests :
        rq2[q].state \in {"Dispatched", "Settling"} <=> \E t \in Slots : sl2[t].lease = q
  BY <1>1, <1>2, <1>3, <1>4, <1>5, LimitsAssumption DEF Discipline
<1>8. \A t, u \in Slots : t # u /\ sl2[t].lease = sl2[u].lease => sl2[t].lease = NoRequest
  BY <1>1, <1>2, <1>4 DEF Discipline
<1>. QED
  BY <1>1, <1>2, <1>6, <1>7, <1>8 DEF Discipline

\* Counting slots is counting a finite set.
LEMMA SlotsFinite ==
    ASSUME NEW S \in SUBSET Slots
    PROVE  IsFiniteSet(S) /\ Cardinality(S) \in Nat
<1>1. IsFiniteSet(Slots)
  BY LimitsAssumption, FS_Interval DEF Slots
<1>. QED
  BY <1>1, FS_Subset, FS_CardinalityType

\* dispatch_waiting after slot s became idle.  With nobody queued it does nothing;
\* otherwise s was the only idle slot and gets the oldest request.
LEMMA WaitingIs ==
    ASSUME NEW sl \in [Slots -> Slot], NEW rq \in [Requests -> Request], NEW s \in Slots,
           queue \in Seq(Requests), sl[s].state = "Idle",
           queue # <<>> => \A t \in Slots : t # s => sl[t].state # "Idle"
    PROVE  /\ queue = <<>> => /\ WaitingSlots(sl) = sl
                              /\ WaitingRequests(sl, rq) = rq
                              /\ WaitingQueue(sl) = <<>>
           /\ queue # <<>> =>
                /\ WaitingSlots(sl) = [sl EXCEPT ![s] = DispatchedSlot(sl[s], queue[1])]
                /\ WaitingRequests(sl, rq) = [rq EXCEPT ![queue[1]] = DispatchedRequest(rq[queue[1]])]
                /\ WaitingQueue(sl) = SubSeq(queue, 2, Len(queue))
<1>. DEFINE before(u) == {t \in Slots : t < u /\ sl[t].state = "Idle"}
            given == {t \in Slots : Given(sl, t) # NoRequest}
<1>1. \A u \in Slots : Cardinality(before(u)) \in Nat
  BY SlotsFinite
<1>2. \A u \in Slots : Given(sl, u) = IF sl[u].state = "Idle" /\ Cardinality(before(u)) < Len(queue)
                                      THEN queue[Cardinality(before(u)) + 1] ELSE NoRequest
  BY DEF Given
<1>3. Len(queue) \in Nat /\ (queue = <<>> <=> Len(queue) = 0)
  BY EmptySeq, LenProperties
<1>4. CASE queue = <<>>
  <2>1. \A u \in Slots : Given(sl, u) = NoRequest
    <3>. HIDE DEF before
    <3>. QED
      BY <1>1, <1>2, <1>3, <1>4
  <2>2. WaitingSlots(sl) = sl
    BY <2>1 DEF WaitingSlots
  <2>3. WaitingRequests(sl, rq) = rq
    BY <2>1, LimitsAssumption DEF WaitingRequests
  <2>4. given = {}
    BY <2>1
  <2>5. WaitingQueue(sl) = SubSeq(<<>>, 1, 0)
    <3>1. Cardinality(given) = 0
      BY <2>4, FS_EmptySet
    <3>2. WaitingQueue(sl) = SubSeq(queue, Cardinality(given) + 1, Len(queue))
      BY Zenon DEF WaitingQueue
    <3>. HIDE DEF given
    <3>. QED
      BY <1>3, <1>4, <3>1, <3>2
  <2>6. SubSeq(<<>>, 1, 0) = <<>>
    OBVIOUS
  <2>. QED
    BY <1>4, <2>2, <2>3, <2>5, <2>6
<1>5. CASE queue # <<>>
  <2>1. before(s) = {}
    <3>1. \A t \in Slots : t < s => t # s
      BY LimitsAssumption DEF Slots
    <3>. QED
      BY <1>5, <3>1
  <2>2. Cardinality(before(s)) = 0
    BY <2>1, FS_EmptySet
  <2>3. Given(sl, s) = queue[1] /\ \A u \in Slots : u # s => Given(sl, u) = NoRequest
    <3>. HIDE DEF before
    <3>. QED
      BY <1>2, <1>3, <1>5, <2>2
  <2>4. queue[1] \in Requests /\ queue[1] # NoRequest
    <3>1. queue[1] \in Requests
      BY <1>3, <1>5, ElementOfSeq
    <3>. QED
      BY <3>1, LimitsAssumption
  <2>5. WaitingSlots(sl) = [sl EXCEPT ![s] = DispatchedSlot(sl[s], queue[1])]
    BY <2>3, <2>4 DEF WaitingSlots
  <2>6. WaitingRequests(sl, rq) = [rq EXCEPT ![queue[1]] = DispatchedRequest(rq[queue[1]])]
    BY <2>3, <2>4, LimitsAssumption DEF WaitingRequests
  <2>7. given = {s}
    BY <2>3, <2>4
  <2>8. WaitingQueue(sl) = SubSeq(queue, 2, Len(queue))
    <3>1. Cardinality(given) = 1
      BY <2>7, FS_Singleton
    <3>2. WaitingQueue(sl) = SubSeq(queue, Cardinality(given) + 1, Len(queue))
      BY Zenon DEF WaitingQueue
    <3>. HIDE DEF given
    <3>. QED
      BY <3>1, <3>2
  <2>. QED
    BY <1>5, <2>5, <2>6, <2>8
<1>. QED
  BY <1>4, <1>5

\* remove_first leaves the rest of the queue.
LEMMA RestOfQueue ==
    ASSUME NEW S, NEW q \in Seq(S), q # <<>>
    PROVE  /\ SubSeq(q, 2, Len(q)) \in Seq(S)
           /\ Len(SubSeq(q, 2, Len(q))) = Len(q) - 1
           /\ \A i \in 1..Len(SubSeq(q, 2, Len(q))) : SubSeq(q, 2, Len(q))[i] = q[i + 1]
<1>. DEFINE rest == SubSeq(q, 2, Len(q))
<1>1. Len(q) \in Nat /\ Len(q) # 0
  BY EmptySeq, LenProperties
<1>2. \A i \in 2..Len(q) : q[i] \in S
  BY <1>1, ElementOfSeq
<1>3. /\ rest \in Seq(S)
      /\ Len(rest) = IF 2 <= Len(q) THEN Len(q) - 2 + 1 ELSE 0
      /\ \A i \in 1..Len(q) - 2 + 1 : rest[i] = q[2 + i - 1]
  BY <1>1, <1>2, SubSeqProperties
<1>. HIDE DEF rest
<1>4. Len(rest) = Len(q) - 1
  <2>1. CASE 2 <= Len(q)
    BY <1>1, <1>3, <2>1
  <2>2. CASE Len(q) = 1
    BY <1>3, <2>2
  <2>3. \A n \in Nat : n # 0 => 2 <= n \/ n = 1
    OBVIOUS
  <2>. QED
    BY <1>1, <2>1, <2>2, <2>3
<1>5. \A i \in 1..Len(rest) : i \in 1..Len(q) - 2 + 1 /\ 2 + i - 1 = i + 1
  BY <1>1, <1>4
<1>. QED
  BY <1>3, <1>4, <1>5 DEF rest

\* dispatch_waiting keeps the invariant and leaves no idle slot behind a queue.
LEMMA WaitingKeeps ==
    ASSUME NEW sl \in [Slots -> Slot], NEW rq \in [Requests -> Request], NEW s \in Slots,
           NEW mt, queue \in Seq(Requests), Len(queue) <= QueueCapacity, sl[s].state = "Idle",
           queue # <<>> => \A t \in Slots : t # s => sl[t].state # "Idle",
           Discipline(sl, rq), QueueSound(queue, rq), Serving(sl, mt)
    PROVE  /\ WaitingSlots(sl) \in [Slots -> Slot]
           /\ WaitingRequests(sl, rq) \in [Requests -> Request]
           /\ WaitingQueue(sl) \in Seq(Requests) /\ Len(WaitingQueue(sl)) <= QueueCapacity
           /\ Discipline(WaitingSlots(sl), WaitingRequests(sl, rq))
           /\ QueueSound(WaitingQueue(sl), WaitingRequests(sl, rq))
           /\ NoIdle(WaitingQueue(sl), WaitingSlots(sl))
           /\ Serving(WaitingSlots(sl), mt)
           /\ \A t \in Slots : t # s => WaitingSlots(sl)[t] = sl[t]
           /\ WaitingSlots(sl)[s].state \in {"Idle", "Leased"}
<1>1. CASE queue = <<>>
  <2>1. WaitingSlots(sl) = sl /\ WaitingRequests(sl, rq) = rq /\ WaitingQueue(sl) = queue
    BY <1>1, WaitingIs
  <2>. QED
    BY <1>1, <2>1 DEF NoIdle
<1>2. CASE queue # <<>>
  <2>0. PICK r \in Requests : r = queue[1]
    BY <1>2, EmptySeq, LenProperties, ElementOfSeq
  <2>. DEFINE sl2 == [sl EXCEPT ![s] = DispatchedSlot(sl[s], r)]
              rq2 == [rq EXCEPT ![r] = DispatchedRequest(rq[r])]
              q2 == SubSeq(queue, 2, Len(queue))
  <2>1. WaitingSlots(sl) = sl2 /\ WaitingRequests(sl, rq) = rq2 /\ WaitingQueue(sl) = q2
    BY <1>2, <2>0, WaitingIs
  <2>2. Len(queue) \in Nat /\ Len(queue) # 0
    BY <1>2, EmptySeq, LenProperties
  <2>3. rq[r].state = "Queued" /\ rq[r] \in Request
    BY <2>0, <2>2 DEF QueueSound
  <2>4. DispatchedRequest(rq[r]) \in Request /\ DispatchedRequest(rq[r]).state = "Dispatched"
    BY <2>3 DEF DispatchedRequest, Request, RequestStates
  <2>5. sl2 \in [Slots -> Slot] /\ Discipline(sl2, rq2) /\ sl2[s].state = "Leased"
    <3>1. rq[r].state \notin {"Dispatched", "Settling"}
      BY <2>3
    <3>2. sl2[s] = DispatchedSlot(sl[s], r) /\ \A t \in Slots : t # s => sl2[t] = sl[t]
      OBVIOUS
    <3>3. rq2[r].state = "Dispatched" /\ \A q \in Requests : q # r => rq2[q] = rq[q]
      BY <2>2, <2>4
    <3>. HIDE DEF rq2
    <3>4. sl2[s] \in Slot /\ sl2[s].state = "Leased"
      BY <2>2, <3>2, DispatchedSlotIs
    <3>5. Dispatches(sl, rq, s, r, sl2, rq2)
      BY <3>1, <3>2, <3>3 DEF Dispatches
    <3>6. Discipline(sl2, rq2)
      BY <3>5, DispatchKeeps
    <3>. QED
      BY <2>2, <3>4, <3>6, DispatchedSlotIs
  <2>6. /\ q2 \in Seq(Requests)
        /\ Len(q2) = Len(queue) - 1
        /\ \A i \in 1..Len(q2) : q2[i] = queue[i + 1]
    BY <1>2, RestOfQueue
  <2>7. rq2 \in [Requests -> Request] /\ rq2[r].state = "Dispatched"
        /\ \A q \in Requests : q # r => rq2[q] = rq[q]
    BY <2>2, <2>4
  <2>8. \A t \in Slots : t # s => sl2[t] = sl[t]
    OBVIOUS
  <2>. HIDE DEF sl2, rq2, q2
  <2>9. QueueSound(q2, rq2)
    <3>1. \A i, j \in 1..Len(q2) : q2[i] = q2[j] => i = j
      <4>1. \A i \in 1..Len(q2) : i + 1 \in 1..Len(queue)
        BY <2>2, <2>6
      <4>. QED
        BY <2>2, <2>6, <4>1 DEF QueueSound
    <3>2. ASSUME NEW q \in Requests
          PROVE  rq2[q].state = "Queued" <=> \E i \in 1..Len(q2) : q2[i] = q
      <4>1. CASE q = r
        <5>1. \A i \in 1..Len(q2) : i + 1 \in 1..Len(queue) /\ i + 1 # 1 /\ 1 \in 1..Len(queue)
          BY <2>2, <2>6
        <5>2. \A i \in 1..Len(q2) : q2[i] # r
          BY <2>0, <2>6, <5>1 DEF QueueSound
        <5>. QED
          BY <2>7, <4>1, <5>2
      <4>2. CASE q # r
        <5>1. rq2[q].state = "Queued" <=> \E i \in 1..Len(queue) : queue[i] = q
          BY <2>7, <4>2 DEF QueueSound
        <5>2. ASSUME NEW i \in 1..Len(queue), queue[i] = q
              PROVE  i - 1 \in 1..Len(q2) /\ q2[i - 1] = q
          BY <2>0, <2>2, <2>6, <4>2, <5>2
        <5>3. ASSUME NEW i \in 1..Len(q2), q2[i] = q
              PROVE  i + 1 \in 1..Len(queue) /\ queue[i + 1] = q
          BY <2>2, <2>6, <5>3
        <5>. QED
          BY <5>1, <5>2, <5>3
      <4>. QED
        BY <4>1, <4>2
    <3>. QED
      BY <3>1, <3>2 DEF QueueSound
  <2>10. NoIdle(q2, sl2)
    BY <1>2, <2>5, <2>8 DEF NoIdle
  <2>11. Serving(sl2, mt)
    BY <2>5, <2>8 DEF Serving
  <2>12. Len(q2) <= QueueCapacity
    BY <2>2, <2>6, LimitsAssumption
  <2>. QED
    BY <2>1, <2>5, <2>6, <2>7, <2>8, <2>9, <2>10, <2>11, <2>12
<1>. QED
  BY <1>1, <1>2

-----------------------------------------------------------------------------
(* Every step keeps the invariant: the operations callers invoke.           *)

\* A fresh request is a request.
LEMMA NewRequestType ==
    ASSUME NEW operation \in Operations
    PROVE  /\ NewRequest(operation) \in Request
           /\ NewRequest(operation).state = "Queued"
           /\ DispatchedRequest(NewRequest(operation)) \in Request
           /\ DispatchedRequest(NewRequest(operation)).state = "Dispatched"
           /\ AbsentRequest \in Request
           /\ AbsentRequest.state = "Absent"
  BY DEF NewRequest, DispatchedRequest, AbsentRequest, Request, RequestStates, Executions

\* admit, with an idle slot and nobody queued.
LEMMA AdmitIdleStep ==
    ASSUME IInv, NEW r \in Requests, NEW operation \in Operations, AdmitIdle(r, operation)
    PROVE  IInv'
<1>. USE DEF IInv, TypeOK
<1>1. queue = <<>> /\ IdleSlots \in SUBSET Slots /\ \A s \in IdleSlots : slots[s].state = "Idle"
  BY DEF AdmitIdle, IdleSlots
<1>2. PICK s \in Slots : s = Min(IdleSlots) /\ slots[s].state = "Idle"
  BY <1>1, MinIsMember DEF AdmitIdle
<1>3. slots' = [slots EXCEPT ![s] = DispatchedSlot(slots[s], r)]
  BY <1>2 DEF AdmitIdle
<1>4. /\ requests' = [requests EXCEPT ![r] = DispatchedRequest(NewRequest(operation))]
      /\ requests[r].state = "Absent" /\ lifecycle = "Accepting"
      /\ UNCHANGED <<lifecycle, queue, maintenance, shutdownResult, database>>
  BY DEF AdmitIdle
<1>5. slots' \in [Slots -> Slot] /\ slots'[s].state = "Leased"
      /\ \A t \in Slots : t # s => slots'[t] = slots[t]
  BY <1>3, DispatchedSlotIs
<1>6. requests' \in [Requests -> Request] /\ requests'[r].state = "Dispatched"
      /\ \A q \in Requests : q # r => requests'[q] = requests[q]
  BY <1>4, NewRequestType
<1>7. Discipline(slots', requests')
  <2>1. Dispatches(slots, requests, s, r, slots', requests')
    BY <1>2, <1>3, <1>4, <1>6 DEF Dispatches
  <2>. QED
    BY <2>1, DispatchKeeps
<1>8. Serving(slots', maintenance')
  BY <1>2, <1>4, <1>5 DEF Serving
<1>9. QueueSound(queue', requests')
  BY <1>1, <1>4, <1>6 DEF QueueSound
<1>10. Pumped(slots', maintenance', lifecycle')
  BY <1>4, <1>5 DEF Pumped, Needing
<1>. QED
  BY <1>1, <1>4, <1>5, <1>6, <1>7, <1>8, <1>9, <1>10 DEF NoIdle

\* admit, behind others or with every slot taken.
LEMMA AdmitQueuedStep ==
    ASSUME IInv, NEW r \in Requests, NEW operation \in Operations, AdmitQueued(r, operation)
    PROVE  IInv'
<1>. USE DEF IInv, TypeOK
<1>1. /\ requests[r].state = "Absent" /\ Len(queue) < QueueCapacity
      /\ queue' = Append(queue, r)
      /\ requests' = [requests EXCEPT ![r] = NewRequest(operation)]
      /\ UNCHANGED <<lifecycle, slots, maintenance, shutdownResult, database>>
  BY DEF AdmitQueued, QueueHasRoom
<1>2. /\ queue' \in Seq(Requests) /\ Len(queue) \in Nat
      /\ Len(queue') = Len(queue) + 1
      /\ \A i \in 1..Len(queue) : queue'[i] = queue[i]
      /\ queue'[Len(queue) + 1] = r
  BY <1>1, AppendProperties, LenProperties
<1>3. Len(queue') <= QueueCapacity
  BY <1>1, <1>2, LimitsAssumption
<1>4. requests' \in [Requests -> Request] /\ requests'[r].state = "Queued"
      /\ \A q \in Requests : q # r => requests'[q] = requests[q]
  BY <1>1, NewRequestType
<1>5. Discipline(slots, requests')
  <2>1. \A s \in Slots : slots[s].lease # NoRequest => slots[s].lease \in Requests \ {r}
    BY <1>1 DEF Discipline, Slot
  <2>. QED
    BY <1>1, <1>4, <2>1 DEF Discipline, SlotDiscipline
<1>6. QueueSound(queue', requests')
  <2>1. \A i \in 1..Len(queue') : i \in 1..Len(queue) \/ i = Len(queue) + 1
    BY <1>2
  <2>2. \A i \in 1..Len(queue) : queue[i] # r
    BY <1>1 DEF QueueSound
  <2>3. \A i, j \in 1..Len(queue') : queue'[i] = queue'[j] => i = j
    BY <1>2, <2>1, <2>2 DEF QueueSound
  <2>4. ASSUME NEW q \in Requests
        PROVE  requests'[q].state = "Queued" <=> \E i \in 1..Len(queue') : queue'[i] = q
    <3>1. CASE q = r
      <4>1. Len(queue) + 1 \in 1..Len(queue')
        BY <1>2
      <4>. QED
        BY <1>2, <1>4, <3>1, <4>1
    <3>2. CASE q # r
      <4>1. requests'[q].state = "Queued" <=> \E i \in 1..Len(queue) : queue[i] = q
        BY <1>4, <3>2 DEF QueueSound
      <4>2. \A i \in 1..Len(queue) : i \in 1..Len(queue')
        BY <1>2
      <4>. QED
        BY <1>2, <2>1, <3>2, <4>1, <4>2
    <3>. QED
      BY <3>1, <3>2
  <2>. QED
    BY <2>3, <2>4 DEF QueueSound
<1>7. \A s \in Slots : slots[s].state # "Idle"
  <2>1. CASE queue = <<>>
    BY <2>1 DEF AdmitQueued, IdleSlots
  <2>2. CASE queue # <<>>
    BY <2>2 DEF NoIdle
  <2>. QED
    BY <2>1, <2>2
<1>. QED
  BY <1>1, <1>2, <1>3, <1>4, <1>5, <1>6, <1>7 DEF NoIdle

\* Forgetting a finished handle concerns neither the queue nor a slot.
LEMMA ForgetStep ==
    ASSUME IInv, NEW r \in Requests, Forget(r)
    PROVE  IInv'
<1>. USE DEF IInv, TypeOK
<1>1. /\ requests[r].state = "Finished"
      /\ requests' = [requests EXCEPT ![r] = AbsentRequest]
      /\ UNCHANGED <<lifecycle, queue, slots, maintenance, shutdownResult, database>>
  BY DEF Forget
<1>2. requests' \in [Requests -> Request] /\ requests'[r].state = "Absent"
      /\ \A q \in Requests : q # r => requests'[q] = requests[q]
  BY <1>1, NewRequestType DEF Operations
<1>3. Discipline(slots, requests')
  <2>1. \A s \in Slots : slots[s].lease # NoRequest => slots[s].lease \in Requests \ {r}
    BY <1>1 DEF Discipline, Slot
  <2>. QED
    BY <1>1, <1>2, <2>1 DEF Discipline, SlotDiscipline
<1>4. QueueSound(queue, requests')
  BY <1>1, <1>2 DEF QueueSound
<1>. QED
  BY <1>1, <1>2, <1>3, <1>4

\* The latch of an active request changes neither its state nor its outcome.
LEMMA CancelActiveStep ==
    ASSUME IInv, NEW r \in Requests, CancelActive(r)
    PROVE  IInv'
<1>. USE DEF IInv, TypeOK
<1>1. /\ requests' = [requests EXCEPT ![r] = Latch(requests[r])]
      /\ UNCHANGED <<lifecycle, queue, slots, maintenance, shutdownResult, database>>
  BY DEF CancelActive
<1>2. requests' \in [Requests -> Request]
      /\ \A q \in Requests : /\ requests'[q].state = requests[q].state
                             /\ requests'[q].outcome = requests[q].outcome
  BY <1>1, LatchType
<1>3. Discipline(slots, requests')
  <2>1. \A s \in Slots : slots[s].lease # NoRequest => slots[s].lease \in Requests
    BY DEF Slot
  <2>2. \A s \in Slots : SlotDiscipline(slots[s], requests')
    BY <1>2, <2>1 DEF Discipline, SlotDiscipline
  <2>3. \A q \in Requests :
          requests'[q].state \in {"Dispatched", "Settling"} <=> \E s \in Slots : slots[s].lease = q
    BY <1>2 DEF Discipline
  <2>. QED
    BY <2>2, <2>3 DEF Discipline
<1>4. QueueSound(queue, requests')
  BY <1>2 DEF QueueSound
<1>. QED
  BY <1>1, <1>2, <1>3, <1>4

\* Doubly_linked.remove takes out one element and keeps the others in order.
LEMMA RemoveAtIs ==
    ASSUME NEW S, NEW q \in Seq(S), NEW k \in 1..Len(q)
    PROVE  /\ RemoveAt(q, k) \in Seq(S)
           /\ Len(RemoveAt(q, k)) = Len(q) - 1
           /\ \A i \in 1..Len(q) - 1 : RemoveAt(q, k)[i] = IF i < k THEN q[i] ELSE q[i + 1]
<1>. DEFINE front == SubSeq(q, 1, k - 1)
            back == SubSeq(q, k + 1, Len(q))
<1>1. Len(q) \in Nat /\ k \in Nat /\ 1 <= k /\ k <= Len(q)
  BY LenProperties
<1>2. /\ \A i \in 1..k - 1 : q[i] \in S
      /\ \A i \in k + 1..Len(q) : q[i] \in S
  <2>1. \A i \in 1..Len(q) : q[i] \in S
    BY ElementOfSeq
  <2>2. \A i : i \in 1..k - 1 \/ i \in k + 1..Len(q) => i \in 1..Len(q)
    BY <1>1
  <2>. QED
    BY <2>1, <2>2
<1>3. /\ front \in Seq(S)
      /\ Len(front) = IF 1 <= k - 1 THEN k - 1 - 1 + 1 ELSE 0
      /\ \A i \in 1..k - 1 - 1 + 1 : front[i] = q[1 + i - 1]
  <2>1. 1 \in Int /\ k - 1 \in Int
    BY <1>1
  <2>. QED
    BY <1>2, <2>1, SubSeqProperties
<1>4. /\ back \in Seq(S)
      /\ Len(back) = IF k + 1 <= Len(q) THEN Len(q) - (k + 1) + 1 ELSE 0
      /\ \A i \in 1..Len(q) - (k + 1) + 1 : back[i] = q[(k + 1) + i - 1]
  <2>1. k + 1 \in Int /\ Len(q) \in Int
    BY <1>1
  <2>. QED
    BY <1>2, <2>1, SubSeqProperties
<1>. HIDE DEF front, back
<1>5. Len(front) = k - 1 /\ \A i \in 1..k - 1 : front[i] = q[i]
  <2>1. \A i \in 1..k - 1 : i \in 1..k - 1 - 1 + 1 /\ 1 + i - 1 = i
    BY <1>1
  <2>2. Len(front) = k - 1
    <3>1. CASE 1 <= k - 1
      BY <1>1, <1>3, <3>1
    <3>2. CASE k = 1
      BY <1>3, <3>2
    <3>. QED
      BY <1>1, <3>1, <3>2
  <2>. QED
    BY <1>3, <2>1, <2>2
<1>6. Len(back) = Len(q) - k /\ \A i \in 1..Len(q) - k : back[i] = q[k + i]
  <2>1. \A i \in 1..Len(q) - k : i \in 1..Len(q) - (k + 1) + 1 /\ (k + 1) + i - 1 = k + i
    BY <1>1
  <2>2. Len(back) = Len(q) - k
    <3>1. CASE k + 1 <= Len(q)
      BY <1>1, <1>4, <3>1
    <3>2. CASE k = Len(q)
      BY <1>1, <1>4, <3>2
    <3>. QED
      BY <1>1, <3>1, <3>2
  <2>. QED
    BY <1>4, <2>1, <2>2
<1>7. RemoveAt(q, k) = front \o back
  BY DEF RemoveAt, front, back
<1>8. /\ front \o back \in Seq(S)
      /\ Len(front \o back) = Len(front) + Len(back)
      /\ \A i \in 1..Len(front) + Len(back) :
            (front \o back)[i] = IF i <= Len(front) THEN front[i] ELSE back[i - Len(front)]
  BY <1>3, <1>4, ConcatProperties
<1>. DEFINE joined == front \o back
<1>. HIDE DEF joined
<1>9. /\ joined \in Seq(S)
      /\ Len(joined) = Len(q) - 1
      /\ \A i \in 1..Len(q) - 1 : joined[i] = IF i <= k - 1 THEN front[i] ELSE back[i - (k - 1)]
  <2>1. Len(front) + Len(back) = Len(q) - 1
    BY <1>1, <1>5, <1>6
  <2>. QED
    BY <1>5, <1>8, <2>1 DEF joined
<1>10. ASSUME NEW i \in 1..Len(q) - 1
       PROVE  joined[i] = IF i < k THEN q[i] ELSE q[i + 1]
  <2>1. CASE i < k
    <3>1. i <= k - 1 /\ i \in 1..k - 1
      BY <1>1, <2>1
    <3>. QED
      BY <1>5, <1>9, <2>1, <3>1
  <2>2. CASE ~(i < k)
    <3>1. ~(i <= k - 1) /\ i - (k - 1) \in 1..Len(q) - k /\ k + (i - (k - 1)) = i + 1
      BY <1>1, <2>2
    <3>. QED
      BY <1>6, <1>9, <2>2, <3>1
  <2>. QED
    BY <2>1, <2>2
<1>. QED
  BY <1>7, <1>9, <1>10 DEF joined

\* cancel of a queued request: it leaves the queue and is published at once.
LEMMA CancelQueuedStep ==
    ASSUME IInv, NEW r \in Requests, CancelQueued(r)
    PROVE  IInv'
<1>. USE DEF IInv, TypeOK
<1>1. /\ requests[r].state = "Queued"
      /\ requests' = [requests EXCEPT ![r] = Finish(Latch(requests[r]), "Cancelled")]
      /\ UNCHANGED <<lifecycle, slots, maintenance, shutdownResult, database>>
  BY DEF CancelQueued
<1>2. PICK k \in 1..Len(queue) : queue[k] = r /\ queue' = RemoveAt(queue, k)
  BY DEF CancelQueued
<1>3. Finish(Latch(requests[r]), "Cancelled") \in Request
      /\ Finish(Latch(requests[r]), "Cancelled").state = "Finished"
  BY LatchType, FinishType DEF Outcomes
<1>4. requests' \in [Requests -> Request] /\ requests'[r].state = "Finished"
      /\ \A q \in Requests : q # r => requests'[q] = requests[q]
  BY <1>1, <1>3
<1>5. /\ queue' \in Seq(Requests)
      /\ Len(queue') = Len(queue) - 1
      /\ \A i \in 1..Len(queue) - 1 : queue'[i] = IF i < k THEN queue[i] ELSE queue[i + 1]
  BY <1>2, RemoveAtIs
<1>6. Len(queue) \in Nat /\ k \in Nat /\ 1 <= k /\ k <= Len(queue)
  BY LenProperties
<1>7. Len(queue') <= QueueCapacity /\ queue # <<>>
  BY <1>5, <1>6, LimitsAssumption
<1>8. Discipline(slots, requests')
  <2>1. \A s \in Slots : slots[s].lease # NoRequest => slots[s].lease \in Requests \ {r}
    BY <1>1 DEF Discipline, Slot
  <2>. QED
    BY <1>1, <1>4, <2>1 DEF Discipline, SlotDiscipline
<1>9. QueueSound(queue', requests')
  <2>. DEFINE from(i) == IF i < k THEN i ELSE i + 1
  <2>1. ASSUME NEW i \in 1..Len(queue')
        PROVE  from(i) \in 1..Len(queue) /\ from(i) # k /\ queue'[i] = queue[from(i)]
    BY <1>5, <1>6
  <2>2. \A i, j \in 1..Len(queue') : from(i) = from(j) => i = j
    BY <1>5, <1>6
  <2>3. ASSUME NEW j \in 1..Len(queue), j # k
        PROVE  \E i \in 1..Len(queue') : from(i) = j
    <3>1. CASE j < k
      <4>1. j \in 1..Len(queue') /\ from(j) = j
        BY <1>5, <1>6, <3>1
      <4>. QED
        BY <4>1
    <3>2. CASE ~(j < k)
      <4>1. j - 1 \in 1..Len(queue') /\ from(j - 1) = j
        BY <1>5, <1>6, <2>3, <3>2
      <4>. QED
        BY <4>1
    <3>. QED
      BY <3>1, <3>2
  <2>. HIDE DEF from
  <2>4. \A i, j \in 1..Len(queue') : queue'[i] = queue'[j] => i = j
    BY <2>1, <2>2 DEF QueueSound
  <2>5. ASSUME NEW q \in Requests
        PROVE  requests'[q].state = "Queued" <=> \E i \in 1..Len(queue') : queue'[i] = q
    <3>1. CASE q = r
      <4>1. \A i \in 1..Len(queue') : queue'[i] # r
        BY <1>2, <2>1 DEF QueueSound
      <4>. QED
        BY <1>4, <3>1, <4>1
    <3>2. CASE q # r
      <4>1. requests'[q].state = "Queued" <=> \E j \in 1..Len(queue) : queue[j] = q
        BY <1>4, <3>2 DEF QueueSound
      <4>2. ASSUME NEW j \in 1..Len(queue), queue[j] = q
            PROVE  \E i \in 1..Len(queue') : queue'[i] = q
        BY <1>2, <2>1, <2>3, <3>2, <4>2
      <4>. QED
        BY <2>1, <4>1, <4>2
    <3>. QED
      BY <3>1, <3>2
  <2>. QED
    BY <2>4, <2>5 DEF QueueSound
<1>. QED
  BY <1>1, <1>4, <1>5, <1>7, <1>8, <1>9 DEF NoIdle

\* shutdown: stop, then pump.
LEMMA ShutdownStep ==
    ASSUME IInv, Shutdown
    PROVE  IInv'
<1>. USE DEF IInv, TypeOK
<1>1. /\ lifecycle' = "Stopping" /\ queue' = <<>>
      /\ requests' = StopRequests(slots, requests)
      /\ Pump(StopSlots(slots), "Stopping", maintenance)
      /\ UNCHANGED <<shutdownResult, database>>
  BY DEF Shutdown
<1>2. /\ StopSlots(slots) \in [Slots -> Slot]
      /\ requests' \in [Requests -> Request]
      /\ Discipline(StopSlots(slots), requests')
      /\ QueueSound(<<>>, requests')
      /\ Serving(StopSlots(slots), maintenance)
  BY <1>1, StopKeeps
<1>3. /\ slots' \in [Slots -> Slot]
      /\ maintenance' \in Maintenance
      /\ Discipline(slots', requests')
      /\ Serving(slots', maintenance')
      /\ Pumped(slots', maintenance', "Stopping")
  BY <1>1, <1>2, PumpKeeps
<1>4. lifecycle' \in Lifecycles /\ queue' \in Seq(Requests) /\ Len(queue') <= QueueCapacity
  BY <1>1, LimitsAssumption DEF Lifecycles
<1>. QED
  BY <1>1, <1>2, <1>3, <1>4 DEF NoIdle

-----------------------------------------------------------------------------
(* The helper threads.                                                      *)

\* A slot with work in its helper is Leased, to a request.
LEMMA LeasedSlot ==
    ASSUME IInv, NEW s \in Slots, slots[s].job # "none"
    PROVE  /\ slots[s].state = "Leased" /\ slots[s].lease \in Requests
           /\ slots[s].owner # "none"
           /\ requests[slots[s].lease].state = "Dispatched"
  BY DEF IInv, TypeOK, Discipline, SlotDiscipline, Slot

\* While its request runs, a slot stays Leased to it and keeps its connection.
LEMMA RunningStep ==
    ASSUME IInv, NEW s \in Slots, slots[s].job # "none",
           slots' \in [Slots -> Slot], \A t \in Slots : t # s => slots'[t] = slots[t],
           slots'[s].state = slots[s].state, slots'[s].lease = slots[s].lease,
           slots'[s].job # "none", slots'[s].owner # "none",
           requests' \in [Requests -> Request],
           \A q \in Requests : /\ requests'[q].state = requests[q].state
                               /\ requests'[q].outcome = requests[q].outcome,
           UNCHANGED <<lifecycle, queue, maintenance, shutdownResult, database>>
    PROVE  IInv'
<1>. USE DEF IInv, TypeOK
<1>1. \A t \in Slots : slots'[t].state = slots[t].state /\ slots'[t].lease = slots[t].lease
  OBVIOUS
<1>2. ASSUME NEW t \in Slots
      PROVE  SlotDiscipline(slots'[t], requests')
  <2>1. SlotDiscipline(slots[t], requests)
    BY DEF Discipline
  <2>2. slots[t].lease # NoRequest => slots[t].lease \in Requests
    BY DEF Slot
  <2>3. CASE t = s
    <3>1. slots[s].state = "Leased"
      BY LeasedSlot
    <3>. QED
      BY <1>1, <2>1, <2>2, <2>3, <3>1 DEF SlotDiscipline
  <2>4. CASE t # s
    BY <2>1, <2>2, <2>4 DEF SlotDiscipline
  <2>. QED
    BY <2>3, <2>4
<1>3. Discipline(slots', requests')
  <2>1. \A q \in Requests :
          requests'[q].state \in {"Dispatched", "Settling"} <=> \E t \in Slots : slots'[t].lease = q
    BY <1>1 DEF Discipline
  <2>2. \A t, u \in Slots : t # u /\ slots'[t].lease = slots'[u].lease => slots'[t].lease = NoRequest
    BY <1>1 DEF Discipline
  <2>. QED
    BY <1>2, <2>1, <2>2 DEF Discipline
<1>4. Serving(slots', maintenance')
  BY <1>1 DEF Serving
<1>5. QueueSound(queue', requests')
  BY DEF QueueSound
<1>6. NoIdle(queue', slots')
  BY <1>1 DEF NoIdle
<1>7. Pumped(slots', maintenance', lifecycle')
  BY <1>1 DEF Pumped, Needing, AllClosed
<1>. QED
  BY <1>3, <1>4, <1>5, <1>6, <1>7

\* Entering the gate, returning from the operation or failing to start.
LEMMA WorkerStep ==
    ASSUME IInv, NEW s \in Slots, Worker(s)
    PROVE  IInv'
<1>. DEFINE r == slots[s].lease
<1>1. slots[s].job = "handed"
  BY DEF Worker, WorkerEnter, WorkerReturn, OffloadUnavailable
<1>2. slots \in [Slots -> Slot] /\ requests \in [Requests -> Request]
  BY DEF IInv, TypeOK
<1>3. /\ slots[s].state = "Leased" /\ r \in Requests /\ slots[s].owner # "none"
  BY <1>1, LeasedSlot
<1>. HIDE DEF r
<1>4. CASE WorkerEnter(s)
  <2>1. CASE requests[r].cancelled
    <3>1. /\ requests' = [requests EXCEPT ![r].execution = "Returned"]
          /\ slots' = [slots EXCEPT ![s].job = "Cancelled"]
          /\ UNCHANGED <<lifecycle, queue, maintenance, shutdownResult, database>>
      BY <1>4, <2>1 DEF WorkerEnter, r
    <3>2. /\ slots' \in [Slots -> Slot] /\ \A t \in Slots : t # s => slots'[t] = slots[t]
          /\ slots'[s].state = slots[s].state /\ slots'[s].lease = slots[s].lease
          /\ slots'[s].job # "none" /\ slots'[s].owner # "none"
      BY <1>2, <1>3, <3>1 DEF Slot, Outcomes
    <3>3. /\ requests' \in [Requests -> Request]
          /\ \A q \in Requests : /\ requests'[q].state = requests[q].state
                                 /\ requests'[q].outcome = requests[q].outcome
      BY <1>2, <1>3, <3>1 DEF Request, Executions
    <3>. QED
      BY <1>1, <3>1, <3>2, <3>3, RunningStep
  <2>2. CASE ~requests[r].cancelled
    <3>1. /\ requests' = [requests EXCEPT ![r].execution = "Executing"]
          /\ UNCHANGED <<slots, lifecycle, queue, maintenance, shutdownResult, database>>
      BY <1>4, <2>2 DEF WorkerEnter, r
    <3>2. /\ requests' \in [Requests -> Request]
          /\ \A q \in Requests : /\ requests'[q].state = requests[q].state
                                 /\ requests'[q].outcome = requests[q].outcome
      BY <1>2, <1>3, <3>1 DEF Request, Executions
    <3>. QED
      BY <1>1, <1>2, <1>3, <3>1, <3>2, RunningStep
  <2>. QED
    BY <2>1, <2>2
<1>5. CASE WorkerReturn(s)
  <2>1. /\ requests' = [requests EXCEPT ![r].execution = "Returned"]
        /\ UNCHANGED <<lifecycle, queue, maintenance, shutdownResult, database>>
    BY <1>5 DEF WorkerReturn, r
  <2>2. PICK outcome \in Outcomes :
          slots' = [slots EXCEPT ![s].job = outcome,
                        ![s].owner = IF requests[r].operation = "Execute" /\ outcome = "Ok"
                                     THEN slots[s].owner ELSE "tainted"]
    BY <1>5 DEF WorkerReturn, r
  <2>3. /\ slots' \in [Slots -> Slot] /\ \A t \in Slots : t # s => slots'[t] = slots[t]
        /\ slots'[s].state = slots[s].state /\ slots'[s].lease = slots[s].lease
        /\ slots'[s].job # "none" /\ slots'[s].owner # "none"
    <3>. DEFINE owner == IF requests[r].operation = "Execute" /\ outcome = "Ok"
                         THEN slots[s].owner ELSE "tainted"
                back == [slots EXCEPT ![s].job = outcome]
    <3>1. slots' = [back EXCEPT ![s].owner = owner]
      BY <2>2, Zenon
    <3>2. owner \in Owners /\ owner # "none"
      BY <1>2, <1>3 DEF Slot, Owners
    <3>3. /\ back \in [Slots -> Slot] /\ \A t \in Slots : t # s => back[t] = slots[t]
          /\ back[s].state = slots[s].state /\ back[s].lease = slots[s].lease
          /\ back[s].job = outcome
      BY <1>2 DEF Slot
    <3>4. outcome # "none"
      BY DEF Outcomes
    <3>. HIDE DEF owner, back
    <3>. QED
      BY <3>1, <3>2, <3>3, <3>4 DEF Slot
  <2>4. /\ requests' \in [Requests -> Request]
        /\ \A q \in Requests : /\ requests'[q].state = requests[q].state
                               /\ requests'[q].outcome = requests[q].outcome
    BY <1>2, <1>3, <2>1 DEF Request, Executions
  <2>. QED
    BY <1>1, <2>1, <2>3, <2>4, RunningStep
<1>6. CASE OffloadUnavailable(s)
  <2>1. /\ slots' = [slots EXCEPT ![s].job = "Failed"]
        /\ UNCHANGED <<lifecycle, queue, requests, maintenance, shutdownResult, database>>
    BY <1>6 DEF OffloadUnavailable
  <2>2. /\ slots' \in [Slots -> Slot] /\ \A t \in Slots : t # s => slots'[t] = slots[t]
        /\ slots'[s].state = slots[s].state /\ slots'[s].lease = slots[s].lease
        /\ slots'[s].job # "none" /\ slots'[s].owner # "none"
    BY <1>2, <1>3, <2>1 DEF Slot, Outcomes
  <2>. QED
    BY <1>1, <1>2, <2>1, <2>2, RunningStep
<1>. QED
  BY <1>4, <1>5, <1>6 DEF Worker

-----------------------------------------------------------------------------
(* The continuations of dispatch.                                           *)

\* The slots once the helper of s is done and its connection is to be closed.
Retired(s) == [slots EXCEPT ![s].state = "Needs_close", ![s].job = "none"]

\* r.state <- Settling; r.outcome <- Some result, with the slot retired.
LEMMA SettlingKeeps ==
    ASSUME IInv, NEW s \in Slots, slots[s].job \in Outcomes
    PROVE  /\ Retired(s) \in [Slots -> Slot]
           /\ SettlingRequest(s) \in [Requests -> Request]
           /\ Discipline(Retired(s), SettlingRequest(s))
           /\ \A q \in Requests : SettlingRequest(s)[q].state = "Queued"
                                    <=> requests[q].state = "Queued"
           /\ \A t \in Slots : t # s => Retired(s)[t] = slots[t]
           /\ Retired(s)[s].state = "Needs_close"
           /\ Retired(s)[s].lease = slots[s].lease
           /\ Retired(s)[s].owner = slots[s].owner /\ slots[s].owner # "none"
<1>. DEFINE sl == Retired(s)
<1>1. slots \in [Slots -> Slot] /\ requests \in [Requests -> Request] /\ Discipline(slots, requests)
  BY DEF IInv, TypeOK
<1>2. PICK r \in Requests : r = slots[s].lease
  BY LeasedSlot DEF Outcomes
<1>3. slots[s].state = "Leased" /\ slots[s].owner # "none" /\ requests[r].state = "Dispatched"
  BY <1>2, LeasedSlot DEF Outcomes
<1>4. /\ sl \in [Slots -> Slot]
      /\ \A t \in Slots : t # s => sl[t] = slots[t]
      /\ sl[s].state = "Needs_close" /\ sl[s].lease = r /\ sl[s].job = "none"
      /\ sl[s].owner = slots[s].owner
  BY <1>1, <1>2 DEF Retired, Slot, SlotStates
<1>. HIDE DEF sl
<1>. DEFINE rq == SettlingRequest(s)
<1>5. /\ rq \in [Requests -> Request]
      /\ rq[r].state = "Settling" /\ rq[r].outcome = slots[s].job
      /\ \A q \in Requests : q # r => rq[q] = requests[q]
  BY <1>1, <1>2 DEF SettlingRequest, Request, RequestStates
<1>. HIDE DEF rq
<1>6. ASSUME NEW t \in Slots
      PROVE  SlotDiscipline(sl[t], rq)
  <2>1. CASE t = s
    <3>1. rq[r].outcome # NoOutcome
      BY <1>5 DEF Outcomes, NoOutcome
    <3>. QED
      BY <1>3, <1>4, <1>5, <2>1, <3>1 DEF SlotDiscipline
  <2>2. CASE t # s
    <3>1. SlotDiscipline(slots[t], requests) /\ sl[t] = slots[t]
      BY <1>1, <1>4, <2>2 DEF Discipline
    <3>2. slots[t].lease # NoRequest => slots[t].lease \in Requests /\ slots[t].lease # r
      BY <1>1, <1>2, <2>2 DEF Discipline, Slot
    <3>. QED
      BY <1>5, <3>1, <3>2 DEF SlotDiscipline
  <2>. QED
    BY <2>1, <2>2
<1>7. \A t \in Slots : sl[t].lease = slots[t].lease
  BY <1>2, <1>4
<1>8. \A q \in Requests :
        rq[q].state \in {"Dispatched", "Settling"} <=> \E t \in Slots : sl[t].lease = q
  BY <1>1, <1>3, <1>5, <1>7 DEF Discipline
<1>9. \A t, u \in Slots : t # u /\ sl[t].lease = sl[u].lease => sl[t].lease = NoRequest
  BY <1>1, <1>7 DEF Discipline
<1>10. Discipline(sl, rq)
  BY <1>6, <1>8, <1>9 DEF Discipline
<1>. QED
  BY <1>2, <1>3, <1>4, <1>5, <1>10 DEF rq, sl

\* A connection that may not be reused goes to maintenance with its request.
LEMMA SettleRetireStep ==
    ASSUME IInv, NEW s \in Slots, SettleRetire(s)
    PROVE  IInv'
<1>. DEFINE sl == Retired(s)
<1>1. /\ slots[s].job \in Outcomes
      /\ requests' = SettlingRequest(s)
      /\ Pump(sl, lifecycle, maintenance)
      /\ UNCHANGED <<lifecycle, queue, shutdownResult, database>>
  BY Zenon DEF SettleRetire, Retired
<1>3. /\ sl \in [Slots -> Slot]
      /\ requests' \in [Requests -> Request]
      /\ Discipline(sl, requests')
      /\ \A q \in Requests : requests'[q].state = "Queued" <=> requests[q].state = "Queued"
      /\ \A t \in Slots : t # s => sl[t] = slots[t]
      /\ sl[s].state = "Needs_close"
  <2>1. /\ sl \in [Slots -> Slot]
        /\ SettlingRequest(s) \in [Requests -> Request]
        /\ Discipline(sl, SettlingRequest(s))
        /\ \A q \in Requests : SettlingRequest(s)[q].state = "Queued"
                                 <=> requests[q].state = "Queued"
        /\ \A t \in Slots : t # s => sl[t] = slots[t]
        /\ sl[s].state = "Needs_close"
    BY <1>1, SettlingKeeps
  <2>. QED
    BY <1>1, <2>1
<1>. HIDE DEF sl
<1>4. slots[s].state = "Leased"
  BY <1>1, LeasedSlot DEF Outcomes
<1>5. Serving(sl, maintenance) /\ maintenance \in Maintenance
  BY <1>3, <1>4 DEF IInv, TypeOK, Serving
<1>6. /\ slots' \in [Slots -> Slot]
      /\ maintenance' \in Maintenance
      /\ Discipline(slots', requests')
      /\ Serving(slots', maintenance')
      /\ Pumped(slots', maintenance', lifecycle)
      /\ \A t \in Slots : slots'[t].state = "Idle" => sl[t].state = "Idle"
  BY <1>1, <1>3, <1>5, PumpKeeps
<1>7. NoIdle(queue', slots')
  <2>1. \A t \in Slots : slots'[t].state = "Idle" => slots[t].state = "Idle"
    BY <1>3, <1>6
  <2>. QED
    BY <1>1, <2>1 DEF IInv, NoIdle
<1>8. QueueSound(queue', requests')
  BY <1>1, <1>3 DEF IInv, QueueSound
<1>. QED
  BY <1>1, <1>3, <1>6, <1>7, <1>8 DEF IInv, TypeOK

\* A reusable connection serves the queue at once.
LEMMA SettleReuseStep ==
    ASSUME IInv, NEW s \in Slots, SettleReuse(s)
    PROVE  IInv'
<1>. DEFINE sl == [slots EXCEPT ![s].state = "Idle", ![s].job = "none", ![s].lease = NoRequest]
            rq == FinishLease(slots, SettlingRequest(s), s)
<1>1. /\ slots[s].job \in Outcomes /\ lifecycle = "Accepting"
      /\ slots' = WaitingSlots(sl)
      /\ requests' = WaitingRequests(sl, rq)
      /\ queue' = WaitingQueue(sl)
      /\ UNCHANGED <<lifecycle, maintenance, shutdownResult, database>>
  BY DEF SettleReuse, Reusable
<1>2. /\ slots \in [Slots -> Slot] /\ queue \in Seq(Requests) /\ Len(queue) <= QueueCapacity
      /\ NoIdle(queue, slots) /\ QueueSound(queue, requests) /\ Serving(slots, maintenance)
      /\ Pumped(slots, maintenance, lifecycle)
  BY DEF IInv, TypeOK
<1>3. slots[s].state = "Leased"
  BY <1>1, LeasedSlot DEF Outcomes
<1>4. /\ Retired(s) \in [Slots -> Slot]
      /\ SettlingRequest(s) \in [Requests -> Request]
      /\ Discipline(Retired(s), SettlingRequest(s))
      /\ \A q \in Requests : SettlingRequest(s)[q].state = "Queued"
                               <=> requests[q].state = "Queued"
      /\ \A t \in Slots : t # s => Retired(s)[t] = slots[t]
      /\ Retired(s)[s].state = "Needs_close"
      /\ Retired(s)[s].lease = slots[s].lease
      /\ Retired(s)[s].owner = slots[s].owner /\ slots[s].owner # "none"
  BY <1>1, SettlingKeeps
<1>5. /\ sl \in [Slots -> Slot]
      /\ \A t \in Slots : t # s => sl[t] = slots[t]
      /\ sl[s].state = "Idle" /\ sl[s].lease = NoRequest /\ sl[s].job = "none"
      /\ sl[s].owner = slots[s].owner
  <2>. DEFINE free == [slots EXCEPT ![s].state = "Idle"]
  <2>1. sl = [free EXCEPT ![s].job = "none", ![s].lease = NoRequest]
    BY Zenon
  <2>2. /\ free \in [Slots -> Slot] /\ \A t \in Slots : t # s => free[t] = slots[t]
        /\ free[s].state = "Idle" /\ free[s].owner = slots[s].owner
    BY <1>2 DEF Slot, SlotStates
  <2>. HIDE DEF free, sl
  <2>. QED
    BY <2>1, <2>2 DEF Slot
<1>. HIDE DEF sl
<1>6. Releases(Retired(s), s, sl)
  BY <1>4, <1>5 DEF Releases
<1>7. rq = FinishLease(Retired(s), SettlingRequest(s), s)
  BY <1>4 DEF FinishLease
<1>. HIDE DEF rq
<1>8. /\ FinishLease(Retired(s), SettlingRequest(s), s) \in [Requests -> Request]
      /\ Discipline(sl, FinishLease(Retired(s), SettlingRequest(s), s))
      /\ \A q \in Requests : FinishLease(Retired(s), SettlingRequest(s), s)[q].state = "Queued"
                               <=> SettlingRequest(s)[q].state = "Queued"
  BY <1>4, <1>6, FinishLeaseKeeps
<1>9. /\ rq \in [Requests -> Request] /\ Discipline(sl, rq)
      /\ \A q \in Requests : rq[q].state = "Queued" <=> requests[q].state = "Queued"
  BY <1>4, <1>7, <1>8
<1>10. QueueSound(queue, rq)
  BY <1>2, <1>9 DEF QueueSound
<1>11. Serving(sl, maintenance)
  BY <1>2, <1>3, <1>5 DEF Serving
<1>12. queue # <<>> => \A t \in Slots : t # s => sl[t].state # "Idle"
  BY <1>2, <1>5 DEF NoIdle
<1>13. /\ WaitingSlots(sl) \in [Slots -> Slot]
       /\ WaitingRequests(sl, rq) \in [Requests -> Request]
       /\ WaitingQueue(sl) \in Seq(Requests) /\ Len(WaitingQueue(sl)) <= QueueCapacity
       /\ Discipline(WaitingSlots(sl), WaitingRequests(sl, rq))
       /\ QueueSound(WaitingQueue(sl), WaitingRequests(sl, rq))
       /\ NoIdle(WaitingQueue(sl), WaitingSlots(sl))
       /\ Serving(WaitingSlots(sl), maintenance)
       /\ \A t \in Slots : t # s => WaitingSlots(sl)[t] = sl[t]
       /\ WaitingSlots(sl)[s].state \in {"Idle", "Leased"}
  BY <1>2, <1>5, <1>9, <1>10, <1>11, <1>12, WaitingKeeps
<1>14. Pumped(slots', maintenance', lifecycle')
  <2>1. Needing(slots) = {} => Needing(WaitingSlots(sl)) = {}
    BY <1>5, <1>13 DEF Needing
  <2>. QED
    BY <1>1, <1>2, <2>1 DEF Pumped
<1>. QED
  BY <1>1, <1>13, <1>14 DEF IInv, TypeOK

-----------------------------------------------------------------------------
(* The continuations of the maintenance jobs.                               *)

\* The job of the maintenance helper returns; its slot is not yet told.
LEMMA MaintenanceRunStep ==
    ASSUME IInv, MaintenanceRun
    PROVE  IInv'
<1>. USE DEF IInv, TypeOK
<1>1. PICK result \in {"Ok", "Error"} : maintenance' = [maintenance EXCEPT !.result = result]
  BY DEF MaintenanceRun
<1>2. /\ UNCHANGED <<lifecycle, queue, slots, requests, shutdownResult>>
      /\ database' \in {database, "closed"}
  BY DEF MaintenanceRun
<1>3. /\ maintenance' \in Maintenance
      /\ maintenance'.job = maintenance.job /\ maintenance'.slot = maintenance.slot
  BY <1>1 DEF Maintenance
<1>4. Serving(slots, maintenance') /\ Pumped(slots, maintenance', lifecycle)
  BY <1>3 DEF Serving, Pumped
<1>. QED
  BY <1>2, <1>3, <1>4

\* The database is closed last, when every slot is closed.
LEMMA DatabaseDoneStep ==
    ASSUME IInv, DatabaseDone
    PROVE  IInv'
<1>. USE DEF IInv, TypeOK
<1>1. /\ maintenance.job = "close_database" /\ lifecycle' = "Stopped" /\ maintenance' = NoJob
      /\ shutdownResult' \in {"Ok", "Error"}
      /\ UNCHANGED <<queue, slots, requests, database>>
  BY DEF DatabaseDone
<1>2. \A s \in Slots : slots[s].state \in {"Closed", "Close_failed"}
  BY <1>1 DEF Serving
<1>3. maintenance' \in Maintenance /\ maintenance'.job = "none"
  BY <1>1, NoJobType DEF NoJob
<1>4. Serving(slots, maintenance')
  BY <1>2, <1>3 DEF Serving
<1>5. Pumped(slots, maintenance', lifecycle')
  BY <1>1, <1>2 DEF Pumped, Needing
<1>6. lifecycle' \in Lifecycles
  BY <1>1 DEF Lifecycles
<1>. QED
  BY <1>1, <1>3, <1>4, <1>5, <1>6

\* The slot a maintenance job is about, and that no other slot waits for it.
LEMMA ServedSlot ==
    ASSUME IInv, maintenance.job \in {"close", "connect"}
    PROVE  /\ maintenance.slot \in Slots
           /\ maintenance.job = "close" => slots[maintenance.slot].state = "Closing"
                                           /\ slots[maintenance.slot].owner # "none"
           /\ maintenance.job = "connect" => slots[maintenance.slot].state = "Connecting"
           /\ slots[maintenance.slot].job = "none"
           /\ \A t \in Slots : t # maintenance.slot =>
                slots[t].state \notin {"Closing", "Connecting"}
<1>1. maintenance.slot \in Slots
  BY DEF IInv, TypeOK, Maintenance
<1>2. \A t \in Slots : t # maintenance.slot => slots[t].state \notin {"Closing", "Connecting"}
  BY DEF IInv, Serving
<1>3. /\ maintenance.job = "close" => slots[maintenance.slot].state = "Closing"
      /\ maintenance.job = "connect" => slots[maintenance.slot].state = "Connecting"
  BY <1>1 DEF IInv, Serving
<1>. QED
  BY <1>1, <1>2, <1>3 DEF IInv, Discipline, SlotDiscipline

\* The free helper serves nobody once the slot it was about has moved on.
LEMMA FreeHelper ==
    ASSUME IInv, maintenance.job \in {"close", "connect"}, NEW sl,
           \A t \in Slots : t # maintenance.slot => sl[t].state = slots[t].state,
           sl[maintenance.slot].state \notin {"Closing", "Connecting"}
    PROVE  Serving(sl, NoJob) /\ NoJob \in Maintenance
<1>1. \A t \in Slots : sl[t].state \notin {"Closing", "Connecting"}
  BY ServedSlot
<1>2. NoJob.job = "none"
  BY DEF NoJob
<1>. QED
  BY <1>1, <1>2, NoJobType DEF Serving

\* A continuation that ends in pump keeps the invariant if what it gives to pump does.
LEMMA ContinuationKeeps ==
    ASSUME IInv, NEW sl \in [Slots -> Slot], NEW lc,
           Discipline(sl, requests'), Serving(sl, NoJob), NoJob \in Maintenance,
           Pump(sl, lc, NoJob), lc \in {lifecycle', "Stopping"}, lifecycle' \in Lifecycles,
           queue' \in Seq(Requests), Len(queue') <= QueueCapacity,
           requests' \in [Requests -> Request], QueueSound(queue', requests'),
           NoIdle(queue', sl), UNCHANGED <<shutdownResult, database>>
    PROVE  IInv'
<1>1. /\ slots' \in [Slots -> Slot]
      /\ maintenance' \in Maintenance
      /\ Discipline(slots', requests')
      /\ Serving(slots', maintenance')
      /\ Pumped(slots', maintenance', lc)
      /\ \A t \in Slots : slots'[t].state = "Idle" => sl[t].state = "Idle"
  BY PumpKeeps
<1>2. Pumped(slots', maintenance', lifecycle')
  BY <1>1 DEF Pumped
<1>3. NoIdle(queue', slots')
  BY <1>1 DEF NoIdle
<1>. QED
  BY <1>1, <1>2, <1>3 DEF IInv, TypeOK

\* A connection was closed: replace it, or finish the slot when the pool stops.
LEMMA CloseDoneStep ==
    ASSUME IInv, CloseDone
    PROVE  IInv'
<1>. DEFINE s == maintenance.slot
            again == [[slots EXCEPT ![s].owner = "none"] EXCEPT ![s].state = "Needs_connect"]
            done == [[slots EXCEPT ![s].owner = "none"] EXCEPT ![s].state = "Closed",
                                                               ![s].lease = NoRequest]
<1>1. /\ maintenance.job = "close"
      /\ \/ /\ lifecycle = "Accepting" /\ Pump(again, lifecycle, NoJob) /\ UNCHANGED requests
         \/ /\ lifecycle # "Accepting" /\ requests' = FinishLease(slots, requests, s)
            /\ Pump(done, lifecycle, NoJob)
      /\ UNCHANGED <<lifecycle, queue, shutdownResult, database>>
  BY Zenon DEF CloseDone
<1>2. /\ s \in Slots /\ slots[s].state = "Closing" /\ slots[s].job = "none"
  BY <1>1, ServedSlot
<1>3. /\ slots \in [Slots -> Slot] /\ requests \in [Requests -> Request]
      /\ Discipline(slots, requests) /\ NoIdle(queue, slots) /\ QueueSound(queue, requests)
      /\ lifecycle \in Lifecycles /\ queue \in Seq(Requests) /\ Len(queue) <= QueueCapacity
  BY DEF IInv, TypeOK
<1>4. /\ again \in [Slots -> Slot] /\ \A t \in Slots : t # s => again[t] = slots[t]
      /\ again[s].state = "Needs_connect" /\ again[s].owner = "none"
      /\ again[s].job = slots[s].job /\ again[s].lease = slots[s].lease
  BY <1>2, <1>3 DEF Slot, SlotStates, Owners
<1>5. /\ done \in [Slots -> Slot] /\ \A t \in Slots : t # s => done[t] = slots[t]
      /\ done[s].state = "Closed" /\ done[s].owner = "none"
      /\ done[s].job = slots[s].job /\ done[s].lease = NoRequest
  <2>. DEFINE bare == [slots EXCEPT ![s].owner = "none"]
  <2>1. done = [bare EXCEPT ![s].state = "Closed", ![s].lease = NoRequest]
    BY Zenon
  <2>. HIDE DEF s
  <2>2. /\ bare \in [Slots -> Slot] /\ \A t \in Slots : t # s => bare[t] = slots[t]
        /\ bare[s].owner = "none" /\ bare[s].job = slots[s].job
    BY <1>2, <1>3 DEF Slot, Owners
  <2>. HIDE DEF bare, done
  <2>. QED
    BY <1>2, <2>1, <2>2 DEF Slot, SlotStates
<1>. HIDE DEF again, done
<1>6. CASE lifecycle = "Accepting"
  <2>1. Pump(again, lifecycle, NoJob) /\ requests' = requests
    BY <1>1, <1>6
  <2>2. Discipline(again, requests')
    <3>1. ASSUME NEW t \in Slots
          PROVE  SlotDiscipline(again[t], requests)
      BY <1>2, <1>3, <1>4 DEF Discipline, SlotDiscipline
    <3>2. \A t \in Slots : again[t].lease = slots[t].lease
      BY <1>4
    <3>. QED
      BY <1>3, <2>1, <3>1, <3>2 DEF Discipline
  <2>3. Serving(again, NoJob) /\ NoJob \in Maintenance
    BY <1>1, <1>4, FreeHelper
  <2>4. NoIdle(queue', again)
    BY <1>1, <1>3, <1>4 DEF NoIdle
  <2>5. QueueSound(queue', requests')
    BY <1>1, <1>3, <2>1
  <2>. QED
    BY <1>1, <1>3, <1>4, <2>1, <2>2, <2>3, <2>4, <2>5, ContinuationKeeps
<1>7. CASE lifecycle # "Accepting"
  <2>1. Pump(done, lifecycle, NoJob) /\ requests' = FinishLease(slots, requests, s)
    BY <1>1, <1>7
  <2>2. Releases(slots, s, done)
    BY <1>2, <1>5 DEF Releases
  <2>3. /\ requests' \in [Requests -> Request] /\ Discipline(done, requests')
        /\ \A q \in Requests : requests'[q].state = "Queued" <=> requests[q].state = "Queued"
    BY <1>2, <1>3, <2>1, <2>2, FinishLeaseKeeps
  <2>4. Serving(done, NoJob) /\ NoJob \in Maintenance
    BY <1>1, <1>5, FreeHelper
  <2>5. NoIdle(queue', done)
    BY <1>1, <1>3, <1>5 DEF NoIdle
  <2>6. QueueSound(queue', requests')
    BY <1>1, <1>3, <2>3 DEF QueueSound
  <2>. QED
    BY <1>1, <1>3, <1>5, <2>1, <2>3, <2>4, <2>5, <2>6, ContinuationKeeps
<1>. QED
  BY <1>6, <1>7

\* A replacement arrived: serve the queue with it, or close it when the pool stops.
LEMMA ConnectDoneStep ==
    ASSUME IInv, ConnectDone
    PROVE  IInv'
<1>. DEFINE s == maintenance.slot
            idle == [[slots EXCEPT ![s].owner = "clean"] EXCEPT ![s].state = "Idle",
                                                                ![s].lease = NoRequest]
            late == [[slots EXCEPT ![s].owner = "clean"] EXCEPT ![s].state = "Needs_close"]
            rq == FinishLease(slots, requests, s)
<1>1. /\ maintenance.job = "connect"
      /\ \/ /\ lifecycle = "Accepting" /\ requests' = WaitingRequests(idle, rq)
            /\ queue' = WaitingQueue(idle) /\ Pump(WaitingSlots(idle), lifecycle, NoJob)
         \/ /\ lifecycle # "Accepting" /\ Pump(late, lifecycle, NoJob)
            /\ UNCHANGED <<requests, queue>>
      /\ UNCHANGED <<lifecycle, shutdownResult, database>>
  BY Zenon DEF ConnectDone
<1>2. s \in Slots /\ slots[s].state = "Connecting" /\ slots[s].job = "none"
  BY <1>1, ServedSlot
<1>3. /\ slots \in [Slots -> Slot] /\ requests \in [Requests -> Request]
      /\ Discipline(slots, requests) /\ NoIdle(queue, slots) /\ QueueSound(queue, requests)
      /\ lifecycle \in Lifecycles /\ queue \in Seq(Requests) /\ Len(queue) <= QueueCapacity
  BY DEF IInv, TypeOK
<1>4. /\ idle \in [Slots -> Slot] /\ \A t \in Slots : t # s => idle[t] = slots[t]
      /\ idle[s].state = "Idle" /\ idle[s].owner = "clean"
      /\ idle[s].job = slots[s].job /\ idle[s].lease = NoRequest
  <2>. DEFINE fresh == [slots EXCEPT ![s].owner = "clean"]
  <2>1. idle = [fresh EXCEPT ![s].state = "Idle", ![s].lease = NoRequest]
    BY Zenon
  <2>. HIDE DEF s
  <2>2. /\ fresh \in [Slots -> Slot] /\ \A t \in Slots : t # s => fresh[t] = slots[t]
        /\ fresh[s].owner = "clean" /\ fresh[s].job = slots[s].job
    BY <1>2, <1>3 DEF Slot, Owners
  <2>. HIDE DEF fresh, idle
  <2>. QED
    BY <1>2, <2>1, <2>2 DEF Slot, SlotStates
<1>5. /\ late \in [Slots -> Slot] /\ \A t \in Slots : t # s => late[t] = slots[t]
      /\ late[s].state = "Needs_close" /\ late[s].owner = "clean"
      /\ late[s].job = slots[s].job /\ late[s].lease = slots[s].lease
  BY <1>2, <1>3 DEF Slot, SlotStates, Owners
<1>. HIDE DEF s, idle, late
<1>6. CASE lifecycle = "Accepting"
  <2>1. /\ requests' = WaitingRequests(idle, rq) /\ queue' = WaitingQueue(idle)
        /\ Pump(WaitingSlots(idle), lifecycle, NoJob)
    BY <1>1, <1>6
  <2>2. Releases(slots, s, idle)
    BY <1>2, <1>4 DEF Releases
  <2>3. /\ rq \in [Requests -> Request] /\ Discipline(idle, rq)
        /\ \A q \in Requests : rq[q].state = "Queued" <=> requests[q].state = "Queued"
    BY <1>2, <1>3, <2>2, FinishLeaseKeeps
  <2>. HIDE DEF rq
  <2>4. Serving(idle, NoJob) /\ NoJob \in Maintenance
    BY <1>1, <1>4, FreeHelper DEF s
  <2>5. queue # <<>> => \A t \in Slots : t # s => idle[t].state # "Idle"
    BY <1>3, <1>4 DEF NoIdle
  <2>6. QueueSound(queue, rq)
    BY <1>3, <2>3 DEF QueueSound
  <2>7. /\ WaitingSlots(idle) \in [Slots -> Slot]
        /\ WaitingRequests(idle, rq) \in [Requests -> Request]
        /\ WaitingQueue(idle) \in Seq(Requests) /\ Len(WaitingQueue(idle)) <= QueueCapacity
        /\ Discipline(WaitingSlots(idle), WaitingRequests(idle, rq))
        /\ QueueSound(WaitingQueue(idle), WaitingRequests(idle, rq))
        /\ NoIdle(WaitingQueue(idle), WaitingSlots(idle))
        /\ Serving(WaitingSlots(idle), NoJob)
    BY <1>2, <1>3, <1>4, <2>3, <2>4, <2>5, <2>6, WaitingKeeps
  <2>. QED
    BY <1>1, <1>3, <2>1, <2>4, <2>7, ContinuationKeeps
<1>7. CASE lifecycle # "Accepting"
  <2>1. Pump(late, lifecycle, NoJob) /\ requests' = requests /\ queue' = queue
    BY <1>1, <1>7
  <2>2. Discipline(late, requests')
    <3>1. ASSUME NEW t \in Slots
          PROVE  SlotDiscipline(late[t], requests)
      BY <1>2, <1>3, <1>5 DEF Discipline, SlotDiscipline
    <3>2. \A t \in Slots : late[t].lease = slots[t].lease
      BY <1>5
    <3>. QED
      BY <1>3, <2>1, <3>1, <3>2 DEF Discipline
  <2>3. Serving(late, NoJob) /\ NoJob \in Maintenance
    BY <1>1, <1>5, FreeHelper DEF s
  <2>4. NoIdle(queue', late)
    BY <1>3, <1>5, <2>1 DEF NoIdle
  <2>5. QueueSound(queue', requests')
    BY <1>3, <2>1
  <2>. QED
    BY <1>1, <1>3, <1>5, <2>1, <2>2, <2>3, <2>4, <2>5, ContinuationKeeps
<1>. QED
  BY <1>6, <1>7

\* A failed close or connect: the slot is lost, the pool stops if it had not begun
\* to, and the slot's request is published with the failure.
LEMMA SlotFailureStep ==
    ASSUME IInv, maintenance.job \in {"close", "connect"}, NEW state,
           state = IF maintenance.job = "close" THEN "Close_failed" ELSE "Closed",
           SlotFailure(maintenance.slot, state)
    PROVE  IInv'
<1>. DEFINE s == maintenance.slot
            sl == [slots EXCEPT ![s].state = state, ![s].failed = TRUE, ![s].lease = NoRequest]
            rq == AddLeaseCleanup(slots, requests, s)
<1>1. /\ s \in Slots /\ slots[s].state \in {"Closing", "Connecting"} /\ slots[s].job = "none"
      /\ slots[s].owner = "none" <=> state = "Closed"
  <2>1. Discipline(slots, requests)
    BY DEF IInv
  <2>. QED
    BY <2>1, ServedSlot DEF Discipline, SlotDiscipline
<1>2. /\ slots \in [Slots -> Slot] /\ requests \in [Requests -> Request]
      /\ maintenance \in Maintenance /\ Serving(slots, maintenance)
      /\ Discipline(slots, requests) /\ NoIdle(queue, slots) /\ QueueSound(queue, requests)
      /\ lifecycle \in Lifecycles /\ queue \in Seq(Requests) /\ Len(queue) <= QueueCapacity
  BY DEF IInv, TypeOK
<1>3. /\ rq \in [Requests -> Request] /\ Discipline(slots, rq)
      /\ \A q \in Requests : rq[q].state = requests[q].state
  BY <1>1, <1>2, AddLeaseCleanupKeeps
<1>4. /\ sl \in [Slots -> Slot] /\ \A t \in Slots : t # s => sl[t] = slots[t]
      /\ sl[s].state = state /\ sl[s].owner = slots[s].owner
      /\ sl[s].job = "none" /\ sl[s].lease = NoRequest
  <2>. DEFINE lost == [slots EXCEPT ![s].state = state]
  <2>1. sl = [lost EXCEPT ![s].failed = TRUE, ![s].lease = NoRequest]
    BY Zenon
  <2>2. state \in SlotStates
    BY DEF SlotStates
  <2>. HIDE DEF s
  <2>3. /\ lost \in [Slots -> Slot] /\ \A t \in Slots : t # s => lost[t] = slots[t]
        /\ lost[s].state = state /\ lost[s].owner = slots[s].owner /\ lost[s].job = slots[s].job
    BY <1>1, <1>2, <2>2 DEF Slot
  <2>. HIDE DEF lost, sl
  <2>. QED
    BY <1>1, <2>1, <2>3 DEF Slot
<1>5. QueueSound(queue, rq)
  BY <1>2, <1>3 DEF QueueSound
<1>6. /\ lifecycle' = IF lifecycle = "Accepting" THEN "Stopping" ELSE lifecycle
      /\ queue' = IF lifecycle = "Accepting" THEN <<>> ELSE queue
      /\ requests' = FinishLease(slots, IF lifecycle = "Accepting"
                                        THEN StopRequests(slots, rq) ELSE rq, s)
      /\ Pump(IF lifecycle = "Accepting" THEN StopSlots(sl) ELSE sl, "Stopping", NoJob)
      /\ UNCHANGED <<shutdownResult, database>>
  BY Zenon DEF SlotFailure
<1>. HIDE DEF s, sl, rq
<1>7. Serving(sl, NoJob) /\ NoJob \in Maintenance
  <2>1. sl[s].state \notin {"Closing", "Connecting"}
    BY <1>4
  <2>. QED
    BY <1>4, <2>1, FreeHelper DEF s
<1>8. CASE lifecycle = "Accepting"
  <2>. DEFINE stopped == StopSlots(slots)
              closed == StopSlots(sl)
              settled == StopRequests(slots, rq)
  <2>1. /\ requests' = FinishLease(slots, settled, s) /\ Pump(closed, "Stopping", NoJob)
        /\ queue' = <<>> /\ lifecycle' = "Stopping"
    BY <1>6, <1>8
  <2>2. /\ stopped \in [Slots -> Slot]
        /\ settled \in [Requests -> Request]
        /\ Discipline(stopped, settled)
        /\ QueueSound(<<>>, settled)
    BY <1>2, <1>3, <1>5, StopKeeps
  <2>3. /\ closed \in [Slots -> Slot] /\ closed[s] = sl[s]
        /\ \A t \in Slots : t # s => closed[t] = stopped[t]
        /\ stopped[s] = slots[s]
        /\ \A t \in Slots : closed[t].state \in {sl[t].state, "Needs_close", "Closed"}
    <3>1. closed \in [Slots -> Slot]
      BY <1>4, StopSlotsType
    <3>2. stopped[s] = slots[s]
      BY <1>1 DEF StopSlots
    <3>3. closed[s] = sl[s]
      BY <1>1, <1>4 DEF StopSlots
    <3>4. \A t \in Slots : t # s => closed[t] = stopped[t]
      BY <1>4 DEF StopSlots
    <3>5. \A t \in Slots : closed[t].state \in {sl[t].state, "Needs_close", "Closed"}
      BY <1>4 DEF StopSlots, Slot
    <3>. QED
      BY <3>1, <3>2, <3>3, <3>4, <3>5
  <2>4. Releases(stopped, s, closed)
    BY <1>1, <1>4, <2>3 DEF Releases
  <2>5. requests' = FinishLease(stopped, settled, s)
    BY <2>1, <2>3 DEF FinishLease
  <2>. HIDE DEF stopped, closed, settled
  <2>6. /\ requests' \in [Requests -> Request] /\ Discipline(closed, requests')
        /\ \A q \in Requests : requests'[q].state = "Queued" <=> settled[q].state = "Queued"
    BY <1>1, <2>2, <2>4, <2>5, FinishLeaseKeeps
  <2>7. Serving(closed, NoJob)
    BY <1>7, <2>3 DEF Serving, NoJob
  <2>8. QueueSound(queue', requests') /\ NoIdle(queue', closed)
    BY <2>1, <2>2, <2>6 DEF QueueSound, NoIdle
  <2>9. queue' \in Seq(Requests) /\ Len(queue') <= QueueCapacity /\ lifecycle' \in Lifecycles
    BY <2>1, LimitsAssumption DEF Lifecycles
  <2>. QED
    BY <1>6, <1>7, <2>1, <2>3, <2>6, <2>7, <2>8, <2>9, ContinuationKeeps
<1>9. CASE lifecycle # "Accepting"
  <2>1. /\ requests' = FinishLease(slots, rq, s) /\ Pump(sl, "Stopping", NoJob)
        /\ queue' = queue /\ lifecycle' = lifecycle
    BY <1>6, <1>9
  <2>2. Releases(slots, s, sl)
    BY <1>1, <1>4 DEF Releases
  <2>3. /\ requests' \in [Requests -> Request] /\ Discipline(sl, requests')
        /\ \A q \in Requests : requests'[q].state = "Queued" <=> rq[q].state = "Queued"
    BY <1>1, <1>2, <1>3, <2>1, <2>2, FinishLeaseKeeps
  <2>4. QueueSound(queue', requests') /\ NoIdle(queue', sl)
    BY <1>2, <1>4, <1>5, <2>1, <2>3 DEF QueueSound, NoIdle
  <2>. QED
    BY <1>2, <1>4, <1>6, <1>7, <2>1, <2>3, <2>4, ContinuationKeeps
<1>. QED
  BY <1>8, <1>9

-----------------------------------------------------------------------------
(* The invariant is inductive, and what it implies.                         *)

\* The pool as create hands it out satisfies the invariant.
LEMMA InitKeeps == Init => IInv
<1>. SUFFICES ASSUME Init
              PROVE  IInv
  OBVIOUS
<1>. USE DEF Init
<1>1. /\ slots \in [Slots -> Slot]
      /\ \A s \in Slots : /\ slots[s].state = "Idle" /\ slots[s].owner = "clean"
                          /\ slots[s].lease = NoRequest /\ slots[s].job = "none"
  BY DEF Slot, SlotStates, Owners
<1>2. requests \in [Requests -> Request] /\ \A r \in Requests : requests[r].state = "Absent"
  BY NewRequestType DEF Operations
<1>3. maintenance \in Maintenance /\ maintenance.job = "none"
  BY NoJobType DEF NoJob
<1>4. TypeOK
  <2>1. queue \in Seq(Requests) /\ Len(queue) <= QueueCapacity
    BY LimitsAssumption
  <2>2. lifecycle \in Lifecycles
    BY DEF Lifecycles
  <2>3. shutdownResult \in {"None", "Ok", "Error"} /\ database \in {"open", "closed"}
    OBVIOUS
  <2>. HIDE DEF Init
  <2>. QED
    BY <1>1, <1>2, <1>3, <2>1, <2>2, <2>3 DEF TypeOK
<1>5. Discipline(slots, requests)
  BY <1>1, <1>2, LimitsAssumption DEF Discipline, SlotDiscipline
<1>6. Serving(slots, maintenance)
  BY <1>1, <1>3 DEF Serving
<1>7. QueueSound(queue, requests) /\ NoIdle(queue, slots)
  BY <1>2 DEF QueueSound, NoIdle
<1>8. Pumped(slots, maintenance, lifecycle)
  BY <1>1 DEF Pumped, Needing
<1>. QED
  BY <1>4, <1>5, <1>6, <1>7, <1>8 DEF IInv

\* Every step of the scheduler, a helper or a caller keeps the invariant.
LEMMA NextKeeps == IInv /\ [Next]_vars => IInv'
<1>. SUFFICES ASSUME IInv, [Next]_vars
              PROVE  IInv'
  OBVIOUS
<1>1. ASSUME NEW r \in Requests, Caller(r)
      PROVE  IInv'
  BY <1>1, AdmitIdleStep, AdmitQueuedStep, ForgetStep, CancelQueuedStep, CancelActiveStep
     DEF Caller
<1>2. CASE Shutdown
  BY <1>2, ShutdownStep
<1>3. ASSUME NEW s \in Slots, Worker(s) \/ Settle(s)
      PROVE  IInv'
  BY <1>3, WorkerStep, SettleReuseStep, SettleRetireStep DEF Settle
<1>4. CASE MaintenanceRun
  BY <1>4, MaintenanceRunStep
<1>5. CASE MaintenanceDone
  <2>1. CASE CloseFailed
    BY <2>1, SlotFailureStep DEF CloseFailed
  <2>2. CASE ConnectFailed
    BY <2>2, SlotFailureStep DEF ConnectFailed
  <2>. QED
    BY <1>5, <2>1, <2>2, CloseDoneStep, ConnectDoneStep, DatabaseDoneStep DEF MaintenanceDone
<1>6. CASE UNCHANGED vars
  BY <1>6 DEF vars, IInv, TypeOK, Discipline, Serving, QueueSound, NoIdle, Pumped, Needing,
     AllClosed
<1>. QED
  BY <1>1, <1>2, <1>3, <1>4, <1>5, <1>6 DEF Next

\* The inductive invariant holds in every reachable state of the pool, for every
\* number of connections, queue capacity and set of requests.
THEOREM PoolInvariant == Spec => []IInv
  BY InitKeeps, NextKeeps, PTL DEF Spec

\* Types are correct in every reachable state; in particular the queue never
\* holds more than queue_capacity requests and no result is published that
\* finish could not have classified.
THEOREM TypeCorrect == Spec => []TypeOK
<1>1. IInv => TypeOK
  BY DEF IInv
<1>. QED
  BY <1>1, PoolInvariant, PTL

\* The Option.value_exn calls and asserts of dispatch, pump and maintenance_job
\* never fail: slots, their connections, their helpers' work and their requests
\* agree in every reachable state.
THEOREM LeasesSound == Spec => []LeaseDiscipline
<1>1. IInv => LeaseDiscipline
  <2>. SUFFICES ASSUME IInv
                PROVE  LeaseDiscipline
    OBVIOUS
  <2>1. Discipline(slots, requests)
    BY DEF IInv
  <2>2. \A r \in Requests : HeldBy(slots, r) # {} <=> \E s \in Slots : slots[s].lease = r
    BY DEF HeldBy
  <2>. QED
    BY <2>1, <2>2 DEF LeaseDiscipline, Discipline, SlotDiscipline
<1>. QED
  BY <1>1, PoolInvariant, PTL

\* No handler forgets to call dispatch_waiting or pump: an idle slot never stands
\* before a queue, and a free maintenance helper has nothing to do.
THEOREM NothingIsForgotten == Spec => []NothingForgotten
<1>1. IInv => NothingForgotten
  BY DEF IInv, NoIdle, Pumped, NothingForgotten
<1>. QED
  BY <1>1, PoolInvariant, PTL

-----------------------------------------------------------------------------
(* What a published result says: the invariant behind CancellationWins.     *)

\* A record tells the truth about its request: it has no outcome before its work came
\* back, success is the outcome only of work that returned, and what was published
\* agrees with the latch and with how far the work had come.
Honest(q) ==
    /\ q.state = "Queued" => q.execution = "Awaiting_entry"
    /\ q.state \in {"Queued", "Dispatched"} => q.outcome = NoOutcome
    /\ q.outcome = "Ok" => q.execution = "Returned"
    /\ q.state = "Finished" =>
        /\ q.cancelled => q.result \in {"Cancelled", "During_cancellation"}
        /\ q.result = "Pool_shutdown" => q.execution = "Awaiting_entry"
        /\ q.result = "Ok" => q.execution = "Returned"

AllHonest(rq) == \A r \in Requests : Honest(rq[r])

\* A helper hands success back only for work that returned.
JobsHonest(sl, rq) ==
    \A s \in Slots : sl[s].job = "Ok" => rq[sl[s].lease].execution = "Returned"

Honesty == AllHonest(requests) /\ JobsHonest(slots, requests)

\* No slot of sl2 holds a success that it did not hold in sl, for the same request.
NoNewSuccess(sl, sl2) ==
    \A s \in Slots : sl2[s].job = "Ok" => sl[s].job = "Ok" /\ sl2[s].lease = sl[s].lease

SameExecution(rq, rq2) == \A r \in Requests : rq2[r].execution = rq[r].execution

\* Successes stay honest while requests do not move and no slot claims one.
LEMMA JobsStayHonest ==
    ASSUME NEW sl \in [Slots -> Slot], NEW sl2 \in [Slots -> Slot], NEW rq, NEW rq2,
           Discipline(sl, rq), JobsHonest(sl, rq), NoNewSuccess(sl, sl2), SameExecution(rq, rq2)
    PROVE  JobsHonest(sl2, rq2)
<1>. SUFFICES ASSUME NEW s \in Slots, sl2[s].job = "Ok"
              PROVE  rq2[sl2[s].lease].execution = "Returned"
  BY DEF JobsHonest
<1>1. sl[s].job = "Ok" /\ sl2[s].lease = sl[s].lease
  BY DEF NoNewSuccess
<1>2. sl[s].lease \in Requests
  BY <1>1 DEF Discipline, SlotDiscipline, Slot
<1>. QED
  BY <1>1, <1>2 DEF JobsHonest, SameExecution

\* pump touches no job, lease, owner or failure of a slot.
LEMMA PumpTouches ==
    ASSUME NEW sl \in [Slots -> Slot], NEW lc, NEW busy, Pump(sl, lc, busy)
    PROVE  \A s \in Slots :
             /\ slots'[s].job = sl[s].job /\ slots'[s].lease = sl[s].lease
             /\ slots'[s].owner = sl[s].owner /\ slots'[s].failed = sl[s].failed
             /\ slots'[s].state # sl[s].state => slots'[s].state \in {"Closing", "Connecting"}
<1>1. CASE slots' = sl
  BY <1>1
<1>2. CASE Needing(sl) # {} /\ MaintenanceJob(sl, Min(Needing(sl)))
  <2>. DEFINE s == Min(Needing(sl))
  <2>1. s \in Slots
    BY <1>2, MinIsMember DEF Needing
  <2>2. slots' = [sl EXCEPT ![s].state = IF sl[s].state = "Needs_close" THEN "Closing" ELSE "Connecting"]
    BY <1>2 DEF MaintenanceJob
  <2>. HIDE DEF s
  <2>. QED
    BY <2>1, <2>2 DEF Slot
<1>. QED
  BY <1>1, <1>2 DEF Pump

\* finish classifies an outcome truthfully.
LEMMA FinishHonest ==
    ASSUME NEW q \in Request, NEW result \in Outcomes \cup {"Pool_shutdown"},
           result = "Ok" => q.execution = "Returned",
           result = "Pool_shutdown" => q.execution = "Awaiting_entry"
    PROVE  /\ Honest(Finish(q, result))
           /\ Finish(q, result).execution = q.execution
<1>. DEFINE f == Finish(q, result)
<1>1. /\ f.state = "Finished" /\ f.outcome = NoOutcome /\ f.execution = q.execution
      /\ f.cancelled = q.cancelled /\ f.result = Classify(q, result)
  BY DEF Finish, Request
<1>. HIDE DEF f
<1>2. /\ q.cancelled => f.result \in {"Cancelled", "During_cancellation"}
      /\ ~q.cancelled => f.result = result
  BY <1>1 DEF Classify
<1>3. f.result = "Pool_shutdown" => q.execution = "Awaiting_entry"
  BY <1>2
<1>4. f.result = "Ok" => q.execution = "Returned"
  BY <1>2
<1>. QED
  BY <1>1, <1>2, <1>3, <1>4 DEF f, Honest, NoOutcome

\* The latch makes no unpublished record a lie.
LEMMA LatchHonest ==
    ASSUME NEW q \in Request, Honest(q), q.state # "Finished"
    PROVE  Honest(Latch(q)) /\ Latch(q).execution = q.execution
  BY DEF Latch, Request, Honest

\* finish_lease publishes the truth.
LEMMA FinishLeaseHonest ==
    ASSUME NEW sl \in [Slots -> Slot], NEW rq \in [Requests -> Request], NEW s \in Slots,
           Discipline(sl, rq), sl[s].state # "Leased", AllHonest(rq)
    PROVE  AllHonest(FinishLease(sl, rq, s)) /\ SameExecution(rq, FinishLease(sl, rq, s))
<1>. DEFINE rq2 == FinishLease(sl, rq, s)
<1>1. ASSUME NEW r \in Requests
      PROVE  Honest(rq2[r]) /\ rq2[r].execution = rq[r].execution
  <2>1. CASE r = sl[s].lease
    <3>1. rq[r] \in Request /\ rq[r].outcome \in Outcomes /\ Honest(rq[r])
      BY <2>1, LimitsAssumption DEF Discipline, SlotDiscipline, Request, AllHonest
    <3>2. rq2[r] = Finish(rq[r], rq[r].outcome)
      BY <2>1 DEF FinishLease
    <3>3. rq[r].outcome = "Ok" => rq[r].execution = "Returned"
      BY <3>1 DEF Honest
    <3>4. rq[r].outcome # "Pool_shutdown"
      BY <3>1 DEF Outcomes
    <3>. QED
      BY <3>1, <3>2, <3>3, <3>4, FinishHonest
  <2>2. CASE r # sl[s].lease
    BY <2>2 DEF FinishLease, AllHonest
  <2>. QED
    BY <2>1, <2>2
<1>. QED
  BY <1>1 DEF AllHonest, SameExecution

\* add_lease_cleanup turns outcomes into failures only.
LEMMA AddLeaseCleanupHonest ==
    ASSUME NEW sl \in [Slots -> Slot], NEW rq \in [Requests -> Request], NEW s \in Slots,
           Discipline(sl, rq), sl[s].state # "Leased", AllHonest(rq)
    PROVE  AllHonest(AddLeaseCleanup(sl, rq, s)) /\ SameExecution(rq, AddLeaseCleanup(sl, rq, s))
<1>. DEFINE rq2 == AddLeaseCleanup(sl, rq, s)
<1>1. ASSUME NEW r \in Requests
      PROVE  Honest(rq2[r]) /\ rq2[r].execution = rq[r].execution
  <2>0. rq[r] \in Request /\ Honest(rq[r])
    BY DEF AllHonest
  <2>1. CASE r = sl[s].lease
    <3>1. rq[r].state = "Settling"
      BY <2>1, LimitsAssumption DEF Discipline, SlotDiscipline
    <3>2. rq2[r] = [rq[r] EXCEPT !.outcome = "Failed"]
      BY <2>1 DEF AddLeaseCleanup
    <3>. QED
      BY <2>0, <3>1, <3>2 DEF Honest, Request
  <2>2. CASE r # sl[s].lease
    BY <2>0, <2>2 DEF AddLeaseCleanup
  <2>. QED
    BY <2>1, <2>2
<1>. QED
  BY <1>1 DEF AllHonest, SameExecution

\* stop publishes Pool_shutdown only for work that never began.
LEMMA StopHonest ==
    ASSUME NEW sl \in [Slots -> Slot], NEW rq \in [Requests -> Request],
           queue \in Seq(Requests), Discipline(sl, rq), QueueSound(queue, rq), AllHonest(rq)
    PROVE  AllHonest(StopRequests(sl, rq)) /\ SameExecution(rq, StopRequests(sl, rq))
<1>. DEFINE rq2 == StopRequests(sl, rq)
<1>1. ASSUME NEW r \in Requests
      PROVE  Honest(rq2[r]) /\ rq2[r].execution = rq[r].execution
  <2>1. Queued(r) <=> rq[r].state = "Queued"
    BY DEF QueueSound, Queued, Contains
  <2>2. rq[r] \in Request /\ Honest(rq[r])
    BY DEF AllHonest
  <2>3. CASE rq[r].state = "Queued"
    <3>1. rq2[r] = Finish(rq[r], "Pool_shutdown")
      BY <2>1, <2>3 DEF StopRequests
    <3>2. rq[r].execution = "Awaiting_entry"
      BY <2>2, <2>3 DEF Honest
    <3>. QED
      BY <2>2, <3>1, <3>2, FinishHonest
  <2>4. CASE rq[r].state # "Queued" /\ \E s \in HeldBy(sl, r) : sl[s].state = "Needs_connect"
    <3>1. rq2[r] = Finish(Latch(rq[r]), rq[r].outcome)
      BY <2>1, <2>4 DEF StopRequests
    <3>2. PICK s \in Slots : sl[s].lease = r /\ sl[s].state = "Needs_connect"
      BY <2>4 DEF HeldBy
    <3>3. rq[r].outcome \in Outcomes
      BY <2>2, <3>2, LimitsAssumption DEF Discipline, SlotDiscipline, Request
    <3>4. Latch(rq[r]) \in Request /\ Latch(rq[r]).execution = rq[r].execution
      BY <2>2 DEF Latch, Request
    <3>5. rq[r].outcome = "Ok" => rq[r].execution = "Returned"
      BY <2>2 DEF Honest
    <3>6. rq[r].outcome # "Pool_shutdown"
      BY <3>3 DEF Outcomes
    <3>. QED
      BY <3>1, <3>3, <3>4, <3>5, <3>6, FinishHonest
  <2>5. CASE rq[r].state # "Queued" /\ (\A s \in HeldBy(sl, r) : sl[s].state # "Needs_connect")
             /\ HeldBy(sl, r) # {}
    <3>1. rq2[r] = Latch(rq[r])
      BY <2>1, <2>5 DEF StopRequests
    <3>2. rq[r].state # "Finished"
      BY <2>5 DEF HeldBy, Discipline
    <3>. QED
      BY <2>2, <3>1, <3>2, LatchHonest
  <2>6. CASE rq[r].state # "Queued" /\ HeldBy(sl, r) = {}
    BY <2>1, <2>2, <2>6 DEF StopRequests
  <2>. QED
    BY <2>3, <2>4, <2>5, <2>6
<1>. QED
  BY <1>1 DEF AllHonest, SameExecution

\* dispatch_waiting hands out requests that never ran.
LEMMA WaitingHonest ==
    ASSUME NEW sl \in [Slots -> Slot], NEW rq \in [Requests -> Request], NEW s \in Slots,
           queue \in Seq(Requests), sl[s].state = "Idle",
           queue # <<>> => \A t \in Slots : t # s => sl[t].state # "Idle",
           QueueSound(queue, rq), AllHonest(rq)
    PROVE  /\ AllHonest(WaitingRequests(sl, rq)) /\ SameExecution(rq, WaitingRequests(sl, rq))
           /\ NoNewSuccess(sl, WaitingSlots(sl))
<1>1. CASE queue = <<>>
  <2>1. WaitingSlots(sl) = sl /\ WaitingRequests(sl, rq) = rq
    BY <1>1, WaitingIs
  <2>. QED
    BY <2>1 DEF SameExecution, NoNewSuccess
<1>2. CASE queue # <<>>
  <2>0. PICK r \in Requests : r = queue[1]
    BY <1>2, EmptySeq, LenProperties, ElementOfSeq
  <2>9. rq[r].state = "Queued"
    <3>1. Len(queue) \in Nat /\ Len(queue) # 0
      BY <1>2, EmptySeq, LenProperties
    <3>. QED
      BY <2>0, <3>1 DEF QueueSound
  <2>1. /\ WaitingSlots(sl) = [sl EXCEPT ![s] = DispatchedSlot(sl[s], r)]
        /\ WaitingRequests(sl, rq) = [rq EXCEPT ![r] = DispatchedRequest(rq[r])]
    <3>1. /\ sl \in [Slots -> Slot] /\ rq \in [Requests -> Request] /\ queue \in Seq(Requests)
          /\ sl[s].state = "Idle" /\ \A t \in Slots : t # s => sl[t].state # "Idle"
      BY <1>2
    <3>2. /\ WaitingSlots(sl) = [sl EXCEPT ![s] = DispatchedSlot(sl[s], queue[1])]
          /\ WaitingRequests(sl, rq) = [rq EXCEPT ![queue[1]] = DispatchedRequest(rq[queue[1]])]
      BY <1>2, <3>1, WaitingIs
    <3>. QED
      BY <2>0, <3>2
  <2>2. NoNewSuccess(sl, WaitingSlots(sl))
    BY <2>1, DispatchedSlotIs DEF NoNewSuccess
  <2>3. ASSUME NEW q \in Requests
        PROVE  /\ Honest(WaitingRequests(sl, rq)[q])
               /\ WaitingRequests(sl, rq)[q].execution = rq[q].execution
    <3>1. CASE q = r
      <4>1. rq[r] \in Request /\ Honest(rq[r])
        BY DEF AllHonest
      <4>2. WaitingRequests(sl, rq)[q] = [rq[r] EXCEPT !.state = "Dispatched"]
        BY <2>1, <3>1 DEF DispatchedRequest
      <4>. QED
        BY <2>9, <3>1, <4>1, <4>2 DEF Honest, Request
    <3>2. CASE q # r
      BY <2>1, <3>2 DEF AllHonest
    <3>. QED
      BY <3>1, <3>2
  <2>. QED
    BY <2>2, <2>3 DEF AllHonest, SameExecution
<1>. QED
  BY <1>1, <1>2

\* An operation on a request no slot holds: its record changes, the slots do not claim it.
LEMMA CallerHonest ==
    ASSUME IInv, Honesty, NEW r \in Requests, Caller(r)
    PROVE  Honesty'
<1>1. /\ slots \in [Slots -> Slot] /\ requests \in [Requests -> Request]
      /\ Discipline(slots, requests) /\ AllHonest(requests) /\ JobsHonest(slots, requests)
  BY DEF IInv, TypeOK, Honesty
<1>2. ASSUME NEW q \in Request, Honest(q), requests' = [requests EXCEPT ![r] = q],
             \/ slots' = slots /\ (requests[r].state \in {"Absent", "Queued", "Finished"} \/ q.execution = requests[r].execution)
             \/ /\ requests[r].state = "Absent"
                /\ \E s \in Slots : slots[s].state = "Idle" /\ slots' = [slots EXCEPT ![s] = DispatchedSlot(slots[s], r)]
      PROVE  Honesty'
  <2>1. AllHonest(requests')
    BY <1>1, <1>2 DEF AllHonest
  <2>2. JobsHonest(slots', requests')
    <3>. SUFFICES ASSUME NEW s \in Slots, slots'[s].job = "Ok"
                  PROVE  requests'[slots'[s].lease].execution = "Returned"
      BY DEF JobsHonest
    <3>1. slots'[s] = slots[s]
      BY <1>1, <1>2, DispatchedSlotIs
    <3>2. slots[s].lease \in Requests /\ requests[slots[s].lease].state = "Dispatched"
      BY <1>1, <3>1 DEF Discipline, SlotDiscipline, Slot
    <3>. QED
      BY <1>1, <1>2, <3>1, <3>2 DEF JobsHonest
  <2>. QED
    BY <2>1, <2>2 DEF Honesty
<1>3. ASSUME NEW operation \in Operations, AdmitIdle(r, operation)
      PROVE  Honesty'
  <2>1. DispatchedRequest(NewRequest(operation)) \in Request
        /\ Honest(DispatchedRequest(NewRequest(operation)))
    BY DEF DispatchedRequest, NewRequest, Request, RequestStates, Executions, Honest, NoOutcome
  <2>2. PICK s \in Slots : slots[s].state = "Idle" /\ slots' = [slots EXCEPT ![s] = DispatchedSlot(slots[s], r)]
    <3>1. IdleSlots \in SUBSET Slots /\ \A s \in IdleSlots : slots[s].state = "Idle"
      BY DEF IdleSlots
    <3>2. Min(IdleSlots) \in IdleSlots
      BY <1>3, <3>1, MinIsMember DEF AdmitIdle
    <3>. QED
      BY <1>3, <3>1, <3>2 DEF AdmitIdle
  <2>. QED
    BY <1>2, <1>3, <2>1, <2>2 DEF AdmitIdle
<1>4. ASSUME NEW operation \in Operations, AdmitQueued(r, operation)
      PROVE  Honesty'
  <2>1. NewRequest(operation) \in Request /\ Honest(NewRequest(operation))
    BY DEF NewRequest, Request, RequestStates, Executions, Honest, NoOutcome
  <2>. QED
    BY <1>2, <1>4, <2>1 DEF AdmitQueued
<1>5. CASE Forget(r)
  <2>1. AbsentRequest \in Request /\ Honest(AbsentRequest)
    BY DEF AbsentRequest, NewRequest, Request, RequestStates, Executions, Honest, NoOutcome,
       NoOperation
  <2>. QED
    BY <1>2, <1>5, <2>1 DEF Forget
<1>6. CASE CancelQueued(r)
  <2>1. Latch(requests[r]) \in Request
    BY <1>1, LatchType
  <2>2. /\ Finish(Latch(requests[r]), "Cancelled") \in Request
        /\ Honest(Finish(Latch(requests[r]), "Cancelled"))
    BY <2>1, FinishType, FinishHonest DEF Outcomes
  <2>. QED
    BY <1>2, <1>6, <2>2 DEF CancelQueued
<1>7. CASE CancelActive(r)
  <2>1. /\ Latch(requests[r]) \in Request /\ Honest(Latch(requests[r]))
        /\ Latch(requests[r]).execution = requests[r].execution
    BY <1>1, <1>7, LatchType, LatchHonest DEF CancelActive, AllHonest
  <2>. QED
    BY <1>2, <1>7, <2>1 DEF CancelActive
<1>. QED
  BY <1>3, <1>4, <1>5, <1>6, <1>7 DEF Caller

\* shutdown: stop, then pump.
LEMMA ShutdownHonest ==
    ASSUME IInv, Honesty, Shutdown
    PROVE  Honesty'
<1>. DEFINE sl == StopSlots(slots)
<1>1. /\ slots \in [Slots -> Slot] /\ requests \in [Requests -> Request] /\ queue \in Seq(Requests)
      /\ Discipline(slots, requests) /\ QueueSound(queue, requests)
      /\ AllHonest(requests) /\ JobsHonest(slots, requests)
  BY DEF IInv, TypeOK, Honesty
<1>2. requests' = StopRequests(slots, requests) /\ Pump(sl, "Stopping", maintenance)
  BY DEF Shutdown
<1>3. AllHonest(requests') /\ SameExecution(requests, requests')
  BY <1>1, <1>2, StopHonest
<1>4. sl \in [Slots -> Slot] /\ NoNewSuccess(slots, sl)
  <2>1. \A s \in Slots : slots[s].job = "Ok" => slots[s].state = "Leased"
    BY <1>1 DEF Discipline, SlotDiscipline
  <2>. QED
    BY <1>1, <2>1, StopSlotsType DEF StopSlots, Slot, NoNewSuccess
<1>5. slots' \in [Slots -> Slot] /\ NoNewSuccess(slots, slots')
  <2>1. slots' \in [Slots -> Slot]
    <3>1. IInv'
      BY ShutdownStep
    <3>. QED
      BY <3>1 DEF IInv, TypeOK
  <2>. QED
    BY <1>2, <1>4, <2>1, PumpTouches DEF NoNewSuccess
<1>6. JobsHonest(slots', requests')
  BY <1>1, <1>3, <1>5, JobsStayHonest
<1>. QED
  BY <1>3, <1>6 DEF Honesty

\* A helper enters the gate, returns or never starts.
LEMMA WorkerHonest ==
    ASSUME IInv, Honesty, NEW s \in Slots, Worker(s)
    PROVE  Honesty'
<1>1. /\ slots \in [Slots -> Slot] /\ requests \in [Requests -> Request]
      /\ Discipline(slots, requests) /\ AllHonest(requests) /\ JobsHonest(slots, requests)
  BY DEF IInv, TypeOK, Honesty
<1>2. slots[s].job = "handed"
  BY DEF Worker, WorkerEnter, WorkerReturn, OffloadUnavailable
<1>3. PICK r \in Requests : r = slots[s].lease /\ requests[r].state = "Dispatched"
  BY <1>2, LeasedSlot
<1>4. ASSUME NEW execution, NEW slot,
             requests' = [requests EXCEPT ![r].execution = execution],
             slots' = [slots EXCEPT ![s] = slot],
             slot.job = "Ok" => execution = "Returned" /\ slot.lease = r
      PROVE  Honesty'
  <2>1. AllHonest(requests')
    <3>1. requests[r] \in Request /\ Honest(requests[r])
      BY <1>1 DEF AllHonest
    <3>2. requests[r].outcome = NoOutcome
      BY <1>3, <3>1 DEF Honest
    <3>3. requests'[r] = [requests[r] EXCEPT !.execution = execution]
      BY <1>1, <1>4
    <3>4. Honest(requests'[r])
      BY <1>3, <3>1, <3>2, <3>3 DEF Honest, Request, NoOutcome
    <3>. QED
      BY <1>1, <1>4, <3>4 DEF AllHonest
  <2>2. JobsHonest(slots', requests')
    <3>. SUFFICES ASSUME NEW t \in Slots, slots'[t].job = "Ok"
                  PROVE  requests'[slots'[t].lease].execution = "Returned"
      BY DEF JobsHonest
    <3>1. CASE t = s
      <4>1. slots'[t] = slot
        BY <1>1, <1>4, <3>1
      <4>. QED
        BY <1>1, <1>4, <4>1 DEF Request
    <3>2. CASE t # s
      <4>1. slots'[t] = slots[t]
        BY <1>1, <1>4, <3>2
      <4>2. slots[t].lease \in Requests /\ slots[t].lease # r
        BY <1>1, <1>3, <3>2, <4>1 DEF Discipline, SlotDiscipline, Slot
      <4>. QED
        BY <1>1, <1>4, <4>1, <4>2 DEF JobsHonest
    <3>. QED
      BY <3>1, <3>2
  <2>. QED
    BY <2>1, <2>2 DEF Honesty
<1>5. CASE WorkerEnter(s)
  <2>1. CASE requests[r].cancelled
    <3>1. /\ requests' = [requests EXCEPT ![r].execution = "Returned"]
          /\ slots' = [slots EXCEPT ![s].job = "Cancelled"]
      BY <1>3, <1>5, <2>1 DEF WorkerEnter
    <3>2. [slots[s] EXCEPT !.job = "Cancelled"].job = "Cancelled"
      BY <1>1 DEF Slot
    <3>. QED
      BY <1>4, <3>1, <3>2
  <2>2. CASE ~requests[r].cancelled
    <3>1. requests' = [requests EXCEPT ![r].execution = "Executing"] /\ slots' = slots
      BY <1>3, <1>5, <2>2 DEF WorkerEnter
    <3>2. slots' = [slots EXCEPT ![s] = slots[s]]
      BY <1>1, <3>1
    <3>. QED
      BY <1>2, <1>4, <3>1, <3>2
  <2>. QED
    BY <2>1, <2>2
<1>6. CASE WorkerReturn(s)
  <2>1. PICK outcome \in Outcomes :
          slots' = [slots EXCEPT ![s].job = outcome,
                      ![s].owner = IF requests[r].operation = "Execute" /\ outcome = "Ok"
                                   THEN slots[s].owner ELSE "tainted"]
    BY <1>3, <1>6 DEF WorkerReturn
  <2>2. requests' = [requests EXCEPT ![r].execution = "Returned"]
    BY <1>3, <1>6 DEF WorkerReturn
  <2>. DEFINE slot == [[slots[s] EXCEPT !.job = outcome] EXCEPT
                        !.owner = IF requests[r].operation = "Execute" /\ outcome = "Ok"
                                  THEN slots[s].owner ELSE "tainted"]
  <2>3. slots' = [slots EXCEPT ![s] = slot]
    BY <1>1, <2>1
  <2>4. slot.lease = r
    BY <1>1, <1>3 DEF Slot
  <2>. HIDE DEF slot
  <2>. QED
    BY <1>4, <2>2, <2>3, <2>4
<1>7. CASE OffloadUnavailable(s)
  <2>1. slots' = [slots EXCEPT ![s].job = "Failed"] /\ requests' = requests
    BY <1>7 DEF OffloadUnavailable
  <2>2. requests' = [requests EXCEPT ![r].execution = requests[r].execution]
    BY <1>1, <2>1 DEF Request
  <2>3. [slots[s] EXCEPT !.job = "Failed"].job = "Failed"
    BY <1>1 DEF Slot
  <2>. QED
    BY <1>4, <2>1, <2>2, <2>3
<1>. QED
  BY <1>5, <1>6, <1>7 DEF Worker

\* The worker's result becomes the outcome of its request.
LEMMA SettlingHonest ==
    ASSUME IInv, Honesty, NEW s \in Slots, slots[s].job \in Outcomes
    PROVE  AllHonest(SettlingRequest(s)) /\ SameExecution(requests, SettlingRequest(s))
<1>. DEFINE rq == SettlingRequest(s)
<1>1. slots \in [Slots -> Slot] /\ requests \in [Requests -> Request]
  BY DEF IInv, TypeOK
<1>2. PICK r \in Requests : r = slots[s].lease
  BY LeasedSlot DEF Outcomes
<1>3. /\ rq[r].state = "Settling" /\ rq[r].outcome = slots[s].job
      /\ rq[r].execution = requests[r].execution
      /\ \A q \in Requests : q # r => rq[q] = requests[q]
  BY <1>1, <1>2 DEF SettlingRequest, Request
<1>. HIDE DEF rq
<1>4. Honest(rq[r])
  BY <1>2, <1>3 DEF Honesty, JobsHonest, Honest
<1>. QED
  BY <1>3, <1>4 DEF Honesty, AllHonest, SameExecution, rq

\* The continuation of dispatch, whether the connection is reused or retired.
LEMMA SettleHonest ==
    ASSUME IInv, Honesty, NEW s \in Slots, Settle(s)
    PROVE  Honesty'
<1>1. /\ slots \in [Slots -> Slot] /\ requests \in [Requests -> Request] /\ queue \in Seq(Requests)
      /\ Discipline(slots, requests) /\ QueueSound(queue, requests) /\ NoIdle(queue, slots)
      /\ JobsHonest(slots, requests)
  BY DEF IInv, TypeOK, Honesty
<1>2. slots[s].job \in Outcomes
  BY DEF Settle, SettleReuse, SettleRetire
<1>3. AllHonest(SettlingRequest(s)) /\ SameExecution(requests, SettlingRequest(s))
  BY <1>2, SettlingHonest
<1>4. /\ Retired(s) \in [Slots -> Slot] /\ SettlingRequest(s) \in [Requests -> Request]
      /\ Discipline(Retired(s), SettlingRequest(s))
      /\ \A q \in Requests : SettlingRequest(s)[q].state = "Queued" <=> requests[q].state = "Queued"
      /\ \A t \in Slots : t # s => Retired(s)[t] = slots[t]
      /\ Retired(s)[s].state = "Needs_close" /\ Retired(s)[s].lease = slots[s].lease
  BY <1>2, SettlingKeeps
<1>5. slots' \in [Slots -> Slot]
  <2>1. IInv'
    BY SettleReuseStep, SettleRetireStep DEF Settle
  <2>. QED
    BY <2>1 DEF IInv, TypeOK
<1>6. CASE SettleRetire(s)
  <2>1. requests' = SettlingRequest(s) /\ Pump(Retired(s), lifecycle, maintenance)
    BY <1>6, Zenon DEF SettleRetire, Retired
  <2>2. NoNewSuccess(slots, Retired(s))
    <3>1. Retired(s)[s].job = "none"
      BY <1>4 DEF Discipline, SlotDiscipline
    <3>. QED
      BY <1>4, <3>1 DEF NoNewSuccess
  <2>3. NoNewSuccess(slots, slots')
    BY <1>4, <2>1, <2>2, PumpTouches DEF NoNewSuccess
  <2>4. JobsHonest(slots', requests')
    BY <1>1, <1>3, <1>5, <2>1, <2>3, JobsStayHonest
  <2>. QED
    BY <1>3, <2>1, <2>4 DEF Honesty
<1>7. CASE SettleReuse(s)
  <2>. DEFINE sl == [slots EXCEPT ![s].state = "Idle", ![s].job = "none", ![s].lease = NoRequest]
              rq == FinishLease(slots, SettlingRequest(s), s)
  <2>1. slots' = WaitingSlots(sl) /\ requests' = WaitingRequests(sl, rq)
    BY <1>7 DEF SettleReuse
  <2>2. /\ sl \in [Slots -> Slot] /\ \A t \in Slots : t # s => sl[t] = slots[t]
        /\ sl[s].state = "Idle" /\ sl[s].lease = NoRequest /\ sl[s].job = "none"
        /\ sl[s].owner = slots[s].owner
    <3>. DEFINE free == [slots EXCEPT ![s].state = "Idle"]
    <3>1. sl = [free EXCEPT ![s].job = "none", ![s].lease = NoRequest]
      BY Zenon
    <3>2. /\ free \in [Slots -> Slot] /\ \A t \in Slots : t # s => free[t] = slots[t]
          /\ free[s].state = "Idle" /\ free[s].owner = slots[s].owner
      BY <1>1 DEF Slot, SlotStates
    <3>. HIDE DEF free, sl
    <3>. QED
      BY <3>1, <3>2 DEF Slot
  <2>. HIDE DEF sl
  <2>3. rq = FinishLease(Retired(s), SettlingRequest(s), s)
    BY <1>4 DEF FinishLease
  <2>. HIDE DEF rq
  <2>4. AllHonest(rq) /\ SameExecution(SettlingRequest(s), rq)
    BY <1>3, <1>4, <2>3, FinishLeaseHonest
  <2>5. /\ rq \in [Requests -> Request]
        /\ \A q \in Requests : rq[q].state = "Queued" <=> requests[q].state = "Queued"
    <3>1. Retired(s)[s].owner = slots[s].owner /\ slots[s].owner # "none"
      BY <1>2, SettlingKeeps
    <3>2. Releases(Retired(s), s, sl)
      BY <1>4, <2>2, <3>1 DEF Releases
    <3>3. /\ FinishLease(Retired(s), SettlingRequest(s), s) \in [Requests -> Request]
          /\ \A q \in Requests : FinishLease(Retired(s), SettlingRequest(s), s)[q].state = "Queued"
                                   <=> SettlingRequest(s)[q].state = "Queued"
      BY <1>4, <3>2, FinishLeaseKeeps
    <3>. QED
      BY <1>4, <2>3, <3>3
  <2>6. QueueSound(queue, rq) /\ (queue # <<>> => \A t \in Slots : t # s => sl[t].state # "Idle")
    BY <1>1, <2>2, <2>5 DEF QueueSound, NoIdle
  <2>7. /\ AllHonest(requests') /\ SameExecution(rq, requests')
        /\ NoNewSuccess(sl, slots')
    BY <1>1, <2>1, <2>2, <2>4, <2>5, <2>6, WaitingHonest
  <2>8. NoNewSuccess(slots, slots')
    BY <2>2, <2>7 DEF NoNewSuccess
  <2>9. SameExecution(requests, requests')
    BY <1>3, <2>4, <2>7 DEF SameExecution
  <2>10. JobsHonest(slots', requests')
    BY <1>1, <1>5, <2>8, <2>9, JobsStayHonest
  <2>. QED
    BY <2>7, <2>10 DEF Honesty
<1>. QED
  BY <1>6, <1>7 DEF Settle

\* The slots a maintenance continuation gives to pump: of slot s the state changed, the
\* owner perhaps, and the lease perhaps was given up; its helper has no job.
Continues(s, sl) ==
    /\ sl \in [Slots -> Slot]
    /\ \A t \in Slots : t # s => sl[t] = slots[t]
    /\ sl[s].job = slots[s].job
    /\ sl[s].lease \in {slots[s].lease, NoRequest}

\* Slot s is given an owner and a state, and keeps its lease or gives it up; or it is lost.
Kept(s, owner, state) == [[slots EXCEPT ![s].owner = owner] EXCEPT ![s].state = state]
Freed(s, owner, state) ==
    [[slots EXCEPT ![s].owner = owner] EXCEPT ![s].state = state, ![s].lease = NoRequest]
Lost(s, state) == [slots EXCEPT ![s].state = state, ![s].failed = TRUE, ![s].lease = NoRequest]

\* A continuation that gives slot s an owner and a state.
LEMMA OwnerAndState ==
    ASSUME slots \in [Slots -> Slot], NEW s \in Slots, NEW owner \in Owners, NEW state \in SlotStates
    PROVE  /\ Continues(s, Kept(s, owner, state))
           /\ Kept(s, owner, state)[s].lease = slots[s].lease
           /\ Kept(s, owner, state)[s].state = state
           /\ Kept(s, owner, state)[s].owner = owner
           /\ Kept(s, owner, state)[s].failed = slots[s].failed
           /\ Continues(s, Freed(s, owner, state))
           /\ Freed(s, owner, state)[s].lease = NoRequest
           /\ Freed(s, owner, state)[s].state = state
           /\ Freed(s, owner, state)[s].owner = owner
           /\ Freed(s, owner, state)[s].failed = slots[s].failed
<1>. DEFINE owned == [slots EXCEPT ![s].owner = owner]
            kept == Kept(s, owner, state)
            freed == Freed(s, owner, state)
<1>0. kept = [owned EXCEPT ![s].state = state] /\ freed = [owned EXCEPT ![s].state = state, ![s].lease = NoRequest]
  BY Zenon DEF Kept, Freed
<1>1. /\ owned \in [Slots -> Slot] /\ \A t \in Slots : t # s => owned[t] = slots[t]
      /\ owned[s].owner = owner /\ owned[s].job = slots[s].job /\ owned[s].lease = slots[s].lease
      /\ owned[s].failed = slots[s].failed
  BY DEF Slot
<1>. HIDE DEF owned, kept, freed
<1>2. /\ kept \in [Slots -> Slot] /\ \A t \in Slots : t # s => kept[t] = slots[t]
      /\ kept[s].owner = owner /\ kept[s].job = slots[s].job /\ kept[s].lease = slots[s].lease
      /\ kept[s].state = state /\ kept[s].failed = slots[s].failed
  BY <1>0, <1>1 DEF Slot
<1>3. freed = [kept EXCEPT ![s].lease = NoRequest]
  BY <1>0, Zenon
<1>4. /\ freed \in [Slots -> Slot] /\ \A t \in Slots : t # s => freed[t] = slots[t]
      /\ freed[s].owner = owner /\ freed[s].job = slots[s].job /\ freed[s].lease = NoRequest
      /\ freed[s].state = state /\ freed[s].failed = slots[s].failed
  BY <1>2, <1>3 DEF Slot
<1>. QED
  BY <1>2, <1>4 DEF Continues, kept, freed

\* A continuation that loses slot s.
LEMMA LostSlot ==
    ASSUME slots \in [Slots -> Slot], NEW s \in Slots, NEW state \in SlotStates
    PROVE  /\ Continues(s, Lost(s, state)) /\ Lost(s, state)[s].lease = NoRequest
           /\ Lost(s, state)[s].state = state /\ Lost(s, state)[s].failed
           /\ Lost(s, state)[s].owner = slots[s].owner
<1>. DEFINE one == [slots EXCEPT ![s].state = state]
            two == [one EXCEPT ![s].failed = TRUE]
            lost == Lost(s, state)
<1>1. /\ one \in [Slots -> Slot] /\ \A t \in Slots : t # s => one[t] = slots[t]
      /\ one[s].owner = slots[s].owner /\ one[s].job = slots[s].job /\ one[s].state = state
  BY DEF Slot
<1>2. lost = [two EXCEPT ![s].lease = NoRequest]
  BY Zenon DEF Lost
<1>. HIDE DEF one
<1>3. /\ two \in [Slots -> Slot] /\ \A t \in Slots : t # s => two[t] = slots[t]
      /\ two[s].owner = slots[s].owner /\ two[s].job = slots[s].job /\ two[s].state = state
      /\ two[s].failed
  BY <1>1 DEF Slot
<1>. HIDE DEF two, lost
<1>4. /\ lost \in [Slots -> Slot] /\ \A t \in Slots : t # s => lost[t] = slots[t]
      /\ lost[s].owner = slots[s].owner /\ lost[s].job = slots[s].job /\ lost[s].state = state
      /\ lost[s].failed /\ lost[s].lease = NoRequest
  BY <1>2, <1>3 DEF Slot
<1>. QED
  BY <1>4 DEF Continues, lost

\* Such a continuation claims no success.
LEMMA ContinuationClaimsNothing ==
    ASSUME IInv, maintenance.job \in {"close", "connect"}, NEW sl, Continues(maintenance.slot, sl)
    PROVE  NoNewSuccess(slots, sl) /\ NoNewSuccess(slots, StopSlots(sl))
<1>. DEFINE s == maintenance.slot
<1>1. s \in Slots /\ slots[s].job = "none"
  BY ServedSlot
<1>2. NoNewSuccess(slots, sl)
  BY <1>1 DEF Continues, NoNewSuccess
<1>3. \A t \in Slots : slots[t].job = "Ok" => slots[t].state = "Leased"
  BY DEF IInv, Discipline, SlotDiscipline
<1>4. \A t \in Slots : StopSlots(sl)[t].job = sl[t].job
  BY DEF StopSlots, Slot, Continues
<1>5. \A t \in Slots : t # s /\ slots[t].state = "Leased" => StopSlots(sl)[t].lease = slots[t].lease
  BY DEF StopSlots, Continues
<1>. QED
  BY <1>1, <1>2, <1>3, <1>4, <1>5 DEF NoNewSuccess

\* A failed close or connect is published as the failure it is.
LEMMA SlotFailureHonest ==
    ASSUME IInv, Honesty, maintenance.job \in {"close", "connect"}, NEW state \in SlotStates,
           slots' \in [Slots -> Slot], SlotFailure(maintenance.slot, state)
    PROVE  Honesty'
<1>. DEFINE s == maintenance.slot
            sl == Lost(s, state)
            rq == AddLeaseCleanup(slots, requests, s)
            accepting == lifecycle = "Accepting"
            stopped == IF accepting THEN StopRequests(slots, rq) ELSE rq
            pumped == IF accepting THEN StopSlots(sl) ELSE sl
<1>1. /\ slots \in [Slots -> Slot] /\ requests \in [Requests -> Request] /\ queue \in Seq(Requests)
      /\ Discipline(slots, requests) /\ QueueSound(queue, requests) /\ maintenance \in Maintenance
      /\ Serving(slots, maintenance) /\ AllHonest(requests) /\ JobsHonest(slots, requests)
  BY DEF IInv, TypeOK, Honesty
<1>2. s \in Slots /\ slots[s].state \in {"Closing", "Connecting"} /\ slots[s].job = "none"
  BY ServedSlot
<1>3. Continues(s, sl)
  BY <1>1, <1>2, LostSlot
<1>4. /\ requests' = FinishLease(slots, stopped, s)
      /\ Pump(pumped, "Stopping", NoJob)
  BY Zenon DEF SlotFailure, Lost
<1>5. /\ rq \in [Requests -> Request] /\ Discipline(slots, rq) /\ QueueSound(queue, rq)
      /\ AllHonest(rq) /\ SameExecution(requests, rq)
  <2>1. /\ rq \in [Requests -> Request] /\ Discipline(slots, rq)
        /\ \A r \in Requests : rq[r].state = requests[r].state
    BY <1>1, <1>2, AddLeaseCleanupKeeps
  <2>2. AllHonest(rq) /\ SameExecution(requests, rq)
    BY <1>1, <1>2, AddLeaseCleanupHonest
  <2>. QED
    BY <1>1, <2>1, <2>2 DEF QueueSound
<1>6. pumped \in [Slots -> Slot] /\ NoNewSuccess(slots, pumped)
  BY <1>3, StopSlotsType, ContinuationClaimsNothing DEF Continues
<1>. HIDE DEF s, sl, rq
<1>7. AllHonest(requests') /\ SameExecution(rq, requests')
  <2>1. CASE accepting
    <3>. DEFINE settled == StopRequests(slots, rq)
    <3>1. /\ StopSlots(slots) \in [Slots -> Slot] /\ settled \in [Requests -> Request]
          /\ Discipline(StopSlots(slots), settled)
      BY <1>1, <1>5, StopKeeps
    <3>2. AllHonest(settled) /\ SameExecution(rq, settled)
      BY <1>1, <1>5, StopHonest
    <3>3. StopSlots(slots)[s] = slots[s]
      BY <1>1, <1>2 DEF StopSlots
    <3>4. requests' = FinishLease(StopSlots(slots), settled, s)
      BY <1>4, <2>1, <3>3 DEF FinishLease
    <3>. HIDE DEF settled
    <3>5. AllHonest(requests') /\ SameExecution(settled, requests')
      BY <1>2, <3>1, <3>2, <3>3, <3>4, FinishLeaseHonest
    <3>. QED
      BY <3>2, <3>5 DEF SameExecution
  <2>2. CASE ~accepting
    BY <1>1, <1>2, <1>4, <1>5, <2>2, FinishLeaseHonest
  <2>. QED
    BY <2>1, <2>2
<1>8. NoNewSuccess(slots, slots')
  <2>. HIDE DEF pumped
  <2>. QED
    BY <1>4, <1>6, PumpTouches DEF NoNewSuccess
<1>9. JobsHonest(slots', requests')
  <2>1. SameExecution(requests, requests')
    BY <1>5, <1>7 DEF SameExecution
  <2>. QED
    BY <1>1, <1>8, <2>1, JobsStayHonest
<1>. QED
  BY <1>7, <1>9 DEF Honesty

\* The continuations of the maintenance jobs.
LEMMA MaintenanceHonest ==
    ASSUME IInv, Honesty, MaintenanceDone
    PROVE  Honesty'
<1>. DEFINE s == maintenance.slot
<1>1. /\ slots \in [Slots -> Slot] /\ requests \in [Requests -> Request] /\ queue \in Seq(Requests)
      /\ Discipline(slots, requests) /\ QueueSound(queue, requests) /\ NoIdle(queue, slots)
      /\ AllHonest(requests) /\ JobsHonest(slots, requests)
  BY DEF IInv, TypeOK, Honesty
<1>2. slots' \in [Slots -> Slot]
  <2>1. IInv'
    BY NextKeeps DEF Next
  <2>. QED
    BY <2>1 DEF IInv, TypeOK
<1>3. CASE CloseFailed \/ ConnectFailed
  BY <1>2, <1>3, SlotFailureHonest DEF CloseFailed, ConnectFailed, SlotStates
<1>4. CASE CloseDone
  <2>. DEFINE again == Kept(s, "none", "Needs_connect")
              done == Freed(s, "none", "Closed")
  <2>1. /\ maintenance.job = "close"
        /\ \/ Pump(again, lifecycle, NoJob) /\ UNCHANGED requests
           \/ requests' = FinishLease(slots, requests, s) /\ Pump(done, lifecycle, NoJob)
    BY <1>4, Zenon DEF CloseDone, Kept, Freed
  <2>2. s \in Slots /\ slots[s].state = "Closing"
    BY <2>1, ServedSlot
  <2>3. Continues(s, again) /\ Continues(s, done)
    BY <1>1, <2>2, OwnerAndState DEF Owners, SlotStates
  <2>4. NoNewSuccess(slots, again) /\ NoNewSuccess(slots, done)
    BY <2>1, <2>3, ContinuationClaimsNothing
  <2>5. AllHonest(requests') /\ SameExecution(requests, requests')
    BY <1>1, <2>1, <2>2, FinishLeaseHonest DEF SameExecution
  <2>. HIDE DEF again, done
  <2>6. NoNewSuccess(slots, slots')
    BY <2>1, <2>3, <2>4, PumpTouches DEF NoNewSuccess, Continues
  <2>. QED
    BY <1>1, <1>2, <2>5, <2>6, JobsStayHonest DEF Honesty
<1>5. CASE ConnectDone
  <2>. DEFINE idle == Freed(s, "clean", "Idle")
              late == Kept(s, "clean", "Needs_close")
              rq == FinishLease(slots, requests, s)
  <2>1. /\ maintenance.job = "connect"
        /\ \/ /\ requests' = WaitingRequests(idle, rq)
              /\ Pump(WaitingSlots(idle), lifecycle, NoJob)
           \/ Pump(late, lifecycle, NoJob) /\ UNCHANGED requests
    BY <1>5, Zenon DEF ConnectDone, Kept, Freed
  <2>2. s \in Slots /\ slots[s].state = "Connecting"
    BY <2>1, ServedSlot
  <2>3. Continues(s, idle) /\ Continues(s, late) /\ idle[s].state = "Idle"
        /\ idle[s].owner = "clean" /\ idle[s].lease = NoRequest
    BY <1>1, <2>2, OwnerAndState DEF Owners, SlotStates
  <2>4. NoNewSuccess(slots, idle) /\ NoNewSuccess(slots, late)
    BY <2>1, <2>3, ContinuationClaimsNothing
  <2>5. AllHonest(rq) /\ SameExecution(requests, rq)
    BY <1>1, <2>2, FinishLeaseHonest
  <2>. HIDE DEF idle, late
  <2>6. rq \in [Requests -> Request] /\ QueueSound(queue, rq)
    <3>1. Releases(slots, s, idle)
      BY <1>1, <2>2, <2>3 DEF Releases, Continues, Discipline, SlotDiscipline
    <3>2. /\ rq \in [Requests -> Request]
          /\ \A q \in Requests : rq[q].state = "Queued" <=> requests[q].state = "Queued"
      BY <1>1, <2>2, <3>1, FinishLeaseKeeps
    <3>. QED
      BY <1>1, <3>2 DEF QueueSound
  <2>. HIDE DEF rq
  <2>7. /\ AllHonest(WaitingRequests(idle, rq)) /\ SameExecution(rq, WaitingRequests(idle, rq))
        /\ NoNewSuccess(idle, WaitingSlots(idle)) /\ WaitingSlots(idle) \in [Slots -> Slot]
    <3>1. queue # <<>> => \A t \in Slots : t # s => idle[t].state # "Idle"
      BY <1>1, <2>3 DEF NoIdle, Continues
    <3>2. idle \in [Slots -> Slot]
      BY <2>3 DEF Continues
    <3>3. WaitingSlots(idle) \in [Slots -> Slot]
      <4>1. CASE queue = <<>>
        BY <1>1, <2>2, <2>3, <2>6, <3>1, <3>2, <4>1, WaitingIs
      <4>2. CASE queue # <<>>
        <5>1. PICK r \in Requests : r = queue[1]
          BY <1>1, <4>2, EmptySeq, LenProperties, ElementOfSeq
        <5>2. WaitingSlots(idle) = [idle EXCEPT ![s] = DispatchedSlot(idle[s], r)]
          BY <1>1, <2>2, <2>3, <2>6, <3>1, <3>2, <4>2, <5>1, WaitingIs
        <5>. QED
          BY <2>2, <3>2, <5>2, DispatchedSlotIs
      <4>. QED
        BY <4>1, <4>2
    <3>. QED
      BY <1>1, <2>2, <2>3, <2>5, <2>6, <3>1, <3>2, <3>3, WaitingHonest
  <2>8. AllHonest(requests') /\ SameExecution(requests, requests')
    BY <1>1, <2>1, <2>5, <2>7 DEF SameExecution
  <2>9. NoNewSuccess(slots, slots')
    <3>1. CASE Pump(WaitingSlots(idle), lifecycle, NoJob)
      BY <2>4, <2>7, <3>1, PumpTouches DEF NoNewSuccess
    <3>2. CASE Pump(late, lifecycle, NoJob)
      BY <2>3, <2>4, <3>2, PumpTouches DEF NoNewSuccess, Continues
    <3>. QED
      BY <2>1, <3>1, <3>2
  <2>. QED
    BY <1>1, <1>2, <2>8, <2>9, JobsStayHonest DEF Honesty
<1>6. CASE DatabaseDone
  BY <1>6 DEF DatabaseDone, Honesty
<1>. QED
  BY <1>3, <1>4, <1>5, <1>6 DEF MaintenanceDone

\* Every step keeps the records honest.
LEMMA NextHonest == IInv /\ Honesty /\ [Next]_vars => Honesty'
<1>. SUFFICES ASSUME IInv, Honesty, [Next]_vars
              PROVE  Honesty'
  OBVIOUS
<1>1. CASE MaintenanceRun
  BY <1>1 DEF MaintenanceRun, Honesty
<1>2. CASE UNCHANGED vars
  BY <1>2 DEF vars, Honesty
<1>. QED
  BY <1>1, <1>2, CallerHonest, ShutdownHonest, WorkerHonest, SettleHonest, MaintenanceHonest DEF
     Next

\* It holds initially.
LEMMA InitHonest == Init => Honesty
<1>. SUFFICES ASSUME Init
              PROVE  Honesty
  OBVIOUS
<1>1. Honest(AbsentRequest)
  BY DEF AbsentRequest, NewRequest, Honest, NoOutcome
<1>2. \A s \in Slots : slots[s].job = "none"
  BY DEF Init
<1>. QED
  BY <1>1, <1>2 DEF Init, Honesty, AllHonest, JobsHonest

\* "Cancellation wins": whatever the order of the latch, the worker's result, the retirement
\* of the connection and the shutdown, a request whose cancellation was acknowledged before
\* it was published never reports success, one that reports Pool_shutdown never ran, and one
\* that reports success did.
THEOREM CancelledNeverSucceeds == Spec => []CancellationWins
<1>1. Honesty => CancellationWins
  BY DEF Honesty, AllHonest, Honest, CancellationWins
<1>. QED
  BY <1>1, PoolInvariant, InitHonest, NextHonest, PTL DEF Spec

-----------------------------------------------------------------------------
(* The order of a shutdown: the invariant behind OrderedShutdown.           *)

FailuresNoted(sl) == \A s \in Slots : sl[s].state = "Close_failed" => sl[s].failed

\* A pool that stops has no queue; the database is closed by a pool that is stopping,
\* nothing moves once it is Stopped, and the result shutdown reports was earned.
Orderly ==
    /\ lifecycle # "Accepting" => queue = <<>>
    /\ FailuresNoted(slots)
    /\ maintenance.job = "close_database" => lifecycle = "Stopping"
    /\ lifecycle = "Stopped" => AllClosed(slots) /\ maintenance.job = "none"
    /\ lifecycle = "Stopped" <=> shutdownResult # "None"
    /\ database = "closed" =>
        \/ lifecycle = "Stopped"
        \/ maintenance.job = "close_database" /\ maintenance.result = "Ok"
    /\ maintenance.job = "close_database" /\ maintenance.result = "Ok" => database = "closed"
    /\ shutdownResult = "Ok" => database = "closed" /\ \A s \in Slots : ~slots[s].failed

\* What a step does with the maintenance helper and the lifecycle before the pool is Stopped.
Proceeds ==
    /\ lifecycle # "Stopped" /\ lifecycle' # "Stopped"
    /\ UNCHANGED <<shutdownResult, database>>
    /\ lifecycle' # "Accepting" => queue' = <<>>
    /\ FailuresNoted(slots')
    /\ \/ maintenance' = maintenance /\ (lifecycle = "Stopping" => lifecycle' = "Stopping")
       \/ /\ maintenance.job # "close_database"
          /\ maintenance'.job = "close_database" => lifecycle' = "Stopping" /\ maintenance'.result = "pending"

\* Such a step keeps the order.
LEMMA ProceedsKeepsOrder ==
    ASSUME Orderly, Proceeds
    PROVE  Orderly'
  BY DEF Orderly, Proceeds

\* In a Stopped pool no slot has work and no maintenance is under way.
LEMMA StoppedIsQuiet ==
    ASSUME IInv, Orderly, lifecycle = "Stopped"
    PROVE  maintenance.job = "none" /\ \A s \in Slots : slots[s].job = "none"
  BY DEF IInv, Orderly, AllClosed, Discipline, SlotDiscipline

\* pump starts the closing of the database only for a pool that stops, and says so.
LEMMA PumpOrder ==
    ASSUME NEW sl \in [Slots -> Slot], NEW lc, NEW busy \in Maintenance, Pump(sl, lc, busy),
           FailuresNoted(sl)
    PROVE  /\ FailuresNoted(slots')
           /\ \/ maintenance' = busy
              \/ /\ busy.job = "none"
                 /\ maintenance'.job = "close_database" =>
                        lc = "Stopping" /\ maintenance'.result = "pending"
<1>1. FailuresNoted(slots')
  BY PumpTouches DEF FailuresNoted
<1>2. CASE busy.job = "none" /\ Needing(sl) # {} /\ MaintenanceJob(sl, Min(Needing(sl)))
  BY <1>1, <1>2 DEF MaintenanceJob
<1>3. CASE /\ busy.job = "none"
           /\ maintenance' = IF lc = "Stopping" /\ AllClosed(sl)
                             THEN [NoJob EXCEPT !.job = "close_database"] ELSE NoJob
  BY <1>1, <1>3 DEF NoJob
<1>. QED
  BY <1>1, <1>2, <1>3 DEF Pump

\* Operations of callers.
LEMMA CallerOrderly ==
    ASSUME IInv, Orderly, NEW r \in Requests, Caller(r)
    PROVE  Orderly'
<1>. USE DEF Orderly
<1>1. ASSUME NEW operation \in Operations, AdmitIdle(r, operation)
      PROVE  Orderly'
  <2>1. PICK s \in Slots : slots' = [slots EXCEPT ![s] = DispatchedSlot(slots[s], r)]
    <3>1. IdleSlots \in SUBSET Slots
      BY DEF IdleSlots
    <3>2. Min(IdleSlots) \in IdleSlots
      BY <1>1, <3>1, MinIsMember DEF AdmitIdle
    <3>. QED
      BY <1>1, <3>1, <3>2 DEF AdmitIdle
  <2>2. slots \in [Slots -> Slot]
    BY DEF IInv, TypeOK
  <2>3. FailuresNoted(slots')
    BY <2>1, <2>2, DispatchedSlotIs DEF FailuresNoted
  <2>4. Proceeds
    BY <1>1, <2>3 DEF AdmitIdle, Proceeds
  <2>. QED
    BY <2>4, ProceedsKeepsOrder
<1>2. ASSUME NEW operation \in Operations, AdmitQueued(r, operation)
      PROVE  Orderly'
  BY <1>2, ProceedsKeepsOrder DEF AdmitQueued, Proceeds
<1>3. CASE Forget(r)
  BY <1>3 DEF Forget
<1>4. CASE CancelQueued(r)
  <2>1. queue # <<>>
    BY <1>4 DEF CancelQueued, IInv, QueueSound
  <2>2. lifecycle = "Accepting"
    BY <2>1
  <2>. QED
    BY <1>4, <2>2, ProceedsKeepsOrder DEF CancelQueued, Proceeds
<1>5. CASE CancelActive(r)
  BY <1>5 DEF CancelActive
<1>. QED
  BY <1>1, <1>2, <1>3, <1>4, <1>5 DEF Caller

\* shutdown begins the stop; pump may find everything closed already.
LEMMA ShutdownOrderly ==
    ASSUME IInv, Orderly, Shutdown
    PROVE  Orderly'
<1>1. /\ slots \in [Slots -> Slot] /\ maintenance \in Maintenance
      /\ FailuresNoted(slots) /\ lifecycle = "Accepting"
      /\ maintenance.job # "close_database"
      /\ lifecycle' = "Stopping" /\ queue' = <<>> /\ Pump(StopSlots(slots), "Stopping", maintenance)
      /\ UNCHANGED <<shutdownResult, database>>
  BY DEF IInv, TypeOK, Orderly, Shutdown
<1>2. StopSlots(slots) \in [Slots -> Slot] /\ FailuresNoted(StopSlots(slots))
  <2>1. \A s \in Slots : StopSlots(slots)[s].state = "Close_failed" => StopSlots(slots)[s] = slots[s]
    BY <1>1 DEF StopSlots, Slot
  <2>. QED
    BY <1>1, <2>1, StopSlotsType DEF FailuresNoted
<1>3. Proceeds
  BY <1>1, <1>2, PumpOrder DEF Proceeds
<1>. QED
  BY <1>3, ProceedsKeepsOrder

\* A slot that is reused goes to the oldest request, or stays idle; the others stay.
LEMMA ReuseIs ==
    ASSUME IInv, NEW s \in Slots, SettleReuse(s)
    PROVE  /\ slots' \in [Slots -> Slot] /\ \A t \in Slots : t # s => slots'[t] = slots[t]
           /\ slots'[s].owner = slots[s].owner
           /\ \/ /\ queue = <<>> /\ queue' = <<>>
                 /\ slots'[s].state = "Idle" /\ slots'[s].lease = NoRequest /\ slots'[s].job = "none"
                 /\ requests' = FinishLease(slots, SettlingRequest(s), s)
              \/ /\ queue # <<>> /\ queue' = SubSeq(queue, 2, Len(queue)) /\ queue[1] \in Requests
                 /\ slots'[s].state = "Leased" /\ slots'[s].lease = queue[1] /\ slots'[s].job = "handed"
                 /\ requests' = [FinishLease(slots, SettlingRequest(s), s) EXCEPT
                                    ![queue[1]] = DispatchedRequest(FinishLease(slots, SettlingRequest(s), s)[queue[1]])]
<1>. DEFINE sl == [slots EXCEPT ![s].state = "Idle", ![s].job = "none", ![s].lease = NoRequest]
            rq == FinishLease(slots, SettlingRequest(s), s)
<1>1. /\ slots \in [Slots -> Slot] /\ queue \in Seq(Requests) /\ NoIdle(queue, slots)
      /\ requests \in [Requests -> Request]
  BY DEF IInv, TypeOK
<1>2. slots' = WaitingSlots(sl) /\ requests' = WaitingRequests(sl, rq) /\ queue' = WaitingQueue(sl)
  BY DEF SettleReuse
<1>3. /\ sl \in [Slots -> Slot] /\ \A t \in Slots : t # s => sl[t] = slots[t]
      /\ sl[s].state = "Idle" /\ sl[s].lease = NoRequest /\ sl[s].job = "none"
      /\ sl[s].owner = slots[s].owner
  <2>. DEFINE free == [slots EXCEPT ![s].state = "Idle"]
  <2>1. sl = [free EXCEPT ![s].job = "none", ![s].lease = NoRequest]
    BY Zenon
  <2>2. /\ free \in [Slots -> Slot] /\ \A t \in Slots : t # s => free[t] = slots[t]
        /\ free[s].state = "Idle" /\ free[s].owner = slots[s].owner
    BY <1>1 DEF Slot, SlotStates
  <2>. HIDE DEF free, sl
  <2>. QED
    BY <2>1, <2>2 DEF Slot
<1>. HIDE DEF sl
<1>4. rq \in [Requests -> Request]
  <2>1. slots[s].job \in Outcomes
    BY DEF SettleReuse
  <2>2. /\ Retired(s) \in [Slots -> Slot] /\ SettlingRequest(s) \in [Requests -> Request]
        /\ Discipline(Retired(s), SettlingRequest(s))
        /\ \A t \in Slots : t # s => Retired(s)[t] = slots[t]
        /\ Retired(s)[s].state = "Needs_close" /\ Retired(s)[s].lease = slots[s].lease
        /\ Retired(s)[s].owner = slots[s].owner /\ slots[s].owner # "none"
    BY <2>1, SettlingKeeps
  <2>3. Releases(Retired(s), s, sl)
    BY <1>3, <2>2 DEF Releases
  <2>4. rq = FinishLease(Retired(s), SettlingRequest(s), s)
    BY <2>2 DEF FinishLease
  <2>. HIDE DEF rq
  <2>. QED
    BY <2>2, <2>3, <2>4, FinishLeaseKeeps
<1>5. queue # <<>> => \A t \in Slots : t # s => sl[t].state # "Idle"
  BY <1>1, <1>3 DEF NoIdle
<1>. HIDE DEF rq
<1>6. CASE queue = <<>>
  <2>1. slots' = sl /\ requests' = rq /\ queue' = <<>>
    BY <1>1, <1>2, <1>3, <1>4, <1>5, <1>6, WaitingIs
  <2>. QED
    BY <1>3, <1>6, <2>1 DEF rq
<1>7. CASE queue # <<>>
  <2>1. PICK r \in Requests : r = queue[1]
    BY <1>1, <1>7, EmptySeq, LenProperties, ElementOfSeq
  <2>2. /\ slots' = [sl EXCEPT ![s] = DispatchedSlot(sl[s], r)]
        /\ requests' = [rq EXCEPT ![r] = DispatchedRequest(rq[r])]
        /\ queue' = SubSeq(queue, 2, Len(queue))
    BY <1>1, <1>2, <1>3, <1>4, <1>5, <1>7, <2>1, WaitingIs
  <2>3. /\ slots' \in [Slots -> Slot] /\ \A t \in Slots : t # s => slots'[t] = slots[t]
        /\ slots'[s] = DispatchedSlot(sl[s], r)
    BY <1>3, <2>2, DispatchedSlotIs
  <2>. QED
    BY <1>3, <1>7, <2>1, <2>2, <2>3, DispatchedSlotIs DEF rq
<1>. QED
  BY <1>6, <1>7

\* The helpers' work, and its continuation.
LEMMA WorkOrderly ==
    ASSUME IInv, Orderly, NEW s \in Slots, Worker(s) \/ Settle(s)
    PROVE  Orderly'
<1>1. /\ slots \in [Slots -> Slot] /\ maintenance \in Maintenance
      /\ requests \in [Requests -> Request] /\ FailuresNoted(slots)
  BY DEF IInv, TypeOK, Orderly
<1>2. slots[s].job # "none" /\ UNCHANGED <<lifecycle, shutdownResult, database>>
  BY DEF Worker, Settle, WorkerEnter, WorkerReturn, OffloadUnavailable, SettleReuse, SettleRetire,
     Outcomes
<1>3. lifecycle # "Stopped" /\ slots[s].state = "Leased"
  BY <1>2, StoppedIsQuiet, LeasedSlot
<1>4. CASE Worker(s)
  <2>1. UNCHANGED <<queue, maintenance>>
    BY <1>4 DEF Worker, WorkerEnter, WorkerReturn, OffloadUnavailable
  <2>2. FailuresNoted(slots')
    <3>1. CASE slots' = slots
      BY <1>1, <3>1 DEF FailuresNoted
    <3>2. ASSUME NEW job, slots' = [slots EXCEPT ![s].job = job]
          PROVE  FailuresNoted(slots')
      BY <1>1, <3>2 DEF FailuresNoted, Slot
    <3>3. ASSUME NEW job, NEW owner, slots' = [slots EXCEPT ![s].job = job, ![s].owner = owner]
          PROVE  FailuresNoted(slots')
      BY <1>1, <3>3 DEF FailuresNoted, Slot
    <3>4. CASE WorkerEnter(s)
      BY <3>1, <3>2, <3>4 DEF WorkerEnter
    <3>5. CASE WorkerReturn(s)
      BY <3>3, <3>5 DEF WorkerReturn
    <3>6. CASE OffloadUnavailable(s)
      BY <3>2, <3>6 DEF OffloadUnavailable
    <3>. QED
      BY <1>4, <3>4, <3>5, <3>6 DEF Worker
  <2>. QED
    BY <1>2, <1>3, <2>1, <2>2, ProceedsKeepsOrder DEF Proceeds, Orderly
<1>5. CASE SettleRetire(s)
  <2>1. slots[s].job \in Outcomes /\ Pump(Retired(s), lifecycle, maintenance) /\ queue' = queue
    BY <1>5, Zenon DEF SettleRetire, Retired
  <2>2. Retired(s) \in [Slots -> Slot] /\ FailuresNoted(Retired(s))
    BY <1>1, <2>1, SettlingKeeps DEF FailuresNoted
  <2>3. maintenance.job # "close_database"
    BY <1>3 DEF IInv, Serving
  <2>4. Proceeds
    BY <1>1, <1>2, <1>3, <2>1, <2>2, <2>3, PumpOrder DEF Proceeds, Orderly
  <2>. QED
    BY <2>4, ProceedsKeepsOrder
<1>6. CASE SettleReuse(s)
  <2>1. lifecycle = "Accepting" /\ UNCHANGED maintenance
    BY <1>6 DEF SettleReuse, Reusable
  <2>2. FailuresNoted(slots')
    <3>1. \A t \in Slots : slots'[t].state = "Close_failed" => slots'[t] = slots[t]
      BY <1>6, ReuseIs
    <3>. QED
      BY <1>1, <3>1 DEF FailuresNoted
  <2>. QED
    BY <1>2, <2>1, <2>2, ProceedsKeepsOrder DEF Proceeds
<1>. QED
  BY <1>4, <1>5, <1>6 DEF Settle

\* dispatch_waiting leases idle slots and touches no other.
LEMMA WaitingTouches ==
    ASSUME NEW sl \in [Slots -> Slot], queue \in Seq(Requests)
    PROVE  /\ WaitingSlots(sl) \in [Slots -> Slot]
           /\ \A t \in Slots :
                \/ WaitingSlots(sl)[t] = sl[t]
                \/ /\ sl[t].state = "Idle" /\ WaitingSlots(sl)[t].state = "Leased"
                   /\ WaitingSlots(sl)[t].owner = sl[t].owner
<1>1. ASSUME NEW t \in Slots, Given(sl, t) # NoRequest
      PROVE  Given(sl, t) \in Requests /\ sl[t].state = "Idle"
  <2>. DEFINE before == Cardinality({u \in Slots : u < t /\ sl[u].state = "Idle"})
  <2>1. before \in Nat
    BY SlotsFinite
  <2>2. Given(sl, t) = IF sl[t].state = "Idle" /\ before < Len(queue) THEN queue[before + 1] ELSE NoRequest
    BY DEF Given
  <2>. HIDE DEF before
  <2>3. sl[t].state = "Idle" /\ before < Len(queue) /\ Given(sl, t) = queue[before + 1]
    BY <1>1, <2>2
  <2>4. before + 1 \in 1..Len(queue)
    BY <2>1, <2>3, LenProperties
  <2>. QED
    BY <2>3, <2>4, ElementOfSeq
<1>2. ASSUME NEW t \in Slots
      PROVE  /\ WaitingSlots(sl)[t] \in Slot
             /\ \/ WaitingSlots(sl)[t] = sl[t]
                \/ /\ sl[t].state = "Idle" /\ WaitingSlots(sl)[t].state = "Leased"
                   /\ WaitingSlots(sl)[t].owner = sl[t].owner
  <2>1. CASE Given(sl, t) = NoRequest
    BY <2>1 DEF WaitingSlots
  <2>2. CASE Given(sl, t) # NoRequest
    <3>1. WaitingSlots(sl)[t] = DispatchedSlot(sl[t], Given(sl, t))
      BY <2>2 DEF WaitingSlots
    <3>. QED
      BY <1>1, <2>2, <3>1, DispatchedSlotIs
  <2>. QED
    BY <2>1, <2>2
<1>. QED
  BY <1>2 DEF WaitingSlots

\* The maintenance helper and its continuations.
LEMMA MaintenanceOrderly ==
    ASSUME IInv, Orderly, MaintenanceRun \/ MaintenanceDone
    PROVE  Orderly'
<1>. DEFINE s == maintenance.slot
<1>1. /\ slots \in [Slots -> Slot] /\ maintenance \in Maintenance
      /\ FailuresNoted(slots) /\ lifecycle \in Lifecycles /\ NoJob \in Maintenance
  BY NoJobType DEF IInv, TypeOK, Orderly
<1>2. maintenance.job # "none" /\ lifecycle # "Stopped"
  <2>1. maintenance.job # "none"
    BY DEF MaintenanceRun, MaintenanceDone, CloseFailed, CloseDone, ConnectFailed, ConnectDone,
       DatabaseDone
  <2>. QED
    BY <2>1, StoppedIsQuiet
<1>3. CASE MaintenanceRun
  <2>1. PICK result \in {"Ok", "Error"} :
          /\ maintenance' = [maintenance EXCEPT !.result = result]
          /\ database' = IF maintenance.job = "close_database" /\ result = "Ok" THEN "closed" ELSE database
    BY <1>3 DEF MaintenanceRun
  <2>2. maintenance'.job = maintenance.job /\ maintenance'.result = result
        /\ maintenance.result = "pending"
    BY <1>1, <1>3, <2>1 DEF MaintenanceRun, Maintenance
  <2>3. UNCHANGED <<lifecycle, queue, slots, requests, shutdownResult>>
    BY <1>3 DEF MaintenanceRun
  <2>4. database # "closed"
    BY <1>2, <2>2 DEF Orderly
  <2>. QED
    BY <1>2, <2>1, <2>2, <2>3, <2>4 DEF Orderly, FailuresNoted, AllClosed
<1>4. CASE DatabaseDone
  <2>1. /\ maintenance.job = "close_database" /\ maintenance.result \in {"Ok", "Error"}
        /\ lifecycle' = "Stopped" /\ maintenance' = NoJob
        /\ shutdownResult' = IF maintenance.result = "Error" \/ \E t \in Slots : slots[t].failed
                             THEN "Error" ELSE "Ok"
        /\ UNCHANGED <<queue, slots, requests, database>>
    BY <1>1, <1>4 DEF DatabaseDone, Maintenance
  <2>2. AllClosed(slots)
    BY <2>1 DEF IInv, Serving, AllClosed
  <2>3. queue = <<>>
    BY <2>1 DEF Orderly
  <2>4. shutdownResult' = "Ok" => database = "closed" /\ \A t \in Slots : ~slots[t].failed
    BY <2>1 DEF Orderly
  <2>5. shutdownResult' # "None" /\ maintenance'.job = "none"
    BY <2>1 DEF NoJob
  <2>. QED
    BY <1>1, <2>1, <2>2, <2>3, <2>4, <2>5 DEF Orderly, FailuresNoted, AllClosed
<1>5. ASSUME NEW sl \in [Slots -> Slot], FailuresNoted(sl), NEW lc, lc = "Stopping" => lifecycle' = "Stopping",
             maintenance.job \in {"close", "connect"},
             Pump(sl, lc, NoJob), lifecycle' \in {lifecycle, "Stopping"},
             lifecycle' # "Accepting" => queue' = <<>>, UNCHANGED <<shutdownResult, database>>
      PROVE  Orderly'
  <2>1. /\ FailuresNoted(slots')
        /\ maintenance'.job = "close_database" => lc = "Stopping" /\ maintenance'.result = "pending"
    <3>1. NoJob.job = "none"
      BY DEF NoJob
    <3>. QED
      BY <1>1, <1>5, <3>1, PumpOrder
  <2>2. Proceeds
    BY <1>2, <1>5, <2>1 DEF Proceeds
  <2>. QED
    BY <2>2, ProceedsKeepsOrder
<1>6. ASSUME NEW sl, Continues(s, sl), sl[s].state # "Close_failed" \/ sl[s].failed
      PROVE  sl \in [Slots -> Slot] /\ FailuresNoted(sl) /\ FailuresNoted(StopSlots(sl))
  <2>1. sl \in [Slots -> Slot] /\ FailuresNoted(sl)
    BY <1>1, <1>6 DEF Continues, FailuresNoted
  <2>2. \A t \in Slots : StopSlots(sl)[t].state = "Close_failed" => StopSlots(sl)[t] = sl[t]
    BY <2>1 DEF StopSlots, Slot
  <2>. QED
    BY <2>1, <2>2 DEF FailuresNoted
<1>7. ASSUME NEW state \in SlotStates, maintenance.job \in {"close", "connect"}, SlotFailure(s, state)
      PROVE  Orderly'
  <2>. DEFINE sl == Lost(s, state)
  <2>1. s \in Slots
    BY <1>7, ServedSlot
  <2>2. Continues(s, sl) /\ sl[s].failed
    BY <1>1, <1>7, <2>1, LostSlot
  <2>3. /\ lifecycle' = IF lifecycle = "Accepting" THEN "Stopping" ELSE lifecycle
        /\ queue' = IF lifecycle = "Accepting" THEN <<>> ELSE queue
        /\ Pump(IF lifecycle = "Accepting" THEN StopSlots(sl) ELSE sl, "Stopping", NoJob)
        /\ UNCHANGED <<shutdownResult, database>>
    BY <1>7, Zenon DEF SlotFailure, Lost
  <2>. HIDE DEF sl
  <2>4. sl \in [Slots -> Slot] /\ FailuresNoted(sl) /\ FailuresNoted(StopSlots(sl))
        /\ StopSlots(sl) \in [Slots -> Slot]
    BY <1>6, <2>2, StopSlotsType
  <2>5. lifecycle' = "Stopping" /\ queue' = <<>>
    BY <1>1, <1>2, <2>3 DEF Lifecycles, Orderly
  <2>. QED
    BY <1>5, <1>7, <2>3, <2>4, <2>5
<1>8. CASE CloseFailed \/ ConnectFailed
  BY <1>7, <1>8 DEF CloseFailed, ConnectFailed, SlotStates
<1>9. CASE CloseDone
  <2>. DEFINE again == Kept(s, "none", "Needs_connect")
              done == Freed(s, "none", "Closed")
  <2>1. /\ maintenance.job = "close"
        /\ Pump(again, lifecycle, NoJob) \/ Pump(done, lifecycle, NoJob)
        /\ UNCHANGED <<lifecycle, queue, shutdownResult, database>>
    BY <1>9, Zenon DEF CloseDone, Kept, Freed
  <2>2. s \in Slots
    BY <2>1, ServedSlot
  <2>3. /\ Continues(s, again) /\ again[s].state = "Needs_connect"
        /\ Continues(s, done) /\ done[s].state = "Closed"
    BY <1>1, <2>2, OwnerAndState DEF Owners, SlotStates
  <2>. HIDE DEF again, done
  <2>4. again \in [Slots -> Slot] /\ FailuresNoted(again) /\ done \in [Slots -> Slot] /\ FailuresNoted(done)
    BY <1>6, <2>3
  <2>5. lifecycle' # "Accepting" => queue' = <<>>
    BY <2>1 DEF Orderly
  <2>. QED
    BY <1>5, <2>1, <2>4, <2>5
<1>10. CASE ConnectDone
  <2>. DEFINE idle == Freed(s, "clean", "Idle")
              late == Kept(s, "clean", "Needs_close")
  <2>1. /\ maintenance.job = "connect"
        /\ \/ lifecycle = "Accepting" /\ Pump(WaitingSlots(idle), lifecycle, NoJob)
           \/ Pump(late, lifecycle, NoJob) /\ UNCHANGED queue
        /\ UNCHANGED <<lifecycle, shutdownResult, database>>
    BY <1>10, Zenon DEF ConnectDone, Kept, Freed
  <2>2. s \in Slots
    BY <2>1, ServedSlot
  <2>3. /\ Continues(s, idle) /\ idle[s].state = "Idle"
        /\ Continues(s, late) /\ late[s].state = "Needs_close"
    BY <1>1, <2>2, OwnerAndState DEF Owners, SlotStates
  <2>. HIDE DEF idle, late
  <2>4. idle \in [Slots -> Slot] /\ FailuresNoted(idle) /\ late \in [Slots -> Slot] /\ FailuresNoted(late)
    BY <1>6, <2>3
  <2>5. WaitingSlots(idle) \in [Slots -> Slot] /\ FailuresNoted(WaitingSlots(idle))
    <3>1. queue \in Seq(Requests)
      BY DEF IInv, TypeOK
    <3>. QED
      BY <2>4, <3>1, WaitingTouches DEF FailuresNoted
  <2>6. lifecycle' # "Accepting" /\ UNCHANGED queue => queue' = <<>>
    BY <2>1 DEF Orderly
  <2>. QED
    BY <1>5, <2>1, <2>4, <2>5, <2>6
<1>. QED
  BY <1>3, <1>4, <1>8, <1>9, <1>10 DEF MaintenanceDone

\* Every step keeps the order.
LEMMA NextOrderly == IInv /\ Orderly /\ [Next]_vars => Orderly'
<1>. SUFFICES ASSUME IInv, Orderly, [Next]_vars
              PROVE  Orderly'
  OBVIOUS
<1>1. CASE UNCHANGED vars
  BY <1>1 DEF vars, Orderly, FailuresNoted, AllClosed
<1>. QED
  BY <1>1, CallerOrderly, ShutdownOrderly, WorkOrderly, MaintenanceOrderly DEF Next

\* It holds initially.
LEMMA InitOrderly == Init => Orderly
<1>. SUFFICES ASSUME Init
              PROVE  Orderly
  OBVIOUS
<1>1. \A s \in Slots : slots[s].state = "Idle"
  BY DEF Init
<1>2. maintenance.job = "none"
  BY DEF Init, NoJob
<1>. QED
  BY <1>1, <1>2 DEF Init, Orderly, FailuresNoted

\* Shutdown is ordered: when the database is closed no helper works, every connection was
\* closed and every request was published; the pool is Stopped only after that, and the result
\* of shutdown is Ok only when every close and reconnect succeeded.
THEOREM ShutdownIsOrdered == Spec => []OrderedShutdown
<1>1. IInv /\ Orderly => OrderedShutdown
  <2>. SUFFICES ASSUME IInv, Orderly
                PROVE  OrderedShutdown
    OBVIOUS
  <2>1. ASSUME AllClosed(slots), lifecycle # "Accepting"
        PROVE  \A r \in Requests : requests[r].state \in {"Absent", "Finished"}
    <3>. SUFFICES ASSUME NEW r \in Requests
                  PROVE  requests[r].state \in {"Absent", "Finished"}
      OBVIOUS
    <3>1. requests[r].state \in RequestStates
      BY DEF IInv, TypeOK, Request
    <3>2. requests[r].state # "Queued"
      <4>1. queue = <<>>
        BY <2>1 DEF Orderly
      <4>. QED
        BY <4>1 DEF IInv, QueueSound
    <3>3. \A s \in Slots : slots[s].lease # r
      BY <2>1, LimitsAssumption DEF AllClosed, IInv, Discipline, SlotDiscipline
    <3>4. requests[r].state \notin {"Dispatched", "Settling"}
      BY <3>3 DEF IInv, Discipline
    <3>. QED
      BY <3>1, <3>2, <3>4 DEF RequestStates
  <2>2. maintenance.job = "close_database" \/ lifecycle = "Stopped" =>
          AllClosed(slots) /\ lifecycle # "Accepting"
    BY DEF IInv, Serving, AllClosed, Orderly
  <2>3. AllClosed(slots) => \A s \in Slots : slots[s].owner # "none" => slots[s].failed
    BY DEF AllClosed, IInv, Discipline, SlotDiscipline, Orderly, FailuresNoted
  <2>4. shutdownResult = "Ok" => \A s \in Slots : slots[s].state = "Closed" /\ ~slots[s].failed
    BY <2>2 DEF AllClosed, Orderly, FailuresNoted
  <2>. QED
    BY <2>1, <2>2, <2>3, <2>4 DEF OrderedShutdown, Orderly
<1>. QED
  BY <1>1, PoolInvariant, InitOrderly, NextOrderly, PTL DEF Spec

-----------------------------------------------------------------------------
(* The order of the queue: FirstInFirstOut.                                 *)

\* No request of rq2 is dispatched that was not dispatched in rq.
NoStart(rq, rq2) == \A r \in Requests : rq2[r].state = "Dispatched" => rq[r].state = "Dispatched"

\* Only the oldest queued request is dispatched.
OldestStarts(rq, rq2) ==
    \/ NoStart(rq, rq2)
    \/ /\ queue # <<>>
       /\ \A r \in Requests : r # queue[1] /\ rq2[r].state = "Dispatched" => rq[r].state = "Dispatched"

\* finish_lease starts nothing.
LEMMA FinishLeaseStartsNothing ==
    ASSUME NEW sl, NEW rq \in [Requests -> Request], NEW s \in Slots
    PROVE  NoStart(rq, FinishLease(sl, rq, s))
  BY DEF NoStart, FinishLease, Finish, Request

\* stop starts nothing.
LEMMA StopStartsNothing ==
    ASSUME NEW sl, NEW rq \in [Requests -> Request]
    PROVE  NoStart(rq, StopRequests(sl, rq))
<1>. SUFFICES ASSUME NEW r \in Requests
              PROVE  StopRequests(sl, rq)[r].state \in {rq[r].state, "Finished"}
  BY DEF NoStart
<1>1. rq[r] \in Request /\ Latch(rq[r]) \in Request /\ Latch(rq[r]).state = rq[r].state
  BY LatchType
<1>2. \A q \in Request : \A result : Finish(q, result).state = "Finished"
  BY DEF Finish, Request
<1>. QED
  BY <1>1, <1>2 DEF StopRequests

\* A step either starts no queued request or the oldest one; admit looks for an idle slot
\* only when nobody waits.
LEMMA StepStartsOldest ==
    ASSUME IInv, [Next]_vars
    PROVE  queue = <<>> \/ OldestStarts(requests, requests')
<1>. SUFFICES ASSUME queue # <<>>
              PROVE  OldestStarts(requests, requests')
  OBVIOUS
<1>1. /\ slots \in [Slots -> Slot] /\ requests \in [Requests -> Request] /\ queue \in Seq(Requests)
      /\ NoIdle(queue, slots) /\ Discipline(slots, requests)
  BY DEF IInv, TypeOK
<1>2. ASSUME NEW r \in Requests, Caller(r)
      PROVE  OldestStarts(requests, requests')
  <2>1. \A operation \in Operations : ~AdmitIdle(r, operation)
    BY DEF AdmitIdle, IdleSlots
  <2>2. ASSUME NEW operation \in Operations, AdmitQueued(r, operation)
        PROVE  OldestStarts(requests, requests')
    BY <1>1, <2>2 DEF AdmitQueued, NewRequest, OldestStarts, NoStart
  <2>3. CASE Forget(r)
    BY <1>1, <2>3 DEF Forget, AbsentRequest, NewRequest, OldestStarts, NoStart
  <2>4. CASE CancelQueued(r)
    <3>1. Finish(Latch(requests[r]), "Cancelled").state = "Finished"
      BY <1>1, LatchType, FinishType DEF Outcomes
    <3>. QED
      BY <1>1, <2>4, <3>1 DEF CancelQueued, OldestStarts, NoStart
  <2>5. CASE CancelActive(r)
    BY <1>1, <2>5, LatchType DEF CancelActive, OldestStarts, NoStart
  <2>. QED
    BY <1>2, <2>1, <2>2, <2>3, <2>4, <2>5 DEF Caller
<1>3. CASE Shutdown
  BY <1>1, <1>3, StopStartsNothing DEF Shutdown, OldestStarts
<1>4. ASSUME NEW s \in Slots, Worker(s)
      PROVE  OldestStarts(requests, requests')
  <2>1. CASE requests' = requests
    BY <2>1 DEF OldestStarts, NoStart
  <2>2. ASSUME NEW r, NEW execution, requests' = [requests EXCEPT ![r].execution = execution]
        PROVE  OldestStarts(requests, requests')
    BY <1>1, <2>2 DEF OldestStarts, NoStart, Request
  <2>. QED
    BY <1>4, <2>1, <2>2 DEF Worker, WorkerEnter, WorkerReturn, OffloadUnavailable
<1>5. ASSUME NEW s \in Slots, slots[s].job \in Outcomes
      PROVE  SettlingRequest(s) \in [Requests -> Request] /\ NoStart(requests, SettlingRequest(s))
  <2>1. SettlingRequest(s) \in [Requests -> Request]
    BY <1>5, SettlingKeeps
  <2>2. \A r \in Requests : SettlingRequest(s)[r].state \in {requests[r].state, "Settling"}
    BY <1>1 DEF SettlingRequest, Request
  <2>. QED
    BY <2>1, <2>2 DEF NoStart
<1>6. ASSUME NEW s \in Slots, SettleRetire(s)
      PROVE  OldestStarts(requests, requests')
  BY <1>5, <1>6 DEF SettleRetire, OldestStarts
<1>7. ASSUME NEW s \in Slots, SettleReuse(s)
      PROVE  OldestStarts(requests, requests')
  <2>. DEFINE rq == FinishLease(slots, SettlingRequest(s), s)
  <2>1. NoStart(requests, rq)
    BY <1>5, <1>7, FinishLeaseStartsNothing DEF SettleReuse, NoStart
  <2>2. PICK r \in Requests : r = queue[1]
    BY <1>1, EmptySeq, LenProperties, ElementOfSeq
  <2>3. requests' = [rq EXCEPT ![r] = DispatchedRequest(rq[r])]
    BY <1>7, <2>2, ReuseIs
  <2>. HIDE DEF rq
  <2>4. \A q \in Requests : q # r => requests'[q] = rq[q]
    BY <2>3
  <2>. QED
    BY <2>1, <2>2, <2>4 DEF OldestStarts, NoStart
<1>8. CASE MaintenanceRun \/ DatabaseDone
  BY <1>8 DEF MaintenanceRun, DatabaseDone, OldestStarts, NoStart
<1>9. ASSUME NEW s \in Slots, NEW state, SlotFailure(s, state)
      PROVE  OldestStarts(requests, requests')
  <2>. DEFINE rq == AddLeaseCleanup(slots, requests, s)
              stopped == IF lifecycle = "Accepting" THEN StopRequests(slots, rq) ELSE rq
  <2>1. /\ rq \in [Requests -> Request] /\ Discipline(slots, rq)
        /\ \A r \in Requests : rq[r].state = requests[r].state
    BY <1>1, AddLeaseCleanupKeeps
  <2>2. requests' = FinishLease(slots, stopped, s)
    BY <1>9, Zenon DEF SlotFailure
  <2>. HIDE DEF rq
  <2>3. stopped \in [Requests -> Request] /\ NoStart(rq, stopped)
    <3>1. QueueSound(queue, rq) /\ maintenance \in Maintenance /\ Serving(slots, maintenance)
      BY <2>1 DEF IInv, TypeOK, QueueSound
    <3>2. StopRequests(slots, rq) \in [Requests -> Request]
      BY <1>1, <2>1, <3>1, StopKeeps
    <3>. QED
      BY <2>1, <3>2, StopStartsNothing DEF NoStart
  <2>. HIDE DEF stopped
  <2>. QED
    BY <2>1, <2>2, <2>3, FinishLeaseStartsNothing DEF NoStart, OldestStarts
<1>10. CASE CloseFailed \/ ConnectFailed
  <2>1. maintenance.slot \in Slots
    BY DEF IInv, TypeOK, Maintenance
  <2>. QED
    BY <1>9, <1>10, <2>1 DEF CloseFailed, ConnectFailed
<1>11. CASE CloseDone
  <2>1. requests' = requests \/ requests' = FinishLease(slots, requests, maintenance.slot)
    BY <1>11 DEF CloseDone
  <2>2. maintenance.slot \in Slots
    BY DEF IInv, TypeOK, Maintenance
  <2>. QED
    BY <1>1, <2>1, <2>2, FinishLeaseStartsNothing DEF OldestStarts, NoStart
<1>12. CASE ConnectDone
  <2>. DEFINE s == maintenance.slot
              idle == Freed(s, "clean", "Idle")
              rq == FinishLease(slots, requests, s)
  <2>1. maintenance.job = "connect" /\ (requests' = requests \/ requests' = WaitingRequests(idle, rq))
    BY <1>12, Zenon DEF ConnectDone, Freed
  <2>2. s \in Slots /\ slots[s].state = "Connecting"
    BY <2>1, ServedSlot
  <2>3. /\ Continues(s, idle) /\ idle[s].state = "Idle" /\ idle[s].lease = NoRequest
        /\ idle[s].owner = "clean"
    BY <1>1, <2>2, OwnerAndState DEF Owners, SlotStates
  <2>. HIDE DEF idle
  <2>4. NoStart(requests, rq)
    BY <1>1, <2>2, FinishLeaseStartsNothing
  <2>5. rq \in [Requests -> Request]
    <3>1. Releases(slots, s, idle)
      BY <1>1, <2>2, <2>3 DEF Releases, Continues, Discipline, SlotDiscipline
    <3>. QED
      BY <1>1, <2>2, <3>1, FinishLeaseKeeps
  <2>6. PICK r \in Requests : r = queue[1]
    BY <1>1, EmptySeq, LenProperties, ElementOfSeq
  <2>. HIDE DEF rq, s
  <2>7. WaitingRequests(idle, rq) = [rq EXCEPT ![r] = DispatchedRequest(rq[r])]
    <3>1. idle \in [Slots -> Slot] /\ \A t \in Slots : t # s => idle[t].state # "Idle"
      BY <1>1, <2>3 DEF Continues, NoIdle
    <3>2. /\ queue \in Seq(Requests) /\ s \in Slots /\ idle[s].state = "Idle"
          /\ queue # <<>> => \A t \in Slots : t # s => idle[t].state # "Idle"
      BY <1>1, <2>2, <2>3, <3>1
    <3>3. queue # <<>> =>
            WaitingRequests(idle, rq) = [rq EXCEPT ![queue[1]] = DispatchedRequest(rq[queue[1]])]
      BY <2>5, <3>1, <3>2, WaitingIs
    <3>. QED
      BY <2>6, <3>3
  <2>8. \A q \in Requests : q # r => WaitingRequests(idle, rq)[q] = rq[q]
    BY <2>7
  <2>. QED
    BY <2>1, <2>4, <2>6, <2>8 DEF OldestStarts, NoStart
<1>13. CASE UNCHANGED vars
  BY <1>13 DEF vars, OldestStarts, NoStart
<1>. QED
  BY <1>2, <1>3, <1>4, <1>6, <1>7, <1>8, <1>10, <1>11, <1>12, <1>13 DEF Next, Settle,
     MaintenanceDone

\* "Immediate bounded FIFO admission": no request starts, at once or from the queue, while
\* one that was queued before it keeps waiting.
THEOREM QueueIsFair == Spec => FirstInFirstOut
<1>1. IInv /\ [Next]_vars =>
        [\A r, q \in Requests :
            /\ requests[q].state # "Dispatched" /\ requests'[q].state = "Dispatched"
            /\ Queued(r) /\ requests'[r].state = "Queued"
            => \E i, j \in 1..Len(queue) : i < j /\ queue[i] = q /\ queue[j] = r]_vars
  <2>. SUFFICES ASSUME IInv, [Next]_vars, NEW r \in Requests, NEW q \in Requests,
                       requests[q].state # "Dispatched", requests'[q].state = "Dispatched",
                       Queued(r), requests'[r].state = "Queued"
                PROVE  \E i, j \in 1..Len(queue) : i < j /\ queue[i] = q /\ queue[j] = r
    OBVIOUS
  <2>1. PICK j \in 1..Len(queue) : queue[j] = r
    BY DEF Queued, Contains
  <2>2. queue \in Seq(Requests) /\ Len(queue) \in Nat
    BY LenProperties DEF IInv, TypeOK
  <2>3. queue # <<>>
    BY <2>1, <2>2
  <2>4. q = queue[1]
    BY <2>3, StepStartsOldest DEF OldestStarts, NoStart
  <2>5. j # 1
    BY <2>1, <2>4
  <2>. QED
    BY <2>1, <2>2, <2>4, <2>5
<1>. QED
  BY <1>1, PoolInvariant, PTL DEF Spec, FirstInFirstOut

-----------------------------------------------------------------------------
(* The pool keeps the contract of Pool.                                     *)

\* What an abstract step needs beside the invariants above: a connection that is idle, or
\* that waits for its request to begin or was used by a successful Execute, is fit; only a
\* request that settles has an outcome, and only one whose helper holds it executes; a queued
\* request is not cancelled, and a pool that stops has latched every request it still has.
Fit(sl, rq, lc) ==
    /\ \A s \in Slots :
        /\ sl[s].state = "Idle" => sl[s].owner = "clean"
        /\ sl[s].job = "handed" =>
             sl[s].owner = "clean" /\ rq[sl[s].lease].execution \in {"Awaiting_entry", "Executing"}
        /\ sl[s].job \in Outcomes => rq[sl[s].lease].execution # "Executing"
        /\ sl[s].job = "Ok" /\ rq[sl[s].lease].operation = "Execute" => sl[s].owner = "clean"
    /\ \A r \in Requests :
        /\ rq[r].outcome # NoOutcome => rq[r].state = "Settling"
        /\ rq[r].execution = "Executing" => rq[r].state = "Dispatched"
        /\ rq[r].state = "Queued" => ~rq[r].cancelled
        /\ rq[r].state \in {"Dispatched", "Settling"} /\ lc # "Accepting" => rq[r].cancelled

Sound == IInv /\ Honesty /\ Orderly /\ Fit(slots, requests, lifecycle)

\* What is true of a sound pool's slots and requests, before a step and after it.
Agree(sl, rq, lc) ==
    /\ sl \in [Slots -> Slot] /\ rq \in [Requests -> Request]
    /\ Discipline(sl, rq) /\ AllHonest(rq) /\ Fit(sl, rq, lc)

\* The slots and requests of a sound pool agree.
LEMMA SoundAgrees ==
    ASSUME Sound
    PROVE  Agree(slots, requests, lifecycle)
  BY DEF Sound, IInv, TypeOK, Honesty, Agree

\* After a step they are what the sound state after it says of them.
LEMMA SoundAgreesAfter ==
    ASSUME Sound'
    PROVE  Agree(slots', requests', lifecycle')
  BY DEF Sound, IInv, TypeOK, Honesty, Agree

\* PoolStage of any slots and requests.
Reports(sl, rq, r, outcome) ==
    rq[r].outcome = outcome \/ \E s \in HeldBy(sl, r) : sl[s].job = outcome

StageIn(sl, rq, r) ==
    LET q == rq[r] IN
    CASE q.state = "Absent" -> "absent"
      [] q.state = "Finished" -> IF q.result = "Ok" THEN "succeeded" ELSE "unsuccessful"
      [] Reports(sl, rq, r, "Ok") -> "done"
      [] Reports(sl, rq, r, "Failed") \/ Reports(sl, rq, r, "Cancelled") -> "failed"
      [] q.execution = "Executing" -> "running"
      [] OTHER -> IF q.cancelled THEN "withdrawn" ELSE "accepted"

\* It is the refinement mapping, before a step and after it.
LEMMA StageInIs ==
    ASSUME NEW r \in Requests
    PROVE  PoolStage(r) = StageIn(slots, requests, r) /\ PoolStage(r)' = StageIn(slots', requests', r)
  BY DEF PoolStage, StageIn, Has, Reports, HeldBy

\* How far a dispatched request is, by what its helper holds.
Progress(job, q) ==
    CASE job = "Ok" -> "done"
      [] job \in {"Failed", "Cancelled"} -> "failed"
      [] OTHER -> IF q.execution = "Executing" THEN "running"
                  ELSE IF q.cancelled THEN "withdrawn" ELSE "accepted"

\* The stage of a request by its state.
LEMMA StageIs ==
    ASSUME NEW sl, NEW rq, NEW lc, Agree(sl, rq, lc), NEW r \in Requests
    PROVE  /\ rq[r].state = "Absent" => StageIn(sl, rq, r) = "absent"
           /\ rq[r].state = "Finished" =>
                StageIn(sl, rq, r) = IF rq[r].result = "Ok" THEN "succeeded" ELSE "unsuccessful"
           /\ rq[r].state = "Queued" => StageIn(sl, rq, r) = "accepted"
           /\ rq[r].state = "Settling" =>
                StageIn(sl, rq, r) = IF rq[r].outcome = "Ok" THEN "done" ELSE "failed"
           /\ rq[r].state = "Dispatched" =>
                \A s \in Slots : sl[s].lease = r => StageIn(sl, rq, r) = Progress(sl[s].job, rq[r])
<1>1. /\ sl \in [Slots -> Slot] /\ rq[r] \in Request /\ Honest(rq[r])
      /\ \A s \in Slots : sl[s].job \in {"none", "handed"} \cup Outcomes
  BY DEF Agree, AllHonest, Slot
<1>2. \A s \in HeldBy(sl, r) : s \in Slots /\ sl[s].lease = r /\ sl[s].lease # NoRequest
  BY LimitsAssumption DEF HeldBy
<1>3. rq[r].state = "Queued" => HeldBy(sl, r) = {}
  BY <1>2 DEF Agree, Discipline
<1>4. rq[r].state = "Settling" =>
        /\ \A s \in HeldBy(sl, r) : sl[s].job = "none"
        /\ rq[r].outcome \in Outcomes
  <2>. SUFFICES ASSUME rq[r].state = "Settling"
                PROVE  /\ \A s \in HeldBy(sl, r) : sl[s].job = "none"
                       /\ rq[r].outcome \in Outcomes
    OBVIOUS
  <2>1. \A s \in HeldBy(sl, r) : sl[s].state # "Leased"
    BY <1>2 DEF Agree, Discipline, SlotDiscipline
  <2>2. \A s \in HeldBy(sl, r) : sl[s].job = "none"
    BY <1>2, <2>1 DEF Agree, Discipline, SlotDiscipline
  <2>3. PICK s \in Slots : sl[s].lease = r
    BY DEF Agree, Discipline
  <2>4. s \in HeldBy(sl, r)
    BY <2>3 DEF HeldBy
  <2>5. rq[r].outcome # NoOutcome
    BY <1>2, <2>1, <2>3, <2>4 DEF Agree, Discipline, SlotDiscipline
  <2>. QED
    BY <1>1, <2>2, <2>5 DEF Request
<1>5. rq[r].state = "Dispatched" => \A s \in Slots : sl[s].lease = r => HeldBy(sl, r) = {s}
  <2>. SUFFICES ASSUME NEW s \in Slots, sl[s].lease = r
                PROVE  HeldBy(sl, r) = {s}
    OBVIOUS
  <2>. QED
    BY LimitsAssumption DEF Agree, Discipline, HeldBy
<1>6. rq[r].state \in {"Absent", "Finished"} =>
        /\ rq[r].execution # "Executing"
        /\ \A outcome \in Outcomes : ~Reports(sl, rq, r, outcome)
  <2>. SUFFICES ASSUME rq[r].state \in {"Absent", "Finished"}
                PROVE  /\ rq[r].execution # "Executing"
                       /\ \A outcome \in Outcomes : ~Reports(sl, rq, r, outcome)
    OBVIOUS
  <2>1. rq[r].outcome = NoOutcome /\ rq[r].execution # "Executing"
    BY DEF Agree, Fit
  <2>2. HeldBy(sl, r) = {}
    BY <1>2 DEF Agree, Discipline
  <2>. QED
    BY <2>1, <2>2 DEF Reports, NoOutcome, Outcomes
<1>7. "Ok" \in Outcomes /\ "Failed" \in Outcomes /\ "Cancelled" \in Outcomes
  BY DEF Outcomes
<1>8. rq[r].state = "Absent" => StageIn(sl, rq, r) = "absent"
  BY <1>6, <1>7 DEF StageIn
<1>9. rq[r].state = "Finished" =>
        StageIn(sl, rq, r) = IF rq[r].result = "Ok" THEN "succeeded" ELSE "unsuccessful"
  BY <1>6, <1>7 DEF StageIn
<1>10. rq[r].state = "Queued" => StageIn(sl, rq, r) = "accepted"
  <2>. SUFFICES ASSUME rq[r].state = "Queued"
                PROVE  StageIn(sl, rq, r) = "accepted"
    OBVIOUS
  <2>1. rq[r].outcome = NoOutcome /\ rq[r].execution = "Awaiting_entry" /\ ~rq[r].cancelled
    BY <1>1 DEF Agree, Fit, Honest
  <2>2. \A outcome \in Outcomes : ~Reports(sl, rq, r, outcome)
    BY <1>3, <2>1 DEF Reports, NoOutcome, Outcomes
  <2>. QED
    BY <1>7, <2>1, <2>2 DEF StageIn
<1>11. rq[r].state = "Settling" =>
        StageIn(sl, rq, r) = IF rq[r].outcome = "Ok" THEN "done" ELSE "failed"
  <2>. SUFFICES ASSUME rq[r].state = "Settling"
                PROVE  StageIn(sl, rq, r) = IF rq[r].outcome = "Ok" THEN "done" ELSE "failed"
    OBVIOUS
  <2>1. \A outcome \in Outcomes : Reports(sl, rq, r, outcome) <=> rq[r].outcome = outcome
    BY <1>4 DEF Reports, Outcomes
  <2>2. rq[r].execution # "Executing" /\ rq[r].outcome \in {"Ok", "Failed", "Cancelled"}
    BY <1>4 DEF Agree, Fit, Outcomes
  <2>. QED
    BY <1>7, <2>1, <2>2 DEF StageIn
<1>12. ASSUME rq[r].state = "Dispatched", NEW s \in Slots, sl[s].lease = r
       PROVE  StageIn(sl, rq, r) = Progress(sl[s].job, rq[r])
  <2>1. rq[r].outcome = NoOutcome
    BY <1>1, <1>12 DEF Honest
  <2>2. HeldBy(sl, r) = {s}
    BY <1>5, <1>12
  <2>3. \A outcome \in Outcomes : Reports(sl, rq, r, outcome) <=> sl[s].job = outcome
    BY <2>1, <2>2 DEF Reports, NoOutcome, Outcomes
  <2>4. sl[s].job \in Outcomes => rq[r].execution # "Executing"
    BY <1>12 DEF Agree, Fit
  <2>5. sl[s].job \in {"none", "handed", "Ok", "Failed", "Cancelled"}
    BY <1>1 DEF Outcomes
  <2>. QED
    BY <1>7, <1>12, <2>3, <2>4, <2>5 DEF StageIn, Progress
<1>. QED
  BY <1>8, <1>9, <1>10, <1>11, <1>12

\* A pool that stops has no request that may begin.
LEMMA AcceptedIsOpen ==
    ASSUME Sound', NEW r \in Requests, PoolStage(r)' = "accepted"
    PROVE  lifecycle' = "Accepting"
<1>. SUFFICES ASSUME lifecycle' # "Accepting"
              PROVE  FALSE
  OBVIOUS
<1>1. Agree(slots', requests', lifecycle') /\ StageIn(slots', requests', r) = "accepted"
  BY SoundAgreesAfter, StageInIs
<1>2. requests'[r].state # "Queued"
  BY DEF Sound, Orderly, IInv, QueueSound
<1>3. requests'[r].state \in RequestStates
  BY <1>1 DEF Agree, Request
<1>4. requests'[r].state = "Dispatched"
  BY <1>1, <1>2, <1>3, StageIs DEF RequestStates
<1>5. requests'[r].cancelled
  BY <1>1, <1>4 DEF Agree, Fit
<1>6. PICK s \in Slots : slots'[s].lease = r
  BY <1>1, <1>4 DEF Agree, Discipline
<1>7. Progress(slots'[s].job, requests'[r]) = "accepted"
  BY <1>1, <1>4, <1>6, StageIs
<1>. QED
  BY <1>5, <1>7 DEF Progress

\* What a step does to the record of a request: nothing but to latch it; or to publish it, a
\* success only if it had one.
Rests(q, q2) ==
    /\ q2.state = q.state /\ q2.operation = q.operation /\ q2.execution = q.execution
    /\ q2.outcome = q.outcome /\ q2.result = q.result
    /\ \/ q2.cancelled = q.cancelled
       \/ q2.cancelled /\ q.state \in {"Dispatched", "Settling"}

Ends(q, q2) ==
    /\ q.state \in {"Queued", "Settling"} /\ q2.state = "Finished"
    /\ q2.outcome = NoOutcome /\ q2.execution = q.execution
    /\ q2.result = "Ok" => q.outcome = "Ok"

\* The slot that holds the request afterwards held it before, with the same job.
JobKept(r) ==
    \A s \in Slots : slots'[s].lease = r => slots[s].lease = r /\ slots'[s].job = slots[s].job

\* A request that rests stays where it is, or is withdrawn before its work began.
LEMMA RestsStep ==
    ASSUME Sound, Sound', NEW r \in Requests, Rests(requests[r], requests'[r]), JobKept(r)
    PROVE  P!RequestStep(r)
<1>1. /\ Agree(slots, requests, lifecycle) /\ PoolStage(r) = StageIn(slots, requests, r)
      /\ Agree(slots', requests', lifecycle') /\ PoolStage(r)' = StageIn(slots', requests', r)
  BY SoundAgrees, SoundAgreesAfter, StageInIs
<1>2. requests[r].state \in RequestStates /\ requests'[r].state = requests[r].state
  BY <1>1 DEF Agree, Request, Rests
<1>3. \/ PoolStage(r)' = PoolStage(r)
      \/ PoolStage(r) = "accepted" /\ PoolStage(r)' = "withdrawn"
  <2>1. CASE requests[r].state = "Dispatched"
    <3>1. PICK s \in Slots : slots'[s].lease = r
      BY <1>1, <1>2, <2>1 DEF Agree, Discipline
    <3>2. slots[s].lease = r /\ slots'[s].job = slots[s].job
      BY <3>1 DEF JobKept
    <3>3. /\ PoolStage(r) = Progress(slots[s].job, requests[r])
          /\ PoolStage(r)' = Progress(slots[s].job, requests'[r])
      BY <1>1, <1>2, <2>1, <3>1, <3>2, StageIs
    <3>4. /\ requests'[r].execution = requests[r].execution
          /\ requests'[r].cancelled = requests[r].cancelled \/ requests'[r].cancelled
      BY DEF Rests
    <3>. QED
      BY <3>3, <3>4 DEF Progress
  <2>2. CASE requests[r].state # "Dispatched"
    BY <1>1, <1>2, <2>2, StageIs DEF Rests, RequestStates
  <2>. QED
    BY <2>1, <2>2
<1>4. PoolStage(r)' = "accepted" => PoolPhase' = "open"
  BY AcceptedIsOpen DEF PoolPhase
<1>. QED
  BY <1>3, <1>4 DEF P!RequestStep, P!Onward, P!Answered, Rests

\* A request that leaves the queue for a slot is still accepted.
LEMMA StartsStep ==
    ASSUME Sound, Sound', NEW r \in Requests, requests[r].state = "Queued",
           requests'[r].state = "Dispatched", requests'[r].result = requests[r].result,
           requests'[r].execution = "Awaiting_entry",
           \A s \in Slots : slots'[s].lease = r => slots'[s].job = "handed"
    PROVE  P!RequestStep(r)
<1>1. /\ Agree(slots, requests, lifecycle) /\ PoolStage(r) = StageIn(slots, requests, r)
      /\ Agree(slots', requests', lifecycle') /\ PoolStage(r)' = StageIn(slots', requests', r)
  BY SoundAgrees, SoundAgreesAfter, StageInIs
<1>2. PoolStage(r) = "accepted"
  BY <1>1, StageIs
<1>3. PICK s \in Slots : slots'[s].lease = r
  BY <1>1 DEF Agree, Discipline
<1>4. PoolStage(r)' = Progress("handed", requests'[r])
  BY <1>1, <1>3, StageIs
<1>5. PoolStage(r)' \in {"accepted", "withdrawn"}
  BY <1>4 DEF Progress
<1>6. PoolStage(r)' = "accepted" => PoolPhase' = "open"
  BY AcceptedIsOpen DEF PoolPhase
<1>. QED
  BY <1>2, <1>5, <1>6 DEF P!RequestStep, P!Onward, P!Answered

\* A request ends as its outcome says, and an open pool has a fit connection in its slot
\* then, in the place of one that was not.
LEMMA EndsStep ==
    ASSUME Sound, Sound', NEW r \in Requests, Ends(requests[r], requests'[r]),
           \/ lifecycle' # "Accepting"
           \/ \A s \in Slots : slots[s].lease = r =>
                slots[s].owner # "clean" /\ slots'[s].owner = "clean"
    PROVE  P!RequestStep(r)
<1>1. /\ Agree(slots, requests, lifecycle) /\ PoolStage(r) = StageIn(slots, requests, r)
      /\ Agree(slots', requests', lifecycle') /\ PoolStage(r)' = StageIn(slots', requests', r)
  BY SoundAgrees, SoundAgreesAfter, StageInIs
<1>2. PoolStage(r)' = IF requests'[r].result = "Ok" THEN "succeeded" ELSE "unsuccessful"
  BY <1>1, StageIs DEF Ends
<1>3. \/ PoolStage(r) = "accepted" /\ requests[r].outcome = NoOutcome
      \/ PoolStage(r) = IF requests[r].outcome = "Ok" THEN "done" ELSE "failed"
  <2>1. CASE requests[r].state = "Queued"
    <3>1. PoolStage(r) = "accepted"
      BY <1>1, <2>1, StageIs
    <3>2. requests[r].outcome = NoOutcome
      BY <1>1, <2>1 DEF Agree, Fit
    <3>. QED
      BY <3>1, <3>2
  <2>2. CASE requests[r].state = "Settling"
    BY <1>1, <2>2, StageIs
  <2>. QED
    BY <2>1, <2>2 DEF Ends
<1>4. PoolStage(r)' \in P!Onward(PoolStage(r))
  BY <1>2, <1>3 DEF P!Onward, P!Answered, Ends, NoOutcome
<1>5. PoolPhase' = "open" => lifecycle' = "Accepting"
  BY DEF PoolPhase
<1>6. PoolPhase' = "open" => \A s \in Slots : slots[s].lease = r =>
        slots[s].owner # "clean" /\ slots'[s].owner = "clean"
  BY <1>5
<1>7. PoolStage(r) # "running"
  BY <1>3
<1>. QED
  BY <1>2, <1>4, <1>6, <1>7 DEF P!RequestStep

\* A handle is forgotten.
LEMMA LeavesStep ==
    ASSUME Sound, Sound', NEW r \in Requests, requests[r].state = "Finished",
           requests'[r].state = "Absent"
    PROVE  P!RequestStep(r)
<1>1. /\ PoolStage(r) \in {"succeeded", "unsuccessful"} /\ PoolStage(r)' = "absent"
  BY SoundAgrees, SoundAgreesAfter, StageInIs, StageIs
<1>. QED
  BY <1>1 DEF P!RequestStep, P!Onward, P!Answered

\* A request is admitted, at once or to the queue.
LEMMA ArrivesStep ==
    ASSUME Sound, Sound', NEW r \in Requests, requests[r].state = "Absent", lifecycle' = "Accepting",
           \/ requests'[r].state = "Queued"
           \/ /\ requests'[r].state = "Dispatched" /\ requests'[r].execution = "Awaiting_entry"
              /\ ~requests'[r].cancelled
              /\ \A s \in Slots : slots'[s].lease = r => slots'[s].job = "handed"
    PROVE  P!RequestStep(r)
<1>1. /\ Agree(slots, requests, lifecycle) /\ PoolStage(r) = StageIn(slots, requests, r)
      /\ Agree(slots', requests', lifecycle') /\ PoolStage(r)' = StageIn(slots', requests', r)
  BY SoundAgrees, SoundAgreesAfter, StageInIs
<1>2. PoolStage(r) = "absent"
  BY <1>1, StageIs
<1>3. PoolStage(r)' = "accepted"
  <2>1. CASE requests'[r].state = "Queued"
    BY <1>1, <2>1, StageIs
  <2>2. CASE requests'[r].state = "Dispatched"
    <3>1. PICK s \in Slots : slots'[s].lease = r
      BY <1>1, <2>2 DEF Agree, Discipline
    <3>2. PoolStage(r)' = Progress("handed", requests'[r])
      BY <1>1, <2>2, <3>1, StageIs
    <3>. QED
      BY <2>2, <3>2 DEF Progress
  <2>. QED
    BY <2>1, <2>2
<1>4. PoolPhase' = "open"
  BY DEF PoolPhase
<1>. QED
  BY <1>2, <1>3, <1>4 DEF P!RequestStep, P!Onward, P!Answered

\* The worker's result reaches the scheduler and the connection retires.
LEMMA SettlesStep ==
    ASSUME Sound, Sound', NEW s \in Slots, NEW r \in Requests, slots[s].lease = r,
           slots[s].job \in Outcomes, requests[r].state = "Dispatched",
           requests'[r].state = "Settling", requests'[r].outcome = slots[s].job,
           requests'[r].result = requests[r].result
    PROVE  P!RequestStep(r)
<1>1. /\ Agree(slots, requests, lifecycle) /\ PoolStage(r) = StageIn(slots, requests, r)
      /\ Agree(slots', requests', lifecycle') /\ PoolStage(r)' = StageIn(slots', requests', r)
  BY SoundAgrees, SoundAgreesAfter, StageInIs
<1>2. PoolStage(r) = Progress(slots[s].job, requests[r])
  BY <1>1, StageIs
<1>3. PoolStage(r)' = IF slots[s].job = "Ok" THEN "done" ELSE "failed"
  BY <1>1, StageIs
<1>4. PoolStage(r)' = PoolStage(r)
  BY <1>2, <1>3 DEF Progress, Outcomes
<1>5. PoolStage(r)' # "accepted"
  BY <1>3
<1>. QED
  BY <1>4, <1>5 DEF P!RequestStep

\* A successful Execute is published as a success at once and leaves a fit connection.
LEMMA ReuseStep ==
    ASSUME Sound, Sound', NEW s \in Slots, NEW r \in Requests, slots[s].lease = r,
           slots[s].job = "Ok", requests[r].state = "Dispatched",
           requests'[r].state = "Finished", requests'[r].result = "Ok",
           slots'[s].owner = "clean"
    PROVE  P!RequestStep(r)
<1>1. /\ Agree(slots, requests, lifecycle) /\ PoolStage(r) = StageIn(slots, requests, r)
      /\ Agree(slots', requests', lifecycle') /\ PoolStage(r)' = StageIn(slots', requests', r)
  BY SoundAgrees, SoundAgreesAfter, StageInIs
<1>2. PoolStage(r) = "done"
  <2>1. PoolStage(r) = Progress("Ok", requests[r])
    BY <1>1, StageIs
  <2>. QED
    BY <2>1 DEF Progress
<1>3. PoolStage(r)' = "succeeded"
  BY <1>1, StageIs
<1>4. \A t \in Slots : slots[t].lease = r => t = s
  BY <1>1, LimitsAssumption DEF Agree, Discipline
<1>. QED
  BY <1>2, <1>3, <1>4 DEF P!RequestStep, P!Onward, P!Answered

\* The pool moves forward, and it ends when nothing is lent and everything is answered.
LEMMA PhaseMoves ==
    ASSUME Sound, Sound',
           \/ lifecycle' = lifecycle
           \/ <<lifecycle, lifecycle'>> \in {<<"Accepting", "Stopping">>, <<"Stopping", "Stopped">>}
    PROVE  P!PhaseStep
<1>1. lifecycle' \in Lifecycles /\ Agree(slots', requests', lifecycle')
  BY SoundAgreesAfter DEF Sound, IInv, TypeOK
<1>2. \/ PoolPhase' = PoolPhase
      \/ <<PoolPhase, PoolPhase'>> \in {<<"open", "stopping">>, <<"stopping", "stopped">>}
  BY DEF PoolPhase
<1>3. ASSUME PoolPhase' = "stopped"
      PROVE  /\ \A s \in Slots : slots'[s].lease = NoRequest
             /\ \A r \in Requests : PoolStage(r)' \in {"succeeded", "unsuccessful", "absent"}
  <2>1. lifecycle' = "Stopped"
    BY <1>1, <1>3 DEF PoolPhase, Lifecycles
  <2>2. \A s \in Slots : slots'[s].state \in {"Closed", "Close_failed"}
    BY <2>1 DEF Sound, Orderly, AllClosed
  <2>3. \A s \in Slots : slots'[s].lease = NoRequest
    BY <1>1, <2>2 DEF Agree, Discipline, SlotDiscipline
  <2>4. ASSUME NEW r \in Requests
        PROVE  requests'[r].state \in {"Absent", "Finished"}
    <3>1. requests'[r].state \in RequestStates
      BY <1>1 DEF Agree, Request
    <3>2. requests'[r].state # "Queued"
      BY <2>1 DEF Sound, Orderly, IInv, QueueSound
    <3>3. requests'[r].state \notin {"Dispatched", "Settling"}
      BY <1>1, <2>3, LimitsAssumption DEF Agree, Discipline
    <3>. QED
      BY <3>1, <3>2, <3>3 DEF RequestStates
  <2>5. ASSUME NEW r \in Requests
        PROVE  PoolStage(r)' \in {"succeeded", "unsuccessful", "absent"}
    BY <1>1, <2>4, StageInIs, StageIs
  <2>. QED
    BY <2>3, <2>5
<1>. QED
  BY <1>2, <1>3 DEF P!PhaseStep, P!Answered

\* A lease begins with a fit connection and a request that may begin, and ends with its answer.
LEMMA LeaseMoves ==
    ASSUME Sound, Sound',
           \A s \in Slots :
             \/ slots'[s].lease \in {slots[s].lease, NoRequest}
             \/ /\ slots'[s].owner = "clean" /\ slots'[s].job = "handed" /\ lifecycle' = "Accepting"
                /\ requests[slots'[s].lease].state \in {"Absent", "Queued"}
                /\ ~requests'[slots'[s].lease].cancelled,
           \A r \in Requests : requests[r].state \in {"Dispatched", "Settling"} =>
             requests'[r].state \in {"Dispatched", "Settling", "Finished"}
    PROVE  P!LeaseStep
<1>. DEFINE old == {<<s, slots[s].lease>> : s \in {t \in Slots : slots[t].lease # NoRequest}}
            new == {<<s, slots'[s].lease>> : s \in {t \in Slots : slots'[t].lease # NoRequest}}
<1>1. Agree(slots, requests, lifecycle) /\ Agree(slots', requests', lifecycle')
  BY SoundAgrees, SoundAgreesAfter
<1>2. ASSUME NEW lease \in new \ old
      PROVE  /\ lease[1] \in {s \in Slots : slots'[s].owner = "clean"} /\ PoolPhase' = "open"
             /\ lease[2] \in Requests /\ PoolStage(lease[2])' \in {"accepted", "running"}
  <2>1. PICK s \in Slots : slots'[s].lease # NoRequest /\ lease = <<s, slots'[s].lease>>
    OBVIOUS
  <2>2. slots'[s].lease # slots[s].lease
    BY <1>2, <2>1
  <2>3. PICK r \in Requests : r = slots'[s].lease
    BY <1>1, <2>1 DEF Agree, Slot
  <2>4. /\ slots'[s].owner = "clean" /\ slots'[s].job = "handed" /\ lifecycle' = "Accepting"
        /\ ~requests'[r].cancelled
    BY <2>1, <2>2, <2>3
  <2>5. requests'[r].state = "Dispatched"
    BY <1>1, <2>3, <2>4, LimitsAssumption DEF Agree, Discipline, SlotDiscipline
  <2>6. PoolStage(r)' = Progress("handed", requests'[r])
    BY <1>1, <2>3, <2>4, <2>5, StageInIs, StageIs
  <2>7. PoolStage(r)' \in {"accepted", "running"}
    BY <2>4, <2>6 DEF Progress
  <2>. QED
    BY <2>1, <2>3, <2>4, <2>7 DEF PoolPhase
<1>3. ASSUME NEW lease \in old \ new
      PROVE  lease[2] \in Requests /\ PoolStage(lease[2])' \in {"succeeded", "unsuccessful"}
  <2>1. PICK s \in Slots : slots[s].lease # NoRequest /\ lease = <<s, slots[s].lease>>
    OBVIOUS
  <2>2. slots'[s].lease # slots[s].lease
    BY <1>3, <2>1
  <2>3. PICK r \in Requests : r = slots[s].lease
    BY <1>1, <2>1 DEF Agree, Slot
  <2>4. requests[r].state \in {"Dispatched", "Settling"}
    BY <1>1, <2>3 DEF Agree, Discipline
  <2>5. \A t \in Slots : slots'[t].lease # r
    <3>. SUFFICES ASSUME NEW t \in Slots, slots'[t].lease = r
                  PROVE  FALSE
      OBVIOUS
    <3>1. slots[t].lease = r
      BY <2>4, LimitsAssumption
    <3>2. t = s
      BY <1>1, <2>3, <3>1, LimitsAssumption DEF Agree, Discipline
    <3>. QED
      BY <2>2, <2>3, <3>2
  <2>6. requests'[r].state \notin {"Dispatched", "Settling"}
    BY <1>1, <2>5 DEF Agree, Discipline
  <2>7. requests'[r].state = "Finished"
    BY <2>4, <2>6
  <2>. QED
    BY <1>1, <2>1, <2>3, <2>7, StageInIs, StageIs
<1>4. ASSUME NEW a \in new, NEW b \in new, a[1] = b[1] \/ a[2] = b[2]
      PROVE  a = b
  <2>1. PICK s \in Slots : slots'[s].lease # NoRequest /\ a = <<s, slots'[s].lease>>
    OBVIOUS
  <2>2. PICK t \in Slots : slots'[t].lease # NoRequest /\ b = <<t, slots'[t].lease>>
    OBVIOUS
  <2>3. s = t
    BY <1>1, <1>4, <2>1, <2>2 DEF Agree, Discipline
  <2>. QED
    BY <2>1, <2>2, <2>3
<1>. QED
  BY <1>2, <1>3, <1>4 DEF P!LeaseStep, P!Answered

\* What a step of the scheduler does to a slot: it keeps its lease or gives it up, and so with
\* the job, and it is idle only with a fit connection; or it is lent to a request that begins.
Stays(slot, slot2) ==
    /\ slot2.lease \in {slot.lease, NoRequest}
    /\ \/ slot2.job = "none"
       \/ slot2.job = slot.job /\ slot2.lease = slot.lease /\ slot2.owner = slot.owner
    /\ slot2.state = "Idle" =>
         slot2.owner = "clean" \/ (slot.state = "Idle" /\ slot2.owner = slot.owner)

Fresh(q) == q.execution = "Awaiting_entry" /\ ~q.cancelled /\ q.outcome = NoOutcome

Lends(s) ==
    /\ slots'[s].owner = "clean" /\ slots'[s].job = "handed"
    /\ slots'[s].lease \in Requests /\ lifecycle' = "Accepting"
    /\ requests[slots'[s].lease].state \in {"Absent", "Queued"}
    /\ requests'[slots'[s].lease].state = "Dispatched" /\ Fresh(requests'[slots'[s].lease])

\* What it does to a request that does not rest or end for good.
Forgotten(r) ==
    requests[r].state = "Finished" /\ requests'[r].state = "Absent" /\ Fresh(requests'[r])

Admitted(r) ==
    /\ requests[r].state = "Absent" /\ requests'[r].state \in {"Queued", "Dispatched"}
    /\ Fresh(requests'[r]) /\ lifecycle' = "Accepting"

Started(r) ==
    /\ requests[r].state = "Queued" /\ requests'[r].state = "Dispatched"
    /\ Fresh(requests'[r]) /\ lifecycle' = "Accepting"
    /\ requests'[r].result = requests[r].result

Settled(r) ==
    \E s \in Slots :
        /\ slots[s].lease = r /\ slots[s].job \in Outcomes /\ lifecycle' = lifecycle
        /\ requests[r].state = "Dispatched" /\ requests'[r].state = "Settling"
        /\ requests'[r].outcome = slots[s].job /\ requests'[r].result = requests[r].result
        /\ requests'[r].execution = requests[r].execution
        /\ requests'[r].cancelled = requests[r].cancelled

Reused(r) ==
    \E s \in Slots :
        /\ slots[s].lease = r /\ slots[s].job = "Ok" /\ slots'[s].owner = "clean"
        /\ requests[r].state = "Dispatched" /\ requests'[r].state = "Finished"
        /\ requests'[r].result = "Ok"
        /\ requests'[r].outcome = NoOutcome /\ requests'[r].execution = requests[r].execution

Ended(r) ==
    /\ Ends(requests[r], requests'[r])
    /\ \/ lifecycle' # "Accepting"
       \/ \A s \in Slots : slots[s].lease = r =>
            slots[s].owner # "clean" /\ slots'[s].owner = "clean"

Moves(r) ==
    \/ Rests(requests[r], requests'[r]) \/ Ended(r) \/ Forgotten(r)
    \/ Admitted(r) \/ Started(r) \/ Settled(r) \/ Reused(r)

\* What it does to the pool.
Advances ==
    \/ lifecycle' = lifecycle
    \/ /\ lifecycle = "Accepting" /\ lifecycle' = "Stopping"
       /\ \A r \in Requests : requests'[r].state \in {"Dispatched", "Settling"} => requests'[r].cancelled
    \/ lifecycle = "Stopping" /\ lifecycle' = "Stopped"

Allowed ==
    /\ \A s \in Slots : Stays(slots[s], slots'[s]) \/ Lends(s)
    /\ \A r \in Requests : Moves(r)
    /\ Advances

\* After such a step the connections to be lent are fit again.
LEMMA StepFits ==
    ASSUME Sound, IInv', Honesty', Allowed
    PROVE  Fit(slots', requests', lifecycle')
<1>1. Agree(slots, requests, lifecycle)
  BY SoundAgrees
<1>2. /\ slots' \in [Slots -> Slot] /\ requests' \in [Requests -> Request]
      /\ Discipline(slots', requests') /\ AllHonest(requests') /\ lifecycle \in Lifecycles
  BY DEF IInv, TypeOK, Honesty, Sound
<1>3. ASSUME NEW s \in Slots
      PROVE  /\ slots'[s].state = "Idle" => slots'[s].owner = "clean"
             /\ slots'[s].job = "handed" =>
                  /\ slots'[s].owner = "clean"
                  /\ requests'[slots'[s].lease].execution \in {"Awaiting_entry", "Executing"}
             /\ slots'[s].job \in Outcomes => requests'[slots'[s].lease].execution # "Executing"
             /\ slots'[s].job = "Ok" /\ requests'[slots'[s].lease].operation = "Execute" =>
                  slots'[s].owner = "clean"
  <2>1. CASE Lends(s)
    BY <2>1 DEF Lends, Fresh, Outcomes
  <2>2. CASE Stays(slots[s], slots'[s])
    <3>1. slots'[s].state = "Idle" => slots'[s].owner = "clean"
      BY <1>1, <2>2 DEF Stays, Agree, Fit
    <3>2. CASE slots'[s].job = "none"
      BY <3>1, <3>2 DEF Outcomes
    <3>3. CASE slots'[s].job # "none"
      <4>1. /\ slots'[s].job = slots[s].job /\ slots'[s].lease = slots[s].lease
            /\ slots'[s].owner = slots[s].owner
        BY <2>2, <3>3 DEF Stays
      <4>2. PICK r \in Requests : r = slots[s].lease
        BY <1>1, <3>3, <4>1 DEF Agree, Discipline, SlotDiscipline, Slot
      <4>3. requests[r].state = "Dispatched" /\ requests'[r].state = "Dispatched"
        <5>1. requests[r].state = "Dispatched"
          BY <1>1, <3>3, <4>1, <4>2, LimitsAssumption DEF Agree, Discipline, SlotDiscipline
        <5>2. requests'[r].state = "Dispatched"
          BY <1>2, <3>3, <4>1, <4>2, LimitsAssumption DEF Discipline, SlotDiscipline
        <5>. QED
          BY <5>1, <5>2
      <4>4. Rests(requests[r], requests'[r])
        BY <4>3 DEF Allowed, Moves, Ended, Ends, Forgotten, Admitted, Started, Settled, Reused
      <4>. QED
        BY <1>1, <3>1, <4>1, <4>2, <4>4 DEF Rests, Agree, Fit
    <3>. QED
      BY <3>2, <3>3
  <2>. QED
    BY <2>1, <2>2 DEF Allowed
<1>4. ASSUME NEW r \in Requests
      PROVE  /\ requests'[r].outcome # NoOutcome => requests'[r].state = "Settling"
             /\ requests'[r].execution = "Executing" => requests'[r].state = "Dispatched"
             /\ requests'[r].state = "Queued" => ~requests'[r].cancelled
             /\ requests'[r].state \in {"Dispatched", "Settling"} /\ lifecycle' # "Accepting" =>
                  requests'[r].cancelled
  <2>1. /\ requests[r].outcome # NoOutcome => requests[r].state = "Settling"
        /\ requests[r].execution = "Executing" => requests[r].state = "Dispatched"
        /\ requests[r].state = "Queued" => ~requests[r].cancelled
        /\ requests[r].state \in {"Dispatched", "Settling"} /\ lifecycle # "Accepting" =>
             requests[r].cancelled
    BY <1>1 DEF Agree, Fit
  <2>2. \A s \in Slots : slots[s].lease = r /\ slots[s].job \in Outcomes =>
          requests[r].execution # "Executing"
    BY <1>1 DEF Agree, Fit
  <2>3. CASE Rests(requests[r], requests'[r])
    <3>1. /\ requests'[r].outcome # NoOutcome => requests'[r].state = "Settling"
          /\ requests'[r].execution = "Executing" => requests'[r].state = "Dispatched"
      BY <2>1, <2>3 DEF Rests
    <3>2. requests'[r].state = "Queued" => ~requests'[r].cancelled
      BY <2>1, <2>3 DEF Rests
    <3>3. requests'[r].state \in {"Dispatched", "Settling"} /\ lifecycle' # "Accepting" =>
            requests'[r].cancelled
      BY <2>1, <2>3 DEF Rests, Allowed, Advances
    <3>. QED
      BY <3>1, <3>2, <3>3
  <2>4. CASE Ended(r)
    BY <2>1, <2>4 DEF Ended, Ends
  <2>5. CASE Forgotten(r) \/ Admitted(r) \/ Started(r)
    BY <2>5 DEF Forgotten, Admitted, Started, Fresh
  <2>6. CASE Settled(r)
    BY <2>1, <2>2, <2>6 DEF Settled
  <2>7. CASE Reused(r)
    BY <2>2, <2>7 DEF Reused, Outcomes
  <2>. QED
    BY <2>3, <2>4, <2>5, <2>6, <2>7 DEF Allowed, Moves
<1>. QED
  BY <1>3, <1>4 DEF Fit

\* Such a step is one that the contract allows.
LEMMA StepImplements ==
    ASSUME Sound, Sound', Allowed
    PROVE  P!Next
<1>1. Agree(slots, requests, lifecycle) /\ Agree(slots', requests', lifecycle')
  BY SoundAgrees, SoundAgreesAfter
<1>2. P!PhaseStep
  BY PhaseMoves DEF Allowed, Advances
<1>3. P!LeaseStep
  <2>1. ASSUME NEW s \in Slots
        PROVE  \/ slots'[s].lease \in {slots[s].lease, NoRequest}
               \/ /\ slots'[s].owner = "clean" /\ slots'[s].job = "handed" /\ lifecycle' = "Accepting"
                  /\ requests[slots'[s].lease].state \in {"Absent", "Queued"}
                  /\ ~requests'[slots'[s].lease].cancelled
    BY DEF Allowed, Stays, Lends, Fresh
  <2>2. ASSUME NEW r \in Requests, requests[r].state \in {"Dispatched", "Settling"}
        PROVE  requests'[r].state \in {"Dispatched", "Settling", "Finished"}
    BY <2>2 DEF Allowed, Moves, Rests, Ended, Ends, Forgotten, Admitted, Started, Settled, Reused
  <2>. QED
    BY <2>1, <2>2, LeaseMoves
<1>4. ASSUME NEW r \in Requests
      PROVE  P!RequestStep(r)
  <2>1. \A s \in Slots : slots'[s].lease = r =>
          \/ slots[s].lease = r
          \/ slots'[s].job = "handed" /\ requests[r].state \in {"Absent", "Queued"}
             /\ requests'[r].state = "Dispatched"
    BY LimitsAssumption DEF Allowed, Stays, Lends
  <2>2. CASE Rests(requests[r], requests'[r])
    <3>1. ASSUME NEW s \in Slots, slots'[s].lease = r
          PROVE  slots[s].lease = r /\ slots'[s].job = slots[s].job
      <4>1. slots[s].lease = r
        BY <2>1, <2>2, <3>1 DEF Rests
      <4>2. Stays(slots[s], slots'[s])
        BY <2>2, <3>1 DEF Allowed, Lends, Rests
      <4>3. slots[s].job # "none" <=> requests[r].state = "Dispatched"
        BY <1>1, <4>1, LimitsAssumption DEF Agree, Discipline, SlotDiscipline
      <4>4. slots'[s].job # "none" <=> requests'[r].state = "Dispatched"
        BY <1>1, <3>1, LimitsAssumption DEF Agree, Discipline, SlotDiscipline
      <4>. QED
        BY <2>2, <4>1, <4>2, <4>3, <4>4 DEF Stays, Rests
    <3>. QED
      BY <2>2, <3>1, RestsStep DEF JobKept
  <2>3. CASE Ended(r)
    BY <2>3, EndsStep DEF Ended
  <2>4. CASE Forgotten(r)
    BY <2>4, LeavesStep DEF Forgotten
  <2>5. requests[r].state \in {"Absent", "Queued"} => \A s \in Slots : slots[s].lease # r
    BY <1>1 DEF Agree, Discipline
  <2>6. CASE Admitted(r)
    BY <2>1, <2>5, <2>6, ArrivesStep DEF Admitted, Fresh
  <2>7. CASE Started(r)
    BY <2>1, <2>5, <2>7, StartsStep DEF Started, Fresh
  <2>8. CASE Settled(r)
    BY <2>8, SettlesStep DEF Settled
  <2>9. CASE Reused(r)
    BY <2>9, ReuseStep DEF Reused
  <2>. QED
    BY <2>2, <2>3, <2>4, <2>6, <2>7, <2>8, <2>9 DEF Allowed, Moves
<1>. QED
  BY <1>2, <1>3, <1>4 DEF P!Next

-----------------------------------------------------------------------------
(* Every step of the scheduler is such a step.                              *)

\* What a sound pool's actions start from.
LEMMA SoundIs ==
    ASSUME Sound
    PROVE  /\ slots \in [Slots -> Slot] /\ requests \in [Requests -> Request] /\ queue \in Seq(Requests)
           /\ Discipline(slots, requests) /\ QueueSound(queue, requests) /\ NoIdle(queue, slots)
           /\ AllHonest(requests) /\ Fit(slots, requests, lifecycle) /\ maintenance \in Maintenance
  BY DEF Sound, IInv, TypeOK, Honesty

\* What does not change rests.
LEMMA Unmoved ==
    /\ \A q : Rests(q, q)
    /\ \A slot : Stays(slot, slot)
  BY DEF Rests, Stays

\* pump moves no slot further.
LEMMA PumpStays ==
    ASSUME NEW sl \in [Slots -> Slot], NEW lc, NEW busy, Pump(sl, lc, busy),
           NEW s \in Slots, NEW slot, Stays(slot, sl[s])
    PROVE  Stays(slot, slots'[s])
<1>1. /\ slots'[s].job = sl[s].job /\ slots'[s].lease = sl[s].lease /\ slots'[s].owner = sl[s].owner
      /\ slots'[s].state = "Idle" => sl[s].state = "Idle"
  BY PumpTouches
<1>. QED
  BY <1>1 DEF Stays

\* The latch moves no request that is active, and finish ends one.
LEMMA LatchRests ==
    ASSUME NEW q \in Request, q.state \in {"Dispatched", "Settling"}
    PROVE  Rests(q, Latch(q)) /\ Latch(q).cancelled
  BY DEF Latch, Rests, Request

\* finish ends a request, a success only if it had one.
LEMMA FinishEnds ==
    ASSUME NEW q \in Request, q.state \in {"Queued", "Settling"}, NEW result,
           result = "Ok" => q.outcome = "Ok"
    PROVE  Ends(q, Finish(q, result)) /\ Ends(q, Finish(Latch(q), result))
<1>1. ASSUME NEW q2 \in Request, q2.execution = q.execution
      PROVE  Ends(q, Finish(q2, result))
  <2>. DEFINE f == Finish(q2, result)
  <2>1. /\ f.state = "Finished" /\ f.outcome = NoOutcome /\ f.execution = q.execution
        /\ f.result = Classify(q2, result)
    BY <1>1 DEF Finish, Request
  <2>. HIDE DEF f
  <2>2. f.result = "Ok" => result = "Ok"
    BY <2>1 DEF Classify
  <2>. QED
    BY <2>1, <2>2 DEF Ends, f
<1>2. Latch(q) \in Request /\ Latch(q).execution = q.execution
  BY DEF Latch, Request
<1>. QED
  BY <1>1, <1>2

\* finish_lease ends the request of its slot and touches no other.
LEMMA FinishLeaseMoves ==
    ASSUME NEW sl \in [Slots -> Slot], NEW rq \in [Requests -> Request], NEW s \in Slots,
           Discipline(sl, rq), sl[s].state # "Leased", NEW r \in Requests
    PROVE  /\ r = sl[s].lease => Ends(rq[r], FinishLease(sl, rq, s)[r])
           /\ r # sl[s].lease => FinishLease(sl, rq, s)[r] = rq[r]
<1>1. CASE r = sl[s].lease
  <2>1. FinishLease(sl, rq, s)[r] = Finish(rq[r], rq[r].outcome)
    BY <1>1 DEF FinishLease
  <2>2. rq[r] \in Request /\ rq[r].state = "Settling"
    BY <1>1, LimitsAssumption DEF Discipline, SlotDiscipline
  <2>. QED
    BY <1>1, <2>1, <2>2, FinishEnds
<1>2. CASE r # sl[s].lease
  BY <1>2 DEF FinishLease
<1>. QED
  BY <1>1, <1>2

\* stop ends what is queued or waits for a connection only, and latches the rest.
LEMMA StopMoves ==
    ASSUME NEW sl \in [Slots -> Slot], NEW rq \in [Requests -> Request],
           Discipline(sl, rq), QueueSound(queue, rq), NEW r \in Requests
    PROVE  /\ Rests(rq[r], StopRequests(sl, rq)[r]) \/ Ends(rq[r], StopRequests(sl, rq)[r])
           /\ StopRequests(sl, rq)[r].state \in {"Dispatched", "Settling"} =>
                StopRequests(sl, rq)[r].cancelled
<1>. DEFINE q2 == StopRequests(sl, rq)[r]
<1>1. Queued(r) <=> rq[r].state = "Queued"
  BY DEF QueueSound, Queued, Contains
<1>2. \A s \in HeldBy(sl, r) : s \in Slots /\ sl[s].lease = r
  BY DEF HeldBy
<1>3. CASE rq[r].state = "Queued"
  <2>1. q2 = Finish(rq[r], "Pool_shutdown")
    BY <1>1, <1>3 DEF StopRequests
  <2>2. Ends(rq[r], q2)
    BY <1>3, <2>1, FinishEnds
  <2>. QED
    BY <2>2 DEF Ends
<1>4. CASE rq[r].state # "Queued" /\ \E s \in HeldBy(sl, r) : sl[s].state = "Needs_connect"
  <2>1. q2 = Finish(Latch(rq[r]), rq[r].outcome)
    BY <1>1, <1>4 DEF StopRequests
  <2>2. rq[r].state = "Settling"
    BY <1>2, <1>4, LimitsAssumption DEF Discipline, SlotDiscipline
  <2>3. Ends(rq[r], q2)
    BY <2>1, <2>2, FinishEnds
  <2>. QED
    BY <2>3 DEF Ends
<1>5. CASE /\ rq[r].state # "Queued" /\ HeldBy(sl, r) # {}
           /\ \A s \in HeldBy(sl, r) : sl[s].state # "Needs_connect"
  <2>1. q2 = Latch(rq[r])
    BY <1>1, <1>5 DEF StopRequests
  <2>2. rq[r].state \in {"Dispatched", "Settling"}
    BY <1>2, <1>5 DEF Discipline
  <2>. QED
    BY <2>1, <2>2, LatchRests
<1>6. CASE rq[r].state # "Queued" /\ HeldBy(sl, r) = {}
  <2>1. q2 = rq[r]
    BY <1>1, <1>6 DEF StopRequests
  <2>2. rq[r].state \notin {"Dispatched", "Settling"}
    BY <1>6 DEF Discipline, HeldBy
  <2>. QED
    BY <2>1, <2>2, Unmoved
<1>. QED
  BY <1>3, <1>4, <1>5, <1>6

\* A request that leaves the queue is fresh.
LEMMA QueuedIsFresh ==
    ASSUME NEW sl, NEW rq \in [Requests -> Request], NEW lc, AllHonest(rq), Fit(sl, rq, lc),
           NEW r \in Requests, rq[r].state = "Queued"
    PROVE  /\ Fresh(DispatchedRequest(rq[r])) /\ DispatchedRequest(rq[r]).state = "Dispatched"
           /\ DispatchedRequest(rq[r]).result = rq[r].result
<1>1. rq[r] \in Request /\ Fresh(rq[r])
  BY DEF AllHonest, Honest, Fit, Fresh
<1>. QED
  BY <1>1 DEF DispatchedRequest, Request, Fresh

\* Operations of callers.
LEMMA CallerAllowed ==
    ASSUME Sound, NEW r \in Requests, Caller(r)
    PROVE  Allowed
<1>0. \A operation \in Operations : NewRequest(operation).state = "Queued" /\ Fresh(NewRequest(operation))
  BY DEF NewRequest, Fresh
<1>1. ASSUME UNCHANGED slots, lifecycle' = lifecycle, NEW q,
             requests' = [requests EXCEPT ![r] = q], requests'[r] = q => Moves(r)
      PROVE  Allowed
  <2>1. requests'[r] = q /\ \A p \in Requests \ {r} : requests'[p] = requests[p]
    BY <1>1, SoundIs
  <2>. QED
    BY <1>1, <2>1, Unmoved DEF Allowed, Moves, Advances
<1>2. ASSUME NEW operation \in Operations, AdmitIdle(r, operation)
      PROVE  Allowed
  <2>1. PICK s \in Slots : slots[s].state = "Idle" /\ slots' = [slots EXCEPT ![s] = DispatchedSlot(slots[s], r)]
    <3>1. IdleSlots \in SUBSET Slots /\ \A s \in IdleSlots : slots[s].state = "Idle"
      BY DEF IdleSlots
    <3>2. Min(IdleSlots) \in IdleSlots
      BY <1>2, <3>1, MinIsMember DEF AdmitIdle
    <3>. QED
      BY <1>2, <3>1, <3>2 DEF AdmitIdle
  <2>2. /\ slots'[s].lease = r /\ slots'[s].job = "handed" /\ slots'[s].owner = "clean"
        /\ \A t \in Slots \ {s} : slots'[t] = slots[t]
    <3>1. /\ slots \in [Slots -> Slot] /\ slots[s].owner = "clean"
      BY <2>1, SoundIs DEF Fit
    <3>2. slots'[s] = DispatchedSlot(slots[s], r) /\ \A t \in Slots \ {s} : slots'[t] = slots[t]
      BY <2>1, <3>1
    <3>. QED
      BY <3>1, <3>2, DispatchedSlotIs
  <2>3. /\ requests'[r].state = "Dispatched" /\ Fresh(requests'[r])
        /\ \A p \in Requests \ {r} : requests'[p] = requests[p]
    <3>1. requests' = [requests EXCEPT ![r] = DispatchedRequest(NewRequest(operation))]
      BY <1>2 DEF AdmitIdle
    <3>2. /\ DispatchedRequest(NewRequest(operation)).state = "Dispatched"
          /\ Fresh(DispatchedRequest(NewRequest(operation)))
      BY DEF DispatchedRequest, NewRequest, Fresh
    <3>. QED
      BY <3>1, <3>2, SoundIs
  <2>4. requests[r].state = "Absent" /\ lifecycle' = "Accepting" /\ lifecycle' = lifecycle
    BY <1>2 DEF AdmitIdle
  <2>5. Lends(s) /\ Admitted(r)
    BY <2>2, <2>3, <2>4 DEF Lends, Admitted
  <2>. QED
    BY <2>2, <2>3, <2>4, <2>5, Unmoved DEF Allowed, Moves, Advances
<1>3. ASSUME NEW operation \in Operations, AdmitQueued(r, operation)
      PROVE  Allowed
  BY <1>0, <1>1, <1>3 DEF AdmitQueued, Moves, Admitted
<1>4. CASE Forget(r)
  <2>1. AbsentRequest.state = "Absent" /\ Fresh(AbsentRequest)
    BY DEF AbsentRequest, NewRequest, Fresh
  <2>. QED
    BY <1>1, <1>4, <2>1 DEF Forget, Moves, Forgotten
<1>5. CASE CancelQueued(r)
  <2>1. Ends(requests[r], Finish(Latch(requests[r]), "Cancelled"))
    BY <1>5, SoundIs, FinishEnds DEF CancelQueued
  <2>2. \A s \in Slots : slots[s].lease # r
    BY <1>5, SoundIs DEF CancelQueued, Discipline
  <2>. QED
    BY <1>1, <1>5, <2>1, <2>2 DEF CancelQueued, Moves, Ended
<1>6. CASE CancelActive(r)
  <2>1. Rests(requests[r], Latch(requests[r]))
    BY <1>6, SoundIs, LatchRests DEF CancelActive
  <2>. QED
    BY <1>1, <1>6, <2>1 DEF CancelActive, Moves
<1>. QED
  BY <1>2, <1>3, <1>4, <1>5, <1>6 DEF Caller

\* shutdown: stop, then pump.
LEMMA ShutdownAllowed ==
    ASSUME Sound, Shutdown
    PROVE  Allowed
<1>1. /\ requests' = StopRequests(slots, requests) /\ Pump(StopSlots(slots), "Stopping", maintenance)
      /\ lifecycle = "Accepting" /\ lifecycle' = "Stopping"
  BY DEF Shutdown
<1>2. ASSUME NEW s \in Slots
      PROVE  Stays(slots[s], StopSlots(slots)[s])
  <2>1. /\ slots[s] \in Slot
        /\ slots[s].state \in {"Idle", "Needs_connect"} => slots[s].job = "none"
    BY SoundIs DEF Discipline, SlotDiscipline
  <2>. QED
    BY <2>1 DEF StopSlots, Stays, Slot
<1>3. ASSUME NEW s \in Slots
      PROVE  Stays(slots[s], slots'[s])
  BY <1>1, <1>2, SoundIs, StopSlotsType, PumpStays
<1>4. ASSUME NEW r \in Requests
      PROVE  /\ Rests(requests[r], requests'[r]) \/ Ends(requests[r], requests'[r])
             /\ requests'[r].state \in {"Dispatched", "Settling"} => requests'[r].cancelled
  BY <1>1, SoundIs, StopMoves
<1>. QED
  BY <1>1, <1>3, <1>4 DEF Allowed, Moves, Ended, Advances

\* The result of the worker reaches the scheduler.
LEMMA SettleAllowed ==
    ASSUME Sound, NEW s \in Slots, Settle(s)
    PROVE  Allowed
<1>0. IInv
  BY DEF Sound
<1>1. slots[s].job \in Outcomes /\ slots[s].job # "none" /\ lifecycle' = lifecycle
  BY DEF Settle, SettleReuse, SettleRetire, Outcomes
<1>2. PICK r \in Requests : r = slots[s].lease /\ requests[r].state = "Dispatched"
  BY <1>0, <1>1, LeasedSlot
<1>3. /\ SettlingRequest(s)[r].state = "Settling" /\ SettlingRequest(s)[r].outcome = slots[s].job
      /\ SettlingRequest(s)[r].result = requests[r].result
      /\ SettlingRequest(s)[r].execution = requests[r].execution
      /\ SettlingRequest(s)[r].cancelled = requests[r].cancelled
      /\ \A q \in Requests \ {r} : SettlingRequest(s)[q] = requests[q]
  BY <1>2, SoundIs DEF SettlingRequest, Request
<1>4. /\ Retired(s) \in [Slots -> Slot] /\ SettlingRequest(s) \in [Requests -> Request]
      /\ Discipline(Retired(s), SettlingRequest(s))
      /\ \A t \in Slots : t # s => Retired(s)[t] = slots[t]
      /\ Retired(s)[s].state = "Needs_close"
      /\ Retired(s)[s].lease = slots[s].lease
  BY <1>0, <1>1, SettlingKeeps
<1>5. CASE SettleRetire(s)
  <2>1. requests' = SettlingRequest(s) /\ Pump(Retired(s), lifecycle, maintenance)
    BY <1>5, Zenon DEF SettleRetire, Retired
  <2>2. ASSUME NEW t \in Slots
        PROVE  Stays(slots[t], slots'[t])
    <3>1. Retired(s)[s].job = "none"
      BY <1>4 DEF Discipline, SlotDiscipline
    <3>2. Stays(slots[t], Retired(s)[t])
      BY <1>4, <3>1, Unmoved DEF Stays
    <3>. QED
      BY <1>4, <2>1, <3>2, PumpStays
  <2>3. Settled(r)
    BY <1>1, <1>2, <1>3, <2>1 DEF Settled
  <2>. QED
    BY <1>1, <1>3, <2>1, <2>2, <2>3, Unmoved DEF Allowed, Moves, Advances
<1>6. CASE SettleReuse(s)
  <2>. DEFINE rq == FinishLease(slots, SettlingRequest(s), s)
  <2>1. /\ \A t \in Slots : t # s => slots'[t] = slots[t]
        /\ slots'[s].owner = slots[s].owner
        /\ \/ /\ slots'[s].state = "Idle" /\ slots'[s].lease = NoRequest /\ slots'[s].job = "none"
              /\ requests' = rq
           \/ /\ queue # <<>> /\ queue[1] \in Requests
              /\ slots'[s].lease = queue[1] /\ slots'[s].job = "handed"
              /\ requests' = [rq EXCEPT ![queue[1]] = DispatchedRequest(rq[queue[1]])]
    BY <1>0, <1>6, ReuseIs
  <2>2. /\ lifecycle = "Accepting" /\ slots[s].job = "Ok" /\ slots[s].owner = "clean"
        /\ ~requests[r].cancelled
    BY <1>2, <1>6, SoundIs DEF SettleReuse, Reusable, Fit
  <2>3. /\ \A q \in Requests \ {r} : rq[q] = requests[q]
        /\ rq \in [Requests -> Request] /\ Ends(SettlingRequest(s)[r], rq[r])
        /\ rq[r].result = "Ok"
    <3>1. rq = FinishLease(Retired(s), SettlingRequest(s), s)
      BY <1>4 DEF FinishLease
    <3>. HIDE DEF rq
    <3>2. /\ \A q \in Requests \ {r} : rq[q] = SettlingRequest(s)[q]
          /\ Ends(SettlingRequest(s)[r], rq[r])
      BY <1>2, <1>4, <3>1, FinishLeaseMoves
    <3>3. rq \in [Requests -> Request]
      <4>1. SettlingRequest(s)[r] \in Request /\ SettlingRequest(s)[r].outcome \in Outcomes
        BY <1>1, <1>3, <1>4
      <4>2. Finish(SettlingRequest(s)[r], SettlingRequest(s)[r].outcome) \in Request
        BY <4>1, FinishType
      <4>. QED
        BY <1>2, <1>4, <4>2 DEF rq, FinishLease
    <3>4. rq[r].result = "Ok"
      <4>1. SettlingRequest(s)[r] \in Request
        BY <1>4
      <4>2. rq[r] = Finish(SettlingRequest(s)[r], "Ok")
        BY <1>2, <1>3, <1>4, <2>2, <3>1 DEF FinishLease
      <4>. QED
        BY <1>3, <2>2, <4>1, <4>2 DEF Finish, Classify, Request
    <3>. QED
      BY <1>3, <3>2, <3>3, <3>4
  <2>. HIDE DEF rq
  <2>4. requests'[r] = rq[r] => Reused(r)
    <3>1. /\ rq[r].state = "Finished" /\ rq[r].outcome = NoOutcome
          /\ rq[r].execution = requests[r].execution /\ rq[r].result = "Ok"
      BY <1>3, <2>3 DEF Ends
    <3>. QED
      BY <1>2, <2>1, <2>2, <3>1 DEF Reused
  <2>5. CASE slots'[s].job = "none"
    <3>1. requests' = rq /\ Stays(slots[s], slots'[s])
      BY <2>1, <2>2, <2>5 DEF Stays
    <3>. QED
      BY <1>1, <2>1, <2>3, <2>4, <3>1, Unmoved DEF Allowed, Moves, Advances
  <2>6. CASE slots'[s].job # "none"
    <3>1. PICK p \in Requests : p = queue[1]
      BY <2>1, <2>6
    <3>2. requests[p].state = "Queued" /\ p # r
      <4>1. Len(queue) \in Nat /\ Len(queue) # 0
        BY <2>1, <2>6, SoundIs, EmptySeq, LenProperties
      <4>2. requests[p].state = "Queued"
        BY <3>1, <4>1, SoundIs DEF QueueSound
      <4>. QED
        BY <1>2, <4>2
    <3>3. /\ requests'[p] = DispatchedRequest(requests[p])
          /\ \A q \in Requests \ {p} : requests'[q] = rq[q]
      BY <2>1, <2>3, <2>6, <3>1, <3>2
    <3>4. /\ Fresh(requests'[p]) /\ requests'[p].state = "Dispatched"
          /\ requests'[p].result = requests[p].result
      BY <3>2, <3>3, SoundIs, QueuedIsFresh
    <3>5. Lends(s) /\ Started(p)
      BY <1>1, <2>1, <2>2, <2>6, <3>1, <3>2, <3>4 DEF Lends, Started
    <3>6. Reused(r)
      BY <2>4, <3>2, <3>3
    <3>7. \A q \in Requests \ {p, r} : requests'[q] = requests[q]
      BY <2>3, <3>3
    <3>. QED
      BY <1>1, <2>1, <3>5, <3>6, <3>7, Unmoved DEF Allowed, Moves, Advances
  <2>. QED
    BY <2>5, <2>6
<1>. QED
  BY <1>5, <1>6 DEF Settle

\* A close or a connect failed: the pool stops, and the request of the slot ends with it.
LEMMA SlotFailureAllowed ==
    ASSUME Sound, maintenance.job \in {"close", "connect"}, NEW state \in {"Closed", "Close_failed"},
           SlotFailure(maintenance.slot, state)
    PROVE  Allowed
<1>. DEFINE s == maintenance.slot
            sl == Lost(s, state)
            rq == AddLeaseCleanup(slots, requests, s)
            accepting == lifecycle = "Accepting"
            stopped == IF accepting THEN StopRequests(slots, rq) ELSE rq
            pumped == IF accepting THEN StopSlots(sl) ELSE sl
<1>0. IInv /\ lifecycle \in Lifecycles
  BY DEF Sound, IInv, TypeOK
<1>1. /\ s \in Slots /\ slots[s].state \in {"Closing", "Connecting"} /\ slots[s].job = "none"
  BY <1>0, ServedSlot
<1>2. Continues(s, sl) /\ sl[s].lease = NoRequest /\ sl[s].state = state
  BY <1>1, SoundIs, LostSlot DEF SlotStates
<1>3. /\ requests' = FinishLease(slots, stopped, s)
      /\ Pump(pumped, "Stopping", NoJob)
      /\ lifecycle' = IF accepting THEN "Stopping" ELSE lifecycle
  BY Zenon DEF SlotFailure, Lost
<1>4. lifecycle' # "Accepting" /\ (lifecycle' = lifecycle \/ (lifecycle = "Accepting" /\ lifecycle' = "Stopping"))
  BY <1>3
<1>. HIDE DEF sl
<1>5. ASSUME NEW t \in Slots
      PROVE  Stays(slots[t], slots'[t])
  <2>1. sl \in [Slots -> Slot] /\ StopSlots(sl) \in [Slots -> Slot]
    BY <1>2, StopSlotsType DEF Continues
  <2>2. Stays(slots[t], sl[t])
    BY <1>1, <1>2, Unmoved DEF Continues, Stays
  <2>3. Stays(slots[t], StopSlots(sl)[t])
    <3>1. CASE t = s
      <4>1. StopSlots(sl)[t] = sl[t]
        BY <1>2, <3>1 DEF StopSlots
      <4>. QED
        BY <2>2, <4>1
    <3>2. CASE t # s
      <4>1. /\ sl[t] = slots[t] /\ slots[t] \in Slot
            /\ slots[t].state \in {"Idle", "Needs_connect"} => slots[t].job = "none"
        BY <1>2, <3>2, SoundIs DEF Continues, Discipline, SlotDiscipline
      <4>. QED
        BY <4>1 DEF StopSlots, Stays, Slot
    <3>. QED
      BY <3>1, <3>2
  <2>. QED
    BY <1>3, <2>1, <2>2, <2>3, PumpStays
<1>6. /\ rq \in [Requests -> Request] /\ Discipline(slots, rq) /\ QueueSound(queue, rq)
      /\ \A r \in Requests : r # slots[s].lease => rq[r] = requests[r]
  <2>1. /\ rq \in [Requests -> Request] /\ Discipline(slots, rq)
        /\ \A r \in Requests : rq[r].state = requests[r].state
    BY <1>1, SoundIs, AddLeaseCleanupKeeps
  <2>2. \A r \in Requests : r # slots[s].lease => rq[r] = requests[r]
    BY DEF AddLeaseCleanup
  <2>. QED
    BY <2>1, <2>2, SoundIs DEF QueueSound
<1>7. ASSUME NEW r \in Requests, r = slots[s].lease
      PROVE  Ends(requests[r], requests'[r])
  <2>1. requests[r] \in Request /\ requests[r].state = "Settling"
    BY <1>1, <1>7, SoundIs, LimitsAssumption DEF Discipline, SlotDiscipline
  <2>2. /\ rq[r] \in Request /\ rq[r].state = "Settling" /\ rq[r].outcome = "Failed"
        /\ rq[r].execution = requests[r].execution
    BY <1>7, <2>1 DEF AddLeaseCleanup, Request, Outcomes
  <2>. HIDE DEF rq
  <2>3. stopped[r] \in {rq[r], Latch(rq[r])}
    <3>1. CASE accepting
      <4>1. ~Queued(r)
        BY <1>6, <2>2 DEF QueueSound, Queued, Contains
      <4>2. \A t \in HeldBy(slots, r) : slots[t].state # "Needs_connect"
        BY <1>1, <1>7, SoundIs, LimitsAssumption DEF HeldBy, Discipline
      <4>. QED
        BY <3>1, <4>1, <4>2 DEF StopRequests
    <3>2. CASE ~accepting
      BY <3>2
    <3>. QED
      BY <3>1, <3>2
  <2>. HIDE DEF stopped
  <2>4. /\ stopped[r] \in Request /\ stopped[r].outcome = "Failed"
        /\ stopped[r].execution = requests[r].execution /\ stopped[r].state = "Settling"
    BY <2>2, <2>3 DEF Latch, Request
  <2>5. requests'[r] = Finish(stopped[r], "Failed")
    BY <1>3, <1>7, <2>4 DEF FinishLease
  <2>6. Ends(stopped[r], Finish(stopped[r], "Failed"))
    BY <2>4, FinishEnds
  <2>7. requests'[r].result # "Ok"
    BY <2>4, <2>5, <2>6 DEF Ends
  <2>. QED
    BY <2>1, <2>4, <2>5, <2>6, <2>7 DEF Ends
<1>8. ASSUME NEW r \in Requests, r # slots[s].lease
      PROVE  /\ Rests(requests[r], requests'[r]) \/ Ends(requests[r], requests'[r])
             /\ accepting /\ requests'[r].state \in {"Dispatched", "Settling"} => requests'[r].cancelled
  <2>1. requests'[r] = stopped[r]
    BY <1>3, <1>8 DEF FinishLease
  <2>2. rq[r] = requests[r]
    BY <1>6, <1>8
  <2>. HIDE DEF rq
  <2>3. CASE accepting
    BY <1>6, <2>1, <2>2, <2>3, SoundIs, StopMoves
  <2>4. CASE ~accepting
    BY <2>1, <2>2, <2>4, Unmoved
  <2>. QED
    BY <2>3, <2>4
<1>9. Advances
  <2>1. ASSUME accepting, NEW r \in Requests, requests'[r].state \in {"Dispatched", "Settling"}
        PROVE  requests'[r].cancelled
    <3>1. r # slots[s].lease
      BY <1>7, <2>1 DEF Ends
    <3>. QED
      BY <1>8, <2>1, <3>1
  <2>. QED
    BY <1>4, <2>1 DEF Advances
<1>10. \A r \in Requests : Moves(r)
  BY <1>4, <1>7, <1>8 DEF Moves, Ended
<1>. QED
  BY <1>5, <1>9, <1>10 DEF Allowed

\* The continuations of the maintenance jobs.
LEMMA MaintenanceAllowed ==
    ASSUME Sound, MaintenanceDone
    PROVE  Allowed
<1>. DEFINE s == maintenance.slot
<1>0. IInv
  BY DEF Sound
<1>1. CASE CloseFailed \/ ConnectFailed
  BY <1>1, SlotFailureAllowed DEF CloseFailed, ConnectFailed
<1>2. CASE CloseDone
  <2>. DEFINE again == Kept(s, "none", "Needs_connect")
              done == Freed(s, "none", "Closed")
  <2>1. /\ maintenance.job = "close" /\ lifecycle' = lifecycle
        /\ \/ Pump(again, lifecycle, NoJob) /\ UNCHANGED requests
           \/ /\ lifecycle # "Accepting"
              /\ requests' = FinishLease(slots, requests, s) /\ Pump(done, lifecycle, NoJob)
    BY <1>2, Zenon DEF CloseDone, Kept, Freed
  <2>2. s \in Slots /\ slots[s].state = "Closing" /\ slots[s].job = "none"
    BY <1>0, <2>1, ServedSlot
  <2>3. /\ Continues(s, again) /\ again[s].state = "Needs_connect"
        /\ Continues(s, done) /\ done[s].state = "Closed"
    BY <2>2, SoundIs, OwnerAndState DEF Owners, SlotStates
  <2>. HIDE DEF again, done
  <2>4. ASSUME NEW t \in Slots
        PROVE  Stays(slots[t], slots'[t])
    <3>1. Stays(slots[t], again[t]) /\ Stays(slots[t], done[t])
      BY <2>2, <2>3, Unmoved DEF Continues, Stays
    <3>. QED
      BY <2>1, <2>3, <3>1, PumpStays DEF Continues
  <2>5. ASSUME NEW r \in Requests
        PROVE  Moves(r)
    <3>1. CASE UNCHANGED requests
      BY <3>1, Unmoved DEF Moves
    <3>2. CASE lifecycle # "Accepting" /\ requests' = FinishLease(slots, requests, s)
      <4>1. r = slots[s].lease => Ends(requests[r], requests'[r])
        BY <2>2, <3>2, SoundIs, FinishLeaseMoves
      <4>2. r # slots[s].lease => requests'[r] = requests[r]
        BY <2>2, <3>2, SoundIs, FinishLeaseMoves
      <4>. QED
        BY <2>1, <3>2, <4>1, <4>2, Unmoved DEF Moves, Ended
    <3>. QED
      BY <2>1, <3>1, <3>2
  <2>. QED
    BY <2>1, <2>4, <2>5 DEF Allowed, Advances
<1>3. CASE ConnectDone
  <2>. DEFINE idle == Freed(s, "clean", "Idle")
              late == Kept(s, "clean", "Needs_close")
              rq == FinishLease(slots, requests, s)
  <2>1. /\ maintenance.job = "connect" /\ lifecycle' = lifecycle
        /\ \/ /\ lifecycle = "Accepting" /\ requests' = WaitingRequests(idle, rq)
              /\ Pump(WaitingSlots(idle), lifecycle, NoJob)
           \/ Pump(late, lifecycle, NoJob) /\ UNCHANGED requests
    BY <1>3, Zenon DEF ConnectDone, Kept, Freed
  <2>2. s \in Slots /\ slots[s].state = "Connecting" /\ slots[s].job = "none"
    BY <1>0, <2>1, ServedSlot
  <2>3. /\ Continues(s, idle) /\ idle[s].state = "Idle" /\ idle[s].owner = "clean"
        /\ idle[s].lease = NoRequest
        /\ Continues(s, late) /\ late[s].state = "Needs_close"
    BY <2>2, SoundIs, OwnerAndState DEF Owners, SlotStates
  <2>4. \A r \in Requests : /\ r = slots[s].lease => Ends(requests[r], rq[r])
                            /\ r # slots[s].lease => rq[r] = requests[r]
    BY <2>2, SoundIs, FinishLeaseMoves
  <2>5. rq \in [Requests -> Request]
    <3>1. Releases(slots, s, idle)
      BY <2>2, <2>3, SoundIs DEF Releases, Continues, Discipline, SlotDiscipline
    <3>. QED
      BY <2>2, <3>1, SoundIs, FinishLeaseKeeps
  <2>. HIDE DEF idle, late, rq
  <2>6. ASSUME NEW t \in Slots
        PROVE  Stays(slots[t], idle[t]) /\ Stays(slots[t], late[t])
    BY <2>2, <2>3, Unmoved DEF Continues, Stays
  <2>7. queue # <<>> => \A t \in Slots : t # s => idle[t].state # "Idle"
    BY <2>3, SoundIs DEF NoIdle, Continues
  <2>8. \A r \in Requests, t \in Slots : slots[t].lease = r /\ r = slots[s].lease =>
          t = s /\ slots[t].owner # "clean"
    BY <2>2, SoundIs, LimitsAssumption DEF Discipline, SlotDiscipline
  <2>9. CASE Pump(late, lifecycle, NoJob) /\ UNCHANGED requests
    <3>1. \A t \in Slots : Stays(slots[t], slots'[t])
      BY <2>3, <2>6, <2>9, PumpStays DEF Continues
    <3>. QED
      BY <2>1, <2>9, <3>1, Unmoved DEF Allowed, Moves, Advances
  <2>10. CASE /\ lifecycle = "Accepting" /\ queue = <<>> /\ requests' = WaitingRequests(idle, rq)
              /\ Pump(WaitingSlots(idle), lifecycle, NoJob)
    <3>1. WaitingSlots(idle) = idle /\ WaitingRequests(idle, rq) = rq
      BY <2>2, <2>3, <2>5, <2>10, SoundIs, WaitingIs DEF Continues
    <3>2. \A t \in Slots : Stays(slots[t], slots'[t])
      BY <2>3, <2>6, <2>10, <3>1, PumpStays DEF Continues
    <3>3. slots'[s].owner = "clean"
      BY <2>2, <2>3, <2>10, <3>1, PumpTouches DEF Continues
    <3>4. \A r \in Requests : Moves(r)
      BY <2>4, <2>8, <2>10, <3>1, <3>3, Unmoved DEF Moves, Ended
    <3>. QED
      BY <2>1, <3>2, <3>4 DEF Allowed, Advances
  <2>11. CASE /\ lifecycle = "Accepting" /\ queue # <<>> /\ requests' = WaitingRequests(idle, rq)
              /\ Pump(WaitingSlots(idle), lifecycle, NoJob)
    <3>1. PICK p \in Requests : p = queue[1]
      BY <2>11, SoundIs, EmptySeq, LenProperties, ElementOfSeq
    <3>2. requests[p].state = "Queued" /\ p # slots[s].lease
      <4>1. Len(queue) \in Nat /\ Len(queue) # 0
        BY <2>11, SoundIs, EmptySeq, LenProperties
      <4>2. requests[p].state = "Queued"
        BY <3>1, <4>1, SoundIs DEF QueueSound
      <4>. QED
        BY <2>2, <4>2, SoundIs DEF Discipline
    <3>3. /\ WaitingSlots(idle) = [idle EXCEPT ![s] = DispatchedSlot(idle[s], p)]
          /\ WaitingRequests(idle, rq) = [rq EXCEPT ![p] = DispatchedRequest(rq[p])]
      <4>1. /\ idle \in [Slots -> Slot] /\ rq \in [Requests -> Request] /\ queue \in Seq(Requests)
            /\ idle[s].state = "Idle" /\ \A t \in Slots : t # s => idle[t].state # "Idle"
        BY <2>3, <2>5, <2>7, <2>11, SoundIs DEF Continues
      <4>2. /\ WaitingSlots(idle) = [idle EXCEPT ![s] = DispatchedSlot(idle[s], queue[1])]
            /\ WaitingRequests(idle, rq) = [rq EXCEPT ![queue[1]] = DispatchedRequest(rq[queue[1]])]
        BY <2>2, <2>11, <4>1, WaitingIs
      <4>. QED
        BY <3>1, <4>2
    <3>. DEFINE given == WaitingSlots(idle)
    <3>4. /\ given \in [Slots -> Slot] /\ given[s].lease = p /\ given[s].job = "handed"
          /\ given[s].owner = "clean" /\ \A t \in Slots \ {s} : given[t] = idle[t]
      <4>1. idle \in [Slots -> Slot]
        BY <2>3 DEF Continues
      <4>2. given[s] = DispatchedSlot(idle[s], p) /\ \A t \in Slots \ {s} : given[t] = idle[t]
        BY <2>2, <3>3, <4>1
      <4>3. /\ DispatchedSlot(idle[s], p) \in Slot /\ DispatchedSlot(idle[s], p).lease = p
            /\ DispatchedSlot(idle[s], p).job = "handed" /\ DispatchedSlot(idle[s], p).owner = "clean"
        BY <2>2, <2>3, <4>1, DispatchedSlotIs
      <4>4. given \in [Slots -> Slot]
        BY <3>3, <4>1, <4>3
      <4>. QED
        BY <4>2, <4>3, <4>4
    <3>. HIDE DEF given
    <3>5. /\ slots'[s].lease = p /\ slots'[s].job = "handed" /\ slots'[s].owner = "clean"
      BY <2>2, <2>11, <3>4, PumpTouches DEF given
    <3>6. \A t \in Slots \ {s} : Stays(slots[t], slots'[t])
      <4>1. Pump(given, lifecycle, NoJob)
        BY <2>11 DEF given
      <4>2. \A t \in Slots \ {s} : Stays(slots[t], given[t])
        BY <2>6, <3>4
      <4>. QED
        BY <3>4, <4>1, <4>2, PumpStays
    <3>7. /\ requests'[p] = DispatchedRequest(requests[p])
          /\ \A q \in Requests \ {p} : requests'[q] = rq[q]
      BY <2>4, <2>5, <2>11, <3>2, <3>3
    <3>8. /\ Fresh(requests'[p]) /\ requests'[p].state = "Dispatched"
          /\ requests'[p].result = requests[p].result
      BY <3>2, <3>7, SoundIs, QueuedIsFresh
    <3>9. Lends(s) /\ Started(p)
      BY <2>1, <2>11, <3>2, <3>5, <3>8 DEF Lends, Started
    <3>10. ASSUME NEW r \in Requests
           PROVE  Moves(r)
      <4>1. CASE r = p
        BY <3>9, <4>1 DEF Moves
      <4>2. CASE r # p /\ r = slots[s].lease
        <5>1. Ends(requests[r], requests'[r])
          BY <2>4, <3>7, <4>2
        <5>2. Ended(r)
          BY <2>8, <3>5, <4>2, <5>1 DEF Ended
        <5>. QED
          BY <5>2 DEF Moves
      <4>3. CASE r # p /\ r # slots[s].lease
        BY <2>4, <3>7, <4>3, Unmoved DEF Moves
      <4>. QED
        BY <4>1, <4>2, <4>3
    <3>. QED
      BY <2>1, <3>6, <3>9, <3>10 DEF Allowed, Advances
  <2>. QED
    BY <2>1, <2>9, <2>10, <2>11
<1>4. CASE DatabaseDone
  <2>1. lifecycle = "Stopping" /\ lifecycle' = "Stopped" /\ UNCHANGED <<slots, requests>>
    BY <1>4 DEF DatabaseDone, Sound, Orderly
  <2>. QED
    BY <2>1, Unmoved DEF Allowed, Moves, Advances
<1>. QED
  BY <1>1, <1>2, <1>3, <1>4 DEF MaintenanceDone

\* The maintenance helper runs.
LEMMA MaintenanceRunAllowed ==
    ASSUME Sound, MaintenanceRun
    PROVE  Allowed
<1>1. lifecycle' = lifecycle /\ slots' = slots /\ requests' = requests
  BY DEF MaintenanceRun
<1>. QED
  BY <1>1, Unmoved DEF Allowed, Moves, Advances

-----------------------------------------------------------------------------
(* The helper of a slot: the only steps on which work begins or returns.    *)

\* The work of request r enters its gate, never starts, or returns.
Enters(s, r) ==
    /\ requests[r].execution = "Awaiting_entry" /\ ~requests[r].cancelled
    /\ requests'[r].execution = "Executing" /\ slots'[s] = slots[s]

NeverStarts(s, r) ==
    /\ requests[r].execution = "Awaiting_entry"
    /\ requests'[r].execution \in {"Awaiting_entry", "Returned"}
    /\ slots'[s].job \in {"Failed", "Cancelled"}

Returns(s, r) ==
    /\ requests[r].execution = "Executing" /\ requests'[r].execution = "Returned"
    /\ slots'[s].job \in Outcomes
    /\ slots'[s].owner = IF requests[r].operation = "Execute" /\ slots'[s].job = "Ok"
                         THEN slots[s].owner ELSE "tainted"

\* The helper of slot s moves the request it holds, and nothing else.
Works(s, r) ==
    /\ slots[s].lease = r /\ slots[s].job = "handed" /\ requests[r].state = "Dispatched"
    /\ slots'[s].lease = r /\ slots'[s].state = "Leased"
    /\ \A t \in Slots \ {s} : slots'[t] = slots[t]
    /\ \A q \in Requests \ {r} : requests'[q] = requests[q]
    /\ requests'[r].state = "Dispatched" /\ requests'[r].operation = requests[r].operation
    /\ requests'[r].cancelled = requests[r].cancelled /\ requests'[r].outcome = requests[r].outcome
    /\ requests'[r].result = requests[r].result
    /\ Enters(s, r) \/ NeverStarts(s, r) \/ Returns(s, r)

\* A helper's step has that shape.
LEMMA WorkerWorks ==
    ASSUME Sound, NEW s \in Slots, Worker(s)
    PROVE  lifecycle' = lifecycle /\ \E r \in Requests : Works(s, r)
<1>1. slots[s].job = "handed" /\ lifecycle' = lifecycle
  BY DEF Worker, WorkerEnter, WorkerReturn, OffloadUnavailable
<1>2. /\ slots \in [Slots -> Slot] /\ requests \in [Requests -> Request]
      /\ slots[s].state = "Leased" /\ slots[s].lease \in Requests
      /\ requests[slots[s].lease].state = "Dispatched"
  BY <1>1, SoundIs, LeasedSlot DEF Sound
<1>3. PICK r \in Requests : r = slots[s].lease
  BY <1>2
<1>4. slots[s] \in Slot /\ requests[r] \in Request
  BY <1>2
<1>5. CASE WorkerEnter(s) /\ requests[r].cancelled
  <2>1. /\ requests[r].execution = "Awaiting_entry"
        /\ requests' = [requests EXCEPT ![r].execution = "Returned"]
        /\ slots' = [slots EXCEPT ![s].job = "Cancelled"]
    BY <1>3, <1>5 DEF WorkerEnter
  <2>2. Works(s, r)
    BY <1>1, <1>2, <1>3, <1>4, <2>1 DEF Works, NeverStarts, Slot, Request
  <2>. QED
    BY <1>1, <2>2
<1>6. CASE WorkerEnter(s) /\ ~requests[r].cancelled
  <2>1. /\ requests[r].execution = "Awaiting_entry"
        /\ requests' = [requests EXCEPT ![r].execution = "Executing"]
        /\ slots' = slots
    BY <1>3, <1>6 DEF WorkerEnter
  <2>2. Works(s, r)
    BY <1>1, <1>2, <1>3, <1>4, <1>6, <2>1 DEF Works, Enters, Slot, Request
  <2>. QED
    BY <1>1, <2>2
<1>7. CASE WorkerReturn(s)
  <2>1. PICK outcome \in Outcomes :
          slots' = [slots EXCEPT ![s].job = outcome,
                       ![s].owner = IF requests[r].operation = "Execute" /\ outcome = "Ok"
                                    THEN slots[s].owner ELSE "tainted"]
    BY <1>3, <1>7 DEF WorkerReturn
  <2>2. /\ requests[r].execution = "Executing"
        /\ requests' = [requests EXCEPT ![r].execution = "Returned"]
    BY <1>3, <1>7 DEF WorkerReturn
  <2>3. /\ slots'[s].job = outcome /\ slots'[s].lease = r /\ slots'[s].state = "Leased"
        /\ slots'[s].owner = IF requests[r].operation = "Execute" /\ outcome = "Ok"
                             THEN slots[s].owner ELSE "tainted"
        /\ \A t \in Slots \ {s} : slots'[t] = slots[t]
    BY <1>2, <1>3, <1>4, <2>1 DEF Slot
  <2>4. Returns(s, r)
    BY <1>2, <1>4, <2>2, <2>3 DEF Returns, Request
  <2>. QED
    BY <1>1, <1>2, <1>3, <1>4, <2>2, <2>3, <2>4 DEF Works, Request
<1>8. CASE OffloadUnavailable(s)
  <2>1. /\ requests[r].execution = "Awaiting_entry" /\ requests' = requests
        /\ slots' = [slots EXCEPT ![s].job = "Failed"]
    BY <1>3, <1>8 DEF OffloadUnavailable
  <2>2. Works(s, r)
    BY <1>1, <1>2, <1>3, <1>4, <2>1 DEF Works, NeverStarts, Slot
  <2>. QED
    BY <1>1, <2>2
<1>. QED
  BY <1>5, <1>6, <1>7, <1>8 DEF Worker

\* A connection on which a request failed, or that kept a session, is not fit; the others are.
LEMMA WorkerFits ==
    ASSUME Sound, NEW s \in Slots, Worker(s)
    PROVE  Fit(slots', requests', lifecycle')
<1>1. PICK r \in Requests : Works(s, r)
  BY WorkerWorks
<1>2. Agree(slots, requests, lifecycle) /\ lifecycle' = lifecycle
  BY SoundAgrees, WorkerWorks
<1>3. slots[s].owner = "clean" /\ requests[r].outcome = NoOutcome
  BY <1>1, <1>2 DEF Agree, Fit, Works
<1>4. ASSUME NEW t \in Slots
      PROVE  /\ slots'[t].state = "Idle" => slots'[t].owner = "clean"
             /\ slots'[t].job = "handed" =>
                  /\ slots'[t].owner = "clean"
                  /\ requests'[slots'[t].lease].execution \in {"Awaiting_entry", "Executing"}
             /\ slots'[t].job \in Outcomes => requests'[slots'[t].lease].execution # "Executing"
             /\ slots'[t].job = "Ok" /\ requests'[slots'[t].lease].operation = "Execute" =>
                  slots'[t].owner = "clean"
  <2>1. CASE t = s
    <3>1. slots'[t].lease = r /\ slots'[t].state = "Leased"
      BY <1>1, <2>1 DEF Works
    <3>2. CASE Enters(s, r)
      BY <1>1, <1>3, <2>1, <3>1, <3>2 DEF Works, Enters, Outcomes
    <3>3. CASE NeverStarts(s, r)
      BY <2>1, <3>1, <3>3 DEF NeverStarts
    <3>4. CASE Returns(s, r)
      <4>1. requests'[r].operation = requests[r].operation
        BY <1>1 DEF Works
      <4>. QED
        BY <1>3, <2>1, <3>1, <3>4, <4>1 DEF Returns, Outcomes
    <3>. QED
      BY <1>1, <3>2, <3>3, <3>4 DEF Works
  <2>2. CASE t # s
    <3>1. slots'[t] = slots[t]
      BY <1>1, <2>2 DEF Works
    <3>2. slots[t].job # "none" => slots[t].lease \in Requests \ {r}
      BY <1>1, <1>2, <2>2, LimitsAssumption DEF Works, Agree, Discipline, SlotDiscipline, Slot
    <3>3. slots[t].job # "none" => requests'[slots[t].lease] = requests[slots[t].lease]
      BY <1>1, <3>2 DEF Works
    <3>. QED
      BY <1>2, <3>1, <3>3 DEF Agree, Fit, Outcomes
  <2>. QED
    BY <2>1, <2>2
<1>5. ASSUME NEW q \in Requests
      PROVE  /\ requests'[q].outcome # NoOutcome => requests'[q].state = "Settling"
             /\ requests'[q].execution = "Executing" => requests'[q].state = "Dispatched"
             /\ requests'[q].state = "Queued" => ~requests'[q].cancelled
             /\ requests'[q].state \in {"Dispatched", "Settling"} /\ lifecycle' # "Accepting" =>
                  requests'[q].cancelled
  <2>1. CASE q = r
    BY <1>1, <1>2, <1>3, <2>1 DEF Works, Agree, Fit
  <2>2. CASE q # r
    BY <1>1, <1>2, <2>2 DEF Works, Agree, Fit
  <2>. QED
    BY <2>1, <2>2
<1>. QED
  BY <1>4, <1>5 DEF Fit

\* Work begins only in an open pool, on the fit connection lent to it, and a failure leaves
\* that connection unfit.
LEMMA WorkerImplements ==
    ASSUME Sound, Sound', NEW s \in Slots, Worker(s)
    PROVE  P!Next
<1>1. PICK r \in Requests : Works(s, r)
  BY WorkerWorks
<1>2. /\ Agree(slots, requests, lifecycle) /\ Agree(slots', requests', lifecycle')
      /\ lifecycle' = lifecycle
  BY SoundAgrees, SoundAgreesAfter, WorkerWorks
<1>3. P!PhaseStep
  BY <1>2, PhaseMoves
<1>4. \A t \in Slots : slots'[t].lease = slots[t].lease
  BY <1>1 DEF Works
<1>5. P!LeaseStep
  <2>1. \A q \in Requests : requests'[q].state = requests[q].state
    BY <1>1 DEF Works
  <2>. QED
    BY <1>4, <2>1, LeaseMoves
<1>6. \A t \in Slots : slots[t].lease = r => t = s
  BY <1>1, <1>2, LimitsAssumption DEF Works, Agree, Discipline
<1>7. ASSUME NEW q \in Requests \ {r}
      PROVE  P!RequestStep(q)
  <2>1. Rests(requests[q], requests'[q])
    BY <1>1, Unmoved DEF Works
  <2>2. JobKept(q)
    BY <1>1 DEF Works, JobKept
  <2>. QED
    BY <2>1, <2>2, RestsStep
<1>8. P!RequestStep(r)
  <2>1. PoolStage(r) = Progress("handed", requests[r])
    BY <1>1, <1>2, StageInIs, StageIs DEF Works
  <2>2. PoolStage(r)' = Progress(slots'[s].job, requests'[r])
    BY <1>1, <1>2, StageInIs, StageIs DEF Works
  <2>3. CASE Enters(s, r)
    <3>1. PoolStage(r) = "accepted"
      BY <2>1, <2>3 DEF Progress, Enters
    <3>2. PoolStage(r)' = "running"
      BY <1>1, <2>2, <2>3 DEF Progress, Enters, Works
    <3>3. PoolPhase = "open" /\ slots[s].owner = "clean"
      BY <1>1, <1>2, <2>3 DEF Agree, Fit, Works, Enters, PoolPhase
    <3>4. slots'[s].lease = r /\ slots'[s].lease # NoRequest
      BY <1>1, LimitsAssumption DEF Works
    <3>. QED
      BY <3>1, <3>2, <3>3, <3>4 DEF P!RequestStep, P!Onward, P!Answered
  <2>4. CASE NeverStarts(s, r)
    <3>1. PoolStage(r) \in {"accepted", "withdrawn"}
      BY <2>1, <2>4 DEF Progress, NeverStarts
    <3>2. PoolStage(r)' = "failed"
      BY <2>2, <2>4 DEF Progress, NeverStarts
    <3>. QED
      BY <3>1, <3>2 DEF P!RequestStep, P!Onward, P!Answered
  <2>5. CASE Returns(s, r)
    <3>1. PoolStage(r) = "running"
      BY <2>1, <2>5 DEF Progress, Returns
    <3>2. PoolStage(r)' = IF slots'[s].job = "Ok" THEN "done" ELSE "failed"
      BY <2>2, <2>5 DEF Progress, Returns, Outcomes
    <3>3. PoolStage(r)' = "failed" => slots'[s].owner # "clean"
      BY <2>5, <3>2 DEF Returns
    <3>. QED
      BY <1>6, <3>1, <3>2, <3>3 DEF P!RequestStep, P!Onward, P!Answered
  <2>. QED
    BY <1>1, <2>3, <2>4, <2>5 DEF Works
<1>. QED
  BY <1>3, <1>5, <1>7, <1>8 DEF P!Next

-----------------------------------------------------------------------------
(* The refinement.                                                          *)

\* Every step is one the contract allows, or changes nothing it speaks of.
LEMMA NextImplements ==
    ASSUME Sound, IInv', Honesty', Orderly', [Next]_vars
    PROVE  Fit(slots', requests', lifecycle') /\ [P!Next]_(P!vars)
<1>1. CASE Allowed
  <2>1. Fit(slots', requests', lifecycle')
    BY <1>1, StepFits
  <2>2. Sound'
    BY <2>1 DEF Sound
  <2>. QED
    BY <1>1, <2>1, <2>2, StepImplements
<1>2. ASSUME NEW s \in Slots, Worker(s)
      PROVE  Fit(slots', requests', lifecycle') /\ [P!Next]_(P!vars)
  <2>1. Fit(slots', requests', lifecycle')
    BY <1>2, WorkerFits
  <2>2. Sound'
    BY <2>1 DEF Sound
  <2>. QED
    BY <1>2, <2>1, <2>2, WorkerImplements
<1>3. CASE UNCHANGED vars
  <2>1. slots' = slots /\ requests' = requests /\ lifecycle' = lifecycle
    BY <1>3 DEF vars
  <2>. QED
    BY <1>1, <2>1, Unmoved DEF Allowed, Moves, Advances
<1>. QED
  BY <1>1, <1>2, <1>3, CallerAllowed, ShutdownAllowed, SettleAllowed, MaintenanceRunAllowed,
     MaintenanceAllowed DEF Next

\* The pool keeps the contract of Pool, whatever its size: an answer is final and a filled
\* ivar is never filled again, suppressed work never runs, and work starts only on a
\* connection that nothing but successful Execute requests used.
THEOREM PoolIsImplemented == Spec => PoolImplemented
<1>1. Init => P!Init /\ Sound
  <2>. SUFFICES ASSUME Init
                PROVE  P!Init /\ Sound
    OBVIOUS
  <2>1. /\ \A s \in Slots : /\ slots[s].state = "Idle" /\ slots[s].owner = "clean"
                            /\ slots[s].job = "none" /\ slots[s].lease = NoRequest
        /\ \A r \in Requests : requests[r] = AbsentRequest
        /\ lifecycle = "Accepting"
    BY DEF Init
  <2>2. \A r \in Requests : /\ requests[r].state = "Absent" /\ requests[r].outcome = NoOutcome
                            /\ requests[r].execution = "Awaiting_entry"
                            /\ requests[r].result = NoOutcome
    BY <2>1 DEF AbsentRequest, NewRequest
  <2>3. IInv /\ Honesty /\ Orderly
    BY InitKeeps, InitHonest, InitOrderly
  <2>4. Fit(slots, requests, lifecycle)
    BY <2>1, <2>2 DEF Fit, Outcomes
  <2>5. Sound
    BY <2>3, <2>4 DEF Sound
  <2>6. \A r \in Requests : PoolStage(r) = "absent"
    BY <2>2, <2>5, SoundAgrees, StageInIs, StageIs
  <2>. QED
    BY <2>1, <2>2, <2>5, <2>6 DEF P!Init, PoolPhase
<1>2. Sound /\ [Next]_vars => Sound' /\ [P!Next]_(P!vars)
  <2>. SUFFICES ASSUME Sound, [Next]_vars
                PROVE  Sound' /\ [P!Next]_(P!vars)
    OBVIOUS
  <2>1. IInv' /\ Honesty' /\ Orderly'
    BY NextKeeps, NextHonest, NextOrderly DEF Sound
  <2>2. Fit(slots', requests', lifecycle') /\ [P!Next]_(P!vars)
    BY <2>1, NextImplements
  <2>. QED
    BY <2>1, <2>2 DEF Sound
<1>. QED
  BY <1>1, <1>2, PTL DEF Spec, PoolImplemented, P!Spec

=============================================================================
