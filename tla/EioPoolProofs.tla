--------------------------- MODULE EioPoolProofs ---------------------------
(***************************************************************************)
(* Proofs about EioPool for every set of requests, every number of         *)
(* connections and every queue capacity.                                   *)
(*                                                                         *)
(* The invariant counts permits, requests and idle connections together    *)
(* (Counted), says who waits (Waiting), what the record of one request may *)
(* claim (Shape, Truthful), who may touch which connection (Exclusive,     *)
(* Kept), and how far create and the daemon are (Creating, Draining).      *)
(* The refinement of Pool adds that connections to be lent are fit (Fit)   *)
(* and sorts what a step does to a request: it stays where it is (Steady)  *)
(* or goes on (Moving).                                                    *)
(***************************************************************************)
EXTENDS EioPool, FiniteSetTheorems, SequenceTheorems, TLAPS

-----------------------------------------------------------------------------
(* The inductive invariant.                                                 *)

Using == {"work", "close", "connect", "reclose"}
HolderPcs == Using \cup {"handed"}
ActivePcs == HolderPcs \cup {"waiting", "removed"}

Having(rq, pcs) == {r \in Requests : rq[r].pc \in pcs}

\* PermitsAndSlots, with the places of the queue counted as well: a request that is
\* admitted holds a permit, waits for one, or has been told to stop waiting.
Counted(rq, own, pm, left, accepting, queue) ==
    /\ IsFiniteSet(Having(rq, ActivePcs))
    /\ own = Cardinality(Having(rq, ActivePcs))
    /\ pm.free + Cardinality(Having(rq, HolderPcs)) = left
    /\ accepting =>
        /\ left = Connections
        /\ pm.free + Cardinality(Having(rq, {"handed"})) = Len(queue)
        /\ Cardinality(Having(rq, ActivePcs)) =
             Cardinality(Having(rq, HolderPcs)) + Len(pm.waiters) + Cardinality(Having(rq, {"removed"}))

\* Who waits for a permit has one place in the queue.
Waiting(waiters, rq) ==
    /\ \A i \in 1..Len(waiters) : rq[waiters[i]].pc = "waiting"
    /\ \A i, j \in 1..Len(waiters) : waiters[i] = waiters[j] => i = j

\* What the record of a request may claim by itself.
Shape(q) ==
    /\ q.slot # NoSlot <=> q.pc \in Using
    /\ q.pc \in Using => q.ran
    /\ q.pc \in {"close", "connect", "reclose"} => q.outcome \in {"Ok", "Failed"}
    /\ q.pc \in {"waiting", "handed", "removed"} => ~q.ran
    /\ q.pc = "removed" => q.cancelled
    /\ q.pc = "settled" => /\ q.outcome = "Rejected" => ~q.ran
                           /\ q.outcome = "Ok" => q.ran

\* What it may claim of the pool.
Truthful(q, accepting, switch, failed) ==
    /\ q.cancelled => q.caller = "joins" \/ ~accepting
    /\ q.pc = "settled" /\ q.outcome = "Rejected" => q.caller = "joins" \/ ~accepting \/ switch = "failed"
    /\ q.cleanup => failed

\* A connection is idle once, or with one request; one that is being replaced is closed.
Exclusive(rq, queue, cn) ==
    /\ \A q, r \in Requests : rq[q].slot = rq[r].slot => q = r \/ rq[q].slot = NoSlot
    /\ \A i \in 1..Len(queue) : \A r \in Requests : queue[i] # rq[r].slot
    /\ \A i, j \in 1..Len(queue) : queue[i] = queue[j] => i = j
    /\ \A r \in Requests : rq[r].pc = "connect" => cn[rq[r].slot] = "none"

\* Somebody has every open connection.
Kept(rq, queue, cn, rest, making) ==
    \A s \in Slots : cn[s] \in {"clean", "tainted"} =>
        \/ making
        \/ \E i \in 1..Len(queue) : queue[i] = s
        \/ \E i \in 1..Len(rest) : rest[i] = s
        \/ \E r \in Requests : rq[r].slot = s

\* How far create is, until the daemon is there.
Creating ==
    /\ daemon.pc = "off" <=> lifecycle = "Absent"
    /\ daemon.pc = "off" =>
        /\ creator \in {"open", "connect", "close", "failed"}
        /\ idle = <<>> /\ \A r \in Requests : req[r] = AbsentRequest
        /\ daemon.left = Connections
    /\ daemon.pc # "off" => creator \in {"forked", "join", "published", "failed"}
    /\ creator = "open" => database = "none" /\ \A s \in Slots : conn[s] = "none"
    /\ creator = "connect" =>
        /\ closing = <<>>
        /\ \E k \in 0..Connections : \A s \in Slots : conn[s] = IF s <= k THEN "clean" ELSE "none"
    /\ creator \in {"connect", "close"} => database = "open"
    /\ creator = "failed" => database # "open"
    /\ database # "open" => \A s \in Slots : ~Open(s)

\* How far the daemon is.
Draining ==
    /\ Accepting => daemon.pc = "await"
    /\ lifecycle = "Stopped" <=> daemon.pc = "done"
    /\ daemon.pc = "join" => Active \subseteq daemon.joins
    /\ daemon.pc \in {"acquire", "close", "done"} => Active = {}
    /\ daemon.pc \in {"close", "done"} => idle = <<>>
    /\ daemon.pc \in {"await", "join", "acquire", "close"} => database = "open"
    /\ daemon.pc = "done" => database # "open"
    /\ closing # <<>> => creator = "close" \/ daemon.pc = "close"
    /\ answer # "none" => daemon.pc = "done"
    /\ answer = "Ok" => ~failures

IInv ==
    /\ TypeOK /\ Counted(req, owned, permits, daemon.left, Accepting, idle)
    /\ Waiting(permits.waiters, req)
    /\ \A r \in Requests : Shape(req[r]) /\ Truthful(req[r], Accepting, sw, failures)
    /\ Exclusive(req, idle, conn) /\ Kept(req, idle, conn, closing, creator = "connect")
    /\ Creating /\ Draining

-----------------------------------------------------------------------------
(* Counting.                                                                *)

\* The sets of EioPool by the counters of their requests.
LEMMA SetsAre ==
    ASSUME req \in [Requests -> Request]
    PROVE  /\ Active = Having(req, ActivePcs)
           /\ Holders = Having(req, HolderPcs)
           /\ Handed = Having(req, {"handed"})
<1>1. \A r \in Requests : req[r].pc \in ProducerPcs
  BY DEF Request
<1>. QED
  BY <1>1 DEF Active, Holders, Handed, Having, ActivePcs, HolderPcs, Using, ProducerPcs

Weight(pc, pcs) == IF pc \in pcs THEN 1 ELSE 0

OthersStay(rq, rq2, r) == \A q \in Requests \ {r} : rq2[q].pc = rq[q].pc

\* A set of requests chosen by their counters, when one counter changes.
LEMMA HavingMoves ==
    ASSUME NEW rq, NEW rq2, NEW pcs, NEW r \in Requests,
           OthersStay(rq, rq2, r),
           IsFiniteSet(Having(rq, pcs))
    PROVE  /\ IsFiniteSet(Having(rq2, pcs))
           /\ Cardinality(Having(rq, pcs)) \in Nat /\ Cardinality(Having(rq2, pcs)) \in Nat
           /\ Cardinality(Having(rq2, pcs)) =
                Cardinality(Having(rq, pcs)) + Weight(rq2[r].pc, pcs) - Weight(rq[r].pc, pcs)
<1>. DEFINE old == Having(rq, pcs)
            new == Having(rq2, pcs)
<1>1. IsFiniteSet(old) /\ Cardinality(old) \in Nat
  BY FS_CardinalityType
<1>2. CASE rq[r].pc \in pcs /\ rq2[r].pc \in pcs
  <2>1. new = old
    BY <1>2 DEF Having, OthersStay
  <2>. QED
    BY <1>1, <1>2, <2>1 DEF Weight
<1>3. CASE rq[r].pc \notin pcs /\ rq2[r].pc \notin pcs
  <2>1. new = old
    BY <1>3 DEF Having, OthersStay
  <2>. QED
    BY <1>1, <1>3, <2>1 DEF Weight
<1>4. CASE rq[r].pc \notin pcs /\ rq2[r].pc \in pcs
  <2>1. new = old \cup {r} /\ r \notin old
    BY <1>4 DEF Having, OthersStay
  <2>2. IsFiniteSet(new) /\ Cardinality(new) = Cardinality(old) + 1
    BY <1>1, <2>1, FS_AddElement
  <2>. QED
    BY <1>1, <1>4, <2>2 DEF Weight
<1>5. CASE rq[r].pc \in pcs /\ rq2[r].pc \notin pcs
  <2>1. new = old \ {r} /\ r \in old
    BY <1>5 DEF Having, OthersStay
  <2>2. IsFiniteSet(new) /\ Cardinality(new) = Cardinality(old) - 1
    BY <1>1, <2>1, FS_RemoveElement
  <2>3. Cardinality(new) \in Nat
    BY <2>2, FS_CardinalityType
  <2>. QED
    BY <1>1, <1>5, <2>2, <2>3 DEF Weight
<1>. QED
  BY <1>2, <1>3, <1>4, <1>5

\* The sets that are counted are finite while the requests that are active are.
LEMMA CountedFinite ==
    ASSUME NEW rq, IsFiniteSet(Having(rq, ActivePcs))
    PROVE  /\ IsFiniteSet(Having(rq, HolderPcs)) /\ IsFiniteSet(Having(rq, {"handed"}))
           /\ IsFiniteSet(Having(rq, {"removed"}))
<1>1. /\ Having(rq, HolderPcs) \subseteq Having(rq, ActivePcs)
      /\ Having(rq, {"handed"}) \subseteq Having(rq, ActivePcs)
      /\ Having(rq, {"removed"}) \subseteq Having(rq, ActivePcs)
  BY DEF Having, ActivePcs, HolderPcs
<1>. QED
  BY <1>1, FS_Subset

\* All the counts, when one counter changes.
LEMMA CountsMove ==
    ASSUME NEW rq, NEW rq2, NEW r \in Requests,
           OthersStay(rq, rq2, r),
           IsFiniteSet(Having(rq, ActivePcs))
    PROVE  /\ IsFiniteSet(Having(rq2, ActivePcs))
           /\ \A pcs \in {ActivePcs, HolderPcs, {"handed"}, {"removed"}} :
                /\ Cardinality(Having(rq, pcs)) \in Nat /\ Cardinality(Having(rq2, pcs)) \in Nat
                /\ Cardinality(Having(rq2, pcs)) =
                     Cardinality(Having(rq, pcs)) + Weight(rq2[r].pc, pcs) - Weight(rq[r].pc, pcs)
<1>1. \A pcs \in {ActivePcs, HolderPcs, {"handed"}, {"removed"}} : IsFiniteSet(Having(rq, pcs))
  BY CountedFinite
<1>2. ASSUME NEW pcs \in {ActivePcs, HolderPcs, {"handed"}, {"removed"}}
      PROVE  /\ IsFiniteSet(Having(rq2, pcs))
             /\ Cardinality(Having(rq, pcs)) \in Nat /\ Cardinality(Having(rq2, pcs)) \in Nat
             /\ Cardinality(Having(rq2, pcs)) =
                  Cardinality(Having(rq, pcs)) + Weight(rq2[r].pc, pcs) - Weight(rq[r].pc, pcs)
  <2>1. IsFiniteSet(Having(rq, pcs))
    BY <1>1
  <2>. QED
    BY <2>1, HavingMoves
<1>. QED
  BY <1>2

\* Queue.dequeue and the semaphore's waiters.
LEMMA TailIs ==
    ASSUME NEW S, NEW q \in Seq(S), q # <<>>
    PROVE  /\ Head(q) \in S /\ Head(q) = q[1]
           /\ Tail(q) \in Seq(S) /\ Len(q) \in Nat \ {0} /\ Len(Tail(q)) = Len(q) - 1
           /\ \A i \in 1..Len(q) - 1 : Tail(q)[i] = q[i + 1]
<1>1. Len(q) \in Nat \ {0} /\ 1 \in 1..Len(q)
  BY EmptySeq, LenProperties
<1>2. Head(q) \in S /\ Tail(q) \in Seq(S) /\ Len(Tail(q)) = Len(q) - 1
      /\ \A i \in 1..Len(Tail(q)) : Tail(q)[i] = q[i + 1]
  BY HeadTailProperties
<1>. QED
  BY <1>1, <1>2

\* Queue.enqueue.
LEMMA AppendIs ==
    ASSUME NEW S, NEW q \in Seq(S), NEW e \in S
    PROVE  /\ Append(q, e) \in Seq(S) /\ Len(q) \in Nat /\ Len(Append(q, e)) = Len(q) + 1
           /\ \A i \in 1..Len(q) : Append(q, e)[i] = q[i]
           /\ Append(q, e)[Len(q) + 1] = e
BY AppendProperties, LenProperties

\* A waiter that is cancelled leaves the queue and the others stay in order.
LEMMA RemoveAtIs ==
    ASSUME NEW S, NEW q \in Seq(S), NEW k \in 1..Len(q)
    PROVE  /\ RemoveAt(q, k) \in Seq(S)
           /\ Len(RemoveAt(q, k)) = Len(q) - 1
           /\ \A i \in 1..Len(q) - 1 : RemoveAt(q, k)[i] = IF i < k THEN q[i] ELSE q[i + 1]
<1>. DEFINE front == SubSeq(q, 1, k - 1)
            back == SubSeq(q, k + 1, Len(q))
<1>1. Len(q) \in Nat /\ k \in Nat /\ 1 <= k /\ k <= Len(q)
  BY LenProperties
<1>2. /\ \A i \in 1..k - 1 : q[i] \in S
      /\ \A i \in k + 1..Len(q) : q[i] \in S
  <2>1. \A i \in 1..Len(q) : q[i] \in S
    BY ElementOfSeq
  <2>2. \A i : i \in 1..k - 1 \/ i \in k + 1..Len(q) => i \in 1..Len(q)
    BY <1>1
  <2>. QED
    BY <2>1, <2>2
<1>3. /\ front \in Seq(S)
      /\ Len(front) = IF 1 <= k - 1 THEN k - 1 - 1 + 1 ELSE 0
      /\ \A i \in 1..k - 1 - 1 + 1 : front[i] = q[1 + i - 1]
  <2>1. 1 \in Int /\ k - 1 \in Int
    BY <1>1
  <2>. QED
    BY <1>2, <2>1, SubSeqProperties
<1>4. /\ back \in Seq(S)
      /\ Len(back) = IF k + 1 <= Len(q) THEN Len(q) - (k + 1) + 1 ELSE 0
      /\ \A i \in 1..Len(q) - (k + 1) + 1 : back[i] = q[(k + 1) + i - 1]
  <2>1. k + 1 \in Int /\ Len(q) \in Int
    BY <1>1
  <2>. QED
    BY <1>2, <2>1, SubSeqProperties
<1>. HIDE DEF front, back
<1>5. Len(front) = k - 1 /\ \A i \in 1..k - 1 : front[i] = q[i]
  <2>1. \A i \in 1..k - 1 : i \in 1..k - 1 - 1 + 1 /\ 1 + i - 1 = i
    BY <1>1
  <2>2. Len(front) = k - 1
    <3>1. CASE 1 <= k - 1
      BY <1>1, <1>3, <3>1
    <3>2. CASE k = 1
      BY <1>3, <3>2
    <3>. QED
      BY <1>1, <3>1, <3>2
  <2>. QED
    BY <1>3, <2>1, <2>2
<1>6. Len(back) = Len(q) - k /\ \A i \in 1..Len(q) - k : back[i] = q[k + i]
  <2>1. \A i \in 1..Len(q) - k : i \in 1..Len(q) - (k + 1) + 1 /\ (k + 1) + i - 1 = k + i
    BY <1>1
  <2>2. Len(back) = Len(q) - k
    <3>1. CASE k + 1 <= Len(q)
      BY <1>1, <1>4, <3>1
    <3>2. CASE k = Len(q)
      BY <1>1, <1>4, <3>2
    <3>. QED
      BY <1>1, <3>1, <3>2
  <2>. QED
    BY <1>4, <2>1, <2>2
<1>7. RemoveAt(q, k) = front \o back
  BY DEF RemoveAt, front, back
<1>8. /\ front \o back \in Seq(S)
      /\ Len(front \o back) = Len(front) + Len(back)
      /\ \A i \in 1..Len(front) + Len(back) :
            (front \o back)[i] = IF i <= Len(front) THEN front[i] ELSE back[i - Len(front)]
  BY <1>3, <1>4, ConcatProperties
<1>. DEFINE joined == front \o back
<1>. HIDE DEF joined
<1>9. /\ joined \in Seq(S)
      /\ Len(joined) = Len(q) - 1
      /\ \A i \in 1..Len(q) - 1 : joined[i] = IF i <= k - 1 THEN front[i] ELSE back[i - (k - 1)]
  <2>1. Len(front) + Len(back) = Len(q) - 1
    BY <1>1, <1>5, <1>6
  <2>. QED
    BY <1>5, <1>8, <2>1 DEF joined
<1>10. ASSUME NEW i \in 1..Len(q) - 1
       PROVE  joined[i] = IF i < k THEN q[i] ELSE q[i + 1]
  <2>1. CASE i < k
    <3>1. i <= k - 1 /\ i \in 1..k - 1
      BY <1>1, <2>1
    <3>. QED
      BY <1>5, <1>9, <2>1, <3>1
  <2>2. CASE ~(i < k)
    <3>1. ~(i <= k - 1) /\ i - (k - 1) \in 1..Len(q) - k /\ k + (i - (k - 1)) = i + 1
      BY <1>1, <2>2
    <3>. QED
      BY <1>6, <1>9, <2>2, <3>1
  <2>. QED
    BY <2>1, <2>2
<1>. QED
  BY <1>7, <1>9, <1>10 DEF joined

-----------------------------------------------------------------------------
(* The producer gives its permit back.                                      *)

\* While a request is active the pool is there and nothing has been closed for good.
LEMMA ActiveMeans ==
    ASSUME IInv, NEW r \in Requests, req[r].pc \in ActivePcs
    PROVE  /\ daemon.pc \in {"await", "join"}
           /\ creator \in {"forked", "join", "published"}
           /\ database = "open" /\ answer = "none" /\ closing = <<>>
           /\ lifecycle \in {"Accepting", "Stopping"}
<1>1. req[r].pc # "absent" /\ r \in Active
  BY SetsAre DEF IInv, TypeOK, Having, ActivePcs, HolderPcs, Using
<1>2. daemon.pc \in {"await", "join"}
  BY <1>1 DEF IInv, TypeOK, Creating, Draining, AbsentRequest, Daemon, Daemons
<1>. QED
  BY <1>2 DEF IInv, TypeOK, Creating, Draining, Lifecycles

\* What every step that ends in SettleHolding has in common: r leaves with [done]; its
\* connection, if any, has gone back to the queue or is closed.
Settles(r, done) ==
    /\ SettleHolding(r, done)
    /\ done \in Request /\ done.pc = "settled"
    /\ Shape(done) /\ Truthful(done, Accepting', sw, failures')
    /\ UNCHANGED <<creator, sw, daemon, answer, database, closing>>
    /\ failures' \in BOOLEAN /\ (failures => failures')
    /\ lifecycle' = lifecycle \/ (lifecycle = "Accepting" /\ lifecycle' = "Stopping")
    /\ conn' \in [Slots -> ConnStates] /\ \A s \in Slots : s # req[r].slot => conn'[s] = conn[s]
    /\ \/ /\ idle' = idle
          /\ Accepting' => req[r].pc = "handed"
          /\ req[r].pc \in Using => conn'[req[r].slot] \notin {"clean", "tainted"}
       \/ idle' = Append(idle, req[r].slot) /\ req[r].pc \in Using

\* Nobody waits: the permit is free.
LEMMA SettleFrees ==
    ASSUME IInv, NEW r \in Requests, req[r].pc \in HolderPcs, NEW done, Settles(r, done),
           permits.waiters = <<>>
    PROVE  /\ req' \in [Requests -> Request] /\ permits' \in Permits /\ owned' \in Nat
           /\ permits'.waiters = <<>>
           /\ req'[r] = done /\ \A q \in Requests \ {r} : req'[q] = req[q]
           /\ Counted(req', owned', permits', daemon'.left, Accepting', idle')
<1>1. /\ req' = [req EXCEPT ![r] = done] /\ done \in Request /\ done.pc = "settled"
      /\ permits' = [permits EXCEPT !.free = @ + 1] /\ owned' = owned - 1
      /\ daemon' = daemon
  BY DEF Settles, SettleHolding
<1>2. /\ req' \in [Requests -> Request] /\ req'[r] = done
      /\ \A q \in Requests \ {r} : req'[q] = req[q]
      /\ OthersStay(req, req', r) /\ req'[r].pc = "settled"
  BY <1>1 DEF IInv, TypeOK, OthersStay
<1>3. /\ IsFiniteSet(Having(req, ActivePcs))
      /\ Counted(req, owned, permits, daemon.left, Accepting, idle)
  BY DEF IInv, Counted
<1>. DEFINE a == Cardinality(Having(req, ActivePcs))
            h == Cardinality(Having(req, HolderPcs))
            n == Cardinality(Having(req, {"handed"}))
            x == Cardinality(Having(req, {"removed"}))
            a2 == Cardinality(Having(req', ActivePcs))
            h2 == Cardinality(Having(req', HolderPcs))
            n2 == Cardinality(Having(req', {"handed"}))
            x2 == Cardinality(Having(req', {"removed"}))
            w == Weight(req[r].pc, Using)
            m == Len(idle)
            m2 == Len(idle')
<1>4. /\ IsFiniteSet(Having(req', ActivePcs))
      /\ a \in Nat /\ h \in Nat /\ n \in Nat /\ x \in Nat
      /\ a2 \in Nat /\ h2 \in Nat /\ n2 \in Nat /\ x2 \in Nat
      /\ a2 = a + Weight(req'[r].pc, ActivePcs) - Weight(req[r].pc, ActivePcs)
      /\ h2 = h + Weight(req'[r].pc, HolderPcs) - Weight(req[r].pc, HolderPcs)
      /\ n2 = n + Weight(req'[r].pc, {"handed"}) - Weight(req[r].pc, {"handed"})
      /\ x2 = x + Weight(req'[r].pc, {"removed"}) - Weight(req[r].pc, {"removed"})
  BY <1>2, <1>3, CountsMove
<1>5. /\ m \in Nat /\ m2 \in Nat
      /\ Accepting' => Accepting /\ m2 = m + w
  <2>1. Accepting' => Accepting
    BY DEF Settles, Accepting
  <2>2. CASE idle' = idle /\ (Accepting' => req[r].pc = "handed")
    BY <2>1, <2>2, LenProperties DEF IInv, TypeOK, Weight, Using
  <2>3. CASE idle' = Append(idle, req[r].slot) /\ req[r].pc \in Using
    <3>1. req[r].slot \in Slots /\ idle \in Seq(Slots)
      BY <2>3 DEF IInv, TypeOK, Request, Shape
    <3>. QED
      BY <2>1, <2>3, <3>1, AppendIs DEF Weight
  <2>. QED
    BY <2>2, <2>3 DEF Settles
<1>6. /\ permits.free \in Nat /\ daemon.left \in Nat /\ daemon.left <= Connections
      /\ owned = a /\ owned' = a - 1 /\ permits.free + h = daemon.left /\ Connections \in Nat
      /\ permits'.free = permits.free + 1 /\ permits'.waiters = permits.waiters
      /\ permits' = [free |-> permits.free + 1, waiters |-> permits.waiters]
  BY <1>1, <1>3, LimitsAssumption DEF IInv, TypeOK, Counted, Permits, Daemon
<1>7. Accepting => /\ daemon.left = Connections /\ permits.free + n = m
                   /\ a = h + 0 + x
  BY <1>3, EmptySeq DEF Counted
<1>. HIDE DEF a, h, n, x, a2, h2, n2, x2, w, m, m2
<1>8. /\ a2 = a - 1 /\ h2 = h - 1 /\ x2 = x
      /\ n2 = n - 1 + w /\ w \in Nat
  BY <1>2, <1>4 DEF w, Weight, ActivePcs, HolderPcs, Using
<1>9. /\ owned' = a2 /\ owned' \in Nat /\ permits'.free + h2 = daemon.left
      /\ permits'.free \in 0..Connections
      /\ Accepting' => /\ permits'.free + n2 = m2
                       /\ a2 = h2 + 0 + x2
  <2>1. a \in Nat /\ h \in Nat /\ n \in Nat /\ x \in Nat /\ a2 \in Nat /\ h2 \in Nat
    BY <1>4
  <2>. DEFINE f == permits.free
              l == daemon.left
  <2>2. f \in Nat /\ l \in Nat /\ l <= Connections /\ f + h = l /\ permits'.free = f + 1
    BY <1>6
  <2>3. Accepting => f + n = m
    BY <1>7
  <2>. HIDE DEF f, l
  <2>4. f + 1 + h2 = l /\ f + 1 \in 0..Connections
    BY <1>6, <1>8, <2>1, <2>2
  <2>5. Accepting' => f + 1 + n2 = m2
    BY <1>5, <1>8, <2>1, <2>2, <2>3
  <2>6. Accepting' => a2 = h2 + 0 + x2
    BY <1>5, <1>7, <1>8, <2>1
  <2>. QED
    BY <1>6, <1>8, <2>1, <2>2, <2>4, <2>5, <2>6 DEF f, l
<1>10. permits' \in Permits /\ permits'.waiters = <<>>
  BY <1>6, <1>9 DEF IInv, TypeOK, Permits
<1>11. Counted(req', owned', permits', daemon'.left, Accepting', idle')
  BY <1>1, <1>4, <1>5, <1>7, <1>9, <1>10, EmptySeq DEF Counted, a2, h2, n2, x2, m2
<1>. QED
  BY <1>2, <1>9, <1>10, <1>11

\* Somebody waits: the permit goes to the first.
LEMMA SettleHands ==
    ASSUME IInv, NEW r \in Requests, req[r].pc \in HolderPcs, NEW done, Settles(r, done),
           permits.waiters # <<>>
    PROVE  /\ req' \in [Requests -> Request] /\ permits' \in Permits /\ owned' \in Nat
           /\ permits'.waiters = Tail(permits.waiters) /\ permits.waiters[1] \in Requests \ {r}
           /\ req[permits.waiters[1]].pc = "waiting"
           /\ req'[permits.waiters[1]] = [req[permits.waiters[1]] EXCEPT !.pc = "handed"]
           /\ req'[r] = done
           /\ \A q \in Requests \ {r, permits.waiters[1]} : req'[q] = req[q]
           /\ Counted(req', owned', permits', daemon'.left, Accepting', idle')
<1>. DEFINE t == permits.waiters[1]
            mid == [req EXCEPT ![r] = done]
<1>1. /\ permits.waiters \in Seq(Requests) /\ permits.waiters # <<>> /\ permits \in Permits
      /\ req \in [Requests -> Request]
  BY DEF IInv, TypeOK, Permits
<1>2. /\ Head(permits.waiters) = t /\ t \in Requests
      /\ Tail(permits.waiters) \in Seq(Requests) /\ Len(permits.waiters) \in Nat \ {0}
      /\ Len(Tail(permits.waiters)) = Len(permits.waiters) - 1
  BY <1>1, TailIs
<1>3. req[t].pc = "waiting" /\ t # r
  <2>1. 1 \in 1..Len(permits.waiters)
    BY <1>2
  <2>. QED
    BY <2>1 DEF IInv, Waiting, HolderPcs, Using
<1>4. /\ req' = [req EXCEPT ![r] = done, ![t].pc = "handed"]
      /\ done \in Request /\ done.pc = "settled"
      /\ permits' = [permits EXCEPT !.waiters = Tail(@)] /\ owned' = owned - 1
      /\ daemon' = daemon
  BY <1>1, <1>2 DEF Settles, SettleHolding
<1>5. /\ req' \in [Requests -> Request] /\ req'[r] = done
      /\ req'[t] = [req[t] EXCEPT !.pc = "handed"]
      /\ \A q \in Requests \ {r, t} : req'[q] = req[q]
  <2>1. [req[t] EXCEPT !.pc = "handed"] \in Request
    BY <1>1, <1>2 DEF Request, ProducerPcs
  <2>. QED
    BY <1>1, <1>2, <1>3, <1>4, <2>1
<1>6. /\ OthersStay(req, mid, r) /\ mid[r].pc = "settled" /\ mid[t].pc = "waiting"
      /\ OthersStay(mid, req', t) /\ req'[t].pc = "handed"
  <2>1. req'[t].pc = "handed"
    BY <1>1, <1>2, <1>5 DEF Request
  <2>2. mid[r] = done /\ \A q \in Requests \ {r} : mid[q] = req[q]
    BY <1>1
  <2>. QED
    BY <1>2, <1>3, <1>4, <1>5, <2>1, <2>2 DEF OthersStay
<1>7. /\ IsFiniteSet(Having(req, ActivePcs))
      /\ Counted(req, owned, permits, daemon.left, Accepting, idle)
  BY DEF IInv, Counted
<1>. DEFINE a == Cardinality(Having(req, ActivePcs))
            h == Cardinality(Having(req, HolderPcs))
            n == Cardinality(Having(req, {"handed"}))
            x == Cardinality(Having(req, {"removed"}))
            a1 == Cardinality(Having(mid, ActivePcs))
            h1 == Cardinality(Having(mid, HolderPcs))
            n1 == Cardinality(Having(mid, {"handed"}))
            x1 == Cardinality(Having(mid, {"removed"}))
            a2 == Cardinality(Having(req', ActivePcs))
            h2 == Cardinality(Having(req', HolderPcs))
            n2 == Cardinality(Having(req', {"handed"}))
            x2 == Cardinality(Having(req', {"removed"}))
            w == Weight(req[r].pc, Using)
            k == Len(permits.waiters)
            m == Len(idle)
            m2 == Len(idle')
<1>. HIDE DEF mid
<1>8. /\ IsFiniteSet(Having(mid, ActivePcs))
      /\ a \in Nat /\ h \in Nat /\ n \in Nat /\ x \in Nat
      /\ a1 = a + Weight(mid[r].pc, ActivePcs) - Weight(req[r].pc, ActivePcs)
      /\ h1 = h + Weight(mid[r].pc, HolderPcs) - Weight(req[r].pc, HolderPcs)
      /\ n1 = n + Weight(mid[r].pc, {"handed"}) - Weight(req[r].pc, {"handed"})
      /\ x1 = x + Weight(mid[r].pc, {"removed"}) - Weight(req[r].pc, {"removed"})
  BY <1>6, <1>7, CountsMove
<1>9. /\ IsFiniteSet(Having(req', ActivePcs))
      /\ a1 \in Nat /\ h1 \in Nat /\ n1 \in Nat /\ x1 \in Nat
      /\ a2 \in Nat /\ h2 \in Nat /\ n2 \in Nat /\ x2 \in Nat
      /\ a2 = a1 + Weight(req'[t].pc, ActivePcs) - Weight(mid[t].pc, ActivePcs)
      /\ h2 = h1 + Weight(req'[t].pc, HolderPcs) - Weight(mid[t].pc, HolderPcs)
      /\ n2 = n1 + Weight(req'[t].pc, {"handed"}) - Weight(mid[t].pc, {"handed"})
      /\ x2 = x1 + Weight(req'[t].pc, {"removed"}) - Weight(mid[t].pc, {"removed"})
  <2>1. OthersStay(mid, req', t) /\ t \in Requests /\ IsFiniteSet(Having(mid, ActivePcs))
    BY <1>2, <1>6, <1>8
  <2>2. /\ IsFiniteSet(Having(req', ActivePcs))
        /\ \A pcs \in {ActivePcs, HolderPcs, {"handed"}, {"removed"}} :
             /\ Cardinality(Having(mid, pcs)) \in Nat /\ Cardinality(Having(req', pcs)) \in Nat
             /\ Cardinality(Having(req', pcs)) =
                  Cardinality(Having(mid, pcs)) + Weight(req'[t].pc, pcs) - Weight(mid[t].pc, pcs)
    BY <2>1, CountsMove
  <2>. QED
    BY <2>2
<1>10. /\ m \in Nat /\ m2 \in Nat
       /\ Accepting' => Accepting /\ m2 = m + w
  <2>1. Accepting' => Accepting
    BY DEF Settles, Accepting
  <2>2. CASE idle' = idle /\ (Accepting' => req[r].pc = "handed")
    BY <2>1, <2>2, LenProperties DEF IInv, TypeOK, Weight, Using
  <2>3. CASE idle' = Append(idle, req[r].slot) /\ req[r].pc \in Using
    <3>1. req[r].slot \in Slots /\ idle \in Seq(Slots)
      BY <2>3 DEF IInv, TypeOK, Request, Shape
    <3>. QED
      BY <2>1, <2>3, <3>1, AppendIs DEF Weight
  <2>. QED
    BY <2>2, <2>3 DEF Settles
<1>11. /\ owned' = a - 1 /\ permits'.free = permits.free
       /\ permits'.waiters = Tail(permits.waiters)
       /\ permits.free + h = daemon.left
       /\ permits' \in Permits
  BY <1>1, <1>2, <1>4, <1>7 DEF Counted, Permits
<1>12. Accepting => daemon.left = Connections /\ permits.free + n = m /\ a = h + k + x
  BY <1>7 DEF Counted
<1>. HIDE DEF a, h, n, x, a1, h1, n1, x1, a2, h2, n2, x2, w, m, m2
<1>13. a1 = a - 1 /\ h1 = h - 1 /\ x1 = x /\ n1 = n - 1 + w /\ w \in Nat
  BY <1>6, <1>8 DEF w, Weight, ActivePcs, HolderPcs, Using
<1>14. a2 = a1 /\ h2 = h1 + 1 /\ n2 = n1 + 1 /\ x2 = x1
  BY <1>6, <1>9 DEF Weight, ActivePcs, HolderPcs, Using
<1>15. a2 = a - 1 /\ h2 = h /\ n2 = n + w /\ x2 = x
  <2>1. a \in Nat /\ h \in Nat /\ n \in Nat /\ w \in Nat
    BY <1>8, <1>13
  <2>2. a2 = a - 1 /\ x2 = x
    BY <1>13, <1>14
  <2>3. h2 = h
    BY <2>1, <1>13, <1>14
  <2>4. n2 = n + w
    BY <2>1, <1>13, <1>14
  <2>. QED
    BY <2>2, <2>3, <2>4
<1>16. /\ owned' = a2 /\ owned' \in Nat /\ permits'.free + h2 = daemon.left
       /\ Accepting' => permits'.free + n2 = m2 /\ a2 = h2 + (k - 1) + x2
  <2>. DEFINE f == permits.free
  <2>1. f \in Nat /\ permits'.free = f /\ k \in Nat
    BY <1>1, <1>2, <1>11 DEF Permits
  <2>2. /\ Accepting => f + n = m
        /\ Accepting => a = h + k + x
    BY <1>12
  <2>. HIDE DEF f, k
  <2>3. /\ a \in Nat /\ h \in Nat /\ x \in Nat
        /\ a2 = a - 1 /\ h2 = h /\ x2 = x /\ (Accepting' => Accepting)
    BY <1>8, <1>10, <1>15
  <2>4. Accepting' => f + n2 = m2
    BY <1>8, <1>10, <1>13, <1>15, <2>1, <2>2
  <2>5. Accepting' => a2 = h2 + (k - 1) + x2
    BY <2>1, <2>2, <2>3
  <2>. QED
    BY <1>9, <1>11, <1>15, <2>1, <2>4, <2>5 DEF f
<1>17. Counted(req', owned', permits', daemon'.left, Accepting', idle')
  BY <1>2, <1>4, <1>9, <1>10, <1>11, <1>12, <1>16 DEF Counted, a2, h2, n2, x2, m2
<1>. QED
  BY <1>2, <1>3, <1>5, <1>11, <1>16, <1>17

\* A request that holds a permit leaves, and the invariant stays.
LEMMA SettleKeeps ==
    ASSUME IInv, NEW r \in Requests, req[r].pc \in HolderPcs, NEW done, Settles(r, done)
    PROVE  IInv'
<1>. DEFINE t == permits.waiters[1]
<1>1. /\ daemon.pc \in {"await", "join"} /\ creator \in {"forked", "join", "published"}
      /\ database = "open" /\ answer = "none" /\ closing = <<>>
      /\ lifecycle \in {"Accepting", "Stopping"}
  BY ActiveMeans DEF ActivePcs
<1>2. /\ UNCHANGED <<creator, sw, daemon, answer, database, closing>>
      /\ failures' \in BOOLEAN /\ (failures => failures')
      /\ lifecycle' = lifecycle \/ (lifecycle = "Accepting" /\ lifecycle' = "Stopping")
      /\ Accepting' => Accepting
      /\ done \in Request /\ done.pc = "settled" /\ done.slot = NoSlot
      /\ Shape(done) /\ Truthful(done, Accepting', sw, failures')
  BY DEF Settles, Accepting, Shape, Using
<1>3. /\ req' \in [Requests -> Request] /\ permits' \in Permits /\ owned' \in Nat
      /\ Counted(req', owned', permits', daemon'.left, Accepting', idle')
      /\ req'[r] = done
      /\ \A q \in Requests \ {r} :
            \/ req'[q] = req[q]
            \/ req[q].pc = "waiting" /\ req'[q] = [req[q] EXCEPT !.pc = "handed"]
  BY SettleFrees, SettleHands
<1>4. \A q \in Requests \ {r} :
        /\ req'[q].slot = req[q].slot /\ req'[q].caller = req[q].caller
        /\ req'[q].cancelled = req[q].cancelled /\ req'[q].outcome = req[q].outcome
        /\ req'[q].cleanup = req[q].cleanup /\ req'[q].ran = req[q].ran
        /\ req'[q].pc = req[q].pc \/ (req[q].pc = "waiting" /\ req'[q].pc = "handed")
  BY <1>3 DEF IInv, TypeOK, Request
<1>5. \A q \in Requests : Shape(req'[q]) /\ Truthful(req'[q], Accepting', sw', failures')
  <2>1. ASSUME NEW q \in Requests \ {r}
        PROVE  Shape(req'[q]) /\ Truthful(req'[q], Accepting', sw', failures')
    BY <1>2, <1>4 DEF IInv, Shape, Truthful, Using
  <2>. QED
    BY <1>2, <1>3, <2>1
<1>6. Waiting(permits'.waiters, req') /\ Len(permits'.waiters) <= QueueCapacity
  <2>1. CASE permits.waiters = <<>>
    <3>1. permits'.waiters = <<>>
      BY <2>1, SettleFrees
    <3>. QED
      BY <2>1, <3>1, EmptySeq DEF Waiting, IInv, TypeOK
  <2>2. CASE permits.waiters # <<>>
    <3>. DEFINE old == permits.waiters
                new == permits'.waiters
    <3>1. /\ new = Tail(old)
          /\ \A q \in Requests \ {r, old[1]} : req'[q] = req[q]
      BY <2>2, SettleHands
    <3>2. old \in Seq(Requests) /\ old # <<>> /\ Len(old) <= QueueCapacity
      BY <2>2 DEF IInv, TypeOK, Permits
    <3>3. /\ Len(old) \in Nat \ {0} /\ Len(new) = Len(old) - 1
          /\ \A i \in 1..Len(old) - 1 : new[i] = old[i + 1]
      BY <3>1, <3>2, TailIs
    <3>4. \A i \in 1..Len(old) : old[i] \in Requests /\ old[i] # r
      BY <3>2, ElementOfSeq DEF IInv, Waiting, HolderPcs, Using
    <3>5. \A i \in 1..Len(old) - 1 : i + 1 \in 1..Len(old) /\ i + 1 # 1 /\ 1 \in 1..Len(old)
      BY <3>3
    <3>6. Len(new) <= QueueCapacity
      BY <3>2, <3>3, LimitsAssumption
    <3>. HIDE DEF old, new
    <3>7. /\ \A i \in 1..Len(old) : req[old[i]].pc = "waiting"
          /\ \A i, j \in 1..Len(old) : old[i] = old[j] => i = j
      BY DEF IInv, Waiting, old
    <3>8. ASSUME NEW i \in 1..Len(new) PROVE req'[new[i]].pc = "waiting"
      <4>1. i + 1 \in 1..Len(old) /\ old[i + 1] # old[1] /\ new[i] = old[i + 1]
        BY <3>3, <3>5, <3>7
      <4>. QED
        BY <3>1, <3>4, <3>7, <4>1
    <3>9. ASSUME NEW i \in 1..Len(new), NEW j \in 1..Len(new), new[i] = new[j] PROVE i = j
      <4>1. i + 1 = j + 1
        BY <3>3, <3>5, <3>7, <3>9
      <4>. QED
        BY <3>3, <4>1
    <3>. QED
      BY <3>6, <3>8, <3>9 DEF Waiting, new
  <2>. QED
    BY <2>1, <2>2
<1>7. idle' \in Seq(Slots) /\ Exclusive(req', idle', conn') /\ Kept(req', idle', conn', closing', creator' = "connect")
  <2>1. /\ conn' \in [Slots -> ConnStates] /\ \A s \in Slots : s # req[r].slot => conn'[s] = conn[s]
        /\ idle \in Seq(Slots) /\ Len(idle) \in Nat
        /\ Exclusive(req, idle, conn) /\ Kept(req, idle, conn, closing, creator = "connect")
        /\ req'[r].slot = NoSlot /\ req'[r].pc # "connect"
    BY <1>2, <1>3, LenProperties DEF IInv, TypeOK, Settles
  <2>2. /\ \A q, s \in Requests : req'[q].slot = req'[s].slot => q = s \/ req'[q].slot = NoSlot
        /\ \A q \in Requests : req'[q].pc = "connect" => conn'[req'[q].slot] = "none"
    <3>1. ASSUME NEW q \in Requests, req'[q].pc = "connect"
          PROVE  conn'[req'[q].slot] = "none"
      <4>1. q # r /\ req[q].pc = "connect" /\ req'[q].slot = req[q].slot
        BY <1>4, <2>1, <3>1
      <4>2. req[q].slot \in Slots /\ req[q].slot # NoSlot /\ conn[req[q].slot] = "none"
        BY <2>1, <4>1 DEF IInv, TypeOK, Request, Shape, Using, Exclusive
      <4>3. req[q].slot # req[r].slot
        BY <2>1, <4>1, <4>2 DEF Exclusive
      <4>. QED
        BY <2>1, <4>1, <4>2, <4>3
    <3>. QED
      BY <1>4, <2>1, <3>1 DEF Exclusive
  <2>3. CASE idle' = idle /\ (req[r].pc \in Using => conn'[req[r].slot] \notin {"clean", "tainted"})
    <3>1. ASSUME NEW i \in 1..Len(idle), NEW q \in Requests
          PROVE  idle[i] # req'[q].slot
      <4>1. idle[i] \in Slots
        BY <2>1, ElementOfSeq
      <4>. QED
        BY <1>4, <2>1, <4>1, NoSlotAssumption DEF Exclusive
    <3>2. Kept(req', idle', conn', closing', creator' = "connect")
      <4>1. ASSUME NEW s \in Slots, conn'[s] \in {"clean", "tainted"}, ~(creator = "connect"),
                   ~\E i \in 1..Len(idle) : idle[i] = s, ~\E i \in 1..Len(closing) : closing[i] = s
            PROVE  \E q \in Requests : req'[q].slot = s
        <5>1. s # req[r].slot
          BY <2>3, <4>1, NoSlotAssumption DEF IInv, Shape
        <5>2. PICK q \in Requests : req[q].slot = s
          BY <2>1, <4>1, <5>1 DEF Kept
        <5>3. q # r
          BY <5>1, <5>2
        <5>. QED
          BY <1>4, <5>2, <5>3
      <4>. QED
        BY <1>2, <2>3, <4>1 DEF Kept
    <3>. QED
      BY <2>1, <2>2, <2>3, <3>1, <3>2 DEF Exclusive
  <2>4. CASE idle' = Append(idle, req[r].slot) /\ req[r].pc \in Using
    <3>. DEFINE g == req[r].slot
                new == Append(idle, g)
    <3>1. g \in Slots /\ g # NoSlot
      BY <2>4 DEF IInv, TypeOK, Request, Shape
    <3>2. /\ new \in Seq(Slots) /\ Len(new) = Len(idle) + 1
          /\ \A i \in 1..Len(idle) : new[i] = idle[i]
          /\ new[Len(idle) + 1] = g
      BY <2>1, <3>1, AppendIs
    <3>. HIDE DEF new
    <3>3. \A i \in 1..Len(new) : i \in 1..Len(idle) \/ i = Len(idle) + 1
      BY <2>1, <3>2
    <3>4. \A i \in 1..Len(idle) : idle[i] # g /\ i \in 1..Len(new) /\ Len(idle) + 1 \in 1..Len(new)
      BY <2>1, <3>2 DEF Exclusive
    <3>5. ASSUME NEW i \in 1..Len(new), NEW q \in Requests
          PROVE  new[i] # req'[q].slot
      <4>1. new[i] \in Slots
        BY <3>2, ElementOfSeq
      <4>2. CASE q = r
        BY <2>1, <4>1, <4>2, NoSlotAssumption
      <4>3. CASE q # r
        BY <1>4, <2>1, <3>1, <3>2, <3>3, <4>3 DEF Exclusive
      <4>. QED
        BY <4>2, <4>3
    <3>6. \A i, j \in 1..Len(new) : new[i] = new[j] => i = j
      BY <2>1, <3>2, <3>3, <3>4 DEF Exclusive
    <3>7. Kept(req', new, conn', closing', creator' = "connect")
      <4>1. ASSUME NEW s \in Slots, conn'[s] \in {"clean", "tainted"}, ~(creator = "connect"),
                   ~\E i \in 1..Len(new) : new[i] = s, ~\E i \in 1..Len(closing) : closing[i] = s
            PROVE  \E q \in Requests : req'[q].slot = s
        <5>1. s # g /\ ~\E i \in 1..Len(idle) : idle[i] = s
          <6>1. Len(idle) + 1 \in 1..Len(new)
            BY <2>1, <3>2
          <6>. QED
            BY <3>2, <3>4, <4>1, <6>1
        <5>2. PICK q \in Requests : req[q].slot = s
          BY <2>1, <4>1, <5>1 DEF Kept
        <5>3. q # r
          BY <5>1, <5>2
        <5>. QED
          BY <1>4, <5>2, <5>3
      <4>. QED
        BY <1>2, <4>1 DEF Kept
    <3>8. idle' = new
      BY <2>4 DEF new
    <3>. QED
      BY <2>2, <3>2, <3>5, <3>6, <3>7, <3>8 DEF Exclusive
  <2>. QED
    BY <2>3, <2>4 DEF Settles
<1>8. TypeOK'
  BY <1>1, <1>2, <1>3, <1>6, <1>7 DEF IInv, TypeOK, Settles, Lifecycles
<1>9. Creating'
  <2>1. daemon'.pc # "off" /\ lifecycle' # "Absent" /\ creator' \in {"forked", "join", "published"}
        /\ database' = "open"
    BY <1>1, <1>2
  <2>. QED
    BY <2>1 DEF Creating
<1>10. Draining'
  <2>1. Active' \subseteq Active
    BY <1>2, <1>3, <1>4 DEF Active
  <2>2. daemon'.pc = "join" => Active' \subseteq daemon'.joins
    BY <1>2, <2>1 DEF IInv, Draining
  <2>3. /\ daemon'.pc \in {"await", "join"} /\ database' = "open" /\ answer' = "none"
        /\ closing' = <<>> /\ lifecycle' # "Stopped" /\ (Accepting' => daemon'.pc = "await")
    BY <1>1, <1>2 DEF IInv, Draining
  <2>. QED
    BY <2>2, <2>3 DEF Draining
<1>. QED
  BY <1>3, <1>5, <1>6, <1>7, <1>8, <1>9, <1>10 DEF IInv

-----------------------------------------------------------------------------
(* The producer, from its admission to the end of its work.                 *)

\* A step that gives, takes and moves no connection.
LEMMA SlotsStay ==
    ASSUME IInv, UNCHANGED <<creator, conn, idle, closing>>,
           \A q \in Requests : /\ req'[q].slot = req[q].slot
                               /\ req'[q].pc = "connect" => req[q].pc = "connect"
    PROVE  Exclusive(req', idle', conn') /\ Kept(req', idle', conn', closing', creator' = "connect")
<1>1. Exclusive(req', idle, conn)
  BY DEF IInv, Exclusive
<1>2. Kept(req', idle, conn, closing, creator = "connect")
  BY DEF IInv, Kept
<1>. QED
  BY <1>1, <1>2

\* Every count stays when the counter of no request moves from one count to another.
LEMMA CountsStay ==
    ASSUME IInv, NEW r \in Requests, OthersStay(req, req', r),
           \A pcs \in {ActivePcs, HolderPcs, {"handed"}, {"removed"}} :
                Weight(req'[r].pc, pcs) = Weight(req[r].pc, pcs),
           UNCHANGED <<owned, permits, daemon, idle>>, Accepting' => Accepting
    PROVE  Counted(req', owned', permits', daemon'.left, Accepting', idle')
<1>1. Counted(req, owned, permits, daemon.left, Accepting, idle)
  BY DEF IInv
<1>2. IsFiniteSet(Having(req', ActivePcs))
      /\ \A pcs \in {ActivePcs, HolderPcs, {"handed"}, {"removed"}} :
            Cardinality(Having(req', pcs)) = Cardinality(Having(req, pcs))
  <2>1. IsFiniteSet(Having(req, ActivePcs))
    BY <1>1 DEF Counted
  <2>2. /\ IsFiniteSet(Having(req', ActivePcs))
        /\ \A pcs \in {ActivePcs, HolderPcs, {"handed"}, {"removed"}} :
             /\ Cardinality(Having(req, pcs)) \in Nat /\ Cardinality(Having(req', pcs)) \in Nat
             /\ Cardinality(Having(req', pcs)) =
                  Cardinality(Having(req, pcs)) + Weight(req'[r].pc, pcs) - Weight(req[r].pc, pcs)
    BY <2>1, CountsMove
  <2>3. ASSUME NEW pcs \in {ActivePcs, HolderPcs, {"handed"}, {"removed"}}
        PROVE  Cardinality(Having(req', pcs)) = Cardinality(Having(req, pcs))
    <3>. DEFINE c == Cardinality(Having(req, pcs))
                c2 == Cardinality(Having(req', pcs))
                w == Weight(req[r].pc, pcs)
    <3>1. c \in Nat /\ c2 \in Nat /\ c2 = c + w - w
      BY <2>2
    <3>2. w \in Nat
      BY DEF Weight
    <3>. HIDE DEF c, c2, w
    <3>3. c2 = c
      BY <3>1, <3>2
    <3>. QED
      BY <3>3 DEF c, c2
  <2>. QED
    BY <2>2, <2>3
<1>. QED
  BY <1>1, <1>2 DEF Counted

\* The queue of waiters stays when no waiter's counter changes.
LEMMA WaitersStay ==
    ASSUME IInv, NEW r \in Requests, req[r].pc # "waiting", permits' = permits,
           \A q \in Requests \ {r} : req'[q] = req[q]
    PROVE  Waiting(permits'.waiters, req')
<1>1. permits.waiters \in Seq(Requests) /\ Waiting(permits.waiters, req)
  BY DEF IInv, TypeOK, Permits
<1>2. \A i \in 1..Len(permits.waiters) : permits.waiters[i] \in Requests \ {r}
  BY <1>1, ElementOfSeq DEF Waiting
<1>. QED
  BY <1>1, <1>2 DEF Waiting

\* The request goes on with the connection it has.
Stays(r) ==
    /\ req' \in [Requests -> Request] /\ \A q \in Requests \ {r} : req'[q] = req[q]
    /\ req'[r].pc \in Using /\ req'[r].slot = req[r].slot
    /\ Shape(req'[r]) /\ Truthful(req'[r], Accepting, sw, failures)
    /\ conn' \in [Slots -> ConnStates] /\ \A s \in Slots : s # req[r].slot => conn'[s] = conn[s]
    /\ req'[r].pc = "connect" => conn'[req[r].slot] = "none"
    /\ UNCHANGED <<creator, sw, lifecycle, permits, owned, idle, database, failures, daemon,
                   closing, answer>>

\* The connection of one request is nobody else's concern.
LEMMA StaysKeeps ==
    ASSUME IInv, NEW r \in Requests, req[r].pc \in Using, Stays(r)
    PROVE  IInv'
<1>1. /\ daemon.pc \in {"await", "join"} /\ creator \in {"forked", "join", "published"}
      /\ database = "open" /\ answer = "none" /\ closing = <<>>
      /\ lifecycle \in {"Accepting", "Stopping"}
  BY ActiveMeans DEF ActivePcs, HolderPcs
<1>2. /\ UNCHANGED <<creator, sw, lifecycle, permits, owned, idle, database, failures, daemon,
                     closing, answer>>
      /\ Accepting' = Accepting
      /\ req' \in [Requests -> Request] /\ \A q \in Requests \ {r} : req'[q] = req[q]
      /\ req'[r].pc \in Using /\ req'[r].slot = req[r].slot
      /\ conn' \in [Slots -> ConnStates] /\ \A s \in Slots : s # req[r].slot => conn'[s] = conn[s]
      /\ req'[r].pc = "connect" => conn'[req[r].slot] = "none"
  BY DEF Stays, Accepting
<1>3. \A q \in Requests : Shape(req'[q]) /\ Truthful(req'[q], Accepting', sw', failures')
  BY <1>2 DEF Stays, IInv
<1>4. TypeOK'
  BY <1>2 DEF IInv, TypeOK
<1>5. Counted(req', owned', permits', daemon'.left, Accepting', idle')
  <2>1. OthersStay(req, req', r)
    BY <1>2 DEF OthersStay
  <2>2. \A pcs \in {ActivePcs, HolderPcs, {"handed"}, {"removed"}} :
            Weight(req'[r].pc, pcs) = Weight(req[r].pc, pcs)
    BY <1>2 DEF Weight, ActivePcs, HolderPcs, Using
  <2>. QED
    BY <1>2, <2>1, <2>2, CountsStay
<1>6. Waiting(permits'.waiters, req')
  BY <1>2, WaitersStay DEF Using
<1>7. Exclusive(req', idle', conn')
  <2>1. \A q \in Requests : req'[q].slot = req[q].slot
    BY <1>2
  <2>2. ASSUME NEW q \in Requests \ {r}, req[q].pc = "connect"
        PROVE  conn'[req[q].slot] = "none"
    <3>1. req[q].slot \in Slots /\ req[q].slot # NoSlot /\ conn[req[q].slot] = "none"
      BY <2>2 DEF IInv, TypeOK, Request, Shape, Using, Exclusive
    <3>2. req[q].slot # req[r].slot
      BY <3>1 DEF IInv, Exclusive
    <3>. QED
      BY <1>2, <3>1, <3>2
  <2>. QED
    BY <1>2, <2>1, <2>2 DEF IInv, Exclusive
<1>8. Kept(req', idle', conn', closing', creator' = "connect")
  <2>1. \A q \in Requests : req'[q].slot = req[q].slot
    BY <1>2
  <2>. QED
    BY <1>2, <2>1 DEF IInv, Kept
<1>9. Creating'
  BY <1>1, <1>2 DEF IInv, Creating
<1>10. Draining'
  <2>1. Active' = Active
    BY <1>2 DEF Active, Using
  <2>. QED
    BY <1>1, <1>2, <2>1 DEF IInv, Draining
<1>. QED
  BY <1>3, <1>4, <1>5, <1>6, <1>7, <1>8, <1>9, <1>10 DEF IInv

\* The request is given the first idle connection.
Leases(r) ==
    /\ Accepting /\ idle # <<>>
    /\ req[r].pc \in {"absent", "handed"}
    /\ req' \in [Requests -> Request] /\ \A q \in Requests \ {r} : req'[q] = req[q]
    /\ req'[r].pc = "work" /\ req'[r].slot = Head(idle)
    /\ Shape(req'[r]) /\ Truthful(req'[r], Accepting, sw, failures)
    /\ idle' = Tail(idle)
    /\ permits' \in Permits /\ permits'.waiters = permits.waiters /\ owned' \in Nat
    /\ Counted(req', owned', permits', daemon.left, Accepting, idle')
    /\ UNCHANGED <<creator, sw, lifecycle, conn, database, failures, daemon, closing, answer>>

\* A connection that was idle is nobody else's.
LEMMA LeasesKeeps ==
    ASSUME IInv, NEW r \in Requests, Leases(r)
    PROVE  IInv'
<1>1. /\ daemon.pc = "await" /\ creator \in {"forked", "join", "published"}
      /\ database = "open" /\ answer = "none" /\ closing = <<>> /\ lifecycle = "Accepting"
  BY DEF IInv, Creating, Draining, Leases, Accepting
<1>2. /\ UNCHANGED <<creator, sw, lifecycle, conn, database, failures, daemon, closing, answer>>
      /\ Accepting' = Accepting
      /\ req' \in [Requests -> Request] /\ \A q \in Requests \ {r} : req'[q] = req[q]
      /\ req'[r].pc = "work" /\ req'[r].slot = Head(idle) /\ idle' = Tail(idle)
      /\ req[r].pc \notin Using /\ req[r].pc # "waiting"
  BY DEF Leases, Accepting, Using
<1>3. \A q \in Requests : Shape(req'[q]) /\ Truthful(req'[q], Accepting', sw', failures')
  BY <1>2 DEF Leases, IInv
<1>4. Counted(req', owned', permits', daemon'.left, Accepting', idle')
  BY <1>2 DEF Leases
<1>5. /\ idle \in Seq(Slots) /\ idle # <<>> /\ Len(idle) \in Nat \ {0}
      /\ Head(idle) \in Slots /\ Head(idle) = idle[1]
      /\ idle' \in Seq(Slots) /\ Len(idle') = Len(idle) - 1
      /\ \A i \in 1..Len(idle) - 1 : idle'[i] = idle[i + 1]
  <2>1. idle \in Seq(Slots) /\ idle # <<>>
    BY DEF IInv, TypeOK, Leases
  <2>. QED
    BY <1>2, <2>1, TailIs
<1>6. TypeOK'
  BY <1>2, <1>5 DEF IInv, TypeOK, Leases
<1>7. Waiting(permits'.waiters, req')
  <2>1. permits.waiters \in Seq(Requests) /\ Waiting(permits.waiters, req)
        /\ permits'.waiters = permits.waiters
    BY DEF IInv, TypeOK, Permits, Leases
  <2>2. \A i \in 1..Len(permits.waiters) : permits.waiters[i] \in Requests \ {r}
    BY <1>2, <2>1, ElementOfSeq DEF Waiting
  <2>. QED
    BY <1>2, <2>1, <2>2 DEF Waiting
<1>8. \A i \in 1..Len(idle') : i + 1 \in 1..Len(idle) /\ i + 1 # 1 /\ 1 \in 1..Len(idle)
                               /\ idle'[i] = idle[i + 1]
  BY <1>5
<1>9. /\ \A i \in 1..Len(idle) : \A q \in Requests : idle[i] # req[q].slot
      /\ \A i, j \in 1..Len(idle) : idle[i] = idle[j] => i = j
      /\ \A q, s \in Requests : req[q].slot = req[s].slot => q = s \/ req[q].slot = NoSlot
      /\ \A q \in Requests : req[q].pc = "connect" => conn[req[q].slot] = "none"
      /\ 1 \in 1..Len(idle) /\ idle[1] # NoSlot /\ req[r].slot = NoSlot
  BY <1>2, <1>5, NoSlotAssumption DEF IInv, Exclusive, Shape
<1>10. Exclusive(req', idle', conn')
  <2>1. \A q, s \in Requests : req'[q].slot = req'[s].slot => q = s \/ req'[q].slot = NoSlot
    BY <1>2, <1>5, <1>9
  <2>2. \A i \in 1..Len(idle') : \A q \in Requests : idle'[i] # req'[q].slot
    BY <1>2, <1>5, <1>8, <1>9
  <2>3. ASSUME NEW i \in 1..Len(idle'), NEW j \in 1..Len(idle'), idle'[i] = idle'[j]
        PROVE  i = j
    <3>1. i + 1 = j + 1
      BY <1>8, <1>9, <2>3
    <3>. QED
      BY <1>5, <3>1
  <2>4. \A q \in Requests : req'[q].pc = "connect" => conn'[req'[q].slot] = "none"
    BY <1>2, <1>9
  <2>. QED
    BY <2>1, <2>2, <2>3, <2>4 DEF Exclusive
<1>11. Kept(req', idle', conn', closing', creator' = "connect")
  <2>1. ASSUME NEW s \in Slots, conn[s] \in {"clean", "tainted"}, ~(creator = "connect"),
               ~\E i \in 1..Len(idle') : idle'[i] = s, ~\E i \in 1..Len(closing) : closing[i] = s
        PROVE  \E q \in Requests : req'[q].slot = s
    <3>1. CASE s = idle[1]
      BY <1>2, <1>5, <3>1
    <3>2. CASE s # idle[1]
      <4>1. ASSUME NEW i \in 1..Len(idle), idle[i] = s PROVE FALSE
        <5>1. i # 1
          BY <3>2, <4>1
        <5>2. i - 1 \in 1..Len(idle') /\ (i - 1) + 1 = i
          BY <1>5, <5>1
        <5>. QED
          BY <1>8, <2>1, <4>1, <5>2
      <4>2. PICK q \in Requests : req[q].slot = s
        BY <2>1, <4>1 DEF IInv, Kept
      <4>3. q # r
        BY <1>9, <4>2, NoSlotAssumption
      <4>. QED
        BY <1>2, <4>2, <4>3
    <3>. QED
      BY <3>1, <3>2
  <2>. QED
    BY <1>2, <2>1 DEF Kept
<1>12. Creating'
  BY <1>1, <1>2 DEF IInv, Creating
<1>13. Draining'
  BY <1>1, <1>2 DEF IInv, Draining
<1>. QED
  BY <1>3, <1>4, <1>6, <1>7, <1>10, <1>11, <1>12, <1>13 DEF IInv

\* The counter of r moves and takes the counts and the queues along: the active requests,
\* the holders, the handed and the removed grow by da, dh, dn and dx.
Moves(r, da, dh, dn, dx) ==
    /\ OthersStay(req, req', r) /\ daemon' = daemon /\ (Accepting' => Accepting)
    /\ Weight(req'[r].pc, ActivePcs) - Weight(req[r].pc, ActivePcs) = da
    /\ Weight(req'[r].pc, HolderPcs) - Weight(req[r].pc, HolderPcs) = dh
    /\ Weight(req'[r].pc, {"handed"}) - Weight(req[r].pc, {"handed"}) = dn
    /\ Weight(req'[r].pc, {"removed"}) - Weight(req[r].pc, {"removed"}) = dx
    /\ owned' = owned + da
    /\ permits'.free = permits.free - dh
    /\ Accepting' => /\ Len(idle') = Len(idle) + dn - dh
                     /\ Len(permits'.waiters) = Len(permits.waiters) + da - dh - dx

\* The counts, when the counter of one request and the queues change together.
LEMMA CountedMoves ==
    ASSUME IInv, NEW r \in Requests,
           NEW da \in Int, NEW dh \in Int, NEW dn \in Int, NEW dx \in Int,
           Moves(r, da, dh, dn, dx)
    PROVE  owned' \in Nat /\ Counted(req', owned', permits', daemon'.left, Accepting', idle')
<1>1. Counted(req, owned, permits, daemon.left, Accepting, idle)
      /\ IsFiniteSet(Having(req, ActivePcs))
  BY DEF IInv, Counted
<1>. DEFINE a == Cardinality(Having(req, ActivePcs))
            h == Cardinality(Having(req, HolderPcs))
            n == Cardinality(Having(req, {"handed"}))
            x == Cardinality(Having(req, {"removed"}))
            a2 == Cardinality(Having(req', ActivePcs))
            h2 == Cardinality(Having(req', HolderPcs))
            n2 == Cardinality(Having(req', {"handed"}))
            x2 == Cardinality(Having(req', {"removed"}))
            f == permits.free
            k == Len(permits.waiters)
            m == Len(idle)
<1>2. /\ IsFiniteSet(Having(req', ActivePcs))
      /\ a \in Nat /\ h \in Nat /\ n \in Nat /\ x \in Nat
      /\ a2 \in Nat /\ h2 \in Nat /\ n2 \in Nat /\ x2 \in Nat
      /\ a2 = a + Weight(req'[r].pc, ActivePcs) - Weight(req[r].pc, ActivePcs)
      /\ h2 = h + Weight(req'[r].pc, HolderPcs) - Weight(req[r].pc, HolderPcs)
      /\ n2 = n + Weight(req'[r].pc, {"handed"}) - Weight(req[r].pc, {"handed"})
      /\ x2 = x + Weight(req'[r].pc, {"removed"}) - Weight(req[r].pc, {"removed"})
  BY <1>1, CountsMove DEF Moves
<1>3. \A pc, pcs : Weight(pc, pcs) \in Int
  BY DEF Weight
<1>4. f \in Nat /\ k \in Nat /\ m \in Nat
  BY LenProperties DEF IInv, TypeOK, Permits
<1>5. /\ owned = a /\ f + h = daemon.left
      /\ Accepting => daemon.left = Connections
      /\ Accepting => f + n = m
      /\ Accepting => a = h + k + x
  BY <1>1 DEF Counted
<1>6. /\ permits'.free = f - dh
      /\ Accepting' => Accepting
      /\ Accepting' => Len(idle') = m + dn - dh
      /\ Accepting' => Len(permits'.waiters) = k + da - dh - dx
      /\ owned' = a + da
  BY <1>5 DEF Moves
<1>. HIDE DEF a, h, n, x, a2, h2, n2, x2, f, k, m
<1>7. /\ a \in Nat /\ h \in Nat /\ n \in Nat /\ x \in Nat
      /\ a2 \in Nat /\ h2 \in Nat /\ n2 \in Nat /\ x2 \in Nat
  BY <1>2
<1>8. a2 = a + da /\ h2 = h + dh /\ n2 = n + dn /\ x2 = x + dx
  BY <1>2, <1>3, <1>7 DEF Moves
<1>9. owned' = a2 /\ permits'.free + h2 = daemon.left
  BY <1>4, <1>5, <1>6, <1>7, <1>8
<1>10. Accepting' => permits'.free + n2 = Len(idle')
  <2>1. Accepting' => f + n = m /\ Len(idle') = m + dn - dh /\ permits'.free = f - dh
    BY <1>5, <1>6
  <2>. QED
    BY <1>4, <1>7, <1>8, <2>1
<1>11. Accepting' => a2 = h2 + Len(permits'.waiters) + x2
  <2>1. SUFFICES ASSUME Accepting'
                 PROVE  a2 = h2 + Len(permits'.waiters) + x2
    OBVIOUS
  <2>2. a = h + k + x /\ Len(permits'.waiters) = k + da - dh - dx
    BY <1>5, <1>6, <2>1
  <2>3. h2 + (k + da - dh - dx) = h + k + da - dx
    BY <1>4, <1>7, <1>8
  <2>4. (h + k + da - dx) + x2 = a + da
    BY <1>4, <1>7, <1>8, <2>2
  <2>. QED
    BY <1>8, <2>2, <2>3, <2>4
<1>12. daemon' = daemon
  BY DEF Moves
<1>. QED
  BY <1>2, <1>5, <1>6, <1>7, <1>9, <1>10, <1>11, <1>12 DEF Counted, a2, h2, n2, x2

\* A record of which only the answer counts.
LEMMA AbsentIsRequest ==
    AbsentRequest \in Request /\ Shape(AbsentRequest)
BY DEF AbsentRequest, Request, ProducerPcs, Outcomes, Shape, Using

\* The lease of Submit and Resume never finds the queue empty.
LEMMA IdleThere ==
    ASSUME IInv, Accepting,
           permits.free > 0 \/ \E r \in Requests : req[r].pc = "handed"
    PROVE  idle # <<>>
<1>1. /\ IsFiniteSet(Having(req, {"handed"})) /\ permits.free \in Nat
      /\ permits.free + Cardinality(Having(req, {"handed"})) = Len(idle)
  BY CountedFinite DEF IInv, Counted, TypeOK, Permits
<1>2. Cardinality(Having(req, {"handed"})) \in Nat
  BY <1>1, FS_CardinalityType
<1>3. ASSUME NEW r \in Requests, req[r].pc = "handed"
      PROVE  Cardinality(Having(req, {"handed"})) # 0
  <2>1. r \in Having(req, {"handed"})
    BY <1>3 DEF Having
  <2>. QED
    BY <1>1, <2>1, FS_EmptySet
<1>4. Len(idle) # 0
  BY <1>1, <1>2, <1>3
<1>. QED
  BY <1>4, EmptySeq

\* Nobody is admitted beyond the limits, and the switch decides who is turned away.
LEMMA SubmitKeeps ==
    ASSUME IInv, NEW r \in Requests, NEW reuse \in BOOLEAN, Submit(r, reuse)
    PROVE  IInv'
<1>. DEFINE new == [AbsentRequest EXCEPT !.caller = "awaits", !.reuse = reuse]
<1>1. /\ Accepting /\ ~Full /\ req[r].pc = "absent" /\ req \in [Requests -> Request]
      /\ UNCHANGED <<lifecycle, failures, conn, database, closing, creator, sw, daemon, answer>>
      /\ Accepting' = Accepting
  BY DEF Submit, IInv, TypeOK, NativeUnchanged, OthersUnchanged, Accepting
<1>2. /\ new \in Request /\ new.caller = "awaits" /\ new.reuse = reuse /\ new.slot = NoSlot
      /\ new.outcome = "none" /\ new.cleanup = FALSE /\ new.cancelled = FALSE /\ new.ran = FALSE
  BY DEF AbsentRequest, Request, ProducerPcs, Outcomes
<1>3. req[r].slot = NoSlot
  BY <1>1 DEF IInv, Shape, Using
<1>4. /\ daemon.pc = "await" /\ creator \in {"forked", "join", "published"}
      /\ database = "open" /\ answer = "none" /\ closing = <<>> /\ lifecycle = "Accepting"
  BY <1>1 DEF IInv, Creating, Draining, Accepting
<1>. HIDE DEF new
<1>5. CASE /\ sw = "failed"
           /\ req' = [req EXCEPT ![r] = [new EXCEPT !.pc = "settled", !.outcome = "Rejected"]]
           /\ UNCHANGED <<owned, permits, idle>>
  <2>1. /\ req' \in [Requests -> Request] /\ \A q \in Requests \ {r} : req'[q] = req[q]
        /\ req'[r].pc = "settled" /\ req'[r].slot = NoSlot /\ req'[r].outcome = "Rejected"
        /\ req'[r].ran = FALSE /\ req'[r].cancelled = FALSE /\ req'[r].cleanup = FALSE
    BY <1>1, <1>2, <1>5 DEF Request, ProducerPcs, Outcomes
  <2>2. Shape(req'[r]) /\ Truthful(req'[r], Accepting', sw', failures')
    BY <1>1, <1>5, <2>1 DEF Shape, Truthful, Using
  <2>3. OthersStay(req, req', r)
        /\ \A pcs \in {ActivePcs, HolderPcs, {"handed"}, {"removed"}} :
             Weight(req'[r].pc, pcs) = Weight(req[r].pc, pcs)
    BY <1>1, <2>1 DEF OthersStay, Weight, ActivePcs, HolderPcs, Using
  <2>4. Counted(req', owned', permits', daemon'.left, Accepting', idle')
    BY <1>1, <1>5, <2>3, CountsStay
  <2>5. Waiting(permits'.waiters, req')
    BY <1>1, <1>5, <2>1, WaitersStay
  <2>6. Exclusive(req', idle', conn') /\ Kept(req', idle', conn', closing', creator' = "connect")
    <3>1. \A q \in Requests : /\ req'[q].slot = req[q].slot
                              /\ req'[q].pc = "connect" => req[q].pc = "connect"
      BY <1>3, <2>1
    <3>. QED
      BY <1>1, <1>5, <3>1, SlotsStay
  <2>7. TypeOK'
    BY <1>1, <1>5, <2>1 DEF IInv, TypeOK
  <2>8. Creating' /\ Draining'
    BY <1>1, <1>4, <1>5 DEF IInv, Creating, Draining
  <2>. QED
    BY <1>1, <1>5, <2>1, <2>2, <2>4, <2>5, <2>6, <2>7, <2>8 DEF IInv
<1>6. CASE /\ sw = "on" /\ permits.free > 0
           /\ req' = [req EXCEPT ![r] = Leased(new)]
           /\ permits' = [permits EXCEPT !.free = @ - 1]
           /\ idle' = Tail(idle)
           /\ owned' = owned + 1
  <2>1. idle # <<>> /\ idle \in Seq(Slots)
    BY <1>1, <1>6, IdleThere DEF IInv, TypeOK
  <2>2. /\ Head(idle) \in Slots /\ Len(idle) \in Nat /\ Len(idle') = Len(idle) - 1
    BY <1>6, <2>1, TailIs
  <2>3. /\ req' \in [Requests -> Request] /\ \A q \in Requests \ {r} : req'[q] = req[q]
        /\ req'[r].pc = "work" /\ req'[r].slot = Head(idle) /\ req'[r].outcome = "none"
        /\ req'[r].ran = TRUE /\ req'[r].cancelled = FALSE /\ req'[r].cleanup = FALSE
    BY <1>1, <1>2, <1>6, <2>2 DEF Request, ProducerPcs, Outcomes, Leased
  <2>4. Shape(req'[r]) /\ Truthful(req'[r], Accepting, sw, failures)
    BY <2>2, <2>3, NoSlotAssumption DEF Shape, Truthful, Using
  <2>5. /\ permits' \in Permits /\ permits'.waiters = permits.waiters
        /\ permits'.free = permits.free - 1 /\ Len(permits.waiters) \in Nat
    BY <1>6, LimitsAssumption, LenProperties DEF IInv, TypeOK, Permits
  <2>6. /\ OthersStay(req, req', r)
        /\ Weight(req'[r].pc, ActivePcs) - Weight(req[r].pc, ActivePcs) = 1
        /\ Weight(req'[r].pc, HolderPcs) - Weight(req[r].pc, HolderPcs) = 1
        /\ Weight(req'[r].pc, {"handed"}) - Weight(req[r].pc, {"handed"}) = 0
        /\ Weight(req'[r].pc, {"removed"}) - Weight(req[r].pc, {"removed"}) = 0
    BY <1>1, <2>3 DEF OthersStay, Weight, ActivePcs, HolderPcs, Using
  <2>7. Len(idle') = Len(idle) + 0 - 1 /\ Len(permits'.waiters) = Len(permits.waiters) + 1 - 1 - 0
    BY <2>2, <2>5
  <2>8. owned' \in Nat /\ Counted(req', owned', permits', daemon'.left, Accepting', idle')
    <3>1. Moves(r, 1, 1, 0, 0)
      BY <1>1, <1>6, <2>5, <2>6, <2>7 DEF Moves
    <3>. QED
      BY <3>1, CountedMoves
  <2>9. Leases(r)
    BY <1>1, <1>6, <2>1, <2>3, <2>4, <2>5, <2>8 DEF Leases
  <2>. QED
    BY <2>9, LeasesKeeps
<1>7. CASE /\ sw = "on" /\ permits.free = 0
           /\ req' = [req EXCEPT ![r] = [new EXCEPT !.pc = "waiting"]]
           /\ permits' = [permits EXCEPT !.waiters = Append(@, r)]
           /\ owned' = owned + 1
           /\ UNCHANGED idle
  <2>. DEFINE old == permits.waiters
              more == Append(old, r)
  <2>1. permits \in Permits /\ old \in Seq(Requests)
    BY DEF IInv, TypeOK, Permits
  <2>2. /\ more \in Seq(Requests) /\ Len(old) \in Nat /\ Len(more) = Len(old) + 1
        /\ \A i \in 1..Len(old) : more[i] = old[i]
        /\ more[Len(old) + 1] = r
    BY <2>1, AppendIs
  <2>3. /\ permits' \in Permits /\ permits'.waiters = more /\ permits'.free = permits.free
        /\ permits.free = 0
    BY <1>7, <2>1, <2>2 DEF Permits
  <2>4. /\ req' \in [Requests -> Request] /\ \A q \in Requests \ {r} : req'[q] = req[q]
        /\ req'[r].pc = "waiting" /\ req'[r].slot = NoSlot /\ req'[r].outcome = "none"
        /\ req'[r].ran = FALSE /\ req'[r].cancelled = FALSE /\ req'[r].cleanup = FALSE
    BY <1>1, <1>2, <1>7 DEF Request, ProducerPcs, Outcomes
  <2>5. Shape(req'[r]) /\ Truthful(req'[r], Accepting', sw', failures')
    BY <1>1, <2>4 DEF Shape, Truthful, Using
  <2>6. /\ OthersStay(req, req', r)
        /\ Weight(req'[r].pc, ActivePcs) - Weight(req[r].pc, ActivePcs) = 1
        /\ Weight(req'[r].pc, HolderPcs) - Weight(req[r].pc, HolderPcs) = 0
        /\ Weight(req'[r].pc, {"handed"}) - Weight(req[r].pc, {"handed"}) = 0
        /\ Weight(req'[r].pc, {"removed"}) - Weight(req[r].pc, {"removed"}) = 0
    BY <1>1, <2>4 DEF OthersStay, Weight, ActivePcs, HolderPcs, Using
  <2>7. /\ Len(idle') = Len(idle) + 0 - 0 /\ Len(permits'.waiters) = Len(permits.waiters) + 1 - 0 - 0
        /\ permits'.free = permits.free - 0
    <3>1. Len(idle) \in Nat
      BY LenProperties DEF IInv, TypeOK
    <3>. QED
      BY <1>7, <2>2, <2>3, <3>1
  <2>8. owned' \in Nat /\ Counted(req', owned', permits', daemon'.left, Accepting', idle')
    <3>1. Moves(r, 1, 0, 0, 0)
      BY <1>1, <1>7, <2>6, <2>7 DEF Moves
    <3>. QED
      BY <3>1, CountedMoves
  <2>9. Len(permits'.waiters) <= QueueCapacity
    <3>. DEFINE h == Cardinality(Having(req, HolderPcs))
                x == Cardinality(Having(req, {"removed"}))
                k == Len(permits.waiters)
    <3>1. h \in Nat /\ x \in Nat
      BY CountedFinite, FS_CardinalityType DEF IInv, Counted
    <3>2. 0 + h = Connections /\ owned = h + k + x
      BY <1>1, <2>3 DEF IInv, Counted
    <3>3. ~(owned >= Connections /\ owned - Connections >= QueueCapacity)
      BY <1>1 DEF Full
    <3>4. k \in Nat /\ Len(permits'.waiters) = k + 1
      BY <2>2, <2>3
    <3>. HIDE DEF h, x, k
    <3>. QED
      BY <3>1, <3>2, <3>3, <3>4, LimitsAssumption
  <2>. HIDE DEF more, old
  <2>10. Waiting(permits'.waiters, req')
    <3>1. /\ \A i \in 1..Len(old) : req[old[i]].pc = "waiting"
          /\ \A i, j \in 1..Len(old) : old[i] = old[j] => i = j
          /\ \A i \in 1..Len(old) : old[i] \in Requests
      BY <2>1, ElementOfSeq DEF IInv, Waiting, old
    <3>2. \A i \in 1..Len(old) : old[i] # r
      BY <1>1, <3>1
    <3>3. \A i \in 1..Len(more) : i \in 1..Len(old) \/ i = Len(old) + 1
      BY <2>2
    <3>4. \A i \in 1..Len(more) : req'[more[i]].pc = "waiting"
      BY <2>2, <2>4, <3>1, <3>2, <3>3
    <3>5. \A i, j \in 1..Len(more) : more[i] = more[j] => i = j
      BY <2>2, <3>1, <3>2, <3>3
    <3>. QED
      BY <2>3, <3>4, <3>5 DEF Waiting
  <2>11. Exclusive(req', idle', conn') /\ Kept(req', idle', conn', closing', creator' = "connect")
    <3>1. \A q \in Requests : /\ req'[q].slot = req[q].slot
                              /\ req'[q].pc = "connect" => req[q].pc = "connect"
      BY <1>3, <2>4
    <3>. QED
      BY <1>1, <1>7, <3>1, SlotsStay
  <2>12. TypeOK'
    BY <1>1, <1>7, <2>3, <2>4, <2>8, <2>9 DEF IInv, TypeOK
  <2>13. Creating' /\ Draining'
    BY <1>1, <1>4, <1>7 DEF IInv, Creating, Draining
  <2>. QED
    BY <1>1, <1>7, <2>4, <2>5, <2>8, <2>10, <2>11, <2>12, <2>13 DEF IInv
<1>. QED
  BY <1>5, <1>6, <1>7 DEF Submit, new

\* What finish makes of a request.
LEMMA SettledIs ==
    ASSUME IInv, NEW r \in Requests, NEW outcome \in Outcomes, NEW failed \in BOOLEAN
    PROVE  /\ Settled(r, outcome, failed) \in Request
           /\ Settled(r, outcome, failed).pc = "settled"
           /\ Settled(r, outcome, failed).slot = NoSlot
           /\ Settled(r, outcome, failed).caller = req[r].caller
           /\ Settled(r, outcome, failed).cancelled = FALSE
           /\ Settled(r, outcome, failed).ran = req[r].ran
           /\ Settled(r, outcome, failed).outcome = outcome
           /\ Settled(r, outcome, failed).cleanup = failed
BY DEF IInv, TypeOK, Request, Settled, AbsentRequest, ProducerPcs, Outcomes

\* Stopping the pool can only be seen as such.
LEMMA StartShutdownIs ==
    ASSUME IInv, NEW failed \in BOOLEAN, StartShutdown(failed)
    PROVE  /\ failures' \in BOOLEAN /\ (failures => failures') /\ (failed => failures')
           /\ (~failed => failures' = failures)
           /\ lifecycle' = lifecycle \/ (lifecycle = "Accepting" /\ lifecycle' = "Stopping")
           /\ ~Accepting' /\ lifecycle' # "Accepting"
BY DEF IInv, TypeOK, StartShutdown, Accepting, Lifecycles

\* A permit that comes too late goes back.
LEMMA ResumeKeeps ==
    ASSUME IInv, NEW r \in Requests, Resume(r)
    PROVE  IInv'
<1>1. /\ req[r].pc = "handed" /\ req \in [Requests -> Request] /\ req[r] \in Request
      /\ UNCHANGED <<lifecycle, failures, conn, database, closing, creator, sw, daemon, answer>>
      /\ Accepting' = Accepting /\ failures \in BOOLEAN /\ conn \in [Slots -> ConnStates]
  BY DEF Resume, IInv, TypeOK, NativeUnchanged, OthersUnchanged, Accepting
<1>2. CASE /\ MayLease(r)
           /\ req' = [req EXCEPT ![r] = Leased(@)]
           /\ idle' = Tail(idle)
           /\ UNCHANGED <<owned, permits>>
  <2>1. Accepting /\ idle # <<>> /\ idle \in Seq(Slots) /\ ~req[r].cancelled
    BY <1>1, <1>2, IdleThere DEF IInv, TypeOK, MayLease
  <2>2. /\ Head(idle) \in Slots /\ Len(idle) \in Nat /\ Len(idle') = Len(idle) - 1
    BY <1>2, <2>1, TailIs
  <2>3. /\ req' \in [Requests -> Request] /\ \A q \in Requests \ {r} : req'[q] = req[q]
        /\ req'[r].pc = "work" /\ req'[r].slot = Head(idle) /\ req'[r].outcome = req[r].outcome
        /\ req'[r].ran = TRUE /\ req'[r].cancelled = req[r].cancelled
        /\ req'[r].cleanup = req[r].cleanup
    BY <1>1, <1>2, <2>2 DEF Request, ProducerPcs, Leased
  <2>4. Shape(req'[r]) /\ Truthful(req'[r], Accepting, sw, failures)
    BY <2>1, <2>2, <2>3, NoSlotAssumption DEF IInv, Shape, Truthful, Using
  <2>5. /\ permits' \in Permits /\ permits'.free = permits.free /\ permits.free \in Nat
        /\ permits'.waiters = permits.waiters /\ Len(permits.waiters) \in Nat /\ owned \in Nat
    BY <1>2, LimitsAssumption, LenProperties DEF IInv, TypeOK, Permits
  <2>6. /\ OthersStay(req, req', r)
        /\ Weight(req'[r].pc, ActivePcs) - Weight(req[r].pc, ActivePcs) = 0
        /\ Weight(req'[r].pc, HolderPcs) - Weight(req[r].pc, HolderPcs) = 0
        /\ Weight(req'[r].pc, {"handed"}) - Weight(req[r].pc, {"handed"}) = -1
        /\ Weight(req'[r].pc, {"removed"}) - Weight(req[r].pc, {"removed"}) = 0
    BY <1>1, <2>3 DEF OthersStay, Weight, ActivePcs, HolderPcs, Using
  <2>7. /\ Len(idle') = Len(idle) + (-1) - 0
        /\ Len(permits'.waiters) = Len(permits.waiters) + 0 - 0 - 0
        /\ permits'.free = permits.free - 0 /\ owned' = owned + 0
    BY <1>2, <2>2, <2>5
  <2>8. Moves(r, 0, 0, -1, 0)
    BY <1>1, <1>2, <2>6, <2>7 DEF Moves
  <2>9. owned' \in Nat /\ Counted(req', owned', permits', daemon'.left, Accepting', idle')
    BY <2>8, CountedMoves
  <2>10. Leases(r)
    BY <1>1, <1>2, <2>1, <2>3, <2>4, <2>5, <2>9 DEF Leases
  <2>. QED
    BY <2>10, LeasesKeeps
<1>3. CASE /\ ~MayLease(r)
           /\ SettleHolding(r, Settled(r, "Rejected", FALSE))
           /\ UNCHANGED idle
  <2>. DEFINE done == Settled(r, "Rejected", FALSE)
  <2>1. /\ done \in Request /\ done.pc = "settled" /\ done.slot = NoSlot
        /\ done.caller = req[r].caller /\ done.cancelled = FALSE /\ done.ran = req[r].ran
        /\ done.outcome = "Rejected" /\ done.cleanup = FALSE
    BY SettledIs DEF Outcomes
  <2>2. SettleHolding(r, done)
    BY <1>3
  <2>. HIDE DEF done
  <2>3. Shape(done) /\ Truthful(done, Accepting', sw, failures')
    BY <1>1, <1>3, <2>1 DEF IInv, Shape, Truthful, Using, MayLease
  <2>4. Settles(r, done)
    BY <1>1, <1>3, <2>1, <2>2, <2>3 DEF Settles, Using
  <2>. QED
    BY <1>1, <2>4, SettleKeeps DEF HolderPcs
<1>. QED
  BY <1>2, <1>3 DEF Resume

\* A waiter that was told to leave owns nothing.
LEMMA RemovedKeeps ==
    ASSUME IInv, NEW r \in Requests, Removed(r)
    PROVE  IInv'
<1>1. /\ req[r].pc = "removed" /\ req \in [Requests -> Request]
      /\ UNCHANGED <<permits, idle, lifecycle, failures, conn, database, closing, creator, sw,
                     daemon, answer>>
      /\ Accepting' = Accepting /\ owned' = owned - 1
      /\ req' = [req EXCEPT ![r] = Settled(r, "Rejected", FALSE)]
  BY DEF Removed, IInv, TypeOK, NativeUnchanged, OthersUnchanged, Accepting
<1>2. /\ daemon.pc \in {"await", "join"} /\ creator \in {"forked", "join", "published"}
      /\ database = "open" /\ answer = "none" /\ closing = <<>>
      /\ lifecycle \in {"Accepting", "Stopping"}
  BY <1>1, ActiveMeans DEF ActivePcs
<1>3. Settled(r, "Rejected", FALSE) \in Request
  BY SettledIs DEF Outcomes
<1>4. /\ req' \in [Requests -> Request] /\ \A q \in Requests \ {r} : req'[q] = req[q]
      /\ req'[r].pc = "settled" /\ req'[r].slot = NoSlot /\ req'[r].caller = req[r].caller
      /\ req'[r].cancelled = FALSE /\ req'[r].ran = req[r].ran
      /\ req'[r].outcome = "Rejected" /\ req'[r].cleanup = FALSE
  <2>. DEFINE new == Settled(r, "Rejected", FALSE)
  <2>1. /\ new.pc = "settled" /\ new.slot = NoSlot /\ new.caller = req[r].caller
        /\ new.cancelled = FALSE /\ new.ran = req[r].ran
        /\ new.outcome = "Rejected" /\ new.cleanup = FALSE
    BY SettledIs DEF Outcomes
  <2>2. req' = [req EXCEPT ![r] = new] /\ new \in Request /\ req \in [Requests -> Request]
    BY <1>1, <1>3 DEF IInv, TypeOK
  <2>. HIDE DEF new
  <2>. QED
    BY <2>1, <2>2
<1>5. /\ req[r].slot = NoSlot /\ ~req[r].ran /\ req[r].cancelled
      /\ req[r].caller = "joins" \/ ~Accepting
  BY <1>1 DEF IInv, Shape, Truthful, Using
<1>6. \A q \in Requests : Shape(req'[q]) /\ Truthful(req'[q], Accepting', sw', failures')
  <2>1. Shape(req'[r]) /\ Truthful(req'[r], Accepting', sw', failures')
    BY <1>1, <1>4, <1>5 DEF Shape, Truthful, Using
  <2>. QED
    BY <1>1, <1>4, <2>1 DEF IInv
<1>7. owned' \in Nat /\ Counted(req', owned', permits', daemon'.left, Accepting', idle')
  <2>1. /\ OthersStay(req, req', r)
        /\ Weight(req'[r].pc, ActivePcs) - Weight(req[r].pc, ActivePcs) = -1
        /\ Weight(req'[r].pc, HolderPcs) - Weight(req[r].pc, HolderPcs) = 0
        /\ Weight(req'[r].pc, {"handed"}) - Weight(req[r].pc, {"handed"}) = 0
        /\ Weight(req'[r].pc, {"removed"}) - Weight(req[r].pc, {"removed"}) = -1
    <3>1. req[r].pc = "removed" /\ req'[r].pc = "settled" /\ OthersStay(req, req', r)
      BY <1>1, <1>4 DEF OthersStay
    <3>. QED
      BY <3>1 DEF Weight, ActivePcs, HolderPcs, Using
  <2>2. /\ Len(idle') = Len(idle) + 0 - 0
        /\ Len(permits'.waiters) = Len(permits.waiters) + (-1) - 0 - (-1)
        /\ permits'.free = permits.free - 0 /\ owned' = owned + (-1)
    <3>1. permits.free \in Nat /\ Len(permits.waiters) \in Nat /\ owned \in Nat /\ Len(idle) \in Nat
      BY LimitsAssumption, LenProperties DEF IInv, TypeOK, Permits
    <3>. QED
      BY <1>1, <3>1
  <2>3. Moves(r, -1, 0, 0, -1)
    BY <1>1, <2>1, <2>2 DEF Moves
  <2>. QED
    BY <2>3, CountedMoves
<1>8. Waiting(permits'.waiters, req')
  BY <1>1, <1>4, WaitersStay
<1>9. Exclusive(req', idle', conn') /\ Kept(req', idle', conn', closing', creator' = "connect")
  BY <1>1, <1>4, <1>5, SlotsStay
<1>10. TypeOK'
  BY <1>1, <1>4, <1>7 DEF IInv, TypeOK
<1>11. Creating'
  BY <1>1, <1>2 DEF IInv, Creating
<1>12. Draining'
  <2>1. Active' \subseteq Active
    BY <1>4 DEF Active
  <2>. QED
    BY <1>1, <1>2, <2>1 DEF IInv, Draining
<1>. QED
  BY <1>6, <1>7, <1>8, <1>9, <1>10, <1>11, <1>12 DEF IInv

\* A connection only goes back to the queue as it was, and while the pool accepts.
LEMMA WorkReturnsKeeps ==
    ASSUME IInv, NEW r \in Requests, NEW outcome \in {"Ok", "Failed"}, WorkReturns(r, outcome)
    PROVE  IInv'
<1>1. /\ req[r].pc = "work" /\ req \in [Requests -> Request] /\ req[r] \in Request
      /\ UNCHANGED <<lifecycle, failures, database, closing, creator, sw, daemon, answer>>
      /\ Accepting' = Accepting /\ failures \in BOOLEAN /\ outcome \in Outcomes
      /\ req[r].slot \in Slots /\ req[r].slot # NoSlot /\ req[r].ran
      /\ conn' \in [Slots -> ConnStates] /\ \A s \in Slots : s # req[r].slot => conn'[s] = conn[s]
  BY DEF WorkReturns, IInv, TypeOK, OthersUnchanged, Accepting, Shape, Using, Request, ConnStates,
     Outcomes
<1>2. CASE /\ idle' = Append(idle, req[r].slot)
           /\ SettleHolding(r, Settled(r, outcome, FALSE))
  <2>. DEFINE done == Settled(r, outcome, FALSE)
  <2>1. /\ done \in Request /\ done.pc = "settled" /\ done.slot = NoSlot
        /\ done.caller = req[r].caller /\ done.cancelled = FALSE /\ done.ran = req[r].ran
        /\ done.outcome = outcome /\ done.cleanup = FALSE
    <3>1. outcome \in Outcomes /\ TRUE \in BOOLEAN /\ FALSE \in BOOLEAN
      BY <1>1
    <3>. QED
      BY <3>1, SettledIs
  <2>2. SettleHolding(r, done)
    BY <1>2
  <2>. HIDE DEF done
  <2>3. Shape(done) /\ Truthful(done, Accepting', sw, failures')
    BY <1>1, <2>1 DEF Shape, Truthful, Using
  <2>4. Settles(r, done)
    BY <1>1, <1>2, <2>1, <2>2, <2>3 DEF Settles, Using
  <2>. QED
    BY <1>1, <2>4, SettleKeeps DEF HolderPcs, Using
<1>3. CASE /\ req' = [req EXCEPT ![r].pc = "close", ![r].outcome = outcome, ![r].reuse = FALSE]
           /\ UNCHANGED <<idle, owned, permits>>
  <2>1. /\ req' \in [Requests -> Request] /\ \A q \in Requests \ {r} : req'[q] = req[q]
        /\ req'[r].pc = "close" /\ req'[r].slot = req[r].slot /\ req'[r].outcome = outcome
        /\ req'[r].ran = req[r].ran /\ req'[r].cancelled = req[r].cancelled
        /\ req'[r].caller = req[r].caller /\ req'[r].cleanup = req[r].cleanup
    BY <1>1, <1>3 DEF Request, ProducerPcs, Outcomes
  <2>2. Shape(req'[r]) /\ Truthful(req'[r], Accepting, sw, failures)
    BY <1>1, <2>1 DEF IInv, Shape, Truthful, Using
  <2>3. Stays(r)
    BY <1>1, <1>3, <2>1, <2>2 DEF Stays, Using
  <2>. QED
    BY <1>1, <2>3, StaysKeeps DEF Using
<1>. QED
  BY <1>2, <1>3 DEF WorkReturns

\* A connection that does not close stops the pool and is not used again.
LEMMA CloseReturnsKeeps ==
    ASSUME IInv, NEW r \in Requests, CloseReturns(r)
    PROVE  IInv'
<1>1. /\ req[r].pc = "close" /\ req \in [Requests -> Request] /\ req[r] \in Request
      /\ UNCHANGED <<idle, database, closing, creator, sw, daemon, answer>>
      /\ failures \in BOOLEAN /\ req[r].outcome \in {"Ok", "Failed"}
      /\ req[r].outcome \in Outcomes /\ conn \in [Slots -> ConnStates]
      /\ req[r].slot \in Slots /\ req[r].slot # NoSlot /\ req[r].ran
  BY DEF CloseReturns, IInv, TypeOK, OthersUnchanged, Shape, Using, Request
<1>2. CASE /\ conn' = [conn EXCEPT ![req[r].slot] = "none"]
           /\ UNCHANGED <<lifecycle, failures>>
           /\ Accepting
           /\ req' = [req EXCEPT ![r].pc = "connect"]
           /\ UNCHANGED <<owned, permits>>
  <2>1. /\ req' \in [Requests -> Request] /\ \A q \in Requests \ {r} : req'[q] = req[q]
        /\ req'[r].pc = "connect" /\ req'[r].slot = req[r].slot /\ req'[r].outcome = req[r].outcome
        /\ req'[r].ran = req[r].ran /\ req'[r].cancelled = req[r].cancelled
        /\ req'[r].caller = req[r].caller /\ req'[r].cleanup = req[r].cleanup
    BY <1>1, <1>2 DEF Request, ProducerPcs
  <2>2. /\ conn' \in [Slots -> ConnStates] /\ \A s \in Slots : s # req[r].slot => conn'[s] = conn[s]
        /\ conn'[req[r].slot] = "none"
    BY <1>1, <1>2 DEF ConnStates
  <2>3. Shape(req'[r]) /\ Truthful(req'[r], Accepting, sw, failures)
    BY <1>1, <2>1 DEF IInv, Shape, Truthful, Using
  <2>4. Stays(r)
    BY <1>1, <1>2, <2>1, <2>2, <2>3 DEF Stays, Using
  <2>. QED
    BY <1>1, <2>4, StaysKeeps DEF Using
<1>3. CASE /\ conn' = [conn EXCEPT ![req[r].slot] = "none"]
           /\ UNCHANGED <<lifecycle, failures>>
           /\ ~Accepting
           /\ SettleHolding(r, Settled(r, req[r].outcome, FALSE))
  <2>. DEFINE done == Settled(r, req[r].outcome, FALSE)
  <2>1. /\ done \in Request /\ done.pc = "settled" /\ done.slot = NoSlot
        /\ done.caller = req[r].caller /\ done.cancelled = FALSE /\ done.ran = req[r].ran
        /\ done.outcome = req[r].outcome /\ done.cleanup = FALSE
    <3>1. req[r].outcome \in Outcomes /\ TRUE \in BOOLEAN /\ FALSE \in BOOLEAN
      BY <1>1
    <3>. QED
      BY <3>1, SettledIs
  <2>2. SettleHolding(r, done) /\ ~Accepting'
    BY <1>3 DEF Accepting
  <2>. HIDE DEF done
  <2>3. Shape(done) /\ Truthful(done, Accepting', sw, failures')
    BY <1>1, <2>1 DEF Shape, Truthful, Using
  <2>4. /\ conn' \in [Slots -> ConnStates] /\ \A s \in Slots : s # req[r].slot => conn'[s] = conn[s]
        /\ conn'[req[r].slot] = "none"
    BY <1>1, <1>3 DEF ConnStates
  <2>5. Settles(r, done)
    BY <1>1, <1>3, <2>1, <2>2, <2>3, <2>4 DEF Settles
  <2>. QED
    BY <1>1, <2>5, SettleKeeps DEF HolderPcs, Using
<1>4. CASE /\ conn' = [conn EXCEPT ![req[r].slot] = "leaked"]
           /\ StartShutdown(TRUE)
           /\ SettleHolding(r, Settled(r, req[r].outcome, TRUE))
  <2>. DEFINE done == Settled(r, req[r].outcome, TRUE)
  <2>1. /\ done \in Request /\ done.pc = "settled" /\ done.slot = NoSlot
        /\ done.caller = req[r].caller /\ done.cancelled = FALSE /\ done.ran = req[r].ran
        /\ done.outcome = req[r].outcome /\ done.cleanup = TRUE
    <3>1. req[r].outcome \in Outcomes /\ TRUE \in BOOLEAN /\ FALSE \in BOOLEAN
      BY <1>1
    <3>. QED
      BY <3>1, SettledIs
  <2>2. SettleHolding(r, done)
    BY <1>4
  <2>3. /\ failures' \in BOOLEAN /\ (failures => failures') /\ failures' /\ ~Accepting'
        /\ lifecycle' = lifecycle \/ (lifecycle = "Accepting" /\ lifecycle' = "Stopping")
    BY <1>4, StartShutdownIs
  <2>. HIDE DEF done
  <2>4. Shape(done) /\ Truthful(done, Accepting', sw, failures')
    BY <1>1, <2>1, <2>3 DEF Shape, Truthful, Using
  <2>5. /\ conn' \in [Slots -> ConnStates] /\ \A s \in Slots : s # req[r].slot => conn'[s] = conn[s]
        /\ conn'[req[r].slot] = "leaked"
    BY <1>1, <1>4 DEF ConnStates
  <2>6. Settles(r, done)
    BY <1>1, <2>1, <2>2, <2>3, <2>4, <2>5 DEF Settles
  <2>. QED
    BY <1>1, <2>6, SettleKeeps DEF HolderPcs, Using
<1>. QED
  BY <1>2, <1>3, <1>4 DEF CloseReturns

\* A replacement takes the place of the connection that was closed, or nothing does.
LEMMA ConnectReturnsKeeps ==
    ASSUME IInv, NEW r \in Requests, ConnectReturns(r)
    PROVE  IInv'
<1>1. /\ req[r].pc = "connect" /\ req \in [Requests -> Request] /\ req[r] \in Request
      /\ UNCHANGED <<database, closing, creator, sw, daemon, answer>>
      /\ failures \in BOOLEAN /\ req[r].outcome \in {"Ok", "Failed"}
      /\ req[r].outcome \in Outcomes /\ conn \in [Slots -> ConnStates]
      /\ req[r].slot \in Slots /\ req[r].slot # NoSlot /\ req[r].ran
      /\ conn[req[r].slot] = "none"
  BY DEF ConnectReturns, IInv, TypeOK, OthersUnchanged, Shape, Using, Request, Exclusive
<1>2. CASE /\ StartShutdown(TRUE)
           /\ SettleHolding(r, Settled(r, req[r].outcome, TRUE))
           /\ UNCHANGED <<conn, idle>>
  <2>. DEFINE done == Settled(r, req[r].outcome, TRUE)
  <2>1. /\ done \in Request /\ done.pc = "settled" /\ done.slot = NoSlot
        /\ done.caller = req[r].caller /\ done.cancelled = FALSE /\ done.ran = req[r].ran
        /\ done.outcome = req[r].outcome /\ done.cleanup = TRUE
    <3>1. req[r].outcome \in Outcomes /\ TRUE \in BOOLEAN /\ FALSE \in BOOLEAN
      BY <1>1
    <3>. QED
      BY <3>1, SettledIs
  <2>2. SettleHolding(r, done)
    BY <1>2
  <2>3. /\ failures' \in BOOLEAN /\ (failures => failures') /\ failures' /\ ~Accepting'
        /\ lifecycle' = lifecycle \/ (lifecycle = "Accepting" /\ lifecycle' = "Stopping")
    BY <1>2, StartShutdownIs
  <2>. HIDE DEF done
  <2>4. Shape(done) /\ Truthful(done, Accepting', sw, failures')
    BY <1>1, <2>1, <2>3 DEF Shape, Truthful, Using
  <2>5. Settles(r, done)
    BY <1>1, <1>2, <2>1, <2>2, <2>3, <2>4 DEF Settles
  <2>. QED
    BY <1>1, <2>5, SettleKeeps DEF HolderPcs, Using
<1>3. CASE /\ conn' = [conn EXCEPT ![req[r].slot] = "clean"]
           /\ UNCHANGED <<lifecycle, failures>>
           /\ idle' = Append(idle, req[r].slot)
           /\ SettleHolding(r, Settled(r, req[r].outcome, FALSE))
  <2>. DEFINE done == Settled(r, req[r].outcome, FALSE)
  <2>1. /\ done \in Request /\ done.pc = "settled" /\ done.slot = NoSlot
        /\ done.caller = req[r].caller /\ done.cancelled = FALSE /\ done.ran = req[r].ran
        /\ done.outcome = req[r].outcome /\ done.cleanup = FALSE
    <3>1. req[r].outcome \in Outcomes /\ TRUE \in BOOLEAN /\ FALSE \in BOOLEAN
      BY <1>1
    <3>. QED
      BY <3>1, SettledIs
  <2>2. SettleHolding(r, done)
    BY <1>3
  <2>. HIDE DEF done
  <2>3. Shape(done) /\ Truthful(done, Accepting', sw, failures')
    BY <1>1, <2>1 DEF Shape, Truthful, Using
  <2>4. conn' \in [Slots -> ConnStates] /\ \A s \in Slots : s # req[r].slot => conn'[s] = conn[s]
    BY <1>1, <1>3 DEF ConnStates
  <2>5. Settles(r, done)
    BY <1>1, <1>3, <2>1, <2>2, <2>3, <2>4 DEF Settles, Using
  <2>. QED
    BY <1>1, <2>5, SettleKeeps DEF HolderPcs, Using
<1>4. CASE /\ conn' = [conn EXCEPT ![req[r].slot] = "clean"]
           /\ UNCHANGED <<lifecycle, failures>>
           /\ req' = [req EXCEPT ![r].pc = "reclose"]
           /\ UNCHANGED <<idle, owned, permits>>
  <2>1. /\ req' \in [Requests -> Request] /\ \A q \in Requests \ {r} : req'[q] = req[q]
        /\ req'[r].pc = "reclose" /\ req'[r].slot = req[r].slot /\ req'[r].outcome = req[r].outcome
        /\ req'[r].ran = req[r].ran /\ req'[r].cancelled = req[r].cancelled
        /\ req'[r].caller = req[r].caller /\ req'[r].cleanup = req[r].cleanup
    BY <1>1, <1>4 DEF Request, ProducerPcs
  <2>2. conn' \in [Slots -> ConnStates] /\ \A s \in Slots : s # req[r].slot => conn'[s] = conn[s]
    BY <1>1, <1>4 DEF ConnStates
  <2>3. Shape(req'[r]) /\ Truthful(req'[r], Accepting, sw, failures)
    BY <1>1, <2>1 DEF IInv, Shape, Truthful, Using
  <2>4. Stays(r)
    BY <1>1, <1>4, <2>1, <2>2, <2>3 DEF Stays, Using
  <2>. QED
    BY <1>1, <2>4, StaysKeeps DEF Using
<1>. QED
  BY <1>2, <1>3, <1>4 DEF ConnectReturns

\* A replacement that came too late is closed, and a failure of that is kept.
LEMMA RecloseReturnsKeeps ==
    ASSUME IInv, NEW r \in Requests, RecloseReturns(r)
    PROVE  IInv'
<1>1. /\ req[r].pc = "reclose" /\ req \in [Requests -> Request] /\ req[r] \in Request
      /\ UNCHANGED <<idle, database, closing, creator, sw, daemon, answer>>
      /\ failures \in BOOLEAN /\ req[r].outcome \in {"Ok", "Failed"}
      /\ req[r].outcome \in Outcomes /\ conn \in [Slots -> ConnStates]
      /\ req[r].slot \in Slots /\ req[r].slot # NoSlot /\ req[r].ran
  BY DEF RecloseReturns, IInv, TypeOK, OthersUnchanged, Shape, Using, Request
<1>2. PICK failed \in BOOLEAN :
          /\ conn' = [conn EXCEPT ![req[r].slot] = IF failed THEN "leaked" ELSE "none"]
          /\ StartShutdown(failed)
          /\ SettleHolding(r, Settled(r, req[r].outcome, failed))
  BY DEF RecloseReturns
<1>. DEFINE done == Settled(r, req[r].outcome, failed)
<1>3. /\ done \in Request /\ done.pc = "settled" /\ done.slot = NoSlot
      /\ done.caller = req[r].caller /\ done.cancelled = FALSE /\ done.ran = req[r].ran
      /\ done.outcome = req[r].outcome /\ done.cleanup = failed
  <2>1. req[r].outcome \in Outcomes
    BY <1>1
  <2>2. failed \in BOOLEAN
    BY <1>2
  <2>. DEFINE o == req[r].outcome
  <2>3. done = Settled(r, o, failed) /\ o \in Outcomes
    BY <2>1
  <2>. HIDE DEF o, done
  <2>4. /\ Settled(r, o, failed) \in Request
        /\ Settled(r, o, failed).pc = "settled"
        /\ Settled(r, o, failed).slot = NoSlot
        /\ Settled(r, o, failed).caller = req[r].caller
        /\ Settled(r, o, failed).cancelled = FALSE
        /\ Settled(r, o, failed).ran = req[r].ran
        /\ Settled(r, o, failed).outcome = o
        /\ Settled(r, o, failed).cleanup = failed
    BY <2>2, <2>3, SettledIs
  <2>. QED
    BY <2>3, <2>4 DEF o
<1>4. SettleHolding(r, done)
  BY <1>2
<1>5. /\ failures' \in BOOLEAN /\ (failures => failures') /\ (failed => failures') /\ ~Accepting'
      /\ lifecycle' = lifecycle \/ (lifecycle = "Accepting" /\ lifecycle' = "Stopping")
  BY <1>2, StartShutdownIs
<1>. HIDE DEF done
<1>6. Shape(done) /\ Truthful(done, Accepting', sw, failures')
  BY <1>1, <1>3, <1>5 DEF Shape, Truthful, Using
<1>7. /\ conn' \in [Slots -> ConnStates] /\ \A s \in Slots : s # req[r].slot => conn'[s] = conn[s]
      /\ conn'[req[r].slot] \notin {"clean", "tainted"}
  BY <1>1, <1>2 DEF ConnStates
<1>8. Settles(r, done)
  BY <1>1, <1>3, <1>4, <1>5, <1>6, <1>7 DEF Settles
<1>. QED
  BY <1>1, <1>8, SettleKeeps DEF HolderPcs, Using

-----------------------------------------------------------------------------
(* The caller.                                                              *)

\* The caller goes on to join the producer.
LEMMA JoinsIs ==
    ASSUME NEW q \in Request
    PROVE  /\ [q EXCEPT !.caller = "joins"] \in Request
           /\ [q EXCEPT !.caller = "joins"].caller = "joins"
           /\ [q EXCEPT !.caller = "joins"].pc = q.pc
           /\ [q EXCEPT !.caller = "joins"].slot = q.slot
           /\ [q EXCEPT !.caller = "joins"].outcome = q.outcome
           /\ [q EXCEPT !.caller = "joins"].cleanup = q.cleanup
           /\ [q EXCEPT !.caller = "joins"].ran = q.ran
           /\ [q EXCEPT !.caller = "joins"].cancelled = q.cancelled
BY DEF Request

\* What cancel does to the request of the caller.
LEMMA CallerCancelledIs ==
    ASSUME IInv, NEW r \in Requests, CallerCancelled(r)
    PROVE  /\ req' \in [Requests -> Request] /\ \A q \in Requests \ {r} : req'[q] = req[q]
           /\ req'[r].caller = "joins" /\ req'[r].slot = req[r].slot /\ req'[r].outcome = req[r].outcome
           /\ req'[r].cleanup = req[r].cleanup /\ req'[r].ran = req[r].ran
           /\ req[r].pc = "waiting" => req'[r].pc = "removed" /\ req'[r].cancelled
           /\ req[r].pc # "waiting" => req'[r].pc = req[r].pc
           /\ r \in Active => req'[r].cancelled
<1>0. /\ req \in [Requests -> Request] /\ req[r] \in Request
      /\ req' = [Cancelled({r} \cap Active) EXCEPT ![r].caller = "joins"]
  BY DEF CallerCancelled, IInv, TypeOK
<1>. DEFINE mid == Cancelled({r} \cap Active)
<1>1. req' = [mid EXCEPT ![r].caller = "joins"] /\ DOMAIN mid = Requests
  BY <1>0 DEF Cancelled
<1>2. /\ \A q \in Requests \ {r} : mid[q] = req[q]
      /\ r \notin Active => mid[r] = req[r]
      /\ r \in Active /\ req[r].pc = "waiting" =>
            mid[r] = [req[r] EXCEPT !.cancelled = TRUE, !.pc = "removed"]
      /\ r \in Active /\ req[r].pc # "waiting" => mid[r] = [req[r] EXCEPT !.cancelled = TRUE]
  BY <1>0 DEF Cancelled, Request
<1>. HIDE DEF mid
<1>3. DOMAIN req' = Requests /\ req' = [q \in Requests |-> req'[q]]
      /\ req'[r] = [mid[r] EXCEPT !.caller = "joins"] /\ \A q \in Requests \ {r} : req'[q] = req[q]
  BY <1>1, <1>2
<1>4. /\ mid[r] \in Request /\ mid[r].slot = req[r].slot /\ mid[r].outcome = req[r].outcome
      /\ mid[r].cleanup = req[r].cleanup /\ mid[r].ran = req[r].ran
      /\ req[r].pc = "waiting" => mid[r].pc = "removed"
      /\ req[r].pc # "waiting" => mid[r].pc = req[r].pc
      /\ r \in Active => mid[r].cancelled
  <2>1. req[r] \in Request /\ (r \notin Active => req[r].pc # "waiting")
    BY <1>0 DEF Active
  <2>2. CASE r \notin Active
    BY <1>2, <2>1, <2>2
  <2>3. CASE r \in Active /\ req[r].pc = "waiting"
    <3>1. mid[r] = [req[r] EXCEPT !.cancelled = TRUE, !.pc = "removed"]
      BY <1>2, <2>3
    <3>. QED
      BY <2>1, <2>3, <3>1 DEF Request, ProducerPcs
  <2>4. CASE r \in Active /\ req[r].pc # "waiting"
    <3>1. mid[r] = [req[r] EXCEPT !.cancelled = TRUE]
      BY <1>2, <2>4
    <3>. QED
      BY <2>1, <2>4, <3>1 DEF Request
  <2>. QED
    BY <2>2, <2>3, <2>4
<1>5. /\ req'[r] \in Request /\ req'[r].caller = "joins" /\ req'[r].pc = mid[r].pc
      /\ req'[r].slot = mid[r].slot /\ req'[r].outcome = mid[r].outcome
      /\ req'[r].cleanup = mid[r].cleanup /\ req'[r].ran = mid[r].ran
      /\ req'[r].cancelled = mid[r].cancelled
  BY <1>3, <1>4, JoinsIs
<1>6. req' \in [Requests -> Request]
  <2>1. \A q \in Requests : req'[q] \in Request
    BY <1>0, <1>3, <1>5
  <2>. QED
    BY <1>3, <2>1
<1>7. req[r].pc = "waiting" => r \in Active
  BY DEF Active
<1>. QED
  BY <1>3, <1>4, <1>5, <1>6, <1>7

\* A cancelled request leaves the queue or is remembered as cancelled.
LEMMA CallerCancelledKeeps ==
    ASSUME IInv, NEW r \in Requests, CallerCancelled(r)
    PROVE  IInv'
<1>1. /\ req[r].caller = "awaits" /\ req \in [Requests -> Request] /\ req[r] \in Request
      /\ UNCHANGED <<lifecycle, failures, owned, idle, conn, database, closing, creator, sw,
                     daemon, answer>>
      /\ Accepting' = Accepting /\ permits \in Permits
      /\ req' = [Cancelled({r} \cap Active) EXCEPT ![r].caller = "joins"]
  BY DEF CallerCancelled, IInv, TypeOK, NativeUnchanged, OthersUnchanged, Accepting
<1>2. daemon.pc # "off"
  <2>1. req[r] # AbsentRequest
    BY <1>1 DEF AbsentRequest
  <2>. QED
    BY <2>1 DEF IInv, Creating
<1>3. /\ req' \in [Requests -> Request] /\ \A q \in Requests \ {r} : req'[q] = req[q]
      /\ req'[r].caller = "joins" /\ req'[r].slot = req[r].slot /\ req'[r].outcome = req[r].outcome
      /\ req'[r].cleanup = req[r].cleanup /\ req'[r].ran = req[r].ran
      /\ req[r].pc = "waiting" => req'[r].pc = "removed" /\ req'[r].cancelled
      /\ req[r].pc # "waiting" => req'[r].pc = req[r].pc
      /\ r \in Active => req'[r].cancelled
  BY CallerCancelledIs
<1>4. \A q \in Requests : Shape(req'[q]) /\ Truthful(req'[q], Accepting', sw', failures')
  <2>1. Shape(req[r]) /\ Truthful(req[r], Accepting, sw, failures)
    BY DEF IInv
  <2>2. Shape(req'[r])
    <3>1. CASE req[r].pc = "waiting"
      BY <1>1, <1>3, <2>1, <3>1 DEF Shape, Using
    <3>2. CASE req[r].pc = "removed"
      <4>1. r \in Active
        BY <3>2 DEF Active
      <4>. QED
        BY <1>1, <1>3, <2>1, <3>2, <4>1 DEF Shape, Using
    <3>3. CASE req[r].pc \notin {"waiting", "removed"}
      BY <1>1, <1>3, <2>1, <3>3 DEF Shape, Using
    <3>. QED
      BY <3>1, <3>2, <3>3
  <2>3. Truthful(req'[r], Accepting', sw', failures')
    BY <1>1, <1>3, <2>1 DEF Truthful
  <2>. QED
    BY <1>1, <1>3, <2>2, <2>3 DEF IInv
<1>5. /\ Counted(req', owned', permits', daemon'.left, Accepting', idle')
      /\ Waiting(permits'.waiters, req') /\ permits' \in Permits
      /\ Len(permits'.waiters) <= QueueCapacity
  <2>1. CASE req[r].pc # "waiting" /\ UNCHANGED permits
    <3>1. OthersStay(req, req', r) /\ req'[r].pc = req[r].pc
      BY <1>3, <2>1 DEF OthersStay
    <3>2. \A pcs \in {ActivePcs, HolderPcs, {"handed"}, {"removed"}} :
             Weight(req'[r].pc, pcs) = Weight(req[r].pc, pcs)
      BY <3>1
    <3>3. Counted(req', owned', permits', daemon'.left, Accepting', idle')
      BY <1>1, <2>1, <3>1, <3>2, CountsStay
    <3>4. Waiting(permits'.waiters, req')
      BY <1>3, <2>1, WaitersStay
    <3>. QED
      BY <2>1, <3>3, <3>4 DEF IInv, TypeOK
  <2>2. CASE /\ req[r].pc = "waiting"
             /\ \E i \in 1..Len(permits.waiters) :
                  /\ permits.waiters[i] = r
                  /\ permits' = [permits EXCEPT !.waiters = RemoveAt(@, i)]
    <3>1. PICK k \in 1..Len(permits.waiters) :
                  /\ permits.waiters[k] = r
                  /\ permits' = [permits EXCEPT !.waiters = RemoveAt(@, k)]
      BY <2>2
    <3>. DEFINE old == permits.waiters
                new == RemoveAt(old, k)
    <3>2. old \in Seq(Requests) /\ Len(old) <= QueueCapacity
      BY DEF IInv, TypeOK, Permits
    <3>3. /\ new \in Seq(Requests) /\ Len(new) = Len(old) - 1
          /\ \A i \in 1..Len(old) - 1 : new[i] = IF i < k THEN old[i] ELSE old[i + 1]
          /\ Len(old) \in Nat
      BY <3>2, RemoveAtIs, LenProperties
    <3>4. /\ permits' \in Permits /\ permits'.waiters = new /\ permits'.free = permits.free
          /\ permits.free \in Nat
      BY <1>1, <3>1, <3>3, LimitsAssumption DEF Permits
    <3>5. /\ \A i \in 1..Len(old) : req[old[i]].pc = "waiting" /\ old[i] \in Requests
          /\ \A i, j \in 1..Len(old) : old[i] = old[j] => i = j
      BY <3>2, ElementOfSeq DEF IInv, Waiting
    <3>6. k \in 1..Len(old) /\ old[k] = r
      BY <3>1
    <3>. HIDE DEF old, new
    <3>7. Waiting(new, req')
      <4>1. ASSUME NEW i \in 1..Len(new)
            PROVE  new[i] \in Requests \ {r} /\ req[new[i]].pc = "waiting"
        <5>1. CASE i < k
          <6>1. i \in 1..Len(old) /\ i # k /\ new[i] = old[i]
            BY <3>3, <5>1
          <6>. QED
            BY <3>5, <3>6, <6>1
        <5>2. CASE ~(i < k)
          <6>1. i + 1 \in 1..Len(old) /\ i + 1 # k /\ new[i] = old[i + 1]
            <7>. DEFINE l == Len(old)
            <7>1. i \in Nat /\ k \in Nat /\ l \in Nat /\ 1 <= i /\ i <= l - 1 /\ ~(i < k)
              BY <3>3, <3>6, <5>2
            <7>. HIDE DEF l
            <7>2. i + 1 \in 1..l /\ i + 1 # k /\ i \in 1..l - 1
              BY <7>1
            <7>. QED
              BY <3>3, <5>2, <7>2 DEF l
          <6>. QED
            BY <3>5, <3>6, <6>1
        <5>. QED
          BY <5>1, <5>2
      <4>2. ASSUME NEW i \in 1..Len(new), NEW j \in 1..Len(new), new[i] = new[j]
            PROVE  i = j
        <5>. DEFINE g(n) == IF n < k THEN n ELSE n + 1
        <5>1. g(i) \in 1..Len(old) /\ g(j) \in 1..Len(old)
          BY <3>3, <3>6
        <5>2. new[i] = old[g(i)] /\ new[j] = old[g(j)]
          BY <3>3, <3>6
        <5>3. g(i) = g(j)
          BY <3>5, <4>2, <5>1, <5>2
        <5>. QED
          BY <3>3, <3>6, <5>3
      <4>. QED
        BY <1>3, <4>1, <4>2 DEF Waiting
    <3>8. Len(permits'.waiters) <= QueueCapacity
      BY <3>2, <3>3, <3>4, LimitsAssumption
    <3>9. /\ OthersStay(req, req', r)
          /\ Weight(req'[r].pc, ActivePcs) - Weight(req[r].pc, ActivePcs) = 0
          /\ Weight(req'[r].pc, HolderPcs) - Weight(req[r].pc, HolderPcs) = 0
          /\ Weight(req'[r].pc, {"handed"}) - Weight(req[r].pc, {"handed"}) = 0
          /\ Weight(req'[r].pc, {"removed"}) - Weight(req[r].pc, {"removed"}) = 1
      BY <1>3, <2>2 DEF OthersStay, Weight, ActivePcs, HolderPcs, Using
    <3>10. /\ Len(idle') = Len(idle) + 0 - 0
           /\ Len(permits'.waiters) = Len(permits.waiters) + 0 - 0 - 1
           /\ permits'.free = permits.free - 0 /\ owned' = owned + 0
      <4>1. Len(idle) \in Nat /\ owned \in Nat
        BY LenProperties DEF IInv, TypeOK
      <4>. QED
        BY <1>1, <3>3, <3>4, <4>1 DEF old
    <3>11. Moves(r, 0, 0, 0, 1)
      BY <1>1, <3>9, <3>10 DEF Moves
    <3>. QED
      BY <3>4, <3>7, <3>8, <3>11, CountedMoves
  <2>. QED
    BY <2>1, <2>2 DEF CallerCancelled
<1>6. Exclusive(req', idle', conn') /\ Kept(req', idle', conn', closing', creator' = "connect")
  <2>1. \A q \in Requests : /\ req'[q].slot = req[q].slot
                            /\ req'[q].pc = "connect" => req[q].pc = "connect"
    BY <1>3
  <2>. QED
    BY <1>1, <2>1, SlotsStay
<1>7. TypeOK'
  BY <1>1, <1>3, <1>5 DEF IInv, TypeOK
<1>8. Creating'
  BY <1>1, <1>2 DEF IInv, Creating, Open
<1>9. Draining'
  <2>1. Active' = Active
    BY <1>3 DEF Active
  <2>. QED
    BY <1>1, <2>1 DEF IInv, Draining
<1>. QED
  BY <1>4, <1>5, <1>6, <1>7, <1>8, <1>9 DEF IInv

\* The caller has its answer.
LEMMA ReturnKeeps ==
    ASSUME IInv, NEW r \in Requests, Return(r)
    PROVE  IInv'
<1>1. /\ req[r].pc = "settled" /\ req \in [Requests -> Request]
      /\ req' = [req EXCEPT ![r] = AbsentRequest]
      /\ UNCHANGED <<permits, lifecycle, failures, owned, idle, conn, database, closing, creator,
                     sw, daemon, answer>>
      /\ Accepting' = Accepting
  BY DEF Return, IInv, TypeOK, NativeUnchanged, OthersUnchanged, Accepting
<1>2. /\ req' \in [Requests -> Request] /\ \A q \in Requests \ {r} : req'[q] = req[q]
      /\ req'[r] = AbsentRequest /\ req'[r].pc = "absent" /\ req'[r].slot = NoSlot
      /\ req'[r].cancelled = FALSE /\ req'[r].cleanup = FALSE
  BY <1>1, AbsentIsRequest DEF AbsentRequest
<1>3. req[r].slot = NoSlot /\ daemon.pc # "off"
  BY <1>1 DEF IInv, Shape, Using, Creating, AbsentRequest
<1>4. \A q \in Requests : Shape(req'[q]) /\ Truthful(req'[q], Accepting', sw', failures')
  <2>1. Shape(req'[r]) /\ Truthful(req'[r], Accepting', sw', failures')
    BY <1>2, AbsentIsRequest DEF Truthful
  <2>. QED
    BY <1>1, <1>2, <2>1 DEF IInv
<1>5. Counted(req', owned', permits', daemon'.left, Accepting', idle')
  <2>1. OthersStay(req, req', r)
        /\ \A pcs \in {ActivePcs, HolderPcs, {"handed"}, {"removed"}} :
             Weight(req'[r].pc, pcs) = Weight(req[r].pc, pcs)
    BY <1>1, <1>2 DEF OthersStay, Weight, ActivePcs, HolderPcs, Using
  <2>. QED
    BY <1>1, <2>1, CountsStay
<1>6. Waiting(permits'.waiters, req')
  BY <1>1, <1>2, WaitersStay
<1>7. Exclusive(req', idle', conn') /\ Kept(req', idle', conn', closing', creator' = "connect")
  <2>1. \A q \in Requests : /\ req'[q].slot = req[q].slot
                            /\ req'[q].pc = "connect" => req[q].pc = "connect"
    BY <1>2, <1>3
  <2>. QED
    BY <1>1, <2>1, SlotsStay
<1>8. TypeOK'
  BY <1>1, <1>2 DEF IInv, TypeOK
<1>9. Creating'
  BY <1>1, <1>3 DEF IInv, Creating, Open
<1>10. Draining'
  <2>1. Active' = Active
    BY <1>1, <1>2 DEF Active
  <2>. QED
    BY <1>1, <2>1 DEF IInv, Draining
<1>. QED
  BY <1>4, <1>5, <1>6, <1>7, <1>8, <1>9, <1>10 DEF IInv

-----------------------------------------------------------------------------
(* The daemon.                                                              *)

\* What the daemon does to all of them.
LEMMA DrainStartIs ==
    ASSUME IInv, DrainStart
    PROVE  /\ req' \in [Requests -> Request]
           /\ \A q \in Requests :
                /\ req'[q].caller = req[q].caller /\ req'[q].slot = req[q].slot
                /\ req'[q].outcome = req[q].outcome /\ req'[q].cleanup = req[q].cleanup
                /\ req'[q].ran = req[q].ran
                /\ req[q].cancelled => req'[q].cancelled
                /\ req[q].pc = "waiting" => req'[q].pc = "removed" /\ req'[q].cancelled
                /\ req[q].pc # "waiting" => req'[q].pc = req[q].pc
<1>0. req \in [Requests -> Request] /\ req' = Cancelled(Active)
  BY DEF DrainStart, IInv, TypeOK
<1>1. \A q \in Requests : req'[q] = IF q \in Active
          THEN [req[q] EXCEPT !.cancelled = TRUE, !.pc = IF @ = "waiting" THEN "removed" ELSE @]
          ELSE req[q]
  BY <1>0 DEF Cancelled
<1>2. ASSUME NEW q \in Requests
      PROVE  /\ req'[q] \in Request
             /\ req'[q].caller = req[q].caller /\ req'[q].slot = req[q].slot
             /\ req'[q].outcome = req[q].outcome /\ req'[q].cleanup = req[q].cleanup
             /\ req'[q].ran = req[q].ran
             /\ req[q].cancelled => req'[q].cancelled
             /\ req[q].pc = "waiting" => req'[q].pc = "removed" /\ req'[q].cancelled
             /\ req[q].pc # "waiting" => req'[q].pc = req[q].pc
  <2>1. req[q] \in Request /\ (req[q].pc = "waiting" => q \in Active)
    BY <1>0 DEF Active
  <2>2. CASE q \in Active
    <3>1. req'[q] = [req[q] EXCEPT !.cancelled = TRUE,
                                   !.pc = IF @ = "waiting" THEN "removed" ELSE @]
      BY <1>1, <2>2
    <3>. QED
      BY <2>1, <3>1 DEF Request, ProducerPcs
  <2>3. CASE q \notin Active
    BY <1>1, <2>1, <2>3
  <2>. QED
    BY <2>2, <2>3
<1>3. req' = [q \in Requests |-> req'[q]]
  BY <1>0 DEF Cancelled
<1>. QED
  BY <1>2, <1>3

\* Everything that waited has been told to leave.
LEMMA DrainStartKeeps ==
    ASSUME IInv, DrainStart
    PROVE  IInv'
<1>1. /\ daemon.pc = "await" /\ req \in [Requests -> Request] /\ permits \in Permits
      /\ UNCHANGED <<owned, idle, conn, database, closing, creator, sw, answer>>
      /\ req' = Cancelled(Active) /\ permits' = [permits EXCEPT !.waiters = <<>>]
      /\ daemon' = [daemon EXCEPT !.pc = "join", !.joins = Active] /\ daemon \in Daemon
      /\ StartShutdown(FALSE)
  BY DEF DrainStart, IInv, TypeOK, NativeUnchanged
<1>2. /\ lifecycle' \in {"Stopping", "Stopped"} => lifecycle' = "Stopping"
      /\ lifecycle' = "Stopping" /\ ~Accepting' /\ failures' = failures
      /\ creator \in {"forked", "join", "published", "failed"} /\ database = "open"
      /\ answer = "none"
  BY <1>1, StartShutdownIs DEF IInv, TypeOK, Creating, Draining, Lifecycles
<1>3. /\ daemon' \in Daemon /\ daemon'.pc = "join" /\ daemon'.joins = Active
      /\ daemon'.left = daemon.left
  BY <1>1 DEF Daemon, Daemons, Active
<1>4. /\ permits' \in Permits /\ permits'.waiters = <<>> /\ permits'.free = permits.free
  BY <1>1, EmptySeq DEF Permits
<1>5. /\ req' \in [Requests -> Request]
      /\ \A q \in Requests :
           /\ req'[q].caller = req[q].caller /\ req'[q].slot = req[q].slot
           /\ req'[q].outcome = req[q].outcome /\ req'[q].cleanup = req[q].cleanup
           /\ req'[q].ran = req[q].ran
           /\ req[q].cancelled => req'[q].cancelled
           /\ req[q].pc = "waiting" => req'[q].pc = "removed" /\ req'[q].cancelled
           /\ req[q].pc # "waiting" => req'[q].pc = req[q].pc
  BY DrainStartIs
<1>6. \A q \in Requests : Shape(req'[q]) /\ Truthful(req'[q], Accepting', sw', failures')
  BY <1>2, <1>5 DEF IInv, Shape, Truthful, Using
<1>7. Counted(req', owned', permits', daemon'.left, Accepting', idle')
  <2>1. /\ Having(req', ActivePcs) = Having(req, ActivePcs)
        /\ Having(req', HolderPcs) = Having(req, HolderPcs)
    BY <1>5 DEF Having, ActivePcs, HolderPcs, Using
  <2>. QED
    BY <1>1, <1>2, <1>3, <1>4, <2>1 DEF IInv, Counted
<1>8. Waiting(permits'.waiters, req') /\ Len(permits'.waiters) <= QueueCapacity
  BY <1>4, EmptySeq, LimitsAssumption DEF Waiting
<1>9. Exclusive(req', idle', conn') /\ Kept(req', idle', conn', closing', creator' = "connect")
  <2>1. \A q \in Requests : /\ req'[q].slot = req[q].slot
                            /\ req'[q].pc = "connect" => req[q].pc = "connect"
    BY <1>5
  <2>. QED
    BY <1>1, <2>1, SlotsStay
<1>10. TypeOK'
  BY <1>1, <1>2, <1>3, <1>4, <1>5, <1>8 DEF IInv, TypeOK, Lifecycles
<1>11. Creating'
  BY <1>1, <1>2, <1>3 DEF IInv, Creating
<1>12. Draining'
  <2>1. Active' = Active
    BY <1>5 DEF Active
  <2>. QED
    BY <1>1, <1>2, <1>3, <2>1 DEF IInv, Draining
<1>. QED
  BY <1>6, <1>7, <1>8, <1>9, <1>10, <1>11, <1>12 DEF IInv

\* Who was active then has settled.
LEMMA DrainJoinKeeps ==
    ASSUME IInv, DrainJoin
    PROVE  IInv'
<1>1. /\ daemon.pc = "join" /\ daemon \in Daemon /\ daemon.joins \cap Active = {}
      /\ UNCHANGED <<creator, sw, lifecycle, permits, owned, req, idle, failures, answer, conn,
                     database, closing>>
      /\ daemon' = [daemon EXCEPT !.pc = "acquire", !.joins = {}]
      /\ Accepting' = Accepting
  BY DEF DrainJoin, Joined, IInv, TypeOK, NativeUnchanged, Accepting
<1>2. daemon' \in Daemon /\ daemon'.pc = "acquire" /\ daemon'.left = daemon.left
  BY <1>1 DEF Daemon, Daemons
<1>3. ~Accepting /\ lifecycle \notin {"Absent", "Stopped"}
      /\ creator \in {"forked", "join", "published", "failed"} /\ database = "open"
  BY <1>1 DEF IInv, Creating, Draining, Accepting
<1>4. TypeOK'
  BY <1>1, <1>2 DEF IInv, TypeOK
<1>5. Counted(req', owned', permits', daemon'.left, Accepting', idle')
  BY <1>1, <1>2 DEF IInv
<1>6. Creating'
  BY <1>1, <1>2, <1>3 DEF IInv, Creating
<1>7. Draining'
  <2>1. Active = {} /\ Active' = Active
    BY <1>1 DEF IInv, Draining, Active
  <2>. QED
    BY <1>1, <1>2, <1>3, <2>1 DEF IInv, Draining
<1>8. /\ Waiting(permits'.waiters, req')
      /\ \A r \in Requests : Shape(req'[r]) /\ Truthful(req'[r], Accepting', sw', failures')
      /\ Exclusive(req', idle', conn') /\ Kept(req', idle', conn', closing', creator' = "connect")
  BY <1>1 DEF IInv
<1>. QED
  BY <1>4, <1>5, <1>6, <1>7, <1>8 DEF IInv

\* The daemon has all permits and so all connections.
LEMMA DrainAcquireKeeps ==
    ASSUME IInv, DrainAcquire
    PROVE  IInv'
<1>1. /\ daemon.pc = "acquire" /\ daemon \in Daemon /\ permits \in Permits
      /\ UNCHANGED <<creator, sw, lifecycle, owned, req, conn, database, failures, answer>>
      /\ Accepting' = Accepting /\ Active' = Active
  BY DEF DrainAcquire, IInv, TypeOK, Accepting, Active
<1>2. /\ ~Accepting /\ lifecycle \notin {"Absent", "Stopped"}
      /\ creator \in {"forked", "join", "published", "failed"} /\ database = "open"
      /\ Active = {} /\ closing = <<>> /\ answer = "none"
  BY <1>1 DEF IInv, Creating, Draining, Accepting
<1>3. \A r \in Requests : Shape(req'[r]) /\ Truthful(req'[r], Accepting', sw', failures')
  BY <1>1 DEF IInv
<1>4. CASE /\ daemon.left > 0 /\ permits.free > 0
           /\ daemon' = [daemon EXCEPT !.left = @ - 1]
           /\ permits' = [permits EXCEPT !.free = @ - 1]
           /\ UNCHANGED <<idle, closing>>
  <2>1. daemon' \in Daemon /\ daemon'.pc = "acquire" /\ daemon'.left = daemon.left - 1
    BY <1>1, <1>4, LimitsAssumption DEF Daemon
  <2>2. permits' \in Permits /\ permits'.free = permits.free - 1 /\ permits'.waiters = permits.waiters
    BY <1>1, <1>4, LimitsAssumption DEF Permits
  <2>3. TypeOK'
    BY <1>1, <1>4, <2>1, <2>2 DEF IInv, TypeOK
  <2>4. Counted(req', owned', permits', daemon'.left, Accepting', idle')
    <3>. DEFINE h == Cardinality(Having(req, HolderPcs))
    <3>1. permits.free \in Int /\ daemon.left \in Int /\ permits.free + h = daemon.left
      BY <1>1, LimitsAssumption DEF IInv, Counted, Permits, Daemon
    <3>2. h \in Nat
      BY CountedFinite, FS_CardinalityType DEF IInv, Counted
    <3>. HIDE DEF h
    <3>3. permits'.free + h = daemon'.left
      BY <2>1, <2>2, <3>1, <3>2
    <3>. QED
      BY <1>1, <1>2, <3>3 DEF IInv, Counted, h
  <2>5. Waiting(permits'.waiters, req') /\ Exclusive(req', idle', conn')
        /\ Kept(req', idle', conn', closing', creator' = "connect")
    BY <1>1, <1>4, <2>2 DEF IInv
  <2>6. Creating' /\ Draining'
    BY <1>1, <1>2, <1>4, <2>1 DEF IInv, Creating, Draining
  <2>. QED
    BY <1>3, <2>3, <2>4, <2>5, <2>6 DEF IInv
<1>5. CASE /\ daemon.left = 0
           /\ daemon' = [daemon EXCEPT !.pc = "close"]
           /\ closing' = IdleSlots /\ idle' = <<>>
           /\ UNCHANGED permits
  <2>1. daemon' \in Daemon /\ daemon'.pc = "close" /\ daemon'.left = daemon.left
    BY <1>1, <1>5 DEF Daemon, Daemons
  <2>2. /\ idle' \in Seq(Slots) /\ closing' \in Seq(Slots) /\ closing' = idle /\ Len(idle') = 0
        /\ idle' = <<>>
    BY <1>5, EmptySeq DEF IInv, TypeOK, IdleSlots
  <2>3. TypeOK'
    BY <1>1, <1>5, <2>1, <2>2 DEF IInv, TypeOK
  <2>4. Counted(req', owned', permits', daemon'.left, Accepting', idle')
    BY <1>1, <1>2, <1>5, <2>1 DEF IInv, Counted
  <2>5. Waiting(permits'.waiters, req')
    BY <1>1, <1>5 DEF IInv
  <2>6. Exclusive(req', idle', conn')
    BY <1>1, <2>2 DEF IInv, Exclusive
  <2>7. Kept(req', idle', conn', closing', creator' = "connect")
    <3>1. \A i \in 1..Len(closing) : FALSE
      BY <1>2, EmptySeq
    <3>. QED
      BY <1>1, <2>2, <3>1 DEF IInv, Kept
  <2>8. Creating' /\ Draining'
    BY <1>1, <1>2, <2>1, <2>2 DEF IInv, Creating, Draining
  <2>. QED
    BY <1>3, <2>3, <2>4, <2>5, <2>6, <2>7, <2>8 DEF IInv
<1>. QED
  BY <1>4, <1>5 DEF DrainAcquire

\* While connections are being closed for good nobody holds one.
LEMMA ClosingMeans ==
    ASSUME IInv, creator = "close" \/ daemon.pc = "close"
    PROVE  /\ \A r \in Requests : req[r].slot = NoSlot
           /\ idle = <<>> /\ ~Accepting /\ answer = "none" /\ database = "open" /\ creator # "connect"
           /\ creator = "close" => daemon.pc = "off"
<1>1. creator = "close" => daemon.pc = "off"
  BY DEF IInv, Creating
<1>2. CASE daemon.pc = "close"
  <2>1. \A r \in Requests : req[r].pc \notin Using
    BY <1>2 DEF IInv, Draining, Active, Using
  <2>. QED
    BY <1>1, <1>2, <2>1 DEF IInv, Creating, Draining, Shape, Accepting
<1>3. CASE creator = "close"
  BY <1>1, <1>3 DEF IInv, Creating, Draining, AbsentRequest, Accepting
<1>. QED
  BY <1>2, <1>3

\* One connection after the other is closed, or not, and then forgotten.
LEMMA CloseSlotKeeps ==
    ASSUME IInv, CloseSlot
    PROVE  IInv'
<1>1. PICK failed \in BOOLEAN :
          /\ conn' = [conn EXCEPT ![Head(closing)] = IF failed THEN "leaked" ELSE "none"]
          /\ failures' = (failures \/ failed)
  BY DEF CloseSlot
<1>2. /\ closing # <<>> /\ closing' = Tail(closing)
      /\ UNCHANGED <<creator, sw, lifecycle, permits, owned, req, idle, database, daemon, answer>>
      /\ Accepting' = Accepting /\ Active' = Active
  BY DEF CloseSlot, Accepting, Active
<1>3. creator = "close" \/ daemon.pc = "close"
  BY <1>2 DEF IInv, Draining
<1>4. /\ \A r \in Requests : req[r].slot = NoSlot
      /\ idle = <<>> /\ ~Accepting /\ answer = "none" /\ database = "open" /\ creator # "connect"
  BY <1>3, ClosingMeans
<1>5. /\ Head(closing) \in Slots /\ Head(closing) = closing[1] /\ closing' \in Seq(Slots)
      /\ Len(closing) \in Nat \ {0} /\ Len(closing') = Len(closing) - 1
      /\ \A i \in 1..Len(closing) - 1 : closing'[i] = closing[i + 1]
  BY <1>2, TailIs DEF IInv, TypeOK
<1>6. /\ conn' \in [Slots -> ConnStates] /\ conn'[Head(closing)] \notin {"clean", "tainted"}
      /\ \A s \in Slots : s # Head(closing) => conn'[s] = conn[s]
      /\ failures' \in BOOLEAN /\ (failures => failures')
  BY <1>1, <1>5 DEF IInv, TypeOK, ConnStates
<1>7. TypeOK'
  BY <1>2, <1>5, <1>6 DEF IInv, TypeOK
<1>8. \A r \in Requests : Shape(req'[r]) /\ Truthful(req'[r], Accepting', sw', failures')
  BY <1>2, <1>6 DEF IInv, Truthful
<1>9. Counted(req', owned', permits', daemon'.left, Accepting', idle') /\ Waiting(permits'.waiters, req')
  BY <1>2 DEF IInv
<1>10. Exclusive(req', idle', conn')
  <2>1. \A r \in Requests : req[r].pc # "connect"
    BY <1>4 DEF IInv, Shape, Using
  <2>. QED
    BY <1>2, <2>1 DEF IInv, Exclusive
<1>11. Kept(req', idle', conn', closing', creator' = "connect")
  <2>1. ASSUME NEW s \in Slots, conn'[s] \in {"clean", "tainted"}
        PROVE  \E i \in 1..Len(closing') : closing'[i] = s
    <3>1. s # closing[1] /\ conn[s] \in {"clean", "tainted"} /\ s # NoSlot
      BY <1>5, <1>6, <2>1, NoSlotAssumption
    <3>2. ~\E i \in 1..Len(idle) : idle[i] = s
      BY <1>4, EmptySeq
    <3>3. PICK i \in 1..Len(closing) : closing[i] = s
      BY <1>4, <3>1, <3>2 DEF IInv, Kept
    <3>4. i # 1
      BY <3>1, <3>3
    <3>5. i - 1 \in 1..Len(closing') /\ (i - 1) + 1 = i /\ i - 1 \in 1..Len(closing) - 1
      BY <1>5, <3>4
    <3>6. closing'[i - 1] = s
      BY <1>5, <3>3, <3>5
    <3>. QED
      BY <3>5, <3>6
  <2>. QED
    BY <2>1 DEF Kept
<1>12. Creating'
  BY <1>2, <1>3, <1>4 DEF IInv, Creating
<1>13. Draining'
  BY <1>2, <1>3, <1>4 DEF IInv, Draining
<1>. QED
  BY <1>7, <1>8, <1>9, <1>10, <1>11, <1>12, <1>13 DEF IInv

\* The database goes last, and who shuts the pool down is told of every failure.
LEMMA CloseDatabaseKeeps ==
    ASSUME IInv, CloseDatabase
    PROVE  IInv'
<1>1. PICK failed \in BOOLEAN :
          /\ database' = IF failed THEN "leaked" ELSE "closed"
          /\ failures' = (failures \/ failed)
          /\ \/ /\ creator = "close"
                /\ creator' = "failed"
                /\ UNCHANGED <<lifecycle, daemon, answer>>
             \/ /\ daemon.pc = "close"
                /\ daemon' = [daemon EXCEPT !.pc = "done"]
                /\ lifecycle' = "Stopped"
                /\ answer' = IF failures \/ failed THEN "Error" ELSE "Ok"
                /\ UNCHANGED creator
  BY DEF CloseDatabase
<1>2. /\ closing = <<>> /\ UNCHANGED <<sw, permits, owned, req, idle, conn, closing>>
      /\ Active' = Active
  BY DEF CloseDatabase, Active
<1>3. /\ \A r \in Requests : req[r].slot = NoSlot
      /\ idle = <<>> /\ ~Accepting /\ answer = "none" /\ database = "open" /\ creator # "connect"
      /\ creator = "close" => daemon.pc = "off"
  BY <1>1, ClosingMeans
<1>4. \A s \in Slots : conn[s] \notin {"clean", "tainted"}
  <2>1. (\A i \in 1..Len(closing) : FALSE) /\ (\A i \in 1..Len(idle) : FALSE)
    BY <1>2, <1>3, EmptySeq
  <2>2. \A s \in Slots : s # NoSlot
    BY NoSlotAssumption
  <2>. QED
    BY <1>3, <2>1, <2>2 DEF IInv, Kept
<1>5. /\ database' \in {"leaked", "closed"} /\ failures' \in BOOLEAN /\ (failures => failures')
      /\ \A s \in Slots : conn'[s] \notin {"clean", "tainted"}
  BY <1>1, <1>2, <1>4 DEF IInv, TypeOK
<1>6. /\ \A r \in Requests : Shape(req'[r])
      /\ Waiting(permits'.waiters, req') /\ Exclusive(req', idle', conn')
      /\ Kept(req', idle', conn', closing', creator' = "connect")
  BY <1>2, <1>5 DEF IInv, Kept
<1>7. CASE /\ creator = "close"
           /\ creator' = "failed"
           /\ UNCHANGED <<lifecycle, daemon, answer>>
  <2>1. Accepting' = Accepting /\ daemon.pc = "off"
    BY <1>3, <1>7 DEF Accepting
  <2>2. TypeOK'
    BY <1>2, <1>5, <1>7 DEF IInv, TypeOK, Creators
  <2>3. \A r \in Requests : Truthful(req'[r], Accepting', sw', failures')
    BY <1>2, <1>5, <2>1 DEF IInv, Truthful
  <2>4. Counted(req', owned', permits', daemon'.left, Accepting', idle')
    BY <1>2, <1>7, <2>1 DEF IInv
  <2>5. Creating'
    BY <1>2, <1>3, <1>5, <1>7, <2>1 DEF IInv, Creating, Open
  <2>6. Draining'
    BY <1>2, <1>3, <1>5, <1>7, <2>1 DEF IInv, Draining
  <2>. QED
    BY <1>6, <2>2, <2>3, <2>4, <2>5, <2>6 DEF IInv
<1>8. CASE /\ daemon.pc = "close"
           /\ daemon' = [daemon EXCEPT !.pc = "done"]
           /\ lifecycle' = "Stopped"
           /\ answer' = IF failures \/ failed THEN "Error" ELSE "Ok"
           /\ UNCHANGED creator
  <2>1. daemon' \in Daemon /\ daemon'.pc = "done" /\ daemon'.left = daemon.left
    BY <1>8 DEF IInv, TypeOK, Daemon, Daemons
  <2>2. ~Accepting' /\ creator \in {"forked", "join", "published", "failed"}
    BY <1>8 DEF Accepting, IInv, Creating
  <2>3. answer' \in {"Ok", "Error"} /\ (answer' = "Ok" => ~failures')
    BY <1>1, <1>8
  <2>4. TypeOK'
    BY <1>2, <1>5, <1>8, <2>1, <2>3 DEF IInv, TypeOK, Lifecycles
  <2>5. \A r \in Requests : Truthful(req'[r], Accepting', sw', failures')
    BY <1>2, <1>5, <2>2 DEF IInv, Truthful
  <2>6. Counted(req', owned', permits', daemon'.left, Accepting', idle')
    BY <1>2, <2>1, <2>2 DEF IInv, Counted
  <2>7. Creating'
    BY <1>2, <1>5, <1>8, <2>1, <2>2 DEF Creating, Open
  <2>8. Draining'
    BY <1>2, <1>3, <1>5, <1>8, <2>1, <2>2, <2>3 DEF IInv, Draining
  <2>. QED
    BY <1>6, <2>4, <2>5, <2>6, <2>7, <2>8 DEF IInv
<1>. QED
  BY <1>1, <1>7, <1>8

-----------------------------------------------------------------------------
(* create, and the switch.                                                  *)

\* A step of create once the daemon is there, of the switch or of whoever shuts down.
LifecycleSteps ==
    /\ UNCHANGED <<permits, owned, req, idle, conn, database, closing, daemon, answer, failures>>
    /\ lifecycle' = lifecycle \/ (lifecycle = "Accepting" /\ lifecycle' = "Stopping")
    /\ sw' \in {sw, "failed"}
    /\ \/ creator' = creator
       \/ /\ creator \in {"forked", "join"} /\ creator' \in {"join", "published", "failed"}
          /\ creator' = "failed" => answer # "none"

\* Stopping the pool takes nothing from anybody.
LEMMA LifecycleKeeps ==
    ASSUME IInv, LifecycleSteps
    PROVE  IInv'
<1>1. /\ UNCHANGED <<permits, owned, req, idle, conn, database, closing, daemon, answer, failures>>
      /\ lifecycle' = lifecycle \/ (lifecycle = "Accepting" /\ lifecycle' = "Stopping")
      /\ Accepting' => Accepting
      /\ sw' \in {"on", "failed"} /\ (sw = "failed" => sw' = "failed")
      /\ Active' = Active
  BY DEF LifecycleSteps, IInv, TypeOK, Accepting, Active
<1>2. /\ creator' \in Creators
      /\ creator' = "connect" <=> creator = "connect"
      /\ creator' = "close" <=> creator = "close"
      /\ creator' = "open" <=> creator = "open"
      /\ daemon.pc = "off" => creator' = creator
      /\ creator \in {"forked", "join", "published", "failed"} =>
            creator' \in {"forked", "join", "published", "failed"}
      /\ creator' = "failed" => database # "open"
  BY DEF LifecycleSteps, IInv, TypeOK, Creators, Creating, Draining
<1>3. TypeOK'
  BY <1>1, <1>2 DEF IInv, TypeOK, Lifecycles
<1>4. \A r \in Requests : Shape(req'[r]) /\ Truthful(req'[r], Accepting', sw', failures')
  BY <1>1 DEF IInv, Truthful
<1>5. Counted(req', owned', permits', daemon'.left, Accepting', idle')
  BY <1>1 DEF IInv, Counted
<1>6. /\ Waiting(permits'.waiters, req') /\ Exclusive(req', idle', conn')
      /\ Kept(req', idle', conn', closing', creator' = "connect")
  BY <1>1, <1>2 DEF IInv, Kept
<1>7. Creating'
  BY <1>1, <1>2 DEF IInv, Creating, Open
<1>8. Draining'
  BY <1>1, <1>2 DEF IInv, Draining, Accepting
<1>. QED
  BY <1>3, <1>4, <1>5, <1>6, <1>7, <1>8 DEF IInv

\* Before the pool is there nothing is shared.
LEMMA CreateOpenKeeps ==
    ASSUME IInv, CreateOpen
    PROVE  IInv'
<1>1. /\ creator = "open" /\ UNCHANGED <<sw, lifecycle, idle, conn, closing, permits, owned, req,
                                          daemon, answer>>
      /\ Accepting' = Accepting /\ Active' = Active
      /\ creator' \in {"connect", "failed"} /\ failures' \in BOOLEAN /\ (failures => failures')
      /\ creator' = "connect" => database' = "open"
      /\ creator' = "failed" => database' = "none"
  BY DEF CreateOpen, PoolUnchanged, Accepting, Active, IInv, TypeOK
<1>2. /\ \A s \in Slots : conn[s] = "none"
      /\ daemon.pc = "off" /\ closing = <<>> /\ answer = "none" /\ lifecycle = "Absent"
  BY <1>1 DEF IInv, TypeOK, Creating, Draining
<1>3. TypeOK'
  BY <1>1 DEF IInv, TypeOK, Creators
<1>4. \A r \in Requests : Shape(req'[r]) /\ Truthful(req'[r], Accepting', sw', failures')
  BY <1>1 DEF IInv, Truthful
<1>5. /\ Counted(req', owned', permits', daemon'.left, Accepting', idle')
      /\ Waiting(permits'.waiters, req') /\ Exclusive(req', idle', conn')
  BY <1>1 DEF IInv
<1>6. Kept(req', idle', conn', closing', creator' = "connect")
  BY <1>1, <1>2 DEF Kept
<1>7. Creating'
  <2>1. creator' = "connect" => \E k \in 0..Connections : \A s \in Slots :
                                    conn'[s] = IF s <= k THEN "clean" ELSE "none"
    <3>1. 0 \in 0..Connections /\ \A s \in Slots : ~(s <= 0)
      BY LimitsAssumption DEF Slots
    <3>. QED
      BY <1>1, <1>2, <3>1
  <2>2. \A s \in Slots : ~Open(s)'
    BY <1>1, <1>2 DEF Open
  <2>. QED
    BY <1>1, <1>2, <2>1, <2>2 DEF IInv, Creating
<1>8. Draining'
  BY <1>1, <1>2 DEF IInv, Draining
<1>. QED
  BY <1>3, <1>4, <1>5, <1>6, <1>7, <1>8 DEF IInv

\* The slots that are filled are the first ones, so their number names the next.
LEMMA AcquiredAre ==
    ASSUME NEW k \in 0..Connections,
           \A s \in Slots : conn[s] = IF s <= k THEN "clean" ELSE "none"
    PROVE  {s \in Slots : conn[s] # "none"} = 1..k /\ Cardinality(1..k) = k
<1>1. k \in Nat /\ k <= Connections /\ Connections \in Nat
  BY LimitsAssumption
<1>2. {s \in Slots : conn[s] # "none"} = 1..k
  BY <1>1 DEF Slots
<1>3. Cardinality(1..k) = IF 1 > k THEN 0 ELSE k - 1 + 1
  BY <1>1, FS_Interval
<1>. QED
  BY <1>1, <1>2, <1>3

\* A list of slots in order, and backwards.
LEMMA SlotsInOrder ==
    ASSUME NEW k \in 0..Connections
    PROVE  /\ [i \in 1..k |-> i] \in Seq(Slots) /\ Len([i \in 1..k |-> i]) = k
           /\ [i \in 1..k |-> k + 1 - i] \in Seq(Slots) /\ Len([i \in 1..k |-> k + 1 - i]) = k
<1>1. k \in Nat /\ Connections \in Nat /\ k <= Connections
  BY LimitsAssumption
<1>2. /\ \A i \in 1..k : i \in Slots
      /\ \A i \in 1..k : k + 1 - i \in Slots
  BY <1>1 DEF Slots
<1>3. [i \in 1..k |-> i] \in Seq(Slots) /\ [i \in 1..k |-> k + 1 - i] \in Seq(Slots)
  BY <1>1, <1>2, IsASeq
<1>4. DOMAIN [i \in 1..k |-> i] = 1..k /\ DOMAIN [i \in 1..k |-> k + 1 - i] = 1..k
  OBVIOUS
<1>5. \A s \in Seq(Slots) : Len(s) \in Nat /\ DOMAIN s = 1..Len(s)
  BY LenProperties
<1>6. \A n \in Nat : 1..n = 1..k => n = k
  BY <1>1
<1>. QED
  BY <1>3, <1>4, <1>5, <1>6

\* Either everything that was acquired goes to the pool or it is closed.
LEMMA CreateConnectKeeps ==
    ASSUME IInv, CreateConnect
    PROVE  IInv'
<1>1. /\ creator = "connect" /\ UNCHANGED <<sw, permits, owned, req, database, answer>>
      /\ Active' = Active
  BY DEF CreateConnect, Active
<1>2. PICK k \in 0..Connections : \A s \in Slots : conn[s] = IF s <= k THEN "clean" ELSE "none"
  BY <1>1 DEF IInv, Creating
<1>3. /\ daemon.pc = "off" /\ closing = <<>> /\ answer = "none" /\ lifecycle = "Absent"
      /\ idle = <<>> /\ database = "open" /\ ~Accepting /\ daemon.left = Connections
      /\ daemon \in Daemon /\ \A r \in Requests : req[r] = AbsentRequest
  BY <1>1 DEF IInv, TypeOK, Creating, Draining, Accepting
<1>4. {s \in Slots : conn[s] # "none"} = 1..k /\ Cardinality({s \in Slots : conn[s] # "none"}) = k
  BY <1>2, AcquiredAre
<1>5. k \in Nat /\ k <= Connections /\ Connections \in Nat /\ (k + 1) - 1 = k
  BY LimitsAssumption
<1>. DEFINE newest == [i \in 1..k |-> k + 1 - i]
            oldest == [i \in 1..k |-> i]
<1>6. newest \in Seq(Slots) /\ Len(newest) = k /\ oldest \in Seq(Slots) /\ Len(oldest) = k
  BY SlotsInOrder
<1>7. \/ /\ k + 1 <= Connections
         /\ conn' = [conn EXCEPT ![k + 1] = "clean"]
         /\ UNCHANGED <<creator, closing, failures, lifecycle, idle, daemon>>
      \/ /\ creator' = "close" /\ closing' = newest /\ failures' = TRUE
         /\ UNCHANGED <<lifecycle, idle, daemon, conn>>
      \/ /\ k = Connections
         /\ creator' = "forked" /\ lifecycle' = "Accepting" /\ idle' = oldest
         /\ daemon' = [daemon EXCEPT !.pc = "await"]
         /\ UNCHANGED <<closing, failures, conn>>
  <2>. DEFINE acquired == {s \in Slots : conn[s] # "none"}
              next == Cardinality(acquired) + 1
  <2>1. next = k + 1 /\ next - 1 = k
    BY <1>4, <1>5
  <2>2. \/ /\ next <= Connections
           /\ conn' = [conn EXCEPT ![next] = "clean"]
           /\ UNCHANGED <<creator, closing, failures, lifecycle, idle, daemon>>
        \/ /\ creator' = "close" /\ closing' = [i \in 1..next - 1 |-> next - i] /\ failures' = TRUE
           /\ UNCHANGED <<lifecycle, idle, daemon, conn>>
        \/ /\ ~(next <= Connections)
           /\ creator' = "forked" /\ lifecycle' = "Accepting" /\ idle' = [i \in 1..next - 1 |-> i]
           /\ daemon' = [daemon EXCEPT !.pc = "await"]
           /\ UNCHANGED <<closing, failures, conn>>
    BY DEF CreateConnect
  <2>. HIDE DEF next
  <2>. QED
    BY <1>5, <2>1, <2>2
<1>8. \A r \in Requests : /\ req'[r] = req[r] /\ Shape(req[r]) /\ req[r].slot = NoSlot
                          /\ req[r].cancelled = FALSE /\ req[r].cleanup = FALSE
                          /\ req[r].pc = "absent"
  BY <1>1, <1>3, AbsentIsRequest DEF AbsentRequest
<1>9. \A r \in Requests : Shape(req'[r]) /\ Truthful(req'[r], Accepting', sw', failures')
  BY <1>8 DEF Truthful
<1>10. Waiting(permits'.waiters, req')
  BY <1>1 DEF IInv
<1>11. Active = {}
  BY <1>8 DEF Active
<1>12. CASE /\ k + 1 <= Connections
            /\ conn' = [conn EXCEPT ![k + 1] = "clean"]
            /\ UNCHANGED <<creator, closing, failures, lifecycle, idle, daemon>>
  <2>1. /\ k + 1 \in Slots /\ conn' \in [Slots -> ConnStates] /\ k + 1 \in 0..Connections
        /\ \A s \in Slots : conn'[s] = IF s <= k + 1 THEN "clean" ELSE "none"
    BY <1>2, <1>5, <1>12 DEF IInv, TypeOK, ConnStates, Slots
  <2>2. TypeOK' /\ Accepting' = Accepting
    BY <1>1, <1>12, <2>1 DEF IInv, TypeOK, Accepting
  <2>3. Counted(req', owned', permits', daemon'.left, Accepting', idle')
    BY <1>1, <1>12, <2>2 DEF IInv
  <2>4. Exclusive(req', idle', conn')
    BY <1>1, <1>8, <1>12 DEF IInv, Exclusive
  <2>5. Kept(req', idle', conn', closing', creator' = "connect")
    BY <1>1, <1>12 DEF Kept
  <2>6. Creating' /\ Draining'
    BY <1>1, <1>3, <1>8, <1>12, <2>1, <2>2 DEF IInv, Creating, Draining
  <2>. QED
    BY <1>9, <1>10, <2>2, <2>3, <2>4, <2>5, <2>6 DEF IInv
<1>13. CASE /\ creator' = "close" /\ closing' = newest /\ failures' = TRUE
            /\ UNCHANGED <<lifecycle, idle, daemon, conn>>
  <2>1. TypeOK' /\ Accepting' = Accepting
    BY <1>1, <1>6, <1>13 DEF IInv, TypeOK, Accepting, Creators
  <2>2. Counted(req', owned', permits', daemon'.left, Accepting', idle') /\ Exclusive(req', idle', conn')
    BY <1>1, <1>13, <2>1 DEF IInv
  <2>3. Kept(req', idle', conn', closing', creator' = "connect")
    <3>1. ASSUME NEW s \in Slots, conn[s] # "none"
          PROVE  \E i \in 1..Len(closing') : closing'[i] = s
      <4>1. s \in 1..k
        BY <1>4, <3>1
      <4>2. k + 1 - s \in 1..k /\ newest[k + 1 - s] = s
        BY <1>5, <4>1
      <4>. QED
        BY <1>6, <1>13, <4>2
    <3>. QED
      BY <1>13, <3>1 DEF Kept
  <2>4. Creating' /\ Draining'
    BY <1>1, <1>3, <1>8, <1>13, <2>1 DEF IInv, Creating, Draining
  <2>. QED
    BY <1>9, <1>10, <2>1, <2>2, <2>3, <2>4 DEF IInv
<1>14. CASE /\ k = Connections
            /\ creator' = "forked" /\ lifecycle' = "Accepting" /\ idle' = oldest
            /\ daemon' = [daemon EXCEPT !.pc = "await"]
            /\ UNCHANGED <<closing, failures, conn>>
  <2>1. daemon' \in Daemon /\ daemon'.pc = "await" /\ daemon'.left = Connections /\ Accepting'
    BY <1>3, <1>14 DEF Daemon, Daemons, Accepting
  <2>2. TypeOK'
    BY <1>1, <1>6, <1>14, <2>1 DEF IInv, TypeOK, Creators, Lifecycles
  <2>3. Counted(req', owned', permits', daemon'.left, Accepting', idle')
    <3>1. /\ Having(req, ActivePcs) = {} /\ Having(req, HolderPcs) = {}
          /\ Having(req, {"handed"}) = {} /\ Having(req, {"removed"}) = {}
      BY <1>8 DEF Having, ActivePcs, HolderPcs, Using
    <3>2. Cardinality({}) = 0 /\ IsFiniteSet({})
      BY FS_EmptySet
    <3>3. permits.waiters = <<>>
      <4>1. permits.waiters \in Seq(Requests)
        BY DEF IInv, TypeOK, Permits
      <4>2. \A i \in 1..Len(permits.waiters) : FALSE
        BY <1>8, <4>1, ElementOfSeq DEF IInv, Waiting
      <4>3. permits.waiters # <<>> => 1 \in 1..Len(permits.waiters)
        BY <4>1, EmptySeq
      <4>. QED
        BY <4>2, <4>3
    <3>4. permits.free = Connections /\ owned = 0
      BY <1>3, <1>5, <3>1, <3>2 DEF IInv, Counted, TypeOK, Permits
    <3>5. Len(idle') = Connections /\ Len(permits'.waiters) = 0
      BY <1>1, <1>6, <1>14, <3>3, EmptySeq
    <3>6. permits'.free = Connections /\ owned' = 0 /\ req' = req
      BY <1>1, <3>4
    <3>7. /\ Cardinality(Having(req', ActivePcs)) = 0 /\ Cardinality(Having(req', HolderPcs)) = 0
          /\ Cardinality(Having(req', {"handed"})) = 0 /\ Cardinality(Having(req', {"removed"})) = 0
          /\ IsFiniteSet(Having(req', ActivePcs))
      BY <3>1, <3>2, <3>6
    <3>8. Connections + 0 = Connections /\ 0 = 0 + 0 + 0
      BY <1>5
    <3>9. daemon'.left = Connections
      BY <2>1
    <3>. QED
      BY <3>5, <3>6, <3>7, <3>8, <3>9 DEF Counted
  <2>4. Exclusive(req', idle', conn')
    <3>1. \A i \in 1..Len(idle') : idle'[i] = i /\ idle'[i] \in Slots
      BY <1>6, <1>14, ElementOfSeq
    <3>. QED
      BY <1>8, <3>1, NoSlotAssumption DEF Exclusive
  <2>5. Kept(req', idle', conn', closing', creator' = "connect")
    <3>1. \A s \in Slots : s \in 1..Len(idle') /\ idle'[s] = s
      BY <1>6, <1>14 DEF Slots
    <3>. QED
      BY <3>1 DEF Kept
  <2>6. Creating' /\ Draining'
    BY <1>1, <1>3, <1>14, <2>1 DEF IInv, Creating, Draining
  <2>. QED
    BY <1>9, <1>10, <2>2, <2>3, <2>4, <2>5, <2>6 DEF IInv
<1>. QED
  BY <1>7, <1>12, <1>13, <1>14

-----------------------------------------------------------------------------
(* The theorems.                                                            *)

\* Nothing is there, and every permit is free.
LEMMA InitEstablishes == Init => IInv
<1>. SUFFICES ASSUME Init PROVE IInv
  OBVIOUS
<1>1. /\ creator = "open" /\ sw = "on" /\ lifecycle = "Absent" /\ owned = 0 /\ idle = <<>>
      /\ permits = [free |-> Connections, waiters |-> <<>>]
      /\ req = [r \in Requests |-> AbsentRequest] /\ conn = [s \in Slots |-> "none"]
      /\ database = "none" /\ failures = FALSE /\ closing = <<>> /\ answer = "none"
      /\ daemon = [pc |-> "off", joins |-> {}, left |-> Connections]
  BY DEF Init
<1>2. <<>> \in Seq(Slots) /\ <<>> \in Seq(Requests) /\ Len(<<>>) = 0
  BY EmptySeq
<1>3. /\ permits \in Permits /\ permits.free = Connections /\ permits.waiters = <<>>
      /\ daemon \in Daemon /\ daemon.pc = "off" /\ daemon.left = Connections
  BY <1>1, <1>2, LimitsAssumption DEF Permits, Daemon, Daemons
<1>4. req \in [Requests -> Request] /\ \A r \in Requests : req[r] = AbsentRequest
  BY <1>1, AbsentIsRequest
<1>5. TypeOK
  <2>1. Len(permits.waiters) <= QueueCapacity /\ owned \in Nat
    BY <1>1, <1>2, <1>3, LimitsAssumption
  <2>2. conn \in [Slots -> ConnStates] /\ idle \in Seq(Slots) /\ closing \in Seq(Slots)
    BY <1>1, <1>2 DEF ConnStates
  <2>3. creator \in Creators /\ lifecycle \in Lifecycles
    BY <1>1 DEF Creators, Lifecycles
  <2>4. sw \in {"on", "failed"} /\ database \in {"none", "open", "closed", "leaked"}
        /\ failures \in BOOLEAN /\ answer \in {"none", "Ok", "Error"}
    BY <1>1
  <2>. QED
    BY <1>3, <1>4, <2>1, <2>2, <2>3, <2>4 DEF TypeOK
<1>6. \A r \in Requests : /\ req[r].slot = NoSlot /\ req[r].cancelled = FALSE
                          /\ req[r].cleanup = FALSE /\ req[r].pc = "absent"
  BY <1>4 DEF AbsentRequest
<1>7. \A r \in Requests : Shape(req[r]) /\ Truthful(req[r], Accepting, sw, failures)
  BY <1>4, <1>6, AbsentIsRequest DEF Truthful
<1>8. Counted(req, owned, permits, daemon.left, Accepting, idle)
  <2>1. Having(req, ActivePcs) = {} /\ Having(req, HolderPcs) = {}
    BY <1>6 DEF Having, ActivePcs, HolderPcs, Using
  <2>2. Cardinality({}) = 0 /\ IsFiniteSet({})
    BY FS_EmptySet
  <2>3. owned = 0 /\ ~Accepting /\ permits.free = Connections /\ daemon.left = Connections
    BY <1>1, <1>3 DEF Accepting
  <2>4. Connections + 0 = Connections
    BY LimitsAssumption
  <2>. QED
    BY <2>1, <2>2, <2>3, <2>4 DEF Counted
<1>9. Waiting(permits.waiters, req) /\ Exclusive(req, idle, conn)
  BY <1>1, <1>2, <1>3, <1>6 DEF Waiting, Exclusive
<1>10. Kept(req, idle, conn, closing, creator = "connect")
  BY <1>1 DEF Kept
<1>11. Creating /\ Draining
  BY <1>1, <1>3, <1>4 DEF Creating, Draining, Open, Accepting
<1>. QED
  BY <1>5, <1>7, <1>8, <1>9, <1>10, <1>11 DEF IInv

\* Every step keeps the invariant.
LEMMA NextKeeps == IInv /\ [Next]_vars => IInv'
<1>. SUFFICES ASSUME IInv, [Next]_vars PROVE IInv'
  OBVIOUS
<1>1. CASE Create
  <2>1. CASE CreateOpen
    BY <2>1, CreateOpenKeeps
  <2>2. CASE CreateConnect
    BY <2>2, CreateConnectKeeps
  <2>3. CASE CreatePublish
    <3>1. LifecycleSteps
      BY <2>3 DEF CreatePublish, PoolUnchanged, StartShutdown, LifecycleSteps, Accepting, IInv,
         TypeOK
    <3>. QED
      BY <3>1, LifecycleKeeps
  <2>4. CASE CreateJoin
    <3>1. LifecycleSteps
      BY <2>4 DEF CreateJoin, PoolUnchanged, LifecycleSteps
    <3>. QED
      BY <3>1, LifecycleKeeps
  <2>. QED
    BY <1>1, <2>1, <2>2, <2>3, <2>4 DEF Create
<1>2. CASE SwitchFails
  <2>1. LifecycleSteps
    BY <1>2 DEF SwitchFails, PoolUnchanged, LifecycleSteps
  <2>. QED
    BY <2>1, LifecycleKeeps
<1>3. CASE Shutdown
  <2>1. LifecycleSteps
    BY <1>3 DEF Shutdown, NativeUnchanged, OthersUnchanged, StartShutdown, LifecycleSteps,
       Accepting,
       IInv, TypeOK
  <2>. QED
    BY <2>1, LifecycleKeeps
<1>4. CASE Drain
  BY <1>4, DrainStartKeeps, DrainJoinKeeps, DrainAcquireKeeps, CloseSlotKeeps, CloseDatabaseKeeps
     DEF Drain
<1>5. ASSUME NEW r \in Requests,
             \/ \E reuse \in BOOLEAN : Submit(r, reuse)
             \/ CallerCancelled(r)
             \/ Continue(r)
      PROVE  IInv'
  <2>1. Outcomes \ {"none", "Rejected"} = {"Ok", "Failed"}
    BY DEF Outcomes
  <2>. QED
    BY <1>5, <2>1, SubmitKeeps, CallerCancelledKeeps, ResumeKeeps, RemovedKeeps, WorkReturnsKeeps,
       CloseReturnsKeeps, ConnectReturnsKeeps, RecloseReturnsKeeps, ReturnKeeps DEF Continue
<1>6. CASE UNCHANGED vars
  BY <1>6 DEF vars, IInv, TypeOK, Accepting, Creating, Draining, Open, Active
<1>. QED
  BY <1>1, <1>2, <1>3, <1>4, <1>5, <1>6 DEF Next

\* The invariant holds in every state of the pool.
LEMMA IInvAlways == Spec => []IInv
<1>. QED
  BY InitEstablishes, NextKeeps, PTL DEF Spec

\* Every field has its type, and limits.queue_capacity is never exceeded.
THEOREM TypeCorrect == Spec => []TypeOK
<1>1. IInv => TypeOK
  BY DEF IInv
<1>. QED
  BY <1>1, IInvAlways, PTL

\* The Option.value_exn of a lease never raises, no permit is lost or made up, and [owned]
\* counts the requests that are alive.
THEOREM PermitsMatchSlots == Spec => []PermitsAndSlots
<1>1. IInv => PermitsAndSlots
  BY SetsAre DEF IInv, TypeOK, Counted, PermitsAndSlots
<1>. QED
  BY <1>1, IInvAlways, PTL

\* What submit and shutdown answer is true.
THEOREM AnswersAreHonest == Spec => []HonestAnswer
<1>1. IInv => HonestAnswer
  <2>. SUFFICES ASSUME IInv PROVE HonestAnswer
    OBVIOUS
  <2>1. (\E r \in Requests : req[r].cleanup) => failures
    BY DEF IInv, Truthful
  <2>2. failures => answer # "Ok"
    BY DEF IInv, Draining
  <2>3. ASSUME NEW r \in Requests, req[r].pc = "settled"
        PROVE  /\ Answer(r) = "Pool_shutdown" => ~req[r].ran /\ (~Accepting \/ sw = "failed")
               /\ Answer(r) = "Ok" => req[r].ran
               /\ req[r].cleanup => Answer(r) \in {"Lifecycle", "Cancelled_with_failures"}
    <3>1. /\ Shape(req[r]) /\ Truthful(req[r], Accepting, sw, failures)
          /\ req[r].cleanup \in BOOLEAN /\ req[r].outcome \in Outcomes
      BY DEF IInv, TypeOK, Request
    <3>. QED
      BY <2>3, <3>1 DEF Shape, Truthful, Answer, Outcomes
  <2>. QED
    BY <2>1, <2>2, <2>3 DEF HonestAnswer
<1>. QED
  BY <1>1, IInvAlways, PTL

\* No connection is open that nobody will close, and the database goes last.
THEOREM ConnectionsAreKept == Spec => []NothingLeaks
<1>1. IInv => NothingLeaks
  <2>. SUFFICES ASSUME IInv PROVE NothingLeaks
    OBVIOUS
  <2>1. ASSUME NEW s \in Slots, Open(s)
        PROVE  \/ creator = "connect"
               \/ Contains(idle, s) \/ Contains(closing, s)
               \/ \E r \in Active : req[r].slot = s
    <3>1. \/ creator = "connect"
          \/ \E i \in 1..Len(idle) : idle[i] = s
          \/ \E i \in 1..Len(closing) : closing[i] = s
          \/ \E r \in Requests : req[r].slot = s
      BY <2>1 DEF IInv, Kept, Open
    <3>2. ASSUME NEW r \in Requests, req[r].slot = s
          PROVE  r \in Active
      <4>1. req[r].pc \in Using
        BY <3>2, NoSlotAssumption DEF IInv, Shape
      <4>. QED
        BY <4>1 DEF Active, Using
    <3>. QED
      BY <3>1, <3>2 DEF Contains
  <2>2. /\ database \in {"none", "closed", "leaked"} => ~\E s \in Slots : Open(s)
        /\ creator = "failed" => database # "open"
    BY DEF IInv, Creating
  <2>. QED
    BY <2>1, <2>2 DEF NothingLeaks
<1>. QED
  BY <1>1, IInvAlways, PTL

-----------------------------------------------------------------------------
(* The pool keeps the contract of Pool.                                     *)

\* What an abstract step needs of connections: those that are idle, and those that
\* requests work on, are fit.
Fit(rq, queue, cn) ==
    /\ \A i \in 1..Len(queue) : cn[queue[i]] = "clean"
    /\ \A r \in Requests : rq[r].pc = "work" => cn[rq[r].slot] = "clean"

\* The request does not move, except that it is woken or cancelled.
Steady(q) ==
    /\ req'[q].slot = req[q].slot /\ req'[q].outcome = req[q].outcome
    /\ req'[q].cleanup = req[q].cleanup
    /\ \/ req'[q].pc = req[q].pc
       \/ req[q].pc = "waiting" /\ req'[q].pc \in {"handed", "removed"}
    /\ req[q].cancelled /\ req[q].pc \in {"waiting", "handed", "removed"} => req'[q].cancelled
    /\ req'[q].pc # "absent" /\ Accepting' => Accepting

\* Such a request keeps its stage, or is withdrawn before it began.
LEMMA SteadyStep ==
    ASSUME IInv, TypeOK', NEW q \in Requests, Steady(q)
    PROVE  P!RequestStep(q)
<1>1. /\ req[q] \in Request /\ req'[q] \in Request /\ lifecycle \in Lifecycles
      /\ lifecycle' \in Lifecycles
  BY DEF IInv, TypeOK
<1>2. PoolStage(q)' \in {"accepted", "withdrawn"} => PoolPhase' = "open" \/ PoolStage(q)' = "withdrawn"
  BY <1>1 DEF PoolPhase, PoolStage, Accepting, MayLease, Lifecycles
<1>3. \/ PoolStage(q)' = PoolStage(q)
      \/ PoolStage(q) = "accepted" /\ PoolStage(q)' = "withdrawn"
  BY <1>1 DEF PoolStage, MayLease, Steady, Request, ProducerPcs
<1>4. PoolStage(q)' = PoolStage(q) =>
        (req'[q].pc = "settled" <=> req[q].pc = "settled")
  BY <1>1 DEF PoolStage, MayLease, Steady, Request, ProducerPcs
<1>. QED
  BY <1>1, <1>2, <1>3, <1>4 DEF P!RequestStep, P!Onward, P!Answered, Steady

\* The pool moves forward, and it ends when nothing is lent and everything is answered.
LEMMA PhaseMoves ==
    ASSUME IInv',
           \/ lifecycle' = lifecycle
           \/ <<lifecycle, lifecycle'>> \in {<<"Absent", "Accepting">>, <<"Accepting", "Stopping">>,
                                             <<"Stopping", "Stopped">>}
    PROVE  P!PhaseStep
<1>1. lifecycle' \in Lifecycles
  BY DEF IInv, TypeOK
<1>2. \/ PoolPhase' = PoolPhase
      \/ <<PoolPhase, PoolPhase'>> \in {<<"absent", "open">>, <<"open", "stopping">>,
                                        <<"stopping", "stopped">>}
  BY DEF PoolPhase
<1>3. ASSUME PoolPhase' = "stopped", NEW r \in Requests
      PROVE  req'[r].slot = NoSlot /\ PoolStage(r)' \in {"succeeded", "unsuccessful", "absent"}
  <2>1. lifecycle' = "Stopped"
    BY <1>1, <1>3 DEF PoolPhase, Lifecycles
  <2>2. req'[r].pc \in {"absent", "settled"}
    BY <2>1 DEF IInv, Draining, Active
  <2>. QED
    BY <2>2 DEF IInv, Shape, Using, PoolStage
<1>. QED
  BY <1>2, <1>3 DEF P!PhaseStep, P!Answered

\* At most one lease changes: it begins with a fit connection and the work, or it ends with
\* the answer.
LEMMA LeaseMoves ==
    ASSUME IInv', NEW r \in Requests,
           \A q \in Requests \ {r} : req'[q].slot = req[q].slot,
           \/ req'[r].slot = req[r].slot
           \/ req'[r].slot = NoSlot /\ req'[r].pc = "settled"
           \/ /\ req'[r].pc = "work" /\ Accepting' /\ conn'[req'[r].slot] = "clean"
              /\ req[r].slot = NoSlot /\ req'[r].slot \in Slots
    PROVE  P!LeaseStep
<1>. DEFINE old == {<<req[q].slot, q>> : q \in {p \in Requests : req[p].slot # NoSlot}}
            new == {<<req'[q].slot, q>> : q \in {p \in Requests : req'[p].slot # NoSlot}}
<1>1. ASSUME NEW lease \in new \ old
      PROVE  /\ lease[1] \in {s \in Slots : conn'[s] = "clean"} /\ PoolPhase' = "open"
             /\ lease[2] \in Requests /\ PoolStage(lease[2])' = "running"
  <2>1. PICK q \in Requests : req'[q].slot # NoSlot /\ lease = <<req'[q].slot, q>>
    OBVIOUS
  <2>2. req'[q].slot # req[q].slot
    BY <1>1, <2>1
  <2>3. q = r /\ lease[1] = req'[r].slot /\ lease[2] = r
    BY <2>1, <2>2
  <2>. QED
    BY <2>1, <2>2, <2>3 DEF PoolPhase, PoolStage, Accepting
<1>2. ASSUME NEW lease \in old \ new
      PROVE  lease[2] \in Requests /\ PoolStage(lease[2])' \in {"succeeded", "unsuccessful"}
  <2>1. PICK q \in Requests : req[q].slot # NoSlot /\ lease = <<req[q].slot, q>>
    OBVIOUS
  <2>2. req'[q].slot # req[q].slot
    BY <1>2, <2>1
  <2>. QED
    BY <2>1, <2>2 DEF PoolStage
<1>3. ASSUME NEW a \in new, NEW b \in new, a[1] = b[1] \/ a[2] = b[2]
      PROVE  a = b
  BY <1>3 DEF IInv, Exclusive
<1>. QED
  BY <1>1, <1>2, <1>3 DEF P!LeaseStep, P!Answered

\* The slot of a request is the one lent to it.
LEMMA LentIs ==
    ASSUME NEW r \in Requests, NEW s \in Slots
    PROVE  /\ <<s, r>> \in {<<req[q].slot, q>> : q \in {p \in Requests : req[p].slot # NoSlot}}
                <=> req[r].slot = s
           /\ <<s, r>> \in {<<req'[q].slot, q>> : q \in {p \in Requests : req'[p].slot # NoSlot}}
                <=> req'[r].slot = s
BY NoSlotAssumption

\* A request that moves by itself.
Moving(r) ==
    \/ /\ req[r].pc = "absent" /\ req'[r].pc = "waiting"
       /\ Accepting' /\ ~req'[r].cancelled
    \/ /\ req[r].pc = "absent" \/ (req[r].pc = "handed" /\ ~req[r].cancelled)
       /\ req'[r].pc = "work" /\ Accepting /\ Accepting' /\ conn[req'[r].slot] = "clean"
    \/ /\ req[r].pc \in {"absent", "handed", "removed"}
       /\ req'[r].pc = "settled" /\ req'[r].outcome = "Rejected"
    \/ /\ req[r].pc = "work" /\ req'[r].pc = "close"
       /\ req'[r].outcome = "Failed" => conn'[req[r].slot] # "clean"
    \/ /\ req[r].pc = "work" /\ req'[r].pc = "settled"
       /\ req'[r].outcome = "Ok" /\ ~req'[r].cleanup /\ conn'[req[r].slot] = "clean"
    \/ /\ req[r].pc \in {"close", "connect"} /\ req'[r].pc \in {"connect", "reclose"}
       /\ req'[r].outcome = req[r].outcome
    \/ /\ req[r].pc \in {"close", "connect", "reclose"} /\ req'[r].pc = "settled"
       /\ req'[r].outcome = req[r].outcome
       /\ Accepting' => conn'[req[r].slot] = "clean" /\ conn[req[r].slot] # "clean"
    \/ req[r].pc = "settled" /\ req'[r].pc = "absent"

\* It goes where the contract lets it.
LEMMA MovingStep ==
    ASSUME IInv, IInv', NEW r \in Requests, Moving(r)
    PROVE  P!RequestStep(r)
<1>1. /\ req[r] \in Request /\ req'[r] \in Request /\ Shape(req[r]) /\ Shape(req'[r])
      /\ lifecycle \in Lifecycles /\ lifecycle' \in Lifecycles
  BY DEF IInv, TypeOK
<1>2. /\ PoolPhase = "open" <=> Accepting
      /\ PoolPhase' = "open" <=> Accepting'
  BY <1>1 DEF PoolPhase, Accepting, Lifecycles
<1>3. /\ \A s \in Slots :
           <<s, r>> \in {<<req[q].slot, q>> : q \in {p \in Requests : req[p].slot # NoSlot}}
             <=> req[r].slot = s
      /\ \A s \in Slots :
           <<s, r>> \in {<<req'[q].slot, q>> : q \in {p \in Requests : req'[p].slot # NoSlot}}
             <=> req'[r].slot = s
  BY LentIs
<1>. USE DEF P!RequestStep, P!Onward, P!Answered
<1>4. CASE req[r].pc = "absent" /\ req'[r].pc = "waiting" /\ Accepting' /\ ~req'[r].cancelled
  <2>1. PoolStage(r) = "absent" /\ PoolStage(r)' = "accepted"
    BY <1>4 DEF PoolStage, MayLease
  <2>. QED
    BY <1>2, <1>4, <2>1
<1>5. CASE /\ req[r].pc = "absent" \/ (req[r].pc = "handed" /\ ~req[r].cancelled)
           /\ req'[r].pc = "work" /\ Accepting /\ Accepting' /\ conn[req'[r].slot] = "clean"
  <2>1. PoolStage(r) \in {"absent", "accepted"} /\ PoolStage(r)' = "running"
    BY <1>5 DEF PoolStage, MayLease
  <2>2. req'[r].slot \in Slots
    BY <1>1, <1>5 DEF Shape, Using, Request
  <2>. QED
    BY <1>2, <1>3, <1>5, <2>1, <2>2
<1>6. CASE /\ req[r].pc \in {"absent", "handed", "removed"}
           /\ req'[r].pc = "settled" /\ req'[r].outcome = "Rejected"
  <2>1. PoolStage(r) \in {"absent", "accepted", "withdrawn"} /\ PoolStage(r)' = "unsuccessful"
    BY <1>6 DEF PoolStage, MayLease
  <2>2. req[r].slot \notin Slots
    BY <1>1, <1>6, NoSlotAssumption DEF Shape, Using
  <2>. QED
    BY <1>2, <1>3, <2>1, <2>2
<1>7. CASE /\ req[r].pc = "work" /\ req'[r].pc = "close"
           /\ req'[r].outcome = "Failed" => conn'[req[r].slot] # "clean"
  <2>1. /\ PoolStage(r) = "running"
        /\ PoolStage(r)' = IF req'[r].outcome = "Ok" THEN "done" ELSE "failed"
        /\ req'[r].outcome \in {"Ok", "Failed"}
    BY <1>1, <1>7 DEF PoolStage, Shape
  <2>. QED
    BY <1>2, <1>3, <1>7, <2>1
<1>8. CASE /\ req[r].pc = "work" /\ req'[r].pc = "settled"
           /\ req'[r].outcome = "Ok" /\ ~req'[r].cleanup /\ conn'[req[r].slot] = "clean"
  <2>1. PoolStage(r) = "running" /\ PoolStage(r)' = "succeeded"
    BY <1>8 DEF PoolStage
  <2>. QED
    BY <1>2, <1>3, <1>8, <2>1
<1>9. CASE /\ req[r].pc \in {"close", "connect"} /\ req'[r].pc \in {"connect", "reclose"}
           /\ req'[r].outcome = req[r].outcome
  <2>1. PoolStage(r) = PoolStage(r)' /\ PoolStage(r) \in {"done", "failed"}
    BY <1>9 DEF PoolStage
  <2>. QED
    BY <1>2, <1>9, <2>1
<1>10. CASE /\ req[r].pc \in {"close", "connect", "reclose"} /\ req'[r].pc = "settled"
            /\ req'[r].outcome = req[r].outcome
            /\ Accepting' => conn'[req[r].slot] = "clean" /\ conn[req[r].slot] # "clean"
  <2>1. /\ PoolStage(r) = IF req[r].outcome = "Ok" THEN "done" ELSE "failed"
        /\ PoolStage(r)' = IF req[r].outcome = "Ok" /\ ~req'[r].cleanup
                           THEN "succeeded" ELSE "unsuccessful"
    BY <1>10 DEF PoolStage
  <2>. QED
    BY <1>2, <1>3, <1>10, <2>1
<1>11. CASE req[r].pc = "settled" /\ req'[r].pc = "absent"
  <2>1. PoolStage(r) \in {"succeeded", "unsuccessful"} /\ PoolStage(r)' = "absent"
    BY <1>11 DEF PoolStage
  <2>. QED
    BY <1>2, <2>1
<1>. QED
  BY <1>4, <1>5, <1>6, <1>7, <1>8, <1>9, <1>10, <1>11 DEF Moving

\* A step that moves one request.
LEMMA OneMoves ==
    ASSUME IInv, IInv', NEW r \in Requests,
           \A q \in Requests \ {r} : Steady(q),
           Steady(r) \/ Moving(r),
           lifecycle' = lifecycle \/ (lifecycle = "Accepting" /\ lifecycle' = "Stopping"),
           \/ req'[r].slot = req[r].slot
           \/ req'[r].slot = NoSlot /\ req'[r].pc = "settled"
           \/ /\ req'[r].pc = "work" /\ Accepting' /\ conn'[req'[r].slot] = "clean"
              /\ req[r].slot = NoSlot /\ req'[r].slot \in Slots
    PROVE  P!Next
<1>1. P!PhaseStep
  BY PhaseMoves
<1>2. P!LeaseStep
  BY LeaseMoves DEF Steady
<1>3. \A q \in Requests : P!RequestStep(q)
  BY SteadyStep, MovingStep DEF IInv
<1>. QED
  BY <1>1, <1>2, <1>3 DEF P!Next

\* A step that moves none.
LEMMA NoneMoves ==
    ASSUME IInv, IInv', \A q \in Requests : Steady(q),
           \/ lifecycle' = lifecycle
           \/ <<lifecycle, lifecycle'>> \in {<<"Absent", "Accepting">>, <<"Accepting", "Stopping">>,
                                             <<"Stopping", "Stopped">>}
    PROVE  P!Next
<1>1. P!PhaseStep
  BY PhaseMoves
<1>2. \A q \in Requests : P!RequestStep(q)
  BY SteadyStep DEF IInv
<1>3. \A q \in Requests : req'[q].slot = req[q].slot
  BY DEF Steady
<1>4. P!LeaseStep
  <2>1. CASE Requests = {}
    BY <2>1 DEF P!LeaseStep
  <2>2. ASSUME NEW r \in Requests
        PROVE  P!LeaseStep
    BY <1>3, LeaseMoves
  <2>. QED
    BY <2>1, <2>2
<1>. QED
  BY <1>1, <1>2, <1>4 DEF P!Next

\* Connections that a step does not lend, use or replace stay fit.
LEMMA FitStays ==
    ASSUME IInv, Fit(req, idle, conn), NEW r \in Requests,
           \A q \in Requests \ {r} : /\ req'[q].slot = req[q].slot
                                     /\ req'[q].pc = "work" => req[q].pc = "work",
           \A s \in Slots : s # req[r].slot => conn'[s] = conn[s],
           req'[r].pc = "work" => conn'[req'[r].slot] = "clean",
           \/ idle' = idle
           \/ idle' = Tail(idle) /\ idle # <<>>
           \/ /\ idle' = Append(idle, req[r].slot)
              /\ req[r].slot \in Slots /\ conn'[req[r].slot] = "clean"
    PROVE  Fit(req', idle', conn')
<1>1. /\ idle \in Seq(Slots) /\ Len(idle) \in Nat /\ \A i \in 1..Len(idle) : idle[i] \in Slots
  BY LenProperties, ElementOfSeq DEF IInv, TypeOK
<1>2. ASSUME NEW q \in Requests, req'[q].pc = "work"
      PROVE  conn'[req'[q].slot] = "clean"
  <2>1. CASE q = r
    BY <1>2, <2>1
  <2>2. CASE q # r
    <3>1. req[q].pc = "work" /\ req'[q].slot = req[q].slot /\ conn[req[q].slot] = "clean"
      BY <1>2, <2>2 DEF Fit
    <3>2. req[q].slot \in Slots /\ req[q].slot # NoSlot
      BY <3>1 DEF IInv, Shape, Using, TypeOK, Request
    <3>3. req[q].slot # req[r].slot
      BY <2>2, <3>2 DEF IInv, Exclusive
    <3>. QED
      BY <3>1, <3>2, <3>3
  <2>. QED
    BY <2>1, <2>2
<1>3. \A i \in 1..Len(idle) : conn'[idle[i]] = "clean"
  BY <1>1 DEF IInv, Exclusive, Fit
<1>4. \A i \in 1..Len(idle') : conn'[idle'[i]] = "clean"
  <2>1. CASE idle' = idle
    BY <1>3, <2>1
  <2>2. CASE idle' = Tail(idle) /\ idle # <<>>
    <3>1. Len(idle') = Len(idle) - 1 /\ \A i \in 1..Len(idle) - 1 : idle'[i] = idle[i + 1]
      BY <1>1, <2>2, TailIs
    <3>. QED
      BY <1>1, <1>3, <3>1
  <2>3. CASE /\ idle' = Append(idle, req[r].slot)
             /\ req[r].slot \in Slots /\ conn'[req[r].slot] = "clean"
    <3>1. /\ Len(idle') = Len(idle) + 1 /\ idle'[Len(idle) + 1] = req[r].slot
          /\ \A i \in 1..Len(idle) : idle'[i] = idle[i]
      BY <1>1, <2>3, AppendIs
    <3>. QED
      BY <1>1, <1>3, <2>3, <3>1
  <2>. QED
    BY <2>1, <2>2, <2>3
<1>. QED
  BY <1>2, <1>4 DEF Fit

\* r settles and its permit may wake the first who waits.
LEMMA SettleImplements ==
    ASSUME IInv, IInv', Fit(req, idle, conn), NEW r \in Requests, req[r].pc \in HolderPcs,
           NEW outcome \in Outcomes, NEW failed \in BOOLEAN,
           SettleHolding(r, Settled(r, outcome, failed)),
           req'[r].pc = "settled" /\ req'[r].outcome = outcome /\ req'[r].cleanup = failed => Moving(r),
           lifecycle' = lifecycle \/ (lifecycle = "Accepting" /\ lifecycle' = "Stopping"),
           \A s \in Slots : s # req[r].slot => conn'[s] = conn[s],
           \/ idle' = idle
           \/ /\ idle' = Append(idle, req[r].slot)
              /\ req[r].slot \in Slots /\ conn'[req[r].slot] = "clean"
    PROVE  P!Next /\ Fit(req', idle', conn')
<1>. DEFINE done == Settled(r, outcome, failed)
<1>0. /\ done \in Request /\ done.pc = "settled" /\ done.slot = NoSlot /\ done.outcome = outcome
      /\ done.cleanup = failed
  <2>1. done \in Request
    BY SettledIs
  <2>2. done.pc = "settled" /\ done.slot = NoSlot
    BY DEF Settled, AbsentRequest
  <2>3. done.outcome = outcome
    BY SettledIs
  <2>4. done.cleanup = failed
    BY SettledIs
  <2>. QED
    BY <2>1, <2>2, <2>3, <2>4
<1>7. SettleHolding(r, done)
  OBVIOUS
<1>. HIDE DEF done
<1>1. req \in [Requests -> Request] /\ permits.waiters \in Seq(Requests)
  BY DEF IInv, TypeOK, Permits
<1>2. Accepting' => Accepting
  BY DEF Accepting
<1>3. /\ req'[r] = done
      /\ \A q \in Requests \ {r} :
            \/ req'[q] = req[q]
            \/ req[q].pc = "waiting" /\ req'[q] = [req[q] EXCEPT !.pc = "handed"]
  <2>1. CASE permits.waiters = <<>>
    BY <1>7, <1>1, <2>1 DEF SettleHolding
  <2>2. CASE permits.waiters # <<>>
    <3>. DEFINE h == Head(permits.waiters)
    <3>1. h \in Requests /\ h = permits.waiters[1] /\ 1 \in 1..Len(permits.waiters)
      BY <1>1, <2>2, TailIs
    <3>2. req[h].pc = "waiting" /\ h # r
      BY <3>1 DEF IInv, Waiting, HolderPcs, Using
    <3>3. req' = [req EXCEPT ![r] = done, ![h].pc = "handed"]
      BY <1>7, <2>2 DEF SettleHolding
    <3>. HIDE DEF h
    <3>. QED
      BY <1>1, <3>1, <3>2, <3>3
  <2>. QED
    BY <2>1, <2>2
<1>4. ASSUME NEW q \in Requests \ {r}
      PROVE  Steady(q) /\ (req'[q].pc = "work" => req[q].pc = "work")
  <2>1. req[q] \in Request
    BY <1>1
  <2>. QED
    BY <1>2, <1>3, <2>1 DEF Steady, Request
<1>5. P!Next
  BY <1>0, <1>3, <1>4, OneMoves
<1>6. Fit(req', idle', conn')
  BY <1>0, <1>3, <1>4, FitStays DEF Steady
<1>. QED
  BY <1>5, <1>6

\* A late permit begins the work on a fit connection, or goes back.
LEMMA ResumeImplements ==
    ASSUME IInv, IInv', Fit(req, idle, conn), NEW r \in Requests, Resume(r)
    PROVE  P!Next /\ Fit(req', idle', conn')
<1>1. /\ req[r].pc = "handed" /\ req \in [Requests -> Request] /\ req[r] \in Request
      /\ UNCHANGED <<lifecycle, conn>> /\ Accepting' = Accepting
      /\ idle \in Seq(Slots) /\ req[r].slot = NoSlot
  BY DEF Resume, IInv, TypeOK, NativeUnchanged, Accepting, Shape, Using
<1>2. CASE /\ MayLease(r)
           /\ req' = [req EXCEPT ![r] = Leased(@)]
           /\ idle' = Tail(idle)
  <2>1. Accepting /\ idle # <<>> /\ ~req[r].cancelled
    BY <1>1, <1>2, IdleThere DEF MayLease
  <2>2. /\ Head(idle) \in Slots /\ Head(idle) = idle[1] /\ 1 \in 1..Len(idle)
    BY <1>1, <2>1, TailIs
  <2>3. /\ \A q \in Requests \ {r} : req'[q] = req[q]
        /\ req'[r].pc = "work" /\ req'[r].slot = Head(idle)
    BY <1>1, <1>2, <2>2 DEF Request, Leased
  <2>4. conn[Head(idle)] = "clean"
    BY <2>2 DEF Fit
  <2>5. Moving(r)
    BY <1>1, <2>1, <2>3, <2>4 DEF Moving
  <2>6. \A q \in Requests \ {r} : Steady(q)
    BY <1>1, <2>3 DEF Steady
  <2>7. P!Next
    BY <1>1, <2>1, <2>2, <2>3, <2>4, <2>5, <2>6, OneMoves
  <2>8. Fit(req', idle', conn')
    BY <1>1, <1>2, <2>1, <2>3, <2>4, FitStays
  <2>. QED
    BY <2>7, <2>8
<1>3. CASE SettleHolding(r, Settled(r, "Rejected", FALSE)) /\ UNCHANGED idle
  <2>1. req'[r].pc = "settled" /\ req'[r].outcome = "Rejected" => Moving(r)
    BY <1>1 DEF Moving
  <2>2. "Rejected" \in Outcomes
    BY DEF Outcomes
  <2>. QED
    BY <1>1, <1>3, <2>1, <2>2, SettleImplements DEF HolderPcs
<1>. QED
  BY <1>2, <1>3 DEF Resume

\* What was withdrawn is answered without having run.
LEMMA RemovedImplements ==
    ASSUME IInv, IInv', Fit(req, idle, conn), NEW r \in Requests, Removed(r)
    PROVE  P!Next /\ Fit(req', idle', conn')
<1>1. /\ req[r].pc = "removed" /\ req \in [Requests -> Request]
      /\ UNCHANGED <<lifecycle, conn, idle>> /\ Accepting' = Accepting
      /\ req' = [req EXCEPT ![r] = Settled(r, "Rejected", FALSE)]
  BY DEF Removed, IInv, TypeOK, NativeUnchanged, Accepting
<1>. DEFINE done == Settled(r, "Rejected", FALSE)
<1>2. done \in Request /\ done.pc = "settled" /\ done.slot = NoSlot /\ done.outcome = "Rejected"
  BY SettledIs DEF Outcomes
<1>3. req'[r] = done /\ \A q \in Requests \ {r} : req'[q] = req[q]
  BY <1>1
<1>. HIDE DEF done
<1>4. Moving(r) /\ \A q \in Requests \ {r} : Steady(q)
  BY <1>1, <1>2, <1>3 DEF Moving, Steady
<1>5. P!Next
  BY <1>1, <1>2, <1>3, <1>4, OneMoves
<1>6. Fit(req', idle', conn')
  BY <1>1, <1>2, <1>3, FitStays
<1>. QED
  BY <1>5, <1>6

\* Only a connection that is still fit is answered for at once.
LEMMA WorkReturnsImplements ==
    ASSUME IInv, IInv', Fit(req, idle, conn), NEW r \in Requests,
           NEW outcome \in {"Ok", "Failed"}, WorkReturns(r, outcome)
    PROVE  P!Next /\ Fit(req', idle', conn')
<1>1. /\ req[r].pc = "work" /\ req \in [Requests -> Request] /\ req[r] \in Request
      /\ UNCHANGED lifecycle /\ Accepting' = Accepting
      /\ conn \in [Slots -> ConnStates] /\ req[r].slot \in Slots
      /\ conn[req[r].slot] = "clean"
  BY DEF WorkReturns, IInv, TypeOK, Accepting, Shape, Using, Request, Fit
<1>2. /\ \A s \in Slots : s # req[r].slot => conn'[s] = conn[s]
      /\ Reusable(r, outcome) => conn'[req[r].slot] = "clean" /\ outcome = "Ok"
      /\ outcome = "Failed" => conn'[req[r].slot] # "clean"
  BY <1>1 DEF WorkReturns, Reusable
<1>3. CASE /\ Reusable(r, outcome)
           /\ idle' = Append(idle, req[r].slot)
           /\ SettleHolding(r, Settled(r, outcome, FALSE))
  <2>1. outcome \in Outcomes
    BY DEF Outcomes
  <2>2. req'[r].pc = "settled" /\ req'[r].outcome = outcome /\ req'[r].cleanup = FALSE => Moving(r)
    BY <1>1, <1>2, <1>3 DEF Moving
  <2>. QED
    BY <1>1, <1>2, <1>3, <2>1, <2>2, SettleImplements DEF HolderPcs, Using
<1>4. CASE /\ req' = [req EXCEPT ![r].pc = "close", ![r].outcome = outcome, ![r].reuse = FALSE]
           /\ UNCHANGED idle
  <2>1. /\ \A q \in Requests \ {r} : req'[q] = req[q]
        /\ req'[r].pc = "close" /\ req'[r].slot = req[r].slot /\ req'[r].outcome = outcome
    BY <1>1, <1>4 DEF Request
  <2>2. Moving(r) /\ \A q \in Requests \ {r} : Steady(q)
    BY <1>1, <1>2, <2>1 DEF Moving, Steady
  <2>3. P!Next
    BY <1>1, <2>1, <2>2, OneMoves
  <2>4. Fit(req', idle', conn')
    BY <1>1, <1>2, <1>4, <2>1, FitStays
  <2>. QED
    BY <2>3, <2>4
<1>. QED
  BY <1>3, <1>4 DEF WorkReturns

\* The request waits for the replacement as long as the pool is open.
LEMMA CloseReturnsImplements ==
    ASSUME IInv, IInv', Fit(req, idle, conn), NEW r \in Requests, CloseReturns(r)
    PROVE  P!Next /\ Fit(req', idle', conn')
<1>1. /\ req[r].pc = "close" /\ req \in [Requests -> Request] /\ req[r] \in Request
      /\ idle' = idle /\ conn \in [Slots -> ConnStates]
      /\ req[r].slot \in Slots /\ req[r].outcome \in Outcomes
      /\ req[r].pc \in HolderPcs
  BY DEF CloseReturns, IInv, TypeOK, Shape, Using, HolderPcs, Request
<1>2. \A s \in Slots : s # req[r].slot => conn'[s] = conn[s]
  BY <1>1 DEF CloseReturns
<1>3. ASSUME ~Accepting', req'[r].pc = "settled", req'[r].outcome = req[r].outcome
      PROVE  Moving(r)
  BY <1>1, <1>3 DEF Moving
<1>4. CASE lifecycle' = lifecycle /\ Accepting /\ req' = [req EXCEPT ![r].pc = "connect"]
  <2>1. /\ \A q \in Requests \ {r} : req'[q] = req[q]
        /\ req'[r].pc = "connect" /\ req'[r].slot = req[r].slot /\ req'[r].outcome = req[r].outcome
    BY <1>1, <1>4 DEF Request
  <2>2. Moving(r) /\ \A q \in Requests \ {r} : Steady(q)
    BY <1>1, <1>4, <2>1 DEF Moving, Steady, Accepting
  <2>3. P!Next
    BY <1>4, <2>1, <2>2, OneMoves
  <2>4. Fit(req', idle', conn')
    BY <1>1, <1>2, <2>1, FitStays
  <2>. QED
    BY <2>3, <2>4
<1>5. CASE lifecycle' = lifecycle /\ ~Accepting /\ SettleHolding(r, Settled(r, req[r].outcome, FALSE))
  <2>1. ~Accepting'
    BY <1>5 DEF Accepting
  <2>. QED
    BY <1>1, <1>2, <1>3, <1>5, <2>1, SettleImplements
<1>6. CASE StartShutdown(TRUE) /\ SettleHolding(r, Settled(r, req[r].outcome, TRUE))
  <2>1. /\ ~Accepting'
        /\ lifecycle' = lifecycle \/ (lifecycle = "Accepting" /\ lifecycle' = "Stopping")
    BY <1>6, StartShutdownIs
  <2>. QED
    BY <1>1, <1>2, <1>3, <1>6, <2>1, SettleImplements
<1>. QED
  BY <1>4, <1>5, <1>6 DEF CloseReturns

\* The replacement is fit, or the pool stops.
LEMMA ConnectReturnsImplements ==
    ASSUME IInv, IInv', Fit(req, idle, conn), NEW r \in Requests, ConnectReturns(r)
    PROVE  P!Next /\ Fit(req', idle', conn')
<1>1. /\ req[r].pc = "connect" /\ req \in [Requests -> Request] /\ req[r] \in Request
      /\ conn \in [Slots -> ConnStates]
      /\ req[r].slot \in Slots /\ req[r].outcome \in Outcomes
      /\ req[r].pc \in HolderPcs /\ conn[req[r].slot] = "none"
  BY DEF ConnectReturns, IInv, TypeOK, Shape, Using, HolderPcs, Request, Exclusive, Kept
<1>2. \A s \in Slots : s # req[r].slot => conn'[s] = conn[s]
  BY <1>1 DEF ConnectReturns
<1>3. CASE /\ StartShutdown(TRUE) /\ SettleHolding(r, Settled(r, req[r].outcome, TRUE))
           /\ UNCHANGED idle
  <2>1. /\ ~Accepting'
        /\ lifecycle' = lifecycle \/ (lifecycle = "Accepting" /\ lifecycle' = "Stopping")
    BY <1>3, StartShutdownIs
  <2>2. req'[r].pc = "settled" /\ req'[r].outcome = req[r].outcome => Moving(r)
    BY <1>1, <2>1 DEF Moving
  <2>. QED
    BY <1>1, <1>2, <1>3, <2>1, <2>2, SettleImplements
<1>4. CASE /\ conn' = [conn EXCEPT ![req[r].slot] = "clean"] /\ UNCHANGED lifecycle
           /\ idle' = Append(idle, req[r].slot)
           /\ SettleHolding(r, Settled(r, req[r].outcome, FALSE))
  <2>1. conn'[req[r].slot] = "clean"
    BY <1>1, <1>4
  <2>2. req'[r].pc = "settled" /\ req'[r].outcome = req[r].outcome => Moving(r)
    BY <1>1, <2>1 DEF Moving
  <2>. QED
    BY <1>1, <1>2, <1>4, <2>1, <2>2, SettleImplements
<1>5. CASE UNCHANGED <<lifecycle, idle>> /\ req' = [req EXCEPT ![r].pc = "reclose"]
  <2>1. /\ \A q \in Requests \ {r} : req'[q] = req[q]
        /\ req'[r].pc = "reclose" /\ req'[r].slot = req[r].slot /\ req'[r].outcome = req[r].outcome
    BY <1>1, <1>5 DEF Request
  <2>2. Moving(r) /\ \A q \in Requests \ {r} : Steady(q)
    BY <1>1, <1>5, <2>1 DEF Moving, Steady, Accepting
  <2>3. P!Next
    BY <1>5, <2>1, <2>2, OneMoves
  <2>4. Fit(req', idle', conn')
    BY <1>1, <1>2, <1>5, <2>1, FitStays
  <2>. QED
    BY <2>3, <2>4
<1>. QED
  BY <1>3, <1>4, <1>5 DEF ConnectReturns

\* A pool that has stopped owes nobody a fit connection.
LEMMA RecloseReturnsImplements ==
    ASSUME IInv, IInv', Fit(req, idle, conn), NEW r \in Requests, RecloseReturns(r)
    PROVE  P!Next /\ Fit(req', idle', conn')
<1>1. /\ req[r].pc = "reclose" /\ idle' = idle /\ req[r] \in Request
      /\ conn \in [Slots -> ConnStates]
      /\ req[r].slot \in Slots /\ req[r].outcome \in Outcomes
      /\ req[r].pc \in HolderPcs
  BY DEF RecloseReturns, IInv, TypeOK, Shape, Using, HolderPcs, Request
<1>2. PICK failed \in BOOLEAN :
          /\ conn' = [conn EXCEPT ![req[r].slot] = IF failed THEN "leaked" ELSE "none"]
          /\ StartShutdown(failed)
          /\ SettleHolding(r, Settled(r, req[r].outcome, failed))
  BY DEF RecloseReturns
<1>3. /\ ~Accepting'
      /\ lifecycle' = lifecycle \/ (lifecycle = "Accepting" /\ lifecycle' = "Stopping")
  BY <1>2, StartShutdownIs
<1>4. req'[r].pc = "settled" /\ req'[r].outcome = req[r].outcome => Moving(r)
  BY <1>1, <1>3 DEF Moving
<1>5. \A s \in Slots : s # req[r].slot => conn'[s] = conn[s]
  BY <1>1, <1>2
<1>. QED
  BY <1>1, <1>2, <1>3, <1>4, <1>5, SettleImplements

\* The handle is forgotten.
LEMMA ReturnImplements ==
    ASSUME IInv, IInv', Fit(req, idle, conn), NEW r \in Requests, Return(r)
    PROVE  P!Next /\ Fit(req', idle', conn')
<1>1. /\ req[r].pc = "settled" /\ req \in [Requests -> Request]
      /\ UNCHANGED <<lifecycle, conn, idle>> /\ Accepting' = Accepting
      /\ req' = [req EXCEPT ![r] = AbsentRequest] /\ req[r].slot = NoSlot
  BY DEF Return, IInv, TypeOK, NativeUnchanged, Accepting, Shape, Using
<1>2. /\ req'[r].pc = "absent" /\ req'[r].slot = NoSlot
      /\ \A q \in Requests \ {r} : req'[q] = req[q]
  BY <1>1 DEF AbsentRequest
<1>3. Moving(r) /\ \A q \in Requests \ {r} : Steady(q)
  BY <1>1, <1>2 DEF Moving, Steady
<1>4. P!Next
  BY <1>1, <1>2, <1>3, OneMoves
<1>5. Fit(req', idle', conn')
  BY <1>1, <1>2, FitStays
<1>. QED
  BY <1>4, <1>5

\* A request begins, waits or is turned away.
LEMMA SubmitImplements ==
    ASSUME IInv, IInv', Fit(req, idle, conn), NEW r \in Requests, NEW reuse \in BOOLEAN,
           Submit(r, reuse)
    PROVE  P!Next /\ Fit(req', idle', conn')
<1>. DEFINE new == [AbsentRequest EXCEPT !.caller = "awaits", !.reuse = reuse]
<1>1. /\ Accepting /\ req[r].pc = "absent" /\ req \in [Requests -> Request]
      /\ UNCHANGED <<lifecycle, conn>> /\ Accepting' = Accepting
      /\ idle \in Seq(Slots) /\ req[r].slot = NoSlot
  BY DEF Submit, IInv, TypeOK, NativeUnchanged, Accepting, Shape, Using
<1>2. new \in Request /\ new.slot = NoSlot /\ new.cancelled = FALSE
  BY DEF AbsentRequest, Request, ProducerPcs, Outcomes
<1>. HIDE DEF new
<1>3. ASSUME \A q \in Requests \ {r} : req'[q] = req[q]
      PROVE  \A q \in Requests \ {r} : Steady(q)
  BY <1>1, <1>3 DEF Steady
<1>4. CASE /\ req' = [req EXCEPT ![r] = [new EXCEPT !.pc = "settled", !.outcome = "Rejected"]]
           /\ UNCHANGED idle
  <2>1. /\ \A q \in Requests \ {r} : req'[q] = req[q]
        /\ req'[r].pc = "settled" /\ req'[r].slot = NoSlot /\ req'[r].outcome = "Rejected"
    BY <1>1, <1>2, <1>4 DEF Request
  <2>2. Moving(r)
    BY <1>1, <2>1 DEF Moving
  <2>3. P!Next
    BY <1>1, <1>3, <2>1, <2>2, OneMoves
  <2>4. Fit(req', idle', conn')
    BY <1>1, <1>4, <2>1, FitStays
  <2>. QED
    BY <2>3, <2>4
<1>5. CASE /\ permits.free > 0
           /\ req' = [req EXCEPT ![r] = Leased(new)]
           /\ idle' = Tail(idle)
  <2>1. idle # <<>>
    BY <1>1, <1>5, IdleThere
  <2>2. /\ Head(idle) \in Slots /\ Head(idle) = idle[1] /\ 1 \in 1..Len(idle)
    BY <1>1, <2>1, TailIs
  <2>3. /\ \A q \in Requests \ {r} : req'[q] = req[q]
        /\ req'[r].pc = "work" /\ req'[r].slot = Head(idle)
    BY <1>1, <1>2, <1>5, <2>2 DEF Request, Leased
  <2>4. conn[Head(idle)] = "clean"
    BY <2>2 DEF Fit
  <2>5. Moving(r)
    BY <1>1, <2>1, <2>3, <2>4 DEF Moving
  <2>6. P!Next
    BY <1>1, <1>3, <2>2, <2>3, <2>4, <2>5, OneMoves
  <2>7. Fit(req', idle', conn')
    BY <1>1, <1>5, <2>1, <2>3, <2>4, FitStays
  <2>. QED
    BY <2>6, <2>7
<1>6. CASE /\ req' = [req EXCEPT ![r] = [new EXCEPT !.pc = "waiting"]]
           /\ UNCHANGED idle
  <2>1. /\ \A q \in Requests \ {r} : req'[q] = req[q]
        /\ req'[r].pc = "waiting" /\ req'[r].slot = NoSlot /\ req'[r].cancelled = FALSE
    BY <1>1, <1>2, <1>6 DEF Request
  <2>2. Moving(r)
    BY <1>1, <2>1 DEF Moving
  <2>3. P!Next
    BY <1>1, <1>3, <2>1, <2>2, OneMoves
  <2>4. Fit(req', idle', conn')
    BY <1>1, <1>6, <2>1, FitStays
  <2>. QED
    BY <2>3, <2>4
<1>. QED
  BY <1>4, <1>5, <1>6 DEF Submit, new

\* A cancellation withdraws what has not begun.
LEMMA CallerCancelledImplements ==
    ASSUME IInv, IInv', Fit(req, idle, conn), NEW r \in Requests, CallerCancelled(r)
    PROVE  P!Next /\ Fit(req', idle', conn')
<1>1. UNCHANGED <<lifecycle, conn, idle>> /\ Accepting' = Accepting /\ req[r] \in Request
  BY DEF CallerCancelled, IInv, TypeOK, NativeUnchanged, Accepting
<1>2. /\ \A q \in Requests \ {r} : req'[q] = req[q]
      /\ req'[r].slot = req[r].slot /\ req'[r].outcome = req[r].outcome
      /\ req'[r].cleanup = req[r].cleanup
      /\ req[r].pc = "waiting" => req'[r].pc = "removed" /\ req'[r].cancelled
      /\ req[r].pc # "waiting" => req'[r].pc = req[r].pc
      /\ r \in Active => req'[r].cancelled
  BY CallerCancelledIs
<1>3. \A q \in Requests : Steady(q)
  <2>1. Steady(r)
    BY <1>1, <1>2 DEF Steady, Active
  <2>2. \A q \in Requests \ {r} : Steady(q)
    BY <1>1, <1>2 DEF Steady
  <2>. QED
    BY <2>1, <2>2
<1>4. P!Next
  BY <1>1, <1>3, NoneMoves
<1>5. Fit(req', idle', conn')
  BY <1>1, <1>2, FitStays DEF Fit
<1>. QED
  BY <1>4, <1>5

\* The daemon withdraws all that waits.
LEMMA DrainStartImplements ==
    ASSUME IInv, IInv', Fit(req, idle, conn), DrainStart
    PROVE  P!Next /\ Fit(req', idle', conn')
<1>1. UNCHANGED <<conn, idle>> /\ StartShutdown(FALSE)
  BY DEF DrainStart, NativeUnchanged
<1>2. /\ ~Accepting'
      /\ lifecycle' = lifecycle \/ (lifecycle = "Accepting" /\ lifecycle' = "Stopping")
  BY <1>1, StartShutdownIs
<1>3. \A q \in Requests :
           /\ req'[q].slot = req[q].slot
           /\ req'[q].outcome = req[q].outcome /\ req'[q].cleanup = req[q].cleanup
           /\ req[q].cancelled => req'[q].cancelled
           /\ req[q].pc = "waiting" => req'[q].pc = "removed"
           /\ req[q].pc # "waiting" => req'[q].pc = req[q].pc
  BY DrainStartIs
<1>4. \A q \in Requests : Steady(q)
  BY <1>2, <1>3 DEF Steady
<1>5. P!Next
  BY <1>2, <1>4, NoneMoves
<1>6. Fit(req', idle', conn')
  BY <1>1, <1>3 DEF Fit
<1>. QED
  BY <1>5, <1>6

\* Steps of the daemon, the switch and create that leave the requests alone.
LEMMA QuietImplements ==
    ASSUME IInv, IInv', Fit(req, idle, conn), UNCHANGED req,
           \/ lifecycle' = lifecycle
           \/ lifecycle = "Accepting" /\ lifecycle' = "Stopping"
           \/ lifecycle = "Stopping" /\ lifecycle' = "Stopped",
           \/ idle' = <<>> /\ \A r \in Requests : req[r].pc # "work"
           \/ UNCHANGED <<idle, conn>>
    PROVE  P!Next /\ Fit(req', idle', conn')
<1>1. Accepting' => Accepting
  BY DEF Accepting
<1>2. \A q \in Requests : Steady(q)
  BY <1>1 DEF Steady
<1>3. P!Next
  BY <1>2, NoneMoves
<1>4. Fit(req', idle', conn')
  BY EmptySeq DEF Fit
<1>. QED
  BY <1>3, <1>4

\* The pool opens with fit connections only.
LEMMA CreateConnectImplements ==
    ASSUME IInv, IInv', Fit(req, idle, conn), CreateConnect
    PROVE  P!Next /\ Fit(req', idle', conn')
<1>1. /\ creator = "connect" /\ req' = req /\ lifecycle = "Absent" /\ idle = <<>>
      /\ \A r \in Requests : req[r].pc = "absent"
  BY DEF CreateConnect, IInv, TypeOK, Creating, AbsentRequest
<1>2. PICK k \in 0..Connections : \A s \in Slots : conn[s] = IF s <= k THEN "clean" ELSE "none"
  BY <1>1 DEF IInv, Creating
<1>3. {s \in Slots : conn[s] # "none"} = 1..k /\ Cardinality({s \in Slots : conn[s] # "none"}) = k
  BY <1>2, AcquiredAre
<1>4. k \in Nat /\ (k + 1) - 1 = k /\ 1..k \subseteq Slots
  BY LimitsAssumption DEF Slots
<1>. DEFINE oldest == [i \in 1..k |-> i]
<1>5. \/ UNCHANGED <<lifecycle, idle>>
      \/ lifecycle' = "Accepting" /\ idle' = oldest /\ UNCHANGED conn
  BY <1>3, <1>4 DEF CreateConnect
<1>6. \A q \in Requests : Steady(q)
  BY <1>1 DEF Steady
<1>7. P!Next
  BY <1>1, <1>5, <1>6, NoneMoves
<1>8. Fit(req', idle', conn')
  <2>1. CASE idle' = idle
    BY <1>1, <2>1, EmptySeq DEF Fit
  <2>2. CASE idle' = oldest /\ UNCHANGED conn
    <3>1. Len(idle') = k /\ \A i \in 1..k : idle'[i] = i
      BY <2>2, SlotsInOrder
    <3>. QED
      BY <1>1, <1>2, <1>4, <2>2, <3>1 DEF Fit
  <2>. QED
    BY <1>5, <2>1, <2>2
<1>. QED
  BY <1>7, <1>8

\* Every step of the Eio pool is one that the contract allows.
LEMMA NextImplements ==
    ASSUME IInv, IInv', Fit(req, idle, conn), Next
    PROVE  P!Next /\ Fit(req', idle', conn')
<1>1. CASE Create
  <2>1. CASE CreateOpen
    BY <2>1, QuietImplements DEF CreateOpen, PoolUnchanged
  <2>2. CASE CreateConnect
    BY <2>2, CreateConnectImplements
  <2>3. CASE CreatePublish
    BY <2>3, QuietImplements DEF CreatePublish, PoolUnchanged, StartShutdown, Accepting
  <2>4. CASE CreateJoin
    BY <2>4, QuietImplements DEF CreateJoin, PoolUnchanged
  <2>. QED
    BY <1>1, <2>1, <2>2, <2>3, <2>4 DEF Create
<1>2. CASE SwitchFails
  BY <1>2, QuietImplements DEF SwitchFails, PoolUnchanged
<1>3. CASE Shutdown
  BY <1>3, QuietImplements DEF Shutdown, NativeUnchanged, StartShutdown, Accepting
<1>4. CASE Drain
  <2>1. CASE DrainStart
    BY <2>1, DrainStartImplements
  <2>2. CASE DrainJoin
    BY <2>2, QuietImplements DEF DrainJoin, NativeUnchanged
  <2>3. ASSUME daemon.pc \in {"acquire", "close"} \/ creator = "close"
        PROVE  \A r \in Requests : req[r].pc # "work"
    BY <2>3 DEF IInv, Creating, Draining, Active, AbsentRequest
  <2>4. CASE DrainAcquire
    BY <2>3, <2>4, QuietImplements DEF DrainAcquire, IdleSlots
  <2>5. ASSUME daemon.pc = "close" \/ creator = "close"
        PROVE  idle = <<>>
    BY <2>5 DEF IInv, Creating, Draining
  <2>6. CASE CloseSlot
    BY <2>3, <2>5, <2>6, QuietImplements DEF CloseSlot, IInv, Draining
  <2>7. CASE CloseDatabase
    <3>1. daemon.pc = "close" => lifecycle = "Stopping"
      BY DEF IInv, TypeOK, Creating, Draining, Accepting, Lifecycles
    <3>. QED
      BY <2>7, <3>1, QuietImplements DEF CloseDatabase
  <2>. QED
    BY <1>4, <2>1, <2>2, <2>4, <2>6, <2>7 DEF Drain
<1>5. ASSUME NEW r \in Requests,
             \/ \E reuse \in BOOLEAN : Submit(r, reuse)
             \/ CallerCancelled(r)
             \/ Continue(r)
      PROVE  P!Next /\ Fit(req', idle', conn')
  <2>1. Outcomes \ {"none", "Rejected"} = {"Ok", "Failed"}
    BY DEF Outcomes
  <2>. QED
    BY <1>5, <2>1, SubmitImplements, CallerCancelledImplements, ResumeImplements,
       RemovedImplements, WorkReturnsImplements, CloseReturnsImplements, ConnectReturnsImplements,
       RecloseReturnsImplements, ReturnImplements DEF Continue
<1>. QED
  BY <1>1, <1>2, <1>3, <1>4, <1>5 DEF Next

\* The Eio pool keeps the contract of Pool: what was withdrawn never runs, work begins on a
\* fit connection lent to it alone, an answer is final and comes after a fit connection has
\* taken the place of the one it had, and the pool ends after its last lease (duckdb_eio.mli:
\* submit, shutdown).
THEOREM PoolIsImplemented == Spec => PoolImplemented
<1>1. Init => P!Init /\ Fit(req, idle, conn)
  <2>. SUFFICES ASSUME Init PROVE P!Init /\ Fit(req, idle, conn)
    OBVIOUS
  <2>1. /\ lifecycle = "Absent" /\ idle = <<>> /\ \A r \in Requests : req[r] = AbsentRequest
    BY DEF Init
  <2>2. \A r \in Requests : req[r].pc = "absent" /\ req[r].slot = NoSlot /\ PoolStage(r) = "absent"
    BY <2>1 DEF AbsentRequest, PoolStage
  <2>. QED
    BY <2>1, <2>2, EmptySeq DEF P!Init, Fit, PoolPhase
<1>2. IInv /\ IInv' /\ Fit(req, idle, conn) /\ [Next]_vars => [P!Next]_(P!vars) /\ Fit(req, idle, conn)'
  <2>. SUFFICES ASSUME IInv, IInv', Fit(req, idle, conn), [Next]_vars
                PROVE  [P!Next]_(P!vars) /\ Fit(req, idle, conn)'
    OBVIOUS
  <2>1. CASE Next
    BY <2>1, NextImplements DEF Fit
  <2>2. CASE UNCHANGED vars
    BY <2>2 DEF vars, P!vars, Fit, PoolPhase, PoolStage, MayLease, Accepting
  <2>. QED
    BY <2>1, <2>2
<1>. QED
  BY <1>1, <1>2, IInvAlways, PTL DEF Spec, PoolImplemented, P!Spec

=============================================================================
