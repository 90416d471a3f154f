------------------------ MODULE ConnectionGateProofs ------------------------
(***************************************************************************)
(* Proofs about ConnectionGate for every set of threads, of connections    *)
(* and of handles that escape to other threads.                            *)
(*                                                                         *)
(* The invariant says for every thread which scope it is in and where that *)
(* leads (ScopedAt), what the scope holds of the gate (HeldAt), what its   *)
(* admission promises it (AdmittedAt), that it destroys what was made in   *)
(* it (EndedAt), what is left of the engine's transaction (EngineAt), what *)
(* its outcome will be (JudgedAt) and what it has of the database          *)
(* (SharedAt); for every statement its scopes (ListedAt); for every two    *)
(* threads that their claims exclude each other (ExcludesAt); and for      *)
(* every connection how its gate, its handle and the database agree        *)
(* (ConnectionAt).                                                         *)
(*                                                                         *)
(* A step of one thread leaves the others alone if it does not disturb     *)
(* what they rely on (Bystander, Spared, Served), so that each action is   *)
(* proved from what it does to the thread that takes it (StepKeeps and the *)
(* lemmas made from it for the kinds of steps there are).                  *)
(***************************************************************************)
EXTENDS ConnectionGate, TLAPS

-----------------------------------------------------------------------------
(* The inductive invariant.                                                 *)

\* The connection was made: from now on its handle is open or closed.
Made(c) == native[c] \in {"open", "closed"}

\* Calls of a snapshot, which keeps the connection from its admission to [finish].
BothPcs == {"begin", "began", "commit", "committed", "rollback"}
CallPcs == {"statement", "close_result", "work", "publish"}
DestroyPcs == {"destroy_all", "close_native", "mark"}

\* The thread has set [busy] of its connection and has not cleared it yet.
Claimed(t) ==
    \/ th[t].pc \in {"operate", "prepare", "unlease"} \cup CallPcs \cup DestroyPcs
    \/ th[t].pc = "finish" /\ gate[th[t].on].state # "Closed_state"
    \/ th[t].pc = "destroy" /\ th[t].ret = "finish"
    \/ Snapshot(t) /\ th[t].pc \in BothPcs

\* What the thread claimed is a connection that is still there.
Inside(t) == Claimed(t) /\ th[t].pc \notin DestroyPcs

\* The end of a transaction, after it was drained.
Ending(t) ==
    /\ th[t].tx
    /\ \/ th[t].pc \in {"decide", "commit", "committed", "rollback", "discard"}
       \/ th[t].pc = "destroy" /\ th[t].ret \in {"decide", "rollback"}

\* The end of a request, after it was quiet.
Settling(t) ==
    \/ th[t].pc \in {"settle", "req_settle"}
    \/ th[t].pc = "destroy" /\ th[t].ret = "req_settle"

\* The thread holds the gate of the database.
ClosingPcs == {"close_conn", "unregister"} \cup DestroyPcs
DbPcs == {"connect", "connected", "db_revoke", "db_next", "db_native"}
DbClaimed(t) ==
    \/ th[t].pc \in DbPcs
    \/ th[t].pc \in ClosingPcs /\ th[t].ret = "db_next"

\* The scope a thread is in and where it goes from there.
ScopedAt(t) ==
    LET r == th[t] IN
    /\ r.pc \in {"revoke", "drain", "decide", "discard", "unlease", "release"} => r.tx
    /\ r.pc \in {"revoke", "drain", "decide"} => r.child = Nobody
    /\ r.pc \in DbPcs \cup {"close_conn", "close_db"} => ~r.tx /\ ~r.run
    /\ r.pc \in {"quiesce", "settle", "req_settle", "req_finish"} => ~r.tx /\ r.run
    /\ r.pc = "destroy" =>
        \/ r.ret \in {"decide", "rollback"} /\ r.tx /\ r.child = Nobody
        \/ r.ret = "req_settle" /\ ~r.tx /\ r.run
        \/ r.ret = "finish"
    /\ r.pc \in {"revoke", "drain"} => r.ret \in {"decide", "rollback"}
    /\ r.pc \in {"discard", "unlease"} => r.ret = "release"
    /\ r.pc = "close_conn" => r.ret \in {"rest", "db_next"}
    /\ r.pc \in DestroyPcs \cup {"unregister"} =>
        \/ r.ret \in {"rest", "db_next"} /\ ~r.tx /\ ~r.run
        \/ r.ret = "release" /\ r.tx
        \/ r.ret = "finish" /\ ~r.tx
        \/ r.ret = "req_finish" /\ ~r.tx /\ r.run
    /\ r.pc = "rest" => r.child = Nobody /\ r.result = "none" /\ ~r.durable
    /\ r.pc \in CallPcs \cup {"close_child"} => r.child # Nobody
    /\ r.pc \in BothPcs => (r.child = Nobody <=> r.tx)

\* A transaction has the lease until it gives it back, a request the connection.
HeldAt(t) ==
    LET r == th[t]
        g == gate[r.on]
    IN  /\ r.tx =>
            IF r.pc \in DestroyPcs \cup {"unregister"} THEN g.lease = Nobody
            ELSE IF r.pc = "release"
            THEN g.lease = t \/ (g.lease = Nobody /\ g.state = "Closed_state")
            ELSE g.lease = t
        /\ r.tx \/ r.run => Made(r.on)
        /\ r.run => g.request = t
        /\ r.pc \in {"begin", "began", "release"} /\ r.tx => ~g.busy
        /\ Ending(t) => ~g.busy
        /\ Ending(t) \/ r.pc \in {"unlease", "release"} => ~tok[t].active
        /\ r.tx /\ r.pc \in DestroyPcs \cup {"unregister"} => ~tok[t].active
        /\ r.pc = "unlease" => g.state = "Closing"
        /\ Settling(t) => ~g.busy /\ g.lease = Nobody /\ req[t].state # "Running"

\* Admission: who claimed the connection is the only one, and it is open.
AdmittedAt(t) ==
    LET r == th[t]
        g == gate[r.on]
    IN  /\ Claimed(t) => g.busy
        /\ Inside(t) => native[r.on] = "open" /\ g.state # "Closed_state"
        /\ \/ r.pc \in CallPcs \cup DestroyPcs \cup {"finish", "unregister", "release"}
           \/ r.pc = "destroy" /\ r.ret = "finish"
           \/ Snapshot(t) /\ r.pc \in BothPcs
           => g.request \in {Nobody, t}
        /\ r.pc \in CallPcs \/ (Snapshot(t) /\ r.pc \in BothPcs) =>
            Exists(r.child) /\ stmt[r.child].on = r.on /\ g.lease = stmt[r.child].tx
        /\ Snapshot(t) /\ r.pc \in BothPcs => g.lease = Nobody
        /\ r.pc = "prepare" => g.request = r.via /\ r.via \in {Nobody, t}
        /\ r.pc = "prepare" => ~Exists(t) /\ \A u \in Threads : th[u].child # t
        /\ r.pc = "close_child" /\ Exists(r.child) =>
            stmt[r.child].on = r.on /\ stmt[r.child].via \in {Nobody, t}
        /\ r.pc \in DestroyPcs => Made(r.on) /\ g.lease = Nobody
        /\ r.pc \in {"close_native", "mark"} => Listed(r.on) = {}
        /\ r.pc = "mark" => native[r.on] = "closed"
        /\ r.pc = "unregister" => g.state = "Closed_state"
        /\ r.pc = "close_conn" => Made(r.on)

\* The gate of a connection and its handle.
GatedAt(c) ==
    LET g == gate[c] IN
    /\ g.state = "Closed_state" => native[c] = "closed" /\ ~g.busy
    /\ native[c] = "closed" =>
        (g.busy \/ g.state = "Closed_state") /\ g.lease = Nobody /\ Listed(c) = {}
    /\ g.lease # Nobody /\ g.request # Nobody => g.lease = g.request
    /\ g.request # Nobody => \A k \in Listed(c) : stmt[k].via = g.request

\* Statements and their scopes.
ListedAt(k) ==
    LET s == stmt[k]
        g == gate[s.on]
    IN  /\ Exists(k) =>
            /\ native[s.on] = "open"
            /\ s.tx # Nobody => g.lease = s.tx
            /\ s.via # Nobody => g.request = s.via
        /\ s.via \in {Nobody, k}
        /\ s.tx # Nobody => th[s.tx].tx /\ th[s.tx].pc \notin {"begin", "began"}
        /\ tok[k].via \in {Nobody, k}

\* What a scope destroys is all it made.
EndedAt(t) ==
    LET r == th[t] IN
    /\ r.pc = "destroy" => \A k \in r.todo : Exists(k) /\ stmt[k].on = r.on
    /\ r.pc \in {"decide", "commit", "committed", "rollback", "discard", "unlease", "release"} /\ r.tx =>
        \A k \in Threads : Exists(k) => stmt[k].tx # t
    /\ r.pc = "destroy" /\ r.ret \in {"decide", "rollback"} =>
        \A k \in Threads : Exists(k) /\ stmt[k].tx = t => k \in r.todo
    /\ r.pc \in {"req_settle", "req_finish"} => \A k \in Threads : Exists(k) => stmt[k].via # t
    /\ r.pc = "destroy" /\ r.ret = "req_settle" =>
        \A k \in Threads : Exists(k) /\ stmt[k].via = t => k \in r.todo

\* The engine's transaction.
EngineAt(t) ==
    LET r == th[t] IN
    /\ \/ r.pc \in {"operate", "prepare", "statement", "close_result", "publish", "finish"}
       \/ r.pc = "destroy" /\ r.ret = "finish"
       => (txn[r.on] => gate[r.on].lease # Nobody)
    /\ r.pc \in {"committed", "release", "mark"} => ~txn[r.on]

\* The outcome of a transaction.
JudgedAt(t) ==
    LET r == th[t] IN
    r.tx =>
    /\ r.durable =>
        /\ r.pc \in {"committed", "revoke", "drain", "destroy", "rollback", "release"}
        /\ ~gate[r.on].busy /\ ~tok[t].active /\ ~tok[t].poisoned /\ ~r.owed
        /\ r.result \in {"Ok", "Cancelled"}
    /\ r.pc \in {"begin", "began"} => r.result = "none"
    /\ r.pc = "commit" => r.result = "Ok" /\ ~tok[t].poisoned
    /\ r.pc = "committed" => r.durable
    /\ r.pc = "destroy" /\ r.ret = "decide" => ~r.durable
    /\ r.pc \in {"revoke", "drain"} /\ r.ret = "decide" => ~r.durable
    /\ r.pc \in {"revoke", "drain"} /\ r.ret = "rollback" => r.result \in {"Error", "Cancelled"}
    /\ r.pc = "destroy" /\ r.ret = "rollback" => r.result \in {"Error", "Cancelled"}
    /\ r.pc \in {"rollback", "discard", "unlease", "unregister"} \cup DestroyPcs =>
        r.result \in {"Error", "Cancelled"}
    /\ r.pc = "release" /\ r.result = "Ok" => r.durable

\* The database and its connections.
SharedAt(t) ==
    LET r == th[t] IN
    /\ DbClaimed(t) => db.busy
    /\ DbClaimed(t) =>
        \A c \in Connections : native[c] = "opening" <=> (r.pc = "connect" /\ c = r.on)
    /\ r.pc \in {"db_revoke", "db_next"} =>
        /\ r.conns \subseteq {c \in Connections : Made(c)}
        /\ \A c \in Connections : native[c] = "open" => c \in r.conns
    /\ r.pc \in ClosingPcs /\ r.ret = "db_next" =>
        /\ r.conns \subseteq {c \in Connections : Made(c)}
        /\ \A c \in Connections : native[c] = "open" => c \in r.conns \/ c = r.on
    /\ r.pc = "db_native" => \A c \in Connections : native[c] # "open"

\* What is said of one thread.
ThreadAt(t) ==
    /\ ScopedAt(t) /\ HeldAt(t) /\ AdmittedAt(t) /\ EndedAt(t) /\ EngineAt(t) /\ JudgedAt(t)
    /\ SharedAt(t)

\* A claim excludes the claims of others.
ExcludesAt(t, u) ==
    /\ Claimed(t) /\ Claimed(u) => th[t].on # th[u].on
    /\ ~(DbClaimed(t) /\ DbClaimed(u))

\* What is said of one connection.
ConnectionAt(c) ==
    /\ GatedAt(c)
    /\ gate[c].result # Nobody => gate[c].result \in Listed(c)
    /\ txn[c] => gate[c].busy \/ gate[c].lease # Nobody
    /\ native[c] = "opening" => db.busy
    /\ native[c] \in {"opening", "open"} => db.native = "open"
    /\ native[c] = "open" => c \in db.children
    /\ c \in db.children => Made(c)

IInv ==
    /\ TypeOK
    /\ \A t \in Threads : ThreadAt(t) /\ ListedAt(t)
    /\ \A t, u \in Threads : t # u => ExcludesAt(t, u)
    /\ \A c \in Connections : ConnectionAt(c)
    /\ db.native = "closed" => db.state = "Closed_state"

-----------------------------------------------------------------------------
(* Values.                                                                  *)

Databases == [state : GateStates, busy : BOOLEAN, children : SUBSET Connections,
              native : {"open", "closed"}]
Tokens == [active : BOOLEAN, via : Anybody, poisoned : BOOLEAN]
Children == [state : GateStates, on : Connections, via : Anybody, tx : Anybody]
Requests == [state : {"Running", "Quiescing", "Settling", "Finished"}, cancelled : BOOLEAN]
Locals == [pc : Pcs, on : Connections, via : Anybody, child : Anybody, tx : BOOLEAN,
           run : BOOLEAN, owed : BOOLEAN, durable : BOOLEAN,
           result : {"none", "Ok", "Error", "Cancelled"}, todo : SUBSET Threads, ret : Pcs,
           conns : SUBSET Connections]

Types ==
    /\ gate \in [Connections -> OwnerGate]
    /\ native \in [Connections -> {"none", "opening", "open", "closed"}]
    /\ txn \in [Connections -> BOOLEAN]
    /\ db \in Databases
    /\ tok \in [Threads -> Tokens]
    /\ stmt \in [Threads -> Children]
    /\ req \in [Threads -> Requests]
    /\ th \in [Threads -> Locals]
    /\ asleep \subseteq Threads

Leases ==
    \A c \in Connections, t \in Threads :
        /\ gate[c].lease = t => th[t].tx /\ th[t].on = c
        /\ gate[c].request = t => th[t].run /\ th[t].on = c

\* The type invariant is the types of the variables and who the leases belong to.
LEMMA TypesAre ==
    /\ TypeOK <=> Types /\ Leases
    /\ TypeOK' <=> Types' /\ Leases'
BY DEF TypeOK, Types, Leases, Databases, Tokens, Children, Requests, Locals

\* The fields of the records a step may look at.
LEMMA LocalIs ==
    ASSUME NEW r \in Locals
    PROVE  /\ r.pc \in Pcs /\ r.on \in Connections /\ r.via \in Anybody /\ r.child \in Anybody
           /\ r.tx \in BOOLEAN /\ r.run \in BOOLEAN /\ r.owed \in BOOLEAN
           /\ r.durable \in BOOLEAN /\ r.todo \subseteq Threads /\ r.ret \in Pcs
           /\ r.conns \subseteq Connections
           /\ r.result \in {"none", "Ok", "Error", "Cancelled"}
BY DEF Locals

\* The fields of a gate.
LEMMA GateIs ==
    ASSUME NEW g \in OwnerGate
    PROVE  /\ g.state \in GateStates /\ g.busy \in BOOLEAN
           /\ g.lease \in Anybody /\ g.request \in Anybody /\ g.result \in Anybody
BY DEF OwnerGate

\* The fields of a statement.
LEMMA ChildIs ==
    ASSUME NEW s \in Children
    PROVE  s.state \in GateStates /\ s.on \in Connections /\ s.via \in Anybody /\ s.tx \in Anybody
BY DEF Children

-----------------------------------------------------------------------------
(* What the other threads keep.                                             *)

\* Threads that rely on nobody being admitted to their connection.
Quiet(t) ==
    \/ th[t].tx /\ (th[t].pc \in {"begin", "began", "release"} \/ th[t].durable)
    \/ Ending(t) \/ Settling(t)

\* What a step does to the gate of u's connection is none of u's business.
Undisturbed(u) ==
    LET r == th[u]
        g == gate[r.on]
        h == gate'[r.on]
    IN  /\ h \in OwnerGate
        /\ r.tx \/ Claimed(u) \/ Settling(u) => h.lease = g.lease
        /\ r.run \/ Claimed(u) \/ r.pc \in {"unregister", "finish", "release"} =>
            h.request = g.request \/ (h.request = Nobody /\ g.request # u)
        /\ Claimed(u) => h.busy /\ h.state # "Closed_state"
        /\ Quiet(u) => ~h.busy
        /\ g.state = "Closed_state" /\ r.pc \in {"unregister", "finish", "release"} =>
            h.state = "Closed_state"
        /\ h.state = "Open" => g.state = "Open"

\* A thread that does not take the step.
Bystander(u) ==
    /\ th'[u] = th[u]
    /\ Undisturbed(u)
    /\ tok'[u].active = tok[u].active /\ tok'[u].via = tok[u].via
    /\ tok'[u].poisoned = tok[u].poisoned \/ ~Quiet(u)
    /\ req'[u].state = req[u].state
    /\ Claimed(u) => native'[th[u].on] = native[th[u].on]
    /\ native[th[u].on] \in {"open", "closed"} => native'[th[u].on] \in {"open", "closed"}
    /\ Claimed(u) \/ Quiet(u) \/ gate[th[u].on].state = "Closed_state" =>
        txn'[th[u].on] = txn[th[u].on]

\* What the invariant says of a thread, of its connection and of its locals.
LEMMA BystanderTypes ==
    ASSUME IInv, NEW u \in Threads
    PROVE  /\ th[u] \in Locals /\ th[u].on \in Connections /\ gate[th[u].on] \in OwnerGate
           /\ tok[u] \in Tokens /\ stmt[u] \in Children /\ req[u] \in Requests
           /\ ScopedAt(u) /\ HeldAt(u) /\ AdmittedAt(u) /\ ListedAt(u) /\ EndedAt(u) /\ EngineAt(u)
           /\ JudgedAt(u) /\ SharedAt(u) /\ GatedAt(th[u].on) /\ Types /\ Leases
<1>1. Types /\ Leases /\ th[u] \in Locals
  BY TypesAre DEF IInv, Types
<1>2. th[u].on \in Connections
  BY <1>1, LocalIs
<1>. QED
  BY <1>1, <1>2 DEF IInv, Types, ThreadAt, ConnectionAt

\* A connection nobody is admitted to has no claim on it, and who has one has the gate.
LEMMA ClaimIsOpen ==
    ASSUME IInv, NEW u \in Threads, Claimed(u)
    PROVE  gate[th[u].on].busy /\ gate[th[u].on].state # "Closed_state"
BY BystanderTypes DEF AdmittedAt, GatedAt

\* The claims of a thread the step leaves alone are as they were.
LEMMA BystanderClaims ==
    ASSUME IInv, NEW u \in Threads, Bystander(u)
    PROVE  /\ Claimed(u)' <=> Claimed(u)
           /\ Inside(u)' <=> Inside(u)
           /\ Ending(u)' <=> Ending(u)
           /\ Settling(u)' <=> Settling(u)
           /\ Snapshot(u)' <=> Snapshot(u)
           /\ DbClaimed(u)' <=> DbClaimed(u)
BY DEF Bystander, Undisturbed, Claimed, Inside, Ending, Settling, Snapshot, DbClaimed

\* A thread the step leaves alone is still in its scopes.
LEMMA BystanderScoped ==
    ASSUME IInv, NEW u \in Threads, Bystander(u)
    PROVE  ScopedAt(u)'
BY BystanderTypes DEF Bystander, ScopedAt

\* A thread the step leaves alone still holds its leases.
LEMMA BystanderHeld ==
    ASSUME IInv, NEW u \in Threads, Bystander(u)
    PROVE  HeldAt(u)'
<1>. DEFINE r == th[u]
            g == gate[r.on]
            h == gate'[r.on]
<1>1. /\ g \in OwnerGate /\ h \in OwnerGate /\ th'[u] = r /\ Undisturbed(u) /\ HeldAt(u)
      /\ ScopedAt(u) /\ r.tx \in BOOLEAN
  BY BystanderTypes, LocalIs DEF Bystander, Undisturbed
<1>2. r.tx =>
        IF r.pc \in DestroyPcs \cup {"unregister"} THEN h.lease = Nobody
        ELSE IF r.pc = "release" THEN h.lease = u \/ (h.lease = Nobody /\ h.state = "Closed_state")
        ELSE h.lease = u
  BY <1>1 DEF Undisturbed, HeldAt
<1>3. r.tx \/ r.run => Made(r.on)'
  BY <1>1 DEF Bystander, HeldAt, Made
<1>4. r.run => h.request = u
  BY <1>1 DEF Undisturbed, HeldAt
<1>5. /\ r.pc \in {"begin", "began", "release"} /\ r.tx => ~h.busy
      /\ Ending(u) => ~h.busy
      /\ Settling(u) => ~h.busy /\ h.lease = Nobody /\ req'[u].state # "Running"
  BY <1>1 DEF Bystander, Undisturbed, HeldAt, Quiet
<1>6. /\ Ending(u) \/ r.pc \in {"unlease", "release"} => ~tok'[u].active
      /\ r.tx /\ r.pc \in DestroyPcs \cup {"unregister"} => ~tok'[u].active
  BY <1>1 DEF Bystander, HeldAt
<1>7. r.pc = "unlease" => h.state = "Closing"
  BY <1>1, GateIs DEF Undisturbed, HeldAt, Claimed, GateStates
<1>. QED
  BY <1>1, <1>2, <1>3, <1>4, <1>5, <1>6, <1>7, BystanderClaims DEF HeldAt

\* What a thread the step leaves alone knows of the engine is still so.
LEMMA BystanderEngine ==
    ASSUME IInv, NEW u \in Threads, Bystander(u)
    PROVE  EngineAt(u)'
<1>1. th[u].on \in Connections /\ GatedAt(th[u].on) /\ gate[th[u].on] \in OwnerGate
      /\ (txn[th[u].on] => gate[th[u].on].busy \/ gate[th[u].on].lease # Nobody)
  BY BystanderTypes DEF IInv, ConnectionAt
<1>2. gate[th[u].on].state = "Closed_state" => ~txn[th[u].on]
  BY <1>1 DEF GatedAt
<1>3. /\ EngineAt(u) /\ ScopedAt(u) /\ th'[u] = th[u] /\ gate'[th[u].on] \in OwnerGate
      /\ Claimed(u) => gate'[th[u].on].lease = gate[th[u].on].lease
      /\ Claimed(u) \/ Quiet(u) \/ gate[th[u].on].state = "Closed_state" =>
            txn'[th[u].on] = txn[th[u].on]
  BY BystanderTypes DEF Bystander, Undisturbed
<1>4. /\ \/ th[u].pc \in {"operate", "prepare", "statement", "close_result", "publish", "mark"}
         \/ th[u].pc = "destroy" /\ th[u].ret = "finish"
         => Claimed(u)
      /\ th[u].pc = "finish" => Claimed(u) \/ gate[th[u].on].state = "Closed_state"
      /\ th[u].pc \in {"committed", "release"} => Claimed(u) \/ Quiet(u)
  BY <1>3 DEF Claimed, Quiet, Ending, ScopedAt, Snapshot, BothPcs, CallPcs, DestroyPcs
<1>. QED
  BY <1>2, <1>3, <1>4 DEF EngineAt

\* The outcome of a thread the step leaves alone is still honest.
LEMMA BystanderJudged ==
    ASSUME IInv, NEW u \in Threads, Bystander(u)
    PROVE  JudgedAt(u)'
BY BystanderTypes DEF Bystander, Undisturbed, JudgedAt, Quiet, Ending

\* What a step does to the statements is none of u's business either.
Spared(u) ==
    LET r == th[u] IN
    /\ r.pc \in CallPcs \/ (Snapshot(u) /\ r.pc \in BothPcs) =>
        /\ Exists(r.child)'
        /\ stmt'[r.child].on = stmt[r.child].on /\ stmt'[r.child].tx = stmt[r.child].tx
    /\ r.pc = "prepare" => ~Exists(u)' /\ \A k \in Threads : th'[k].child # u
    /\ r.pc = "close_child" /\ Exists(r.child)' =>
        /\ Exists(r.child)
        /\ stmt'[r.child].on = stmt[r.child].on /\ stmt'[r.child].via = stmt[r.child].via
    /\ r.pc \in {"close_native", "mark"} => Listed(r.on)' = {}
    /\ r.pc = "destroy" => \A k \in r.todo : Exists(k)' /\ stmt'[k].on = stmt[k].on
    /\ Ending(u) \/ r.pc \in {"unlease", "release"} =>
        \A k \in Threads : Exists(k)' /\ stmt'[k].tx = u => Exists(k) /\ stmt[k].tx = u
    /\ \A k \in Threads : Exists(k)' /\ stmt'[k].via = u => (Exists(k) /\ stmt[k].via = u) \/ ~r.run

\* Nor what it does to the database.
Served(u) ==
    DbClaimed(u) =>
        /\ db'.busy
        /\ \A c \in Connections : native'[c] = native[c] \/ (Made(c) /\ native'[c] = "closed")

\* A thread the step leaves alone is still admitted to what it was admitted to.
LEMMA BystanderAdmitted ==
    ASSUME IInv, NEW u \in Threads, Bystander(u), Spared(u)
    PROVE  AdmittedAt(u)'
<1>. DEFINE r == th[u]
            g == gate[r.on]
            h == gate'[r.on]
            called == r.pc \in CallPcs \/ (Snapshot(u) /\ r.pc \in BothPcs)
<1>1. /\ g \in OwnerGate /\ h \in OwnerGate /\ th'[u] = r /\ Undisturbed(u) /\ AdmittedAt(u)
      /\ ScopedAt(u) /\ r \in Locals /\ GatedAt(r.on)
  BY BystanderTypes DEF Bystander, Undisturbed
<1>2. /\ Claimed(u)' <=> Claimed(u)
      /\ Inside(u)' <=> Inside(u)
      /\ Snapshot(u)' <=> Snapshot(u)
  BY BystanderClaims
<1>3. Claimed(u) => h.busy
  BY <1>1 DEF Undisturbed
<1>4. Inside(u) => native'[r.on] = "open" /\ h.state # "Closed_state"
  BY <1>1 DEF Bystander, Undisturbed, AdmittedAt, Inside
<1>5. called => Claimed(u)
  BY DEF Claimed
<1>6. \/ r.pc \in CallPcs \cup DestroyPcs \cup {"finish", "unregister", "release"}
      \/ r.pc = "destroy" /\ r.ret = "finish"
      \/ Snapshot(u) /\ r.pc \in BothPcs
      => h.request \in {Nobody, u}
  <2>1. ASSUME g.request \in {Nobody, u}, Claimed(u) \/ r.pc \in {"unregister", "finish", "release"}
        PROVE  h.request \in {Nobody, u}
    BY <1>1, <2>1 DEF Undisturbed
  <2>. QED
    BY <1>1, <2>1 DEF AdmittedAt, Claimed
<1>7. called => /\ Exists(r.child)' /\ stmt'[r.child].on = r.on
                /\ h.lease = stmt'[r.child].tx
  <2>1. called => r.child \in Threads
    BY <1>1, LocalIs DEF ScopedAt, Snapshot, Anybody
  <2>. QED
    BY <1>1, <1>5, <2>1 DEF Spared, AdmittedAt, Undisturbed
<1>8. Snapshot(u) /\ r.pc \in BothPcs => h.lease = Nobody
  BY <1>1, <1>5 DEF AdmittedAt, Undisturbed
<1>9. r.pc = "prepare" => h.request = r.via /\ r.via \in {Nobody, u}
  BY <1>1 DEF AdmittedAt, Undisturbed, Claimed
<1>10. r.pc = "prepare" => ~Exists(u)' /\ \A k \in Threads : th'[k].child # u
  BY DEF Spared
<1>11. r.pc = "close_child" /\ Exists(r.child)' =>
        stmt'[r.child].on = r.on /\ stmt'[r.child].via \in {Nobody, u}
  BY <1>1 DEF Spared, AdmittedAt
<1>12. r.pc \in DestroyPcs => Made(r.on)' /\ h.lease = Nobody
  BY <1>1 DEF Bystander, AdmittedAt, Undisturbed, Claimed, Made
<1>13. r.pc \in {"close_native", "mark"} => Listed(r.on)' = {}
  BY DEF Spared
<1>14. r.pc = "mark" => native'[r.on] = "closed"
  BY <1>1 DEF Bystander, AdmittedAt, Claimed, DestroyPcs
<1>15. /\ r.pc = "unregister" => h.state = "Closed_state"
       /\ r.pc = "close_conn" => Made(r.on)'
  BY <1>1 DEF Bystander, AdmittedAt, Undisturbed, Made
<1>. HIDE DEF g, h, called
<1>. QED
  BY <1>1, <1>2, <1>3, <1>4, <1>6, <1>7, <1>8, <1>9, <1>10, <1>11, <1>12, <1>13, <1>14, <1>15
  DEF AdmittedAt, h, called

\* What the scopes of a thread the step leaves alone have ended stays ended.
LEMMA BystanderEnded ==
    ASSUME IInv, NEW u \in Threads, Bystander(u), Spared(u)
    PROVE  EndedAt(u)'
<1>. DEFINE r == th[u]
<1>1. th'[u] = r /\ EndedAt(u) /\ ScopedAt(u) /\ r.todo \subseteq Threads
  BY BystanderTypes, LocalIs DEF Bystander
<1>2. r.pc = "destroy" => \A k \in r.todo : Exists(k)' /\ stmt'[k].on = r.on
  BY <1>1 DEF Spared, EndedAt
<1>3. r.pc \in {"decide", "commit", "committed", "rollback", "discard", "unlease", "release"} /\ r.tx =>
        \A k \in Threads : Exists(k)' => stmt'[k].tx # u
  BY <1>1 DEF Spared, EndedAt, Ending
<1>4. r.pc = "destroy" /\ r.ret \in {"decide", "rollback"} =>
        \A k \in Threads : Exists(k)' /\ stmt'[k].tx = u => k \in r.todo
  BY <1>1 DEF Spared, EndedAt, Ending, ScopedAt
<1>5. r.pc \in {"req_settle", "req_finish"} => \A k \in Threads : Exists(k)' => stmt'[k].via # u
  BY <1>1 DEF Spared, EndedAt, ScopedAt
<1>6. r.pc = "destroy" /\ r.ret = "req_settle" =>
        \A k \in Threads : Exists(k)' /\ stmt'[k].via = u => k \in r.todo
  BY <1>1 DEF Spared, EndedAt, ScopedAt
<1>. QED
  BY <1>1, <1>2, <1>3, <1>4, <1>5, <1>6 DEF EndedAt

\* A thread the step leaves alone still knows the database's state.
LEMMA BystanderShared ==
    ASSUME IInv, NEW u \in Threads, Bystander(u), Served(u)
    PROVE  SharedAt(u)'
<1>. DEFINE r == th[u]
<1>1. th'[u] = r /\ SharedAt(u) /\ (DbClaimed(u)' <=> DbClaimed(u))
  BY BystanderTypes, BystanderClaims DEF Bystander
<1>2. CASE ~DbClaimed(u)
  BY <1>1, <1>2 DEF SharedAt, DbClaimed, DbPcs
<1>3. CASE DbClaimed(u)
  <2>1. /\ db'.busy
        /\ \A c \in Connections : native'[c] = native[c] \/ (Made(c) /\ native'[c] = "closed")
    BY <1>3 DEF Served
  <2>2. /\ \A c \in Connections : native'[c] = "open" => native[c] = "open"
        /\ \A c \in Connections : native'[c] = "opening" <=> native[c] = "opening"
        /\ \A c \in Connections : Made(c) => Made(c)'
    BY <2>1 DEF Made
  <2>. HIDE DEF r
  <2>. QED
    BY <1>1, <1>3, <2>1, <2>2 DEF SharedAt, r
<1>. QED
  BY <1>2, <1>3

\* So all but the thread that takes the step and what belongs to no thread is settled.
LEMMA BystanderKeeps ==
    ASSUME IInv, NEW u \in Threads, Bystander(u), Spared(u), Served(u)
    PROVE  ThreadAt(u)'
BY BystanderScoped, BystanderHeld, BystanderAdmitted, BystanderEnded, BystanderEngine,
   BystanderJudged, BystanderShared DEF ThreadAt

-----------------------------------------------------------------------------
(* Steps.                                                                   *)

\* A step keeps the invariant if it keeps what is said of the thread that takes it and
\* of what belongs to no thread, and disturbs nobody else.
LEMMA StepKeeps ==
    ASSUME IInv, NEW t \in Threads, TypeOK',
           \A u \in Threads \ {t} : Bystander(u) /\ Spared(u) /\ Served(u),
           ThreadAt(t)',
           Claimed(t)' => \A u \in Threads \ {t} : Claimed(u) => th[u].on # th'[t].on,
           DbClaimed(t)' => \A u \in Threads \ {t} : ~DbClaimed(u),
           \A k \in Threads : ListedAt(k)',
           \A c \in Connections : ConnectionAt(c)',
           db'.native = "closed" => db'.state = "Closed_state"
    PROVE  IInv'
<1>1. \A u \in Threads : ThreadAt(u)'
  BY BystanderKeeps
<1>2. ASSUME NEW u \in Threads, NEW v \in Threads, u # v
      PROVE  ExcludesAt(u, v)'
  <2>1. \A w \in Threads \ {t} :
            /\ th'[w] = th[w] /\ (Claimed(w)' <=> Claimed(w)) /\ (DbClaimed(w)' <=> DbClaimed(w))
    BY BystanderClaims DEF Bystander
  <2>2. ExcludesAt(u, v)
    BY <1>2 DEF IInv
  <2>. QED
    BY <1>2, <2>1, <2>2 DEF ExcludesAt
<1>. QED
  BY <1>1, <1>2 DEF IInv

\* A thread that has a connection for itself.
Sole(t) ==
    \/ Claimed(t) \/ Ending(t) \/ Settling(t)
    \/ th[t].tx /\ th[t].pc \in {"begin", "began"}

\* Nobody else on the connection is admitted, or relies on its engine.
LEMMA SoleIs ==
    ASSUME IInv, NEW t \in Threads, Sole(t), NEW u \in Threads \ {t}, th[u].on = th[t].on
    PROVE  ~Claimed(u) /\ ~Quiet(u)
<1>. DEFINE g == gate[th[t].on]
<1>1. /\ HeldAt(t) /\ HeldAt(u) /\ AdmittedAt(t) /\ AdmittedAt(u) /\ ScopedAt(t) /\ ScopedAt(u)
      /\ JudgedAt(u) /\ t # Nobody /\ u # Nobody
  BY BystanderTypes, NobodyAssumption
<1>2. ~(Claimed(t) /\ Claimed(u))
  BY DEF IInv, ExcludesAt
<1>3. /\ Claimed(t) => g.busy
      /\ Claimed(u) => g.busy
  BY <1>1 DEF AdmittedAt
<1>4. /\ Ending(t) \/ Settling(t) \/ (th[t].tx /\ th[t].pc \in {"begin", "began"}) => ~g.busy
      /\ Quiet(u) => ~g.busy
  BY <1>1 DEF HeldAt, JudgedAt, Quiet
<1>5. ASSUME Quiet(u), Ending(t) \/ (th[t].tx /\ th[t].pc \in {"begin", "began"})
      PROVE  FALSE
  <2>1. g.lease = t
    BY <1>1, <1>5 DEF HeldAt, Ending, DestroyPcs
  <2>2. Settling(u) => g.lease = Nobody
    BY <1>1 DEF HeldAt
  <2>3. ~Settling(u) => g.lease \in {u, Nobody}
    BY <1>1, <1>5 DEF HeldAt, Quiet, Ending
  <2>. QED
    BY <1>1, <2>1, <2>2, <2>3
<1>6. ASSUME Quiet(u), Settling(t)
      PROVE  FALSE
  <2>1. g.lease = Nobody /\ g.request = t
    BY <1>1, <1>6 DEF HeldAt, Settling, ScopedAt
  <2>2. Settling(u) => g.request = u
    BY <1>1 DEF HeldAt, Settling, ScopedAt
  <2>3. ~Settling(u) => g.lease = u \/ g.request \in {Nobody, u}
    BY <1>1, <1>6 DEF HeldAt, AdmittedAt, JudgedAt, Quiet, Ending, DestroyPcs
  <2>. QED
    BY <1>1, <2>1, <2>2, <2>3
<1>. QED
  BY <1>2, <1>3, <1>4, <1>5, <1>6 DEF Sole

\* A gate that stays the same disturbs nobody.
LEMMA UndisturbedWhenSame ==
    ASSUME IInv, NEW u \in Threads, gate'[th[u].on] = gate[th[u].on]
    PROVE  Undisturbed(u)
BY ClaimIsOpen, BystanderTypes DEF Undisturbed, Quiet, HeldAt, JudgedAt

\* No statement is made, destroyed or met.
LEMMA SparedWhenSame ==
    ASSUME IInv, NEW t \in Threads, NEW u \in Threads \ {t}, stmt' = stmt,
           \A k \in Threads \ {t} : th'[k] = th[k],
           th'[t].child \in {th[t].child, Nobody} \/ Exists(th'[t].child)
    PROVE  Spared(u)
<1>1. AdmittedAt(u) /\ EndedAt(u) /\ u # Nobody
  BY BystanderTypes, NobodyAssumption
<1>2. \A k \in Threads : Exists(k)' <=> Exists(k)
  BY DEF Exists
<1>3. Listed(th[u].on)' = Listed(th[u].on)
  BY DEF Listed, Exists
<1>. QED
  BY <1>1, <1>2, <1>3 DEF Spared, AdmittedAt, EndedAt, Exists

\* A leased connection is not closed.
LEMMA LeaseIsOpen ==
    ASSUME IInv, NEW c \in Connections, gate[c].lease # Nobody
    PROVE  gate[c].state # "Closed_state" /\ native[c] # "closed"
BY DEF IInv, ConnectionAt, GatedAt

\* Leases and requests that are only given up still belong to threads inside their scopes.
LEMMA LeasesStay ==
    ASSUME IInv, NEW t \in Threads, \A u \in Threads \ {t} : th'[u] = th[u],
           th[t].tx => th'[t].tx /\ th'[t].on = th[t].on,
           th[t].run => th'[t].run /\ th'[t].on = th[t].on,
           \A c \in Connections :
               /\ gate'[c].lease \in {gate[c].lease, Nobody}
               /\ gate'[c].request \in {gate[c].request, Nobody}
    PROVE  Leases'
<1>1. Leases /\ Nobody \notin Threads
  BY TypesAre, NobodyAssumption DEF IInv
<1>. QED
  BY <1>1 DEF Leases

\* The thread is still in the scopes it was in.
InScopes(t) ==
    /\ th' \in [Threads -> Locals] /\ \A u \in Threads \ {t} : th'[u] = th[u]
    /\ th[t].tx => th'[t].tx /\ th'[t].on = th[t].on
    /\ th[t].run => th'[t].run /\ th'[t].on = th[t].on

\* A step that moves one thread only, or the engine under it.
LEMMA MoveKeeps ==
    ASSUME IInv, NEW t \in Threads, InScopes(t),
           UNCHANGED <<gate, native, stmt, db>>,
           tok' \in [Threads -> Tokens], req' \in [Threads -> Requests],
           txn' \in [Connections -> BOOLEAN], asleep' \subseteq Threads,
           \A u \in Threads \ {t} : tok'[u] = tok[u] /\ req'[u] = req[u],
           tok'[t].via = tok[t].via,
           \/ txn' = txn
           \/ /\ Sole(t) /\ ~Settling(t) /\ \A c \in Connections \ {th[t].on} : txn'[c] = txn[c]
              /\ txn'[th[t].on] => gate[th[t].on].busy \/ gate[th[t].on].lease # Nobody,
           th'[t].child \in {th[t].child, Nobody},
           th[t].tx /\ th'[t].pc \in {"begin", "began"} => th[t].pc \in {"begin", "began"},
           Claimed(t)' => Claimed(t) /\ th'[t].on = th[t].on,
           DbClaimed(t)' => DbClaimed(t),
           ThreadAt(t)'
    PROVE  IInv'
<1>. USE DEF InScopes
<1>6. TypeOK'
  <2>1. Types' 
    BY TypesAre DEF IInv, Types
  <2>2. \A c \in Connections :
            /\ gate'[c].lease \in {gate[c].lease, Nobody}
            /\ gate'[c].request \in {gate[c].request, Nobody}
    OBVIOUS
  <2>3. Leases'
    BY <2>2, LeasesStay
  <2>. QED
    BY <2>1, <2>3, TypesAre
<1>1. ASSUME NEW u \in Threads \ {t}
      PROVE  Bystander(u) /\ Spared(u) /\ Served(u)
  <2>1. Undisturbed(u)
    BY UndisturbedWhenSame
  <2>2. ASSUME Claimed(u) \/ Quiet(u) \/ gate[th[u].on].state = "Closed_state"
        PROVE  txn'[th[u].on] = txn[th[u].on]
    <3>1. CASE txn' = txn
      BY <3>1
    <3>2. CASE th[u].on # th[t].on
      BY <3>2, BystanderTypes
    <3>3. CASE th[u].on = th[t].on /\ Sole(t) /\ ~Settling(t)
      <4>1. gate[th[t].on].state = "Closed_state"
        BY <2>2, <3>3, SoleIs
      <4>2. ~Claimed(t)
        BY <4>1, ClaimIsOpen
      <4>3. gate[th[t].on].lease = t /\ th[t].on \in Connections /\ t # Nobody
        BY <3>3, <4>2, BystanderTypes, NobodyAssumption DEF Sole, Ending, HeldAt, DestroyPcs
      <4>. QED
        BY <4>1, <4>3, LeaseIsOpen
    <3>. QED
      BY <3>1, <3>2, <3>3
  <2>3. Spared(u)
    BY SparedWhenSame
  <2>4. DbClaimed(u) => db.busy
    BY BystanderTypes DEF SharedAt
  <2>. QED
    BY <2>1, <2>2, <2>3, <2>4 DEF Bystander, Served
<1>2. Claimed(t)' => \A u \in Threads \ {t} : Claimed(u) => th[u].on # th'[t].on
  BY DEF IInv, ExcludesAt
<1>3. DbClaimed(t)' => \A u \in Threads \ {t} : ~DbClaimed(u)
  BY DEF IInv, ExcludesAt
<1>4. ASSUME NEW k \in Threads
      PROVE  ListedAt(k)'
  <2>1. ListedAt(k) /\ stmt[k].tx \in Anybody
    BY BystanderTypes, ChildIs
  <2>2. tok'[k].via = tok[k].via
    BY DEF IInv
  <2>3. stmt[k].tx # Nobody =>
            th'[stmt[k].tx].tx /\ th'[stmt[k].tx].pc \notin {"begin", "began"}
    BY <2>1 DEF ListedAt, Anybody
  <2>. QED
    BY <2>1, <2>2, <2>3 DEF ListedAt, Exists
<1>5. ASSUME NEW c \in Connections
      PROVE  ConnectionAt(c)'
  <2>1. ConnectionAt(c) /\ Listed(c)' = Listed(c)
    BY DEF IInv, Listed, Exists
  <2>. QED
    BY <2>1 DEF ConnectionAt, GatedAt, Made
<1>. QED
  BY <1>1, <1>2, <1>3, <1>4, <1>5, <1>6, StepKeeps DEF IInv

-----------------------------------------------------------------------------
(* The record of a thread.                                                  *)

\* All but the program counter, the outcome and the lists of what to do.
Stays(t) ==
    /\ th' \in [Threads -> Locals] /\ \A u \in Threads \ {t} : th'[u] = th[u]
    /\ th'[t].on = th[t].on /\ th'[t].via = th[t].via /\ th'[t].child = th[t].child
    /\ th'[t].tx = th[t].tx /\ th'[t].run = th[t].run

Keeps(t) ==
    /\ th'[t].owed = th[t].owed /\ th'[t].durable = th[t].durable
    /\ th'[t].result = th[t].result /\ th'[t].todo = th[t].todo
    /\ th'[t].ret = th[t].ret /\ th'[t].conns = th[t].conns

\* A thread that moves to another line keeps its other locals.
LEMMA GotoIs ==
    ASSUME IInv, NEW t \in Threads, NEW pc \in Pcs, Goto(t, pc)
    PROVE  Stays(t) /\ Keeps(t) /\ th'[t].pc = pc
<1>1. th \in [Threads -> Locals] /\ th[t] \in Locals
  BY BystanderTypes DEF Types
<1>. DEFINE n == [th[t] EXCEPT !.pc = pc]
<1>2. /\ n \in Locals /\ n.pc = pc
      /\ n.on = th[t].on /\ n.via = th[t].via /\ n.child = th[t].child
      /\ n.tx = th[t].tx /\ n.run = th[t].run
      /\ n.owed = th[t].owed /\ n.durable = th[t].durable
      /\ n.result = th[t].result /\ n.todo = th[t].todo /\ n.ret = th[t].ret
      /\ n.conns = th[t].conns
  BY <1>1 DEF Locals
<1>3. th' = [th EXCEPT ![t] = n]
  BY DEF Goto
<1>. HIDE DEF n
<1>. QED
  BY <1>1, <1>2, <1>3 DEF Stays, Keeps

\* The scopes of a thread survive its return.
Returns(t) ==
    /\ th' \in [Threads -> Locals] /\ \A u \in Threads \ {t} : th'[u] = th[u]
    /\ th'[t].pc = "rest" /\ th'[t].child = Nobody /\ ~th'[t].durable /\ th'[t].result = "none"
    /\ th'[t].tx = th[t].tx /\ th'[t].run = th[t].run
    /\ th[t].tx \/ th[t].run => th'[t].on = th[t].on

\* The locals of a thread that has called nothing.
LEMMA NoThreadIs ==
    /\ NoThread \in Locals /\ NoThread.pc = "rest" /\ NoThread.child = Nobody
    /\ ~NoThread.durable /\ ~NoThread.tx /\ ~NoThread.run /\ NoThread.result = "none"
<1>1. (CHOOSE c \in Connections : TRUE) \in Connections
  BY ConnectionsAssumption
<1>. QED
  BY <1>1 DEF NoThread, Locals, Pcs, Anybody

\* The locals of a thread whose call has returned.
LEMMA AtRestIs ==
    ASSUME NEW r \in Locals
    PROVE  /\ AtRest(r) \in Locals /\ AtRest(r).pc = "rest" /\ AtRest(r).child = Nobody
           /\ ~AtRest(r).durable /\ AtRest(r).result = "none"
           /\ AtRest(r).tx = r.tx /\ AtRest(r).run = r.run
           /\ r.tx \/ r.run => AtRest(r).on = r.on
<1>. DEFINE c == IF r.tx \/ r.run THEN r.on ELSE NoThread.on
            rest == [pc |-> "rest", on |-> c, via |-> Nobody, child |-> Nobody, tx |-> r.tx,
                     run |-> r.run, owed |-> FALSE, durable |-> FALSE, result |-> "none",
                     todo |-> {}, ret |-> "rest", conns |-> {}]
<1>1. c \in Connections /\ r.tx \in BOOLEAN /\ r.run \in BOOLEAN
  BY NoThreadIs, LocalIs
<1>2. r.tx \/ r.run => c = r.on
  OBVIOUS
<1>3. AtRest(r) = [NoThread EXCEPT !.on = c, !.tx = r.tx, !.run = r.run]
  BY DEF AtRest
<1>. HIDE DEF c
<1>4. AtRest(r) = rest
  BY <1>3 DEF NoThread
<1>5. "rest" \in Pcs /\ Nobody \in Anybody
  BY DEF Pcs, Anybody
<1>6. rest \in Locals
  BY <1>1, <1>5 DEF Locals
<1>. QED
  BY <1>2, <1>4, <1>6

\* A call that returns keeps only the scopes of its thread.
LEMMA RestIs ==
    ASSUME IInv, NEW t \in Threads, Rest(t)
    PROVE  Returns(t)
<1>1. th \in [Threads -> Locals] /\ th[t] \in Locals
  BY BystanderTypes DEF Types
<1>. DEFINE n == AtRest(th[t])
<1>2. th' = [th EXCEPT ![t] = n]
  BY DEF Rest
<1>3. /\ n \in Locals /\ n.pc = "rest" /\ n.child = Nobody /\ ~n.durable /\ n.result = "none"
      /\ n.tx = th[t].tx /\ n.run = th[t].run /\ (th[t].tx \/ th[t].run => n.on = th[t].on)
  BY <1>1, AtRestIs
<1>. HIDE DEF n
<1>. QED
  BY <1>1, <1>2, <1>3 DEF Returns

\* A failure inside a transaction or a request leads to its end.
LEMMA FailsIs ==
    ASSUME IInv, NEW t \in Threads, NEW result \in {"Error", "Cancelled"}, NEW owed \in BOOLEAN,
           Fails(t, result, owed)
    PROVE  /\ Stays(t) /\ th'[t].pc = (IF Snapshot(t) THEN "rollback" ELSE "revoke")
           /\ th'[t].ret = "rollback" /\ th'[t].result = result /\ th'[t].owed = owed
           /\ th'[t].durable = th[t].durable
<1>1. th \in [Threads -> Locals] /\ th[t] \in Locals
  BY BystanderTypes DEF Types
<1>. DEFINE pc == IF Snapshot(t) THEN "rollback" ELSE "revoke"
            n == [th[t] EXCEPT !.pc = pc, !.ret = "rollback", !.result = result, !.owed = owed]
<1>2. pc \in Pcs /\ "rollback" \in Pcs
  BY DEF Pcs
<1>3. th' = [th EXCEPT ![t] = n]
  BY DEF Fails
<1>. HIDE DEF pc
<1>4. /\ n \in Locals /\ n.pc = pc /\ n.ret = "rollback" /\ n.result = result /\ n.owed = owed
      /\ n.durable = th[t].durable
      /\ n.on = th[t].on /\ n.via = th[t].via /\ n.child = th[t].child
      /\ n.tx = th[t].tx /\ n.run = th[t].run
  BY <1>1, <1>2 DEF Locals
<1>. HIDE DEF n
<1>. QED
  BY <1>1, <1>3, <1>4 DEF Stays, pc

-----------------------------------------------------------------------------
(* Steps on a gate.                                                         *)

\* What the operations on a gate change, and what they leave alone.
LEMMA GateOperators ==
    ASSUME NEW g \in OwnerGate
    PROVE  /\ Claim(g) \in OwnerGate /\ Claim(g).busy /\ Claim(g).state = g.state
           /\ Claim(g).lease = g.lease /\ Claim(g).request = g.request /\ Claim(g).result = g.result
           /\ FinishOperation(g) \in OwnerGate /\ ~FinishOperation(g).busy
           /\ FinishOperation(g).state = g.state /\ FinishOperation(g).lease = g.lease
           /\ FinishOperation(g).request = g.request /\ FinishOperation(g).result = g.result
           /\ BeginDiscard(g) \in OwnerGate /\ BeginDiscard(g).busy
           /\ BeginDiscard(g).state = "Closing" /\ BeginDiscard(g).lease = g.lease
           /\ BeginDiscard(g).request = g.request /\ BeginDiscard(g).result = g.result
           /\ MarkClosed(g) \in OwnerGate /\ ~MarkClosed(g).busy
           /\ MarkClosed(g).state = "Closed_state" /\ MarkClosed(g).lease = g.lease
           /\ MarkClosed(g).request = g.request /\ MarkClosed(g).result = g.result
           /\ ReleaseLease(g) \in OwnerGate /\ ReleaseLease(g).busy = g.busy
           /\ ReleaseLease(g).state = g.state /\ ReleaseLease(g).lease = Nobody
           /\ ReleaseLease(g).request = g.request /\ ReleaseLease(g).result = g.result
BY DEF OwnerGate, Claim, FinishOperation, BeginDiscard, MarkClosed, ReleaseLease, GateStates, Anybody

\* A result is only a matter of its statement and the connection.
LEMMA ResultOperators ==
    ASSUME NEW g \in OwnerGate, NEW k \in Anybody, NEW ks \in SUBSET Threads
    PROVE  /\ [g EXCEPT !.result = k] \in OwnerGate /\ [g EXCEPT !.result = k].result = k
           /\ [g EXCEPT !.result = k].busy = g.busy /\ [g EXCEPT !.result = k].state = g.state
           /\ [g EXCEPT !.result = k].lease = g.lease
           /\ [g EXCEPT !.result = k].request = g.request
BY DEF OwnerGate

\* A step that sets one gate leaves the others.
LEMMA SetIs ==
    ASSUME IInv, NEW c \in Connections, NEW g \in OwnerGate, Set(c, g)
    PROVE  /\ gate' \in [Connections -> OwnerGate] /\ gate'[c] = g
           /\ \A d \in Connections \ {c} : gate'[d] = gate[d]
<1>1. gate \in [Connections -> OwnerGate]
  BY TypesAre DEF IInv, Types
<1>. QED
  BY <1>1 DEF Set

\* The statements keep their scopes.
LEMMA ListedStays ==
    ASSUME IInv, NEW t \in Threads, stmt' = stmt, native' = native,
           \A u \in Threads \ {t} : th'[u] = th[u],
           \A u \in Threads : tok'[u].via = tok[u].via,
           th[t].tx => th'[t].tx /\ (th'[t].pc \in {"begin", "began"} => th[t].pc \in {"begin", "began"}),
           \A c \in Connections : gate'[c].lease = gate[c].lease /\ gate'[c].request = gate[c].request,
           NEW k \in Threads
    PROVE  ListedAt(k)'
<1>1. ListedAt(k) /\ stmt[k].tx \in Anybody /\ stmt[k].on \in Connections
  BY BystanderTypes, ChildIs
<1>2. stmt[k].tx # Nobody => th'[stmt[k].tx].tx /\ th'[stmt[k].tx].pc \notin {"begin", "began"}
  BY <1>1 DEF ListedAt, Anybody
<1>. QED
  BY <1>1, <1>2 DEF ListedAt, Exists

\* A step on the gate of one connection.
LEMMA GateKeeps ==
    ASSUME IInv, NEW t \in Threads, NEW c \in Connections, TypeOK',
           UNCHANGED <<native, txn, db, stmt>>,
           \A d \in Connections \ {c} : gate'[d] = gate[d],
           \A u \in Threads \ {t} :
               /\ th'[u] = th[u] /\ req'[u] = req[u]
               /\ tok'[u].active = tok[u].active /\ tok'[u].via = tok[u].via
               /\ tok'[u].poisoned = tok[u].poisoned \/ ~Quiet(u)
               /\ th[u].on = c => Undisturbed(u),
           th'[t].child \in {th[t].child, Nobody} \/ Exists(th'[t].child),
           Claimed(t)' => \A u \in Threads \ {t} : Claimed(u) => th[u].on # th'[t].on,
           DbClaimed(t)' => \A u \in Threads \ {t} : ~DbClaimed(u),
           ThreadAt(t)',
           \A k \in Threads : ListedAt(k)',
           ConnectionAt(c)'
    PROVE  IInv'
<1>1. ASSUME NEW u \in Threads \ {t}
      PROVE  Bystander(u) /\ Spared(u) /\ Served(u)
  <2>1. Undisturbed(u)
    BY UndisturbedWhenSame, BystanderTypes
  <2>2. Spared(u)
    BY SparedWhenSame
  <2>3. DbClaimed(u) => db.busy
    BY BystanderTypes DEF SharedAt
  <2>. QED
    BY <2>1, <2>2, <2>3 DEF Bystander, Served
<1>2. ASSUME NEW d \in Connections
      PROVE  ConnectionAt(d)'
  <2>1. CASE d = c
    BY <2>1
  <2>2. CASE d # c
    <3>1. ConnectionAt(d) /\ Listed(d)' = Listed(d) /\ gate'[d] = gate[d]
      BY <2>2 DEF IInv, Listed, Exists
    <3>. QED
      BY <3>1 DEF ConnectionAt, GatedAt, Made
  <2>. QED
    BY <2>1, <2>2
<1>. QED
  BY <1>1, <1>2, StepKeeps DEF IInv

\* Types after a step on a gate that gives no scope to anybody.
LEMMA GateTypes ==
    ASSUME IInv, NEW t \in Threads, InScopes(t),
           gate' \in [Connections -> OwnerGate], tok' \in [Threads -> Tokens],
           req' \in [Threads -> Requests], asleep' \subseteq Threads,
           UNCHANGED <<native, txn, db, stmt>>,
           \A c \in Connections :
               /\ gate'[c].lease \in {gate[c].lease, Nobody}
               /\ gate'[c].request \in {gate[c].request, Nobody}
    PROVE  TypeOK'
<1>1. Types'
  BY TypesAre DEF IInv, Types, InScopes
<1>2. Leases'
  BY LeasesStay DEF InScopes
<1>. QED
  BY <1>1, <1>2, TypesAre

\* What only the thread that has the connection for itself does to a gate.
LEMMA SoleUndisturbs ==
    ASSUME IInv, NEW t \in Threads, Sole(t), NEW u \in Threads \ {t}, th[u].on = th[t].on,
           gate'[th[t].on] \in OwnerGate,
           gate'[th[t].on].lease = gate[th[t].on].lease,
           gate'[th[t].on].request = gate[th[t].on].request,
           gate'[th[t].on].state = "Open" => gate[th[t].on].state = "Open",
           gate[th[t].on].state = "Closed_state" => gate'[th[t].on].state = "Closed_state"
    PROVE  Undisturbed(u)
<1>1. ~Claimed(u) /\ ~Quiet(u)
  BY SoleIs
<1>. QED
  BY <1>1 DEF Undisturbed, Quiet

\* A thread at rest has only its scopes.
LEMMA RestingIs ==
    ASSUME NEW t \in Threads, th'[t].pc = "rest", th'[t].child = Nobody, ~th'[t].durable,
           th'[t].result = "none",
           th'[t].tx => gate'[th'[t].on].lease = t,
           th'[t].run => gate'[th'[t].on].request = t,
           th'[t].tx \/ th'[t].run => native'[th'[t].on] \in {"open", "closed"}
    PROVE  ThreadAt(t)' /\ ~Claimed(t)' /\ ~DbClaimed(t)'
<1>1. ScopedAt(t)' /\ EndedAt(t)' /\ EngineAt(t)' /\ JudgedAt(t)'
  BY DEF ScopedAt, EndedAt, EngineAt, JudgedAt, CallPcs, BothPcs, DestroyPcs, DbPcs
<1>2. HeldAt(t)'
  BY DEF HeldAt, Ending, Settling, Made, DestroyPcs
<1>3. AdmittedAt(t)' /\ ~Claimed(t)'
  BY DEF AdmittedAt, Claimed, Inside, Snapshot, CallPcs, BothPcs, DestroyPcs
<1>4. ~DbClaimed(t)' /\ SharedAt(t)'
  BY DEF SharedAt, DbClaimed, DbPcs, ClosingPcs, DestroyPcs
<1>. QED
  BY <1>1, <1>2, <1>3, <1>4 DEF ThreadAt

-----------------------------------------------------------------------------
(* Steps of one thread.                                                     *)

\* The statement's operation is over.
LEMMA StatementReturnKeeps ==
    ASSUME IInv, NEW t \in Threads, StatementReturn(t)
    PROVE  IInv'
<1>1. /\ th[t].pc = "statement" /\ Goto(t, "finish")
      /\ UNCHANGED <<gate, native, txn, db, tok, stmt, req, asleep>>
  BY DEF StatementReturn
<1>2. Stays(t) /\ Keeps(t) /\ th'[t].pc = "finish"
  BY <1>1, GotoIs DEF Pcs
<1>3. /\ ScopedAt(t) /\ HeldAt(t) /\ AdmittedAt(t) /\ EndedAt(t) /\ EngineAt(t) /\ JudgedAt(t)
      /\ SharedAt(t) /\ Types /\ Claimed(t) /\ gate[th[t].on].state # "Closed_state"
  BY <1>1, BystanderTypes, ClaimIsOpen DEF Claimed, CallPcs
<1>5. ThreadAt(t)'
  <2>1. ScopedAt(t)' /\ EndedAt(t)' /\ JudgedAt(t)' /\ SharedAt(t)' /\ EngineAt(t)'
    BY <1>1, <1>2, <1>3 DEF ScopedAt, EndedAt, JudgedAt, SharedAt, EngineAt, Stays, Keeps, DbClaimed,
       CallPcs, BothPcs, DestroyPcs, DbPcs, ClosingPcs
  <2>2. HeldAt(t)' /\ AdmittedAt(t)'
    BY <1>1, <1>2, <1>3 DEF HeldAt, AdmittedAt, Stays, Keeps, Claimed, Inside, Ending, Settling, Made,
       CallPcs, BothPcs, DestroyPcs, Listed, Exists
  <2>. QED
    BY <2>1, <2>2 DEF ThreadAt
<1>6. ~DbClaimed(t)' /\ (Claimed(t)' => Claimed(t))
  BY <1>2, <1>3 DEF DbClaimed, DbPcs, ClosingPcs, DestroyPcs
<1>. QED
  BY <1>1, <1>2, <1>3, <1>5, <1>6, MoveKeeps DEF Stays, InScopes, Types

\* A thread outside of connect, close and the closing of the database.
LEMMA NotServing ==
    ASSUME NEW t \in Threads, th'[t].pc \notin DbPcs,
           th'[t].pc \notin ClosingPcs \/ th'[t].ret # "db_next"
    PROVE  ~DbClaimed(t)' /\ SharedAt(t)'
BY DEF DbClaimed, SharedAt, DbPcs

\* A scope that fails is on its way to the rollback.
LEMMA FailsKeeps ==
    ASSUME IInv, NEW t \in Threads, NEW result \in {"Error", "Cancelled"}, NEW owed \in BOOLEAN,
           Fails(t, result, owed), UNCHANGED <<gate, native, db, tok, stmt, req, asleep>>,
           th[t].pc \in {"begin", "began", "work", "decide", "commit", "committed"},
           th[t].pc = "work" => stmt[th[t].child].tx = Nobody,
           th[t].tx /\ th[t].durable => result = "Cancelled" /\ ~owed,
           txn' \in [Connections -> BOOLEAN],
           \/ txn' = txn
           \/ /\ Sole(t) /\ ~Settling(t) /\ \A c \in Connections \ {th[t].on} : txn'[c] = txn[c]
              /\ txn'[th[t].on] => gate[th[t].on].busy \/ gate[th[t].on].lease # Nobody
    PROVE  IInv'
<1>1. /\ Stays(t) /\ th'[t].pc = (IF Snapshot(t) THEN "rollback" ELSE "revoke")
      /\ th'[t].ret = "rollback" /\ th'[t].result = result /\ th'[t].owed = owed
      /\ th'[t].durable = th[t].durable
  BY FailsIs
<1>2. /\ ScopedAt(t) /\ HeldAt(t) /\ AdmittedAt(t) /\ JudgedAt(t) /\ Types /\ t # Nobody
      /\ th[t].child \in Anybody /\ th[t].tx \in BOOLEAN
  BY BystanderTypes, NobodyAssumption, LocalIs
<1>3. /\ Snapshot(t) => ~th[t].tx /\ gate[th[t].on].lease = Nobody /\ Claimed(t)
                        /\ gate[th[t].on].lease = stmt[th[t].child].tx
                        /\ gate[th[t].on].request \in {Nobody, t}
      /\ ~Snapshot(t) => th[t].tx
  <2>1. CASE th[t].pc = "work"
    BY <1>2, <2>1 DEF ScopedAt, HeldAt, AdmittedAt, Snapshot, Claimed, CallPcs, DestroyPcs
  <2>2. CASE th[t].pc # "work"
    BY <1>2, <2>2 DEF ScopedAt, AdmittedAt, Snapshot, Claimed, BothPcs
  <2>. QED
    BY <2>1, <2>2
<1>4. (Snapshot(t)' <=> Snapshot(t)) /\ (Claimed(t)' => Claimed(t))
  BY <1>1, <1>3 DEF Snapshot, Stays, Claimed, CallPcs, DestroyPcs
<1>5. ScopedAt(t)' /\ EndedAt(t)' /\ EngineAt(t)' /\ JudgedAt(t)'
  BY <1>1, <1>2, <1>3 DEF ScopedAt, EndedAt, JudgedAt, EngineAt, Stays, Snapshot,
     CallPcs, BothPcs, DestroyPcs, DbPcs
<1>6. HeldAt(t)' 
  BY <1>1, <1>2, <1>3 DEF HeldAt, Stays, Ending, Settling, Made, DestroyPcs, BothPcs
<1>7. AdmittedAt(t)'
  BY <1>1, <1>2, <1>3, <1>4, ClaimIsOpen DEF AdmittedAt, Stays, Claimed, Inside, Snapshot, Made, Exists,
     CallPcs, BothPcs, DestroyPcs, Listed
<1>8. ~DbClaimed(t)' /\ SharedAt(t)'
  BY <1>1, NotServing DEF DbPcs, ClosingPcs, DestroyPcs
<1>9. ThreadAt(t)'
  BY <1>5, <1>6, <1>7, <1>8 DEF ThreadAt
<1>10. /\ InScopes(t) /\ th'[t].child = th[t].child /\ th'[t].pc \notin {"begin", "began"}
       /\ Claimed(t)' => Claimed(t) /\ th'[t].on = th[t].on
  BY <1>1, <1>2, <1>4 DEF Stays, InScopes
<1>11. /\ UNCHANGED <<gate, native, stmt, db>> /\ tok' = tok /\ req' = req
       /\ tok' \in [Threads -> Tokens] /\ req' \in [Threads -> Requests] /\ asleep' \subseteq Threads
  BY <1>2 DEF Types
<1>. QED
  BY <1>8, <1>9, <1>10, <1>11, MoveKeeps

\* BEGIN.
LEMMA BeginKeeps ==
    ASSUME IInv, NEW t \in Threads, Begin(t)
    PROVE  IInv'
<1>. DEFINE c == th[t].on
<1>1. th[t].pc = "begin" /\ UNCHANGED <<gate, native, db, tok, stmt, req, asleep>>
  BY DEF Begin
<1>2. /\ ScopedAt(t) /\ HeldAt(t) /\ AdmittedAt(t) /\ EndedAt(t) /\ JudgedAt(t) /\ Types
      /\ c \in Connections /\ t # Nobody /\ th[t].tx \in BOOLEAN
  BY BystanderTypes, NobodyAssumption, LocalIs
<1>3. Sole(t) /\ ~Settling(t) /\ (gate[c].busy \/ gate[c].lease # Nobody) /\ ~(th[t].tx /\ th[t].durable)
  <2>1. th[t].tx \/ Claimed(t)
    BY <1>1, <1>2 DEF ScopedAt, BothPcs, Claimed, Snapshot
  <2>2. Claimed(t) => gate[c].busy
    BY ClaimIsOpen
  <2>. QED
    BY <1>1, <1>2, <2>1, <2>2 DEF Sole, HeldAt, Settling, JudgedAt, DestroyPcs
<1>4. CASE Fails(t, "Cancelled", FALSE) /\ UNCHANGED txn
  <2>1. FALSE \in BOOLEAN /\ "Cancelled" \in {"Error", "Cancelled"}
    OBVIOUS
  <2>. QED
    BY <1>1, <1>2, <1>3, <1>4, <2>1, FailsKeeps DEF BothPcs, Types
<1>5. CASE Fails(t, "Error", TRUE) /\ UNCHANGED txn
  <2>1. TRUE \in BOOLEAN /\ "Error" \in {"Error", "Cancelled"}
    OBVIOUS
  <2>. QED
    BY <1>1, <1>2, <1>3, <1>5, <2>1, FailsKeeps DEF BothPcs, Types
<1>6. CASE /\ txn' = [txn EXCEPT ![c] = TRUE]
           /\ th' = [th EXCEPT ![t].pc = "began", ![t].owed = TRUE]
  <2>. DEFINE n == [th[t] EXCEPT !.pc = "began", !.owed = TRUE]
  <2>1. /\ n \in Locals /\ n.pc = "began"
        /\ n.on = th[t].on /\ n.via = th[t].via /\ n.child = th[t].child
        /\ n.tx = th[t].tx /\ n.run = th[t].run /\ n.durable = th[t].durable
        /\ n.result = th[t].result
    <3>1. th[t] \in Locals /\ "began" \in Pcs
      BY BystanderTypes DEF Pcs
    <3>. QED
      BY <3>1 DEF Locals
  <2>2. th' = [th EXCEPT ![t] = n]
    BY <1>6
  <2>. HIDE DEF n
  <2>3. /\ Stays(t) /\ th'[t].pc = "began" /\ th'[t].durable = th[t].durable
        /\ th'[t].result = th[t].result
    BY <1>2, <2>1, <2>2 DEF Stays, Types
  <2>4. ScopedAt(t)' /\ EndedAt(t)' /\ EngineAt(t)' /\ JudgedAt(t)'
    BY <1>1, <1>2, <2>3 DEF ScopedAt, EndedAt, JudgedAt, EngineAt, Stays, Snapshot,
       CallPcs, BothPcs, DestroyPcs, DbPcs
  <2>5. HeldAt(t)'
    BY <1>1, <1>2, <2>3 DEF HeldAt, Stays, Ending, Settling, Made, DestroyPcs
  <2>6. AdmittedAt(t)' /\ (Claimed(t)' => Claimed(t))
    BY <1>1, <1>2, <2>3 DEF AdmittedAt, Stays, Claimed, Inside, Snapshot, Made, Exists,
       CallPcs, BothPcs, DestroyPcs, Listed
  <2>7. ~DbClaimed(t)' /\ SharedAt(t)'
    BY <2>3, NotServing DEF DbPcs, ClosingPcs, DestroyPcs
  <2>8. txn' \in [Connections -> BOOLEAN] /\ \A d \in Connections \ {c} : txn'[d] = txn[d]
    BY <1>2, <1>6 DEF Types
  <2>9. ThreadAt(t)'
    BY <2>4, <2>5, <2>6, <2>7 DEF ThreadAt
  <2>. QED
    BY <1>1, <1>2, <1>3, <2>3, <2>6, <2>7, <2>8, <2>9, MoveKeeps DEF Stays, InScopes, Types
<1>. QED
  BY <1>4, <1>5, <1>6 DEF Begin

\* A step to another program counter, and nothing else.
LEMMA GotoKeeps ==
    ASSUME IInv, NEW t \in Threads, NEW pc \in Pcs, Goto(t, pc),
           UNCHANGED <<gate, native, db, tok, stmt>>,
           req' \in [Threads -> Requests], \A u \in Threads \ {t} : req'[u] = req[u],
           txn' \in [Connections -> BOOLEAN], asleep' \subseteq Threads,
           \/ txn' = txn
           \/ /\ Sole(t) /\ ~Settling(t) /\ \A c \in Connections \ {th[t].on} : txn'[c] = txn[c]
              /\ txn'[th[t].on] => gate[th[t].on].busy \/ gate[th[t].on].lease # Nobody,
           pc \notin {"begin", "began"} \/ th[t].pc \in {"begin", "began"},
           Claimed(t)' => Claimed(t),
           ScopedAt(t)', HeldAt(t)', AdmittedAt(t)', EndedAt(t)', EngineAt(t)', JudgedAt(t)',
           \/ pc \notin DbPcs \cup ClosingPcs
           \/ SharedAt(t)' /\ (DbClaimed(t)' => DbClaimed(t))
    PROVE  IInv'
<1>1. Stays(t) /\ th'[t].pc = pc /\ Types
  BY GotoIs, BystanderTypes
<1>2. SharedAt(t)' /\ (DbClaimed(t)' => DbClaimed(t))
  BY <1>1, NotServing
<1>3. ThreadAt(t)'
  BY <1>2 DEF ThreadAt
<1>4. /\ InScopes(t) /\ th'[t].child = th[t].child
      /\ Claimed(t)' => Claimed(t) /\ th'[t].on = th[t].on
      /\ th[t].tx /\ th'[t].pc \in {"begin", "began"} => th[t].pc \in {"begin", "began"}
  BY <1>1 DEF Stays, InScopes
<1>5. /\ UNCHANGED <<gate, native, stmt, db>> /\ tok' = tok
      /\ tok' \in [Threads -> Tokens]
  BY <1>1 DEF Types
<1>. QED
  BY <1>2, <1>3, <1>4, <1>5, MoveKeeps

\* BEGIN has returned.
LEMMA BeganKeeps ==
    ASSUME IInv, NEW t \in Threads, Began(t)
    PROVE  IInv'
<1>1. th[t].pc = "began" /\ UNCHANGED <<gate, native, txn, db, tok, stmt, req, asleep>>
  BY DEF Began
<1>2. /\ ScopedAt(t) /\ HeldAt(t) /\ AdmittedAt(t) /\ EndedAt(t) /\ JudgedAt(t) /\ Types
      /\ t # Nobody /\ th[t].tx \in BOOLEAN
  BY BystanderTypes, NobodyAssumption, LocalIs
<1>3. CASE Fails(t, "Cancelled", TRUE)
  <2>1. ~(th[t].tx /\ th[t].durable)
    BY <1>1, <1>2 DEF JudgedAt
  <2>2. TRUE \in BOOLEAN /\ "Cancelled" \in {"Error", "Cancelled"}
    OBVIOUS
  <2>. QED
    BY <1>1, <1>2, <1>3, <2>1, <2>2, FailsKeeps DEF Types
<1>4. CASE Goto(t, IF Snapshot(t) THEN "work" ELSE "rest")
  <2>. DEFINE pc == IF Snapshot(t) THEN "work" ELSE "rest"
  <2>1. pc \in Pcs /\ pc \notin DbPcs \cup ClosingPcs \cup {"begin", "began"}
    BY DEF Pcs, DbPcs, ClosingPcs, DestroyPcs
  <2>2. Stays(t) /\ Keeps(t) /\ th'[t].pc = pc
    BY <1>4, <2>1, GotoIs
  <2>3. ScopedAt(t)' /\ EndedAt(t)' /\ EngineAt(t)' /\ JudgedAt(t)'
    BY <1>1, <1>2, <2>2 DEF ScopedAt, EndedAt, JudgedAt, EngineAt, Stays, Keeps, Snapshot,
       CallPcs, BothPcs, DestroyPcs, DbPcs
  <2>4. HeldAt(t)'
    BY <1>1, <1>2, <2>2 DEF HeldAt, Stays, Ending, Settling, Made, DestroyPcs
  <2>5. AdmittedAt(t)' /\ (Claimed(t)' => Claimed(t))
    BY <1>1, <1>2, <2>2 DEF AdmittedAt, Stays, Claimed, Inside, Snapshot, Made, Exists,
       CallPcs, BothPcs, DestroyPcs, Listed
  <2>6. Goto(t, pc)
    BY <1>4
  <2>. HIDE DEF pc
  <2>. QED
    BY <1>1, <1>2, <2>1, <2>3, <2>4, <2>5, <2>6, GotoKeeps DEF Types
<1>. QED
  BY <1>3, <1>4 DEF Began

\* The body of a snapshot returns, or a statement of a transaction was executed.
LEMMA WorkReturnKeeps ==
    ASSUME IInv, NEW t \in Threads, WorkReturn(t)
    PROVE  IInv'
<1>. DEFINE own == stmt[th[t].child].tx = Nobody
            c == th[t].on
<1>1. th[t].pc = "work" /\ UNCHANGED <<gate, native, txn, db, tok, stmt, req, asleep>>
  BY DEF WorkReturn
<1>2. /\ ScopedAt(t) /\ HeldAt(t) /\ AdmittedAt(t) /\ EndedAt(t) /\ JudgedAt(t) /\ Types
      /\ t # Nobody /\ th[t].tx \in BOOLEAN /\ Snapshot(t) /\ Claimed(t)
      /\ gate[c].lease = stmt[th[t].child].tx /\ gate[c].state # "Closed_state"
      /\ gate[c].busy
  BY <1>1, BystanderTypes, NobodyAssumption, LocalIs, ClaimIsOpen
     DEF AdmittedAt, ScopedAt, CallPcs, Snapshot, Claimed
<1>3. own => ~th[t].tx
  BY <1>1, <1>2 DEF HeldAt, DestroyPcs
<1>4. ASSUME NEW result \in {"Error", "Cancelled"}, own, Fails(t, result, TRUE)
      PROVE  IInv'
  <2>1. TRUE \in BOOLEAN
    OBVIOUS
  <2>. QED
    BY <1>1, <1>2, <1>3, <1>4, <2>1, FailsKeeps DEF Types
<1>5. ASSUME NEW pc \in {"commit", "publish", "finish"}, Goto(t, pc), pc = "commit" <=> own,
             pc = "finish" => ~own
      PROVE  IInv'
  <2>1. pc \in Pcs /\ pc \notin DbPcs \cup ClosingPcs \cup {"begin", "began"}
    BY DEF Pcs, DbPcs, ClosingPcs, DestroyPcs
  <2>2. Stays(t) /\ Keeps(t) /\ th'[t].pc = pc
    BY <1>5, <2>1, GotoIs
  <2>3. ScopedAt(t)' /\ EndedAt(t)' /\ JudgedAt(t)' /\ EngineAt(t)'
    BY <1>1, <1>2, <1>3, <1>5, <2>2 DEF ScopedAt, EndedAt, JudgedAt, EngineAt, Stays, Keeps, Snapshot,
       CallPcs, BothPcs, DestroyPcs, DbPcs
  <2>4. HeldAt(t)'
    BY <1>1, <1>2, <1>3, <1>5, <2>2 DEF HeldAt, Stays, Ending, Settling, Made, DestroyPcs
  <2>5. AdmittedAt(t)'
    BY <1>1, <1>2, <1>5, <2>2 DEF AdmittedAt, Stays, Claimed, Inside, Snapshot, Made, Exists,
       CallPcs, BothPcs, DestroyPcs, Listed
  <2>. QED
    BY <1>1, <1>2, <1>5, <2>1, <2>3, <2>4, <2>5, GotoKeeps DEF Types
<1>6. CASE Goto(t, IF own THEN "commit" ELSE "publish")
  BY <1>5, <1>6
<1>7. CASE own /\ Fails(t, IF Passes(th[t].via) THEN "Error" ELSE "Cancelled", TRUE)
  BY <1>4, <1>7
<1>8. CASE ~own /\ Goto(t, "finish")
  BY <1>5, <1>8
<1>. QED
  BY <1>6, <1>7, <1>8 DEF WorkReturn

\* The callback of a transaction returns.
LEMMA BodyReturnsKeeps ==
    ASSUME IInv, NEW t \in Threads, BodyReturns(t)
    PROVE  IInv'
<1>1. PICK result \in {"Ok", "Error"} :
        th' = [th EXCEPT ![t].pc = "revoke", ![t].ret = "decide", ![t].result = result,
                         ![t].via = tok[t].via, ![t].owed = TRUE]
  BY DEF BodyReturns
<1>2. /\ th[t].pc = "rest" /\ th[t].tx
      /\ UNCHANGED <<gate, native, txn, db, tok, stmt, req, asleep>>
  BY DEF BodyReturns
<1>3. /\ ScopedAt(t) /\ HeldAt(t) /\ AdmittedAt(t) /\ EndedAt(t) /\ JudgedAt(t) /\ Types
      /\ th[t] \in Locals /\ tok[t].via \in Anybody
  BY BystanderTypes DEF Tokens
<1>. DEFINE via == tok[t].via
            n == [th[t] EXCEPT !.pc = "revoke", !.ret = "decide", !.result = result, !.via = via,
                               !.owed = TRUE]
<1>4. /\ n \in Locals /\ n.pc = "revoke" /\ n.ret = "decide" /\ n.result = result
      /\ n.on = th[t].on /\ n.child = th[t].child
      /\ n.tx = th[t].tx /\ n.run = th[t].run /\ n.durable = th[t].durable
  <2>1. "revoke" \in Pcs /\ "decide" \in Pcs /\ via \in Anybody
    BY <1>3 DEF Pcs
  <2>. HIDE DEF via
  <2>. QED
    BY <1>3, <2>1 DEF Locals
<1>5. th' = [th EXCEPT ![t] = n]
  BY <1>1
<1>. HIDE DEF n
<1>6. /\ InScopes(t) /\ th'[t].on = th[t].on /\ th'[t].child = th[t].child
      /\ th'[t].tx = th[t].tx /\ th'[t].run = th[t].run /\ th'[t].durable = th[t].durable
      /\ th'[t].pc = "revoke" /\ th'[t].ret = "decide" /\ th'[t].result = result
  BY <1>3, <1>4, <1>5 DEF InScopes, Types
<1>7. ScopedAt(t)' /\ EndedAt(t)' /\ EngineAt(t)' /\ JudgedAt(t)'
  BY <1>2, <1>3, <1>6 DEF ScopedAt, EndedAt, JudgedAt, EngineAt, CallPcs, BothPcs, DestroyPcs, DbPcs
<1>8. HeldAt(t)'
  BY <1>2, <1>3, <1>6 DEF HeldAt, Ending, Settling, Made, DestroyPcs
<1>9. AdmittedAt(t)' /\ ~Claimed(t)'
  BY <1>2, <1>3, <1>6 DEF AdmittedAt, Claimed, Inside, Snapshot, Made, CallPcs, BothPcs, DestroyPcs
<1>10. ~DbClaimed(t)' /\ SharedAt(t)'
  BY <1>6, NotServing DEF DbPcs, ClosingPcs, DestroyPcs
<1>11. ThreadAt(t)'
  BY <1>7, <1>8, <1>9, <1>10 DEF ThreadAt
<1>12. /\ UNCHANGED <<gate, native, stmt, db>> /\ tok' = tok /\ req' = req /\ txn' = txn
       /\ tok' \in [Threads -> Tokens] /\ req' \in [Threads -> Requests] /\ asleep' \subseteq Threads
       /\ txn' \in [Connections -> BOOLEAN]
  BY <1>2, <1>3 DEF Types
<1>. QED
  BY <1>6, <1>9, <1>10, <1>11, <1>12, MoveKeeps

\* The token is revoked; the thread goes on when nobody is admitted any more.
LEMMA RevokeAndDrainKeeps ==
    ASSUME IInv, NEW t \in Threads, RevokeAndDrain(t)
    PROVE  IInv'
<1>. DEFINE c == th[t].on
            todo == {k \in Listed(c) : stmt[k].tx = t}
<1>1. /\ th[t].pc \in {"revoke", "drain"} /\ UNCHANGED <<gate, native, txn, db, stmt, req>>
      /\ tok' = [tok EXCEPT ![t].active = FALSE]
  BY DEF RevokeAndDrain
<1>2. /\ ScopedAt(t) /\ HeldAt(t) /\ AdmittedAt(t) /\ EndedAt(t) /\ JudgedAt(t) /\ Types
      /\ th[t] \in Locals /\ tok[t] \in Tokens /\ t # Nobody /\ th[t].tx
  BY <1>1, BystanderTypes, NobodyAssumption DEF ScopedAt
<1>3. /\ tok' \in [Threads -> Tokens] /\ ~tok'[t].active /\ tok'[t].via = tok[t].via
      /\ tok'[t].poisoned = tok[t].poisoned /\ \A u \in Threads \ {t} : tok'[u] = tok[u]
  BY <1>1, <1>2 DEF Types, Tokens
<1>4. ASSUME NEW pc \in {"destroy", "drain"}, Stays(t), th'[t].pc = pc, th'[t].ret = th[t].ret,
             th'[t].result = th[t].result, th'[t].durable = th[t].durable,
             th'[t].owed = th[t].owed, asleep' \subseteq Threads,
             pc = "destroy" => ~gate[c].busy /\ th'[t].todo = todo
      PROVE  IInv'
  <2>1. ScopedAt(t)' /\ EngineAt(t)'
    BY <1>1, <1>2, <1>4 DEF ScopedAt, EngineAt, Stays, CallPcs, BothPcs, DestroyPcs, DbPcs
  <2>2. JudgedAt(t)'
    BY <1>1, <1>2, <1>3, <1>4 DEF JudgedAt, Stays, DestroyPcs
  <2>3. EndedAt(t)'
    <3>1. CASE pc = "destroy"
      <4>1. \A k \in todo : Exists(k) /\ stmt[k].on = c
        BY DEF Listed
      <4>2. ASSUME NEW k \in Threads, Exists(k), stmt[k].tx = t
            PROVE  k \in todo
        <5>1. gate[stmt[k].on].lease = t /\ stmt[k].on \in Connections /\ Leases
          BY <1>2, <4>2, BystanderTypes, ChildIs DEF ListedAt
        <5>. QED
          BY <4>2, <5>1 DEF Leases, Listed
      <4>3. th'[t].ret \in {"decide", "rollback"}
        BY <1>1, <1>2, <1>4 DEF ScopedAt
      <4>. HIDE DEF todo
      <4>. QED
        BY <1>1, <1>4, <3>1, <4>1, <4>2, <4>3 DEF EndedAt, Exists, Stays
    <3>2. CASE pc = "drain"
      BY <1>4, <3>2 DEF EndedAt
    <3>. QED
      BY <3>1, <3>2
  <2>4. HeldAt(t)'
    BY <1>1, <1>2, <1>3, <1>4 DEF HeldAt, ScopedAt, Stays, Ending, Settling, Made, DestroyPcs
  <2>5. AdmittedAt(t)' /\ ~Claimed(t)'
    BY <1>1, <1>2, <1>4 DEF AdmittedAt, ScopedAt, Stays, Claimed, Inside, Snapshot, Made, CallPcs,
       BothPcs, DestroyPcs
  <2>6. ~DbClaimed(t)' /\ SharedAt(t)'
    BY <1>4, NotServing DEF DbPcs, ClosingPcs, DestroyPcs
  <2>7. ThreadAt(t)'
    BY <2>1, <2>2, <2>3, <2>4, <2>5, <2>6 DEF ThreadAt
  <2>8. /\ UNCHANGED <<gate, native, stmt, db>> /\ req' = req /\ txn' = txn
        /\ req' \in [Threads -> Requests] /\ txn' \in [Connections -> BOOLEAN]
        /\ InScopes(t) /\ th'[t].child = th[t].child /\ th'[t].pc \notin {"begin", "began"}
    BY <1>1, <1>2, <1>4 DEF Types, InScopes, Stays
  <2>. QED
    BY <1>3, <1>4, <2>5, <2>6, <2>7, <2>8, MoveKeeps
<1>5. CASE /\ Drained(gate[c])
           /\ th' = [th EXCEPT ![t].pc = "destroy", ![t].todo = todo]
           /\ UNCHANGED asleep
  <2>. DEFINE n == [th[t] EXCEPT !.pc = "destroy", !.todo = todo]
  <2>1. "destroy" \in Pcs /\ todo \subseteq Threads /\ ~gate[c].busy
    BY <1>5 DEF Pcs, Listed, Drained, Idle
  <2>2. th' = [th EXCEPT ![t] = n]
    BY <1>5
  <2>. HIDE DEF todo
  <2>3. /\ n \in Locals /\ n.pc = "destroy" /\ n.todo = todo /\ n.ret = th[t].ret
        /\ n.on = th[t].on /\ n.child = th[t].child /\ n.via = th[t].via /\ n.tx = th[t].tx
        /\ n.run = th[t].run /\ n.durable = th[t].durable /\ n.result = th[t].result
        /\ n.owed = th[t].owed
    BY <1>2, <2>1 DEF Locals
  <2>. HIDE DEF n
  <2>4. /\ Stays(t) /\ th'[t].pc = "destroy" /\ th'[t].todo = todo /\ th'[t].ret = th[t].ret
        /\ th'[t].result = th[t].result /\ th'[t].durable = th[t].durable
        /\ th'[t].owed = th[t].owed /\ asleep' \subseteq Threads
    <3>1. th \in [Threads -> Locals] /\ asleep' \subseteq Threads
      BY <1>2, <1>5 DEF Types
    <3>2. th' \in [Threads -> Locals] /\ th'[t] = n /\ \A u \in Threads \ {t} : th'[u] = th[u]
      BY <2>2, <2>3, <3>1
    <3>. QED
      BY <2>3, <3>1, <3>2 DEF Stays
  <2>. QED
    BY <1>4, <2>1, <2>4
<1>6. CASE Goto(t, "drain") /\ asleep' = asleep \cup {t}
  <2>1. Stays(t) /\ Keeps(t) /\ th'[t].pc = "drain" /\ asleep' \subseteq Threads
    BY <1>2, <1>6, GotoIs DEF Pcs, Types
  <2>. QED
    BY <1>4, <2>1 DEF Keeps
<1>. QED
  BY <1>5, <1>6 DEF RevokeAndDrain

\* What the body answered and what the appenders reported.
LEMMA DecideKeeps ==
    ASSUME IInv, NEW t \in Threads, Decide(t)
    PROVE  IInv'
<1>1. th[t].pc = "decide" /\ UNCHANGED <<gate, native, txn, db, tok, stmt, req, asleep>>
  BY DEF Decide
<1>2. /\ ScopedAt(t) /\ HeldAt(t) /\ AdmittedAt(t) /\ EndedAt(t) /\ JudgedAt(t) /\ Types
      /\ th[t].tx /\ th[t].child = Nobody /\ ~th[t].durable
  BY <1>1, BystanderTypes DEF ScopedAt, JudgedAt
<1>3. CASE th[t].result = "Ok" /\ ~Poisoned(t) /\ Goto(t, "commit")
  <2>1. "commit" \in Pcs /\ "commit" \notin DbPcs \cup ClosingPcs \cup {"begin", "began"}
    BY DEF Pcs, DbPcs, ClosingPcs, DestroyPcs
  <2>2. Stays(t) /\ Keeps(t) /\ th'[t].pc = "commit"
    BY <1>3, <2>1, GotoIs
  <2>3. ScopedAt(t)' /\ EndedAt(t)' /\ JudgedAt(t)' /\ EngineAt(t)'
    BY <1>1, <1>2, <1>3, <2>2 DEF ScopedAt, EndedAt, JudgedAt, EngineAt, Stays, Keeps, Poisoned,
       Exists, CallPcs, BothPcs, DestroyPcs, DbPcs
  <2>4. HeldAt(t)'
    BY <1>1, <1>2, <2>2 DEF HeldAt, Stays, Ending, Settling, Made, DestroyPcs
  <2>5. AdmittedAt(t)' /\ ~Claimed(t)'
    BY <1>1, <1>2, <2>2 DEF AdmittedAt, Stays, Claimed, Inside, Snapshot, Made,
       CallPcs, BothPcs, DestroyPcs
  <2>. QED
    BY <1>1, <1>2, <1>3, <2>1, <2>3, <2>4, <2>5, GotoKeeps DEF Types
<1>4. CASE Fails(t, "Error", TRUE)
  <2>1. TRUE \in BOOLEAN /\ "Error" \in {"Error", "Cancelled"}
    OBVIOUS
  <2>. QED
    BY <1>1, <1>2, <1>4, <2>1, FailsKeeps DEF Types
<1>. QED
  BY <1>3, <1>4 DEF Decide

\* COMMIT.
LEMMA CommitKeeps ==
    ASSUME IInv, NEW t \in Threads, Commit(t)
    PROVE  IInv'
<1>. DEFINE c == th[t].on
<1>1. th[t].pc = "commit" /\ UNCHANGED <<gate, native, db, tok, stmt, req, asleep>>
  BY DEF Commit
<1>2. /\ ScopedAt(t) /\ HeldAt(t) /\ AdmittedAt(t) /\ EndedAt(t) /\ JudgedAt(t) /\ Types
      /\ c \in Connections /\ t # Nobody /\ th[t] \in Locals /\ th[t].tx \in BOOLEAN
  BY BystanderTypes, NobodyAssumption, LocalIs
<1>3. Sole(t) /\ ~Settling(t) /\ (gate[c].busy \/ gate[c].lease # Nobody) /\ ~(th[t].tx /\ th[t].durable)
  <2>1. th[t].tx \/ Claimed(t)
    BY <1>1, <1>2 DEF ScopedAt, BothPcs, Claimed, Snapshot
  <2>2. Claimed(t) => gate[c].busy
    BY ClaimIsOpen
  <2>. QED
    BY <1>1, <1>2, <2>1, <2>2 DEF Sole, HeldAt, Ending, Settling, JudgedAt, DestroyPcs
<1>4. CASE Fails(t, "Cancelled", TRUE) /\ UNCHANGED txn
  <2>1. TRUE \in BOOLEAN /\ "Cancelled" \in {"Error", "Cancelled"}
    OBVIOUS
  <2>. QED
    BY <1>1, <1>2, <1>3, <1>4, <2>1, FailsKeeps DEF Types
<1>5. ASSUME NEW open \in BOOLEAN, txn' = [txn EXCEPT ![c] = open], Fails(t, "Error", TRUE)
      PROVE  IInv'
  <2>1. TRUE \in BOOLEAN /\ "Error" \in {"Error", "Cancelled"}
    OBVIOUS
  <2>2. txn' \in [Connections -> BOOLEAN] /\ \A d \in Connections \ {c} : txn'[d] = txn[d]
    BY <1>2, <1>5 DEF Types
  <2>. QED
    BY <1>1, <1>2, <1>3, <1>5, <2>1, <2>2, FailsKeeps
<1>6. CASE /\ txn' = [txn EXCEPT ![c] = FALSE]
           /\ th' = [th EXCEPT ![t].pc = "committed", ![t].owed = FALSE, ![t].durable = TRUE]
  <2>. DEFINE n == [th[t] EXCEPT !.pc = "committed", !.owed = FALSE, !.durable = TRUE]
  <2>1. /\ n \in Locals /\ n.pc = "committed" /\ ~n.owed /\ n.durable
        /\ n.on = th[t].on /\ n.via = th[t].via /\ n.child = th[t].child
        /\ n.tx = th[t].tx /\ n.run = th[t].run /\ n.result = th[t].result
    <3>1. "committed" \in Pcs
      BY DEF Pcs
    <3>. QED
      BY <1>2, <3>1 DEF Locals
  <2>2. th' = [th EXCEPT ![t] = n]
    BY <1>6
  <2>. HIDE DEF n
  <2>3. /\ Stays(t) /\ th'[t].pc = "committed" /\ th'[t].durable /\ ~th'[t].owed
        /\ th'[t].result = th[t].result
    BY <1>2, <2>1, <2>2 DEF Stays, Types
  <2>4. /\ txn' \in [Connections -> BOOLEAN] /\ \A d \in Connections \ {c} : txn'[d] = txn[d]
        /\ ~txn'[c]
    BY <1>2, <1>6 DEF Types
  <2>5. ScopedAt(t)' /\ EndedAt(t)' /\ EngineAt(t)'
    BY <1>1, <1>2, <2>3, <2>4 DEF ScopedAt, EndedAt, EngineAt, Stays, Snapshot, Exists,
       CallPcs, BothPcs, DestroyPcs, DbPcs
  <2>6. JudgedAt(t)'
    BY <1>1, <1>2, <2>3 DEF JudgedAt, HeldAt, Ending, Stays, DestroyPcs
  <2>7. HeldAt(t)'
    BY <1>1, <1>2, <2>3 DEF HeldAt, Stays, Ending, Settling, Made, DestroyPcs
  <2>8. AdmittedAt(t)' /\ (Claimed(t)' => Claimed(t))
    BY <1>1, <1>2, <2>3 DEF AdmittedAt, Stays, Claimed, Inside, Snapshot, Made, Exists,
       CallPcs, BothPcs, DestroyPcs, Listed
  <2>9. ~DbClaimed(t)' /\ SharedAt(t)'
    BY <2>3, NotServing DEF DbPcs, ClosingPcs, DestroyPcs
  <2>10. ThreadAt(t)'
    BY <2>5, <2>6, <2>7, <2>8, <2>9 DEF ThreadAt
  <2>. QED
    BY <1>1, <1>2, <1>3, <2>3, <2>4, <2>8, <2>9, <2>10, MoveKeeps DEF Stays, InScopes, Types
<1>. QED
  BY <1>4, <1>5, <1>6 DEF Commit

\* COMMIT has returned, and succeeded.
LEMMA CommittedKeeps ==
    ASSUME IInv, NEW t \in Threads, Committed(t)
    PROVE  IInv'
<1>1. th[t].pc = "committed" /\ UNCHANGED <<gate, native, txn, db, tok, stmt, req, asleep>>
  BY DEF Committed
<1>2. /\ ScopedAt(t) /\ HeldAt(t) /\ AdmittedAt(t) /\ EndedAt(t) /\ EngineAt(t) /\ JudgedAt(t)
      /\ Types /\ t # Nobody /\ th[t].tx \in BOOLEAN
  BY BystanderTypes, NobodyAssumption, LocalIs
<1>3. CASE Fails(t, "Cancelled", FALSE)
  <2>1. FALSE \in BOOLEAN /\ "Cancelled" \in {"Error", "Cancelled"}
    OBVIOUS
  <2>. QED
    BY <1>1, <1>2, <1>3, <2>1, FailsKeeps DEF Types
<1>4. CASE Goto(t, IF Snapshot(t) THEN "publish" ELSE "release")
  <2>. DEFINE pc == IF Snapshot(t) THEN "publish" ELSE "release"
  <2>1. pc \in Pcs /\ pc \notin DbPcs \cup ClosingPcs \cup {"begin", "began"}
    BY DEF Pcs, DbPcs, ClosingPcs, DestroyPcs
  <2>2. Stays(t) /\ Keeps(t) /\ th'[t].pc = pc
    BY <1>4, <2>1, GotoIs
  <2>3. ScopedAt(t)' /\ EndedAt(t)' /\ EngineAt(t)' /\ JudgedAt(t)'
    BY <1>1, <1>2, <2>2 DEF ScopedAt, EndedAt, JudgedAt, EngineAt, Stays, Keeps, Snapshot,
       Exists, CallPcs, BothPcs, DestroyPcs, DbPcs
  <2>4. HeldAt(t)'
    BY <1>1, <1>2, <2>2 DEF HeldAt, ScopedAt, Snapshot, Stays, Ending, Settling, Made, BothPcs,
       DestroyPcs
  <2>5. AdmittedAt(t)' /\ (Claimed(t)' => Claimed(t))
    <3>1. ~Snapshot(t) => gate[th[t].on].request \in {Nobody, t}
      <4>1. GatedAt(th[t].on) /\ gate[th[t].on] \in OwnerGate
        BY BystanderTypes
      <4>. QED
        BY <1>1, <1>2, <4>1 DEF ScopedAt, HeldAt, GatedAt, Snapshot, BothPcs, DestroyPcs
    <3>. QED
      BY <1>1, <1>2, <2>2, <3>1 DEF AdmittedAt, Stays, Claimed, Inside, Snapshot, Made, Exists,
         CallPcs, BothPcs, DestroyPcs, Listed
  <2>6. Goto(t, pc)
    BY <1>4
  <2>. HIDE DEF pc
  <2>. QED
    BY <1>1, <1>2, <2>1, <2>3, <2>4, <2>5, <2>6, GotoKeeps DEF Types
<1>. QED
  BY <1>3, <1>4 DEF Committed

\* A transaction that ends keeps its request to itself.
LEMMA LeaseExcludes ==
    ASSUME IInv, NEW t \in Threads, gate[th[t].on].lease = t
    PROVE  gate[th[t].on].request \in {Nobody, t}
BY BystanderTypes, NobodyAssumption DEF GatedAt

\* ROLLBACK.
LEMMA RollbackKeeps ==
    ASSUME IInv, NEW t \in Threads, Rollback(t)
    PROVE  IInv'
<1>. DEFINE c == th[t].on
<1>1. th[t].pc = "rollback" /\ UNCHANGED <<gate, native, db, tok, stmt, req, asleep>>
  BY DEF Rollback
<1>2. /\ ScopedAt(t) /\ HeldAt(t) /\ AdmittedAt(t) /\ EndedAt(t) /\ JudgedAt(t) /\ Types
      /\ c \in Connections /\ t # Nobody /\ th[t] \in Locals /\ th[t].tx \in BOOLEAN
  BY BystanderTypes, NobodyAssumption, LocalIs
<1>3. /\ Sole(t) /\ ~Settling(t) /\ (th[t].tx <=> ~Snapshot(t)) /\ (Snapshot(t) => Claimed(t))
      /\ Snapshot(t) => gate[c].lease = Nobody
      /\ ~Snapshot(t) => gate[c].lease = t /\ gate[c].request \in {Nobody, t}
  <2>1. th[t].tx <=> ~Snapshot(t)
    BY <1>1, <1>2 DEF ScopedAt, BothPcs, Snapshot
  <2>2. ~Snapshot(t) => gate[c].lease = t
    BY <1>1, <1>2, <2>1 DEF HeldAt, DestroyPcs
  <2>. QED
    BY <1>1, <1>2, <2>1, <2>2, LeaseExcludes DEF Sole, Ending, Settling, Claimed, AdmittedAt, BothPcs
<1>4. CASE /\ txn' = [txn EXCEPT ![c] = FALSE]
           /\ Goto(t, IF Snapshot(t) THEN "finish" ELSE "release")
  <2>. DEFINE pc == IF Snapshot(t) THEN "finish" ELSE "release"
  <2>1. pc \in Pcs /\ pc \notin DbPcs \cup ClosingPcs \cup {"begin", "began"}
    BY DEF Pcs, DbPcs, ClosingPcs, DestroyPcs
  <2>2. Stays(t) /\ Keeps(t) /\ th'[t].pc = pc
    BY <1>4, <2>1, GotoIs
  <2>3. /\ txn' \in [Connections -> BOOLEAN] /\ \A d \in Connections \ {c} : txn'[d] = txn[d]
        /\ ~txn'[c]
    BY <1>2, <1>4 DEF Types
  <2>4. ScopedAt(t)' /\ EndedAt(t)' /\ EngineAt(t)' /\ JudgedAt(t)'
    BY <1>1, <1>2, <1>3, <2>2, <2>3 DEF ScopedAt, EndedAt, JudgedAt, EngineAt, Stays, Keeps, Snapshot,
       Exists, CallPcs, BothPcs, DestroyPcs, DbPcs
  <2>5. HeldAt(t)'
    BY <1>1, <1>2, <1>3, <2>2 DEF HeldAt, Stays, Ending, Settling, Made, BothPcs, DestroyPcs
  <2>6. AdmittedAt(t)' /\ (Claimed(t)' => Claimed(t))
    BY <1>1, <1>2, <1>3, <2>2 DEF AdmittedAt, Stays, Claimed, Inside, Snapshot, Made, Exists,
       CallPcs, BothPcs, DestroyPcs, Listed
  <2>7. Goto(t, pc)
    BY <1>4
  <2>. HIDE DEF pc
  <2>. QED
    BY <1>1, <1>2, <1>3, <2>1, <2>3, <2>4, <2>5, <2>6, <2>7, GotoKeeps DEF Types
<1>5. CASE /\ th[t].owed
           /\ th' = [th EXCEPT ![t].pc = RollbackFailed(t),
                               ![t].ret = IF Snapshot(t) THEN "finish" ELSE "release"]
           /\ UNCHANGED txn
  <2>. DEFINE pc == RollbackFailed(t)
              ret == IF Snapshot(t) THEN "finish" ELSE "release"
              n == [th[t] EXCEPT !.pc = pc, !.ret = ret]
  <2>1. /\ pc \in Pcs /\ ret \in Pcs /\ pc = (IF Snapshot(t) THEN "destroy_all" ELSE "discard")
        /\ ret = (IF Snapshot(t) THEN "finish" ELSE "release")
    BY DEF Pcs, RollbackFailed
  <2>2. th' = [th EXCEPT ![t] = n]
    BY <1>5
  <2>. HIDE DEF pc, ret
  <2>3. /\ n \in Locals /\ n.pc = pc /\ n.ret = ret
        /\ n.on = th[t].on /\ n.via = th[t].via /\ n.child = th[t].child
        /\ n.tx = th[t].tx /\ n.run = th[t].run /\ n.result = th[t].result
        /\ n.durable = th[t].durable
    BY <1>2, <2>1 DEF Locals
  <2>. HIDE DEF n
  <2>4. /\ Stays(t) /\ th'[t].pc = pc /\ th'[t].ret = ret /\ th'[t].durable = th[t].durable
        /\ th'[t].result = th[t].result
    BY <1>2, <2>2, <2>3 DEF Stays, Types
  <2>5. ScopedAt(t)' /\ EndedAt(t)' /\ EngineAt(t)' /\ JudgedAt(t)'
    BY <1>1, <1>2, <1>3, <1>5, <2>1, <2>4 DEF ScopedAt, EndedAt, JudgedAt, EngineAt, Stays,
       Exists, CallPcs, BothPcs, DestroyPcs, DbPcs
  <2>6. HeldAt(t)'
    BY <1>1, <1>2, <1>3, <2>1, <2>4 DEF HeldAt, Stays, Ending, Settling, Made, BothPcs, DestroyPcs
  <2>7. AdmittedAt(t)' /\ (Claimed(t)' => Claimed(t))
    BY <1>1, <1>2, <1>3, <2>1, <2>4 DEF AdmittedAt, Stays, Claimed, Inside, Snapshot, Made, Exists,
       CallPcs, BothPcs, DestroyPcs, Listed
  <2>8. ~DbClaimed(t)' /\ SharedAt(t)'
    BY <2>1, <2>4, NotServing DEF DbPcs, ClosingPcs, DestroyPcs
  <2>9. ThreadAt(t)'
    BY <2>5, <2>6, <2>7, <2>8 DEF ThreadAt
  <2>10. th'[t].pc \notin {"begin", "began"}
    BY <2>1, <2>4
  <2>. QED
    BY <1>1, <1>2, <1>5, <2>4, <2>7, <2>8, <2>9, <2>10, MoveKeeps DEF Stays, InScopes, Types
<1>. QED
  BY <1>4, <1>5 DEF Rollback

\* The database's connections are closed one after another.
LEMMA DatabaseNextKeeps ==
    ASSUME IInv, NEW t \in Threads, DatabaseNext(t)
    PROVE  IInv'
<1>1. th[t].pc = "db_next" /\ UNCHANGED <<gate, native, txn, db, tok, stmt, req, asleep>>
  BY DEF DatabaseNext
<1>2. /\ ScopedAt(t) /\ HeldAt(t) /\ AdmittedAt(t) /\ EndedAt(t) /\ EngineAt(t) /\ JudgedAt(t)
      /\ SharedAt(t) /\ Types /\ th[t] \in Locals /\ ~th[t].tx /\ ~th[t].run /\ DbClaimed(t)
  BY <1>1, BystanderTypes DEF ScopedAt, DbClaimed, DbPcs
<1>3. CASE th[t].conns = {} /\ Goto(t, "db_native")
  <2>1. "db_native" \in Pcs
    BY DEF Pcs
  <2>2. Stays(t) /\ Keeps(t) /\ th'[t].pc = "db_native"
    BY <1>3, <2>1, GotoIs
  <2>3. ScopedAt(t)' /\ EndedAt(t)' /\ EngineAt(t)' /\ JudgedAt(t)' /\ SharedAt(t)'
    BY <1>1, <1>2, <1>3, <2>2 DEF ScopedAt, EndedAt, JudgedAt, EngineAt, SharedAt, Stays, Keeps,
       DbClaimed, ClosingPcs, CallPcs, BothPcs, DestroyPcs, DbPcs
  <2>4. HeldAt(t)' /\ AdmittedAt(t)' /\ ~Claimed(t)'
    BY <1>1, <1>2, <2>2 DEF HeldAt, AdmittedAt, Claimed, Inside, Snapshot, Stays, Ending, Settling,
       Made, CallPcs, BothPcs, DestroyPcs
  <2>. QED
    BY <1>1, <1>2, <1>3, <2>1, <2>3, <2>4, GotoKeeps DEF Types
<1>4. ASSUME NEW c \in th[t].conns,
             th' = [th EXCEPT ![t].pc = "close_conn", ![t].on = c, ![t].ret = "db_next",
                              ![t].conns = @ \ {c}]
      PROVE  IInv'
  <2>. DEFINE left == th[t].conns \ {c}
              n == [th[t] EXCEPT !.pc = "close_conn", !.on = c, !.ret = "db_next", !.conns = left]
  <2>1. c \in Connections /\ left \subseteq Connections /\ "close_conn" \in Pcs /\ "db_next" \in Pcs
    BY <1>2, LocalIs DEF Pcs
  <2>2. th' = [th EXCEPT ![t] = n]
    BY <1>4
  <2>. HIDE DEF left
  <2>3. /\ n \in Locals /\ n.pc = "close_conn" /\ n.on = c /\ n.ret = "db_next" /\ n.conns = left
        /\ n.tx = th[t].tx /\ n.run = th[t].run /\ n.child = th[t].child
    BY <1>2, <2>1 DEF Locals
  <2>. HIDE DEF n
  <2>4. /\ InScopes(t) /\ th'[t].pc = "close_conn" /\ th'[t].on = c /\ th'[t].ret = "db_next"
        /\ th'[t].conns = left /\ ~th'[t].tx /\ ~th'[t].run /\ th'[t].child = th[t].child
    BY <1>2, <2>2, <2>3 DEF InScopes, Types
  <2>5. ScopedAt(t)' /\ EndedAt(t)' /\ EngineAt(t)' /\ JudgedAt(t)'
    BY <2>4 DEF ScopedAt, EndedAt, JudgedAt, EngineAt, CallPcs, BothPcs, DestroyPcs, DbPcs
  <2>6. SharedAt(t)' /\ DbClaimed(t)'
    <3>1. th[t].conns \subseteq {d \in Connections : Made(d)}
          /\ \A d \in Connections : native[d] = "open" => d \in th[t].conns
      BY <1>1, <1>2 DEF SharedAt
    <3>2. left \subseteq {d \in Connections : Made(d)}
          /\ \A d \in Connections : native[d] = "open" => d \in left \/ d = c
      BY <3>1 DEF left
    <3>3. db.busy /\ \A d \in Connections : native[d] # "opening"
      BY <1>1, <1>2 DEF SharedAt
    <3>. QED
      BY <1>1, <2>4, <3>2, <3>3 DEF SharedAt, DbClaimed, Made, ClosingPcs, DbPcs
  <2>7. HeldAt(t)' /\ AdmittedAt(t)' /\ ~Claimed(t)'
    <3>1. Made(c)
      BY <1>1, <1>2 DEF SharedAt
    <3>. QED
      BY <1>1, <1>2, <2>4, <3>1 DEF HeldAt, AdmittedAt, Claimed, Inside, Snapshot, Ending, Settling,
         Made, CallPcs, BothPcs, DestroyPcs
  <2>8. ThreadAt(t)'
    BY <2>5, <2>6, <2>7 DEF ThreadAt
  <2>. QED
    BY <1>1, <1>2, <2>4, <2>7, <2>8, MoveKeeps DEF Types
<1>. QED
  BY <1>3, <1>4 DEF DatabaseNext

\* The facade of a request is revoked.
LEMMA QuiesceKeeps ==
    ASSUME IInv, NEW t \in Threads, Quiesce(t)
    PROVE  IInv'
<1>. DEFINE c == th[t].on
<1>1. /\ (th[t].pc = "rest" /\ th[t].run /\ ~th[t].tx) \/ th[t].pc = "quiesce"
      /\ req' = [req EXCEPT ![t].state = "Quiescing"]
      /\ UNCHANGED <<gate, native, txn, db, tok, stmt>>
  BY DEF Quiesce
<1>2. /\ ScopedAt(t) /\ HeldAt(t) /\ AdmittedAt(t) /\ EndedAt(t) /\ EngineAt(t) /\ JudgedAt(t)
      /\ Types /\ th[t] \in Locals /\ ~th[t].tx /\ th[t].run
  BY <1>1, BystanderTypes DEF ScopedAt
<1>3. /\ req' \in [Threads -> Requests] /\ req'[t].state = "Quiescing"
      /\ \A u \in Threads \ {t} : req'[u] = req[u]
  BY <1>1, <1>2 DEF Types, Requests
<1>4. ASSUME NEW pc \in {"settle", "quiesce"}, Goto(t, pc), asleep' \subseteq Threads,
             pc = "settle" => ~gate[c].busy /\ gate[c].lease = Nobody
      PROVE  IInv'
  <2>1. pc \in Pcs /\ pc \notin DbPcs \cup ClosingPcs \cup {"begin", "began"}
    BY DEF Pcs, DbPcs, ClosingPcs, DestroyPcs
  <2>2. Stays(t) /\ Keeps(t) /\ th'[t].pc = pc
    BY <1>4, <2>1, GotoIs
  <2>3. ScopedAt(t)' /\ EndedAt(t)' /\ EngineAt(t)' /\ JudgedAt(t)'
    BY <1>1, <1>2, <2>2 DEF ScopedAt, EndedAt, JudgedAt, EngineAt, Stays, Keeps,
       Exists, CallPcs, BothPcs, DestroyPcs, DbPcs
  <2>4. HeldAt(t)'
    BY <1>1, <1>2, <1>3, <1>4, <2>2 DEF HeldAt, Stays, Ending, Settling, Made, BothPcs, DestroyPcs
  <2>5. AdmittedAt(t)' /\ ~Claimed(t)'
    BY <1>1, <1>2, <2>2 DEF AdmittedAt, Stays, Claimed, Inside, Snapshot, Made,
       CallPcs, BothPcs, DestroyPcs
  <2>. QED
    BY <1>1, <1>2, <1>3, <1>4, <2>1, <2>3, <2>4, <2>5, GotoKeeps DEF Types
<1>5. CASE Idle(gate[c]) /\ gate[c].lease = Nobody /\ Goto(t, "settle") /\ UNCHANGED asleep
  BY <1>2, <1>4, <1>5 DEF Idle, Types
<1>6. CASE Goto(t, "quiesce") /\ asleep' = asleep \cup {t}
  BY <1>2, <1>4, <1>6 DEF Types
<1>. QED
  BY <1>5, <1>6 DEF Quiesce

\* What the request prepared is going to be destroyed.
LEMMA SettleKeeps ==
    ASSUME IInv, NEW t \in Threads, Settle(t)
    PROVE  IInv'
<1>. DEFINE c == th[t].on
            todo == {k \in Listed(c) : stmt[k].via = t}
            n == [th[t] EXCEPT !.pc = "destroy", !.ret = "req_settle", !.todo = todo]
<1>1. /\ th[t].pc = "settle" /\ req' = [req EXCEPT ![t].state = "Settling"]
      /\ UNCHANGED <<gate, native, txn, db, tok, stmt, asleep>>
      /\ th' = [th EXCEPT ![t] = n]
  BY DEF Settle
<1>2. /\ ScopedAt(t) /\ HeldAt(t) /\ AdmittedAt(t) /\ Types /\ th[t] \in Locals
      /\ ~th[t].tx /\ th[t].run
  BY <1>1, BystanderTypes DEF ScopedAt
<1>3. /\ req' \in [Threads -> Requests] /\ req'[t].state = "Settling"
      /\ \A u \in Threads \ {t} : req'[u] = req[u]
  BY <1>1, <1>2 DEF Types, Requests
<1>4. todo \subseteq Threads /\ "destroy" \in Pcs /\ "req_settle" \in Pcs
  BY DEF Listed, Pcs
<1>5. \A k \in todo : Exists(k) /\ stmt[k].on = c
  BY DEF Listed
<1>6. ASSUME NEW k \in Threads, Exists(k), stmt[k].via = t
      PROVE  k \in todo
  <2>1. gate[stmt[k].on].request = t /\ stmt[k].on \in Connections /\ Leases
    BY <1>2, <1>6, BystanderTypes, ChildIs, NobodyAssumption DEF ListedAt
  <2>. QED
    BY <1>6, <2>1 DEF Leases, Listed
<1>. HIDE DEF todo
<1>7. /\ n \in Locals /\ n.pc = "destroy" /\ n.ret = "req_settle" /\ n.todo = todo
      /\ n.on = th[t].on /\ n.tx = th[t].tx /\ n.run = th[t].run /\ n.child = th[t].child
  BY <1>2, <1>4 DEF Locals
<1>. HIDE DEF n
<1>8. /\ InScopes(t) /\ th'[t].pc = "destroy" /\ th'[t].on = th[t].on
      /\ th'[t].ret = "req_settle" /\ th'[t].todo = todo /\ ~th'[t].tx /\ th'[t].run
      /\ th'[t].child = th[t].child
  BY <1>1, <1>2, <1>7 DEF InScopes, Types
<1>9. ScopedAt(t)' /\ EngineAt(t)' /\ JudgedAt(t)'
  BY <1>8 DEF ScopedAt, JudgedAt, EngineAt, CallPcs, BothPcs, DestroyPcs, DbPcs
<1>10. EndedAt(t)'
  BY <1>1, <1>5, <1>6, <1>8 DEF EndedAt, Exists
<1>11. HeldAt(t)'
  BY <1>1, <1>2, <1>3, <1>8 DEF HeldAt, Ending, Settling, Made
<1>12. AdmittedAt(t)' /\ ~Claimed(t)'
  BY <1>1, <1>2, <1>8 DEF AdmittedAt, Claimed, Inside, Snapshot, Made, CallPcs, BothPcs, DestroyPcs
<1>13. ~DbClaimed(t)' /\ SharedAt(t)'
  BY <1>8, NotServing DEF DbPcs, ClosingPcs, DestroyPcs
<1>14. ThreadAt(t)'
  BY <1>9, <1>10, <1>11, <1>12, <1>13 DEF ThreadAt
<1>. QED
  BY <1>1, <1>2, <1>3, <1>8, <1>12, <1>13, <1>14, MoveKeeps DEF Types

\* A request is cancelled.
LEMMA CancelKeeps ==
    ASSUME IInv, NEW t \in Threads, Cancel(t)
    PROVE  IInv'
<1>1. /\ req' = [req EXCEPT ![t].cancelled = TRUE]
      /\ UNCHANGED <<gate, native, txn, db, tok, stmt, th, asleep>>
  BY DEF Cancel
<1>2. /\ ThreadAt(t) /\ Types
      /\ th[t].tx \in BOOLEAN /\ th[t].run \in BOOLEAN
  BY BystanderTypes, LocalIs DEF IInv
<1>3. /\ req' \in [Threads -> Requests] /\ req'[t].state = req[t].state
      /\ \A u \in Threads \ {t} : req'[u] = req[u]
  BY <1>1, <1>2 DEF Types, Requests
<1>4. /\ Claimed(t)' <=> Claimed(t)
      /\ DbClaimed(t)' <=> DbClaimed(t)
  BY <1>1 DEF Claimed, DbClaimed, Snapshot
<1>5. ThreadAt(t)'
  <2>1. ScopedAt(t)' /\ EndedAt(t)' /\ EngineAt(t)' /\ JudgedAt(t)' /\ SharedAt(t)'
    BY <1>1, <1>2, <1>4 DEF ThreadAt, ScopedAt, EndedAt, EngineAt, JudgedAt, SharedAt, Exists, Made
  <2>2. HeldAt(t)'
    BY <1>1, <1>2, <1>3 DEF ThreadAt, HeldAt, Ending, Settling, Made
  <2>3. AdmittedAt(t)'
    BY <1>1, <1>2, <1>4 DEF ThreadAt, AdmittedAt, Inside, Snapshot, Exists, Listed, Made
  <2>. QED
    BY <2>1, <2>2, <2>3 DEF ThreadAt
<1>. QED
  BY <1>1, <1>2, <1>3, <1>4, <1>5, MoveKeeps DEF InScopes, Types

\* An operation that has the connection gives it back.
LEMMA FinishOperationKeeps ==
    ASSUME IInv, NEW t \in Threads,
           th[t].pc \in {"operate", "prepare", "finish"},
           Set(th[t].on, FinishOperation(gate[th[t].on])), Signal(th[t].on), Rest(t),
           UNCHANGED <<native, txn, db, stmt, req>>,
           tok' \in [Threads -> Tokens],
           \A u \in Threads :
               /\ tok'[u].active = tok[u].active /\ tok'[u].via = tok[u].via
               /\ tok'[u].poisoned = tok[u].poisoned \/ (gate[th[t].on].lease = u /\ Claimed(t))
    PROVE  IInv'
<1>0. PICK c \in Connections : c = th[t].on
  BY BystanderTypes
<1>. DEFINE g == gate[c]
            h == FinishOperation(g)
<1>1. /\ ScopedAt(t) /\ HeldAt(t) /\ AdmittedAt(t) /\ EndedAt(t) /\ EngineAt(t) /\ JudgedAt(t)
      /\ Types /\ c \in Connections /\ g \in OwnerGate /\ th[t].tx \in BOOLEAN /\ th[t].run \in BOOLEAN
      /\ GatedAt(c)
  BY <1>0, BystanderTypes, LocalIs
<1>2. /\ h \in OwnerGate /\ ~h.busy /\ h.state = g.state /\ h.lease = g.lease
      /\ h.request = g.request /\ h.result = g.result
  BY <1>1, GateOperators
<1>3. /\ gate' \in [Connections -> OwnerGate] /\ gate'[c] = h
      /\ \A d \in Connections \ {c} : gate'[d] = gate[d]
  BY <1>0, <1>1, <1>2, SetIs
<1>4. Returns(t)
  BY RestIs
<1>. HIDE DEF h
<1>5. Claimed(t) \/ g.state = "Closed_state"
  BY <1>0 DEF Claimed
<1>6. ASSUME NEW u \in Threads \ {t}, th[u].on = c
      PROVE  Undisturbed(u)
  <2>1. CASE Claimed(t)
    BY <1>0, <1>2, <1>3, <1>6, <2>1, SoleUndisturbs DEF Sole
  <2>2. CASE g.state = "Closed_state"
    <3>1. ~g.busy
      BY <1>1, <2>2 DEF GatedAt
    <3>2. ~Claimed(u)
      BY <1>0, <1>6, <2>2, ClaimIsOpen
    <3>. QED
      BY <1>2, <1>3, <1>6, <3>1, <3>2 DEF Undisturbed
  <2>. QED
    BY <1>5, <2>1, <2>2
<1>7. ASSUME NEW u \in Threads \ {t}
      PROVE  tok'[u].poisoned = tok[u].poisoned \/ ~Quiet(u)
  <2>1. ASSUME gate[c].lease = u, Claimed(t)
        PROVE  ~Quiet(u)
    <3>1. th[u].on = c
      BY <1>1, <2>1, BystanderTypes DEF Leases
    <3>. QED
      BY <1>0, <2>1, <3>1, SoleIs DEF Sole
  <2>. QED
    BY <1>0, <2>1
<1>8. InScopes(t) /\ th'[t].child = Nobody /\ th'[t].pc = "rest"
  BY <1>4 DEF Returns, InScopes
<1>9. TypeOK'
  <2>1. /\ req' \in [Threads -> Requests] /\ asleep' \subseteq Threads
        /\ \A d \in Connections :
               /\ gate'[d].lease \in {gate[d].lease, Nobody}
               /\ gate'[d].request \in {gate[d].request, Nobody}
    BY <1>1, <1>2, <1>3 DEF Types, Signal
  <2>. QED
    BY <1>3, <1>8, <2>1, GateTypes
<1>10. ThreadAt(t)' /\ ~Claimed(t)' /\ ~DbClaimed(t)'
  <2>1. ScopedAt(t)' /\ EndedAt(t)' /\ EngineAt(t)'
    BY <1>4 DEF Returns, ScopedAt, EndedAt, EngineAt, CallPcs, BothPcs, DestroyPcs, DbPcs
  <2>2. JudgedAt(t)'
    BY <1>4 DEF Returns, JudgedAt, DestroyPcs
  <2>3. HeldAt(t)'
    BY <1>0, <1>1, <1>2, <1>3, <1>4 DEF Returns, HeldAt, Ending, Settling, Made, DestroyPcs
  <2>4. AdmittedAt(t)' /\ ~Claimed(t)'
    BY <1>4 DEF Returns, AdmittedAt, Claimed, Inside, Snapshot, CallPcs, BothPcs, DestroyPcs
  <2>5. ~DbClaimed(t)' /\ SharedAt(t)'
    BY <1>8, NotServing DEF DbPcs, ClosingPcs, DestroyPcs
  <2>. QED
    BY <2>1, <2>2, <2>3, <2>4, <2>5 DEF ThreadAt
<1>11. ASSUME NEW k \in Threads
       PROVE  ListedAt(k)'
  <2>1. /\ \A d \in Connections : gate'[d].lease = gate[d].lease /\ gate'[d].request = gate[d].request
        /\ \A u \in Threads : tok'[u].via = tok[u].via
        /\ \A u \in Threads \ {t} : th'[u] = th[u]
        /\ th[t].tx => th'[t].tx /\ (th'[t].pc \in {"begin", "began"} => th[t].pc \in {"begin", "began"})
    BY <1>2, <1>3, <1>8 DEF InScopes
  <2>. QED
    BY <2>1, ListedStays
<1>12. ConnectionAt(c)'
  <2>1. ConnectionAt(c) /\ Listed(c)' = Listed(c)
    BY DEF IInv, Listed, Exists
  <2>2. txn[c] => g.lease # Nobody
    BY <1>0, <1>1, <2>1 DEF EngineAt, ConnectionAt, GatedAt
  <2>3. native[c] = "closed" => g.state = "Closed_state"
    BY <1>0, <1>1, <1>5 DEF AdmittedAt, Inside, DestroyPcs
  <2>. QED
    BY <1>2, <1>3, <2>1, <2>2, <2>3 DEF ConnectionAt, GatedAt, Made
<1>. QED
  BY <1>1, <1>3, <1>6, <1>7, <1>8, <1>9, <1>10, <1>11, <1>12, GateKeeps DEF InScopes

\* The statement of the connection ran, or its appender failed.
LEMMA OperateReturnKeeps ==
    ASSUME IInv, NEW t \in Threads, OperateReturn(t)
    PROVE  IInv'
<1>1. /\ th[t].pc = "operate" /\ Set(th[t].on, FinishOperation(gate[th[t].on])) /\ Signal(th[t].on)
      /\ Rest(t) /\ UNCHANGED <<native, txn, db, stmt, req>>
  BY DEF OperateReturn
<1>2. Types /\ Claimed(t)
  BY <1>1, BystanderTypes DEF Claimed
<1>3. CASE UNCHANGED tok
  BY <1>1, <1>2, <1>3, FinishOperationKeeps DEF Types
<1>4. CASE /\ gate[th[t].on].lease # Nobody
           /\ tok' = [tok EXCEPT ![gate[th[t].on].lease].poisoned = TRUE]
  <2>1. PICK tx \in Threads : tx = gate[th[t].on].lease
    BY <1>4, BystanderTypes, GateIs DEF Anybody
  <2>2. /\ tok' \in [Threads -> Tokens]
        /\ \A u \in Threads :
               /\ tok'[u].active = tok[u].active /\ tok'[u].via = tok[u].via
               /\ u # tx => tok'[u].poisoned = tok[u].poisoned
    <3>1. tok' = [tok EXCEPT ![tx].poisoned = TRUE] /\ tok \in [Threads -> Tokens]
      BY <1>2, <1>4, <2>1 DEF Types
    <3>. QED
      BY <3>1 DEF Tokens
  <2>. QED
    BY <1>1, <1>2, <2>1, <2>2, FinishOperationKeeps
<1>. QED
  BY <1>3, <1>4 DEF OperateReturn

\* The operation is over.
LEMMA FinishKeeps ==
    ASSUME IInv, NEW t \in Threads, Finish(t)
    PROVE  IInv'
<1>1. Types
  BY BystanderTypes
<1>. QED
  BY <1>1, FinishOperationKeeps DEF Finish, Types

\* A step on the gate of one connection that leaves its scopes alone.
LEMMA GateMoveKeeps ==
    ASSUME IInv, NEW t \in Threads, NEW c \in Connections, NEW h \in OwnerGate, Set(c, h),
           h.lease = gate[c].lease, h.request = gate[c].request,
           InScopes(t), UNCHANGED <<native, txn, db, tok, stmt, req>>, asleep' \subseteq Threads,
           th[t].tx /\ th'[t].pc \in {"begin", "began"} => th[t].pc \in {"begin", "began"},
           \A u \in Threads \ {t} : th[u].on = c => Undisturbed(u),
           th'[t].child \in {th[t].child, Nobody} \/ Exists(th'[t].child),
           Claimed(t)' => \A u \in Threads \ {t} : Claimed(u) => th[u].on # th'[t].on,
           DbClaimed(t)' => \A u \in Threads \ {t} : ~DbClaimed(u),
           ThreadAt(t)',
           h.state = "Closed_state" => native[c] = "closed" /\ ~h.busy,
           h.result # Nobody => h.result \in Listed(c),
           native[c] = "closed" => h.busy \/ h.state = "Closed_state",
           txn[c] => h.busy \/ h.lease # Nobody
    PROVE  IInv'
<1>1. /\ gate' \in [Connections -> OwnerGate] /\ gate'[c] = h
      /\ \A d \in Connections \ {c} : gate'[d] = gate[d]
  BY SetIs
<1>2. Types
  BY TypesAre DEF IInv
<1>3. TypeOK'
  <2>1. /\ tok' \in [Threads -> Tokens] /\ req' \in [Threads -> Requests]
        /\ \A d \in Connections :
               /\ gate'[d].lease \in {gate[d].lease, Nobody}
               /\ gate'[d].request \in {gate[d].request, Nobody}
    BY <1>1, <1>2 DEF Types
  <2>. QED
    BY <1>1, <2>1, GateTypes
<1>4. ASSUME NEW k \in Threads
      PROVE  ListedAt(k)'
  <2>1. /\ \A d \in Connections : gate'[d].lease = gate[d].lease /\ gate'[d].request = gate[d].request
        /\ \A u \in Threads : tok'[u].via = tok[u].via
        /\ \A u \in Threads \ {t} : th'[u] = th[u]
        /\ th[t].tx => th'[t].tx /\ (th'[t].pc \in {"begin", "began"} => th[t].pc \in {"begin", "began"})
    BY <1>1 DEF InScopes
  <2>. QED
    BY <2>1, ListedStays
<1>5. ConnectionAt(c)'
  <2>1. ConnectionAt(c) /\ Listed(c)' = Listed(c)
    BY DEF IInv, Listed, Exists
  <2>. QED
    BY <1>1, <2>1 DEF ConnectionAt, GatedAt, Made
<1>. QED
  BY <1>1, <1>3, <1>4, <1>5, GateKeeps DEF InScopes

\* Nobody is admitted to a connection, or relies on its being quiet, when its gate is
\* about to admit somebody.
LEMMA VacantIs ==
    ASSUME IInv, NEW t \in Threads, ~Settling(t), NEW c \in Connections,
           gate[c].state # "Closed_state", ~gate[c].busy,
           gate[c].request \in {Nobody, t} \/ Running(gate[c].request),
           \/ gate[c].lease = Nobody
           \/ tok[gate[c].lease].active /\ th[gate[c].lease].pc \notin {"begin", "began"},
           NEW u \in Threads, th[u].on = c
    PROVE  ~Claimed(u) /\ ~Quiet(u)
<1>1. /\ HeldAt(u) /\ AdmittedAt(u) /\ JudgedAt(u) /\ ScopedAt(u) /\ u # Nobody
  BY BystanderTypes, NobodyAssumption
<1>2. ~Claimed(u)
  BY ClaimIsOpen
<1>3. ASSUME Settling(u)
      PROVE  FALSE
  <2>1. gate[c].request = u /\ req[u].state # "Running"
    BY <1>1, <1>3 DEF HeldAt, Settling, ScopedAt
  <2>. QED
    BY <1>1, <1>3, <2>1 DEF Running
<1>4. ASSUME Ending(u) \/ (th[u].tx /\ (th[u].pc \in {"begin", "began", "release"} \/ th[u].durable))
      PROVE  FALSE
  <2>1. gate[c].lease = u
    BY <1>1, <1>4 DEF HeldAt, Ending, JudgedAt, DestroyPcs
  <2>. QED
    BY <1>1, <1>4, <2>1 DEF HeldAt, JudgedAt
<1>. QED
  BY <1>2, <1>3, <1>4 DEF Quiet

\* So it may claim the connection.
LEMMA ClaimUndisturbs ==
    ASSUME IInv, NEW u \in Threads, ~Claimed(u), ~Quiet(u),
           gate'[th[u].on] \in OwnerGate,
           gate[th[u].on].state # "Closed_state",
           gate'[th[u].on].lease = gate[th[u].on].lease,
           gate'[th[u].on].request = gate[th[u].on].request,
           gate'[th[u].on].state \in {gate[th[u].on].state, "Closing"}
    PROVE  Undisturbed(u)
BY DEF Undisturbed, Quiet

\* A step of an operation on the result of the connection.
LEMMA ResultKeeps ==
    ASSUME IInv, NEW t \in Threads, th[t].pc \in {"publish", "close_result"}, Goto(t, "finish"),
           NEW c \in Connections, c = th[t].on, NEW h \in OwnerGate, Set(c, h),
           h.lease = gate[c].lease, h.request = gate[c].request,
           h.busy = gate[c].busy, h.state = gate[c].state,
           h.result # Nobody => h.result \in Listed(c),
           UNCHANGED <<native, txn, db, tok, stmt, req, asleep>>
    PROVE  IInv'
<1>1. Stays(t) /\ Keeps(t) /\ th'[t].pc = "finish"
  BY GotoIs DEF Pcs
<1>2. /\ ScopedAt(t) /\ HeldAt(t) /\ AdmittedAt(t) /\ EndedAt(t) /\ EngineAt(t) /\ JudgedAt(t)
      /\ SharedAt(t) /\ Types /\ Claimed(t) /\ gate[c].state # "Closed_state" /\ gate[c].busy
  BY BystanderTypes, ClaimIsOpen DEF Claimed, CallPcs
<1>3. /\ gate' \in [Connections -> OwnerGate] /\ gate'[c] = h
      /\ \A d \in Connections \ {c} : gate'[d] = gate[d]
  BY SetIs
<1>4. ScopedAt(t)' /\ EndedAt(t)' /\ EngineAt(t)'
  BY <1>1, <1>2, <1>3 DEF ScopedAt, EndedAt, EngineAt, Stays, Keeps, Exists,
     CallPcs, BothPcs, DestroyPcs, DbPcs
<1>5. JudgedAt(t)'
  BY <1>1, <1>2, <1>3 DEF JudgedAt, Stays, Keeps, DestroyPcs
<1>6. HeldAt(t)'
  BY <1>1, <1>2, <1>3 DEF HeldAt, Stays, Keeps, Ending, Settling, Made, DestroyPcs
<1>7. AdmittedAt(t)' /\ Claimed(t)'
  <2>1. th'[t].pc = "finish" /\ th'[t].on = c /\ gate'[c] = h /\ native' = native
    BY <1>1, <1>3 DEF Stays
  <2>2. /\ h.busy /\ h.state # "Closed_state" /\ native[c] = "open" /\ h.request \in {Nobody, t}
    BY <1>2 DEF AdmittedAt, Inside, CallPcs, DestroyPcs
  <2>. QED
    BY <2>1, <2>2 DEF AdmittedAt, Claimed, Inside, CallPcs, BothPcs, DestroyPcs
<1>8. ~DbClaimed(t)' /\ SharedAt(t)'
  BY <1>1, NotServing DEF DbPcs, ClosingPcs, DestroyPcs
<1>9. ThreadAt(t)'
  BY <1>4, <1>5, <1>6, <1>7, <1>8 DEF ThreadAt
<1>10. ASSUME NEW u \in Threads \ {t}, th[u].on = c
       PROVE  Undisturbed(u)
  BY <1>2, <1>3, <1>10, SoleUndisturbs DEF Sole
<1>11. Claimed(t)' => \A u \in Threads \ {t} : Claimed(u) => th[u].on # th'[t].on
  BY <1>1, <1>2 DEF IInv, ExcludesAt, Stays
<1>12. /\ InScopes(t) /\ th'[t].child = th[t].child /\ th'[t].pc \notin {"begin", "began"}
       /\ asleep' \subseteq Threads
  BY <1>1, <1>2 DEF Stays, InScopes, Types
<1>. QED
  BY <1>2, <1>8, <1>9, <1>10, <1>11, <1>12, GateMoveKeeps

\* A statement publishes its result: the connection is its from now on.
LEMMA PublishKeeps ==
    ASSUME IInv, NEW t \in Threads, Publish(t)
    PROVE  IInv'
<1>0. PICK c \in Connections : c = th[t].on
  BY BystanderTypes
<1>1. /\ th[t].pc = "publish" /\ Goto(t, "finish")
      /\ UNCHANGED <<native, txn, db, tok, stmt, req, asleep>>
  BY DEF Publish
<1>2. PICK h \in OwnerGate :
        /\ Set(c, h) /\ h.lease = gate[c].lease /\ h.request = gate[c].request
        /\ h.busy = gate[c].busy /\ h.state = gate[c].state
        /\ h.result \in {gate[c].result, th[t].child}
  <2>1. th[t].child \in Anybody /\ gate[c] \in OwnerGate
    BY <1>0, BystanderTypes, LocalIs
  <2>2. CASE Set(c, [gate[c] EXCEPT !.result = th[t].child])
    BY <2>1, <2>2, ResultOperators
  <2>3. CASE UNCHANGED gate
    BY <2>1, <2>3, BystanderTypes DEF Set, Types
  <2>. QED
    BY <1>0, <2>2, <2>3 DEF Publish
<1>3. h.result # Nobody => h.result \in Listed(c)
  <2>1. th[t].child \in Threads => th[t].child \in Listed(c)
    BY <1>0, <1>1, BystanderTypes DEF AdmittedAt, CallPcs, Listed
  <2>. QED
    BY <1>2, <2>1, BystanderTypes, LocalIs DEF IInv, ConnectionAt, Anybody
<1>. QED
  BY <1>0, <1>1, <1>2, <1>3, ResultKeeps

\* A statement's result is released, or its fold was stopped before.
LEMMA CloseResultReturnKeeps ==
    ASSUME IInv, NEW t \in Threads, CloseResultReturn(t)
    PROVE  IInv'
<1>0. PICK c \in Connections : c = th[t].on
  BY BystanderTypes
<1>1. /\ th[t].pc = "close_result" /\ Goto(t, "finish")
      /\ UNCHANGED <<native, txn, db, tok, stmt, req, asleep>>
  BY DEF CloseResultReturn
<1>2. PICK h \in OwnerGate :
        /\ Set(c, h) /\ h.lease = gate[c].lease /\ h.request = gate[c].request
        /\ h.busy = gate[c].busy /\ h.state = gate[c].state
        /\ h.result \in {gate[c].result, Nobody}
  <2>. DEFINE left == IF gate[c].result = th[t].child THEN Nobody ELSE gate[c].result
  <2>1. gate[c] \in OwnerGate /\ left \in Anybody /\ left \in {gate[c].result, Nobody}
    BY <1>0, BystanderTypes, GateIs DEF Anybody
  <2>2. CASE Set(c, ReleaseResult(gate[c], th[t].child))
    <3>1. Set(c, [gate[c] EXCEPT !.result = left])
      BY <2>2 DEF ReleaseResult
    <3>. HIDE DEF left
    <3>. QED
      BY <2>1, <3>1, ResultOperators
  <2>3. CASE UNCHANGED gate
    BY <2>1, <2>3, BystanderTypes DEF Set, Types
  <2>. QED
    BY <1>0, <2>2, <2>3 DEF CloseResultReturn
<1>3. h.result # Nobody => h.result \in Listed(c)
  BY <1>2 DEF IInv, ConnectionAt
<1>. QED
  BY <1>0, <1>1, <1>2, <1>3, ResultKeeps

\* The connection of a transaction that could not be rolled back is given up.
LEMMA DiscardKeeps ==
    ASSUME IInv, NEW t \in Threads, Discard(t)
    PROVE  IInv'
<1>0. PICK c \in Connections : c = th[t].on
  BY BystanderTypes
<1>. DEFINE h == BeginDiscard(gate[c])
<1>1. /\ th[t].pc = "discard" /\ Goto(t, "unlease") /\ Set(c, h)
      /\ UNCHANGED <<native, txn, db, tok, stmt, req, asleep>>
  BY <1>0 DEF Discard
<1>2. /\ ScopedAt(t) /\ HeldAt(t) /\ AdmittedAt(t) /\ EndedAt(t) /\ EngineAt(t) /\ JudgedAt(t)
      /\ Types /\ th[t].tx /\ Ending(t) /\ ~gate[c].busy /\ gate[c].lease = t /\ t # Nobody
      /\ gate[c].request \in {Nobody, t} /\ Made(c) /\ ~tok[t].active
  BY <1>0, <1>1, BystanderTypes, NobodyAssumption, LeaseExcludes
     DEF ScopedAt, HeldAt, Ending, DestroyPcs
<1>3. native[c] = "open" /\ gate[c].state # "Closed_state"
  BY <1>2, LeaseIsOpen DEF Made
<1>4. /\ h \in OwnerGate /\ h.busy /\ h.state = "Closing" /\ h.lease = gate[c].lease
      /\ h.request = gate[c].request /\ h.result = gate[c].result
  BY <1>0, BystanderTypes, GateOperators
<1>. HIDE DEF h
<1>5. gate'[c] = h /\ Stays(t) /\ Keeps(t) /\ th'[t].pc = "unlease"
  BY <1>1, <1>4, SetIs, GotoIs DEF Pcs
<1>6. ScopedAt(t)' /\ EndedAt(t)' /\ EngineAt(t)' /\ JudgedAt(t)'
  BY <1>0, <1>1, <1>2, <1>5 DEF ScopedAt, EndedAt, JudgedAt, EngineAt, Stays, Keeps, Exists,
     CallPcs, BothPcs, DestroyPcs, DbPcs
<1>7. HeldAt(t)'
  BY <1>0, <1>1, <1>2, <1>4, <1>5 DEF HeldAt, Stays, Ending, Settling, Made, DestroyPcs
<1>8. AdmittedAt(t)'
  BY <1>0, <1>1, <1>2, <1>3, <1>4, <1>5 DEF AdmittedAt, Stays, Claimed, Inside, Snapshot,
     CallPcs, BothPcs, DestroyPcs
<1>9. ~DbClaimed(t)' /\ SharedAt(t)'
  BY <1>5, NotServing DEF DbPcs, ClosingPcs, DestroyPcs
<1>10. ThreadAt(t)'
  BY <1>6, <1>7, <1>8, <1>9 DEF ThreadAt
<1>11. ASSUME NEW u \in Threads \ {t}, th[u].on = c
       PROVE  ~Claimed(u) /\ Undisturbed(u)
  BY <1>0, <1>2, <1>3, <1>4, <1>5, <1>11, SoleIs, SoleUndisturbs DEF Sole
<1>12. /\ InScopes(t) /\ th'[t].child = th[t].child /\ asleep' \subseteq Threads /\ th'[t].on = c
  BY <1>0, <1>1, <1>2, <1>5 DEF Stays, InScopes, Types
<1>13. h.result # Nobody => h.result \in Listed(c)
  BY <1>4 DEF IInv, ConnectionAt
<1>. QED
  BY <1>1, <1>4, <1>5, <1>9, <1>10, <1>11, <1>12, <1>13, GateMoveKeeps

\* The connection is closed for everybody.
LEMMA MarkKeeps ==
    ASSUME IInv, NEW t \in Threads, Mark(t)
    PROVE  IInv'
<1>0. PICK c \in Connections : c = th[t].on
  BY BystanderTypes
<1>. DEFINE h == MarkClosed(gate[c])
<1>1. /\ th[t].pc = "mark" /\ Goto(t, "unregister") /\ Set(c, h) /\ Signal(c)
      /\ UNCHANGED <<native, txn, db, tok, stmt, req>>
  BY <1>0 DEF Mark
<1>2. /\ ScopedAt(t) /\ HeldAt(t) /\ AdmittedAt(t) /\ EndedAt(t) /\ EngineAt(t) /\ JudgedAt(t)
      /\ SharedAt(t) /\ Types /\ Claimed(t) /\ native[c] = "closed" /\ ~txn[c]
  BY <1>0, <1>1, BystanderTypes DEF Claimed, AdmittedAt, EngineAt, DestroyPcs
<1>4. /\ h \in OwnerGate /\ ~h.busy /\ h.state = "Closed_state" /\ h.lease = gate[c].lease
      /\ h.request = gate[c].request /\ h.result = gate[c].result
  BY <1>0, BystanderTypes, GateOperators
<1>. HIDE DEF h
<1>5. gate'[c] = h /\ Stays(t) /\ Keeps(t) /\ th'[t].pc = "unregister"
  BY <1>1, <1>4, SetIs, GotoIs DEF Pcs
<1>6. ScopedAt(t)' /\ EndedAt(t)' /\ EngineAt(t)' /\ JudgedAt(t)'
  BY <1>0, <1>1, <1>2, <1>5 DEF ScopedAt, EndedAt, JudgedAt, EngineAt, Stays, Keeps, Exists,
     CallPcs, BothPcs, DestroyPcs, DbPcs
<1>7. HeldAt(t)'
  BY <1>0, <1>1, <1>2, <1>4, <1>5 DEF HeldAt, Stays, Ending, Settling, Made, DestroyPcs
<1>8. AdmittedAt(t)' /\ ~Claimed(t)'
  BY <1>0, <1>1, <1>2, <1>4, <1>5 DEF AdmittedAt, Stays, Claimed, Inside, Snapshot,
     CallPcs, BothPcs, DestroyPcs
<1>9. /\ DbClaimed(t)' => DbClaimed(t)
      /\ SharedAt(t)'
  BY <1>1, <1>2, <1>5 DEF SharedAt, DbClaimed, Stays, Keeps, Made, DbPcs, ClosingPcs, DestroyPcs
<1>10. ThreadAt(t)'
  BY <1>6, <1>7, <1>8, <1>9 DEF ThreadAt
<1>11. ASSUME NEW u \in Threads \ {t}, th[u].on = c
       PROVE  Undisturbed(u)
  BY <1>0, <1>2, <1>4, <1>5, <1>11, SoleUndisturbs DEF Sole
<1>12. /\ InScopes(t) /\ th'[t].child = th[t].child /\ asleep' \subseteq Threads
       /\ th'[t].pc \notin {"begin", "began"}
  BY <1>1, <1>2, <1>5 DEF Stays, InScopes, Types, Signal
<1>13. h.result # Nobody => h.result \in Listed(c)
  BY <1>4 DEF IInv, ConnectionAt
<1>14. DbClaimed(t)' => \A u \in Threads \ {t} : ~DbClaimed(u)
  BY <1>9 DEF IInv, ExcludesAt
<1>. QED
  BY <1>1, <1>2, <1>4, <1>8, <1>10, <1>11, <1>12, <1>13, <1>14, GateMoveKeeps

\* A request is detached; an interrupted connection is given up.
LEMMA RequestSettleKeeps ==
    ASSUME IInv, NEW t \in Threads, RequestSettle(t)
    PROVE  IInv'
<1>0. PICK c \in Connections : c = th[t].on
  BY BystanderTypes
<1>1. /\ th[t].pc = "req_settle" /\ UNCHANGED <<native, txn, db, tok, stmt, req, asleep>>
  BY DEF RequestSettle
<1>2. /\ ScopedAt(t) /\ HeldAt(t) /\ AdmittedAt(t) /\ EndedAt(t) /\ EngineAt(t) /\ JudgedAt(t)
      /\ Types /\ Settling(t) /\ ~th[t].tx /\ th[t].run /\ gate[c].request = t /\ t # Nobody
      /\ gate[c].lease = Nobody /\ ~gate[c].busy /\ Made(c) /\ th[t] \in Locals
  BY <1>0, <1>1, BystanderTypes, NobodyAssumption DEF ScopedAt, HeldAt, Settling
<1>3. CASE Goto(t, "req_finish") /\ UNCHANGED gate
  <2>1. "req_finish" \in Pcs /\ "req_finish" \notin DbPcs \cup ClosingPcs \cup {"begin", "began"}
    BY DEF Pcs, DbPcs, ClosingPcs, DestroyPcs
  <2>2. Stays(t) /\ Keeps(t) /\ th'[t].pc = "req_finish"
    BY <1>3, <2>1, GotoIs
  <2>3. ScopedAt(t)' /\ EndedAt(t)' /\ EngineAt(t)' /\ JudgedAt(t)'
    BY <1>1, <1>2, <2>2 DEF ScopedAt, EndedAt, JudgedAt, EngineAt, Stays, Keeps, Exists,
       CallPcs, BothPcs, DestroyPcs, DbPcs
  <2>4. HeldAt(t)'
    BY <1>1, <1>2, <1>3, <2>2 DEF HeldAt, Stays, Ending, Settling, Made, DestroyPcs
  <2>5. AdmittedAt(t)' /\ ~Claimed(t)'
    BY <1>1, <1>2, <2>2 DEF AdmittedAt, Stays, Claimed, Inside, Snapshot, CallPcs, BothPcs, DestroyPcs
  <2>. QED
    BY <1>1, <1>2, <1>3, <2>1, <2>3, <2>4, <2>5, GotoKeeps DEF Types
<1>4. CASE /\ Set(c, BeginDiscard(gate[c]))
           /\ th' = [th EXCEPT ![t].pc = "destroy_all", ![t].ret = "req_finish"]
  <2>. DEFINE h == BeginDiscard(gate[c])
              n == [th[t] EXCEPT !.pc = "destroy_all", !.ret = "req_finish"]
  <2>1. /\ h \in OwnerGate /\ h.busy /\ h.state = "Closing" /\ h.lease = gate[c].lease
        /\ h.request = gate[c].request /\ h.result = gate[c].result
    BY <1>0, BystanderTypes, GateOperators
  <2>2. Set(c, h) /\ th' = [th EXCEPT ![t] = n]
    BY <1>4
  <2>. HIDE DEF h
  <2>3. "destroy_all" \in Pcs /\ "req_finish" \in Pcs
    BY DEF Pcs
  <2>4. /\ n \in Locals /\ n.pc = "destroy_all" /\ n.ret = "req_finish"
        /\ n.on = th[t].on /\ n.child = th[t].child /\ n.tx = th[t].tx /\ n.run = th[t].run
    BY <1>2, <2>3 DEF Locals
  <2>. HIDE DEF n
  <2>5. /\ InScopes(t) /\ th'[t].pc = "destroy_all" /\ th'[t].ret = "req_finish" /\ th'[t].on = c
        /\ th'[t].child = th[t].child /\ ~th'[t].tx /\ th'[t].run /\ gate'[c] = h
    BY <1>0, <1>2, <2>1, <2>2, <2>4, SetIs DEF InScopes, Types
  <2>6. ScopedAt(t)' /\ EndedAt(t)' /\ EngineAt(t)' /\ JudgedAt(t)'
    BY <2>5 DEF ScopedAt, EndedAt, JudgedAt, EngineAt, CallPcs, BothPcs, DestroyPcs, DbPcs
  <2>7. HeldAt(t)'
    BY <1>1, <1>2, <2>1, <2>5 DEF HeldAt, Ending, Settling, Made, DestroyPcs
  <2>8. AdmittedAt(t)'
    BY <1>1, <1>2, <2>1, <2>5 DEF AdmittedAt, Claimed, Inside, Snapshot, Made, CallPcs, BothPcs,
       DestroyPcs
  <2>9. ~DbClaimed(t)' /\ SharedAt(t)'
    BY <2>5, NotServing DEF DbPcs, ClosingPcs, DestroyPcs
  <2>10. ThreadAt(t)'
    BY <2>6, <2>7, <2>8, <2>9 DEF ThreadAt
  <2>11. ASSUME NEW u \in Threads \ {t}, th[u].on = c
         PROVE  ~Claimed(u) /\ Undisturbed(u)
    <3>1. ~Claimed(u) /\ ~Quiet(u)
      BY <1>0, <1>2, <2>11, SoleIs DEF Sole
    <3>2. gate[c].state = "Closed_state" => th[u].pc \notin {"unregister", "finish", "release"}
      BY <1>2, <2>11, BystanderTypes, NobodyAssumption DEF AdmittedAt
    <3>. QED
      BY <2>1, <2>5, <2>11, <3>1, <3>2 DEF Undisturbed, Quiet
  <2>12. h.result # Nobody => h.result \in Listed(c)
    BY <2>1 DEF IInv, ConnectionAt
  <2>13. asleep' \subseteq Threads
    BY <1>1, <1>2 DEF Types
  <2>. QED
    BY <1>1, <2>1, <2>2, <2>5, <2>9, <2>10, <2>11, <2>12, <2>13, GateMoveKeeps
<1>. QED
  BY <1>0, <1>3, <1>4 DEF RequestSettle

\* The request is over.
LEMMA RequestFinishKeeps ==
    ASSUME IInv, NEW t \in Threads, RequestFinish(t)
    PROVE  IInv'
<1>0. PICK c \in Connections : c = th[t].on
  BY BystanderTypes
<1>. DEFINE h == [gate[c] EXCEPT !.request = Nobody]
<1>1. /\ th[t].pc = "req_finish" /\ Set(c, h) /\ Signal(c)
      /\ req' = [req EXCEPT ![t] = [state |-> "Finished", cancelled |-> FALSE]]
      /\ th' = [th EXCEPT ![t] = NoThread]
      /\ UNCHANGED <<native, txn, db, tok, stmt>>
  BY <1>0 DEF RequestFinish
<1>2. /\ EndedAt(t) /\ Types /\ Leases /\ ~th[t].tx /\ th[t].run /\ gate[c].request = t
      /\ t # Nobody /\ gate[c] \in OwnerGate
  BY <1>0, <1>1, BystanderTypes, NobodyAssumption DEF ScopedAt, HeldAt
<1>3. /\ h \in OwnerGate /\ h.busy = gate[c].busy /\ h.state = gate[c].state
      /\ h.lease = gate[c].lease /\ h.request = Nobody /\ h.result = gate[c].result
  BY <1>2 DEF OwnerGate, Anybody
<1>. HIDE DEF h
<1>4. /\ gate' \in [Connections -> OwnerGate] /\ gate'[c] = h
      /\ \A d \in Connections \ {c} : gate'[d] = gate[d]
  BY <1>1, <1>3, SetIs
<1>5. /\ th' \in [Threads -> Locals] /\ th'[t] = NoThread /\ \A u \in Threads \ {t} : th'[u] = th[u]
  BY <1>1, <1>2, NoThreadIs DEF Types
<1>6. req' \in [Threads -> Requests] /\ \A u \in Threads \ {t} : req'[u] = req[u]
  BY <1>1, <1>2 DEF Types, Requests
<1>7. TypeOK'
  <2>1. Types'
    BY <1>1, <1>2, <1>4, <1>5, <1>6 DEF Types, Signal
  <2>2. Leases'
    BY <1>0, <1>2, <1>3, <1>4, <1>5, NobodyAssumption DEF Leases
  <2>. QED
    BY <2>1, <2>2, TypesAre
<1>8. ThreadAt(t)' /\ ~Claimed(t)' /\ ~DbClaimed(t)'
  BY <1>5, NoThreadIs, RestingIs
<1>9. ASSUME NEW u \in Threads \ {t}, th[u].on = c
      PROVE  Undisturbed(u)
  BY <1>2, <1>3, <1>4, <1>9, BystanderTypes, ClaimIsOpen DEF Undisturbed, Quiet, HeldAt, JudgedAt
<1>10. ASSUME NEW k \in Threads
       PROVE  ListedAt(k)'
  <2>1. ListedAt(k) /\ stmt[k].on \in Connections /\ stmt[k].tx \in Anybody
    BY BystanderTypes, ChildIs
  <2>2. Exists(k) => stmt[k].via # t
    BY <1>1, <1>2 DEF EndedAt
  <2>3. Exists(k) /\ stmt[k].via # Nobody => stmt[k].on # c
    BY <1>2, <2>1, <2>2 DEF ListedAt
  <2>4. stmt[k].tx # Nobody => stmt[k].tx \in Threads \ {t}
    BY <1>2, <2>1 DEF ListedAt, Anybody
  <2>. QED
    BY <1>1, <1>3, <1>4, <1>5, <2>1, <2>3, <2>4 DEF ListedAt, Exists
<1>11. ConnectionAt(c)'
  <2>1. ConnectionAt(c) /\ Listed(c)' = Listed(c)
    BY <1>1 DEF IInv, Listed, Exists
  <2>. QED
    BY <1>1, <1>3, <1>4, <2>1 DEF ConnectionAt, GatedAt, Made
<1>. QED
  BY <1>1, <1>4, <1>5, <1>6, <1>7, <1>8, <1>9, <1>10, <1>11, NoThreadIs, GateKeeps

\* The lease ends before the connection is destroyed.
LEMMA UnleaseKeeps ==
    ASSUME IInv, NEW t \in Threads, Unlease(t)
    PROVE  IInv'
<1>0. PICK c \in Connections : c = th[t].on
  BY BystanderTypes
<1>. DEFINE h == ReleaseLease(gate[c])
<1>1. /\ th[t].pc = "unlease" /\ Goto(t, "destroy_all") /\ Set(c, h) /\ Signal(c)
      /\ UNCHANGED <<native, txn, db, tok, stmt, req>>
  BY <1>0 DEF Unlease
<1>2. /\ ScopedAt(t) /\ HeldAt(t) /\ AdmittedAt(t) /\ EndedAt(t) /\ EngineAt(t) /\ JudgedAt(t)
      /\ Types /\ Claimed(t) /\ Inside(t) /\ th[t].tx /\ gate[c].lease = t /\ t # Nobody
      /\ gate[c].request \in {Nobody, t} /\ Made(c)
  BY <1>0, <1>1, BystanderTypes, NobodyAssumption, LeaseExcludes
     DEF ScopedAt, HeldAt, Claimed, Inside, DestroyPcs
<1>3. /\ h \in OwnerGate /\ h.busy = gate[c].busy /\ h.state = gate[c].state /\ h.lease = Nobody
      /\ h.request = gate[c].request /\ h.result = gate[c].result
  BY <1>0, BystanderTypes, GateOperators
<1>. HIDE DEF h
<1>4. /\ gate' \in [Connections -> OwnerGate] /\ gate'[c] = h
      /\ \A d \in Connections \ {c} : gate'[d] = gate[d]
      /\ Stays(t) /\ Keeps(t) /\ th'[t].pc = "destroy_all"
  BY <1>1, <1>3, SetIs, GotoIs DEF Pcs
<1>5. InScopes(t) /\ th'[t].child = th[t].child /\ th'[t].on = c /\ th'[t].tx
  BY <1>0, <1>2, <1>4 DEF Stays, InScopes
<1>6. TypeOK'
  <2>1. /\ tok' \in [Threads -> Tokens] /\ req' \in [Threads -> Requests] /\ asleep' \subseteq Threads
        /\ \A d \in Connections :
               /\ gate'[d].lease \in {gate[d].lease, Nobody}
               /\ gate'[d].request \in {gate[d].request, Nobody}
    BY <1>1, <1>2, <1>3, <1>4 DEF Types, Signal
  <2>. QED
    BY <1>1, <1>4, <1>5, <2>1, GateTypes
<1>7. ThreadAt(t)' /\ Claimed(t)'
  <2>1. ScopedAt(t)' /\ EndedAt(t)' /\ EngineAt(t)' /\ JudgedAt(t)'
    BY <1>0, <1>1, <1>2, <1>4 DEF ScopedAt, EndedAt, JudgedAt, EngineAt, Stays, Keeps, Exists,
       CallPcs, BothPcs, DestroyPcs, DbPcs
  <2>2. HeldAt(t)'
    BY <1>0, <1>1, <1>2, <1>3, <1>4 DEF HeldAt, Stays, Ending, Settling, Made, DestroyPcs
  <2>3. AdmittedAt(t)' /\ Claimed(t)'
    BY <1>0, <1>1, <1>2, <1>3, <1>4, ClaimIsOpen DEF AdmittedAt, Stays, Claimed, Inside, Snapshot,
       Made, CallPcs, BothPcs, DestroyPcs
  <2>4. ~DbClaimed(t)' /\ SharedAt(t)'
    BY <1>2, <1>1, <1>4, NotServing DEF ScopedAt, Keeps, DbPcs, ClosingPcs, DestroyPcs
  <2>. QED
    BY <2>1, <2>2, <2>3, <2>4 DEF ThreadAt
<1>8. ~DbClaimed(t)'
  BY <1>1, <1>2, <1>4 DEF DbClaimed, ScopedAt, Keeps, DbPcs, DestroyPcs
<1>9. ASSUME NEW u \in Threads \ {t}, th[u].on = c
      PROVE  ~Claimed(u) /\ Undisturbed(u)
  <2>1. ~Claimed(u) /\ ~Quiet(u)
    BY <1>0, <1>2, <1>9, SoleIs DEF Sole
  <2>2. ~th[u].tx
    BY <1>2, <1>9, BystanderTypes DEF HeldAt
  <2>. QED
    BY <1>3, <1>4, <1>9, <2>1, <2>2 DEF Undisturbed, Quiet
<1>10. ASSUME NEW k \in Threads
       PROVE  ListedAt(k)'
  <2>1. ListedAt(k) /\ stmt[k].on \in Connections /\ stmt[k].tx \in Anybody
    BY BystanderTypes, ChildIs
  <2>2. Exists(k) => stmt[k].tx # t
    BY <1>1, <1>2 DEF EndedAt
  <2>3. Exists(k) /\ stmt[k].tx # Nobody => stmt[k].on # c
    BY <1>2, <2>1, <2>2 DEF ListedAt
  <2>4. stmt[k].tx # Nobody => th'[stmt[k].tx].tx /\ th'[stmt[k].tx].pc \notin {"begin", "began"}
    BY <1>4, <1>5, <2>1 DEF ListedAt, Anybody, Stays
  <2>. QED
    BY <1>1, <1>3, <1>4, <2>1, <2>3, <2>4 DEF ListedAt, Exists
<1>11. ConnectionAt(c)'
  <2>1. ConnectionAt(c) /\ Listed(c)' = Listed(c) /\ gate[c].busy
    BY <1>0, <1>1, <1>2, ClaimIsOpen DEF IInv, Listed, Exists
  <2>. QED
    BY <1>1, <1>3, <1>4, <2>1 DEF ConnectionAt, GatedAt, Made
<1>. QED
  BY <1>1, <1>4, <1>5, <1>6, <1>7, <1>8, <1>9, <1>10, <1>11, GateKeeps DEF InScopes

\* A thread waits for a connection that it revoked.
LEMMA RevokedIs ==
    ASSUME NEW g \in OwnerGate
    PROVE  /\ [g EXCEPT !.state = "Closing"] \in OwnerGate
           /\ [g EXCEPT !.state = "Closing"].state = "Closing"
           /\ [g EXCEPT !.state = "Closing"].busy = g.busy
           /\ [g EXCEPT !.state = "Closing"].lease = g.lease
           /\ [g EXCEPT !.state = "Closing"].request = g.request
           /\ [g EXCEPT !.state = "Closing"].result = g.result
BY DEF OwnerGate, GateStates

\* Revoking an open connection disturbs no thread on it.
LEMMA RevokedUndisturbs ==
    ASSUME IInv, NEW u \in Threads, gate[th[u].on].state # "Closed_state",
           gate'[th[u].on] = [gate[th[u].on] EXCEPT !.state = "Closing"]
    PROVE  Undisturbed(u)
BY BystanderTypes, RevokedIs, ClaimIsOpen DEF Undisturbed, Quiet, HeldAt, JudgedAt

\* The children of the database are revoked.
LEMMA DatabaseRevokeKeeps ==
    ASSUME IInv, NEW t \in Threads, DatabaseRevoke(t)
    PROVE  IInv'
<1>1. th[t].pc = "db_revoke" /\ UNCHANGED <<native, txn, db, tok, stmt, req, asleep>>
  BY DEF DatabaseRevoke
<1>2. /\ ScopedAt(t) /\ HeldAt(t) /\ AdmittedAt(t) /\ EndedAt(t) /\ EngineAt(t) /\ JudgedAt(t)
      /\ SharedAt(t) /\ Types /\ th[t] \in Locals /\ ~th[t].tx /\ ~th[t].run /\ DbClaimed(t)
  BY <1>1, BystanderTypes DEF ScopedAt, DbClaimed, DbPcs
<1>3. ASSUME NEW c \in th[t].conns, gate[c].state = "Open",
             Set(c, [gate[c] EXCEPT !.state = "Closing"]), UNCHANGED th
      PROVE  IInv'
  <2>. DEFINE h == [gate[c] EXCEPT !.state = "Closing"]
  <2>0. c \in Connections /\ gate[c] \in OwnerGate
    BY <1>2, LocalIs DEF Types
  <2>1. /\ h \in OwnerGate /\ h.busy = gate[c].busy /\ h.state = "Closing"
        /\ h.lease = gate[c].lease /\ h.request = gate[c].request /\ h.result = gate[c].result
    BY <2>0, RevokedIs
  <2>2. /\ gate'[c] = h /\ \A d \in Connections \ {c} : gate'[d] = gate[d]
    BY <1>3, <2>0, <2>1, SetIs
  <2>3. ASSUME NEW u \in Threads, th[u].on = c
        PROVE  Undisturbed(u)
    BY <1>3, <2>0, <2>2, <2>3, RevokedUndisturbs
  <2>. HIDE DEF h
  <2>4. ThreadAt(t)'
    <3>1. ScopedAt(t)' /\ EndedAt(t)' /\ EngineAt(t)' /\ JudgedAt(t)' /\ SharedAt(t)'
      BY <1>1, <1>2, <1>3 DEF ScopedAt, EndedAt, EngineAt, JudgedAt, SharedAt, DbClaimed, Exists,
         Made, BothPcs, CallPcs, DestroyPcs, DbPcs, ClosingPcs
    <3>2. HeldAt(t)' /\ AdmittedAt(t)'
      BY <1>1, <1>2, <1>3 DEF HeldAt, AdmittedAt, Claimed, Inside, Snapshot, Ending, Settling,
         BothPcs, CallPcs, DestroyPcs
    <3>. QED
      BY <3>1, <3>2 DEF ThreadAt
  <2>5. InScopes(t) /\ asleep' \subseteq Threads
    BY <1>1, <1>2, <1>3 DEF InScopes, Types
  <2>6. ~Claimed(t)' /\ \A u \in Threads \ {t} : ~DbClaimed(u)
    BY <1>1, <1>2, <1>3 DEF Claimed, CallPcs, DestroyPcs, BothPcs, IInv, ExcludesAt
  <2>7. /\ h.result # Nobody => h.result \in Listed(c)
        /\ native[c] = "closed" => h.busy
        /\ txn[c] => h.busy \/ h.lease # Nobody
    BY <1>3, <2>0, <2>1 DEF IInv, ConnectionAt, GatedAt
  <2>. QED
    BY <1>1, <1>3, <2>0, <2>1, <2>3, <2>4, <2>5, <2>6, <2>7, GateMoveKeeps DEF h
<1>4. CASE Goto(t, "db_next") /\ UNCHANGED gate
  <2>1. "db_next" \in Pcs
    BY DEF Pcs
  <2>2. Stays(t) /\ Keeps(t) /\ th'[t].pc = "db_next"
    BY <1>4, <2>1, GotoIs
  <2>3. ScopedAt(t)' /\ EndedAt(t)' /\ EngineAt(t)' /\ JudgedAt(t)' /\ SharedAt(t)'
    BY <1>1, <1>2, <1>4, <2>2 DEF ScopedAt, EndedAt, JudgedAt, EngineAt, SharedAt, Stays, Keeps,
       DbClaimed, Made, ClosingPcs, CallPcs, BothPcs, DestroyPcs, DbPcs
  <2>4. HeldAt(t)' /\ AdmittedAt(t)' /\ ~Claimed(t)'
    BY <1>1, <1>2, <2>2 DEF HeldAt, AdmittedAt, Claimed, Inside, Snapshot, Stays, Ending, Settling,
       Made, CallPcs, BothPcs, DestroyPcs
  <2>. QED
    BY <1>1, <1>2, <1>4, <2>1, <2>3, <2>4, GotoKeeps DEF Types
<1>. QED
  BY <1>3, <1>4 DEF DatabaseRevoke

\* A step may revoke a statement: it is still there for whoever destroys it.
SameChildren ==
    /\ stmt' \in [Threads -> Children]
    /\ \A k \in Threads :
        /\ Exists(k)' <=> Exists(k)
        /\ stmt'[k].on = stmt[k].on /\ stmt'[k].via = stmt[k].via /\ stmt'[k].tx = stmt[k].tx

\* A step on one connection that changes no statement and ends no scope.
LEMMA ChildStepKeeps ==
    ASSUME IInv, NEW t \in Threads, NEW c \in Connections, NEW h \in OwnerGate,
           gate' \in [Connections -> OwnerGate], gate'[c] = h,
           \A d \in Connections \ {c} : gate'[d] = gate[d],
           h.state = gate[c].state, h.lease = gate[c].lease, h.request = gate[c].request,
           h.result = gate[c].result, h.state # "Closed_state", gate[c].busy => h.busy,
           InScopes(t), SameChildren, UNCHANGED <<native, txn, db, tok, req>>,
           asleep' \subseteq Threads,
           th'[t].pc \notin {"begin", "began"},
           \A u \in Threads \ {t} : th[u].on = c => Undisturbed(u),
           th'[t].child \in {th[t].child, Nobody} \/ Exists(th'[t].child),
           Claimed(t)' => \A u \in Threads \ {t} : Claimed(u) => th[u].on # th'[t].on,
           ~DbClaimed(t)', ThreadAt(t)'
    PROVE  IInv'
<1>1. Types /\ Nobody \notin Threads
  BY TypesAre, NobodyAssumption DEF IInv
<1>2. \A u \in Threads \ {t} : th'[u] = th[u]
  BY DEF InScopes
<1>3. \A d \in Connections : Listed(d)' = Listed(d)
  BY DEF SameChildren, Listed
<1>4. TypeOK'
  <2>1. Types'
    BY <1>1 DEF Types, SameChildren, InScopes
  <2>2. \A d \in Connections :
            /\ gate'[d].lease \in {gate[d].lease, Nobody}
            /\ gate'[d].request \in {gate[d].request, Nobody}
    OBVIOUS
  <2>3. Leases'
    BY <1>2, <2>2, LeasesStay DEF InScopes
  <2>. QED
    BY <2>1, <2>3, TypesAre
<1>5. ASSUME NEW u \in Threads \ {t}
      PROVE  Bystander(u) /\ Spared(u) /\ Served(u)
  <2>1. Undisturbed(u)
    BY UndisturbedWhenSame, BystanderTypes
  <2>2. Bystander(u)
    BY <1>2, <2>1 DEF Bystander
  <2>3. Spared(u)
    <3>1. AdmittedAt(u) /\ EndedAt(u) /\ th[u].todo \subseteq Threads /\ th[u].child \in Anybody
      BY BystanderTypes, LocalIs
    <3>2. th[u].on \in Connections /\ Listed(th[u].on)' = Listed(th[u].on)
      BY <1>2, <1>3, BystanderTypes
    <3>3. th[u].pc = "prepare" => ~Exists(u)' /\ \A k \in Threads : th'[k].child # u
      BY <1>1, <1>2, <3>1 DEF AdmittedAt, SameChildren
    <3>4. /\ th[u].pc \in CallPcs \/ (Snapshot(u) /\ th[u].pc \in BothPcs) =>
              /\ Exists(th[u].child)'
              /\ stmt'[th[u].child].on = stmt[th[u].child].on
              /\ stmt'[th[u].child].tx = stmt[th[u].child].tx
          /\ th[u].pc = "destroy" => \A k \in th[u].todo : Exists(k)' /\ stmt'[k].on = stmt[k].on
      <4>1. th[u].pc \in CallPcs \/ Snapshot(u) => th[u].child \in Threads
        BY <3>1, BystanderTypes DEF ScopedAt, Snapshot, Anybody
      <4>. QED
        BY <1>2, <3>1, <4>1 DEF AdmittedAt, EndedAt, SameChildren
    <3>5. th[u].pc = "close_child" /\ Exists(th[u].child)' =>
            /\ Exists(th[u].child)
            /\ stmt'[th[u].child].on = stmt[th[u].child].on
            /\ stmt'[th[u].child].via = stmt[th[u].child].via
      <4>1. th[u].pc = "close_child" => th[u].child \in Threads
        BY <3>1, BystanderTypes DEF ScopedAt, Anybody
      <4>. QED
        BY <1>2, <4>1 DEF SameChildren
    <3>6. th[u].pc \in {"close_native", "mark"} => Listed(th[u].on)' = {}
      BY <3>1, <3>2 DEF AdmittedAt
    <3>. QED
      BY <3>3, <3>4, <3>5, <3>6 DEF Spared, SameChildren
  <2>4. Served(u)
    BY BystanderTypes DEF SharedAt, Served
  <2>. QED
    BY <2>2, <2>3, <2>4
<1>6. ASSUME NEW k \in Threads
      PROVE  ListedAt(k)'
  <2>1. ListedAt(k) /\ stmt[k].tx \in Anybody /\ stmt[k].on \in Connections
    BY BystanderTypes, ChildIs
  <2>2. stmt[k].tx # Nobody => th'[stmt[k].tx].tx /\ th'[stmt[k].tx].pc \notin {"begin", "began"}
    BY <2>1 DEF ListedAt, Anybody, InScopes
  <2>3. gate'[stmt[k].on].lease = gate[stmt[k].on].lease
        /\ gate'[stmt[k].on].request = gate[stmt[k].on].request
    BY <2>1
  <2>. QED
    BY <2>1, <2>2, <2>3 DEF ListedAt, SameChildren
<1>7. ASSUME NEW d \in Connections
      PROVE  ConnectionAt(d)'
  <2>1. ConnectionAt(d) /\ Listed(d)' = Listed(d)
    BY <1>3 DEF IInv
  <2>2. /\ gate'[d].lease = gate[d].lease /\ gate'[d].request = gate[d].request
        /\ gate'[d].result = gate[d].result /\ gate'[d].state = gate[d].state
        /\ gate[d].busy => gate'[d].busy
        /\ gate'[d].state = "Closed_state" => gate'[d].busy = gate[d].busy
    OBVIOUS
  <2>3. \A k \in Listed(d) : stmt'[k].via = stmt[k].via
    BY DEF Listed, SameChildren
  <2>4. GatedAt(d)'
    BY <2>1, <2>2, <2>3 DEF ConnectionAt, GatedAt
  <2>. QED
    BY <2>1, <2>2, <2>4 DEF ConnectionAt, Made
<1>. QED
  BY <1>4, <1>5, <1>6, <1>7, StepKeeps DEF IInv

\* A statement that is revoked.
LEMMA RevokedChild ==
    ASSUME IInv, NEW k \in Threads, Exists(k), stmt' = [stmt EXCEPT ![k].state = "Closing"]
    PROVE  SameChildren
<1>1. stmt \in [Threads -> Children]
  BY TypesAre DEF IInv, Types
<1>2. /\ stmt' \in [Threads -> Children] /\ stmt'[k].state = "Closing"
      /\ stmt'[k].on = stmt[k].on /\ stmt'[k].via = stmt[k].via /\ stmt'[k].tx = stmt[k].tx
      /\ \A l \in Threads \ {k} : stmt'[l] = stmt[l]
  <2>1. [stmt[k] EXCEPT !.state = "Closing"] \in Children
    BY <1>1 DEF Children, GateStates
  <2>. QED
    BY <1>1, <2>1 DEF Children
<1>. QED
  BY <1>2 DEF SameChildren, Exists

\* Statements that stay the same are the same children.
LEMMA SameChild ==
    ASSUME IInv, stmt' = stmt
    PROVE  SameChildren
BY TypesAre DEF IInv, Types, SameChildren, Exists

\* Whoever may close a statement shares its request.
LEMMA ClosingChild ==
    ASSUME IInv, NEW k \in Threads, Exists(k), NEW t \in Threads, stmt[k].via \in {Nobody, t}
    PROVE  /\ gate[stmt[k].on].request \in {Nobody, t}
           /\ native[stmt[k].on] = "open" /\ gate[stmt[k].on].state # "Closed_state"
<1>1. /\ ListedAt(k) /\ stmt[k].on \in Connections /\ GatedAt(stmt[k].on)
      /\ gate[stmt[k].on] \in OwnerGate
  BY BystanderTypes, ChildIs DEF IInv, ConnectionAt, Types
<1>2. k \in Listed(stmt[k].on)
  BY DEF Listed
<1>. QED
  BY <1>1, <1>2 DEF ListedAt, GatedAt

\* The connection is claimed to destroy one statement.
LEMMA ClaimChild ==
    ASSUME IInv, NEW t \in Threads, NEW k \in Threads, NEW c \in Connections, c = stmt[k].on,
           Exists(k), stmt[k].via \in {Nobody, t}, Idle(gate[c]), ~ForeignLease(c, k),
           Set(c, Claim(gate[c])), SameChildren,
           th[t].pc \in {"rest", "close_child"}, th[t].tx \/ th[t].run => th[t].on = c,
           InScopes(t), th'[t].pc = "destroy", th'[t].on = c, th'[t].todo = {k},
           th'[t].ret = "finish", th'[t].child = th[t].child, th'[t].tx = th[t].tx,
           th'[t].run = th[t].run, th'[t].durable = th[t].durable,
           UNCHANGED <<native, txn, db, tok, req>>, asleep' \subseteq Threads
    PROVE  IInv'
<1>. DEFINE h == Claim(gate[c])
<1>1. /\ ScopedAt(t) /\ HeldAt(t) /\ JudgedAt(t) /\ Types /\ ListedAt(k) /\ GatedAt(c)
      /\ t # Nobody /\ ConnectionAt(c) /\ gate[c] \in OwnerGate
      /\ th[t].tx \in BOOLEAN /\ th[t].run \in BOOLEAN
  BY BystanderTypes, NobodyAssumption, LocalIs DEF IInv, ConnectionAt, Types
<1>2. gate[c].request \in {Nobody, t} /\ native[c] = "open" /\ gate[c].state # "Closed_state"
  BY ClosingChild
<1>3. /\ h \in OwnerGate /\ h.busy /\ h.state = gate[c].state /\ h.lease = gate[c].lease
      /\ h.request = gate[c].request /\ h.result = gate[c].result
  BY <1>1, GateOperators
<1>4. /\ gate' \in [Connections -> OwnerGate] /\ gate'[c] = h
      /\ \A d \in Connections \ {c} : gate'[d] = gate[d]
  BY <1>3, SetIs
<1>. HIDE DEF h
<1>5. ASSUME NEW u \in Threads \ {t}, th[u].on = c
      PROVE  ~Claimed(u) /\ Undisturbed(u)
  <2>1. \/ gate[c].lease = Nobody
        \/ tok[gate[c].lease].active /\ th[gate[c].lease].pc \notin {"begin", "began"}
    BY <1>1 DEF ForeignLease, ListedAt
  <2>2. ~Settling(t) /\ ~gate[c].busy
    BY DEF Settling, Idle
  <2>3. ~Claimed(u) /\ ~Quiet(u)
    BY <1>2, <1>5, <2>1, <2>2, VacantIs
  <2>. QED
    BY <1>2, <1>3, <1>4, <1>5, <2>3, ClaimUndisturbs
<1>6. ScopedAt(t)' /\ EndedAt(t)'
  BY DEF ScopedAt, EndedAt, SameChildren, BothPcs, CallPcs, DestroyPcs, DbPcs
<1>7. EngineAt(t)'
  BY <1>1, <1>3, <1>4 DEF EngineAt, ConnectionAt, Idle
<1>8. JudgedAt(t)'
  BY <1>1 DEF JudgedAt, DestroyPcs
<1>9. HeldAt(t)'
  BY <1>1, <1>3, <1>4 DEF HeldAt, Ending, Settling, Made, DestroyPcs
<1>10. AdmittedAt(t)'
  BY <1>2, <1>3, <1>4 DEF AdmittedAt, Claimed, Inside, Snapshot, CallPcs, BothPcs, DestroyPcs
<1>11. ~DbClaimed(t)' /\ SharedAt(t)'
  BY NotServing DEF DbPcs, ClosingPcs, DestroyPcs
<1>12. ThreadAt(t)'
  BY <1>6, <1>7, <1>8, <1>9, <1>10, <1>11 DEF ThreadAt
<1>. QED
  BY <1>2, <1>3, <1>4, <1>5, <1>11, <1>12, ChildStepKeeps

\* A thread closes a statement: it claims the connection, or waits for it.
LEMMA ForceCloseChildKeeps ==
    ASSUME IInv, NEW t \in Threads, NEW k \in Threads, ForceCloseChild(t, k)
    PROVE  IInv'
<1>0. PICK c \in Connections : c = stmt[k].on
  BY BystanderTypes, ChildIs
<1>1. /\ th[t].pc = "rest" /\ (th[t].tx \/ th[t].run => th[t].on = c) /\ Exists(k)
      /\ Reaches(t, k, "statement", stmt[k].via)
      /\ stmt' = [stmt EXCEPT ![k].state = "Closing"]
      /\ UNCHANGED <<native, txn, db, tok, req>>
  BY <1>0 DEF ForceCloseChild, Free
<1>2. /\ ScopedAt(t) /\ HeldAt(t) /\ JudgedAt(t) /\ Types /\ ListedAt(k) /\ th[t] \in Locals
      /\ th[t].tx \in BOOLEAN /\ th[t].run \in BOOLEAN /\ k # Nobody
  BY BystanderTypes, LocalIs, NobodyAssumption
<1>3. stmt[k].via \in {Nobody, t} /\ stmt[k].via \in Anybody
  BY <1>1, <1>2, BystanderTypes, ChildIs DEF Reaches, ListedAt
<1>4. SameChildren
  BY <1>1, RevokedChild
<1>5. CASE /\ Idle(gate[c]) /\ ~ForeignLease(c, k) /\ Set(c, Claim(gate[c]))
           /\ th' = [th EXCEPT ![t].pc = "destroy", ![t].on = c, ![t].via = stmt[k].via,
                               ![t].todo = {k}, ![t].ret = "finish"]
           /\ UNCHANGED asleep
  <2>. DEFINE via == stmt[k].via
              todo == {k}
              n == [th[t] EXCEPT !.pc = "destroy", !.on = c, !.via = via, !.todo = todo,
                                 !.ret = "finish"]
  <2>1. /\ "destroy" \in Pcs /\ "finish" \in Pcs /\ via \in Anybody /\ todo \subseteq Threads
        /\ todo = {k}
    BY <1>3 DEF Pcs
  <2>2. th' = [th EXCEPT ![t] = n]
    BY <1>5
  <2>. HIDE DEF via, todo
  <2>3. /\ n \in Locals /\ n.pc = "destroy" /\ n.on = c /\ n.todo = todo /\ n.ret = "finish"
        /\ n.child = th[t].child /\ n.tx = th[t].tx /\ n.run = th[t].run
        /\ n.durable = th[t].durable
    BY <1>2, <2>1 DEF Locals
  <2>. HIDE DEF n
  <2>4. /\ InScopes(t) /\ th'[t].pc = "destroy" /\ th'[t].on = c /\ th'[t].todo = {k}
        /\ th'[t].ret = "finish" /\ th'[t].child = th[t].child /\ th'[t].tx = th[t].tx
        /\ th'[t].run = th[t].run /\ th'[t].durable = th[t].durable
    BY <1>1, <1>2, <2>1, <2>2, <2>3 DEF InScopes, Types
  <2>5. asleep' \subseteq Threads
    BY <1>2, <1>5 DEF Types
  <2>. QED
    BY <1>0, <1>1, <1>3, <1>4, <1>5, <2>4, <2>5, ClaimChild
<1>6. CASE /\ th' = [th EXCEPT ![t].pc = "close_child", ![t].on = c, ![t].child = k]
           /\ asleep' = asleep \cup {t}
           /\ UNCHANGED gate
  <2>. DEFINE n == [th[t] EXCEPT !.pc = "close_child", !.on = c, !.child = k]
  <2>1. "close_child" \in Pcs /\ k \in Anybody
    BY DEF Pcs, Anybody
  <2>2. th' = [th EXCEPT ![t] = n]
    BY <1>6
  <2>3. /\ n \in Locals /\ n.pc = "close_child" /\ n.on = c /\ n.child = k
        /\ n.tx = th[t].tx /\ n.run = th[t].run /\ n.durable = th[t].durable
    BY <1>2, <2>1 DEF Locals
  <2>. HIDE DEF n
  <2>4. /\ InScopes(t) /\ th'[t].pc = "close_child" /\ th'[t].on = c /\ th'[t].child = k
        /\ th'[t].tx = th[t].tx /\ th'[t].run = th[t].run /\ th'[t].durable = th[t].durable
    BY <1>1, <1>2, <2>2, <2>3 DEF InScopes, Types
  <2>5. ScopedAt(t)' /\ EndedAt(t)' /\ EngineAt(t)'
    BY <1>2, <2>4 DEF ScopedAt, EndedAt, EngineAt, BothPcs, CallPcs, DestroyPcs, DbPcs
  <2>6. JudgedAt(t)'
    BY <1>1, <1>2, <2>4 DEF JudgedAt, DestroyPcs
  <2>7. HeldAt(t)'
    BY <1>1, <1>2, <1>6, <2>4 DEF HeldAt, Ending, Settling, Made, DestroyPcs
  <2>8. AdmittedAt(t)' /\ ~Claimed(t)'
    BY <1>0, <1>3, <1>4, <2>4 DEF AdmittedAt, Claimed, Inside, Snapshot, SameChildren, CallPcs,
       BothPcs, DestroyPcs
  <2>9. ~DbClaimed(t)' /\ SharedAt(t)'
    BY <2>4, NotServing DEF DbPcs, ClosingPcs, DestroyPcs
  <2>10. ThreadAt(t)'
    BY <2>5, <2>6, <2>7, <2>8, <2>9 DEF ThreadAt
  <2>11. gate[c] \in OwnerGate /\ gate \in [Connections -> OwnerGate] /\ gate[c].state # "Closed_state"
         /\ asleep' \subseteq Threads
    BY <1>0, <1>1, <1>2, <1>3, <1>6, ClosingChild DEF Types
  <2>12. \A u \in Threads \ {t} : Undisturbed(u)
    BY <1>6, UndisturbedWhenSame
  <2>. QED
    BY <1>1, <1>4, <1>6, <2>4, <2>8, <2>9, <2>10, <2>11, <2>12, ChildStepKeeps
<1>. QED
  BY <1>0, <1>5, <1>6 DEF ForceCloseChild

\* Sleeping and waking up change nothing but who sleeps.
LEMMA SleepKeeps ==
    ASSUME IInv, asleep' \subseteq Threads,
           UNCHANGED <<gate, native, txn, db, tok, stmt, req, th>>
    PROVE  IInv'
<1>1. TypeOK'
  BY DEF IInv, TypeOK
<1>2. ASSUME NEW t \in Threads
      PROVE  /\ Claimed(t)' <=> Claimed(t)
             /\ DbClaimed(t)' <=> DbClaimed(t)
             /\ Snapshot(t)' <=> Snapshot(t)
  BY DEF Claimed, DbClaimed, Snapshot
<1>3. ASSUME NEW t \in Threads
      PROVE  ThreadAt(t)'
  <2>1. ThreadAt(t)
    BY DEF IInv
  <2>2. ScopedAt(t)' /\ EndedAt(t)' /\ EngineAt(t)' /\ JudgedAt(t)' /\ SharedAt(t)'
    BY <1>2, <2>1 DEF ThreadAt, ScopedAt, EndedAt, EngineAt, JudgedAt, SharedAt, Exists, Made
  <2>3. HeldAt(t)'
    BY <2>1 DEF ThreadAt, HeldAt, Ending, Settling, Made
  <2>4. AdmittedAt(t)'
    BY <1>2, <2>1 DEF ThreadAt, AdmittedAt, Inside, Exists, Listed, Made
  <2>. QED
    BY <2>2, <2>3, <2>4 DEF ThreadAt
<1>4. ASSUME NEW t \in Threads
      PROVE  ListedAt(t)'
  BY DEF IInv, ListedAt, Exists
<1>5. ASSUME NEW c \in Connections
      PROVE  ConnectionAt(c)'
  <2>1. ConnectionAt(c) /\ Listed(c)' = Listed(c)
    BY DEF IInv, Listed, Exists
  <2>. QED
    BY <2>1 DEF ConnectionAt, GatedAt, Made
<1>6. ASSUME NEW t \in Threads, NEW u \in Threads, t # u
      PROVE  ExcludesAt(t, u)'
  BY <1>2, <1>6 DEF IInv, ExcludesAt
<1>. QED
  BY <1>1, <1>3, <1>4, <1>5, <1>6 DEF IInv

\* A thread returns to its scope and leaves everything else as it is.
LEMMA RestKeeps ==
    ASSUME IInv, NEW t \in Threads, Rest(t), th[t].pc \notin DestroyPcs \cup {"unregister", "release"},
           UNCHANGED <<gate, native, txn, db, tok, stmt, req>>, asleep' \subseteq Threads
    PROVE  IInv'
<1>1. Returns(t)
  BY RestIs
<1>2. HeldAt(t) /\ Types /\ th[t].tx \in BOOLEAN /\ th[t].run \in BOOLEAN
  BY BystanderTypes, LocalIs
<1>3. ThreadAt(t)' /\ ~Claimed(t)' /\ ~DbClaimed(t)'
  BY <1>1, <1>2, RestingIs DEF Returns, HeldAt, Made
<1>4. /\ InScopes(t) /\ th'[t].child \in {th[t].child, Nobody} /\ th'[t].pc = "rest"
      /\ tok' \in [Threads -> Tokens] /\ req' \in [Threads -> Requests]
      /\ txn' \in [Connections -> BOOLEAN] /\ tok' = tok /\ req' = req /\ txn' = txn
  BY <1>1, <1>2 DEF Returns, InScopes, Types
<1>. QED
  BY <1>3, <1>4, MoveKeeps

\* The wait for a statement ends.
LEMMA ChildWakeKeeps ==
    ASSUME IInv, NEW t \in Threads, ChildWake(t)
    PROVE  IInv'
<1>0. PICK c \in Connections : c = th[t].on
  BY BystanderTypes
<1>1. th[t].pc = "close_child" /\ UNCHANGED <<native, txn, db, tok, stmt, req>>
  BY DEF ChildWake
<1>2. /\ ScopedAt(t) /\ AdmittedAt(t) /\ Types /\ th[t] \in Locals /\ th[t].child # Nobody
      /\ th[t].child \in Anybody
  BY <1>1, BystanderTypes, LocalIs DEF ScopedAt
<1>3. PICK k \in Threads : k = th[t].child
  BY <1>2 DEF Anybody
<1>4. CASE asleep' = asleep \cup {t} /\ UNCHANGED <<gate, th>>
  BY <1>1, <1>2, <1>4, SleepKeeps DEF Types
<1>5. CASE Rest(t) /\ UNCHANGED <<gate, asleep>>
  BY <1>1, <1>2, <1>5, RestKeeps DEF Types, DestroyPcs
<1>6. CASE /\ Idle(gate[c]) /\ ~ForeignLease(c, k) /\ Exists(k) /\ Set(c, Claim(gate[c]))
           /\ th' = [th EXCEPT ![t].pc = "destroy", ![t].todo = {k}, ![t].ret = "finish"]
           /\ UNCHANGED asleep
  <2>. DEFINE todo == {k}
              n == [th[t] EXCEPT !.pc = "destroy", !.todo = todo, !.ret = "finish"]
  <2>1. "destroy" \in Pcs /\ "finish" \in Pcs /\ todo \subseteq Threads /\ todo = {k}
    BY DEF Pcs
  <2>2. th' = [th EXCEPT ![t] = n]
    BY <1>6
  <2>. HIDE DEF todo
  <2>3. /\ n \in Locals /\ n.pc = "destroy" /\ n.on = th[t].on /\ n.todo = todo /\ n.ret = "finish"
        /\ n.child = th[t].child /\ n.tx = th[t].tx /\ n.run = th[t].run
        /\ n.durable = th[t].durable
    BY <1>2, <2>1 DEF Locals
  <2>. HIDE DEF n
  <2>4. /\ InScopes(t) /\ th'[t].pc = "destroy" /\ th'[t].on = c /\ th'[t].todo = {k}
        /\ th'[t].ret = "finish" /\ th'[t].child = th[t].child /\ th'[t].tx = th[t].tx
        /\ th'[t].run = th[t].run /\ th'[t].durable = th[t].durable
    BY <1>0, <1>2, <2>1, <2>2, <2>3 DEF InScopes, Types
  <2>5. asleep' \subseteq Threads /\ SameChildren
    BY <1>1, <1>2, <1>6, SameChild DEF Types
  <2>6. stmt[k].via \in {Nobody, t} /\ c = stmt[k].on
    BY <1>0, <1>1, <1>2, <1>3, <1>6 DEF AdmittedAt
  <2>. QED
    BY <1>0, <1>1, <1>6, <2>4, <2>5, <2>6, ClaimChild
<1>. QED
  BY <1>0, <1>3, <1>4, <1>5, <1>6 DEF ChildWake

\* The whole connection is claimed to close it.
LEMMA ClaimAll ==
    ASSUME IInv, NEW t \in Threads, NEW c \in Connections, NEW ret \in {"rest", "db_next"},
           gate[c].state # "Closed_state", Quiescent(gate[c]), Made(c),
           Set(c, BeginDiscard(gate[c])),
           th' = [th EXCEPT ![t].pc = "destroy_all", ![t].on = c, ![t].ret = ret],
           ~th[t].tx, ~th[t].run, th[t].pc \in {"rest", "close_conn"},
           ret = "db_next" => th[t].pc = "close_conn" /\ th[t].ret = "db_next" /\ th[t].on = c,
           UNCHANGED <<native, txn, db, tok, stmt, req>>, asleep' \subseteq Threads
    PROVE  IInv'
<1>. DEFINE h == BeginDiscard(gate[c])
            n == [th[t] EXCEPT !.pc = "destroy_all", !.on = c, !.ret = ret]
<1>1. /\ ScopedAt(t) /\ Types /\ SharedAt(t) /\ th[t] \in Locals /\ t # Nobody
      /\ gate[c] \in OwnerGate
      /\ ~gate[c].busy /\ gate[c].lease = Nobody /\ gate[c].request = Nobody
  BY BystanderTypes, NobodyAssumption DEF Types, Quiescent, Idle
<1>2. /\ h \in OwnerGate /\ h.busy /\ h.state = "Closing" /\ h.lease = gate[c].lease
      /\ h.request = gate[c].request /\ h.result = gate[c].result
  BY <1>1, GateOperators
<1>3. Set(c, h)
  OBVIOUS
<1>. HIDE DEF h
<1>4. gate'[c] = h
  BY <1>2, <1>3, SetIs
<1>5. "destroy_all" \in Pcs /\ ret \in Pcs
  BY DEF Pcs
<1>6. /\ n \in Locals /\ n.pc = "destroy_all" /\ n.ret = ret /\ n.on = c
      /\ n.child = th[t].child /\ n.tx = th[t].tx /\ n.run = th[t].run /\ n.conns = th[t].conns
  BY <1>1, <1>5 DEF Locals
<1>7. th' = [th EXCEPT ![t] = n]
  OBVIOUS
<1>. HIDE DEF n
<1>8. /\ InScopes(t) /\ th'[t].pc = "destroy_all" /\ th'[t].ret = ret /\ th'[t].on = c
      /\ th'[t].child = th[t].child /\ ~th'[t].tx /\ ~th'[t].run /\ th'[t].conns = th[t].conns
  <2>1. th \in [Threads -> Locals]
    BY <1>1 DEF Types
  <2>2. /\ th' \in [Threads -> Locals] /\ th'[t] = n /\ \A u \in Threads \ {t} : th'[u] = th[u]
    <3>1. n \in Locals
      BY <1>6
    <3>. QED
      BY <1>7, <2>1, <3>1
  <2>. QED
    BY <1>6, <2>2 DEF InScopes
<1>9. ASSUME NEW u \in Threads \ {t}, th[u].on = c
      PROVE  ~Claimed(u) /\ Undisturbed(u)
  <2>1. ~Settling(t)
    BY DEF Settling
  <2>2. ~Claimed(u) /\ ~Quiet(u)
    BY <1>1, <1>9, <2>1, VacantIs
  <2>. QED
    BY <1>2, <1>4, <1>9, <2>2, ClaimUndisturbs
<1>10. ScopedAt(t)' /\ EndedAt(t)' /\ EngineAt(t)' /\ JudgedAt(t)'
  BY <1>8 DEF ScopedAt, EndedAt, EngineAt, JudgedAt, BothPcs, CallPcs, DestroyPcs, DbPcs
<1>11. HeldAt(t)' /\ AdmittedAt(t)'
  BY <1>1, <1>2, <1>4, <1>8 DEF HeldAt, AdmittedAt, Claimed, Inside, Snapshot, Ending, Settling,
     Made, BothPcs, CallPcs, DestroyPcs
<1>12. SharedAt(t)' /\ (DbClaimed(t)' => DbClaimed(t))
  <2>1. CASE ret = "rest"
    BY <1>8, <2>1, NotServing DEF DbPcs, ClosingPcs, DestroyPcs
  <2>2. CASE ret = "db_next"
    <3>1. DbClaimed(t) /\ th[t].pc = "close_conn" /\ th[t].ret = "db_next" /\ th[t].on = c
      BY <2>2 DEF DbClaimed, ClosingPcs
    <3>. QED
      BY <1>1, <1>8, <2>2, <3>1 DEF SharedAt, Made, DbClaimed, DbPcs, ClosingPcs, DestroyPcs
  <2>. QED
    BY <2>1, <2>2
<1>13. ThreadAt(t)'
  BY <1>10, <1>11, <1>12 DEF ThreadAt
<1>14. DbClaimed(t)' => \A u \in Threads \ {t} : ~DbClaimed(u)
  BY <1>12 DEF IInv, ExcludesAt
<1>15. h.result # Nobody => h.result \in Listed(c)
  BY <1>2 DEF IInv, ConnectionAt
<1>. QED
  BY <1>2, <1>3, <1>8, <1>9, <1>13, <1>14, <1>15, GateMoveKeeps

\* close_connection.
LEMMA CloseConnectionKeeps ==
    ASSUME IInv, NEW t \in Threads, NEW c \in Connections, CloseConnection(t, c)
    PROVE  IInv'
<1>1. Types /\ gate[c].state = "Open" /\ Quiescent(gate[c])
  BY BystanderTypes DEF CloseConnection, Available, Unleased, Quiescent
<1>2. native[c] \in {"open", "closed"}
  BY <1>1 DEF CloseConnection, Returned, Types
<1>. QED
  BY <1>1, <1>2, ClaimAll DEF CloseConnection, Outside, Made, Types

\* force_close of a connection.
LEMMA ForceCloseKeeps ==
    ASSUME IInv, NEW t \in Threads, NEW c \in Connections, NEW ret \in {"rest", "db_next"},
           ForceClose(t, c, ret), Made(c), ~th[t].tx, ~th[t].run,
           \/ th[t].pc = "rest" /\ ret = "rest"
           \/ th[t].pc = "close_conn" /\ th[t].ret = ret /\ th[t].on = c
    PROVE  IInv'
<1>1. UNCHANGED <<native, txn, db, tok, stmt, req>>
  BY DEF ForceClose
<1>2. /\ ScopedAt(t) /\ SharedAt(t) /\ Types /\ th[t] \in Locals /\ gate[c] \in OwnerGate
      /\ t # Nobody
  BY BystanderTypes, NobodyAssumption DEF Types
<1>3. CASE gate[c].state = "Closed_state"
  <2>1. CASE ret = "rest"
    <3>1. Rest(t) /\ UNCHANGED <<gate, asleep>>
      BY <1>3, <2>1 DEF ForceClose, Rest
    <3>. QED
      BY <1>1, <1>2, <3>1, RestKeeps DEF Types, DestroyPcs
  <2>2. CASE ret = "db_next"
    <3>1. th' = [th EXCEPT ![t] = [th[t] EXCEPT !.pc = ret]] /\ UNCHANGED <<gate, asleep>>
      BY <1>3, <2>2 DEF ForceClose
    <3>2. Goto(t, "db_next")
      BY <2>2, <3>1 DEF Goto
    <3>3. th[t].pc = "close_conn" /\ th[t].ret = "db_next" /\ th[t].on = c /\ "db_next" \in Pcs
      BY <2>2 DEF Pcs
    <3>4. Stays(t) /\ Keeps(t) /\ th'[t].pc = "db_next"
      BY <3>2, <3>3, GotoIs
    <3>5. native[c] = "closed"
      BY <1>3 DEF IInv, ConnectionAt, GatedAt
    <3>6. ScopedAt(t)' /\ EndedAt(t)' /\ EngineAt(t)' /\ JudgedAt(t)'
      BY <3>4 DEF ScopedAt, EndedAt, JudgedAt, EngineAt, Stays, CallPcs, BothPcs, DestroyPcs, DbPcs
    <3>7. SharedAt(t)' /\ (DbClaimed(t)' => DbClaimed(t))
      BY <1>1, <1>2, <3>3, <3>4, <3>5 DEF SharedAt, Stays, Keeps, DbClaimed, Made, ClosingPcs,
         DestroyPcs, DbPcs
    <3>8. HeldAt(t)' /\ AdmittedAt(t)' /\ ~Claimed(t)'
      BY <3>4 DEF HeldAt, AdmittedAt, Claimed, Inside, Snapshot, Stays, Ending, Settling,
         CallPcs, BothPcs, DestroyPcs
    <3>. QED
      BY <1>1, <1>2, <3>1, <3>2, <3>3, <3>6, <3>7, <3>8, GotoKeeps DEF Types
  <2>. QED
    BY <2>1, <2>2
<1>4. CASE gate[c].state # "Closed_state" /\ Quiescent(gate[c])
  <2>1. /\ Set(c, BeginDiscard(gate[c])) /\ UNCHANGED asleep
        /\ th' = [th EXCEPT ![t].pc = "destroy_all", ![t].on = c, ![t].ret = ret]
    BY <1>4 DEF ForceClose
  <2>. QED
    BY <1>1, <1>2, <1>4, <2>1, ClaimAll DEF Types
<1>5. CASE gate[c].state # "Closed_state" /\ ~Quiescent(gate[c])
  <2>. DEFINE h == [gate[c] EXCEPT !.state = "Closing"]
              n == [th[t] EXCEPT !.pc = "close_conn", !.on = c, !.ret = ret]
  <2>1. Set(c, h) /\ asleep' = asleep \cup {t} /\ th' = [th EXCEPT ![t] = n]
    BY <1>5 DEF ForceClose
  <2>2. /\ h \in OwnerGate /\ h.busy = gate[c].busy /\ h.state = "Closing"
        /\ h.lease = gate[c].lease /\ h.request = gate[c].request /\ h.result = gate[c].result
    BY <1>2, RevokedIs
  <2>3. gate'[c] = h
    BY <2>1, <2>2, SetIs
  <2>4. ASSUME NEW u \in Threads, th[u].on = c
        PROVE  Undisturbed(u)
    BY <1>5, <2>3, <2>4, RevokedUndisturbs
  <2>. HIDE DEF h
  <2>5. "close_conn" \in Pcs /\ ret \in Pcs
    BY DEF Pcs
  <2>6. /\ n \in Locals /\ n.pc = "close_conn" /\ n.ret = ret /\ n.on = c
        /\ n.child = th[t].child /\ n.tx = th[t].tx /\ n.run = th[t].run /\ n.conns = th[t].conns
    BY <1>2, <2>5 DEF Locals
  <2>. HIDE DEF n
  <2>7. /\ InScopes(t) /\ th'[t].pc = "close_conn" /\ th'[t].ret = ret /\ th'[t].on = c
        /\ th'[t].child = th[t].child /\ ~th'[t].tx /\ ~th'[t].run /\ th'[t].conns = th[t].conns
    BY <1>2, <2>1, <2>6 DEF InScopes, Types
  <2>8. ScopedAt(t)' /\ EndedAt(t)' /\ EngineAt(t)' /\ JudgedAt(t)'
    BY <2>7 DEF ScopedAt, EndedAt, EngineAt, JudgedAt, BothPcs, CallPcs, DestroyPcs, DbPcs
  <2>9. HeldAt(t)' /\ AdmittedAt(t)' /\ ~Claimed(t)'
    BY <1>1, <2>7 DEF HeldAt, AdmittedAt, Claimed, Inside, Snapshot, Ending, Settling,
       Made, BothPcs, CallPcs, DestroyPcs
  <2>10. SharedAt(t)' /\ (DbClaimed(t)' => DbClaimed(t))
    BY <1>1, <1>2, <2>7 DEF SharedAt, DbClaimed, Made, DbPcs, ClosingPcs, DestroyPcs
  <2>11. ThreadAt(t)'
    BY <2>8, <2>9, <2>10 DEF ThreadAt
  <2>12. DbClaimed(t)' => \A u \in Threads \ {t} : ~DbClaimed(u)
    BY <2>10 DEF IInv, ExcludesAt
  <2>13. /\ h.result # Nobody => h.result \in Listed(c)
         /\ native[c] = "closed" => h.busy
         /\ txn[c] => h.busy \/ h.lease # Nobody
         /\ asleep' \subseteq Threads
    BY <1>2, <1>5, <2>1, <2>2 DEF IInv, ConnectionAt, GatedAt, Types
  <2>. QED
    BY <1>1, <2>1, <2>2, <2>4, <2>7, <2>9, <2>11, <2>12, <2>13, GateMoveKeeps
<1>. QED
  BY <1>3, <1>4, <1>5

\* The end of with_connection, and the end of a wait for it or for the database's.
LEMMA ForceCloseConnectionKeeps ==
    ASSUME IInv, NEW t \in Threads, NEW c \in Connections, ForceCloseConnection(t, c)
    PROVE  IInv'
<1>1. native[c] \in {"open", "closed"} /\ "rest" \in {"rest", "db_next"}
  BY BystanderTypes DEF ForceCloseConnection, Returned, Types
<1>. QED
  BY <1>1, ForceCloseKeeps DEF ForceCloseConnection, Outside, Made

\* A sleeping close of a connection wakes up.
LEMMA CloseWakeKeeps ==
    ASSUME IInv, NEW t \in Threads, CloseWake(t)
    PROVE  IInv'
<1>1. th[t].pc = "close_conn" /\ ForceClose(t, th[t].on, th[t].ret)
  BY DEF CloseWake
<1>2. /\ th[t].on \in Connections /\ th[t].ret \in {"rest", "db_next"} /\ Made(th[t].on)
      /\ ~th[t].tx /\ ~th[t].run
  BY <1>1, BystanderTypes DEF ScopedAt, AdmittedAt
<1>. QED
  BY <1>1, <1>2, ForceCloseKeeps

\* admit_operation.
LEMMA AdmitKeeps ==
    ASSUME IInv, NEW t \in Threads, NEW c \in Connections, NEW via \in Anybody, NEW tx \in Anybody,
           NEW holder \in Anybody,
           NEW pc \in {"operate", "prepare", "statement", "close_result", "begin", "work"},
           Admit(t, c, via, tx, holder, pc),
           th[t].pc = "rest", th[t].tx \/ th[t].run => th[t].on = c,
           tx # Nobody => tok[tx].active /\ th[tx].pc \notin {"begin", "began"},
           pc # "operate" => via \in {Nobody, t},
           pc = "prepare" => ~Exists(t) /\ \A u \in Threads : th[u].child # t,
           pc \in {"operate", "prepare"} => holder = Nobody,
           pc \notin {"operate", "prepare"} =>
               holder \in Threads /\ Exists(holder) /\ stmt[holder].on = c /\ stmt[holder].tx = tx,
           pc = "begin" => tx = Nobody
    PROVE  IInv'
<1>. DEFINE h == Claim(gate[c])
            n == [th[t] EXCEPT !.pc = pc, !.on = c, !.via = via, !.child = holder]
<1>1. /\ Returned(c) /\ Set(c, h) /\ th' = [th EXCEPT ![t] = n]
      /\ gate[c].state = "Open" /\ ~gate[c].busy /\ gate[c].request = via /\ gate[c].lease = tx
      /\ via = Nobody \/ Running(via)
      /\ UNCHANGED <<native, txn, db, tok, stmt, req, asleep>>
  BY DEF Admit, Admits, Available, FacadeAccess, Idle, LeaseMatches
<1>2. /\ HeldAt(t) /\ JudgedAt(t) /\ ScopedAt(t) /\ Types /\ th[t] \in Locals
      /\ gate[c] \in OwnerGate /\ t # Nobody /\ ConnectionAt(c)
      /\ th[t].tx \in BOOLEAN /\ th[t].run \in BOOLEAN
  BY BystanderTypes, NobodyAssumption, LocalIs DEF Types, IInv
<1>3. native[c] = "open"
  BY <1>1, <1>2 DEF Returned, ConnectionAt, GatedAt, Types
<1>4. /\ h \in OwnerGate /\ h.busy /\ h.state = gate[c].state /\ h.lease = gate[c].lease
      /\ h.request = gate[c].request /\ h.result = gate[c].result
  BY <1>2, GateOperators
<1>. HIDE DEF h
<1>5. gate'[c] = h
  BY <1>1, <1>4, SetIs
<1>6. pc \in Pcs
  BY DEF Pcs
<1>7. /\ n \in Locals /\ n.pc = pc /\ n.on = c /\ n.via = via /\ n.child = holder
      /\ n.tx = th[t].tx /\ n.run = th[t].run /\ n.durable = th[t].durable
      /\ n.result = th[t].result
  BY <1>2, <1>6 DEF Locals
<1>. HIDE DEF n
<1>8. /\ InScopes(t) /\ th'[t].pc = pc /\ th'[t].on = c /\ th'[t].via = via /\ th'[t].child = holder
      /\ th'[t].tx = th[t].tx /\ th'[t].run = th[t].run /\ th'[t].durable = th[t].durable
      /\ th'[t].result = th[t].result
      /\ \A u \in Threads \ {t} : th'[u] = th[u]
  BY <1>1, <1>2, <1>7 DEF InScopes, Types
<1>9. ASSUME NEW u \in Threads \ {t}, th[u].on = c
      PROVE  ~Claimed(u) /\ Undisturbed(u)
  <2>1. ~Settling(t)
    BY DEF Settling
  <2>2. ~Claimed(u) /\ ~Quiet(u)
    BY <1>1, <1>9, <2>1, VacantIs
  <2>. QED
    BY <1>1, <1>4, <1>5, <1>9, <2>2, ClaimUndisturbs
<1>10. th[t].tx => tx = t
  BY <1>1, <1>2 DEF HeldAt, DestroyPcs
<1>11. ScopedAt(t)' /\ EndedAt(t)'
  BY <1>2, <1>8, <1>10, NobodyAssumption DEF ScopedAt, EndedAt, BothPcs, CallPcs, DestroyPcs, DbPcs
<1>12. JudgedAt(t)'
  BY <1>2, <1>8, <1>10 DEF JudgedAt, DestroyPcs
<1>13. EngineAt(t)'
  BY <1>1, <1>2, <1>4, <1>5, <1>8 DEF EngineAt, ConnectionAt
<1>14. HeldAt(t)'
  BY <1>1, <1>2, <1>4, <1>5, <1>8, <1>10 DEF HeldAt, Ending, Settling, Made, DestroyPcs
<1>15. AdmittedAt(t)'
  <2>1. Claimed(t)' => gate'[c].busy
    BY <1>4, <1>5
  <2>2. native'[c] = "open" /\ gate'[c].state # "Closed_state"
    BY <1>1, <1>3, <1>4, <1>5
  <2>3. pc # "operate" => gate'[c].request \in {Nobody, t}
    BY <1>1, <1>4, <1>5
  <2>4. pc \notin {"operate", "prepare"} =>
            Exists(holder)' /\ stmt'[holder].on = c /\ gate'[c].lease = stmt'[holder].tx
    BY <1>1, <1>4, <1>5 DEF Exists
  <2>5. pc = "begin" => gate'[c].lease = Nobody
    BY <1>1, <1>4, <1>5
  <2>6. pc = "prepare" => /\ gate'[c].request = via
                          /\ ~Exists(t)' /\ \A u \in Threads : th'[u].child # t
    BY <1>1, <1>2, <1>4, <1>5, <1>8 DEF Exists
  <2>. QED
    BY <1>8, <2>1, <2>2, <2>3, <2>4, <2>5, <2>6 DEF AdmittedAt, Inside, Snapshot, Exists, BothPcs,
       CallPcs, DestroyPcs
<1>16. ~DbClaimed(t)' /\ SharedAt(t)'
  BY <1>8, NotServing DEF DbPcs, ClosingPcs, DestroyPcs
<1>17. ThreadAt(t)'
  BY <1>11, <1>12, <1>13, <1>14, <1>15, <1>16 DEF ThreadAt
<1>18. /\ h.result # Nobody => h.result \in Listed(c)
       /\ asleep' \subseteq Threads
       /\ th'[t].child \in {th[t].child, Nobody} \/ Exists(th'[t].child)
       /\ th[t].tx => th'[t].pc \notin {"begin", "began"}
  BY <1>1, <1>2, <1>4, <1>8, <1>10 DEF ConnectionAt, Types
<1>. QED
  BY <1>1, <1>3, <1>4, <1>8, <1>9, <1>16, <1>17, <1>18, GateMoveKeeps

\* execute and prepare.
LEMMA OperationKeeps ==
    ASSUME IInv, NEW t \in Threads, Operation(t)
    PROVE  IInv'
<1>1. PICK pc \in {"operate", "prepare"} :
        /\ pc = "prepare" => MayPrepare(t)
        /\ \/ \E c \in Connections, via \in Anybody : OnConnection(t, c, via, pc)
           \/ \E tx \in Threads : OnToken(t, tx, pc)
  BY DEF Operation
<1>2. pc = "prepare" => ~Exists(t) /\ \A u \in Threads : th[u].child # t
  BY <1>1 DEF MayPrepare
<1>3. Nobody \in Anybody
  BY DEF Anybody
<1>4. ASSUME NEW c \in Connections, NEW via \in Anybody, OnConnection(t, c, via, pc)
      PROVE  IInv'
  BY <1>2, <1>3, <1>4, AdmitKeeps DEF OnConnection, Free
<1>5. ASSUME NEW tx \in Threads, OnToken(t, tx, pc)
      PROVE  IInv'
  <2>. DEFINE via == tok[tx].via
              c == th[tx].on
  <2>1. c \in Connections /\ via \in Anybody /\ via \in {Nobody, tx} /\ tx \in Anybody
    BY BystanderTypes DEF ListedAt, Tokens, Anybody
  <2>2. via \in {Nobody, t}
    BY <1>5, <2>1 DEF OnToken, Reaches
  <2>3. /\ Admit(t, c, via, tx, Nobody, pc) /\ th[t].pc = "rest" /\ (th[t].tx \/ th[t].run => th[t].on = c)
        /\ tok[tx].active /\ th[tx].pc \notin {"begin", "began"}
    BY <1>5 DEF OnToken, Free, Given
  <2>. HIDE DEF via, c
  <2>. QED
    BY <1>2, <1>3, <2>1, <2>2, <2>3, AdmitKeeps
<1>. QED
  BY <1>1, <1>4, <1>5

\* child_operation.
LEMMA OnStatementKeeps ==
    ASSUME IInv, NEW t \in Threads, NEW k \in Threads,
           NEW pc \in {"statement", "close_result", "begin", "work"},
           pc = "begin" => stmt[k].tx = Nobody,
           OnStatement(t, k, pc)
    PROVE  IInv'
<1>. DEFINE via == stmt[k].via
            tx == stmt[k].tx
            c == stmt[k].on
<1>1. /\ c \in Connections /\ via \in Anybody /\ tx \in Anybody /\ ListedAt(k) /\ k \in Anybody
      /\ via \in {Nobody, k}
  BY BystanderTypes, ChildIs DEF Anybody, ListedAt
<1>2. /\ stmt[k].state = "Open" /\ (tx # Nobody => tok[tx].active)
      /\ th[t].pc = "rest" /\ (th[t].tx \/ th[t].run => th[t].on = c)
      /\ Reaches(t, k, "statement", via)
      /\ Admit(t, c, via, tx, k, pc)
  BY DEF OnStatement, Free
<1>3. via \in {Nobody, t}
  BY <1>1, <1>2 DEF Reaches
<1>4. tx # Nobody => th[tx].pc \notin {"begin", "began"}
  BY <1>1 DEF ListedAt
<1>5. Exists(k) /\ stmt[k].on = c /\ stmt[k].tx = tx /\ (pc = "begin" => tx = Nobody)
  BY <1>2 DEF Exists
<1>. HIDE DEF via, tx, c
<1>. QED
  BY <1>1, <1>2, <1>3, <1>4, <1>5, AdmitKeeps

\* A call on a prepared statement is admitted.
LEMMA StatementCallKeeps ==
    ASSUME IInv, NEW t \in Threads, StatementCall(t)
    PROVE  IInv'
<1>1. PICK k \in Threads :
        \E pc \in {"statement", "close_result", "begin", "work"} :
            (pc = "begin" => stmt[k].tx = Nobody) /\ OnStatement(t, k, pc)
  BY DEF StatementCall
<1>. QED
  BY <1>1, OnStatementKeeps

\* A transaction begins: its lease is the claim.
LEMMA WithTransactionKeeps ==
    ASSUME IInv, NEW t \in Threads, NEW c \in Connections, NEW via \in Anybody,
           WithTransaction(t, c, via)
    PROVE  IInv'
<1>. DEFINE h == [gate[c] EXCEPT !.lease = t]
            new == [active |-> TRUE, via |-> via, poisoned |-> FALSE]
            n == [th[t] EXCEPT !.pc = "begin", !.on = c, !.via = via, !.tx = TRUE]
<1>1. /\ th[t].pc = "rest" /\ (th[t].tx \/ th[t].run => th[t].on = c) /\ ~th[t].tx
      /\ via = (IF th[t].run THEN t ELSE Nobody) /\ Returned(c)
      /\ gate[c].request = via /\ (via = Nobody \/ Running(via)) /\ gate[c].state = "Open"
      /\ ~gate[c].busy /\ gate[c].lease = Nobody /\ gate[c].result = Nobody
      /\ Set(c, h) /\ tok' = [tok EXCEPT ![t] = new] /\ th' = [th EXCEPT ![t] = n]
      /\ UNCHANGED <<native, txn, db, stmt, req, asleep>>
  BY DEF WithTransaction, Free, FacadeAccess, Available, Unleased, Idle
<1>2. /\ ScopedAt(t) /\ HeldAt(t) /\ Types /\ Leases /\ th[t] \in Locals /\ gate[c] \in OwnerGate
      /\ t # Nobody /\ ConnectionAt(c) /\ th[t].run \in BOOLEAN
  BY BystanderTypes, NobodyAssumption, LocalIs DEF Types, IInv
<1>3. native[c] = "open"
  BY <1>1, <1>2 DEF Returned, ConnectionAt, GatedAt, Types
<1>4. /\ h \in OwnerGate /\ h.busy = gate[c].busy /\ h.state = gate[c].state /\ h.lease = t
      /\ h.request = gate[c].request /\ h.result = gate[c].result
  BY <1>2 DEF OwnerGate, Anybody
<1>. HIDE DEF h
<1>5. /\ gate' \in [Connections -> OwnerGate] /\ gate'[c] = h
      /\ \A d \in Connections \ {c} : gate'[d] = gate[d]
  BY <1>1, <1>4, SetIs
<1>6. /\ tok' \in [Threads -> Tokens] /\ tok'[t].via = via
      /\ \A u \in Threads \ {t} : tok'[u] = tok[u]
  <2>1. new \in Tokens /\ new.via = via
    BY DEF Tokens
  <2>. QED
    BY <1>1, <1>2, <2>1 DEF Types
<1>7. "begin" \in Pcs
  BY DEF Pcs
<1>8. /\ n \in Locals /\ n.pc = "begin" /\ n.on = c /\ n.tx = TRUE
      /\ n.child = th[t].child /\ n.run = th[t].run /\ n.durable = th[t].durable
      /\ n.result = th[t].result
  BY <1>2, <1>7 DEF Locals
<1>. HIDE DEF n
<1>9. /\ th' \in [Threads -> Locals] /\ th'[t].pc = "begin" /\ th'[t].on = c /\ th'[t].tx
      /\ th'[t].child = Nobody /\ th'[t].run = th[t].run /\ ~th'[t].durable
      /\ th'[t].result = "none"
      /\ \A u \in Threads \ {t} : th'[u] = th[u]
  BY <1>1, <1>2, <1>8 DEF Types, ScopedAt
<1>10. TypeOK'
  <2>1. Types'
    BY <1>1, <1>2, <1>5, <1>6, <1>9 DEF Types
  <2>2. ASSUME NEW d \in Connections, NEW u \in Threads
        PROVE  /\ gate'[d].lease = u => th'[u].tx /\ th'[u].on = d
               /\ gate'[d].request = u => th'[u].run /\ th'[u].on = d
    BY <1>1, <1>2, <1>4, <1>5, <1>9 DEF Leases
  <2>. QED
    BY <2>1, <2>2, TypesAre DEF Leases
<1>11. ScopedAt(t)' /\ EndedAt(t)' /\ EngineAt(t)' /\ JudgedAt(t)'
  BY <1>9 DEF ScopedAt, EndedAt, EngineAt, JudgedAt, BothPcs, CallPcs, DestroyPcs, DbPcs
<1>12. HeldAt(t)'
  BY <1>1, <1>2, <1>3, <1>4, <1>5, <1>9 DEF HeldAt, Ending, Settling, Made, DestroyPcs
<1>13. AdmittedAt(t)' /\ ~Claimed(t)'
  BY <1>9 DEF AdmittedAt, Claimed, Inside, Snapshot, BothPcs, CallPcs, DestroyPcs
<1>14. ~DbClaimed(t)' /\ SharedAt(t)'
  BY <1>9, NotServing DEF DbPcs, ClosingPcs, DestroyPcs
<1>15. ThreadAt(t)'
  BY <1>11, <1>12, <1>13, <1>14 DEF ThreadAt
<1>16. ASSUME NEW u \in Threads \ {t}, th[u].on = c
       PROVE  Undisturbed(u)
  <2>1. ~Settling(t)
    BY <1>1 DEF Settling
  <2>2. ~Claimed(u) /\ ~Quiet(u)
    BY <1>1, <1>16, <2>1, VacantIs
  <2>3. ~th[u].tx
    <3>1. HeldAt(u) /\ AdmittedAt(u) /\ u # Nobody
      BY BystanderTypes, NobodyAssumption
    <3>2. th[u].pc \notin DestroyPcs /\ ~(th[u].tx /\ th[u].pc = "release")
      BY <2>2 DEF Claimed, Quiet
    <3>3. th[u].pc # "unregister"
      BY <1>1, <1>16, <3>1 DEF AdmittedAt
    <3>. QED
      BY <1>1, <1>16, <3>1, <3>2, <3>3 DEF HeldAt
  <2>. QED
    BY <1>1, <1>4, <1>5, <1>16, <2>2, <2>3 DEF Undisturbed, Quiet
<1>17. ASSUME NEW k \in Threads
       PROVE  ListedAt(k)'
  <2>1. ListedAt(k) /\ stmt[k].on \in Connections /\ stmt[k].tx \in Anybody
    BY BystanderTypes, ChildIs
  <2>2. Exists(k) /\ stmt[k].tx # Nobody => stmt[k].on # c
    BY <1>1, <2>1 DEF ListedAt
  <2>3. stmt[k].tx # Nobody => stmt[k].tx \in Threads \ {t}
    BY <1>1, <2>1 DEF ListedAt, Anybody
  <2>4. tok'[k].via \in {Nobody, k}
    BY <1>1, <1>6, <2>1 DEF ListedAt
  <2>5. gate'[stmt[k].on].request = gate[stmt[k].on].request
    BY <1>4, <1>5, <2>1
  <2>. QED
    BY <1>1, <1>5, <1>9, <2>1, <2>2, <2>3, <2>4, <2>5 DEF ListedAt, Exists
<1>18. ConnectionAt(c)'
  <2>1. Listed(c)' = Listed(c)
    BY <1>1 DEF Listed, Exists
  <2>. QED
    BY <1>1, <1>2, <1>3, <1>4, <1>5, <2>1 DEF ConnectionAt, GatedAt, Made
<1>. QED
  BY <1>1, <1>5, <1>6, <1>9, <1>10, <1>13, <1>14, <1>15, <1>16, <1>17, <1>18, GateKeeps

\* admit_request.
LEMMA RunKeeps ==
    ASSUME IInv, NEW t \in Threads, NEW c \in Connections, Run(t, c)
    PROVE  IInv'
<1>. DEFINE h == [gate[c] EXCEPT !.request = t]
            new == [state |-> "Running", cancelled |-> FALSE]
            n == [th[t] EXCEPT !.on = c, !.run = TRUE]
<1>1. /\ th[t].pc = "rest" /\ ~th[t].tx /\ ~th[t].run /\ Returned(c)
      /\ gate[c].request = Nobody /\ gate[c].state = "Open"
      /\ ~gate[c].busy /\ gate[c].lease = Nobody /\ gate[c].result = Nobody /\ Listed(c) = {}
      /\ Set(c, h) /\ req' = [req EXCEPT ![t] = new] /\ th' = [th EXCEPT ![t] = n]
      /\ UNCHANGED <<native, txn, db, tok, stmt, asleep>>
  BY DEF Run, Outside, FacadeAccess, Available, Unleased, Idle
<1>2. /\ ScopedAt(t) /\ HeldAt(t) /\ Types /\ Leases /\ th[t] \in Locals /\ gate[c] \in OwnerGate
      /\ t # Nobody /\ ConnectionAt(c)
  BY BystanderTypes, NobodyAssumption DEF Types, IInv
<1>3. native[c] = "open"
  BY <1>1, <1>2 DEF Returned, ConnectionAt, GatedAt, Types
<1>4. /\ h \in OwnerGate /\ h.busy = gate[c].busy /\ h.state = gate[c].state /\ h.request = t
      /\ h.lease = gate[c].lease /\ h.result = gate[c].result
  BY <1>2 DEF OwnerGate, Anybody
<1>. HIDE DEF h
<1>5. /\ gate' \in [Connections -> OwnerGate] /\ gate'[c] = h
      /\ \A d \in Connections \ {c} : gate'[d] = gate[d]
  BY <1>1, <1>4, SetIs
<1>6. req' \in [Threads -> Requests] /\ \A u \in Threads \ {t} : req'[u] = req[u]
  BY <1>1, <1>2 DEF Types, Requests
<1>7. /\ n \in Locals /\ n.pc = th[t].pc /\ n.on = c /\ n.tx = th[t].tx /\ n.run = TRUE
      /\ n.child = th[t].child /\ n.durable = th[t].durable /\ n.result = th[t].result
  BY <1>2 DEF Locals
<1>. HIDE DEF n
<1>8. /\ th' \in [Threads -> Locals] /\ th'[t].pc = "rest" /\ th'[t].on = c /\ ~th'[t].tx
      /\ th'[t].child = Nobody /\ th'[t].run /\ ~th'[t].durable
      /\ th'[t].result = "none"
      /\ \A u \in Threads \ {t} : th'[u] = th[u]
  BY <1>1, <1>2, <1>7 DEF Types, ScopedAt
<1>9. TypeOK'
  <2>1. Types'
    BY <1>1, <1>2, <1>5, <1>6, <1>8 DEF Types
  <2>2. ASSUME NEW d \in Connections, NEW u \in Threads
        PROVE  /\ gate'[d].lease = u => th'[u].tx /\ th'[u].on = d
               /\ gate'[d].request = u => th'[u].run /\ th'[u].on = d
    BY <1>1, <1>2, <1>4, <1>5, <1>8 DEF Leases
  <2>. QED
    BY <2>1, <2>2, TypesAre DEF Leases
<1>10. ThreadAt(t)' /\ ~Claimed(t)' /\ ~DbClaimed(t)'
  BY <1>1, <1>3, <1>4, <1>5, <1>8, RestingIs
<1>11. ASSUME NEW u \in Threads \ {t}, th[u].on = c
       PROVE  Undisturbed(u)
  <2>1. ~Settling(t)
    BY <1>1 DEF Settling
  <2>2. ~Claimed(u) /\ ~Quiet(u)
    BY <1>1, <1>11, <2>1, VacantIs
  <2>3. ~th[u].run /\ th[u].pc \notin {"unregister", "finish", "release"}
    <3>1. ScopedAt(u) /\ HeldAt(u) /\ AdmittedAt(u) /\ u # Nobody
      BY BystanderTypes, NobodyAssumption
    <3>2. ~th[u].run
      BY <1>1, <1>11, <3>1 DEF HeldAt
    <3>3. th[u].pc # "unregister"
      BY <1>1, <1>11, <3>1 DEF AdmittedAt
    <3>4. th[u].pc # "release"
      BY <2>2, <3>1 DEF ScopedAt, Quiet
    <3>5. th[u].pc # "finish"
      BY <1>1, <1>11, <2>2 DEF Claimed
    <3>. QED
      BY <3>2, <3>3, <3>4, <3>5
  <2>. QED
    BY <1>1, <1>4, <1>5, <1>11, <2>2, <2>3 DEF Undisturbed, Quiet
<1>12. ASSUME NEW k \in Threads
       PROVE  ListedAt(k)'
  <2>1. ListedAt(k) /\ stmt[k].on \in Connections /\ stmt[k].tx \in Anybody
    BY BystanderTypes, ChildIs
  <2>2. Exists(k) => stmt[k].on # c
    BY <1>1 DEF Listed
  <2>3. stmt[k].tx # Nobody => stmt[k].tx \in Threads \ {t}
    BY <1>1, <2>1 DEF ListedAt, Anybody
  <2>. QED
    BY <1>1, <1>5, <1>8, <2>1, <2>2, <2>3 DEF ListedAt, Exists
<1>13. ConnectionAt(c)'
  <2>1. Listed(c)' = Listed(c)
    BY <1>1 DEF Listed, Exists
  <2>. QED
    BY <1>1, <1>2, <1>3, <1>4, <1>5, <2>1 DEF ConnectionAt, GatedAt, Made
<1>. QED
  BY <1>1, <1>5, <1>6, <1>8, <1>9, <1>10, <1>11, <1>12, <1>13, GateKeeps

\* The transaction is over: its lease and its token are gone.
LEMMA ReleaseKeeps ==
    ASSUME IInv, NEW t \in Threads, Release(t)
    PROVE  IInv'
<1>0. PICK c \in Connections : c = th[t].on
  BY BystanderTypes
<1>. DEFINE h == ReleaseLease(gate[c])
            r == [th[t] EXCEPT !.tx = FALSE]
            n == AtRest(r)
<1>1. /\ th[t].pc = "release" /\ Set(c, h) /\ Signal(c)
      /\ tok' = [tok EXCEPT ![t] = NoToken]
      /\ stmt' = [k \in Threads |-> IF stmt[k].tx = t THEN [stmt[k] EXCEPT !.tx = Nobody] ELSE stmt[k]]
      /\ th' = [th EXCEPT ![t] = n]
      /\ UNCHANGED <<native, txn, db, req>>
  BY <1>0 DEF Release
<1>2. /\ ScopedAt(t) /\ HeldAt(t) /\ AdmittedAt(t) /\ EndedAt(t) /\ EngineAt(t) /\ Types /\ Leases
      /\ th[t] \in Locals /\ gate[c] \in OwnerGate /\ t # Nobody /\ th[t].tx /\ ~gate[c].busy
      /\ gate[c].lease \in {t, Nobody} /\ ~txn[c] /\ th[t].run \in BOOLEAN /\ ConnectionAt(c)
  BY <1>0, <1>1, BystanderTypes, NobodyAssumption, LocalIs
     DEF ScopedAt, HeldAt, EngineAt, DestroyPcs, IInv
<1>3. /\ h \in OwnerGate /\ h.busy = gate[c].busy /\ h.state = gate[c].state /\ h.lease = Nobody
      /\ h.request = gate[c].request /\ h.result = gate[c].result
  BY <1>2, GateOperators
<1>. HIDE DEF h
<1>4. /\ gate' \in [Connections -> OwnerGate] /\ gate'[c] = h
      /\ \A d \in Connections \ {c} : gate'[d] = gate[d]
  BY <1>1, <1>3, SetIs
<1>5. /\ tok' \in [Threads -> Tokens] /\ tok'[t].via = Nobody
      /\ \A u \in Threads \ {t} : tok'[u] = tok[u]
  <2>1. NoToken \in Tokens /\ NoToken.via = Nobody
    BY DEF NoToken, Tokens, Anybody
  <2>. QED
    BY <1>1, <1>2, <2>1 DEF Types
<1>6. /\ stmt' \in [Threads -> Children]
      /\ \A k \in Threads :
            /\ Exists(k)' <=> Exists(k)
            /\ stmt'[k].on = stmt[k].on /\ stmt'[k].via = stmt[k].via
            /\ stmt'[k].tx = IF stmt[k].tx = t THEN Nobody ELSE stmt[k].tx
  <2>1. ASSUME NEW k \in Threads
        PROVE  /\ stmt'[k] \in Children /\ stmt'[k].state = stmt[k].state
               /\ stmt'[k].on = stmt[k].on /\ stmt'[k].via = stmt[k].via
               /\ stmt'[k].tx = IF stmt[k].tx = t THEN Nobody ELSE stmt[k].tx
    <3>1. stmt'[k] = IF stmt[k].tx = t THEN [stmt[k] EXCEPT !.tx = Nobody] ELSE stmt[k]
      BY <1>1
    <3>2. stmt[k] \in Children /\ Nobody \in Anybody
      BY <1>2 DEF Types, Anybody
    <3>. QED
      BY <3>1, <3>2 DEF Children
  <2>2. DOMAIN stmt' = Threads /\ stmt' = [k \in Threads |-> stmt'[k]]
    BY <1>1
  <2>. QED
    BY <2>1, <2>2 DEF Exists
<1>7. /\ th' \in [Threads -> Locals] /\ th'[t].pc = "rest" /\ th'[t].child = Nobody
      /\ ~th'[t].durable /\ th'[t].result = "none" /\ ~th'[t].tx
      /\ th'[t].run = th[t].run /\ (th[t].run => th'[t].on = c)
      /\ \A u \in Threads \ {t} : th'[u] = th[u]
  <2>1. r \in Locals /\ ~r.tx /\ r.run = th[t].run /\ r.on = th[t].on
    BY <1>2 DEF Locals
  <2>. HIDE DEF r
  <2>2. /\ n \in Locals /\ n.pc = "rest" /\ n.child = Nobody /\ ~n.durable /\ n.result = "none"
        /\ n.tx = r.tx /\ n.run = r.run /\ (r.tx \/ r.run => n.on = r.on)
    BY <2>1, AtRestIs
  <2>. HIDE DEF n
  <2>. QED
    BY <1>0, <1>1, <1>2, <2>1, <2>2 DEF Types
<1>8. \A k \in Threads : Exists(k) => stmt[k].tx # t /\ stmt'[k].tx = stmt[k].tx
  BY <1>1, <1>2, <1>6 DEF EndedAt
<1>9. TypeOK'
  <2>1. Types'
    BY <1>1, <1>2, <1>4, <1>5, <1>6, <1>7 DEF Types, Signal
  <2>2. ASSUME NEW d \in Connections, NEW u \in Threads
        PROVE  /\ gate'[d].lease = u => th'[u].tx /\ th'[u].on = d
               /\ gate'[d].request = u => th'[u].run /\ th'[u].on = d
    BY <1>0, <1>2, <1>3, <1>4, <1>7, NobodyAssumption DEF Leases
  <2>. QED
    BY <2>1, <2>2, TypesAre DEF Leases
<1>10. ThreadAt(t)' /\ ~Claimed(t)' /\ ~DbClaimed(t)'
  <2>1. th'[t].run => gate'[th'[t].on].request = t /\ native'[th'[t].on] \in {"open", "closed"}
    BY <1>0, <1>1, <1>2, <1>3, <1>4, <1>7 DEF HeldAt, Made
  <2>. QED
    BY <1>7, <2>1, RestingIs
<1>11. ASSUME NEW u \in Threads \ {t}
       PROVE  Bystander(u) /\ Spared(u) /\ Served(u)
  <2>1. Undisturbed(u)
    <3>1. CASE th[u].on # c
      BY <1>4, <3>1, UndisturbedWhenSame, BystanderTypes
    <3>2. CASE th[u].on = c
      <4>1. ~Claimed(u)
        BY <1>2, <3>2, ClaimIsOpen
      <4>2. gate[c].lease = t => ~th[u].tx /\ ~Settling(u)
        BY <1>2, <3>2, BystanderTypes DEF HeldAt
      <4>. QED
        BY <1>2, <1>3, <1>4, <3>2, <4>1, <4>2 DEF Undisturbed
    <3>. QED
      BY <3>1, <3>2
  <2>2. Bystander(u)
    BY <1>1, <1>5, <1>7, <2>1 DEF Bystander
  <2>3. Spared(u)
    <3>1. AdmittedAt(u) /\ EndedAt(u) /\ th[u].todo \subseteq Threads /\ th[u].child \in Anybody
          /\ u # Nobody /\ ScopedAt(u) /\ th'[u] = th[u]
      BY <1>7, BystanderTypes, LocalIs, NobodyAssumption
    <3>2. Listed(th[u].on)' = Listed(th[u].on)
      BY <1>6, <3>1 DEF Listed
    <3>3. th[u].pc = "prepare" => ~Exists(u)' /\ \A k \in Threads : th'[k].child # u
      BY <1>6, <1>7, <3>1 DEF AdmittedAt
    <3>4. /\ th[u].pc \in CallPcs \/ (Snapshot(u) /\ th[u].pc \in BothPcs) =>
              /\ Exists(th[u].child)'
              /\ stmt'[th[u].child].on = stmt[th[u].child].on
              /\ stmt'[th[u].child].tx = stmt[th[u].child].tx
          /\ th[u].pc = "destroy" => \A k \in th[u].todo : Exists(k)' /\ stmt'[k].on = stmt[k].on
      <4>1. th[u].pc \in CallPcs \/ Snapshot(u) => th[u].child \in Threads
        BY <3>1 DEF ScopedAt, Snapshot, Anybody
      <4>. QED
        BY <1>6, <1>8, <3>1, <4>1 DEF AdmittedAt, EndedAt
    <3>5. th[u].pc = "close_child" /\ Exists(th[u].child)' =>
            /\ Exists(th[u].child)
            /\ stmt'[th[u].child].on = stmt[th[u].child].on
            /\ stmt'[th[u].child].via = stmt[th[u].child].via
      <4>1. th[u].pc = "close_child" => th[u].child \in Threads
        BY <3>1 DEF ScopedAt, Anybody
      <4>. QED
        BY <1>6, <3>1, <4>1
    <3>6. th[u].pc \in {"close_native", "mark"} => Listed(th[u].on)' = {}
      BY <3>1, <3>2 DEF AdmittedAt
    <3>7. /\ \A k \in Threads : Exists(k)' /\ stmt'[k].tx = u => Exists(k) /\ stmt[k].tx = u
          /\ \A k \in Threads : Exists(k)' /\ stmt'[k].via = u => Exists(k) /\ stmt[k].via = u
      BY <1>6, <1>8
    <3>. QED
      BY <3>3, <3>4, <3>5, <3>6, <3>7 DEF Spared
  <2>4. Served(u)
    BY <1>1, BystanderTypes DEF SharedAt, Served
  <2>. QED
    BY <2>2, <2>3, <2>4
<1>12. ASSUME NEW k \in Threads
       PROVE  ListedAt(k)'
  <2>1. ListedAt(k) /\ stmt[k].on \in Connections /\ stmt[k].tx \in Anybody
    BY BystanderTypes, ChildIs
  <2>2. Exists(k) /\ stmt[k].tx # Nobody => stmt[k].on # c
    BY <1>2, <1>8, <2>1 DEF ListedAt
  <2>3. stmt'[k].tx # Nobody => stmt'[k].tx \in Threads \ {t} /\ stmt'[k].tx = stmt[k].tx
    BY <1>6, <2>1 DEF Anybody
  <2>4. tok'[k].via \in {Nobody, k}
    BY <1>5, <2>1 DEF ListedAt
  <2>5. gate'[stmt[k].on].request = gate[stmt[k].on].request
    BY <1>3, <1>4, <2>1
  <2>6. Exists(k) => stmt'[k].tx = stmt[k].tx /\ (Exists(k)' <=> Exists(k))
    BY <1>6, <1>8
  <2>7. /\ Exists(k)' <=> Exists(k)
        /\ stmt'[k].on = stmt[k].on /\ stmt'[k].via = stmt[k].via
    BY <1>6
  <2>8. stmt'[k].tx # Nobody => th'[stmt'[k].tx].tx /\ th'[stmt'[k].tx].pc \notin {"begin", "began"}
    BY <1>7, <2>1, <2>3 DEF ListedAt
  <2>9. Exists(k) /\ stmt[k].tx # Nobody => gate'[stmt[k].on].lease = stmt[k].tx
    BY <1>4, <2>1, <2>2 DEF ListedAt
  <2>. QED
    BY <1>1, <2>1, <2>4, <2>5, <2>6, <2>7, <2>8, <2>9 DEF ListedAt
<1>13. ASSUME NEW d \in Connections
       PROVE  ConnectionAt(d)'
  <2>1. ConnectionAt(d) /\ Listed(d)' = Listed(d)
    BY <1>6 DEF IInv, Listed
  <2>2. \A k \in Listed(d) : stmt'[k].via = stmt[k].via
    BY <1>6 DEF Listed
  <2>3. /\ gate'[d].request = gate[d].request /\ gate'[d].result = gate[d].result
        /\ gate'[d].busy = gate[d].busy /\ gate'[d].state = gate[d].state
        /\ gate'[d].lease \in {gate[d].lease, Nobody}
        /\ txn[d] => gate'[d].lease = gate[d].lease
    BY <1>2, <1>3, <1>4
  <2>4. GatedAt(d)'
    BY <1>1, <2>1, <2>2, <2>3 DEF ConnectionAt, GatedAt
  <2>. QED
    BY <1>1, <2>1, <2>3, <2>4 DEF ConnectionAt, Made
<1>. QED
  BY <1>1, <1>9, <1>10, <1>11, <1>12, <1>13, StepKeeps DEF IInv

\* A statement was prepared: it is registered before the operation finishes.
LEMMA PreparedKeeps ==
    ASSUME IInv, NEW t \in Threads, NEW c \in Connections, c = th[t].on, th[t].pc = "prepare",
           stmt' = [stmt EXCEPT ![t] = [state |-> "Open", on |-> c, via |-> th[t].via,
                                        tx |-> gate[c].lease]],
           Set(c, FinishOperation(gate[c])), Signal(c), Rest(t),
           UNCHANGED <<native, txn, db, tok, req>>
    PROVE  IInv'
<1>. DEFINE h == FinishOperation(gate[c])
            new == [state |-> "Open", on |-> c, via |-> th[t].via, tx |-> gate[c].lease]
<1>1. /\ ScopedAt(t) /\ HeldAt(t) /\ AdmittedAt(t) /\ EngineAt(t) /\ JudgedAt(t) /\ Types /\ Leases
      /\ gate[c] \in OwnerGate /\ t # Nobody /\ Claimed(t) /\ gate[c].busy
      /\ th[t].tx \in BOOLEAN /\ th[t].run \in BOOLEAN /\ ConnectionAt(c)
      /\ th[t].via \in Anybody /\ gate[c].lease \in Anybody
  BY BystanderTypes, NobodyAssumption, LocalIs, GateIs, ClaimIsOpen DEF Claimed, IInv
<1>2. /\ native[c] = "open" /\ gate[c].state # "Closed_state" /\ gate[c].request = th[t].via
      /\ th[t].via \in {Nobody, t} /\ ~Exists(t) /\ \A u \in Threads : th[u].child # t
      /\ txn[c] => gate[c].lease # Nobody
  BY <1>1 DEF AdmittedAt, EngineAt, Inside, DestroyPcs
<1>3. /\ h \in OwnerGate /\ ~h.busy /\ h.state = gate[c].state /\ h.lease = gate[c].lease
      /\ h.request = gate[c].request /\ h.result = gate[c].result
  BY <1>1, GateOperators
<1>4. /\ gate' \in [Connections -> OwnerGate] /\ gate'[c] = h
      /\ \A d \in Connections \ {c} : gate'[d] = gate[d]
  BY <1>3, SetIs
<1>. HIDE DEF h
<1>5. Returns(t)
  BY RestIs
<1>6. /\ InScopes(t) /\ th'[t].child = Nobody /\ th'[t].pc = "rest"
      /\ \A u \in Threads \ {t} : th'[u] = th[u]
  BY <1>5 DEF Returns, InScopes
<1>7. /\ stmt' \in [Threads -> Children] /\ stmt'[t].on = c /\ stmt'[t].via = th[t].via
      /\ stmt'[t].tx = gate[c].lease /\ Exists(t)'
      /\ \A k \in Threads \ {t} : stmt'[k] = stmt[k] /\ (Exists(k)' <=> Exists(k))
  <2>1. /\ new \in Children /\ new.state = "Open" /\ new.on = c /\ new.via = th[t].via
        /\ new.tx = gate[c].lease
    BY <1>1 DEF Children, GateStates
  <2>2. stmt' = [stmt EXCEPT ![t] = new] /\ stmt \in [Threads -> Children]
    BY <1>1 DEF Types
  <2>. HIDE DEF new
  <2>. QED
    BY <2>1, <2>2 DEF Exists
<1>8. /\ Listed(c)' = Listed(c) \cup {t}
      /\ \A d \in Connections \ {c} : Listed(d)' = Listed(d)
  BY <1>2, <1>7 DEF Listed
<1>9. TypeOK'
  <2>1. Types'
    BY <1>1, <1>4, <1>6, <1>7 DEF Types, InScopes, Signal
  <2>2. \A d \in Connections :
            /\ gate'[d].lease \in {gate[d].lease, Nobody}
            /\ gate'[d].request \in {gate[d].request, Nobody}
    BY <1>3, <1>4
  <2>3. Leases'
    BY <1>6, <2>2, LeasesStay DEF InScopes
  <2>. QED
    BY <2>1, <2>3, TypesAre
<1>10. ThreadAt(t)' /\ ~Claimed(t)' /\ ~DbClaimed(t)'
  BY <1>1, <1>3, <1>4, <1>5, RestingIs DEF Returns, HeldAt, Made, DestroyPcs
<1>11. ASSUME NEW u \in Threads \ {t}
       PROVE  Bystander(u) /\ Spared(u) /\ Served(u)
  <2>1. th[u].on = c => ~Claimed(u) /\ ~Quiet(u) /\ Undisturbed(u)
    <3>1. Sole(t) /\ c = th[t].on
      BY <1>1 DEF Sole
    <3>2. /\ gate'[c] \in OwnerGate /\ gate'[c].lease = gate[c].lease
          /\ gate'[c].request = gate[c].request /\ gate'[c].state = gate[c].state
      BY <1>3, <1>4
    <3>. QED
      BY <1>2, <3>1, <3>2, SoleIs, SoleUndisturbs
  <2>2. Undisturbed(u)
    BY <1>4, <2>1, UndisturbedWhenSame, BystanderTypes
  <2>3. Bystander(u)
    BY <1>6, <2>2 DEF Bystander
  <2>4. /\ AdmittedAt(u) /\ EndedAt(u) /\ th[u].todo \subseteq Threads /\ th[u].child \in Anybody
        /\ u # Nobody /\ ScopedAt(u) /\ th'[u] = th[u] /\ th[u].on \in Connections
    BY <1>6, BystanderTypes, LocalIs, NobodyAssumption
  <2>5. Spared(u)
    <3>1. th[u].pc = "prepare" => ~Exists(u)' /\ \A k \in Threads : th'[k].child # u
      BY <1>6, <1>7, <2>4 DEF AdmittedAt
    <3>2. /\ th[u].pc \in CallPcs \/ (Snapshot(u) /\ th[u].pc \in BothPcs) =>
              /\ Exists(th[u].child)'
              /\ stmt'[th[u].child].on = stmt[th[u].child].on
              /\ stmt'[th[u].child].tx = stmt[th[u].child].tx
          /\ th[u].pc = "destroy" => \A k \in th[u].todo : Exists(k)' /\ stmt'[k].on = stmt[k].on
      <4>1. th[u].pc \in CallPcs \/ Snapshot(u) => th[u].child \in Threads
        BY <2>4 DEF ScopedAt, Snapshot, Anybody
      <4>. QED
        BY <1>2, <1>7, <2>4, <4>1 DEF AdmittedAt, EndedAt
    <3>3. th[u].pc = "close_child" /\ Exists(th[u].child)' =>
            /\ Exists(th[u].child)
            /\ stmt'[th[u].child].on = stmt[th[u].child].on
            /\ stmt'[th[u].child].via = stmt[th[u].child].via
      <4>1. th[u].pc = "close_child" => th[u].child \in Threads \ {t}
        BY <1>2, <2>4 DEF ScopedAt, Anybody
      <4>. QED
        BY <1>7, <2>4, <4>1
    <3>4. th[u].pc \in {"close_native", "mark"} => Listed(th[u].on)' = {}
      <4>1. th[u].pc \in {"close_native", "mark"} => Claimed(u)
        BY DEF Claimed, DestroyPcs
      <4>2. th[u].on # c => Listed(th[u].on)' = Listed(th[u].on)
        BY <1>8, <2>4
      <4>. QED
        BY <2>1, <2>4, <4>1, <4>2 DEF AdmittedAt
    <3>5. Ending(u) \/ th[u].pc \in {"unlease", "release"} =>
            \A k \in Threads : Exists(k)' /\ stmt'[k].tx = u => Exists(k) /\ stmt[k].tx = u
      <4>1. ASSUME Ending(u) \/ th[u].pc \in {"unlease", "release"}, gate[c].lease = u
            PROVE  FALSE
        <5>1. th[u].on = c
          BY <1>1, <4>1 DEF Leases
        <5>2. Claimed(u) \/ Quiet(u)
          BY <2>4, <4>1 DEF Claimed, Quiet, ScopedAt
        <5>. QED
          BY <2>1, <5>1, <5>2
      <4>. QED
        BY <1>7, <4>1
    <3>6. \A k \in Threads : Exists(k)' /\ stmt'[k].via = u => Exists(k) /\ stmt[k].via = u
      BY <1>2, <1>7, <2>4
    <3>. QED
      BY <3>1, <3>2, <3>3, <3>4, <3>5, <3>6 DEF Spared
  <2>6. Served(u)
    BY BystanderTypes DEF SharedAt, Served
  <2>. QED
    BY <2>3, <2>5, <2>6
<1>12. ASSUME NEW k \in Threads
       PROVE  ListedAt(k)'
  <2>1. ListedAt(k) /\ stmt[k].on \in Connections /\ stmt[k].tx \in Anybody
    BY BystanderTypes, ChildIs
  <2>2. \A u \in Threads : th[u].tx /\ th[u].pc \notin {"begin", "began"} =>
            th'[u].tx /\ th'[u].pc \notin {"begin", "began"}
    BY <1>6 DEF InScopes
  <2>3. \A d \in Connections : gate'[d].lease = gate[d].lease /\ gate'[d].request = gate[d].request
    BY <1>3, <1>4
  <2>4. CASE k = t
    <3>1. gate[c].lease # Nobody =>
              th[gate[c].lease].tx /\ th[gate[c].lease].pc \notin {"begin", "began"}
      <4>1. ASSUME NEW u \in Threads, gate[c].lease = u
            PROVE  th[u].tx /\ th[u].pc \notin {"begin", "began"}
        BY <1>1, <4>1, BystanderTypes DEF Leases, HeldAt
      <4>. QED
        BY <1>1, <4>1 DEF Anybody
    <3>2. gate[c].lease # Nobody =>
              th'[gate[c].lease].tx /\ th'[gate[c].lease].pc \notin {"begin", "began"}
      BY <1>1, <2>2, <3>1 DEF Anybody
    <3>. QED
      BY <1>2, <1>3, <1>4, <1>7, <2>1, <2>4, <3>2 DEF ListedAt
  <2>5. CASE k # t
    <3>1. stmt[k].tx # Nobody => th'[stmt[k].tx].tx /\ th'[stmt[k].tx].pc \notin {"begin", "began"}
      BY <2>1, <2>2 DEF ListedAt, Anybody
    <3>. QED
      BY <1>7, <2>1, <2>3, <2>5, <3>1 DEF ListedAt
  <2>. QED
    BY <2>4, <2>5
<1>13. ASSUME NEW d \in Connections
       PROVE  ConnectionAt(d)'
  <2>1. ConnectionAt(d) /\ gate'[d].lease = gate[d].lease /\ gate'[d].request = gate[d].request
        /\ gate'[d].state = gate[d].state /\ gate'[d].result = gate[d].result
    BY <1>3, <1>4 DEF IInv
  <2>2. \A k \in Listed(d) : stmt'[k].via = stmt[k].via
    BY <1>2, <1>7 DEF Listed
  <2>3. CASE d = c
    <3>1. GatedAt(c)'
      <4>1. GatedAt(c) /\ native[c] = "open" /\ native' = native
        BY <1>2, <2>1, <2>3 DEF ConnectionAt
      <4>2. gate'[c].request # Nobody => stmt'[t].via = gate'[c].request
        BY <1>2, <1>7, <2>1, <2>3
      <4>3. gate'[c].request # Nobody => \A k \in Listed(c)' : stmt'[k].via = gate'[c].request
        BY <1>8, <2>1, <2>2, <2>3, <4>1, <4>2 DEF GatedAt
      <4>. QED
        BY <1>2, <2>1, <2>3, <4>1, <4>3 DEF GatedAt
    <3>. QED
      BY <1>2, <1>8, <2>1, <2>3, <3>1 DEF ConnectionAt, Made
  <2>4. CASE d # c
    BY <1>4, <1>8, <2>1, <2>2, <2>4 DEF ConnectionAt, GatedAt, Made
  <2>. QED
    BY <2>3, <2>4
<1>. QED
  BY <1>6, <1>9, <1>10, <1>11, <1>12, <1>13, StepKeeps DEF IInv

\* Preparing returns, with a statement or without.
LEMMA PrepareReturnKeeps ==
    ASSUME IInv, NEW t \in Threads, PrepareReturn(t)
    PROVE  IInv'
<1>0. PICK c \in Connections : c = th[t].on
  BY BystanderTypes
<1>1. Types /\ th[t].pc = "prepare"
  BY BystanderTypes DEF PrepareReturn
<1>2. CASE UNCHANGED stmt
  BY <1>1, <1>2, FinishOperationKeeps DEF PrepareReturn, Types
<1>3. CASE stmt' = [stmt EXCEPT ![t] = [state |-> "Open", on |-> c, via |-> th[t].via,
                                        tx |-> gate[c].lease]]
  BY <1>0, <1>1, <1>3, PreparedKeeps DEF PrepareReturn
<1>. QED
  BY <1>0, <1>2, <1>3 DEF PrepareReturn

\* What destroy_each does to the statements and to the result of their connection.
LEMMA DestroyedIs ==
    ASSUME IInv, NEW ks \in SUBSET Threads, Destroyed(ks)
    PROVE  /\ stmt' \in [Threads -> Children]
           /\ \A k \in Threads :
                /\ Exists(k)' <=> Exists(k) /\ k \notin ks
                /\ stmt'[k].on = stmt[k].on /\ stmt'[k].via = stmt[k].via /\ stmt'[k].tx = stmt[k].tx
           /\ \A c \in Connections : Listed(c)' = Listed(c) \ ks
<1>1. ASSUME NEW k \in Threads
      PROVE  /\ stmt'[k] \in Children
             /\ stmt'[k].state = IF k \in ks THEN "Closed_state" ELSE stmt[k].state
             /\ stmt'[k].on = stmt[k].on /\ stmt'[k].via = stmt[k].via
             /\ stmt'[k].tx = stmt[k].tx
  <2>1. stmt'[k] = IF k \in ks THEN [stmt[k] EXCEPT !.state = "Closed_state"] ELSE stmt[k]
    BY DEF Destroyed
  <2>2. stmt[k] \in Children /\ "Closed_state" \in GateStates
    BY BystanderTypes DEF GateStates
  <2>. QED
    BY <2>1, <2>2 DEF Children
<1>2. DOMAIN stmt' = Threads /\ stmt' = [k \in Threads |-> stmt'[k]]
  BY DEF Destroyed
<1>3. \A k \in Threads : Exists(k)' <=> Exists(k) /\ k \notin ks
  BY <1>1 DEF Exists
<1>. QED
  BY <1>1, <1>2, <1>3 DEF Listed

\* A gate whose statements are revoked loses only a result of theirs.
LEMMA RevokedResultIs ==
    ASSUME NEW g \in OwnerGate, NEW ks \in SUBSET Threads
    PROVE  /\ RevokedResult(g, ks) \in OwnerGate
           /\ RevokedResult(g, ks).busy = g.busy /\ RevokedResult(g, ks).state = g.state
           /\ RevokedResult(g, ks).lease = g.lease /\ RevokedResult(g, ks).request = g.request
           /\ RevokedResult(g, ks).result = IF g.result \in ks THEN Nobody ELSE g.result
<1>. DEFINE left == IF g.result \in ks THEN Nobody ELSE g.result
<1>1. left \in Anybody /\ RevokedResult(g, ks) = [g EXCEPT !.result = left]
  BY GateIs DEF Anybody, RevokedResult
<1>. HIDE DEF left
<1>2. [g EXCEPT !.result = left] \in OwnerGate /\ [g EXCEPT !.result = left].result = left
      /\ [g EXCEPT !.result = left].busy = g.busy /\ [g EXCEPT !.result = left].state = g.state
      /\ [g EXCEPT !.result = left].lease = g.lease
      /\ [g EXCEPT !.result = left].request = g.request
  BY <1>1, ResultOperators
<1>. QED
  BY <1>1, <1>2 DEF left

\* Statements are destroyed by who has the connection for itself.
LEMMA DestroyedKeeps ==
    ASSUME IInv, NEW t \in Threads, Sole(t), NEW c \in Connections, c = th[t].on,
           NEW ks \in SUBSET Threads, \A k \in ks : Exists(k) /\ stmt[k].on = c,
           Destroyed(ks), Set(c, RevokedResult(gate[c], ks)),
           InScopes(t), th'[t].child = th[t].child, th'[t].on = c,
           th'[t].pc \notin {"begin", "began"},
           UNCHANGED <<native, txn, db, tok, req, asleep>>,
           Claimed(t)' => Claimed(t), DbClaimed(t)' => DbClaimed(t), ThreadAt(t)'
    PROVE  IInv'
<1>. DEFINE h == RevokedResult(gate[c], ks)
<1>1. Types /\ gate[c] \in OwnerGate
  BY BystanderTypes DEF Types
<1>2. /\ h \in OwnerGate /\ h.busy = gate[c].busy /\ h.state = gate[c].state
      /\ h.lease = gate[c].lease /\ h.request = gate[c].request
      /\ h.result = IF gate[c].result \in ks THEN Nobody ELSE gate[c].result
  BY <1>1, RevokedResultIs
<1>3. /\ gate' \in [Connections -> OwnerGate] /\ gate'[c] = h
      /\ \A d \in Connections \ {c} : gate'[d] = gate[d]
  BY <1>2, SetIs
<1>. HIDE DEF h
<1>4. /\ stmt' \in [Threads -> Children]
      /\ \A k \in Threads :
            /\ Exists(k)' <=> Exists(k) /\ k \notin ks
            /\ stmt'[k].on = stmt[k].on /\ stmt'[k].via = stmt[k].via /\ stmt'[k].tx = stmt[k].tx
  BY DestroyedIs
<1>5. /\ Listed(c)' = Listed(c) \ ks
      /\ \A d \in Connections \ {c} : Listed(d)' = Listed(d)
  BY <1>4 DEF Listed
<1>6. \A u \in Threads \ {t} : th'[u] = th[u]
  BY DEF InScopes
<1>7. TypeOK'
  <2>1. Types'
    BY <1>1, <1>3, <1>4 DEF Types, InScopes
  <2>2. \A d \in Connections :
            /\ gate'[d].lease \in {gate[d].lease, Nobody}
            /\ gate'[d].request \in {gate[d].request, Nobody}
    BY <1>2, <1>3
  <2>3. Leases'
    BY <1>6, <2>2, LeasesStay DEF InScopes
  <2>. QED
    BY <2>1, <2>3, TypesAre
<1>8. ASSUME NEW u \in Threads \ {t}
      PROVE  Bystander(u) /\ Spared(u) /\ Served(u)
  <2>1. th[u].on = c => ~Claimed(u) /\ ~Quiet(u) /\ Undisturbed(u)
    BY <1>2, <1>3, SoleIs, SoleUndisturbs
  <2>2. Undisturbed(u)
    BY <1>3, <2>1, UndisturbedWhenSame, BystanderTypes
  <2>3. Bystander(u)
    BY <1>6, <2>2 DEF Bystander
  <2>4. /\ AdmittedAt(u) /\ EndedAt(u) /\ th[u].todo \subseteq Threads /\ th[u].child \in Anybody
        /\ u # Nobody /\ ScopedAt(u) /\ th'[u] = th[u] /\ th[u].on \in Connections
    BY <1>6, BystanderTypes, LocalIs, NobodyAssumption
  <2>5. Spared(u)
    <3>1. th[u].pc = "prepare" => ~Exists(u)' /\ \A k \in Threads : th'[k].child # u
      BY <1>4, <1>6, <2>4 DEF AdmittedAt
    <3>2. th[u].pc \in CallPcs \/ (Snapshot(u) /\ th[u].pc \in BothPcs) =>
              /\ Exists(th[u].child)'
              /\ stmt'[th[u].child].on = stmt[th[u].child].on
              /\ stmt'[th[u].child].tx = stmt[th[u].child].tx
      <4>1. ASSUME th[u].pc \in CallPcs \/ (Snapshot(u) /\ th[u].pc \in BothPcs)
            PROVE  /\ th[u].child \in Threads /\ Exists(th[u].child)
                   /\ stmt[th[u].child].on = th[u].on /\ th[u].on # c
        <5>1. th[u].child \in Threads
          BY <2>4, <4>1 DEF ScopedAt, Snapshot, Anybody
        <5>2. Claimed(u)
          BY <4>1 DEF Claimed
        <5>. QED
          BY <2>1, <2>4, <4>1, <5>1, <5>2 DEF AdmittedAt
      <4>. QED
        BY <1>4, <2>4, <4>1
    <3>3. th[u].pc = "destroy" => \A k \in th[u].todo : Exists(k)' /\ stmt'[k].on = stmt[k].on
      <4>1. th[u].pc = "destroy" => Claimed(u) \/ Quiet(u)
        BY <2>4 DEF ScopedAt, Claimed, Quiet, Ending, Settling
      <4>. QED
        BY <1>4, <2>1, <2>4, <4>1 DEF EndedAt
    <3>4. th[u].pc = "close_child" /\ Exists(th[u].child)' =>
            /\ Exists(th[u].child)
            /\ stmt'[th[u].child].on = stmt[th[u].child].on
            /\ stmt'[th[u].child].via = stmt[th[u].child].via
      <4>1. th[u].pc = "close_child" => th[u].child \in Threads
        BY <2>4 DEF ScopedAt, Anybody
      <4>. QED
        BY <1>4, <2>4, <4>1
    <3>5. th[u].pc \in {"close_native", "mark"} => Listed(th[u].on)' = {}
      <4>1. Listed(th[u].on)' \subseteq Listed(th[u].on)
        BY <1>5, <2>4
      <4>. QED
        BY <2>4, <4>1 DEF AdmittedAt
    <3>. QED
      BY <1>4, <3>1, <3>2, <3>3, <3>4, <3>5 DEF Spared
  <2>6. Served(u)
    BY BystanderTypes DEF SharedAt, Served
  <2>. QED
    BY <2>3, <2>5, <2>6
<1>9. ASSUME NEW k \in Threads
      PROVE  ListedAt(k)'
  <2>1. ListedAt(k) /\ stmt[k].on \in Connections /\ stmt[k].tx \in Anybody
    BY BystanderTypes, ChildIs
  <2>2. stmt[k].tx # Nobody => th'[stmt[k].tx].tx /\ th'[stmt[k].tx].pc \notin {"begin", "began"}
    BY <1>6, <2>1 DEF ListedAt, Anybody, InScopes
  <2>3. gate'[stmt[k].on].lease = gate[stmt[k].on].lease
        /\ gate'[stmt[k].on].request = gate[stmt[k].on].request
    BY <1>2, <1>3, <2>1
  <2>4. /\ Exists(k)' => Exists(k)
        /\ stmt'[k].on = stmt[k].on /\ stmt'[k].via = stmt[k].via /\ stmt'[k].tx = stmt[k].tx
    BY <1>4
  <2>. QED
    BY <2>1, <2>2, <2>3, <2>4 DEF ListedAt
<1>10. ASSUME NEW d \in Connections
       PROVE  ConnectionAt(d)'
  <2>1. ConnectionAt(d) /\ gate'[d].lease = gate[d].lease /\ gate'[d].request = gate[d].request
        /\ gate'[d].state = gate[d].state /\ gate'[d].busy = gate[d].busy
    BY <1>2, <1>3 DEF IInv
  <2>2. Listed(d)' \subseteq Listed(d) /\ \A k \in Listed(d) : stmt'[k].via = stmt[k].via
    BY <1>4, <1>5 DEF Listed
  <2>3. GatedAt(d)'
    BY <2>1, <2>2 DEF ConnectionAt, GatedAt
  <2>4. gate'[d].result # Nobody => gate'[d].result \in Listed(d)'
    <3>1. CASE d = c
      BY <1>2, <1>3, <1>5, <2>1, <3>1 DEF ConnectionAt
    <3>2. CASE d # c
      BY <1>3, <1>5, <2>1, <3>2 DEF ConnectionAt
    <3>. QED
      BY <3>1, <3>2
  <2>. QED
    BY <2>1, <2>3, <2>4 DEF ConnectionAt, Made
<1>11. /\ Claimed(t)' => \A u \in Threads \ {t} : Claimed(u) => th[u].on # th'[t].on
       /\ DbClaimed(t)' => \A u \in Threads \ {t} : ~DbClaimed(u)
  BY DEF IInv, ExcludesAt
<1>. QED
  BY <1>7, <1>8, <1>9, <1>10, <1>11, StepKeeps DEF IInv

\* What a scope made is destroyed.
LEMMA DestroyKeeps ==
    ASSUME IInv, NEW t \in Threads, Destroy(t)
    PROVE  IInv'
<1>0. PICK c \in Connections : c = th[t].on
  BY BystanderTypes
<1>. DEFINE ks == th[t].todo
            n == [th[t] EXCEPT !.pc = th[t].ret, !.todo = {}]
<1>1. /\ th[t].pc = "destroy" /\ Destroyed(ks) /\ Set(c, RevokedResult(gate[c], ks))
      /\ th' = [th EXCEPT ![t] = n]
      /\ UNCHANGED <<native, txn, db, tok, req, asleep>>
  BY <1>0 DEF Destroy
<1>2. /\ ScopedAt(t) /\ HeldAt(t) /\ AdmittedAt(t) /\ EndedAt(t) /\ EngineAt(t) /\ JudgedAt(t)
      /\ Types /\ th[t] \in Locals /\ gate[c] \in OwnerGate /\ t # Nobody
      /\ th[t].tx \in BOOLEAN /\ th[t].run \in BOOLEAN
  BY <1>0, BystanderTypes, NobodyAssumption, LocalIs DEF Types
<1>3. /\ ks \in SUBSET Threads /\ th[t].ret \in Pcs
      /\ \A k \in ks : Exists(k) /\ stmt[k].on = c
      /\ \/ th[t].ret \in {"decide", "rollback"} /\ th[t].tx /\ th[t].child = Nobody
         \/ th[t].ret = "req_settle" /\ ~th[t].tx /\ th[t].run
         \/ th[t].ret = "finish"
  BY <1>0, <1>1, <1>2, LocalIs DEF EndedAt, ScopedAt
<1>4. /\ th[t].ret = "finish" => Claimed(t) /\ Inside(t)
      /\ th[t].ret \in {"decide", "rollback"} => Ending(t)
      /\ th[t].ret = "req_settle" => Settling(t)
  BY <1>1, <1>3 DEF Claimed, Inside, Ending, Settling, DestroyPcs
<1>5. Sole(t)
  BY <1>3, <1>4 DEF Sole
<1>6. /\ n \in Locals /\ n.pc = th[t].ret /\ n.on = th[t].on /\ n.child = th[t].child
      /\ n.tx = th[t].tx /\ n.run = th[t].run /\ n.durable = th[t].durable /\ n.owed = th[t].owed
      /\ n.result = th[t].result /\ n.ret = th[t].ret
  BY <1>2, <1>3 DEF Locals
<1>. HIDE DEF n
<1>7. /\ th' \in [Threads -> Locals] /\ \A u \in Threads \ {t} : th'[u] = th[u]
      /\ th'[t].pc = th[t].ret /\ th'[t].on = c /\ th'[t].child = th[t].child
      /\ th'[t].tx = th[t].tx /\ th'[t].run = th[t].run /\ th'[t].durable = th[t].durable
      /\ th'[t].owed = th[t].owed /\ th'[t].result = th[t].result /\ th'[t].ret = th[t].ret
  BY <1>0, <1>1, <1>2, <1>6 DEF Types
<1>8. /\ gate'[c].busy = gate[c].busy /\ gate'[c].state = gate[c].state
      /\ gate'[c].lease = gate[c].lease /\ gate'[c].request = gate[c].request
  BY <1>1, <1>2, <1>3, RevokedResultIs, SetIs
<1>9. \A k \in Threads :
        /\ Exists(k)' <=> Exists(k) /\ k \notin ks
        /\ stmt'[k].on = stmt[k].on /\ stmt'[k].via = stmt[k].via /\ stmt'[k].tx = stmt[k].tx
  BY <1>1, <1>3, DestroyedIs
<1>. HIDE DEF ks
<1>10. ScopedAt(t)'
  BY <1>3, <1>7 DEF ScopedAt, CallPcs, BothPcs, DestroyPcs, DbPcs
<1>11. HeldAt(t)'
  BY <1>0, <1>1, <1>2, <1>3, <1>4, <1>7, <1>8 DEF HeldAt, Ending, Settling, Made, DestroyPcs
<1>12. AdmittedAt(t)' /\ (Claimed(t)' => Claimed(t))
  <2>1. /\ Claimed(t)' => th[t].ret = "finish"
        /\ Inside(t)' => th[t].ret = "finish"
        /\ ~(Snapshot(t)' /\ th'[t].pc \in BothPcs)
        /\ th'[t].pc \notin CallPcs \cup DestroyPcs \cup {"unregister", "release", "prepare",
                                "close_child", "close_conn", "destroy"}
    BY <1>3, <1>7 DEF Claimed, Inside, Snapshot, CallPcs, BothPcs, DestroyPcs
  <2>. QED
    BY <1>0, <1>1, <1>2, <1>4, <1>7, <1>8, <2>1 DEF AdmittedAt, DestroyPcs
<1>13. EndedAt(t)'
  BY <1>0, <1>1, <1>2, <1>3, <1>7, <1>9 DEF EndedAt, ks
<1>14. EngineAt(t)'
  BY <1>0, <1>1, <1>2, <1>3, <1>7, <1>8 DEF EngineAt
<1>15. JudgedAt(t)'
  <2>1. th[t].ret = "finish" /\ th[t].tx => ~th[t].durable
    BY <1>0, <1>2, <1>4 DEF JudgedAt, AdmittedAt
  <2>. QED
    BY <1>0, <1>1, <1>2, <1>3, <1>7, <1>8, <2>1 DEF JudgedAt, DestroyPcs
<1>16. ~DbClaimed(t)' /\ SharedAt(t)'
  BY <1>3, <1>7, NotServing DEF DbPcs, ClosingPcs, DestroyPcs
<1>17. ThreadAt(t)'
  BY <1>10, <1>11, <1>12, <1>13, <1>14, <1>15, <1>16 DEF ThreadAt
<1>18. InScopes(t) /\ th'[t].pc \notin {"begin", "began"}
  BY <1>0, <1>3, <1>7 DEF InScopes
<1>. QED
  BY <1>0, <1>1, <1>3, <1>5, <1>7, <1>12, <1>16, <1>17, <1>18, DestroyedKeeps

\* destroy_connection destroys what is left on the connection, ...
LEMMA DestroyAllKeeps ==
    ASSUME IInv, NEW t \in Threads, DestroyAll(t)
    PROVE  IInv'
<1>0. PICK c \in Connections : c = th[t].on
  BY BystanderTypes
<1>. DEFINE ks == Listed(c)
<1>1. /\ th[t].pc = "destroy_all" /\ Destroyed(ks) /\ Set(c, RevokedResult(gate[c], ks))
      /\ Goto(t, "close_native")
      /\ UNCHANGED <<native, txn, db, tok, req, asleep>>
  BY <1>0 DEF DestroyAll
<1>2. /\ ScopedAt(t) /\ HeldAt(t) /\ AdmittedAt(t) /\ EndedAt(t) /\ EngineAt(t) /\ JudgedAt(t)
      /\ SharedAt(t) /\ Types /\ th[t] \in Locals /\ gate[c] \in OwnerGate /\ t # Nobody
      /\ Claimed(t)
  BY <1>0, <1>1, BystanderTypes, NobodyAssumption DEF Claimed, DestroyPcs
<1>3. /\ ks \in SUBSET Threads
      /\ \A k \in ks : Exists(k) /\ stmt[k].on = c
  BY DEF Listed
<1>4. Stays(t) /\ Keeps(t) /\ th'[t].pc = "close_native"
  BY <1>1, GotoIs DEF Pcs
<1>5. /\ gate'[c].busy = gate[c].busy /\ gate'[c].state = gate[c].state
      /\ gate'[c].lease = gate[c].lease /\ gate'[c].request = gate[c].request
  BY <1>1, <1>2, <1>3, RevokedResultIs, SetIs
<1>6. Listed(c)' = {}
  BY <1>1, <1>3, DestroyedIs
<1>. HIDE DEF ks
<1>7. ScopedAt(t)' /\ EndedAt(t)' /\ EngineAt(t)'
  BY <1>1, <1>2, <1>4 DEF ScopedAt, EndedAt, EngineAt, Stays, Keeps,
     CallPcs, BothPcs, DestroyPcs, DbPcs
<1>8. JudgedAt(t)'
  BY <1>0, <1>1, <1>2, <1>4 DEF JudgedAt, Stays, Keeps, DestroyPcs
<1>9. HeldAt(t)'
  BY <1>0, <1>1, <1>2, <1>4, <1>5 DEF HeldAt, Stays, Ending, Settling, Made, DestroyPcs
<1>10. AdmittedAt(t)'
  <2>1. Listed(th[t].on)' = {}
    BY <1>0, <1>4, <1>6 DEF Stays, Listed
  <2>. QED
    BY <1>0, <1>1, <1>2, <1>4, <1>5, <2>1 DEF AdmittedAt, Stays, Claimed, Inside, Snapshot, Made,
     CallPcs, BothPcs, DestroyPcs
<1>11. SharedAt(t)' /\ (DbClaimed(t)' => DbClaimed(t))
  BY <1>1, <1>2, <1>4 DEF SharedAt, DbClaimed, Stays, Keeps, Made, DbPcs, ClosingPcs, DestroyPcs
<1>12. ThreadAt(t)'
  BY <1>7, <1>8, <1>9, <1>10, <1>11 DEF ThreadAt
<1>13. /\ InScopes(t) /\ th'[t].child = th[t].child /\ th'[t].on = c
       /\ th'[t].pc \notin {"begin", "began"}
  BY <1>0, <1>4 DEF Stays, InScopes
<1>. QED
  BY <1>0, <1>1, <1>2, <1>3, <1>11, <1>12, <1>13, DestroyedKeeps DEF Sole

\* ... closes its handle, which nobody uses any more, ...
LEMMA CloseNativeKeeps ==
    ASSUME IInv, NEW t \in Threads, CloseNative(t)
    PROVE  IInv'
<1>0. PICK c \in Connections : c = th[t].on
  BY BystanderTypes
<1>1. /\ th[t].pc = "close_native" /\ Goto(t, "mark")
      /\ native' = [native EXCEPT ![c] = "closed"]
      /\ txn' = [txn EXCEPT ![c] = FALSE]
      /\ UNCHANGED <<gate, db, tok, stmt, req, asleep>>
  BY <1>0 DEF CloseNative
<1>2. /\ ScopedAt(t) /\ HeldAt(t) /\ AdmittedAt(t) /\ EndedAt(t) /\ EngineAt(t) /\ JudgedAt(t)
      /\ SharedAt(t) /\ Types /\ Leases /\ th[t] \in Locals /\ gate[c] \in OwnerGate /\ t # Nobody
      /\ Claimed(t) /\ Listed(c) = {} /\ gate[c].busy /\ gate[c].lease = Nobody
      /\ gate[c].state # "Closed_state" /\ Made(c)
  <2>1. /\ ScopedAt(t) /\ HeldAt(t) /\ AdmittedAt(t) /\ EndedAt(t) /\ EngineAt(t) /\ JudgedAt(t)
        /\ SharedAt(t) /\ Types /\ Leases /\ th[t] \in Locals /\ gate[c] \in OwnerGate
        /\ t # Nobody
    BY <1>0, BystanderTypes, NobodyAssumption
  <2>2. Claimed(t)
    BY <1>1 DEF Claimed, DestroyPcs
  <2>3. gate[c].busy /\ gate[c].state # "Closed_state"
    BY <1>0, <2>2, ClaimIsOpen
  <2>4. Listed(c) = {} /\ gate[c].lease = Nobody /\ Made(c)
    BY <1>0, <1>1, <2>1 DEF AdmittedAt, DestroyPcs
  <2>. QED
    BY <2>1, <2>2, <2>3, <2>4
<1>3. Stays(t) /\ Keeps(t) /\ th'[t].pc = "mark"
  BY <1>1, GotoIs DEF Pcs
<1>4. /\ native' \in [Connections -> {"none", "opening", "open", "closed"}]
      /\ txn' \in [Connections -> BOOLEAN]
      /\ native'[c] = "closed" /\ ~txn'[c]
      /\ \A d \in Connections \ {c} : native'[d] = native[d] /\ txn'[d] = txn[d]
  BY <1>1, <1>2 DEF Types
<1>5. \A d \in Connections : Listed(d)' = Listed(d)
  BY <1>1 DEF Listed, Exists
<1>6. TypeOK'
  <2>1. Types'
    BY <1>1, <1>2, <1>3, <1>4 DEF Types, Stays
  <2>2. Leases'
    BY <1>1, <1>2, <1>3 DEF Leases, Stays
  <2>. QED
    BY <2>1, <2>2, TypesAre
<1>7. ScopedAt(t)' /\ EndedAt(t)' /\ EngineAt(t)'
  BY <1>0, <1>1, <1>2, <1>3, <1>4 DEF ScopedAt, EndedAt, EngineAt, Stays, Keeps,
     CallPcs, BothPcs, DestroyPcs, DbPcs
<1>8. JudgedAt(t)'
  BY <1>0, <1>1, <1>2, <1>3 DEF JudgedAt, Stays, Keeps, DestroyPcs
<1>9. HeldAt(t)'
  BY <1>0, <1>1, <1>2, <1>3, <1>4 DEF HeldAt, Stays, Ending, Settling, Made, DestroyPcs
<1>10. AdmittedAt(t)'
  <2>1. Listed(th[t].on)' = {}
    BY <1>0, <1>2, <1>3, <1>5 DEF Stays, Listed
  <2>. QED
    BY <1>0, <1>1, <1>2, <1>3, <1>4, <2>1 DEF AdmittedAt, Stays, Claimed, Inside, Snapshot, Made,
     CallPcs, BothPcs, DestroyPcs
<1>11. \A d \in Connections :
            /\ native'[d] = native[d] \/ (Made(d) /\ native'[d] = "closed")
            /\ native'[d] = "open" => native[d] = "open"
            /\ native'[d] = "opening" <=> native[d] = "opening"
            /\ Made(d)' <=> Made(d)
  BY <1>2, <1>4 DEF Made
<1>12. SharedAt(t)' /\ (DbClaimed(t)' => DbClaimed(t))
  BY <1>1, <1>2, <1>3, <1>11 DEF SharedAt, DbClaimed, Stays, Keeps, DbPcs, ClosingPcs, DestroyPcs
<1>13. ThreadAt(t)'
  BY <1>7, <1>8, <1>9, <1>10, <1>12 DEF ThreadAt
<1>14. ASSUME NEW u \in Threads \ {t}
       PROVE  Bystander(u) /\ Spared(u) /\ Served(u)
  <2>1. th'[u] = th[u] /\ th[u].on \in Connections
    BY <1>3, BystanderTypes DEF Stays
  <2>2. th[u].on = c => ~Claimed(u) /\ ~Quiet(u)
    BY <1>0, <1>2, SoleIs DEF Sole
  <2>3. Undisturbed(u)
    BY <1>1, UndisturbedWhenSame
  <2>4. Bystander(u)
    BY <1>1, <1>2, <1>4, <2>1, <2>2, <2>3 DEF Bystander
  <2>5. Spared(u)
    BY <1>1, <1>3, SparedWhenSame DEF Stays
  <2>6. DbClaimed(u) => db.busy
    BY BystanderTypes DEF SharedAt
  <2>. QED
    BY <1>1, <1>11, <2>4, <2>5, <2>6 DEF Served
<1>15. ASSUME NEW k \in Threads
       PROVE  ListedAt(k)'
  <2>1. ListedAt(k) /\ stmt[k].on \in Connections /\ stmt[k].tx \in Anybody
    BY BystanderTypes, ChildIs
  <2>2. Exists(k) => stmt[k].on # c
    BY <1>2 DEF Listed
  <2>3. stmt[k].tx # Nobody => th'[stmt[k].tx].tx /\ th'[stmt[k].tx].pc \notin {"begin", "began"}
    BY <1>3, <2>1 DEF ListedAt, Anybody, Stays
  <2>. QED
    BY <1>1, <1>4, <2>1, <2>2, <2>3 DEF ListedAt, Exists
<1>16. ASSUME NEW d \in Connections
       PROVE  ConnectionAt(d)'
  <2>1. ConnectionAt(d)
    BY DEF IInv
  <2>2. GatedAt(d)'
    BY <1>1, <1>2, <1>4, <1>5, <2>1 DEF ConnectionAt, GatedAt
  <2>. QED
    BY <1>1, <1>4, <1>5, <1>11, <2>1, <2>2 DEF ConnectionAt
<1>17. /\ Claimed(t)' => \A u \in Threads \ {t} : Claimed(u) => th[u].on # th'[t].on
       /\ DbClaimed(t)' => \A u \in Threads \ {t} : ~DbClaimed(u)
  BY <1>2, <1>3, <1>12 DEF IInv, ExcludesAt, Stays
<1>. QED
  BY <1>1, <1>6, <1>13, <1>14, <1>15, <1>16, <1>17, StepKeeps DEF IInv

-----------------------------------------------------------------------------
(* Steps on the database.                                                   *)

\* A step on the database, or on a handle that is not a connection yet.
LEMMA DbKeeps ==
    ASSUME IInv, NEW t \in Threads, InScopes(t),
           UNCHANGED <<gate, txn, tok, stmt, req>>,
           native' \in [Connections -> {"none", "opening", "open", "closed"}],
           db' \in Databases, asleep' \subseteq Threads,
           th'[t].child \in {th[t].child, Nobody}, th'[t].pc \notin {"begin", "began"},
           \A c \in Connections : Made(c) => native'[c] = native[c],
           \A c \in Connections : native'[c] = "closed" => native[c] = "closed",
           \A u \in Threads \ {t} : DbClaimed(u) => db'.busy /\ native' = native,
           ~Claimed(t)',
           DbClaimed(t)' => \A u \in Threads \ {t} : ~DbClaimed(u),
           ThreadAt(t)',
           \A c \in Connections :
               /\ native'[c] = "opening" => db'.busy
               /\ native'[c] \in {"opening", "open"} => db'.native = "open"
               /\ native'[c] = "open" => c \in db'.children
               /\ c \in db'.children => Made(c)',
           db'.native = "closed" => db'.state = "Closed_state"
    PROVE  IInv'
<1>. USE DEF InScopes
<1>1. TypeOK'
  <2>1. Types'
    BY TypesAre DEF IInv, Types
  <2>2. \A c \in Connections :
            /\ gate'[c].lease \in {gate[c].lease, Nobody}
            /\ gate'[c].request \in {gate[c].request, Nobody}
    OBVIOUS
  <2>3. Leases'
    BY <2>2, LeasesStay
  <2>. QED
    BY <2>1, <2>3, TypesAre
<1>2. ASSUME NEW u \in Threads \ {t}
      PROVE  Bystander(u) /\ Spared(u) /\ Served(u)
  <2>1. Undisturbed(u)
    BY UndisturbedWhenSame
  <2>2. Claimed(u) => Made(th[u].on)
    BY BystanderTypes DEF AdmittedAt, Inside, Made
  <2>3. native[th[u].on] \in {"open", "closed"} => native'[th[u].on] \in {"open", "closed"}
    BY BystanderTypes DEF Made
  <2>4. Bystander(u)
    BY <2>1, <2>2, <2>3, BystanderTypes DEF Bystander
  <2>5. Spared(u)
    BY SparedWhenSame
  <2>. QED
    BY <2>4, <2>5 DEF Served
<1>3. ASSUME NEW k \in Threads
      PROVE  ListedAt(k)'
  <2>1. ListedAt(k) /\ stmt[k].tx \in Anybody /\ stmt[k].on \in Connections
    BY BystanderTypes, ChildIs
  <2>2. stmt[k].tx # Nobody =>
            th'[stmt[k].tx].tx /\ th'[stmt[k].tx].pc \notin {"begin", "began"}
    BY <2>1 DEF ListedAt, Anybody
  <2>. QED
    BY <2>1, <2>2 DEF ListedAt, Exists, Made
<1>4. ASSUME NEW c \in Connections
      PROVE  ConnectionAt(c)'
  <2>1. ConnectionAt(c) /\ Listed(c)' = Listed(c)
    BY DEF IInv, Listed, Exists
  <2>2. GatedAt(c)'
    BY <2>1 DEF ConnectionAt, GatedAt, Made
  <2>. QED
    BY <2>1, <2>2 DEF ConnectionAt
<1>. QED
  BY <1>1, <1>2, <1>3, <1>4, StepKeeps

\* While the gate of the database is free nobody is connecting or closing it.
LEMMA FreeDatabase ==
    ASSUME IInv, ~db.busy
    PROVE  /\ \A u \in Threads : ~DbClaimed(u)
           /\ \A c \in Connections : native[c] # "opening"
BY BystanderTypes DEF SharedAt, IInv, ConnectionAt

\* A thread inside connect or the closing of the database has nothing else.
LEMMA ServingIs ==
    ASSUME IInv, NEW t \in Threads, ~th'[t].tx, ~th'[t].run, th'[t].pc \in DbPcs \cup {"close_db"}
    PROVE  /\ ScopedAt(t)' /\ HeldAt(t)' /\ AdmittedAt(t)' /\ EndedAt(t)' /\ EngineAt(t)'
           /\ JudgedAt(t)' /\ ~Claimed(t)'
<1>1. ScopedAt(t)' /\ EndedAt(t)' /\ EngineAt(t)' /\ JudgedAt(t)'
  BY DEF ScopedAt, EndedAt, EngineAt, JudgedAt, CallPcs, BothPcs, DestroyPcs, DbPcs
<1>2. HeldAt(t)'
  BY DEF HeldAt, Ending, Settling, DestroyPcs, DbPcs
<1>3. AdmittedAt(t)' /\ ~Claimed(t)'
  BY DEF AdmittedAt, Claimed, Inside, Snapshot, CallPcs, BothPcs, DestroyPcs, DbPcs
<1>. QED
  BY <1>1, <1>2, <1>3

\* A connection is being opened.
LEMMA ConnectKeeps ==
    ASSUME IInv, NEW t \in Threads, NEW c \in Connections, Connect(t, c)
    PROVE  IInv'
<1>. DEFINE n == [th[t] EXCEPT !.pc = "connect", !.on = c]
            m == [db EXCEPT !.busy = TRUE]
<1>1. /\ th[t].pc = "rest" /\ ~th[t].tx /\ ~th[t].run /\ native[c] = "none"
      /\ db.state = "Open" /\ ~db.busy
      /\ db' = m /\ native' = [native EXCEPT ![c] = "opening"]
      /\ th' = [th EXCEPT ![t] = n]
      /\ UNCHANGED <<gate, txn, tok, stmt, req, asleep>>
  BY DEF Connect, Outside
<1>2. Types /\ th[t] \in Locals /\ ScopedAt(t) /\ db \in Databases
  BY BystanderTypes DEF Types
<1>3. /\ m \in Databases /\ m.busy /\ m.state = db.state /\ m.native = db.native
      /\ m.children = db.children
  BY <1>2 DEF Databases
<1>. HIDE DEF m
<1>4. "connect" \in Pcs
  BY DEF Pcs
<1>5. /\ n \in Locals /\ n.pc = "connect" /\ n.on = c /\ n.tx = th[t].tx /\ n.run = th[t].run
      /\ n.child = th[t].child
  BY <1>2, <1>4 DEF Locals
<1>. HIDE DEF n
<1>6. /\ InScopes(t) /\ th'[t].pc = "connect" /\ th'[t].on = c /\ ~th'[t].tx /\ ~th'[t].run
      /\ th'[t].child = th[t].child
  BY <1>1, <1>2, <1>5 DEF InScopes, Types
<1>7. /\ native' \in [Connections -> {"none", "opening", "open", "closed"}]
      /\ native'[c] = "opening"
      /\ \A d \in Connections \ {c} : native'[d] = native[d]
  BY <1>1, <1>2 DEF Types
<1>8. /\ \A u \in Threads : ~DbClaimed(u)
      /\ \A d \in Connections : native[d] # "opening"
  BY <1>1, FreeDatabase
<1>9. SharedAt(t)'
  BY <1>1, <1>3, <1>6, <1>7, <1>8 DEF SharedAt, DbClaimed, ClosingPcs, DestroyPcs
<1>10. ThreadAt(t)' /\ ~Claimed(t)'
  BY <1>6, <1>9, ServingIs DEF ThreadAt, DbPcs
<1>11. /\ \A d \in Connections : Made(d) => native'[d] = native[d]
       /\ \A d \in Connections : native'[d] = "closed" => native[d] = "closed"
  BY <1>1, <1>7 DEF Made
<1>12. db.native = "open"
  BY <1>1, <1>2 DEF IInv, Databases
<1>13. ASSUME NEW d \in Connections
       PROVE  /\ native'[d] = "opening" => db'.busy
              /\ native'[d] \in {"opening", "open"} => db'.native = "open"
              /\ native'[d] = "open" => d \in db'.children
              /\ d \in db'.children => Made(d)'
  BY <1>1, <1>3, <1>7, <1>12 DEF IInv, ConnectionAt, Made
<1>14. asleep' \subseteq Threads
  BY <1>1, <1>2 DEF Types
<1>. QED
  BY <1>1, <1>3, <1>6, <1>7, <1>8, <1>10, <1>11, <1>12, <1>13, <1>14, DbKeeps

\* duckdb_connect answers.
LEMMA ConnectReturnKeeps ==
    ASSUME IInv, NEW t \in Threads, ConnectReturn(t)
    PROVE  IInv'
<1>0. PICK c \in Connections : c = th[t].on
  BY BystanderTypes
<1>. DEFINE m == [db EXCEPT !.children = Register(c)]
<1>1. /\ th[t].pc = "connect" /\ Goto(t, "connected")
      /\ \/ native' = [native EXCEPT ![c] = "open"] /\ db' = m
         \/ native' = [native EXCEPT ![c] = "none"] /\ db' = db
      /\ UNCHANGED <<gate, txn, tok, stmt, req, asleep>>
  BY <1>0 DEF ConnectReturn
<1>2. /\ Types /\ th[t] \in Locals /\ ScopedAt(t) /\ SharedAt(t) /\ db \in Databases
      /\ DbClaimed(t) /\ ~th[t].tx /\ ~th[t].run
  BY <1>1, BystanderTypes DEF Types, DbClaimed, DbPcs, ScopedAt
<1>3. /\ m \in Databases /\ m.busy = db.busy /\ m.state = db.state /\ m.native = db.native
      /\ m.children = db.children \cup {c}
  BY <1>2 DEF Databases, Register
<1>. HIDE DEF m
<1>4. Stays(t) /\ Keeps(t) /\ th'[t].pc = "connected"
  BY <1>1, GotoIs DEF Pcs
<1>5. /\ db.busy /\ db.native = "open"
      /\ \A d \in Connections : native[d] = "opening" <=> d = c
  BY <1>0, <1>1, <1>2 DEF SharedAt, IInv, ConnectionAt
<1>6. /\ native' \in [Connections -> {"none", "opening", "open", "closed"}]
      /\ \/ native'[c] = "open" /\ db' = m
         \/ native'[c] = "none" /\ db' = db
      /\ \A d \in Connections \ {c} : native'[d] = native[d]
  BY <1>1, <1>2 DEF Types
<1>7. /\ db' \in Databases /\ db'.busy /\ db'.native = "open"
      /\ db'.children \in {db.children, db.children \cup {c}}
      /\ native'[c] = "open" => c \in db'.children
      /\ native'[c] # "open" => db'.children = db.children
  BY <1>2, <1>3, <1>5, <1>6
<1>8. \A d \in Connections : native'[d] # "opening"
  BY <1>5, <1>6
<1>9. SharedAt(t)'
  BY <1>4, <1>7, <1>8 DEF SharedAt, ClosingPcs, DestroyPcs
<1>10. ThreadAt(t)' /\ ~Claimed(t)'
  BY <1>2, <1>4, <1>9, ServingIs DEF ThreadAt, DbPcs, Stays
<1>11. /\ \A d \in Connections : Made(d) => native'[d] = native[d]
       /\ \A d \in Connections : native'[d] = "closed" => native[d] = "closed"
  BY <1>5, <1>6 DEF Made
<1>12. \A u \in Threads \ {t} : ~DbClaimed(u)
  BY <1>2 DEF IInv, ExcludesAt
<1>13. ASSUME NEW d \in Connections
       PROVE  /\ native'[d] = "opening" => db'.busy
              /\ native'[d] \in {"opening", "open"} => db'.native = "open"
              /\ native'[d] = "open" => d \in db'.children
              /\ d \in db'.children => Made(d)'
  <2>1. ConnectionAt(d)
    BY DEF IInv
  <2>2. CASE d = c
    BY <1>5, <1>6, <1>7, <2>1, <2>2 DEF ConnectionAt, Made
  <2>3. CASE d # c
    BY <1>6, <1>7, <2>1, <2>3 DEF ConnectionAt, Made
  <2>. QED
    BY <2>2, <2>3
<1>14. /\ asleep' \subseteq Threads /\ InScopes(t) /\ th'[t].child = th[t].child
       /\ th'[t].pc \notin {"begin", "began"}
  BY <1>1, <1>2, <1>4 DEF Types, InScopes, Stays
<1>. QED
  BY <1>1, <1>6, <1>7, <1>10, <1>11, <1>12, <1>13, <1>14, DbKeeps

\* connect releases the database.
LEMMA ConnectFinishKeeps ==
    ASSUME IInv, NEW t \in Threads, ConnectFinish(t)
    PROVE  IInv'
<1>. DEFINE m == [db EXCEPT !.busy = FALSE]
<1>1. /\ th[t].pc = "connected" /\ Rest(t) /\ db' = m /\ SignalDatabase
      /\ UNCHANGED <<gate, native, txn, tok, stmt, req>>
  BY DEF ConnectFinish
<1>2. /\ Types /\ ScopedAt(t) /\ SharedAt(t) /\ db \in Databases
      /\ DbClaimed(t) /\ ~th[t].tx /\ ~th[t].run
  BY <1>1, BystanderTypes DEF Types, DbClaimed, DbPcs, ScopedAt
<1>3. m \in Databases /\ m.state = db.state /\ m.native = db.native /\ m.children = db.children
  BY <1>2 DEF Databases
<1>. HIDE DEF m
<1>4. Returns(t)
  BY <1>1, RestIs
<1>5. \A d \in Connections : native[d] # "opening"
  BY <1>1, <1>2 DEF SharedAt
<1>6. ThreadAt(t)' /\ ~Claimed(t)' /\ ~DbClaimed(t)'
  BY <1>2, <1>4, RestingIs DEF Returns
<1>7. \A u \in Threads \ {t} : ~DbClaimed(u)
  BY <1>2 DEF IInv, ExcludesAt
<1>8. ASSUME NEW d \in Connections
      PROVE  /\ native'[d] = "opening" => db'.busy
             /\ native'[d] \in {"opening", "open"} => db'.native = "open"
             /\ native'[d] = "open" => d \in db'.children
             /\ d \in db'.children => Made(d)'
  BY <1>1, <1>3, <1>5 DEF IInv, ConnectionAt, Made
<1>9. /\ asleep' \subseteq Threads /\ InScopes(t) /\ th'[t].child = Nobody
      /\ th'[t].pc \notin {"begin", "began"}
      /\ native' \in [Connections -> {"none", "opening", "open", "closed"}]
      /\ db' \in Databases
      /\ db'.native = "closed" => db'.state = "Closed_state"
  BY <1>1, <1>2, <1>3, <1>4 DEF Types, InScopes, Returns, SignalDatabase, IInv
<1>. QED
  BY <1>1, <1>6, <1>7, <1>8, <1>9, DbKeeps

\* The database forgets a connection that was destroyed.
LEMMA UnregisterKeeps ==
    ASSUME IInv, NEW t \in Threads, Unregister(t)
    PROVE  IInv'
<1>0. PICK c \in Connections : c = th[t].on
  BY BystanderTypes
<1>. DEFINE m == [db EXCEPT !.children = @ \ {c}]
<1>1. /\ th[t].pc = "unregister" /\ db' = m
      /\ IF th[t].ret = "rest" THEN Rest(t) ELSE Goto(t, th[t].ret)
      /\ UNCHANGED <<gate, native, txn, tok, stmt, req, asleep>>
  BY <1>0 DEF Unregister
<1>2. /\ ScopedAt(t) /\ HeldAt(t) /\ AdmittedAt(t) /\ JudgedAt(t) /\ SharedAt(t) /\ Types /\ Leases
      /\ th[t] \in Locals /\ db \in Databases /\ t # Nobody /\ ConnectionAt(c)
      /\ th[t].ret \in Pcs /\ gate[c].state = "Closed_state"
      /\ th[t].tx \in BOOLEAN /\ th[t].run \in BOOLEAN
  BY <1>0, <1>1, BystanderTypes, NobodyAssumption, LocalIs DEF Types, IInv, AdmittedAt
<1>3. /\ m \in Databases /\ m.busy = db.busy /\ m.state = db.state /\ m.native = db.native
      /\ m.children = db.children \ {c}
  BY <1>2 DEF Databases
<1>. HIDE DEF m
<1>4. /\ native[c] = "closed" /\ ~gate[c].busy /\ gate[c].lease = Nobody /\ Listed(c) = {}
      /\ ~txn[c]
  BY <1>2 DEF ConnectionAt, GatedAt
<1>5. \A k \in Threads : Exists(k) => stmt[k].tx # t /\ stmt[k].via # t
  <2>1. ASSUME NEW k \in Threads, Exists(k), stmt[k].tx = t \/ stmt[k].via = t
        PROVE  FALSE
    <3>1. ListedAt(k) /\ stmt[k].on \in Connections
      BY BystanderTypes, ChildIs
    <3>2. gate[stmt[k].on].lease = t \/ gate[stmt[k].on].request = t
      BY <1>2, <2>1, <3>1 DEF ListedAt
    <3>3. stmt[k].on = c
      BY <1>0, <1>2, <3>1, <3>2 DEF Leases
    <3>. QED
      BY <1>4, <2>1, <3>3 DEF Listed
  <2>. QED
    BY <2>1
<1>6. /\ InScopes(t) /\ th'[t].child \in {th[t].child, Nobody}
      /\ th'[t].pc \notin {"begin", "began"} /\ ThreadAt(t)' /\ ~Claimed(t)'
      /\ DbClaimed(t)' => DbClaimed(t)
  <2>1. CASE th[t].ret = "rest"
    <3>1. Returns(t) /\ ~th[t].tx /\ ~th[t].run
      BY <1>1, <1>2, <2>1, RestIs DEF ScopedAt
    <3>2. ThreadAt(t)' /\ ~Claimed(t)' /\ ~DbClaimed(t)'
      BY <3>1, RestingIs DEF Returns
    <3>. QED
      BY <3>1, <3>2 DEF Returns, InScopes
  <2>2. CASE th[t].ret # "rest"
    <3>1. Stays(t) /\ Keeps(t) /\ th'[t].pc = th[t].ret
      BY <1>1, <1>2, <2>2, GotoIs
    <3>2. \/ th[t].ret = "db_next" /\ ~th[t].tx /\ ~th[t].run
          \/ th[t].ret = "release" /\ th[t].tx
          \/ th[t].ret = "finish" /\ ~th[t].tx
          \/ th[t].ret = "req_finish" /\ ~th[t].tx /\ th[t].run
      BY <1>1, <1>2, <2>2 DEF ScopedAt
    <3>3. ScopedAt(t)' /\ EndedAt(t)' /\ EngineAt(t)'
      BY <1>0, <1>1, <1>4, <1>5, <3>1, <3>2 DEF ScopedAt, EndedAt, EngineAt, Stays, Keeps, Exists,
         CallPcs, BothPcs, DestroyPcs, DbPcs
    <3>4. HeldAt(t)'
      BY <1>0, <1>1, <1>2, <1>4, <3>1, <3>2 DEF HeldAt, Stays, Ending, Settling, Made, DestroyPcs
    <3>5. AdmittedAt(t)' /\ ~Claimed(t)'
      BY <1>0, <1>1, <1>2, <1>4, <3>1, <3>2 DEF AdmittedAt, Stays, Claimed, Inside, Snapshot, Made,
         CallPcs, BothPcs, DestroyPcs
    <3>6. JudgedAt(t)'
      BY <1>1, <1>2, <3>1, <3>2 DEF JudgedAt, Stays, Keeps, DestroyPcs
    <3>7. SharedAt(t)' /\ (DbClaimed(t)' => DbClaimed(t))
      BY <1>0, <1>1, <1>2, <1>3, <1>4, <3>1, <3>2 DEF SharedAt, DbClaimed, Stays, Keeps, Made,
         DbPcs, ClosingPcs, DestroyPcs
    <3>. QED
      BY <3>1, <3>2, <3>3, <3>4, <3>5, <3>6, <3>7 DEF ThreadAt, Stays, InScopes
  <2>. QED
    BY <2>1, <2>2
<1>7. \A u \in Threads \ {t} : DbClaimed(u) => db'.busy
  BY <1>1, <1>3, BystanderTypes DEF SharedAt
<1>8. ASSUME NEW d \in Connections
      PROVE  /\ native'[d] = "opening" => db'.busy
             /\ native'[d] \in {"opening", "open"} => db'.native = "open"
             /\ native'[d] = "open" => d \in db'.children
             /\ d \in db'.children => Made(d)'
  BY <1>1, <1>3, <1>4 DEF IInv, ConnectionAt, Made
<1>9. /\ asleep' \subseteq Threads
      /\ native' \in [Connections -> {"none", "opening", "open", "closed"}]
      /\ db' \in Databases
      /\ db'.native = "closed" => db'.state = "Closed_state"
  BY <1>1, <1>2, <1>3 DEF Types, IInv
<1>10. DbClaimed(t)' => \A u \in Threads \ {t} : ~DbClaimed(u)
  BY <1>6 DEF IInv, ExcludesAt
<1>. QED
  BY <1>1, <1>6, <1>7, <1>8, <1>9, <1>10, DbKeeps

\* close_database has claimed a database without connections.
LEMMA CloseDatabaseKeeps ==
    ASSUME IInv, NEW t \in Threads, CloseDatabase(t)
    PROVE  IInv'
<1>. DEFINE m == [db EXCEPT !.state = "Closing", !.busy = TRUE]
<1>1. /\ th[t].pc = "rest" /\ ~th[t].tx /\ ~th[t].run
      /\ db.state = "Open" /\ ~db.busy /\ db.children = {}
      /\ db' = m /\ Goto(t, "db_native")
      /\ UNCHANGED <<gate, native, txn, tok, stmt, req, asleep>>
  BY DEF CloseDatabase, Outside
<1>2. Types /\ db \in Databases
  BY BystanderTypes DEF Types
<1>3. m \in Databases /\ m.busy /\ m.native = db.native /\ m.children = db.children
  BY <1>2 DEF Databases, GateStates
<1>. HIDE DEF m
<1>4. Stays(t) /\ Keeps(t) /\ th'[t].pc = "db_native"
  BY <1>1, GotoIs DEF Pcs
<1>5. /\ \A u \in Threads : ~DbClaimed(u)
      /\ \A d \in Connections : native[d] \notin {"opening", "open"}
  BY <1>1, FreeDatabase DEF IInv, ConnectionAt
<1>6. SharedAt(t)'
  BY <1>1, <1>3, <1>4, <1>5 DEF SharedAt, ClosingPcs, DestroyPcs
<1>7. ThreadAt(t)' /\ ~Claimed(t)'
  BY <1>1, <1>4, <1>6, ServingIs DEF ThreadAt, DbPcs, Stays
<1>8. ASSUME NEW d \in Connections
      PROVE  /\ native'[d] = "opening" => db'.busy
             /\ native'[d] \in {"opening", "open"} => db'.native = "open"
             /\ native'[d] = "open" => d \in db'.children
             /\ d \in db'.children => Made(d)'
  BY <1>1, <1>3, <1>5
<1>9. /\ asleep' \subseteq Threads /\ InScopes(t) /\ th'[t].child = th[t].child
      /\ th'[t].pc \notin {"begin", "began"}
      /\ native' \in [Connections -> {"none", "opening", "open", "closed"}]
      /\ db' \in Databases
      /\ db'.native = "closed" => db'.state = "Closed_state"
  BY <1>1, <1>2, <1>3, <1>4 DEF Types, InScopes, Stays, IInv
<1>. QED
  BY <1>1, <1>5, <1>7, <1>8, <1>9, DbKeeps

\* force_close of the database claims it, or waits for who did.
LEMMA ForceCloseDatabaseKeeps ==
    ASSUME IInv, NEW t \in Threads, ForceCloseDatabase(t)
    PROVE  IInv'
<1>1. /\ th[t].pc \in {"rest", "close_db"}
      /\ th[t].pc = "rest" => ~th[t].tx /\ ~th[t].run
      /\ UNCHANGED <<gate, native, txn, tok, stmt, req>>
  BY DEF ForceCloseDatabase, Outside
<1>2. Types /\ db \in Databases /\ th[t] \in Locals /\ ~th[t].tx /\ ~th[t].run
  BY <1>1, BystanderTypes DEF Types, ScopedAt
<1>3. CASE db.state = "Closed_state"
  <2>1. Rest(t) /\ db' = db /\ asleep' \subseteq Threads
    BY <1>2, <1>3 DEF ForceCloseDatabase, Types
  <2>. QED
    BY <1>1, <2>1, RestKeeps DEF DestroyPcs
<1>4. CASE db.state # "Closed_state" /\ ~db.busy
  <2>. DEFINE m == [db EXCEPT !.state = "Closing", !.busy = TRUE]
              n == [th[t] EXCEPT !.pc = "db_revoke", !.conns = db.children]
  <2>1. db' = m /\ th' = [th EXCEPT ![t] = n] /\ asleep' = asleep
    BY <1>4 DEF ForceCloseDatabase
  <2>2. /\ m \in Databases /\ m.busy /\ m.native = db.native /\ m.children = db.children
        /\ db.children \subseteq Connections
    BY <1>2 DEF Databases, GateStates
  <2>. HIDE DEF m
  <2>3. "db_revoke" \in Pcs
    BY DEF Pcs
  <2>4. /\ n \in Locals /\ n.pc = "db_revoke" /\ n.conns = db.children /\ n.tx = th[t].tx
        /\ n.run = th[t].run /\ n.child = th[t].child
    BY <1>2, <2>2, <2>3 DEF Locals
  <2>. HIDE DEF n
  <2>5. /\ InScopes(t) /\ th'[t].pc = "db_revoke" /\ th'[t].conns = db.children /\ ~th'[t].tx
        /\ ~th'[t].run /\ th'[t].child = th[t].child
    BY <1>2, <2>1, <2>4 DEF InScopes, Types
  <2>6. /\ \A u \in Threads : ~DbClaimed(u)
        /\ \A d \in Connections : native[d] # "opening"
    BY <1>4, FreeDatabase
  <2>7. \A d \in Connections :
            /\ native[d] = "open" => db.native = "open" /\ d \in db.children
            /\ d \in db.children => Made(d)
    BY DEF IInv, ConnectionAt
  <2>8. SharedAt(t)'
    BY <1>1, <2>1, <2>2, <2>5, <2>6, <2>7 DEF SharedAt, Made, ClosingPcs, DestroyPcs
  <2>9. ThreadAt(t)' /\ ~Claimed(t)'
    BY <2>5, <2>8, ServingIs DEF ThreadAt, DbPcs
  <2>10. ASSUME NEW d \in Connections
         PROVE  /\ native'[d] = "opening" => db'.busy
                /\ native'[d] \in {"opening", "open"} => db'.native = "open"
                /\ native'[d] = "open" => d \in db'.children
                /\ d \in db'.children => Made(d)'
    BY <1>1, <2>1, <2>2, <2>6, <2>7 DEF Made
  <2>11. /\ asleep' \subseteq Threads
         /\ native' \in [Connections -> {"none", "opening", "open", "closed"}]
         /\ db' \in Databases
         /\ db'.native = "closed" => db'.state = "Closed_state"
    BY <1>1, <1>2, <1>4, <2>1, <2>2 DEF Types, IInv
  <2>. QED
    BY <1>1, <2>5, <2>6, <2>9, <2>10, <2>11, DbKeeps
<1>5. CASE db.state # "Closed_state" /\ db.busy
  <2>. DEFINE m == [db EXCEPT !.state = "Closing"]
  <2>1. db' = m /\ Goto(t, "close_db") /\ asleep' = asleep \cup {t}
    BY <1>5 DEF ForceCloseDatabase
  <2>2. /\ m \in Databases /\ m.busy /\ m.native = db.native /\ m.children = db.children
    BY <1>2, <1>5 DEF Databases, GateStates
  <2>. HIDE DEF m
  <2>3. Stays(t) /\ th'[t].pc = "close_db"
    BY <2>1, GotoIs DEF Pcs
  <2>4. ~DbClaimed(t)' /\ SharedAt(t)'
    BY <2>3, NotServing DEF DbPcs, ClosingPcs, DestroyPcs
  <2>5. ThreadAt(t)' /\ ~Claimed(t)'
    BY <1>2, <2>3, <2>4, ServingIs DEF ThreadAt, Stays
  <2>6. ASSUME NEW d \in Connections
        PROVE  /\ native'[d] = "opening" => db'.busy
               /\ native'[d] \in {"opening", "open"} => db'.native = "open"
               /\ native'[d] = "open" => d \in db'.children
               /\ d \in db'.children => Made(d)'
    BY <1>1, <2>1, <2>2 DEF IInv, ConnectionAt, Made
  <2>7. /\ asleep' \subseteq Threads /\ InScopes(t) /\ th'[t].child = th[t].child
        /\ th'[t].pc \notin {"begin", "began"}
        /\ native' \in [Connections -> {"none", "opening", "open", "closed"}]
        /\ db' \in Databases
        /\ db'.native = "closed" => db'.state = "Closed_state"
    BY <1>1, <1>2, <1>5, <2>1, <2>2, <2>3 DEF Types, InScopes, Stays, IInv
  <2>. QED
    BY <1>1, <2>1, <2>2, <2>4, <2>5, <2>6, <2>7, DbKeeps
<1>. QED
  BY <1>3, <1>4, <1>5

\* destroy_database.
LEMMA DestroyDatabaseKeeps ==
    ASSUME IInv, NEW t \in Threads, DestroyDatabase(t)
    PROVE  IInv'
<1>. DEFINE m == [db EXCEPT !.native = "closed", !.state = "Closed_state", !.busy = FALSE]
<1>1. /\ th[t].pc = "db_native" /\ Rest(t) /\ db' = m /\ SignalDatabase
      /\ UNCHANGED <<gate, native, txn, tok, stmt, req>>
  BY DEF DestroyDatabase
<1>2. /\ Types /\ ScopedAt(t) /\ SharedAt(t) /\ db \in Databases
      /\ DbClaimed(t) /\ ~th[t].tx /\ ~th[t].run
  BY <1>1, BystanderTypes DEF Types, DbClaimed, DbPcs, ScopedAt
<1>3. m \in Databases /\ m.state = "Closed_state" /\ m.children = db.children
  BY <1>2 DEF Databases, GateStates
<1>. HIDE DEF m
<1>4. Returns(t)
  BY <1>1, RestIs
<1>5. \A d \in Connections : native[d] \notin {"opening", "open"}
  BY <1>1, <1>2 DEF SharedAt
<1>6. ThreadAt(t)' /\ ~Claimed(t)' /\ ~DbClaimed(t)'
  BY <1>2, <1>4, RestingIs DEF Returns
<1>7. \A u \in Threads \ {t} : ~DbClaimed(u)
  BY <1>2 DEF IInv, ExcludesAt
<1>8. ASSUME NEW d \in Connections
      PROVE  /\ native'[d] = "opening" => db'.busy
             /\ native'[d] \in {"opening", "open"} => db'.native = "open"
             /\ native'[d] = "open" => d \in db'.children
             /\ d \in db'.children => Made(d)'
  BY <1>1, <1>3, <1>5 DEF IInv, ConnectionAt, Made
<1>9. /\ asleep' \subseteq Threads /\ InScopes(t) /\ th'[t].child = Nobody
      /\ th'[t].pc \notin {"begin", "began"}
      /\ native' \in [Connections -> {"none", "opening", "open", "closed"}]
      /\ db' \in Databases
      /\ db'.native = "closed" => db'.state = "Closed_state"
  BY <1>1, <1>2, <1>3, <1>4 DEF Types, InScopes, Returns, SignalDatabase
<1>. QED
  BY <1>1, <1>6, <1>7, <1>8, <1>9, DbKeeps

-----------------------------------------------------------------------------
(* The invariant is inductive.                                              *)

\* The invariant holds at the start.
LEMMA InitEstablishes == Init => IInv
<1>. SUFFICES ASSUME Init PROVE IInv
  OBVIOUS
<1>1. /\ gate = [c \in Connections |-> OpenGate]
      /\ native = [c \in Connections |-> "none"]
      /\ txn = [c \in Connections |-> FALSE]
      /\ db = [state |-> "Open", busy |-> FALSE, children |-> {}, native |-> "open"]
      /\ tok = [t \in Threads |-> NoToken]
      /\ stmt = [t \in Threads |-> NoStatement]
      /\ req = [t \in Threads |-> [state |-> "Finished", cancelled |-> FALSE]]
      /\ th = [t \in Threads |-> NoThread]
      /\ asleep = {}
  BY DEF Init
<1>2. /\ OpenGate \in OwnerGate /\ OpenGate.state = "Open" /\ ~OpenGate.busy
      /\ OpenGate.lease = Nobody /\ OpenGate.request = Nobody /\ OpenGate.result = Nobody
  BY DEF OpenGate, OwnerGate, GateStates, Anybody
<1>3. NoToken \in Tokens /\ NoToken.via = Nobody
  BY DEF NoToken, Tokens, Anybody
<1>4. /\ NoStatement \in Children /\ NoStatement.state = "Closed_state"
      /\ NoStatement.via = Nobody /\ NoStatement.tx = Nobody
  <2>1. (CHOOSE c \in Connections : TRUE) \in Connections
    BY ConnectionsAssumption
  <2>. QED
    BY <2>1 DEF NoStatement, Children, GateStates, Anybody
<1>5. db \in Databases /\ ~db.busy /\ db.native = "open" /\ db.children = {}
  BY <1>1 DEF Databases, GateStates
<1>6. TypeOK
  <2>1. [state |-> "Finished", cancelled |-> FALSE] \in Requests
    BY DEF Requests
  <2>2. Types
    BY <1>1, <1>2, <1>3, <1>4, <1>5, <2>1, NoThreadIs DEF Types
  <2>3. Leases
    BY <1>1, <1>2, NobodyAssumption DEF Leases
  <2>. QED
    BY <2>2, <2>3, TypesAre
<1>7. \A t \in Threads : /\ th[t] = NoThread /\ stmt[t] = NoStatement /\ tok[t] = NoToken
                         /\ ~Exists(t)
  BY <1>1, <1>4 DEF Exists
<1>8. ASSUME NEW t \in Threads
      PROVE  ThreadAt(t) /\ ~Claimed(t) /\ ~DbClaimed(t)
  <2>1. ScopedAt(t) /\ EndedAt(t) /\ EngineAt(t) /\ JudgedAt(t)
    BY <1>7, NoThreadIs DEF ScopedAt, EndedAt, EngineAt, JudgedAt, CallPcs, BothPcs, DestroyPcs, DbPcs
  <2>2. HeldAt(t)
    BY <1>7, NoThreadIs DEF HeldAt, Ending, Settling, Made, DestroyPcs
  <2>3. AdmittedAt(t) /\ ~Claimed(t)
    BY <1>7, NoThreadIs DEF AdmittedAt, Claimed, Inside, Snapshot, CallPcs, BothPcs, DestroyPcs
  <2>4. ~DbClaimed(t) /\ SharedAt(t)
    BY <1>7, NoThreadIs DEF SharedAt, DbClaimed, DbPcs, ClosingPcs, DestroyPcs
  <2>. QED
    BY <2>1, <2>2, <2>3, <2>4 DEF ThreadAt
<1>9. ASSUME NEW k \in Threads
      PROVE  ListedAt(k)
  BY <1>3, <1>4, <1>7 DEF ListedAt
<1>10. ASSUME NEW c \in Connections
       PROVE  ConnectionAt(c)
  <2>1. gate[c] = OpenGate /\ native[c] = "none" /\ ~txn[c]
    BY <1>1
  <2>. QED
    BY <1>2, <1>5, <2>1 DEF ConnectionAt, GatedAt
<1>. QED
  BY <1>5, <1>6, <1>8, <1>9, <1>10 DEF IInv, ExcludesAt

\* What a thread starts, ...
LEMMA CallKeeps ==
    ASSUME IInv, NEW t \in Threads, Call(t)
    PROVE  IInv'
<1>1. CASE Operation(t) \/ StatementCall(t)
  BY <1>1, OperationKeeps, StatementCallKeeps
<1>2. ASSUME NEW c \in Connections,
             Connect(t, c) \/ CloseConnection(t, c) \/ ForceCloseConnection(t, c) \/ Run(t, c)
      PROVE  IInv'
  BY <1>2, ConnectKeeps, CloseConnectionKeeps, ForceCloseConnectionKeeps, RunKeeps
<1>3. ASSUME NEW c \in Connections, NEW via \in Anybody, WithTransaction(t, c, via)
      PROVE  IInv'
  BY <1>3, WithTransactionKeeps
<1>4. ASSUME NEW k \in Threads \ {t}, ForceCloseChild(t, k)
      PROVE  IInv'
  BY <1>4, ForceCloseChildKeeps
<1>5. CASE CloseDatabase(t) \/ ForceCloseDatabase(t)
  BY <1>5, CloseDatabaseKeeps, ForceCloseDatabaseKeeps
<1>. QED
  BY <1>1, <1>2, <1>3, <1>4, <1>5 DEF Call

\* ... what it goes on with, ...
LEMMA ContinueKeeps ==
    ASSUME IInv, NEW t \in Threads, Continue(t)
    PROVE  IInv'
<1>1. CASE ConnectReturn(t) \/ ConnectFinish(t)
  BY <1>1, ConnectReturnKeeps, ConnectFinishKeeps
<1>2. CASE \/ OperateReturn(t) \/ PrepareReturn(t) \/ StatementReturn(t) \/ CloseResultReturn(t)
           \/ Finish(t)
  BY <1>2, OperateReturnKeeps, PrepareReturnKeeps, StatementReturnKeeps, CloseResultReturnKeeps,
     FinishKeeps
<1>3. CASE Begin(t) \/ Began(t) \/ WorkReturn(t) \/ RevokeAndDrain(t) \/ Destroy(t) \/ Decide(t)
  BY <1>3, BeginKeeps, BeganKeeps, WorkReturnKeeps, RevokeAndDrainKeeps, DestroyKeeps, DecideKeeps
<1>4. CASE \/ Commit(t) \/ Committed(t) \/ Publish(t) \/ Rollback(t) \/ Discard(t) \/ Unlease(t)
           \/ Release(t)
  BY <1>4, CommitKeeps, CommittedKeeps, PublishKeeps, RollbackKeeps, DiscardKeeps, UnleaseKeeps,
     ReleaseKeeps
<1>5. CASE \/ ChildWake(t) \/ DestroyAll(t) \/ CloseNative(t) \/ Mark(t) \/ Unregister(t)
           \/ CloseWake(t)
  BY <1>5, ChildWakeKeeps, DestroyAllKeeps, CloseNativeKeeps, MarkKeeps, UnregisterKeeps,
     CloseWakeKeeps
<1>6. CASE \/ ForceCloseDatabase(t) \/ DatabaseRevoke(t) \/ DatabaseNext(t) \/ DestroyDatabase(t)
  BY <1>6, ForceCloseDatabaseKeeps, DatabaseRevokeKeeps, DatabaseNextKeeps, DestroyDatabaseKeeps
<1>7. CASE Quiesce(t) \/ Settle(t) \/ RequestSettle(t) \/ RequestFinish(t)
  BY <1>7, QuiesceKeeps, SettleKeeps, RequestSettleKeeps, RequestFinishKeeps
<1>. QED
  BY <1>1, <1>2, <1>3, <1>4, <1>5, <1>6, <1>7 DEF Continue

\* ... and how its scopes end.
LEMMA NextKeeps == IInv /\ [Next]_vars => IInv'
<1>. SUFFICES ASSUME IInv, [Next]_vars PROVE IInv'
  OBVIOUS
<1>1. ASSUME NEW t \in Threads, Leave(t)
      PROVE  IInv'
  <2>1. ForceCloseChild(t, t) \/ BodyReturns(t) \/ Quiesce(t)
    BY <1>1 DEF Leave
  <2>. QED
    BY <2>1, ForceCloseChildKeeps, BodyReturnsKeeps, QuiesceKeeps
<1>2. ASSUME NEW t \in Threads, Call(t) \/ Continue(t) \/ Cancel(t)
      PROVE  IInv'
  BY <1>2, CallKeeps, ContinueKeeps, CancelKeeps
<1>3. CASE UNCHANGED vars
  <2>1. asleep' \subseteq Threads /\ UNCHANGED <<gate, native, txn, db, tok, stmt, req, th>>
    BY <1>3, TypesAre DEF vars, IInv, Types
  <2>. QED
    BY <2>1, SleepKeeps
<1>. QED
  BY <1>1, <1>2, <1>3 DEF Next

\* The invariant holds always.
LEMMA IInvAlways == Spec => []IInv
<1>. QED
  BY InitEstablishes, NextKeeps, PTL DEF Spec

-----------------------------------------------------------------------------
(* The theorems.                                                            *)

\* The locals of every thread and the gates hold what their types say, and a lease or
\* a request of a connection is one of a thread that is inside its scope on it.
THEOREM TypeCorrect == Spec => []TypeOK
<1>1. IInv => TypeOK
  BY DEF IInv
<1>. QED
  BY <1>1, IInvAlways, PTL

\* Operations, transactions and requests are admitted one at a time: no two threads
\* are inside native code on one connection, and none on a closed one.
THEOREM AdmissionExcludes == Spec => []ExclusiveUse
<1>1. IInv => ExclusiveUse
  <2>. SUFFICES ASSUME IInv, NEW t \in Threads, Using(t)
                PROVE  /\ \A u \in Threads \ {t} : Using(u) => th[u].on # th[t].on
                       /\ th[t].pc \notin {"close_native", "req_settle"} =>
                            native[th[t].on] = "open"
    BY DEF ExclusiveUse
  <2>1. ASSUME NEW u \in Threads, Using(u)
        PROVE  /\ Sole(u) /\ (Claimed(u) \/ Quiet(u))
               /\ \/ Claimed(u) \/ th[u].pc \in {"req_settle", "destroy"}
                  \/ th[u].pc \in {"begin", "commit", "rollback"} /\ th[u].tx
    <3>1. ScopedAt(u)
      BY BystanderTypes
    <3>2. th[u].pc \in BothPcs => Snapshot(u) \/ th[u].tx
      BY <3>1 DEF ScopedAt, Snapshot
    <3>. QED
      BY <2>1, <3>1, <3>2 DEF Using, Sole, Quiet, Claimed, Ending, Settling, ScopedAt,
         CallPcs, BothPcs, DestroyPcs
  <2>2. ASSUME NEW u \in Threads \ {t}, Using(u)
        PROVE  th[u].on # th[t].on
    BY <2>1, <2>2, SoleIs
  <2>3. ASSUME th[t].pc \notin {"close_native", "req_settle"}
        PROVE  native[th[t].on] = "open"
    <3>1. /\ HeldAt(t) /\ AdmittedAt(t) /\ EndedAt(t) /\ th[t].on \in Connections
          /\ th[t] \in Locals /\ t # Nobody
      BY BystanderTypes, NobodyAssumption
    <3>2. ASSUME NEW k \in Threads, Exists(k), stmt[k].on = th[t].on
          PROVE  native[th[t].on] = "open"
      BY <3>2, BystanderTypes DEF ListedAt
    <3>3. CASE Inside(t)
      BY <3>1, <3>3 DEF AdmittedAt
    <3>4. CASE th[t].pc = "destroy_all"
      BY <3>2, <3>4 DEF Using, Listed
    <3>5. CASE th[t].pc = "destroy"
      <4>1. th[t].todo # {} /\ th[t].todo \subseteq Threads
        BY <3>1, <3>5, LocalIs DEF Using
      <4>. QED
        BY <3>1, <3>2, <3>5, <4>1 DEF EndedAt
    <3>6. CASE th[t].pc \in {"begin", "commit", "rollback"} /\ th[t].tx
      <4>1. gate[th[t].on].lease = t /\ Made(th[t].on)
        BY <3>1, <3>6 DEF HeldAt, DestroyPcs
      <4>. QED
        BY <3>1, <4>1, LeaseIsOpen DEF Made
    <3>7. \/ Inside(t) \/ th[t].pc \in {"destroy_all", "destroy"}
          \/ th[t].pc \in {"begin", "commit", "rollback"} /\ th[t].tx
      BY <2>1, <2>3 DEF Inside, DestroyPcs, Using
    <3>. QED
      BY <3>3, <3>4, <3>5, <3>6, <3>7
  <2>. QED
    BY <2>2, <2>3
<1>. QED
  BY <1>1, IInvAlways, PTL

\* No statement, result, connection or transaction of the engine outlives what it was
\* made in.
THEOREM NothingOutlivesOwner == Spec => []NothingOutlives
<1>1. IInv => NothingOutlives
  <2>. SUFFICES ASSUME IInv PROVE NothingOutlives
    OBVIOUS
  <2>1. ASSUME NEW k \in Threads, Exists(k)
        PROVE  /\ native[stmt[k].on] = "open"
               /\ stmt[k].tx # Nobody => gate[stmt[k].on].lease = stmt[k].tx
               /\ stmt[k].via # Nobody => gate[stmt[k].on].request = stmt[k].via
    BY <2>1 DEF IInv, ListedAt
  <2>2. ASSUME NEW c \in Connections
        PROVE  /\ gate[c].result # Nobody => gate[c].result \in Listed(c)
               /\ native[c] \in {"opening", "open"} => db.native = "open"
               /\ txn[c] /\ gate[c].state = "Open" => gate[c].busy \/ gate[c].lease # Nobody
    BY DEF IInv, ConnectionAt
  <2>. QED
    BY <2>1, <2>2 DEF NothingOutlives
<1>. QED
  BY <1>1, IInvAlways, PTL

\* with_transaction answers Ok only for what is durable, and never for a poisoned one.
THEOREM OutcomesAreHonest == Spec => []HonestOutcome
<1>1. IInv => HonestOutcome
  <2>. SUFFICES ASSUME IInv, NEW t \in Threads, th[t].pc = "release"
                PROVE  /\ th[t].result = "Ok" => th[t].durable
                       /\ th[t].result = "Error" => ~th[t].durable
                       /\ tok[t].poisoned => ~th[t].durable
    BY DEF HonestOutcome
  <2>1. ScopedAt(t) /\ JudgedAt(t)
    BY BystanderTypes
  <2>. QED
    BY <2>1 DEF ScopedAt, JudgedAt
<1>. QED
  BY <1>1, IInvAlways, PTL

=============================================================================
