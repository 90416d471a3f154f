--------------------------- MODULE StatementProofs ---------------------------
(***************************************************************************)
(* Proofs about Statement for every set of types, every bound on the       *)
(* schema epoch and chunks of every size.                                  *)
(*                                                                         *)
(* The invariant says that every advance of the epoch still to come is     *)
(* paid for (Roomy), what the native owners hold at each step (Shaped,     *)
(* Preparing, Holding), that the cached pointers are those of the current  *)
(* chunk (Viewed), what a transaction and the other connection are doing   *)
(* (InScope, OtherScope), what an epoch that was read or validated still   *)
(* says (Dated, Sound, Resolved), and that an execution that converted     *)
(* values has a transaction that cannot commit (Contained).                *)
(*                                                                         *)
(* The last part is about the operators of the views alone: the words of a *)
(* mask cover its rows once (WordsAre, RowHasWord, WordsApart), so sums    *)
(* and minima over words are those over rows (CountsAdd, FirstIs).         *)
(***************************************************************************)
EXTENDS Statement, FiniteSetTheorems, WellFoundedInduction, TLAPS

-----------------------------------------------------------------------------
(* The inductive invariant.                                                 *)

PreparingPcs == {"extract", "prepare", "clean", "prepared", "release"}

\* The epoch has room for the advances that were begun.
Roomy == epoch + Owed <= MaxEpoch

\* Which owner the thread works on, and how far the statement is.
Shaped ==
    /\ th.owner = "fresh" => th.pc \in PreparingPcs /\ p.state = "open" /\ th.phase # "none"
    /\ th.owner = "statement" => nat["fresh"] = NoOwner /\ th.phase = "none"
    /\ th.pc \in PreparingPcs /\ th.owner = "statement" <=> p.state = "opening"
    /\ p.state = "none" => th.pc = "idle" /\ nat["statement"] = NoOwner
    /\ p.state # "open" => ~p.result
    /\ th.pc = "leaving" => p.kind = "ddl"

\* An owner being prepared: n after the step at pc.
Preparing(n, pc) ==
    /\ n.shell /\ ~n.value /\ ~n.result /\ n.chunk = None /\ ~n.vectors
    /\ pc = "extract" => ~n.input /\ ~n.extracted /\ n.prepared = NoType
    /\ pc = "prepare" => n.input /\ n.extracted /\ n.prepared = NoType
    /\ pc = "prepared" => ~n.input /\ ~n.extracted
    /\ pc \in {"clean", "prepared"} /\ n.status = "OK" => n.prepared # NoType

\* The owner of an open statement.
Holding(n, result) ==
    /\ n.shell /\ ~n.extracted /\ n.prepared # NoType
    /\ n.input => th.pc \in {"bind", "bound"}
    /\ n.value => th.pc = "bind_value"
    /\ n.chunk # None \/ n.vectors => th.pc \in {"fold", "drain"}
    /\ th.pc = "idle" => (n.result <=> result)
    /\ th.pc \in {"fold", "drain"} => result /\ n.result
    /\ th.pc \notin {"idle", "fold", "drain"} => ~result
    /\ th.pc \in {"bind", "bind_value", "bound", "begin", "validate", "run"} => ~n.result
    /\ th.pc \in {"running", "leaving", "ran", "commit", "publish"} => n.result
    /\ th.owner = "fresh" => (n.result <=> th.phase = "recheck")

Owners ==
    /\ Shaped
    /\ th.pc \in PreparingPcs => Preparing(nat[th.owner], th.pc)
    /\ p.state = "open" => Holding(nat["statement"], p.result)

Counted == live = Pieces(nat["statement"]) + Pieces(nat["fresh"])

Viewed(n) == n.chunk # None /\ n.vectors => n.pointing /\ n.rows = n.chunk

\* The transaction of this connection.
InScope ==
    /\ tx.begun => ~tx.explicit
    /\ tx.begun => th.pc \in {"validate", "run", "running", "leaving", "ran", "commit", "fail"}
                   \/ th.owner = "fresh"
    /\ th.pc = "begin" => ~tx.explicit
    /\ th.pc \in {"validate", "run", "running", "leaving", "ran", "commit"} \/ th.owner = "fresh"
           => InTransaction
    /\ ~InTransaction => tx.snapshot = None
    /\ tx.altered => tx.explicit /\ tx.dirty /\ tx.snapshot # None
    /\ ~tx.explicit
       /\ (th.pc = "validate" \/ (th.pc \in {"extract", "prepare"} /\ th.phase # "recheck"))
           => tx.snapshot = None

\* The transaction of the other one: an uncommitted change has set schema_dirty.
OtherScope ==
    /\ schema.pending # None => ddl.explicit /\ ddl.dirty /\ ddl.pc # "settled"
    /\ ddl.pc \in {"entered", "executed"} => ddl.dirty
    /\ ddl.pc = "settled" => ddl.explicit

\* A change that readers can see and that is going to advance the epoch.
Changing == ddl.pc = "executed" \/ (ddl.pc = "settled" /\ ddl.dirty)

\* Epochs that were read are of the past.
Dated ==
    /\ p.validated # None => p.validated <= epoch
    /\ th.before # None => th.before <= epoch

\* What the parameters of an open statement are, and when they are the committed ones.
Sound ==
    p.state = "open" =>
        /\ p.types \in ParameterTypes /\ (p.types = NoParameters <=> p.kind = "constant")
        /\ p.kind = "plain" /\ p.validated = epoch /\ ~Changing =>
              /\ p.types = schema.committed
              /\ tx.snapshot # None => tx.snapshot = p.types
        /\ p.kind = "plain" /\ th.pc \in {"run", "running", "leaving", "ran"} =>
              IF th.before = None THEN tx.snapshot = p.types ELSE th.before = p.validated

\* What an owner that was just prepared resolved its parameters to.
Resolved ==
    LET type == nat[th.owner].prepared IN
    th.pc \in {"clean", "prepared"} /\ type # NoType =>
        /\ type = NoParameters <=> p.kind = "constant"
        /\ p.kind # "constant" =>
              /\ InTransaction => tx.snapshot = type
              /\ ~tx.explicit /\ th.phase # "recheck" /\ th.before = epoch /\ ~Changing
                    => type = schema.committed

\* An execution that converted values is going to fail, and its transaction with it.
Contained ==
    /\ th.stale => \/ th.pc \in {"leaving", "ran", "fail"}
                   \/ th.owner = "fresh" /\ th.phase = "recheck"
    /\ th.pc \in {"leaving", "ran"} => tx.snapshot # None
    /\ th.pc \in {"leaving", "ran"} \cup PreparingPcs /\ th.stale =>
          /\ p.kind = "plain" /\ tx.snapshot # None /\ tx.snapshot # p.types
          /\ th.owner = "statement" => nat["statement"].status = "OK"
    /\ th.pc = "fail" /\ th.stale /\ tx.explicit => tx.failure \/ tx.raised \/ cancelled
    /\ tx.stale => tx.failure \/ tx.raised \/ cancelled
    /\ ~tx.spoilt

IInv ==
    /\ TypeOK /\ Roomy /\ Owners /\ Counted /\ Viewed(nat["statement"])
    /\ InScope /\ OtherScope /\ Dated /\ Sound /\ Resolved /\ Contained

-----------------------------------------------------------------------------
(* Values.                                                                  *)

Transactions ==
    [explicit : BOOLEAN, begun : BOOLEAN, snapshot : Types \cup {None}, altered : BOOLEAN,
     dirty : BOOLEAN, failure : BOOLEAN, raised : BOOLEAN, stale : BOOLEAN, spoilt : BOOLEAN]
Statements ==
    [state : {"none", "opening", "open"}, kind : Kinds, home : {"connection", "transaction"},
     types : ParameterTypes \cup {NoType}, bound : BOOLEAN, result : BOOLEAN,
     validated : 0..MaxEpoch \cup {None}]
Threads ==
    [pc : Pcs, owner : {"statement", "fresh"}, phase : {"none", "validate", "recheck"},
     before : 0..MaxEpoch \cup {None}, stale : BOOLEAN, status : {"none", "raised"}]
Changes ==
    [pc : {"idle", "entered", "executed", "settled"}, explicit : BOOLEAN, dirty : BOOLEAN]
Schemas == [committed : Types, pending : Types \cup {None}]

\* The variables, by their types.
LEMMA ValuesAre ==
    TypeOK <=>
        /\ schema \in Schemas /\ epoch \in 0..MaxEpoch /\ ddl \in Changes /\ cancelled \in BOOLEAN
        /\ tx \in Transactions /\ p \in Statements /\ nat \in [{"statement", "fresh"} -> Owner]
        /\ live \in Nat /\ th \in Threads
BY DEF TypeOK, Schemas, Changes, Transactions, Statements, Threads

\* A flag counts for one or for nothing.
LEMMA BitIs ==
    ASSUME NEW b \in BOOLEAN
    PROVE  Bit(b) \in 0..1 /\ (b => Bit(b) = 1) /\ (~b => Bit(b) = 0)
BY DEF Bit

\* What a thread still owes the epoch.
LEMMA OwedIs ==
    /\ Owed \in 0..4
    /\ Owed' \in 0..4
BY DEF Owed, Bit

\* Where the program counter goes, and nothing else.
LEMMA GotoIs ==
    ASSUME TypeOK, NEW pc \in Pcs, Goto(pc)
    PROVE  /\ th' \in Threads /\ th'.pc = pc /\ th'.owner = th.owner /\ th'.phase = th.phase
           /\ th'.before = th.before /\ th'.stale = th.stale /\ th'.status = th.status
<1>1. th \in Threads
  BY ValuesAre
<1>. QED
  BY <1>1 DEF Goto, Threads

\* A thread between two calls.
LEMMA RestingIs ==
    /\ Resting \in Threads /\ Resting.pc = "idle" /\ Resting.owner = "statement"
    /\ Resting.phase = "none" /\ Resting.before = None /\ ~Resting.stale
BY DEF Resting, Threads, Pcs

\* An owner with nothing in it.
LEMMA NoOwnerIs == NoOwner \in Owner /\ Pieces(NoOwner) = 0
<1>1. 0 \in 0..MaxRows
  BY BoundsAssumption
<1>2. NoOwner \in Owner
  BY <1>1 DEF NoOwner, Owner, Statuses
<1>. QED
  BY <1>2 DEF NoOwner, Pieces, Bit

\* What an owner counts for.
LEMMA PiecesAre ==
    ASSUME NEW n \in Owner
    PROVE  Pieces(n) \in Nat
BY DEF Pieces, Bit

\* An owner is changed and counted.
LEMMA PutIs ==
    ASSUME TypeOK, Counted, NEW o \in {"statement", "fresh"}, NEW n \in Owner, Put(o, n),
           live' = live + (Pieces(n) - Pieces(nat[o]))
    PROVE  /\ nat' \in [{"statement", "fresh"} -> Owner] /\ nat'[o] = n
           /\ \A q \in {"statement", "fresh"} : q # o => nat'[q] = nat[q]
           /\ live' \in Nat /\ Counted'
<1>1. /\ nat \in [{"statement", "fresh"} -> Owner] /\ nat["statement"] \in Owner
      /\ nat["fresh"] \in Owner /\ live \in Nat
  BY DEF TypeOK
<1>2. /\ nat' \in [{"statement", "fresh"} -> Owner] /\ nat'[o] = n
      /\ \A q \in {"statement", "fresh"} : q # o => nat'[q] = nat[q]
  BY <1>1 DEF Put
<1>3. /\ Pieces(nat["statement"]) \in Nat /\ Pieces(nat["fresh"]) \in Nat /\ Pieces(n) \in Nat
      /\ live = Pieces(nat["statement"]) + Pieces(nat["fresh"])
  BY <1>1, PiecesAre DEF Counted
<1>4. live' = Pieces(nat'["statement"]) + Pieces(nat'["fresh"])
  <2>1. CASE o = "statement"
    BY <1>2, <1>3, <2>1
  <2>2. CASE o = "fresh"
    BY <1>2, <1>3, <2>2
  <2>. QED
    BY <2>1, <2>2
<1>5. Pieces(nat'["statement"]) \in Nat /\ Pieces(nat'["fresh"]) \in Nat
  BY <1>2, PiecesAre
<1>6. live' \in Nat
  BY <1>4, <1>5
<1>7. Counted'
  BY <1>4 DEF Counted
<1>. QED
  BY <1>2, <1>6, <1>7

\* An owner is changed, and what it no longer holds is counted off.
LEMMA ReleasedIs ==
    ASSUME TypeOK, Counted, NEW o \in {"statement", "fresh"}, NEW n \in Owner, Released(o, n)
    PROVE  /\ nat' \in [{"statement", "fresh"} -> Owner] /\ nat'[o] = n
           /\ \A q \in {"statement", "fresh"} : q # o => nat'[q] = nat[q]
           /\ live' \in Nat /\ Counted'
<1>1. nat[o] \in Owner /\ live \in Nat
  BY DEF TypeOK
<1>2. Pieces(nat[o]) \in Nat /\ Pieces(n) \in Nat
  BY <1>1, PiecesAre
<1>3. live' = live + (Pieces(n) - Pieces(nat[o])) /\ Put(o, n)
  BY <1>1, <1>2 DEF Released
<1>. QED
  BY <1>3, PutIs

\* Without an owner there is nothing to view.
LEMMA NothingViewed == Viewed(NoOwner) /\ NoOwner.chunk = None
BY DEF Viewed, NoOwner

\* The snapshot a call sees is a type, and the first call of a transaction fixes it.
LEMMA SnapshotIs ==
    ASSUME TypeOK
    PROVE  /\ Visible \in Types /\ Visible # None /\ Visible # NoType /\ Visible # NoParameters
           /\ tx.snapshot # None => Visible = tx.snapshot
           /\ tx.snapshot = None => Visible = schema.committed
<1>1. schema.committed \in Types /\ tx.snapshot \in Types \cup {None}
  BY DEF TypeOK
<1>2. Visible \in Types
  BY <1>1 DEF Visible
<1>. QED
  BY <1>2, ValuesAssumption DEF Visible, NoParameters

\* What the first call of a transaction makes of it.
LEMMA TakeSnapshotIs ==
    ASSUME TypeOK, tx' = TakeSnapshot
    PROVE  /\ tx' \in Transactions /\ tx'.explicit = tx.explicit /\ tx'.begun = tx.begun
           /\ tx'.altered = tx.altered /\ tx'.dirty = tx.dirty /\ tx'.failure = tx.failure
           /\ tx'.raised = tx.raised /\ tx'.stale = tx.stale /\ tx'.spoilt = tx.spoilt
           /\ InTransaction => tx'.snapshot = Visible
           /\ ~InTransaction => tx'.snapshot = tx.snapshot
           /\ InTransaction' <=> InTransaction
<1>1. tx \in Transactions /\ Visible \in Types
  BY ValuesAre, SnapshotIs
<1>2. CASE InTransaction
  <2>1. tx' = [tx EXCEPT !.snapshot = Visible]
    BY <1>2 DEF TakeSnapshot
  <2>. QED
    BY <1>1, <1>2, <2>1 DEF Transactions, InTransaction
<1>3. CASE ~InTransaction
  <2>1. tx' = tx
    BY <1>3 DEF TakeSnapshot
  <2>. QED
    BY <1>1, <1>3, <2>1 DEF InTransaction
<1>. QED
  BY <1>2, <1>3

\* No transaction.
LEMMA NoTransactionIs ==
    /\ NoTransaction \in Transactions /\ ~NoTransaction.explicit /\ ~NoTransaction.begun
    /\ NoTransaction.snapshot = None /\ ~NoTransaction.altered /\ ~NoTransaction.dirty
    /\ ~NoTransaction.stale /\ ~NoTransaction.spoilt
BY DEF NoTransaction, Transactions

\* No statement.
LEMMA NoStatementIs ==
    /\ NoStatement \in Statements /\ NoStatement.state = "none" /\ ~NoStatement.result
    /\ NoStatement.validated = None /\ NoStatement.home = "connection"
BY DEF NoStatement, Statements, Kinds

\* The invariant holds at the start.
LEMMA InitEstablishes == Init => IInv
<1>. SUFFICES ASSUME Init PROVE IInv
  OBVIOUS
<1>1. TypeOK
  <2>1. 0 \in 0..MaxEpoch /\ 0 \in Nat
    BY BoundsAssumption
  <2>2. schema \in Schemas /\ ddl \in Changes
    BY DEF Init, Schemas, Changes
  <2>3. nat \in [{"statement", "fresh"} -> Owner]
    BY NoOwnerIs DEF Init
  <2>. QED
    BY <2>1, <2>2, <2>3, NoTransactionIs, NoStatementIs, RestingIs, ValuesAre DEF Init
<1>2. /\ epoch = 0 /\ live = 0 /\ nat["statement"] = NoOwner /\ nat["fresh"] = NoOwner
      /\ p = NoStatement /\ th = Resting /\ tx = NoTransaction /\ schema.pending = None
      /\ ddl.pc = "idle" /\ ~ddl.explicit
  BY DEF Init
<1>3. Roomy
  <2>1. Owed = 0
    BY <1>2, NoTransactionIs, RestingIs DEF Owed, Bit
  <2>. QED
    BY <1>2, <2>1, BoundsAssumption DEF Roomy
<1>4. Owners
  BY <1>2, NoStatementIs, RestingIs DEF Owners, Shaped, PreparingPcs
<1>5. Counted /\ Viewed(nat["statement"])
  BY <1>2, NoOwnerIs, NothingViewed DEF Counted
<1>6. InScope /\ OtherScope /\ Dated
  BY <1>2, NoStatementIs, NoTransactionIs, RestingIs
     DEF InScope, OtherScope, Dated, InTransaction
<1>7. Sound /\ Resolved /\ Contained
  BY <1>2, NoStatementIs, NoTransactionIs, RestingIs DEF Sound, Resolved, Contained
<1>. QED
  BY <1>1, <1>3, <1>4, <1>5, <1>6, <1>7 DEF IInv

-----------------------------------------------------------------------------
(* The other connection, and the cancellation.                              *)

\* An epoch is a number, and None is not.
LEMMA EpochsAre ==
    ASSUME TypeOK
    PROVE  /\ epoch \in Nat /\ epoch <= MaxEpoch /\ MaxEpoch \in Nat /\ None \notin Nat /\ epoch # None
           /\ p.validated \in Nat \/ p.validated = None
           /\ th.before \in Nat \/ th.before = None
<1>1. epoch \in 0..MaxEpoch /\ p \in Statements /\ th \in Threads /\ MaxEpoch \in Nat /\ None \notin Nat
  BY ValuesAre, BoundsAssumption, ValuesAssumption
<1>2. p.validated \in 0..MaxEpoch \cup {None} /\ th.before \in 0..MaxEpoch \cup {None}
  BY <1>1 DEF Statements, Threads
<1>. QED
  BY <1>1, <1>2

\* A step that neither uses the statement nor the transaction: the epoch advances, unless
\* the committed schema is what it was.
LEMMA QuietKeeps ==
    ASSUME IInv, UNCHANGED <<tx, p, nat, live, th>>, cancelled => cancelled',
           epoch' \in Nat, epoch' >= epoch,
           epoch' = epoch /\ ~Changing' => ~Changing /\ schema'.committed = schema.committed
    PROVE  /\ Owners' /\ Counted' /\ Viewed(nat["statement"])' /\ InScope'
           /\ Dated' /\ Sound' /\ Resolved' /\ Contained'
<1>1. /\ epoch \in Nat /\ (p.validated \in Nat \/ p.validated = None) /\ None \notin Nat
      /\ (th.before \in Nat \/ th.before = None)
      /\ Owners /\ Counted /\ Viewed(nat["statement"]) /\ InScope /\ Dated /\ Sound /\ Resolved
      /\ Contained
  BY EpochsAre DEF IInv
<1>2. Owners' /\ Counted' /\ Viewed(nat["statement"])' /\ InScope'
  BY <1>1 DEF Owners, Shaped, Preparing, Holding, Counted, Viewed, InScope, InTransaction
<1>3. Dated'
  BY <1>1 DEF Dated
<1>4. Contained'
  BY <1>1 DEF Contained
<1>5. Sound'
  <2>1. p.validated = epoch' => epoch' = epoch
    BY <1>1 DEF Dated
  <2>. QED
    BY <1>1, <2>1 DEF Sound
<1>6. Resolved'
  <2>1. th.before = epoch' => epoch' = epoch
    BY <1>1 DEF Dated
  <2>. QED
    BY <1>1, <2>1 DEF Resolved, InTransaction
<1>. QED
  BY <1>1, <1>2, <1>3, <1>4, <1>5, <1>6

\* Each step of the other connection keeps its types, its debt and its scope.
LEMMA SchemaEnterKeeps ==
    ASSUME IInv, SchemaEnter
    PROVE  IInv'
<1>1. /\ TypeOK /\ epoch \in Nat /\ epoch + Owed + 3 <= MaxEpoch /\ MaxEpoch \in Nat
      /\ epoch' = epoch + 1
      /\ ddl' = [ddl EXCEPT !.pc = "entered", !.dirty = TRUE] /\ ddl.pc = "idle"
      /\ UNCHANGED <<schema, cancelled, tx, p, nat, live, th>> /\ Owed \in 0..4 /\ Owed' \in 0..4
  BY EpochsAre, OwedIs DEF SchemaEnter, Room, IInv
<1>2. ddl' \in Changes /\ ddl'.pc = "entered" /\ ddl'.dirty /\ ddl'.explicit = ddl.explicit
  BY <1>1, ValuesAre DEF Changes
<1>3. Owed' <= Owed + 2
  BY <1>1, <1>2 DEF Owed, Bit
<1>4. epoch' \in 0..MaxEpoch
  BY <1>1
<1>5. TypeOK'
  BY <1>1, <1>2, <1>4, ValuesAre DEF TypeOK, Changes
<1>6. Roomy'
  BY <1>1, <1>3 DEF Roomy
<1>7. OtherScope'
  BY <1>1, <1>2 DEF IInv, OtherScope
<1>8. /\ Owners' /\ Counted' /\ Viewed(nat["statement"])' /\ InScope'
      /\ Dated' /\ Sound' /\ Resolved' /\ Contained'
  BY <1>1, QuietKeeps
<1>. QED
  BY <1>5, <1>6, <1>7, <1>8 DEF IInv

\* The engine has changed the schema, or failed to; the epoch owes an advance.
LEMMA SchemaExecuteKeeps ==
    ASSUME IInv, SchemaExecute
    PROVE  IInv'
<1>1. /\ TypeOK /\ epoch \in Nat /\ ddl.pc = "entered" /\ ddl' = [ddl EXCEPT !.pc = "executed"]
      /\ UNCHANGED <<epoch, cancelled, tx, p, nat, live, th>> /\ Owed \in 0..4 /\ Owed' \in 0..4
  BY EpochsAre, OwedIs DEF SchemaExecute, IInv
<1>2. /\ ddl' \in Changes /\ ddl'.pc = "executed" /\ ddl'.dirty = ddl.dirty
      /\ ddl'.explicit = ddl.explicit
  BY <1>1, ValuesAre DEF Changes
<1>3. schema' \in Schemas /\ (schema'.pending # schema.pending => ddl.explicit)
  <2>1. schema \in Schemas
    BY <1>1, ValuesAre
  <2>. QED
    BY <2>1 DEF SchemaExecute, Schemas
<1>4. Owed' = Owed
  BY <1>1, <1>2 DEF Owed, Bit
<1>5. TypeOK'
  BY <1>1, <1>2, <1>3, ValuesAre DEF TypeOK, Changes, Schemas
<1>6. Roomy'
  BY <1>1, <1>4 DEF IInv, Roomy
<1>7. OtherScope'
  BY <1>1, <1>2, <1>3 DEF IInv, OtherScope
<1>8. Changing'
  BY <1>2 DEF Changing
<1>9. /\ Owners' /\ Counted' /\ Viewed(nat["statement"])' /\ InScope'
      /\ Dated' /\ Sound' /\ Resolved' /\ Contained'
  BY <1>1, <1>8, QuietKeeps
<1>. QED
  BY <1>5, <1>6, <1>7, <1>9 DEF IInv

\* The advance that follows a change.
LEMMA SchemaLeaveKeeps ==
    ASSUME IInv, SchemaLeave
    PROVE  IInv'
<1>1. /\ TypeOK /\ epoch \in Nat /\ MaxEpoch \in Nat /\ epoch' = epoch + 1
      /\ ddl' = [ddl EXCEPT !.pc = "idle"] /\ ddl.pc = "executed"
      /\ UNCHANGED <<schema, cancelled, tx, p, nat, live, th>> /\ Owed \in 0..4 /\ Owed' \in 0..4
      /\ epoch + Owed <= MaxEpoch
  BY EpochsAre, OwedIs DEF SchemaLeave, IInv, Roomy
<1>2. ddl' \in Changes /\ ddl'.pc = "idle" /\ ddl'.dirty = ddl.dirty /\ ddl'.explicit = ddl.explicit
  BY <1>1, ValuesAre DEF Changes
<1>3. Owed' = Owed - 1
  BY <1>1, <1>2 DEF Owed, Bit
<1>4. epoch' \in 0..MaxEpoch
  BY <1>1, <1>3
<1>5. TypeOK'
  BY <1>1, <1>2, <1>4, ValuesAre DEF TypeOK, Changes
<1>6. Roomy'
  BY <1>1, <1>3 DEF Roomy
<1>7. OtherScope'
  BY <1>1, <1>2 DEF IInv, OtherScope
<1>8. /\ Owners' /\ Counted' /\ Viewed(nat["statement"])' /\ InScope'
      /\ Dated' /\ Sound' /\ Resolved' /\ Contained'
  BY <1>1, QuietKeeps
<1>. QED
  BY <1>5, <1>6, <1>7, <1>8 DEF IInv

\* The other connection begins a transaction.
LEMMA OtherBeginKeeps ==
    ASSUME IInv, OtherBegin
    PROVE  IInv'
<1>1. /\ TypeOK /\ epoch \in Nat /\ ddl.pc = "idle" /\ ~ddl.explicit
      /\ ddl' = [pc |-> "idle", explicit |-> TRUE, dirty |-> FALSE]
      /\ UNCHANGED <<schema, epoch, cancelled, tx, p, nat, live, th>>
      /\ Owed \in 0..4 /\ Owed' \in 0..4
  BY EpochsAre, OwedIs DEF OtherBegin, IInv
<1>2. ddl' \in Changes /\ ddl'.pc = "idle" /\ ddl'.dirty = FALSE /\ ddl'.explicit = TRUE
  BY <1>1 DEF Changes
<1>3. Owed' = Owed
  BY <1>1, <1>2 DEF Owed, Bit
<1>4. TypeOK'
  BY <1>1, <1>2, ValuesAre DEF TypeOK, Changes
<1>5. Roomy'
  BY <1>1, <1>3 DEF IInv, Roomy
<1>6. OtherScope'
  BY <1>1, <1>2 DEF IInv, OtherScope
<1>7. ~Changing
  BY <1>1 DEF Changing
<1>8. /\ Owners' /\ Counted' /\ Viewed(nat["statement"])' /\ InScope'
      /\ Dated' /\ Sound' /\ Resolved' /\ Contained'
  BY <1>1, <1>7, QuietKeeps
<1>. QED
  BY <1>4, <1>5, <1>6, <1>8 DEF IInv

\* A transaction that ran no DDL has no change to commit.
LEMMA OtherSettleKeeps ==
    ASSUME IInv, OtherSettle
    PROVE  IInv'
<1>1. /\ TypeOK /\ epoch \in Nat /\ ddl.pc = "idle" /\ ddl.explicit
      /\ ddl' = [ddl EXCEPT !.pc = "settled"]
      /\ UNCHANGED <<epoch, cancelled, tx, p, nat, live, th>> /\ Owed \in 0..4 /\ Owed' \in 0..4
  BY EpochsAre, OwedIs DEF OtherSettle, IInv
<1>2. /\ ddl' \in Changes /\ ddl'.pc = "settled" /\ ddl'.dirty = ddl.dirty
      /\ ddl'.explicit = ddl.explicit
  BY <1>1, ValuesAre DEF Changes
<1>3. /\ schema' \in Schemas /\ schema'.pending = None
      /\ schema.pending = None => schema'.committed = schema.committed
  <2>1. schema \in Schemas
    BY <1>1, ValuesAre
  <2>. QED
    BY <2>1 DEF OtherSettle, Schemas
<1>4. Owed' = Owed
  BY <1>1, <1>2 DEF Owed, Bit
<1>5. TypeOK'
  BY <1>1, <1>2, <1>3, ValuesAre DEF TypeOK, Changes, Schemas
<1>6. Roomy'
  BY <1>1, <1>4 DEF IInv, Roomy
<1>7. OtherScope'
  BY <1>1, <1>2, <1>3 DEF IInv, OtherScope
<1>8. ~Changing' => ~Changing /\ schema'.committed = schema.committed
  BY <1>1, <1>2, <1>3 DEF IInv, OtherScope, Changing
<1>9. /\ Owners' /\ Counted' /\ Viewed(nat["statement"])' /\ InScope'
      /\ Dated' /\ Sound' /\ Resolved' /\ Contained'
  BY <1>1, <1>8, QuietKeeps
<1>. QED
  BY <1>5, <1>6, <1>7, <1>9 DEF IInv

\* The epoch advances for a transaction that ran DDL.
LEMMA OtherSettledKeeps ==
    ASSUME IInv, OtherSettled
    PROVE  IInv'
<1>1. /\ TypeOK /\ epoch \in Nat /\ MaxEpoch \in Nat /\ epoch' = epoch + Bit(ddl.dirty)
      /\ ddl' = [pc |-> "idle", explicit |-> FALSE, dirty |-> FALSE] /\ ddl.pc = "settled"
      /\ ddl.explicit /\ UNCHANGED <<schema, cancelled, tx, p, nat, live, th>>
      /\ Owed \in 0..4 /\ Owed' \in 0..4 /\ epoch + Owed <= MaxEpoch
      /\ schema.pending = None
  BY EpochsAre, OwedIs DEF OtherSettled, IInv, Roomy, OtherScope
<1>2. /\ ddl' \in Changes /\ ddl'.pc = "idle" /\ ddl'.dirty = FALSE /\ ddl'.explicit = FALSE
      /\ ddl.dirty \in BOOLEAN
  BY <1>1, ValuesAre DEF Changes
<1>3. Owed' + Bit(ddl.dirty) = Owed /\ Bit(ddl.dirty) \in 0..1
  BY <1>1, <1>2 DEF Owed, Bit
<1>4. epoch' \in 0..MaxEpoch
  BY <1>1, <1>3
<1>5. TypeOK'
  BY <1>1, <1>2, <1>4, ValuesAre DEF TypeOK, Changes
<1>6. Roomy'
  BY <1>1, <1>3 DEF Roomy
<1>7. OtherScope'
  BY <1>1, <1>2 DEF OtherScope
<1>8. epoch' >= epoch /\ (epoch' = epoch => ~Changing)
  BY <1>1, <1>2, BitIs DEF Changing
<1>9. /\ Owners' /\ Counted' /\ Viewed(nat["statement"])' /\ InScope'
      /\ Dated' /\ Sound' /\ Resolved' /\ Contained'
  BY <1>1, <1>4, <1>8, QuietKeeps
<1>. QED
  BY <1>5, <1>6, <1>7, <1>9 DEF IInv

\* The latch is set.
LEMMA CancelKeeps ==
    ASSUME IInv, Cancel
    PROVE  IInv'
<1>1. /\ TypeOK /\ epoch \in Nat /\ cancelled' = TRUE
      /\ UNCHANGED <<schema, epoch, ddl, tx, p, nat, live, th>>
  BY EpochsAre DEF Cancel, IInv
<1>2. TypeOK'
  BY <1>1 DEF TypeOK
<1>3. Owed' = Owed
  BY <1>1 DEF Owed
<1>4. Roomy'
  BY <1>1, <1>3 DEF IInv, Roomy
<1>5. OtherScope'
  BY <1>1 DEF IInv, OtherScope
<1>6. Changing' <=> Changing
  BY <1>1 DEF Changing
<1>7. /\ Owners' /\ Counted' /\ Viewed(nat["statement"])' /\ InScope'
      /\ Dated' /\ Sound' /\ Resolved' /\ Contained'
  BY <1>1, <1>6, QuietKeeps
<1>. QED
  BY <1>2, <1>4, <1>5, <1>7 DEF IInv

-----------------------------------------------------------------------------
(* Preparing.                                                               *)

\* The owner and its text copy exist, and the epoch was read.
LEMMA PrepareOnKeeps ==
    ASSUME IInv, NEW kind \in Kinds, PrepareOn(kind)
    PROVE  IInv'
<1>. DEFINE n == [NoOwner EXCEPT !.shell = TRUE]
<1>1. /\ TypeOK /\ Counted /\ th.pc = "idle" /\ p.state = "none" /\ th.owner = "statement"
      /\ nat["statement"] = NoOwner /\ nat["fresh"] = NoOwner /\ ~th.stale
      /\ UNCHANGED <<schema, ddl, epoch, cancelled, tx>> /\ Put("statement", n)
      /\ live' = live + 1 /\ epoch \in Nat /\ epoch # None /\ live \in Nat
      /\ epoch \in 0..MaxEpoch
  BY EpochsAre, ValuesAre
     DEF PrepareOn, IInv, Owners, Shaped, PreparingPcs, Engine, Contained, TypeOK
<1>2. /\ n \in Owner /\ Pieces(n) = 1 /\ n.shell /\ ~n.input /\ ~n.extracted /\ ~n.value
      /\ n.prepared = NoType /\ ~n.result /\ n.chunk = None /\ ~n.vectors
  <2>1. NoOwner \in Owner
    BY NoOwnerIs
  <2>2. n \in Owner
    BY <2>1 DEF Owner
  <2>. QED
    BY <2>2 DEF NoOwner, Pieces, Bit
<1>. HIDE DEF n
<1>3. /\ nat' \in [{"statement", "fresh"} -> Owner] /\ nat'["statement"] = n
      /\ nat'["fresh"] = NoOwner /\ live' \in Nat /\ Counted'
  <2>1. live' = live + (Pieces(n) - Pieces(nat["statement"]))
    BY <1>1, <1>2, NoOwnerIs
  <2>. QED
    BY <1>1, <1>2, <2>1, PutIs
<1>4. /\ th' \in Threads /\ th'.pc = "extract" /\ th'.owner = "statement" /\ th'.phase = "none"
      /\ th'.before = epoch /\ ~th'.stale
  BY <1>1, RestingIs DEF PrepareOn, Threads, Pcs
<1>5. /\ p' \in Statements /\ p'.state = "opening" /\ p'.validated = None /\ ~p'.result
  BY <1>1, NoStatementIs DEF PrepareOn, Statements
<1>6. TypeOK'
  BY <1>1, <1>3, <1>4, <1>5, ValuesAre DEF TypeOK, Statements, Threads
<1>7. Roomy'
  <2>1. Owed' = Owed
    BY <1>1, <1>4 DEF Owed, Bit
  <2>. QED
    BY <1>1, <2>1 DEF IInv, Roomy
<1>8. Owners'
  BY <1>2, <1>3, <1>4, <1>5 DEF Owners, Shaped, Preparing, PreparingPcs
<1>9. Viewed(nat["statement"])'
  BY <1>2, <1>3 DEF Viewed
<1>10. InScope'
  <2>1. ~tx.begun /\ (~InTransaction => tx.snapshot = None)
    BY <1>1 DEF IInv, InScope
  <2>2. InTransaction' <=> InTransaction
    BY <1>1 DEF InTransaction
  <2>. QED
    BY <1>1, <1>4, <2>1, <2>2 DEF IInv, InScope, InTransaction
<1>11. OtherScope' /\ Dated'
  BY <1>1, <1>4, <1>5 DEF IInv, OtherScope, Dated
<1>12. Sound' /\ Resolved'
  BY <1>4, <1>5 DEF Sound, Resolved
<1>13. Contained'
  BY <1>1, <1>4 DEF IInv, Contained
<1>. QED
  BY <1>3, <1>6, <1>7, <1>8, <1>9, <1>10, <1>11, <1>12, <1>13 DEF IInv

\* While a statement is prepared the thread works on one owner, and the debt to the epoch
\* is as it was.
LEMMA PreparingIs ==
    ASSUME IInv, th.pc \in PreparingPcs
    PROVE  /\ TypeOK /\ Counted /\ nat \in [{"statement", "fresh"} -> Owner]
           /\ th \in Threads /\ p \in Statements /\ live \in Nat
           /\ th.owner \in {"statement", "fresh"} /\ nat[th.owner] \in Owner
           /\ Preparing(nat[th.owner], th.pc)
           /\ (th.owner = "statement" <=> p.state = "opening")
           /\ (th.owner = "statement" <=> th.phase = "none")
           /\ (th.owner = "fresh" <=> p.state = "open")
           /\ th.owner = "statement" => nat["fresh"] = NoOwner
           /\ th.owner = "fresh" => InTransaction
           /\ th.owner = "statement" => ~tx.begun
BY ValuesAre
   DEF IInv, Owners, Shaped, Threads, Statements, InScope, PreparingPcs

\* A step from one preparing step to another, of one owner.
LEMMA PreparingOwners ==
    ASSUME IInv, th.pc \in PreparingPcs, th'.pc \in PreparingPcs, UNCHANGED p,
           th'.owner = th.owner, th'.phase = th.phase, th'.stale = th.stale,
           th'.before = th.before,
           NEW n \in Owner, nat'[th.owner] = n, Preparing(n, th'.pc),
           \A q \in {"statement", "fresh"} : q # th.owner => nat'[q] = nat[q]
    PROVE  Owners' /\ Viewed(nat["statement"])'
<1>1. /\ (th.owner = "statement" \/ th.owner = "fresh")
      /\ p.state = "open" => Holding(nat["statement"], p.result)
      /\ Viewed(nat["statement"])
  BY PreparingIs DEF IInv, Owners
<1>2. CASE th.owner = "statement"
  <2>1. /\ nat'["statement"] = n /\ nat'["fresh"] = NoOwner /\ p.state = "opening"
        /\ th.phase = "none" /\ ~p.result /\ th'.pc # "leaving"
    BY <1>2, PreparingIs DEF IInv, Owners, Shaped, PreparingPcs
  <2>. QED
    BY <1>2, <2>1 DEF Owners, Shaped, Preparing, Viewed
<1>3. CASE th.owner = "fresh"
  <2>1. nat'["statement"] = nat["statement"] /\ nat'["fresh"] = n /\ p.state = "open"
        /\ th.phase # "none"
    BY <1>3, PreparingIs
  <2>2. Owners'
    BY <1>1, <1>3, <2>1 DEF Owners, Shaped, Holding, PreparingPcs
  <2>. QED
    BY <1>1, <2>1, <2>2 DEF Viewed
<1>. QED
  BY <1>1, <1>2, <1>3

\* What such a step leaves of the rest.
LEMMA PreparingRest ==
    ASSUME IInv, th.pc \in PreparingPcs, th'.pc \in PreparingPcs,
           UNCHANGED <<schema, ddl, epoch, p>>, cancelled' = cancelled,
           th'.owner = th.owner, th'.phase = th.phase, th'.stale = th.stale,
           th'.before = th.before, tx'.dirty = tx.dirty, tx'.stale = tx.stale,
           tx.snapshot # None => tx'.snapshot = tx.snapshot, tx'.spoilt = tx.spoilt,
           tx'.failure = tx.failure, tx'.raised = tx.raised
    PROVE  Roomy' /\ OtherScope' /\ Dated' /\ Contained'
<1>1. th.owner \in {"statement", "fresh"}
  BY PreparingIs
<1>2. Roomy'
  <2>1. Owed' = Owed
    BY DEF Owed, Bit, PreparingPcs
  <2>. QED
    BY <2>1 DEF IInv, Roomy
<1>3. OtherScope' /\ Dated'
  BY DEF IInv, OtherScope, Dated
<1>4. Contained'
  BY DEF IInv, Contained, PreparingPcs
<1>. QED
  BY <1>2, <1>3, <1>4

\* Extracting the statements of the text.
LEMMA ExtractKeeps ==
    ASSUME IInv, Extract
    PROVE  IInv'
<1>. DEFINE o == th.owner
            n == [nat[o] EXCEPT !.input = TRUE]
<1>1. /\ th.pc = "extract" /\ th.pc \in PreparingPcs
      /\ UNCHANGED <<schema, ddl, epoch, cancelled, tx, p>>
  BY DEF Extract, PreparingPcs, Engine
<1>2. /\ TypeOK /\ Counted /\ th \in Threads /\ live \in Nat /\ nat[o] \in Owner
      /\ o \in {"statement", "fresh"} /\ Preparing(nat[o], "extract")
  BY <1>1, PreparingIs
<1>3. \E m \in Owner, pc \in {"release", "clean", "prepare"} :
        /\ Put(o, m) /\ Goto(pc)
        /\ m.shell /\ ~m.value /\ ~m.result /\ m.chunk = None /\ ~m.vectors /\ m.prepared = NoType
        /\ m.input /\ (pc = "prepare" => m.extracted) /\ (pc = "clean" => m.status # "OK")
        /\ live' = live + 1 + Bit(m.extracted)
  <2>1. /\ n \in Owner /\ n.shell /\ ~n.value /\ ~n.result /\ n.chunk = None /\ ~n.vectors
        /\ n.prepared = NoType /\ n.input /\ ~n.extracted
    BY <1>2 DEF Owner, Preparing
  <2>. HIDE DEF n, o
  <2>2. ASSUME NEW status \in Statuses, NEW extracted \in BOOLEAN
        PROVE  LET m == [n EXCEPT !.extracted = extracted, !.status = status] IN
               /\ m \in Owner /\ m.shell /\ ~m.value /\ ~m.result /\ m.chunk = None /\ ~m.vectors
               /\ m.prepared = NoType /\ m.input /\ m.extracted = extracted /\ m.status = status
    BY <2>1 DEF Owner
  <2>3. LET m == [n EXCEPT !.status = "CANCELLED"] IN
        /\ m \in Owner /\ m.shell /\ ~m.value /\ ~m.result /\ m.chunk = None /\ ~m.vectors
        /\ m.prepared = NoType /\ m.input /\ ~m.extracted /\ m.status = "CANCELLED"
    BY <2>1 DEF Owner, Statuses
  <2>4. Bit(FALSE) = 0 /\ live + 1 + 0 = live + 1
    BY <1>2 DEF Bit
  <2>5. CASE Put(o, n) /\ live' = live + 1 /\ Goto("release")
    BY <2>1, <2>4, <2>5 DEF Bit
  <2>6. CASE Put(o, [n EXCEPT !.status = "CANCELLED"]) /\ live' = live + 1 /\ Goto("clean")
    <3>. DEFINE m == [n EXCEPT !.status = "CANCELLED"]
    <3>1. /\ m \in Owner /\ m.shell /\ ~m.value /\ ~m.result /\ m.chunk = None /\ ~m.vectors
          /\ m.prepared = NoType /\ m.input /\ ~m.extracted /\ m.status = "CANCELLED"
      BY <2>3
    <3>2. Put(o, m)
      BY <2>6
    <3>. HIDE DEF m
    <3>3. live' = live + 1 + Bit(m.extracted)
      BY <2>4, <2>6, <3>1 DEF Bit
    <3>. QED
      BY <2>6, <3>1, <3>2, <3>3
  <2>7. ASSUME NEW status \in {"OK", "ERROR", "UNSUPPORTED"}, NEW extracted \in BOOLEAN,
               ~extracted => status = "ERROR",
               Put(o, [n EXCEPT !.extracted = extracted, !.status = status]),
               live' = live + 1 + Bit(extracted),
               Goto(IF status = "OK" THEN "prepare" ELSE "clean")
        PROVE  \E m \in Owner, pc \in {"release", "clean", "prepare"} :
                  /\ Put(o, m) /\ Goto(pc)
                  /\ m.shell /\ ~m.value /\ ~m.result /\ m.chunk = None /\ ~m.vectors
                  /\ m.prepared = NoType
                  /\ m.input /\ (pc = "prepare" => m.extracted) /\ (pc = "clean" => m.status # "OK")
                  /\ live' = live + 1 + Bit(m.extracted)
    <3>. DEFINE m == [n EXCEPT !.extracted = extracted, !.status = status]
                pc == IF status = "OK" THEN "prepare" ELSE "clean"
    <3>1. status \in Statuses
      BY DEF Statuses
    <3>2. /\ m \in Owner /\ m.shell /\ ~m.value /\ ~m.result /\ m.chunk = None /\ ~m.vectors
          /\ m.prepared = NoType /\ m.input /\ m.extracted = extracted /\ m.status = status
      BY <2>2, <3>1
    <3>3. Put(o, m) /\ Goto(pc) /\ live' = live + 1 + Bit(m.extracted)
      BY <2>7, <3>2
    <3>4. pc \in {"release", "clean", "prepare"} /\ (pc = "prepare" => extracted)
          /\ (pc = "clean" => status # "OK")
      BY <2>7
    <3>. HIDE DEF m, pc
    <3>. QED
      BY <3>2, <3>3, <3>4
  <2>. QED
    BY <2>5, <2>6, <2>7 DEF Extract, n, o
<1>4. PICK m \in Owner, pc \in {"release", "clean", "prepare"} :
        /\ Put(o, m) /\ Goto(pc)
        /\ m.shell /\ ~m.value /\ ~m.result /\ m.chunk = None /\ ~m.vectors /\ m.prepared = NoType
        /\ m.input /\ (pc = "prepare" => m.extracted) /\ (pc = "clean" => m.status # "OK")
        /\ live' = live + 1 + Bit(m.extracted)
  BY <1>3
<1>. HIDE DEF n
<1>5. live' = live + (Pieces(m) - Pieces(nat[o]))
  <2>1. Pieces(nat[o]) = 1
    BY <1>2 DEF Preparing, Pieces, Bit
  <2>2. Pieces(m) = 2 + Bit(m.extracted) /\ Bit(m.extracted) \in 0..1
    BY <1>4 DEF Pieces, Bit
  <2>. QED
    BY <1>2, <1>4, <2>1, <2>2
<1>6. /\ nat' \in [{"statement", "fresh"} -> Owner] /\ nat'[o] = m
      /\ \A q \in {"statement", "fresh"} : q # o => nat'[q] = nat[q]
      /\ live' \in Nat /\ Counted'
  BY <1>2, <1>4, <1>5, PutIs
<1>7. /\ th' \in Threads /\ th'.pc = pc /\ th'.owner = o /\ th'.phase = th.phase
      /\ th'.before = th.before /\ th'.stale = th.stale /\ pc \in PreparingPcs
  BY <1>2, <1>4, GotoIs DEF Pcs, PreparingPcs
<1>8. TypeOK'
  BY <1>1, <1>2, <1>6, <1>7, ValuesAre DEF TypeOK, Threads
<1>9. Owners' /\ Viewed(nat["statement"])'
  <2>1. Preparing(m, pc)
    BY <1>4 DEF Preparing
  <2>. QED
    BY <1>1, <1>6, <1>7, <2>1, PreparingOwners
<1>10. Roomy' /\ OtherScope' /\ Dated' /\ Contained'
  BY <1>1, <1>7, PreparingRest
<1>11. InScope'
  BY <1>1, <1>4, <1>7 DEF IInv, InScope, InTransaction
<1>12. Sound'
  BY <1>1, <1>4, <1>7 DEF IInv, Sound, Changing
<1>13. Resolved'
  BY <1>4, <1>6, <1>7 DEF Resolved
<1>. QED
  BY <1>6, <1>8, <1>9, <1>10, <1>11, <1>12, <1>13 DEF IInv

\* Preparing the extracted statement fixes the types of its parameters.
LEMMA PrepareExtractedKeeps ==
    ASSUME IInv, PrepareExtracted
    PROVE  IInv'
<1>. DEFINE o == th.owner
            Prepared(m) ==
                m.prepared # NoType =>
                    /\ m.prepared = (IF p.kind = "constant" THEN NoParameters ELSE Visible)
                    /\ tx' = TakeSnapshot
<1>1. /\ th.pc = "prepare" /\ th.pc \in PreparingPcs /\ Goto("clean")
      /\ UNCHANGED <<schema, ddl, epoch, cancelled, p>> /\ (tx' = tx \/ tx' = TakeSnapshot)
  BY DEF PrepareExtracted, PreparingPcs, Engine
<1>2. /\ TypeOK /\ Counted /\ th \in Threads /\ live \in Nat /\ nat[o] \in Owner
      /\ o \in {"statement", "fresh"} /\ Preparing(nat[o], "prepare")
  BY <1>1, PreparingIs
<1>3. \E m \in Owner :
        /\ Put(o, m) /\ live' = live + (Pieces(m) - Pieces(nat[o]))
        /\ m.shell /\ ~m.value /\ ~m.result /\ m.chunk = None /\ ~m.vectors
        /\ (m.status = "OK" => m.prepared # NoType) /\ Prepared(m)
  <2>. DEFINE n == nat[o]
  <2>1. /\ n \in Owner /\ n.shell /\ ~n.value /\ ~n.result /\ n.chunk = None /\ ~n.vectors
        /\ n.prepared = NoType
    BY <1>2 DEF Preparing
  <2>2. Visible \in ParameterTypes /\ NoParameters \in ParameterTypes
        /\ Visible # NoType /\ NoParameters # NoType
    BY <1>2, SnapshotIs, ValuesAssumption DEF ParameterTypes, NoParameters
  <2>. HIDE DEF n, o, Prepared
  <2>3. ASSUME NEW status \in {"CANCELLED", "ERROR"}, Put(o, [n EXCEPT !.status = status]),
               live' = live
        PROVE  \E m \in Owner :
                  /\ Put(o, m) /\ live' = live + (Pieces(m) - Pieces(n))
                  /\ m.shell /\ ~m.value /\ ~m.result /\ m.chunk = None /\ ~m.vectors
                  /\ (m.status = "OK" => m.prepared # NoType) /\ Prepared(m)
    <3>. DEFINE m == [n EXCEPT !.status = status]
    <3>1. /\ m \in Owner /\ m.shell /\ ~m.value /\ ~m.result /\ m.chunk = None /\ ~m.vectors
          /\ m.prepared = NoType /\ m.status # "OK"
      BY <2>1 DEF Owner, Statuses
    <3>2. Pieces(m) = Pieces(n)
      BY <2>1 DEF Pieces, Owner
    <3>3. Put(o, m)
      BY <2>3
    <3>. HIDE DEF m
    <3>4. live' = live + (Pieces(m) - Pieces(n))
      BY <1>2, <2>1, <2>3, <3>2, PiecesAre
    <3>. QED
      BY <3>1, <3>3, <3>4 DEF Prepared
  <2>4. ASSUME NEW status \in {"OK", "ERROR", "UNSUPPORTED"},
               Put(o, [n EXCEPT !.status = status,
                        !.prepared = IF p.kind = "constant" THEN NoParameters ELSE Visible]),
               live' = live + 1, tx' = TakeSnapshot
        PROVE  \E m \in Owner :
                  /\ Put(o, m) /\ live' = live + (Pieces(m) - Pieces(n))
                  /\ m.shell /\ ~m.value /\ ~m.result /\ m.chunk = None /\ ~m.vectors
                  /\ (m.status = "OK" => m.prepared # NoType) /\ Prepared(m)
    <3>. DEFINE type == IF p.kind = "constant" THEN NoParameters ELSE Visible
                m == [n EXCEPT !.status = status, !.prepared = type]
    <3>1. type \in ParameterTypes /\ type # NoType
      BY <2>2
    <3>. HIDE DEF type
    <3>2. /\ m \in Owner /\ m.shell /\ ~m.value /\ ~m.result /\ m.chunk = None /\ ~m.vectors
          /\ m.prepared = type
      BY <2>1, <3>1 DEF Owner, Statuses
    <3>3. Pieces(m) = Pieces(n) + 1
      BY <2>1, <3>1 DEF Pieces, Owner, Bit
    <3>4. Put(o, m)
      BY <2>4 DEF type
    <3>. HIDE DEF m
    <3>5. live' = live + (Pieces(m) - Pieces(n))
      BY <1>2, <2>1, <2>4, <3>3, PiecesAre
    <3>6. Prepared(m)
      BY <2>4, <3>2 DEF Prepared, type
    <3>. QED
      BY <3>1, <3>2, <3>4, <3>5, <3>6
  <2>. QED
    BY <2>3, <2>4 DEF PrepareExtracted, n, o
<1>. HIDE DEF Prepared
<1>4. PICK m \in Owner :
        /\ Put(o, m) /\ live' = live + (Pieces(m) - Pieces(nat[o]))
        /\ m.shell /\ ~m.value /\ ~m.result /\ m.chunk = None /\ ~m.vectors
        /\ (m.status = "OK" => m.prepared # NoType) /\ Prepared(m)
  BY <1>3
<1>5. /\ nat' \in [{"statement", "fresh"} -> Owner] /\ nat'[o] = m
      /\ \A q \in {"statement", "fresh"} : q # o => nat'[q] = nat[q]
      /\ live' \in Nat /\ Counted'
  BY <1>2, <1>4, PutIs
<1>6. /\ th' \in Threads /\ th'.pc = "clean" /\ th'.owner = o /\ th'.phase = th.phase
      /\ th'.before = th.before /\ th'.stale = th.stale /\ "clean" \in PreparingPcs
  BY <1>1, <1>2, GotoIs DEF Pcs, PreparingPcs
<1>7. /\ tx' \in Transactions /\ tx'.explicit = tx.explicit /\ tx'.begun = tx.begun
      /\ tx'.altered = tx.altered /\ tx'.dirty = tx.dirty /\ tx'.failure = tx.failure
      /\ tx'.raised = tx.raised /\ tx'.stale = tx.stale /\ tx'.spoilt = tx.spoilt
      /\ (InTransaction' <=> InTransaction)
      /\ ~InTransaction => tx'.snapshot = tx.snapshot
      /\ tx'.snapshot = tx.snapshot \/ tx'.snapshot = Visible
      /\ tx.snapshot # None => tx'.snapshot = tx.snapshot
  BY <1>1, <1>2, TakeSnapshotIs, SnapshotIs, ValuesAre DEF InTransaction
<1>8. TypeOK'
  BY <1>1, <1>2, <1>5, <1>6, <1>7, ValuesAre DEF TypeOK, Threads, Transactions
<1>9. Owners' /\ Viewed(nat["statement"])'
  <2>1. Preparing(m, "clean")
    BY <1>4 DEF Preparing
  <2>. QED
    BY <1>1, <1>5, <1>6, <2>1, PreparingOwners
<1>10. Roomy' /\ OtherScope' /\ Dated' /\ Contained'
  BY <1>1, <1>6, <1>7, PreparingRest
<1>11. InScope'
  BY <1>1, <1>6, <1>7 DEF IInv, InScope
<1>12. Sound'
  <2>1. th'.pc \notin {"run", "running", "leaving", "ran"}
    BY <1>6
  <2>2. Sound /\ (tx.snapshot # None => Visible = tx.snapshot)
        /\ (tx.snapshot = None => Visible = schema.committed)
    BY <1>2, SnapshotIs DEF IInv
  <2>. QED
    BY <1>1, <1>7, <2>1, <2>2 DEF Sound, Changing
<1>13. Resolved'
  <2>1. ASSUME m.prepared # NoType
        PROVE  /\ m.prepared = NoParameters <=> p.kind = "constant"
               /\ p.kind # "constant" => m.prepared = Visible
               /\ InTransaction => tx'.snapshot = Visible
    BY <1>2, <1>4, <2>1, SnapshotIs, TakeSnapshotIs DEF Prepared
  <2>2. ~tx.explicit /\ th.phase # "recheck" => Visible = schema.committed
    BY <1>1, <1>2, SnapshotIs DEF IInv, InScope
  <2>. QED
    BY <1>1, <1>5, <1>6, <1>7, <2>1, <2>2 DEF Resolved, Changing
<1>. QED
  BY <1>5, <1>8, <1>9, <1>10, <1>11, <1>12, <1>13 DEF IInv

\* The text and its extracted statements are let go of.
LEMMA CleanPrepareKeeps ==
    ASSUME IInv, CleanPrepare
    PROVE  IInv'
<1>. DEFINE o == th.owner
            m == Cleaned(nat[o])
<1>1. /\ th.pc = "clean" /\ th.pc \in PreparingPcs /\ Released(o, m)
      /\ UNCHANGED <<schema, ddl, epoch, cancelled, tx, p>>
  BY DEF CleanPrepare, PreparingPcs, Engine
<1>2. PICK pc \in {"prepared", "release"} : Goto(pc)
  BY DEF CleanPrepare
<1>3. /\ TypeOK /\ Counted /\ th \in Threads /\ live \in Nat /\ nat[o] \in Owner
      /\ o \in {"statement", "fresh"} /\ Preparing(nat[o], "clean")
  BY <1>1, PreparingIs
<1>4. /\ m \in Owner /\ m.shell /\ ~m.value /\ ~m.result /\ m.chunk = None /\ ~m.vectors
      /\ ~m.input /\ ~m.extracted /\ m.prepared = nat[o].prepared
      /\ m.status = "OK" => m.prepared # NoType
  <2>. DEFINE n == nat[o]
  <2>1. /\ n \in Owner /\ n.shell /\ ~n.value /\ ~n.result /\ n.chunk = None /\ ~n.vectors
        /\ n.status = "OK" => n.prepared # NoType
    BY <1>3 DEF Preparing
  <2>. HIDE DEF n, o
  <2>2. LET c == [n EXCEPT !.input = FALSE, !.extracted = FALSE] IN
        /\ c \in Owner /\ c.shell /\ ~c.value /\ ~c.result /\ c.chunk = None /\ ~c.vectors
        /\ ~c.input /\ ~c.extracted /\ c.prepared = n.prepared /\ c.status = n.status
    BY <2>1 DEF Owner
  <2>. QED
    BY <2>1, <2>2 DEF Cleaned, n
<1>. HIDE DEF m
<1>5. /\ nat' \in [{"statement", "fresh"} -> Owner] /\ nat'[o] = m
      /\ \A q \in {"statement", "fresh"} : q # o => nat'[q] = nat[q]
      /\ live' \in Nat /\ Counted'
  BY <1>1, <1>3, <1>4, ReleasedIs
<1>6. /\ th' \in Threads /\ th'.pc = pc /\ th'.owner = o /\ th'.phase = th.phase
      /\ th'.before = th.before /\ th'.stale = th.stale /\ pc \in PreparingPcs
  BY <1>2, <1>3, GotoIs DEF Pcs, PreparingPcs
<1>7. TypeOK'
  BY <1>1, <1>3, <1>5, <1>6, ValuesAre DEF TypeOK, Threads
<1>8. Owners' /\ Viewed(nat["statement"])'
  <2>1. Preparing(m, pc)
    BY <1>4 DEF Preparing
  <2>. QED
    BY <1>1, <1>4, <1>5, <1>6, <2>1, PreparingOwners
<1>9. Roomy' /\ OtherScope' /\ Dated' /\ Contained'
  BY <1>1, <1>6, PreparingRest
<1>10. InScope'
  BY <1>1, <1>2, <1>6 DEF IInv, InScope, InTransaction
<1>11. Sound'
  BY <1>1, <1>2, <1>6 DEF IInv, Sound, Changing
<1>12. Resolved'
  BY <1>1, <1>2, <1>4, <1>5, <1>6 DEF IInv, Resolved, Changing, InTransaction
<1>. QED
  BY <1>5, <1>7, <1>8, <1>9, <1>10, <1>11, <1>12 DEF IInv

\* The statement opens with the types it resolved to, and the epoch if that still says so.
LEMMA RegisterKeeps ==
    ASSUME IInv, Register
    PROVE  IInv'
<1>1. /\ th.pc = "prepared" /\ th.pc \in PreparingPcs /\ th.owner = "statement"
      /\ nat["statement"].status = "OK" /\ th' = Resting
      /\ UNCHANGED <<schema, ddl, epoch, cancelled, tx, nat, live>>
  BY DEF Register, PreparingPcs, Engine, Settled
<1>2. /\ TypeOK /\ Counted /\ p \in Statements /\ nat["statement"] \in Owner
      /\ Preparing(nat["statement"], "prepared") /\ p.state = "opening" /\ th.phase = "none"
      /\ nat["fresh"] = NoOwner /\ ~tx.begun /\ ~p.result
      /\ epoch \in Nat /\ epoch # None /\ epoch \in 0..MaxEpoch
  BY <1>1, PreparingIs, EpochsAre, ValuesAre DEF IInv, Owners, Shaped
<1>. DEFINE type == nat["statement"].prepared
            valid == Stable(~tx.explicit)
<1>3. type # NoType /\ type \in ParameterTypes
  BY <1>1, <1>2 DEF Preparing, Owner
<1>4. /\ valid \in 0..MaxEpoch \cup {None} /\ (valid # None => valid <= epoch)
      /\ valid = epoch => ~tx.explicit /\ th.before = epoch
  BY <1>2 DEF Stable
<1>. HIDE DEF valid
<1>5. /\ p' \in Statements /\ p'.state = "open" /\ p'.kind = p.kind /\ p'.types = type
      /\ p'.result = p.result /\ p'.validated = valid
  <2>1. p' = [p EXCEPT !.state = "open", !.types = type, !.bound = p.kind = "constant",
                       !.validated = valid]
    BY DEF Register, valid
  <2>. QED
    BY <1>2, <1>3, <1>4, <2>1 DEF Statements
<1>6. TypeOK'
  BY <1>1, <1>2, <1>5, RestingIs, ValuesAre DEF TypeOK, Statements, Threads
<1>7. Roomy'
  <2>1. Owed' = Owed
    BY <1>1, <1>5, RestingIs DEF Owed, Bit
  <2>. QED
    BY <1>1, <2>1 DEF IInv, Roomy
<1>8. Owners'
  BY <1>1, <1>2, <1>3, <1>5, RestingIs DEF Owners, Shaped, Preparing, Holding, PreparingPcs
<1>9. Counted' /\ Viewed(nat["statement"])'
  BY <1>1, <1>2 DEF Counted, Viewed, IInv
<1>10. InScope' /\ OtherScope' /\ Dated'
  BY <1>1, <1>2, <1>4, <1>5, RestingIs DEF IInv, InScope, OtherScope, Dated, InTransaction
<1>11. Sound'
  <2>1. /\ type = NoParameters <=> p.kind = "constant"
        /\ p.kind # "constant" /\ ~tx.explicit /\ th.before = epoch /\ ~Changing
              => type = schema.committed
    BY <1>1, <1>2, <1>3 DEF IInv, Resolved
  <2>2. ~tx.explicit => tx.snapshot = None
    BY <1>2 DEF IInv, InScope, InTransaction
  <2>. QED
    BY <1>1, <1>3, <1>4, <1>5, <2>1, <2>2, RestingIs DEF Sound, Changing
<1>12. Resolved' /\ Contained'
  BY <1>1, RestingIs DEF IInv, Resolved, Contained
<1>. QED
  BY <1>6, <1>7, <1>8, <1>9, <1>10, <1>11, <1>12 DEF IInv

\* A statement that is let go of leaves nothing.
LEMMA Dropped ==
    ASSUME TypeOK, Counted, nat["fresh"] = NoOwner, Released("statement", NoOwner),
           p' = NoStatement, th' = Resting
    PROVE  /\ nat' \in [{"statement", "fresh"} -> Owner] /\ live' \in Nat /\ Counted'
           /\ p' \in Statements /\ th' \in Threads
           /\ Owners' /\ Viewed(nat["statement"])' /\ Dated' /\ Sound' /\ Resolved'
<1>1. /\ nat' \in [{"statement", "fresh"} -> Owner] /\ nat'["statement"] = NoOwner
      /\ nat'["fresh"] = NoOwner /\ live' \in Nat /\ Counted'
  BY NoOwnerIs, ReleasedIs
<1>2. Owners'
  BY <1>1, RestingIs, NoStatementIs DEF Owners, Shaped, PreparingPcs
<1>3. Viewed(nat["statement"])'
  BY <1>1, NothingViewed
<1>4. Dated' /\ Sound' /\ Resolved'
  BY RestingIs, NoStatementIs DEF Dated, Sound, Resolved
<1>. QED
  BY <1>1, <1>2, <1>3, <1>4, RestingIs, NoStatementIs

\* An owner that could not be prepared is released.
LEMMA ReleasePreparedKeeps ==
    ASSUME IInv, ReleasePrepared
    PROVE  IInv'
<1>1. /\ th.pc \in {"release", "prepared"} /\ th.pc \in PreparingPcs /\ th.owner = "statement"
      /\ Released("statement", NoOwner) /\ th' = Resting /\ p' = NoStatement
      /\ UNCHANGED <<schema, ddl, epoch, cancelled, tx>>
  BY DEF ReleasePrepared, PreparingPcs, Engine
<1>2. TypeOK /\ Counted /\ nat["fresh"] = NoOwner /\ ~tx.begun
  BY <1>1, PreparingIs
<1>3. /\ nat' \in [{"statement", "fresh"} -> Owner] /\ live' \in Nat /\ Counted'
      /\ p' \in Statements /\ th' \in Threads
      /\ Owners' /\ Viewed(nat["statement"])' /\ Dated' /\ Sound' /\ Resolved'
  BY <1>1, <1>2, Dropped
<1>4. TypeOK'
  BY <1>1, <1>2, <1>3, ValuesAre DEF TypeOK, Statements, Threads
<1>5. Roomy'
  <2>1. Owed' = Owed
    BY <1>1, RestingIs DEF Owed, Bit
  <2>. QED
    BY <1>1, <2>1 DEF IInv, Roomy
<1>6. InScope' /\ OtherScope' /\ Contained'
  BY <1>1, <1>2, RestingIs DEF IInv, InScope, OtherScope, Contained, InTransaction
<1>. QED
  BY <1>3, <1>4, <1>5, <1>6 DEF IInv

-----------------------------------------------------------------------------
(* The calls of an open statement that do not execute it.                   *)

CallPcs == {"idle", "bind", "bind_value", "bound", "fold", "drain"}

\* Outside of a preparation the thread uses the statement itself.
LEMMA UsingIs ==
    ASSUME IInv, th.pc \notin PreparingPcs, th.pc # "idle" \/ p.state = "open"
    PROVE  /\ TypeOK /\ Counted /\ p.state = "open" /\ th.owner = "statement" /\ th.phase = "none"
           /\ nat["fresh"] = NoOwner /\ nat["statement"] \in Owner /\ live \in Nat
           /\ nat \in [{"statement", "fresh"} -> Owner] /\ p \in Statements /\ th \in Threads
           /\ tx \in Transactions /\ Holding(nat["statement"], p.result)
           /\ Viewed(nat["statement"])
<1>1. /\ TypeOK /\ Counted /\ Shaped /\ (p.state = "open" => Holding(nat["statement"], p.result))
      /\ Viewed(nat["statement"])
  BY DEF IInv, Owners
<1>2. /\ nat \in [{"statement", "fresh"} -> Owner] /\ p \in Statements /\ th \in Threads
      /\ tx \in Transactions /\ live \in Nat
  BY <1>1, ValuesAre
<1>3. p.state \in {"none", "opening", "open"} /\ th.owner \in {"statement", "fresh"}
  BY <1>2 DEF Statements, Threads
<1>4. th.owner = "statement" /\ p.state = "open"
  BY <1>1, <1>3 DEF Shaped
<1>. QED
  BY <1>1, <1>2, <1>4 DEF Shaped

\* After a step of such a call.
LEMMA UsingOwners ==
    ASSUME th'.pc \notin PreparingPcs, th'.owner = "statement", th'.phase = "none",
           nat'["fresh"] = NoOwner, p'.state = "open", Holding(nat["statement"], p.result)',
           th'.pc = "leaving" => p'.kind = "ddl"
    PROVE  Owners'
BY DEF Owners, Shaped

\* A change of an owner that is not counted.
LEMMA MarkedIs ==
    ASSUME TypeOK, Counted, NEW o \in {"statement", "fresh"}, NEW n \in Owner, Put(o, n),
           live' = live, Pieces(n) = Pieces(nat[o])
    PROVE  /\ nat' \in [{"statement", "fresh"} -> Owner] /\ nat'[o] = n
           /\ \A q \in {"statement", "fresh"} : q # o => nat'[q] = nat[q]
           /\ live' \in Nat /\ Counted'
<1>1. Pieces(n) \in Nat /\ live \in Nat
  BY PiecesAre DEF TypeOK
<1>2. live' = live + (Pieces(n) - Pieces(nat[o]))
  BY <1>1
<1>. QED
  BY <1>2, PutIs

\* What a call that executes nothing leaves of the transaction and the schema.
LEMMA CallRest ==
    ASSUME IInv, th.pc \in CallPcs, th'.pc \in CallPcs, th.owner = "statement",
           th'.owner = "statement", ~th'.stale, th'.before \in {th.before, None},
           UNCHANGED <<schema, ddl, epoch, cancelled>>,
           p'.state = p.state, p'.kind = p.kind, p'.types = p.types, p'.validated = p.validated,
           tx'.explicit = tx.explicit, tx'.begun = tx.begun, tx'.snapshot = tx.snapshot,
           tx'.altered = tx.altered, tx'.dirty = tx.dirty, tx'.failure = tx.failure,
           tx.raised => tx'.raised, tx'.stale = tx.stale, tx'.spoilt = tx.spoilt
    PROVE  Roomy' /\ InScope' /\ OtherScope' /\ Dated' /\ Sound' /\ Resolved' /\ Contained'
<1>1. Roomy'
  <2>1. Owed' = Owed
    BY DEF Owed, Bit, CallPcs
  <2>. QED
    BY <2>1 DEF IInv, Roomy
<1>2. InScope'
  BY DEF IInv, InScope, InTransaction, CallPcs
<1>3. OtherScope' /\ Dated'
  BY DEF IInv, OtherScope, Dated
<1>4. Sound'
  BY DEF IInv, Sound, Changing, CallPcs
<1>5. Resolved'
  BY DEF Resolved, CallPcs
<1>6. Contained'
  BY DEF IInv, Contained, CallPcs
<1>. QED
  BY <1>1, <1>2, <1>3, <1>4, <1>5, <1>6

\* A binding begins: the text is copied.
LEMMA BindKeeps ==
    ASSUME IInv, NEW bytes \in BOOLEAN, Bind(bytes)
    PROVE  IInv'
<1>. DEFINE m == [nat["statement"] EXCEPT !.input = bytes]
<1>1. /\ th.pc = "idle" /\ th.pc \notin PreparingPcs /\ p.state = "open" /\ ~p.result
      /\ p' = [p EXCEPT !.bound = FALSE] /\ Put("statement", m) /\ live' = live + Bit(bytes)
      /\ UNCHANGED <<schema, ddl, epoch, cancelled, tx>>
  BY DEF Bind, Usable, PreparingPcs, Engine
<1>2. /\ TypeOK /\ Counted /\ th.owner = "statement" /\ th.phase = "none" /\ ~th.stale
      /\ nat["fresh"] = NoOwner /\ nat["statement"] \in Owner /\ live \in Nat
      /\ p \in Statements /\ th \in Threads /\ Holding(nat["statement"], p.result)
      /\ Viewed(nat["statement"])
  BY <1>1, UsingIs DEF IInv, Contained
<1>3. /\ m \in Owner /\ m.shell /\ ~m.extracted /\ ~m.value /\ ~m.result /\ m.chunk = None
      /\ ~m.vectors /\ m.prepared # NoType /\ Pieces(m) = Pieces(nat["statement"]) + Bit(bytes)
  <2>. DEFINE n == nat["statement"]
  <2>1. /\ n \in Owner /\ n.shell /\ ~n.extracted /\ ~n.value /\ ~n.result /\ n.chunk = None
        /\ ~n.vectors /\ n.prepared # NoType /\ ~n.input
    BY <1>1, <1>2 DEF Holding
  <2>. HIDE DEF n
  <2>2. LET c == [n EXCEPT !.input = bytes] IN
        /\ c \in Owner /\ c.shell /\ ~c.extracted /\ ~c.value /\ ~c.result /\ c.chunk = None
        /\ ~c.vectors /\ c.prepared # NoType /\ Pieces(c) = Pieces(n) + Bit(bytes)
    BY <2>1 DEF Owner, Pieces, Bit
  <2>. QED
    BY <2>2 DEF n
<1>. HIDE DEF m
<1>4. /\ nat' \in [{"statement", "fresh"} -> Owner] /\ nat'["statement"] = m
      /\ nat'["fresh"] = NoOwner /\ live' \in Nat /\ Counted'
  <2>1. Pieces(nat["statement"]) \in Nat /\ Bit(bytes) \in Nat
    BY <1>2, PiecesAre DEF Bit
  <2>2. live' = live + (Pieces(m) - Pieces(nat["statement"]))
    BY <1>1, <1>2, <1>3, <2>1
  <2>. QED
    BY <1>1, <1>2, <1>3, <2>2, PutIs
<1>5. /\ p' \in Statements /\ p'.state = "open" /\ p'.kind = p.kind /\ p'.types = p.types
      /\ p'.result = p.result /\ p'.validated = p.validated
  BY <1>1, <1>2 DEF Statements
<1>6. /\ th' \in Threads /\ th'.pc \in {"bind", "bound"} /\ th'.owner = "statement"
      /\ th'.phase = "none" /\ th'.before = th.before /\ th'.stale = th.stale
  <2>1. \/ th' = [th EXCEPT !.pc = "bind", !.status = "none"]
        \/ th' = [th EXCEPT !.pc = "bound", !.status = "raised"]
    BY DEF Bind
  <2>. QED
    BY <1>2, <2>1 DEF Threads, Pcs
<1>7. TypeOK'
  BY <1>1, <1>2, <1>4, <1>5, <1>6, ValuesAre DEF TypeOK, Statements, Threads
<1>8. Owners'
  <2>1. Holding(nat["statement"], p.result)'
    BY <1>1, <1>3, <1>4, <1>5, <1>6 DEF Holding
  <2>. QED
    BY <1>4, <1>5, <1>6, <2>1, UsingOwners DEF PreparingPcs
<1>9. Viewed(nat["statement"])'
  BY <1>3, <1>4 DEF Viewed
<1>10. Roomy' /\ InScope' /\ OtherScope' /\ Dated' /\ Sound' /\ Resolved' /\ Contained'
  <2>1. th.pc \in CallPcs /\ th'.pc \in CallPcs
    BY <1>1, <1>6 DEF CallPcs
  <2>. QED
    BY <1>1, <1>2, <1>5, <1>6, <2>1, CallRest
<1>. QED
  BY <1>4, <1>7, <1>8, <1>9, <1>10 DEF IInv

\* A step within a binding: only the native owner and the program counter change.
LEMMA BindingSteps ==
    ASSUME IInv, th.pc \in {"bind", "bind_value"}, th'.pc \in {"bound", "bind_value"},
           UNCHANGED <<schema, ddl, epoch, cancelled, tx, p>>,
           th' \in Threads, th'.owner = "statement", th'.phase = "none",
           th'.before = th.before, th'.stale = th.stale,
           NEW m \in Owner, m.shell, ~m.extracted, ~m.result, m.chunk = None, ~m.vectors,
           m.prepared # NoType, ~m.input, m.value => th'.pc = "bind_value",
           nat' \in [{"statement", "fresh"} -> Owner], nat'["statement"] = m,
           nat'["fresh"] = NoOwner, live' \in Nat, Counted'
    PROVE  IInv'
<1>1. /\ TypeOK /\ th.owner = "statement" /\ p.state = "open" /\ Holding(nat["statement"], p.result)
      /\ th.pc \in CallPcs /\ th'.pc \in CallPcs /\ th'.pc \notin PreparingPcs
      /\ th.pc \notin PreparingPcs /\ th.pc # "idle"
  <2>1. /\ th.pc \in CallPcs /\ th'.pc \in CallPcs /\ th'.pc \notin PreparingPcs
        /\ th.pc \notin PreparingPcs /\ th.pc # "idle"
    BY DEF CallPcs, PreparingPcs
  <2>. QED
    BY <2>1, UsingIs
<1>2. ~th.stale /\ ~p.result
  BY <1>1 DEF IInv, Contained, Holding
<1>3. TypeOK'
  BY <1>1, ValuesAre DEF TypeOK, Threads
<1>4. Holding(nat["statement"], p.result)'
  BY <1>2 DEF Holding
<1>5. Owners'
  BY <1>1, <1>4, UsingOwners
<1>6. Viewed(nat["statement"])'
  BY DEF Viewed
<1>7. Roomy' /\ InScope' /\ OtherScope' /\ Dated' /\ Sound' /\ Resolved' /\ Contained'
  BY <1>1, <1>2, CallRest
<1>. QED
  BY <1>3, <1>5, <1>6, <1>7 DEF IInv

\* The engine binds, or a value for it is made.
LEMMA BindCallKeeps ==
    ASSUME IInv, BindCall
    PROVE  IInv'
<1>. DEFINE n == [nat["statement"] EXCEPT !.input = FALSE]
<1>1. /\ th.pc = "bind" /\ th.pc \notin PreparingPcs /\ th.pc # "idle"
      /\ UNCHANGED <<schema, ddl, epoch, cancelled, tx, p>>
  BY DEF BindCall, PreparingPcs, Engine
<1>2. /\ TypeOK /\ Counted /\ th.owner = "statement" /\ th.phase = "none"
      /\ nat["fresh"] = NoOwner /\ nat["statement"] \in Owner /\ live \in Nat
      /\ th \in Threads /\ Holding(nat["statement"], p.result)
  BY <1>1, UsingIs
<1>3. /\ n \in Owner /\ n.shell /\ ~n.extracted /\ ~n.value /\ ~n.result /\ n.chunk = None
      /\ ~n.vectors /\ n.prepared # NoType /\ ~n.input
      /\ ~nat["statement"].input => Pieces(n) = Pieces(nat["statement"])
  BY <1>1, <1>2 DEF Holding, Owner, Pieces, Bit
<1>. HIDE DEF n
<1>4. ASSUME NEW status \in Statuses, Released("statement", [n EXCEPT !.status = status]),
             NEW end \in {"none", "raised"}, th' = [th EXCEPT !.pc = "bound", !.status = end]
      PROVE  IInv'
  <2>. DEFINE m == [n EXCEPT !.status = status]
  <2>1. /\ m \in Owner /\ m.shell /\ ~m.extracted /\ ~m.value /\ ~m.result /\ m.chunk = None
        /\ ~m.vectors /\ m.prepared # NoType /\ ~m.input
    BY <1>3 DEF Owner
  <2>2. Released("statement", m)
    BY <1>4
  <2>. HIDE DEF m
  <2>3. /\ nat' \in [{"statement", "fresh"} -> Owner] /\ nat'["statement"] = m
        /\ nat'["fresh"] = NoOwner /\ live' \in Nat /\ Counted'
    BY <1>2, <2>1, <2>2, ReleasedIs
  <2>4. /\ th' \in Threads /\ th'.pc = "bound" /\ th'.owner = "statement" /\ th'.phase = "none"
        /\ th'.before = th.before /\ th'.stale = th.stale
    BY <1>2, <1>4 DEF Threads, Pcs
  <2>. QED
    BY <1>1, <2>1, <2>3, <2>4, BindingSteps
<1>5. ASSUME ~nat["statement"].input, Put("statement", [n EXCEPT !.value = TRUE, !.status = "OK"]),
             Goto("bind_value"), live' = live
      PROVE  IInv'
  <2>. DEFINE m == [n EXCEPT !.value = TRUE, !.status = "OK"]
  <2>1. /\ m \in Owner /\ m.shell /\ ~m.extracted /\ ~m.result /\ m.chunk = None
        /\ ~m.vectors /\ m.prepared # NoType /\ ~m.input /\ Pieces(m) = Pieces(n)
    BY <1>3 DEF Owner, Statuses, Pieces, Bit
  <2>2. Put("statement", m)
    BY <1>5
  <2>. HIDE DEF m
  <2>3. /\ nat' \in [{"statement", "fresh"} -> Owner] /\ nat'["statement"] = m
        /\ nat'["fresh"] = NoOwner /\ live' \in Nat /\ Counted'
    BY <1>2, <1>3, <1>5, <2>1, <2>2, MarkedIs
  <2>4. /\ th' \in Threads /\ th'.pc = "bind_value" /\ th'.owner = "statement"
        /\ th'.phase = "none" /\ th'.before = th.before /\ th'.stale = th.stale
    BY <1>2, <1>5, GotoIs DEF Pcs
  <2>. QED
    BY <1>1, <2>1, <2>3, <2>4, BindingSteps
<1>. QED
  BY <1>4, <1>5 DEF BindCall, n, Statuses

\* The value is bound and let go of.
LEMMA BindValueKeeps ==
    ASSUME IInv, BindValue
    PROVE  IInv'
<1>1. /\ th.pc = "bind_value" /\ th.pc \notin PreparingPcs /\ th.pc # "idle"
      /\ UNCHANGED <<schema, ddl, epoch, cancelled, tx, p, live>>
  BY DEF BindValue, PreparingPcs, Engine
<1>2. PICK status \in Statuses :
        Put("statement", [nat["statement"] EXCEPT !.value = FALSE, !.status = status])
  BY DEF BindValue, Statuses
<1>3. PICK end \in {"none", "raised"} : th' = [th EXCEPT !.pc = "bound", !.status = end]
  BY DEF BindValue
<1>4. /\ TypeOK /\ Counted /\ th.owner = "statement" /\ th.phase = "none"
      /\ nat["fresh"] = NoOwner /\ nat["statement"] \in Owner /\ live \in Nat
      /\ th \in Threads /\ Holding(nat["statement"], p.result)
  BY <1>1, UsingIs
<1>. DEFINE m == [nat["statement"] EXCEPT !.value = FALSE, !.status = status]
<1>5. /\ m \in Owner /\ m.shell /\ ~m.extracted /\ ~m.value /\ ~m.result /\ m.chunk = None
      /\ ~m.vectors /\ m.prepared # NoType /\ ~m.input /\ Pieces(m) = Pieces(nat["statement"])
  BY <1>1, <1>4 DEF Holding, Owner, Pieces, Bit
<1>6. Put("statement", m)
  BY <1>2
<1>. HIDE DEF m
<1>7. /\ nat' \in [{"statement", "fresh"} -> Owner] /\ nat'["statement"] = m
      /\ nat'["fresh"] = NoOwner /\ live' \in Nat /\ Counted'
  BY <1>1, <1>4, <1>5, <1>6, MarkedIs
<1>8. /\ th' \in Threads /\ th'.pc = "bound" /\ th'.owner = "statement" /\ th'.phase = "none"
      /\ th'.before = th.before /\ th'.stale = th.stale
  BY <1>3, <1>4 DEF Threads, Pcs
<1>. QED
  BY <1>1, <1>5, <1>7, <1>8, BindingSteps

\* The end of a binding: the copy of the text is gone whatever happened.
LEMMA BoundKeeps ==
    ASSUME IInv, Bound
    PROVE  IInv'
<1>. DEFINE m == InputCleared(nat["statement"])
            usable == Settled("statement") /\ th.status # "raised"
<1>1. /\ th.pc = "bound" /\ th.pc \notin PreparingPcs /\ th.pc # "idle" /\ th' = Resting
      /\ Released("statement", m) /\ p' = [p EXCEPT !.bound = usable]
      /\ tx' = [tx EXCEPT !.raised = @ \/ (tx.explicit /\ th.status = "raised")]
      /\ UNCHANGED <<schema, ddl, epoch, cancelled>>
  BY DEF Bound, PreparingPcs, Engine
<1>2. /\ TypeOK /\ Counted /\ th.owner = "statement" /\ p.state = "open"
      /\ nat["fresh"] = NoOwner /\ nat["statement"] \in Owner /\ live \in Nat /\ p \in Statements
      /\ tx \in Transactions /\ Holding(nat["statement"], p.result)
  BY <1>1, UsingIs
<1>3. /\ m \in Owner /\ m.shell /\ ~m.extracted /\ ~m.value /\ ~m.result /\ m.chunk = None
      /\ ~m.vectors /\ m.prepared # NoType /\ ~m.input /\ ~p.result
  BY <1>1, <1>2 DEF Holding, InputCleared, Owner
<1>. HIDE DEF m
<1>4. usable \in BOOLEAN
  OBVIOUS
<1>. HIDE DEF usable
<1>5. /\ nat' \in [{"statement", "fresh"} -> Owner] /\ nat'["statement"] = m
      /\ nat'["fresh"] = NoOwner /\ live' \in Nat /\ Counted'
  BY <1>1, <1>2, <1>3, ReleasedIs
<1>6. /\ p' \in Statements /\ p'.state = "open" /\ p'.kind = p.kind /\ p'.types = p.types
      /\ p'.result = p.result /\ p'.validated = p.validated
  BY <1>1, <1>2, <1>4 DEF Statements
<1>7. /\ tx' \in Transactions /\ tx'.explicit = tx.explicit /\ tx'.begun = tx.begun
      /\ tx'.snapshot = tx.snapshot /\ tx'.altered = tx.altered /\ tx'.dirty = tx.dirty
      /\ tx'.failure = tx.failure /\ (tx.raised => tx'.raised) /\ tx'.stale = tx.stale
      /\ tx'.spoilt = tx.spoilt
  BY <1>1, <1>2 DEF Transactions
<1>8. TypeOK'
  BY <1>1, <1>2, <1>5, <1>6, <1>7, RestingIs, ValuesAre
     DEF TypeOK, Statements, Threads, Transactions
<1>9. Owners'
  <2>1. Holding(nat["statement"], p.result)'
    BY <1>1, <1>3, <1>5, <1>6, RestingIs DEF Holding
  <2>. QED
    BY <1>1, <1>2, <1>5, <1>6, <2>1, RestingIs, UsingOwners DEF PreparingPcs
<1>10. Viewed(nat["statement"])'
  BY <1>3, <1>5 DEF Viewed
<1>11. Roomy' /\ InScope' /\ OtherScope' /\ Dated' /\ Sound' /\ Resolved' /\ Contained'
  <2>1. /\ th.pc \in CallPcs /\ th'.pc \in CallPcs /\ th'.owner = "statement" /\ ~th'.stale
        /\ th'.before \in {th.before, None}
    BY <1>1, RestingIs DEF CallPcs
  <2>. QED
    BY <1>1, <1>2, <1>6, <1>7, <2>1, CallRest
<1>. QED
  BY <1>5, <1>8, <1>9, <1>10, <1>11 DEF IInv

\* A reset clears the bindings and nothing else.
LEMMA ResetKeeps ==
    ASSUME IInv, Reset
    PROVE  IInv'
<1>1. PICK status \in Statuses : Put("statement", [nat["statement"] EXCEPT !.status = status])
  BY DEF Reset, Statuses
<1>. DEFINE m == [nat["statement"] EXCEPT !.status = status]
<1>2. /\ th.pc = "idle" /\ th.pc \notin PreparingPcs /\ p.state = "open" /\ ~p.result
      /\ Put("statement", m) /\ p' = [p EXCEPT !.bound = p.kind = "constant"]
      /\ UNCHANGED <<schema, ddl, epoch, cancelled, tx, live, th>>
  BY <1>1 DEF Reset, Usable, PreparingPcs, Engine
<1>3. /\ TypeOK /\ Counted /\ th.owner = "statement" /\ th.phase = "none" /\ ~th.stale
      /\ nat["fresh"] = NoOwner /\ nat["statement"] \in Owner /\ live \in Nat /\ p \in Statements
      /\ Holding(nat["statement"], p.result)
  BY <1>2, UsingIs DEF IInv, Contained
<1>4. /\ m \in Owner /\ m.shell /\ ~m.extracted /\ ~m.value /\ ~m.result /\ m.chunk = None
      /\ ~m.vectors /\ m.prepared # NoType /\ ~m.input /\ Pieces(m) = Pieces(nat["statement"])
  BY <1>2, <1>3 DEF Holding, Owner, Pieces
<1>. HIDE DEF m
<1>5. /\ nat' \in [{"statement", "fresh"} -> Owner] /\ nat'["statement"] = m
      /\ nat'["fresh"] = NoOwner /\ live' \in Nat /\ Counted'
  BY <1>2, <1>3, <1>4, MarkedIs
<1>6. /\ p' \in Statements /\ p'.state = "open" /\ p'.kind = p.kind /\ p'.types = p.types
      /\ p'.result = p.result /\ p'.validated = p.validated
  BY <1>2, <1>3 DEF Statements
<1>7. TypeOK'
  BY <1>2, <1>3, <1>5, <1>6, ValuesAre DEF TypeOK, Statements
<1>8. Owners'
  <2>1. Holding(nat["statement"], p.result)'
    BY <1>2, <1>3, <1>4, <1>5, <1>6 DEF Holding
  <2>. QED
    BY <1>2, <1>3, <1>5, <1>6, <2>1, UsingOwners
<1>9. Viewed(nat["statement"])'
  BY <1>4, <1>5 DEF Viewed
<1>10. Roomy' /\ InScope' /\ OtherScope' /\ Dated' /\ Sound' /\ Resolved' /\ Contained'
  <2>1. th.pc \in CallPcs /\ th'.pc \in CallPcs
    BY <1>2 DEF CallPcs
  <2>. QED
    BY <1>2, <1>3, <1>6, <2>1, CallRest
<1>. QED
  BY <1>5, <1>7, <1>8, <1>9, <1>10 DEF IInv

-----------------------------------------------------------------------------
(* Consuming a result.                                                      *)

\* A step of a fold: the owner keeps its result, and what can be viewed is current.
LEMMA FoldSteps ==
    ASSUME IInv, th.pc \in {"idle", "fold"}, p.state = "open", p.result,
           Goto("fold") \/ Goto("drain"),
           UNCHANGED <<schema, ddl, epoch, cancelled, tx, p>>,
           NEW m \in Owner, m.shell, ~m.extracted, m.result, m.prepared # NoType, ~m.input,
           ~m.value, Viewed(m),
           nat' \in [{"statement", "fresh"} -> Owner], nat'["statement"] = m,
           nat'["fresh"] = NoOwner, live' \in Nat, Counted'
    PROVE  IInv'
<1>1. th.pc \notin PreparingPcs /\ th.pc \in CallPcs
  BY DEF PreparingPcs, CallPcs
<1>2. /\ TypeOK /\ th.owner = "statement" /\ th.phase = "none" /\ ~th.stale /\ th \in Threads
      /\ Holding(nat["statement"], p.result)
  BY <1>1, UsingIs DEF IInv, Contained
<1>3. /\ th' \in Threads /\ th'.pc \in {"fold", "drain"} /\ th'.owner = "statement"
      /\ th'.phase = "none" /\ th'.before = th.before /\ th'.stale = th.stale
  <2>1. CASE Goto("fold")
    BY <1>2, <2>1, GotoIs DEF Pcs
  <2>2. CASE Goto("drain")
    BY <1>2, <2>2, GotoIs DEF Pcs
  <2>. QED
    BY <2>1, <2>2
<1>4. TypeOK'
  BY <1>2, <1>3, ValuesAre DEF TypeOK, Threads
<1>5. Holding(nat["statement"], p.result)'
  BY <1>3 DEF Holding
<1>6. Owners'
  BY <1>3, <1>5, UsingOwners DEF PreparingPcs
<1>7. Viewed(nat["statement"])'
  BY DEF Viewed
<1>8. Roomy' /\ InScope' /\ OtherScope' /\ Dated' /\ Sound' /\ Resolved' /\ Contained'
  <2>1. th'.pc \in CallPcs
    BY <1>3 DEF CallPcs
  <2>. QED
    BY <1>1, <1>2, <1>3, <2>1, CallRest
<1>. QED
  BY <1>4, <1>6, <1>7, <1>8 DEF IInv

\* A fold begins with a result.
LEMMA FoldKeeps ==
    ASSUME IInv, Fold
    PROVE  IInv'
<1>1. /\ th.pc = "idle" /\ th.pc \notin PreparingPcs /\ p.state = "open" /\ p.result
      /\ Goto("fold") /\ UNCHANGED <<schema, ddl, epoch, cancelled, tx, p, nat, live>>
  BY DEF Fold, Usable, PreparingPcs, Engine
<1>2. /\ Counted /\ nat["fresh"] = NoOwner /\ nat["statement"] \in Owner /\ live \in Nat
      /\ nat \in [{"statement", "fresh"} -> Owner] /\ Viewed(nat["statement"])
      /\ Holding(nat["statement"], p.result)
  BY <1>1, UsingIs
<1>3. LET m == nat["statement"] IN
      /\ m.shell /\ ~m.extracted /\ m.result /\ m.prepared # NoType /\ ~m.input /\ ~m.value
  BY <1>1, <1>2 DEF Holding
<1>4. Counted'
  BY <1>1, <1>2 DEF Counted
<1>. QED
  BY <1>1, <1>2, <1>3, <1>4, FoldSteps

\* What is left of an owner when its current chunk goes.
LEMMA ForgottenIs ==
    ASSUME NEW n \in Owner
    PROVE  LET m == [Forgotten(n) EXCEPT !.status = "OK"] IN
           /\ m \in Owner /\ m.shell = n.shell /\ m.extracted = n.extracted /\ m.result = n.result
           /\ m.prepared = n.prepared /\ m.input = n.input /\ m.value = n.value
           /\ m.vectors = n.vectors /\ m.chunk = None
           /\ Pieces(n) = Pieces(m) + Bit(n.chunk # None)
<1>1. 0 \in 0..MaxRows
  BY BoundsAssumption
<1>2. LET m == [n EXCEPT !.chunk = None, !.rows = 0, !.pointing = FALSE] IN
      /\ m \in Owner /\ m.shell = n.shell /\ m.extracted = n.extracted /\ m.result = n.result
      /\ m.prepared = n.prepared /\ m.input = n.input /\ m.value = n.value
      /\ m.vectors = n.vectors /\ m.chunk = None
  BY <1>1 DEF Owner
<1>. DEFINE f == Forgotten(n)
<1>3. /\ f \in Owner /\ f.shell = n.shell /\ f.extracted = n.extracted /\ f.result = n.result
      /\ f.prepared = n.prepared /\ f.input = n.input /\ f.value = n.value
      /\ f.vectors = n.vectors /\ f.chunk = None
  BY <1>2 DEF Forgotten
<1>. HIDE DEF f
<1>4. LET m == [f EXCEPT !.status = "OK"] IN
      /\ m \in Owner /\ m.shell = n.shell /\ m.extracted = n.extracted /\ m.result = n.result
      /\ m.prepared = n.prepared /\ m.input = n.input /\ m.value = n.value
      /\ m.vectors = n.vectors /\ m.chunk = None
  BY <1>3 DEF Owner, Statuses
<1>5. LET m == [f EXCEPT !.status = "OK"] IN Pieces(n) = Pieces(m) + Bit(n.chunk # None)
  BY <1>4 DEF Pieces, Bit
<1>. QED
  BY <1>4, <1>5 DEF f

\* The next chunk, or the end.
LEMMA FetchKeeps ==
    ASSUME IInv, Fetch
    PROVE  IInv'
<1>. DEFINE old == nat["statement"]
            n == [Forgotten(old) EXCEPT !.status = "OK"]
<1>1. /\ th.pc = "fold" /\ th.pc \notin PreparingPcs /\ th.pc # "idle"
      /\ UNCHANGED <<schema, ddl, epoch, cancelled, tx, p>>
  BY DEF Fetch, PreparingPcs, Engine
<1>2. /\ TypeOK /\ Counted /\ p.state = "open" /\ nat["fresh"] = NoOwner /\ old \in Owner
      /\ live \in Nat /\ Holding(old, p.result)
  BY <1>1, UsingIs
<1>3. /\ n \in Owner /\ n.shell /\ ~n.extracted /\ n.result /\ n.prepared # NoType /\ ~n.input
      /\ ~n.value /\ n.chunk = None /\ Pieces(old) = Pieces(n) + Bit(old.chunk # None) /\ p.result
  <2>1. /\ old.shell /\ ~old.extracted /\ old.result /\ old.prepared # NoType /\ ~old.input
        /\ ~old.value /\ p.result
    BY <1>1, <1>2 DEF Holding
  <2>. QED
    BY <1>2, <2>1, ForgottenIs
<1>4. /\ Pieces(n) \in Nat /\ Bit(old.chunk # None) \in Nat
  BY <1>3, PiecesAre DEF Bit
<1>. HIDE DEF n
<1>5. ASSUME NEW m \in Owner, Put("statement", m), Goto("fold") \/ Goto("drain"),
             live' = live + (Pieces(m) - Pieces(old)),
             m.shell, ~m.extracted, m.result, m.prepared # NoType, ~m.input, ~m.value, Viewed(m)
      PROVE  IInv'
  <2>1. /\ nat' \in [{"statement", "fresh"} -> Owner] /\ nat'["statement"] = m
        /\ nat'["fresh"] = NoOwner /\ live' \in Nat /\ Counted'
    BY <1>2, <1>5, PutIs
  <2>. QED
    BY <1>1, <1>2, <1>3, <1>5, <2>1, FoldSteps
<1>6. ASSUME NEW status \in Statuses, Released("statement", [n EXCEPT !.status = status]),
             Goto("drain")
      PROVE  IInv'
  <2>. DEFINE m == [n EXCEPT !.status = status]
  <2>1. /\ m \in Owner /\ m.shell /\ ~m.extracted /\ m.result /\ m.prepared # NoType /\ ~m.input
        /\ ~m.value /\ Viewed(m)
    BY <1>3 DEF Owner, Viewed
  <2>2. Released("statement", m)
    BY <1>6
  <2>. HIDE DEF m, n
  <2>3. Put("statement", m) /\ live' = live + (Pieces(m) - Pieces(old))
    <3>1. Pieces(m) \in Nat /\ Pieces(old) \in Nat
      BY <1>2, <2>1, PiecesAre
    <3>. QED
      BY <1>2, <2>2, <3>1 DEF Released
  <2>. QED
    BY <1>5, <1>6, <2>1, <2>3
<1>7. ASSUME NEW rows \in 0..MaxRows, ~n.vectors, Goto("drain"),
             Put("statement", [n EXCEPT !.chunk = rows, !.status = "ERROR"]),
             live' = live - Bit(old.chunk # None) + 1
      PROVE  IInv'
  <2>. DEFINE m == [n EXCEPT !.chunk = rows, !.status = "ERROR"]
  <2>1. rows # None
    BY ValuesAssumption
  <2>2. /\ m \in Owner /\ m.shell /\ ~m.extracted /\ m.result /\ m.prepared # NoType /\ ~m.input
        /\ ~m.value /\ Viewed(m) /\ m.chunk # None /\ m.vectors = n.vectors
        /\ m.prepared = n.prepared
    BY <1>3, <1>7, <2>1 DEF Owner, Viewed, Statuses
  <2>3. Put("statement", m)
    BY <1>7
  <2>. HIDE DEF m
  <2>4. Pieces(m) = Pieces(n) + 1
    BY <1>3, <2>2 DEF Pieces, Bit
  <2>. HIDE DEF old
  <2>5. live' = live + (Pieces(m) - Pieces(old))
    BY <1>2, <1>3, <1>4, <1>7, <2>4
  <2>. QED
    BY <1>5, <1>7, <2>2, <2>3, <2>5
<1>8. ASSUME NEW rows \in 0..MaxRows, Put("statement", CacheVectors(n, rows)),
             live' = live - Bit(old.chunk # None) + 1 + Bit(~n.vectors),
             Goto("fold") \/ Goto("drain")
      PROVE  IInv'
  <2>. DEFINE m == CacheVectors(n, rows)
  <2>1. rows # None
    BY ValuesAssumption
  <2>2. /\ m \in Owner /\ m.shell /\ ~m.extracted /\ m.result /\ m.prepared # NoType /\ ~m.input
        /\ ~m.value /\ Viewed(m) /\ m.chunk # None /\ m.vectors = TRUE
        /\ m.prepared = n.prepared
    BY <1>3, <2>1 DEF Owner, Viewed, CacheVectors
  <2>3. Put("statement", m)
    BY <1>8
  <2>. HIDE DEF m
  <2>4. Pieces(m) = Pieces(n) + 1 + Bit(~n.vectors) /\ Bit(~n.vectors) \in Nat
    BY <1>3, <2>2 DEF Pieces, Bit, Owner
  <2>. HIDE DEF old
  <2>5. live' = live + (Pieces(m) - Pieces(old))
    BY <1>2, <1>3, <1>4, <1>8, <2>4
  <2>. QED
    BY <1>5, <1>8, <2>2, <2>3, <2>5
<1>. QED
  BY <1>6, <1>7, <1>8 DEF Fetch, n, Statuses

\* What is left of an owner when its result is closed.
LEMMA ClearResultIs ==
    ASSUME NEW n \in Owner
    PROVE  LET m == ClearResult(n) IN
           /\ m \in Owner /\ m.shell = n.shell /\ m.extracted = n.extracted /\ ~m.result
           /\ m.prepared = n.prepared /\ m.input = n.input /\ m.value = n.value
           /\ ~m.vectors /\ m.chunk = None
<1>1. 0 \in 0..MaxRows
  BY BoundsAssumption
<1>. QED
  BY <1>1 DEF ClearResult, Owner

\* A result is closed, at the end of a fold or by itself.
LEMMA DestroyResultKeeps ==
    ASSUME IInv, DestroyResult
    PROVE  IInv'
<1>. DEFINE m == ClearResult(nat["statement"])
<1>1. /\ th.pc \in {"drain", "idle"} /\ th.pc \notin PreparingPcs
      /\ (th.pc # "idle" \/ p.state = "open")
      /\ Released("statement", m) /\ p' = [p EXCEPT !.result = FALSE] /\ th' = Resting
      /\ UNCHANGED <<schema, ddl, epoch, cancelled, tx>>
  BY DEF DestroyResult, Usable, PreparingPcs, Engine
<1>2. /\ TypeOK /\ Counted /\ th.owner = "statement" /\ p.state = "open"
      /\ nat["fresh"] = NoOwner /\ nat["statement"] \in Owner /\ live \in Nat /\ p \in Statements
      /\ Holding(nat["statement"], p.result)
  BY <1>1, UsingIs
<1>3. /\ m \in Owner /\ m.shell /\ ~m.extracted /\ ~m.value /\ ~m.result /\ m.chunk = None
      /\ ~m.vectors /\ m.prepared # NoType /\ ~m.input
  <2>1. LET n == nat["statement"] IN
        /\ n.shell /\ ~n.extracted /\ ~n.value /\ n.prepared # NoType /\ ~n.input
    BY <1>1, <1>2 DEF Holding
  <2>. QED
    BY <1>2, <2>1, ClearResultIs
<1>. HIDE DEF m
<1>4. /\ nat' \in [{"statement", "fresh"} -> Owner] /\ nat'["statement"] = m
      /\ nat'["fresh"] = NoOwner /\ live' \in Nat /\ Counted'
  BY <1>1, <1>2, <1>3, ReleasedIs
<1>5. /\ p' \in Statements /\ p'.state = "open" /\ p'.kind = p.kind /\ p'.types = p.types
      /\ ~p'.result /\ p'.validated = p.validated
  BY <1>1, <1>2 DEF Statements
<1>6. TypeOK'
  BY <1>1, <1>2, <1>4, <1>5, RestingIs, ValuesAre DEF TypeOK, Statements, Threads
<1>7. Owners'
  <2>1. Holding(nat["statement"], p.result)'
    BY <1>1, <1>3, <1>4, <1>5, RestingIs DEF Holding
  <2>. QED
    BY <1>1, <1>2, <1>4, <1>5, <2>1, RestingIs, UsingOwners DEF PreparingPcs
<1>8. Viewed(nat["statement"])'
  BY <1>3, <1>4 DEF Viewed
<1>9. Roomy' /\ InScope' /\ OtherScope' /\ Dated' /\ Sound' /\ Resolved' /\ Contained'
  <2>1. /\ th.pc \in CallPcs /\ th'.pc \in CallPcs /\ th'.owner = "statement" /\ ~th'.stale
        /\ th'.before \in {th.before, None}
    BY <1>1, RestingIs DEF CallPcs
  <2>. QED
    BY <1>1, <1>2, <1>5, <2>1, CallRest
<1>. QED
  BY <1>4, <1>6, <1>7, <1>8, <1>9 DEF IInv

\* A statement is closed.
LEMMA ClosePreparedKeeps ==
    ASSUME IInv, ClosePrepared
    PROVE  IInv'
<1>1. /\ th.pc = "idle" /\ th.pc \notin PreparingPcs /\ p.state = "open"
      /\ Released("statement", NoOwner) /\ th' = Resting /\ p' = NoStatement
      /\ UNCHANGED <<schema, ddl, epoch, cancelled, tx>>
  BY DEF ClosePrepared, PreparingPcs, Engine
<1>2. TypeOK /\ Counted /\ nat["fresh"] = NoOwner /\ th.owner = "statement"
  BY <1>1, UsingIs
<1>3. /\ nat' \in [{"statement", "fresh"} -> Owner] /\ live' \in Nat /\ Counted'
      /\ p' \in Statements /\ th' \in Threads
      /\ Owners' /\ Viewed(nat["statement"])' /\ Dated' /\ Sound' /\ Resolved'
  BY <1>1, <1>2, Dropped
<1>4. TypeOK'
  BY <1>1, <1>2, <1>3, ValuesAre DEF TypeOK, Statements, Threads
<1>5. Roomy'
  <2>1. Owed' = Owed
    BY <1>1, RestingIs DEF Owed, Bit
  <2>. QED
    BY <1>1, <2>1 DEF IInv, Roomy
<1>6. InScope' /\ OtherScope' /\ Contained'
  BY <1>1, <1>2, RestingIs DEF IInv, InScope, OtherScope, Contained, InTransaction
<1>. QED
  BY <1>3, <1>4, <1>5, <1>6 DEF IInv

-----------------------------------------------------------------------------
(* Executing.                                                               *)

ExecutingPcs ==
    {"begin", "validate", "run", "running", "leaving", "ran", "commit", "publish", "fail"}

\* A statement that is executed is open and has published nothing.
LEMMA ExecutingIs ==
    ASSUME IInv, th.pc \in ExecutingPcs
    PROVE  /\ TypeOK /\ Counted /\ p.state = "open" /\ th.owner = "statement" /\ th.phase = "none"
           /\ nat["fresh"] = NoOwner /\ nat["statement"] \in Owner /\ live \in Nat
           /\ nat \in [{"statement", "fresh"} -> Owner] /\ p \in Statements /\ th \in Threads
           /\ tx \in Transactions /\ Holding(nat["statement"], p.result)
           /\ Viewed(nat["statement"]) /\ ~p.result /\ th.pc \notin PreparingPcs
           /\ epoch \in 0..MaxEpoch /\ epoch \in Nat /\ epoch # None
<1>1. th.pc \notin PreparingPcs /\ th.pc # "idle"
  BY DEF ExecutingPcs, PreparingPcs
<1>2. /\ TypeOK /\ Counted /\ p.state = "open" /\ th.owner = "statement" /\ th.phase = "none"
      /\ nat["fresh"] = NoOwner /\ nat["statement"] \in Owner /\ live \in Nat
      /\ nat \in [{"statement", "fresh"} -> Owner] /\ p \in Statements /\ th \in Threads
      /\ tx \in Transactions /\ Holding(nat["statement"], p.result)
      /\ Viewed(nat["statement"])
  BY <1>1, UsingIs
<1>3. ~p.result
  BY <1>2 DEF Holding, ExecutingPcs
<1>4. epoch \in 0..MaxEpoch /\ epoch \in Nat /\ epoch # None
  BY <1>2, ValuesAre, EpochsAre
<1>. QED
  BY <1>1, <1>2, <1>3, <1>4

\* A step of an execution that leaves the native owner alone.
LEMMA ExecutingSteps ==
    ASSUME IInv, th.pc \in ExecutingPcs \cup {"idle"}, p.state = "open", ~p.result,
           th'.pc \in ExecutingPcs, th' \in Threads, th'.owner = "statement", th'.phase = "none",
           UNCHANGED <<schema, ddl, cancelled, p, nat, live>>,
           tx' \in Transactions, epoch' \in 0..MaxEpoch,
           th'.pc \in {"begin", "validate", "run"} => ~nat["statement"].result,
           th'.pc \in {"running", "leaving", "ran", "commit", "publish"} => nat["statement"].result,
           th'.pc = "leaving" => p.kind = "ddl"
    PROVE  TypeOK' /\ Owners' /\ Counted' /\ Viewed(nat["statement"])' /\ OtherScope' /\ Resolved'
<1>1. th.pc \notin PreparingPcs /\ th'.pc \notin PreparingPcs
  BY DEF ExecutingPcs, PreparingPcs
<1>2. /\ TypeOK /\ Counted /\ nat["fresh"] = NoOwner /\ Holding(nat["statement"], p.result)
      /\ Viewed(nat["statement"])
  BY <1>1, UsingIs
<1>3. TypeOK'
  BY <1>2, ValuesAre DEF TypeOK, Threads, Transactions
<1>4. Holding(nat["statement"], p.result)'
  BY <1>2 DEF Holding, ExecutingPcs
<1>5. Owners'
  BY <1>1, <1>2, <1>4, UsingOwners
<1>6. Counted' /\ Viewed(nat["statement"])'
  BY <1>2 DEF Counted, Viewed
<1>7. OtherScope' /\ Resolved'
  BY <1>1 DEF IInv, OtherScope, Resolved, PreparingPcs
<1>. QED
  BY <1>3, <1>5, <1>6, <1>7

\* An execution begins.
LEMMA ExecuteKeeps ==
    ASSUME IInv, Execute
    PROVE  IInv'
<1>1. /\ th.pc = "idle" /\ th.pc \notin PreparingPcs /\ p.state = "open" /\ ~p.result
      /\ UNCHANGED <<schema, ddl, epoch, cancelled, tx, p, nat, live>>
  BY DEF Execute, Usable, PreparingPcs, Engine
<1>2. PICK pc \in {"begin", "validate"} : Goto(pc) /\ (pc = "validate" <=> tx.explicit)
  BY DEF Execute
<1>3. /\ TypeOK /\ th.owner = "statement" /\ th.phase = "none" /\ ~th.stale /\ th \in Threads
      /\ Holding(nat["statement"], p.result) /\ tx \in Transactions /\ epoch \in 0..MaxEpoch
  BY <1>1, UsingIs, ValuesAre DEF IInv, Contained
<1>4. /\ th' \in Threads /\ th'.pc = pc /\ th'.owner = "statement" /\ th'.phase = "none"
      /\ th'.before = th.before /\ th'.stale = th.stale
  BY <1>2, <1>3, GotoIs DEF Pcs
<1>5. ~nat["statement"].result
  BY <1>1, <1>3 DEF Holding
<1>6. TypeOK' /\ Owners' /\ Counted' /\ Viewed(nat["statement"])' /\ OtherScope' /\ Resolved'
  <2>1. th'.pc \in ExecutingPcs
    BY <1>4 DEF ExecutingPcs
  <2>. QED
    BY <1>1, <1>3, <1>4, <1>5, <2>1, ExecutingSteps
<1>7. Roomy'
  <2>1. Owed' = Owed
    BY <1>1, <1>4 DEF Owed, Bit
  <2>. QED
    BY <1>1, <2>1 DEF IInv, Roomy
<1>8. InScope' /\ Dated'
  BY <1>1, <1>2, <1>3, <1>4 DEF IInv, InScope, Dated, InTransaction
<1>9. Sound' /\ Contained'
  BY <1>1, <1>3, <1>4 DEF IInv, Sound, Contained, Changing, PreparingPcs
<1>. QED
  BY <1>6, <1>7, <1>8, <1>9 DEF IInv

\* A transaction begins for the execution.
LEMMA BeginSnapshotKeeps ==
    ASSUME IInv, BeginSnapshot
    PROVE  IInv'
<1>1. /\ th.pc = "begin" /\ th.pc \in ExecutingPcs
      /\ UNCHANGED <<schema, ddl, epoch, cancelled, p, nat, live>>
  BY DEF BeginSnapshot, ExecutingPcs, Engine
<1>2. PICK pc \in {"validate", "fail"} :
        /\ Goto(pc) /\ (pc = "validate" => tx' = [tx EXCEPT !.begun = TRUE])
        /\ tx' = tx \/ tx' = [tx EXCEPT !.begun = TRUE]
  BY DEF BeginSnapshot
<1>3. /\ TypeOK /\ p.state = "open" /\ ~p.result /\ th.owner = "statement" /\ th.phase = "none"
      /\ ~th.stale /\ th \in Threads /\ Holding(nat["statement"], p.result) /\ tx \in Transactions
      /\ epoch \in 0..MaxEpoch
  BY <1>1, ExecutingIs DEF IInv, Contained
<1>4. ~tx.explicit /\ ~tx.begun /\ tx.snapshot = None /\ ~tx.altered
  BY <1>1, <1>3 DEF IInv, InScope, InTransaction
<1>5. /\ th' \in Threads /\ th'.pc = pc /\ th'.owner = "statement" /\ th'.phase = "none"
      /\ th'.before = th.before /\ th'.stale = th.stale
  BY <1>2, <1>3, GotoIs DEF Pcs
<1>6. /\ tx' \in Transactions /\ ~tx'.explicit /\ tx'.snapshot = None /\ ~tx'.altered
      /\ tx'.dirty = tx.dirty /\ tx'.failure = tx.failure /\ tx'.raised = tx.raised
      /\ tx'.stale = tx.stale /\ tx'.spoilt = tx.spoilt /\ (pc = "validate" => tx'.begun)
  BY <1>2, <1>3, <1>4 DEF Transactions
<1>7. TypeOK' /\ Owners' /\ Counted' /\ Viewed(nat["statement"])' /\ OtherScope' /\ Resolved'
  <2>1. th'.pc \in ExecutingPcs
    BY <1>5 DEF ExecutingPcs
  <2>2. ~nat["statement"].result
    BY <1>1, <1>3 DEF Holding
  <2>. QED
    BY <1>1, <1>3, <1>5, <1>6, <2>1, <2>2, ExecutingSteps
<1>8. Roomy'
  <2>1. Owed' = Owed
    BY <1>1, <1>5, <1>6 DEF Owed, Bit
  <2>. QED
    BY <1>1, <2>1 DEF IInv, Roomy
<1>9. InScope' /\ Dated'
  BY <1>1, <1>5, <1>6 DEF IInv, InScope, Dated, InTransaction
<1>10. Sound'
  BY <1>1, <1>5, <1>6 DEF IInv, Sound, Changing
<1>11. Contained'
  BY <1>1, <1>3, <1>5, <1>6 DEF IInv, Contained, PreparingPcs
<1>. QED
  BY <1>7, <1>8, <1>9, <1>10, <1>11 DEF IInv

\* The text is prepared again in an owner of its own.
LEMMA ReprepareKeeps ==
    ASSUME IInv, NEW phase \in {"validate", "recheck"}, Reprepare(phase),
           phase = "validate" => th.pc = "validate", phase = "recheck" => th.pc = "ran",
           UNCHANGED <<schema, ddl, epoch, cancelled, tx, p>>
    PROVE  IInv'
<1>. DEFINE m == [NoOwner EXCEPT !.shell = TRUE]
<1>1. th.pc \in {"validate", "ran"} /\ th.pc \in ExecutingPcs
  BY DEF ExecutingPcs
<1>2. /\ TypeOK /\ Counted /\ p.state = "open" /\ ~p.result /\ th.owner = "statement"
      /\ th \in Threads /\ Holding(nat["statement"], p.result) /\ tx \in Transactions
      /\ nat["fresh"] = NoOwner /\ live \in Nat /\ epoch \in 0..MaxEpoch /\ epoch \in Nat
      /\ Viewed(nat["statement"]) /\ epoch # None
  BY <1>1, ExecutingIs
<1>3. /\ Put("fresh", m) /\ live' = live + 1
      /\ th' = [th EXCEPT !.pc = "extract", !.owner = "fresh", !.phase = phase, !.before = epoch]
  BY DEF Reprepare
<1>4. /\ m \in Owner /\ Pieces(m) = 1 /\ m.shell /\ ~m.input /\ ~m.extracted /\ ~m.value
      /\ m.prepared = NoType /\ ~m.result /\ m.chunk = None /\ ~m.vectors
  <2>1. NoOwner \in Owner
    BY NoOwnerIs
  <2>2. m \in Owner
    BY <2>1 DEF Owner
  <2>. QED
    BY <2>2 DEF NoOwner, Pieces, Bit
<1>. HIDE DEF m
<1>5. /\ nat' \in [{"statement", "fresh"} -> Owner] /\ nat'["fresh"] = m
      /\ nat'["statement"] = nat["statement"] /\ live' \in Nat /\ Counted'
  <2>1. live' = live + (Pieces(m) - Pieces(nat["fresh"]))
    BY <1>2, <1>3, <1>4, NoOwnerIs
  <2>. QED
    BY <1>2, <1>3, <1>4, <2>1, PutIs
<1>6. /\ th' \in Threads /\ th'.pc = "extract" /\ th'.owner = "fresh" /\ th'.phase = phase
      /\ th'.before = epoch /\ th'.stale = th.stale
  BY <1>2, <1>3 DEF Threads, Pcs
<1>7. TypeOK'
  BY <1>2, <1>5, <1>6, ValuesAre DEF TypeOK, Threads
<1>8. Roomy'
  <2>1. Owed' = Owed
    BY <1>1, <1>6 DEF Owed, Bit
  <2>. QED
    BY <2>1 DEF IInv, Roomy
<1>9. Owners'
  <2>1. Holding(nat["statement"], p.result)'
    BY <1>1, <1>2, <1>5, <1>6 DEF Holding
  <2>2. Preparing(m, "extract")
    BY <1>4 DEF Preparing
  <2>. QED
    BY <1>2, <1>5, <1>6, <2>1, <2>2 DEF Owners, Shaped, PreparingPcs
<1>10. Viewed(nat["statement"])'
  BY <1>2, <1>5 DEF Viewed
<1>11. InScope'
  BY <1>1, <1>2, <1>6 DEF IInv, InScope, InTransaction
<1>12. OtherScope' /\ Dated'
  BY <1>2, <1>6 DEF IInv, OtherScope, Dated
<1>13. Sound' /\ Resolved'
  BY <1>6 DEF IInv, Sound, Resolved, Changing
<1>14. Contained'
  BY <1>1, <1>2, <1>6 DEF IInv, Contained, PreparingPcs
<1>. QED
  BY <1>5, <1>7, <1>8, <1>9, <1>10, <1>11, <1>12, <1>13, <1>14 DEF IInv

\* Types that are known to be current are not resolved again.
LEMMA ValidateKeeps ==
    ASSUME IInv, Validate
    PROVE  IInv'
<1>1. /\ th.pc = "validate" /\ th.pc \in ExecutingPcs
      /\ UNCHANGED <<schema, ddl, epoch, cancelled, tx, p>>
  BY DEF Validate, ExecutingPcs, Engine
<1>2. /\ TypeOK /\ p.state = "open" /\ ~p.result /\ th.owner = "statement" /\ th.phase = "none"
      /\ ~th.stale /\ th \in Threads /\ Holding(nat["statement"], p.result) /\ tx \in Transactions
      /\ epoch \in 0..MaxEpoch /\ epoch \in Nat /\ epoch # None
  BY <1>1, ExecutingIs DEF IInv, Contained
<1>3. InTransaction
  BY <1>1 DEF IInv, InScope
<1>4. ASSUME UNCHANGED <<nat, live>>, th' \in Threads, th'.pc \in {"run", "fail"},
             th'.owner = "statement", th'.phase = "none", th'.stale = th.stale,
             th'.before \in {th.before, None, epoch},
             th'.pc = "run" /\ p.kind = "plain" => th'.before = p.validated /\ th'.before # None
      PROVE  IInv'
  <2>1. TypeOK' /\ Owners' /\ Counted' /\ Viewed(nat["statement"])' /\ OtherScope' /\ Resolved'
    <3>1. th'.pc \in ExecutingPcs
      BY <1>4 DEF ExecutingPcs
    <3>2. ~nat["statement"].result
      BY <1>1, <1>2 DEF Holding
    <3>. QED
      BY <1>1, <1>2, <1>4, <3>1, <3>2, ExecutingSteps
  <2>2. Roomy'
    <3>1. Owed' = Owed
      BY <1>1, <1>4 DEF Owed, Bit
    <3>. QED
      BY <1>1, <3>1 DEF IInv, Roomy
  <2>3. InScope' /\ Dated'
    BY <1>1, <1>2, <1>3, <1>4 DEF IInv, InScope, Dated, InTransaction
  <2>4. Sound'
    BY <1>1, <1>4 DEF IInv, Sound, Changing
  <2>5. Contained'
    BY <1>1, <1>2, <1>4 DEF IInv, Contained, PreparingPcs
  <2>. QED
    BY <2>1, <2>2, <2>3, <2>4, <2>5 DEF IInv
<1>5. CASE Goto("fail") /\ UNCHANGED <<nat, live>>
  <2>1. /\ th' \in Threads /\ th'.pc = "fail" /\ th'.owner = "statement" /\ th'.phase = "none"
        /\ th'.before = th.before /\ th'.stale = th.stale
    BY <1>2, <1>5, GotoIs DEF Pcs
  <2>. QED
    BY <1>4, <1>5, <2>1
<1>6. CASE /\ p.types = NoParameters /\ th' = [th EXCEPT !.pc = "run", !.before = None]
           /\ UNCHANGED <<nat, live>>
  <2>1. /\ th' \in Threads /\ th'.pc = "run" /\ th'.owner = "statement" /\ th'.phase = "none"
        /\ th'.before = None /\ th'.stale = th.stale
    BY <1>2, <1>6 DEF Threads, Pcs
  <2>2. p.kind # "plain"
    BY <1>2, <1>6 DEF IInv, Sound
  <2>. QED
    BY <1>4, <1>6, <2>1, <2>2
<1>7. CASE /\ Validated /\ th' = [th EXCEPT !.pc = "run", !.before = epoch]
           /\ UNCHANGED <<nat, live>>
  <2>1. /\ th' \in Threads /\ th'.pc = "run" /\ th'.owner = "statement" /\ th'.phase = "none"
        /\ th'.before = epoch /\ th'.stale = th.stale
    BY <1>2, <1>7 DEF Threads, Pcs
  <2>. QED
    BY <1>2, <1>4, <1>7, <2>1 DEF Validated
<1>8. CASE Reprepare("validate")
  BY <1>1, <1>8, ReprepareKeeps
<1>. QED
  BY <1>5, <1>6, <1>7, <1>8 DEF Validate

\* The statement is submitted, and its result is made.
LEMMA RunKeeps ==
    ASSUME IInv, Run
    PROVE  IInv'
<1>1. /\ th.pc = "run" /\ th.pc \in ExecutingPcs /\ UNCHANGED <<schema, ddl, cancelled, p>>
  BY DEF Run, ExecutingPcs, Engine
<1>2. /\ TypeOK /\ Counted /\ p.state = "open" /\ ~p.result /\ th.owner = "statement"
      /\ th.phase = "none" /\ ~th.stale /\ th \in Threads /\ Holding(nat["statement"], p.result)
      /\ tx \in Transactions /\ epoch \in 0..MaxEpoch /\ epoch \in Nat /\ live \in Nat
      /\ nat["fresh"] = NoOwner /\ nat["statement"] \in Owner /\ InTransaction
      /\ p \in Statements
  BY <1>1, ExecutingIs DEF IInv, Contained, InScope
<1>3. /\ Owed \in 0..4 /\ Owed' \in 0..4 /\ MaxEpoch \in Nat /\ None \notin Nat
      /\ p.validated \in Nat \/ p.validated = None
      /\ th.before \in Nat \/ th.before = None
  BY <1>2, OwedIs, EpochsAre
<1>4. CASE /\ Goto("fail") /\ UNCHANGED <<epoch, nat, live>>
           /\ tx' = tx \/ tx' = [tx EXCEPT !.raised = @ \/ tx.explicit]
  <2>1. /\ th' \in Threads /\ th'.pc = "fail" /\ th'.owner = "statement" /\ th'.phase = "none"
        /\ th'.before = th.before /\ th'.stale = th.stale
    BY <1>2, <1>4, GotoIs DEF Pcs
  <2>2. /\ tx' \in Transactions /\ tx'.explicit = tx.explicit /\ tx'.begun = tx.begun
        /\ tx'.snapshot = tx.snapshot /\ tx'.altered = tx.altered /\ tx'.dirty = tx.dirty
        /\ tx'.failure = tx.failure /\ (tx.raised => tx'.raised) /\ tx'.stale = tx.stale
        /\ tx'.spoilt = tx.spoilt
    BY <1>2, <1>4 DEF Transactions
  <2>3. TypeOK' /\ Owners' /\ Counted' /\ Viewed(nat["statement"])' /\ OtherScope' /\ Resolved'
    <3>1. th'.pc \in ExecutingPcs
      BY <2>1 DEF ExecutingPcs
    <3>. QED
      BY <1>1, <1>2, <1>4, <2>1, <2>2, <3>1, ExecutingSteps
  <2>4. Roomy'
    <3>1. Owed' = Owed
      BY <1>1, <2>1, <2>2 DEF Owed, Bit
    <3>. QED
      BY <1>4, <3>1 DEF IInv, Roomy
  <2>5. InScope' /\ Dated'
    BY <1>1, <1>2, <1>4, <2>1, <2>2 DEF IInv, InScope, Dated, InTransaction
  <2>6. Sound' /\ Contained'
    BY <1>1, <1>2, <1>4, <2>1, <2>2 DEF IInv, Sound, Changing, Contained, PreparingPcs
  <2>. QED
    BY <2>3, <2>4, <2>5, <2>6 DEF IInv
<1>5. CASE /\ p.kind = "ddl" => Room
           /\ Put("statement", [nat["statement"] EXCEPT !.result = TRUE, !.status = "OK"])
           /\ live' = live + 1 /\ epoch' = epoch + Bit(p.kind = "ddl")
           /\ tx' = [tx EXCEPT !.dirty = @ \/ p.kind = "ddl"] /\ Goto("running")
  <2>. DEFINE n == nat["statement"]
              m == [n EXCEPT !.result = TRUE, !.status = "OK"]
  <2>1. /\ n \in Owner /\ n.shell /\ ~n.extracted /\ ~n.value /\ ~n.result /\ n.chunk = None
        /\ ~n.vectors /\ n.prepared # NoType /\ ~n.input
    BY <1>1, <1>2 DEF Holding
  <2>. HIDE DEF n
  <2>2. /\ m \in Owner /\ m.shell /\ ~m.extracted /\ ~m.value /\ m.result /\ m.chunk = None
        /\ ~m.vectors /\ m.prepared # NoType /\ ~m.input
    BY <2>1 DEF Owner, Statuses
  <2>. HIDE DEF m
  <2>3. Pieces(m) = Pieces(n) + 1
    BY <2>1, <2>2 DEF Pieces, Bit
  <2>4. Put("statement", m)
    BY <1>5 DEF n, m
  <2>5. /\ nat' \in [{"statement", "fresh"} -> Owner] /\ nat'["statement"] = m
        /\ nat'["fresh"] = NoOwner /\ live' \in Nat /\ Counted'
    <3>1. Pieces(n) \in Nat
      BY <2>1, PiecesAre
    <3>2. live' = live + (Pieces(m) - Pieces(n))
      BY <1>2, <1>5, <2>3, <3>1
    <3>. QED
      BY <1>2, <2>2, <2>4, <3>2, PutIs DEF n
  <2>6. /\ th' \in Threads /\ th'.pc = "running" /\ th'.owner = "statement" /\ th'.phase = "none"
        /\ th'.before = th.before /\ th'.stale = th.stale
    BY <1>2, <1>5, GotoIs DEF Pcs
  <2>7. /\ tx' \in Transactions /\ tx'.explicit = tx.explicit /\ tx'.begun = tx.begun
        /\ tx'.snapshot = tx.snapshot /\ tx'.altered = tx.altered
        /\ (tx'.dirty <=> tx.dirty \/ p.kind = "ddl")
        /\ tx'.failure = tx.failure /\ tx'.raised = tx.raised /\ tx'.stale = tx.stale
        /\ tx'.spoilt = tx.spoilt
    BY <1>2, <1>5 DEF Transactions
  <2>8. epoch' \in 0..MaxEpoch /\ Roomy'
    <3>1. CASE p.kind = "ddl"
      <4>1. epoch' = epoch + 1 /\ epoch + Owed + 3 <= MaxEpoch
        BY <1>5, <3>1 DEF Bit, Room
      <4>2. Owed' <= Owed + 2
        BY <1>1, <2>6, <2>7 DEF Owed, Bit
      <4>3. epoch \in Nat /\ Owed \in 0..4 /\ Owed' \in 0..4 /\ MaxEpoch \in Nat
        BY <1>2, <1>3
      <4>4. epoch' \in 0..MaxEpoch
        BY <4>1, <4>3
      <4>5. epoch' + Owed' <= MaxEpoch
        <5>1. PICK o \in 0..4, q \in 0..4 : o = Owed /\ q = Owed'
          BY <4>3
        <5>2. epoch' = epoch + 1 /\ epoch + o + 3 <= MaxEpoch /\ q <= o + 2
          BY <4>1, <4>2, <5>1
        <5>3. epoch' + q <= MaxEpoch
          BY <4>3, <5>2
        <5>. QED
          BY <5>1, <5>3
      <4>. QED
        BY <4>4, <4>5 DEF Roomy
    <3>2. CASE p.kind # "ddl"
      <4>1. epoch' = epoch
        BY <1>2, <1>5, <3>2 DEF Bit
      <4>2. Owed' = Owed
        BY <1>1, <1>2, <2>6, <2>7, <3>2 DEF Owed, Bit, Transactions
      <4>. QED
        BY <1>2, <4>1, <4>2 DEF IInv, Roomy
    <3>. QED
      BY <3>1, <3>2
  <2>9. epoch' \in Nat /\ epoch' >= epoch /\ (p.kind # "ddl" => epoch' = epoch)
    BY <1>2, <1>5 DEF Bit
  <2>10. TypeOK'
    BY <1>1, <1>2, <2>5, <2>6, <2>7, <2>8, ValuesAre DEF TypeOK, Threads, Transactions
  <2>11. Owners'
    <3>1. Holding(nat["statement"], p.result)'
      BY <1>1, <1>2, <2>2, <2>5, <2>6 DEF Holding
    <3>. QED
      BY <1>1, <1>2, <2>5, <2>6, <3>1, UsingOwners DEF PreparingPcs
  <2>12. Viewed(nat["statement"])'
    BY <2>2, <2>5 DEF Viewed
  <2>13. InScope'
    BY <1>1, <1>2, <2>6, <2>7 DEF IInv, InScope, InTransaction
  <2>14. OtherScope' /\ Dated'
    BY <1>1, <1>2, <1>3, <2>6, <2>9 DEF IInv, OtherScope, Dated
  <2>15. Sound'
    BY <1>1, <2>6, <2>7, <2>9 DEF IInv, Sound, Changing
  <2>16. Resolved' /\ Contained'
    BY <1>1, <1>2, <2>6, <2>7 DEF IInv, Resolved, Contained, PreparingPcs
  <2>. QED
    BY <2>5, <2>8, <2>10, <2>11, <2>12, <2>13, <2>14, <2>15, <2>16 DEF IInv
<1>. QED
  BY <1>4, <1>5 DEF Run

\* The engine executes in the snapshot, and notes a conversion.
LEMMA RunningKeeps ==
    ASSUME IInv, Running
    PROVE  IInv'
<1>1. /\ th.pc = "running" /\ th.pc \in ExecutingPcs /\ tx' = TakeSnapshot
      /\ UNCHANGED <<schema, ddl, epoch, cancelled, p, live>>
  BY DEF Running, ExecutingPcs, Engine
<1>2. PICK status \in {"OK", "ERROR"} :
        /\ Put("statement", [nat["statement"] EXCEPT !.status = status])
        /\ th' = [th EXCEPT !.pc = IF p.kind = "ddl" THEN "leaving" ELSE "ran",
                     !.stale = status = "OK" /\ p.kind = "plain" /\ p.types # Visible]
  BY DEF Running
<1>3. /\ TypeOK /\ Counted /\ p.state = "open" /\ ~p.result /\ th.owner = "statement"
      /\ th.phase = "none" /\ ~th.stale /\ th \in Threads /\ Holding(nat["statement"], p.result)
      /\ tx \in Transactions /\ nat["fresh"] = NoOwner /\ nat["statement"] \in Owner
      /\ InTransaction /\ p \in Statements
  BY <1>1, ExecutingIs DEF IInv, Contained, InScope
<1>4. /\ Visible # None /\ Visible # NoParameters
      /\ tx.snapshot # None => Visible = tx.snapshot
      /\ tx.snapshot = None => Visible = schema.committed
  BY <1>3, SnapshotIs
<1>5. /\ tx' \in Transactions /\ tx'.explicit = tx.explicit /\ tx'.begun = tx.begun
      /\ tx'.altered = tx.altered /\ tx'.dirty = tx.dirty /\ tx'.failure = tx.failure
      /\ tx'.raised = tx.raised /\ tx'.stale = tx.stale /\ tx'.spoilt = tx.spoilt
      /\ tx'.snapshot = Visible /\ InTransaction'
  BY <1>1, <1>3, TakeSnapshotIs
<1>. DEFINE m == [nat["statement"] EXCEPT !.status = status]
            converted == status = "OK" /\ p.kind = "plain" /\ p.types # Visible
<1>6. /\ m \in Owner /\ m.shell /\ ~m.extracted /\ ~m.value /\ m.result /\ m.chunk = None
      /\ ~m.vectors /\ m.prepared # NoType /\ ~m.input /\ m.status = status
      /\ Pieces(m) = Pieces(nat["statement"])
  BY <1>1, <1>3 DEF Holding, Owner, Statuses, Pieces
<1>7. Put("statement", m)
  BY <1>2
<1>. HIDE DEF m
<1>8. /\ nat' \in [{"statement", "fresh"} -> Owner] /\ nat'["statement"] = m
      /\ nat'["fresh"] = NoOwner /\ live' \in Nat /\ Counted'
  BY <1>1, <1>3, <1>6, <1>7, MarkedIs
<1>9. /\ th' \in Threads /\ th'.pc \in {"leaving", "ran"} /\ (th'.pc = "leaving" <=> p.kind = "ddl")
      /\ th'.owner = "statement" /\ th'.phase = "none" /\ th'.before = th.before
      /\ th'.stale <=> converted
  <2>1. converted \in BOOLEAN
    OBVIOUS
  <2>. HIDE DEF converted
  <2>2. th' = [th EXCEPT !.pc = IF p.kind = "ddl" THEN "leaving" ELSE "ran", !.stale = converted]
    BY <1>2 DEF converted
  <2>. QED
    BY <1>3, <2>1, <2>2 DEF Threads, Pcs
<1>10. TypeOK'
  BY <1>1, <1>3, <1>5, <1>8, <1>9, ValuesAre DEF TypeOK, Threads, Transactions
<1>11. Roomy'
  <2>1. Owed' = Owed
    BY <1>1, <1>5, <1>9 DEF Owed, Bit
  <2>. QED
    BY <1>1, <2>1 DEF IInv, Roomy
<1>12. Owners'
  <2>1. Holding(nat["statement"], p.result)'
    BY <1>1, <1>3, <1>6, <1>8, <1>9 DEF Holding
  <2>. QED
    BY <1>1, <1>3, <1>8, <1>9, <2>1, UsingOwners DEF PreparingPcs
<1>13. Viewed(nat["statement"])'
  BY <1>6, <1>8 DEF Viewed
<1>14. InScope'
  BY <1>1, <1>4, <1>5, <1>9 DEF IInv, InScope
<1>15. OtherScope' /\ Dated'
  BY <1>1, <1>9 DEF IInv, OtherScope, Dated
<1>16. Sound'
  <2>1. p.kind = "plain" => p.types # None
    BY <1>3, ValuesAssumption DEF IInv, Sound, ParameterTypes
  <2>. QED
    BY <1>1, <1>4, <1>5, <1>9, <2>1 DEF IInv, Sound, Changing
<1>17. Resolved' /\ Contained'
  BY <1>1, <1>4, <1>5, <1>6, <1>8, <1>9 DEF IInv, Resolved, Contained, PreparingPcs
<1>. QED
  BY <1>8, <1>10, <1>11, <1>12, <1>13, <1>14, <1>15, <1>16, <1>17 DEF IInv

\* The epoch advances after the statement's own change.
LEMMA RunLeaveKeeps ==
    ASSUME IInv, RunLeave
    PROVE  IInv'
<1>1. /\ th.pc = "leaving" /\ th.pc \in ExecutingPcs /\ Goto("ran") /\ epoch' = epoch + 1
      /\ UNCHANGED <<schema, ddl, cancelled, tx, p, nat, live>>
  BY DEF RunLeave, ExecutingPcs, Engine
<1>2. /\ TypeOK /\ p.state = "open" /\ ~p.result /\ th.owner = "statement" /\ th.phase = "none"
      /\ th \in Threads /\ Holding(nat["statement"], p.result) /\ tx \in Transactions
      /\ epoch \in Nat /\ p.kind = "ddl"
  BY <1>1, ExecutingIs DEF IInv, Owners, Shaped
<1>3. /\ Owed \in 0..4 /\ Owed' \in 0..4 /\ MaxEpoch \in Nat /\ None \notin Nat
      /\ p.validated \in Nat \/ p.validated = None
      /\ th.before \in Nat \/ th.before = None
  BY <1>2, OwedIs, EpochsAre
<1>4. /\ th' \in Threads /\ th'.pc = "ran" /\ th'.owner = "statement" /\ th'.phase = "none"
      /\ th'.before = th.before /\ th'.stale = th.stale
  BY <1>1, <1>2, GotoIs DEF Pcs
<1>5. epoch' \in 0..MaxEpoch /\ Roomy'
  <2>1. Owed' = Owed - 1
    BY <1>1, <1>2, <1>4 DEF Owed, Bit
  <2>. QED
    BY <1>1, <1>2, <1>3, <2>1 DEF IInv, Roomy
<1>6. TypeOK' /\ Owners' /\ Counted' /\ Viewed(nat["statement"])' /\ OtherScope' /\ Resolved'
  <2>1. th'.pc \in ExecutingPcs
    BY <1>4 DEF ExecutingPcs
  <2>2. nat["statement"].result
    BY <1>1, <1>2 DEF Holding
  <2>. QED
    BY <1>1, <1>2, <1>4, <1>5, <2>1, <2>2, ExecutingSteps
<1>7. InScope' /\ Dated'
  BY <1>1, <1>2, <1>3, <1>4 DEF IInv, InScope, Dated, InTransaction
<1>8. Sound' /\ Contained'
  BY <1>1, <1>2, <1>4 DEF IInv, Sound, Changing, Contained, PreparingPcs
<1>. QED
  BY <1>5, <1>6, <1>7, <1>8 DEF IInv

\* An execution that converted values is not taken for current.
LEMMA RanKeeps ==
    ASSUME IInv, Ran
    PROVE  IInv'
<1>1. /\ th.pc = "ran" /\ th.pc \in ExecutingPcs
      /\ UNCHANGED <<schema, ddl, epoch, cancelled, p>>
  BY DEF Ran, ExecutingPcs, Engine
<1>2. /\ TypeOK /\ p.state = "open" /\ ~p.result /\ th.owner = "statement" /\ th.phase = "none"
      /\ th \in Threads /\ Holding(nat["statement"], p.result) /\ tx \in Transactions
      /\ epoch \in 0..MaxEpoch /\ epoch # None /\ InTransaction
  BY <1>1, ExecutingIs DEF IInv, InScope
<1>3. /\ tx.snapshot # None
      /\ th.stale => p.kind = "plain" /\ tx.snapshot # p.types /\ nat["statement"].status = "OK"
  BY <1>1, <1>2 DEF IInv, Contained
<1>4. ASSUME UNCHANGED <<nat, live>>, th' \in Threads, th'.pc \in {"commit", "fail"},
             th'.owner = "statement", th'.phase = "none", th'.before = th.before,
             th'.stale => th.stale, th'.pc = "commit" => ~th'.stale,
             tx' = tx \/ tx' = [tx EXCEPT !.raised = @ \/ tx.explicit],
             th'.pc = "fail" /\ th'.stale /\ tx'.explicit => tx'.raised \/ cancelled
      PROVE  IInv'
  <2>1. /\ tx' \in Transactions /\ tx'.explicit = tx.explicit /\ tx'.begun = tx.begun
        /\ tx'.snapshot = tx.snapshot /\ tx'.altered = tx.altered /\ tx'.dirty = tx.dirty
        /\ tx'.failure = tx.failure /\ (tx.raised => tx'.raised) /\ tx'.stale = tx.stale
        /\ tx'.spoilt = tx.spoilt
    BY <1>2, <1>4 DEF Transactions
  <2>2. TypeOK' /\ Owners' /\ Counted' /\ Viewed(nat["statement"])' /\ OtherScope' /\ Resolved'
    <3>1. th'.pc \in ExecutingPcs
      BY <1>4 DEF ExecutingPcs
    <3>2. nat["statement"].result
      BY <1>1, <1>2 DEF Holding
    <3>. QED
      BY <1>1, <1>2, <1>4, <2>1, <3>1, <3>2, ExecutingSteps
  <2>3. Roomy'
    <3>1. Owed' = Owed
      BY <1>1, <1>4, <2>1 DEF Owed, Bit
    <3>. QED
      BY <1>1, <3>1 DEF IInv, Roomy
  <2>4. InScope' /\ Dated'
    BY <1>1, <1>2, <1>4, <2>1 DEF IInv, InScope, Dated, InTransaction
  <2>5. Sound'
    BY <1>1, <1>4, <2>1 DEF IInv, Sound, Changing
  <2>6. Contained'
    BY <1>1, <1>4, <2>1 DEF IInv, Contained, PreparingPcs
  <2>. QED
    BY <2>2, <2>3, <2>4, <2>5, <2>6 DEF IInv
<1>5. CASE ~Settled("statement") /\ Goto("fail") /\ UNCHANGED <<tx, nat, live>>
  <2>1. /\ th' \in Threads /\ th'.pc = "fail" /\ th'.owner = "statement" /\ th'.phase = "none"
        /\ th'.before = th.before /\ th'.stale = th.stale
    BY <1>2, <1>5, GotoIs DEF Pcs
  <2>2. th'.stale => cancelled
    BY <1>3, <1>5, <2>1 DEF Settled
  <2>. QED
    BY <1>4, <1>5, <2>1, <2>2
<1>6. CASE /\ Goto("fail") /\ tx' = [tx EXCEPT !.raised = @ \/ tx.explicit]
           /\ UNCHANGED <<nat, live>>
  <2>1. /\ th' \in Threads /\ th'.pc = "fail" /\ th'.owner = "statement" /\ th'.phase = "none"
        /\ th'.before = th.before /\ th'.stale = th.stale
    BY <1>2, <1>6, GotoIs DEF Pcs
  <2>2. tx'.explicit => tx'.raised
    BY <1>2, <1>6 DEF Transactions
  <2>. QED
    BY <1>4, <1>6, <2>1, <2>2
<1>7. CASE /\ Recheckless /\ th' = [th EXCEPT !.pc = "commit", !.stale = @ /\ ~InFlight]
           /\ UNCHANGED <<tx, nat, live>>
  <2>. DEFINE stale == th.stale /\ ~InFlight
  <2>1. ~stale
    <3>. SUFFICES ASSUME th.stale, ~InFlight PROVE FALSE
      OBVIOUS
    <3>1. p.kind = "plain" /\ tx.snapshot # p.types
      BY <1>3
    <3>2. IF th.before = None THEN tx.snapshot = p.types ELSE th.before = p.validated
      BY <1>1, <1>2, <3>1 DEF IInv, Sound
    <3>3. th.before = epoch
      BY <1>7, <3>1, <3>2 DEF Recheckless
    <3>4. ~Changing
      BY DEF InFlight, Changing
    <3>5. tx.snapshot = p.types
      BY <1>2, <1>3, <3>1, <3>2, <3>3, <3>4 DEF IInv, Sound
    <3>. QED
      BY <3>1, <3>5
  <2>2. stale \in BOOLEAN /\ th' = [th EXCEPT !.pc = "commit", !.stale = stale]
    BY <1>7
  <2>. HIDE DEF stale
  <2>3. /\ th' \in Threads /\ th'.pc = "commit" /\ th'.owner = "statement" /\ th'.phase = "none"
        /\ th'.before = th.before /\ ~th'.stale
    BY <1>2, <2>1, <2>2 DEF Threads, Pcs
  <2>. QED
    BY <1>4, <1>7, <2>3
<1>8. CASE Reprepare("recheck") /\ UNCHANGED tx
  BY <1>1, <1>8, ReprepareKeeps
<1>. QED
  BY <1>5, <1>6, <1>7, <1>8 DEF Ran

\* The fresh owner is compared and closed: types that did not change are those of the
\* snapshot, and a conversion that was missed is not among them.
LEMMA CompareKeeps ==
    ASSUME IInv, Compare
    PROVE  IInv'
<1>. DEFINE raised == th.pc = "release"
            same == ~raised /\ Settled("fresh") /\ Unchanged
            valid == same /\ th.phase = "validate" /\ Stable(~tx.explicit) # None
            pc == IF ~same THEN "fail" ELSE IF th.phase = "validate" THEN "run" ELSE "commit"
            type == nat["fresh"].prepared
<1>1. /\ th.pc \in {"prepared", "release"} /\ th.pc \in PreparingPcs /\ th.owner = "fresh"
      /\ Released("fresh", NoOwner) /\ UNCHANGED <<schema, ddl, epoch, cancelled>>
      /\ p' = (IF valid THEN [p EXCEPT !.validated = th.before] ELSE p)
      /\ tx' = (IF same THEN tx
                ELSE IF raised THEN [tx EXCEPT !.raised = @ \/ tx.explicit] ELSE Poison)
      /\ th' = [th EXCEPT !.owner = "statement", !.before = None, !.phase = "none", !.pc = pc]
  BY DEF Compare, PreparingPcs, Engine
<1>2. /\ TypeOK /\ Counted /\ nat \in [{"statement", "fresh"} -> Owner] /\ live \in Nat
      /\ th \in Threads /\ p \in Statements /\ tx \in Transactions /\ p.state = "open"
      /\ th.phase \in {"validate", "recheck"} /\ InTransaction /\ Viewed(nat["statement"])
      /\ Holding(nat["statement"], p.result) /\ epoch \in 0..MaxEpoch
  <2>1. th \in Threads /\ th.phase # "none"
    BY <1>1, PreparingIs
  <2>. QED
    BY <1>1, <2>1, PreparingIs, ValuesAre DEF IInv, Owners, Threads
<1>3. /\ th.stale => /\ th.phase = "recheck" /\ p.kind = "plain" /\ tx.snapshot # None
                     /\ tx.snapshot # p.types
      /\ ~p.result
  BY <1>1, <1>2 DEF IInv, Contained, PreparingPcs, Holding
<1>4. ASSUME same
      PROVE  /\ th.pc = "prepared" /\ type = p.types /\ p.types \in ParameterTypes
             /\ p.types # NoType
             /\ p.kind = "plain" => tx.snapshot = p.types
             /\ p.kind = "plain" /\ ~tx.explicit /\ th.phase = "validate" /\ th.before = epoch
                    /\ ~Changing => p.types = schema.committed
  <2>1. th.pc = "prepared" /\ type = p.types
    BY <1>1, <1>4 DEF Unchanged
  <2>2. p.types \in ParameterTypes /\ p.types # NoType
    BY <1>2, ValuesAssumption DEF IInv, Sound, ParameterTypes, NoParameters
  <2>. QED
    BY <1>1, <1>2, <2>1, <2>2 DEF IInv, Resolved
<1>5. valid => same /\ th.phase = "validate" /\ ~tx.explicit /\ th.before = epoch
  BY DEF Stable
<1>6. pc \in {"fail", "run", "commit"} /\ (pc # "fail" => same)
      /\ (pc = "run" => th.phase = "validate") /\ (pc = "commit" => th.phase = "recheck")
  BY <1>2
<1>7. ~same => pc = "fail"
  OBVIOUS
<1>8. same \in BOOLEAN /\ valid \in BOOLEAN /\ raised \in BOOLEAN
  OBVIOUS
<1>. HIDE DEF valid, same, pc, raised
<1>9. /\ nat' \in [{"statement", "fresh"} -> Owner] /\ nat'["fresh"] = NoOwner
      /\ nat'["statement"] = nat["statement"] /\ live' \in Nat /\ Counted'
  BY <1>1, <1>2, NoOwnerIs, ReleasedIs
<1>10. /\ th' \in Threads /\ th'.pc = pc /\ th'.owner = "statement" /\ th'.phase = "none"
       /\ th'.before = None /\ th'.stale = th.stale
  BY <1>1, <1>2, <1>6 DEF Threads, Pcs
<1>11. /\ p' \in Statements /\ p'.state = "open" /\ p'.kind = p.kind /\ p'.types = p.types
       /\ p'.result = p.result
       /\ p'.validated = (IF valid THEN epoch ELSE p.validated)
  <2>1. CASE valid
    <3>1. p' = [p EXCEPT !.validated = epoch]
      BY <1>1, <1>5, <2>1
    <3>. QED
      BY <1>2, <2>1, <3>1 DEF Statements
  <2>2. CASE ~valid
    BY <1>1, <1>2, <2>2
  <2>. QED
    BY <2>1, <2>2
<1>12. /\ tx' \in Transactions /\ tx'.explicit = tx.explicit /\ tx'.begun = tx.begun
       /\ tx'.snapshot = tx.snapshot /\ tx'.altered = tx.altered /\ tx'.dirty = tx.dirty
       /\ (tx.failure => tx'.failure) /\ (tx.raised => tx'.raised) /\ tx'.stale = tx.stale
       /\ tx'.spoilt = tx.spoilt
       /\ ~same /\ th.phase = "recheck" /\ tx.explicit => tx'.failure \/ tx'.raised
  <2>1. CASE same
    BY <1>1, <1>2, <2>1
  <2>2. CASE ~same /\ raised
    <3>1. tx' = [tx EXCEPT !.raised = @ \/ tx.explicit]
      BY <1>1, <2>2
    <3>. QED
      BY <1>2, <3>1 DEF Transactions
  <2>3. CASE ~same /\ ~raised
    <3>1. tx' = [tx EXCEPT !.failure = @ \/ (tx.explicit /\ th.phase = "recheck")]
      BY <1>1, <2>3 DEF Poison
    <3>. QED
      BY <1>2, <3>1 DEF Transactions
  <2>. QED
    BY <1>8, <2>1, <2>2, <2>3
<1>13. TypeOK'
  BY <1>1, <1>2, <1>9, <1>10, <1>11, <1>12, ValuesAre
     DEF TypeOK, Threads, Transactions, Statements
<1>14. Roomy'
  <2>1. Owed' = Owed
    BY <1>1, <1>6, <1>10, <1>11, <1>12 DEF Owed, Bit
  <2>. QED
    BY <1>1, <2>1 DEF IInv, Roomy
<1>15. Owners'
  <2>1. Holding(nat["statement"], p.result)'
    BY <1>1, <1>2, <1>6, <1>9, <1>10, <1>11 DEF Holding
  <2>2. th'.pc \notin PreparingPcs /\ th'.pc # "leaving"
    BY <1>6, <1>10 DEF PreparingPcs
  <2>. QED
    BY <1>9, <1>10, <1>11, <2>1, <2>2, UsingOwners
<1>16. Viewed(nat["statement"])'
  BY <1>2, <1>9 DEF Viewed
<1>17. InScope'
  BY <1>1, <1>2, <1>6, <1>10, <1>12 DEF IInv, InScope, InTransaction
<1>18. OtherScope' /\ Dated'
  BY <1>1, <1>2, <1>10, <1>11 DEF IInv, OtherScope, Dated
<1>19. Sound'
  <2>1. p.kind = "plain" /\ p'.validated = epoch /\ ~Changing =>
            /\ p.types = schema.committed
            /\ tx.snapshot # None => tx.snapshot = p.types
    <3>1. CASE valid
      BY <1>4, <1>5, <3>1
    <3>2. CASE ~valid
      BY <1>2, <1>11, <3>2 DEF IInv, Sound
    <3>. QED
      BY <3>1, <3>2
  <2>2. p.kind = "plain" /\ th'.pc \in {"run", "running", "leaving", "ran"} => tx.snapshot = p.types
    BY <1>4, <1>6, <1>10
  <2>3. p.types \in ParameterTypes /\ (p.types = NoParameters <=> p.kind = "constant")
    BY <1>2 DEF IInv, Sound
  <2>. QED
    BY <1>1, <1>10, <1>11, <1>12, <2>1, <2>2, <2>3 DEF Sound, Changing
<1>20. Resolved'
  BY <1>6, <1>10 DEF Resolved
<1>21. Contained'
  <2>1. th'.pc # "fail" => ~th.stale
    BY <1>3, <1>4, <1>6, <1>10
  <2>2. th'.pc = "fail" /\ th.stale /\ tx.explicit => tx'.failure \/ tx'.raised
    <3>. SUFFICES ASSUME th.stale, tx.explicit PROVE tx'.failure \/ tx'.raised
      OBVIOUS
    <3>1. ~same
      BY <1>3, <1>4
    <3>. QED
      BY <1>3, <1>12, <3>1
  <2>3. /\ tx.stale => tx.failure \/ tx.raised \/ cancelled
        /\ ~tx.spoilt
    BY DEF IInv, Contained
  <2>. QED
    BY <1>1, <1>6, <1>10, <1>12, <2>1, <2>2, <2>3 DEF Contained, PreparingPcs
<1>. QED
  BY <1>9, <1>13, <1>14, <1>15, <1>16, <1>17, <1>18, <1>19, <1>20, <1>21 DEF IInv

\* What the end of a transaction that changed the schema costs.
LEMMA SettledEpoch ==
    ASSUME IInv, NEW b \in BOOLEAN, b => tx.dirty, epoch' = epoch + Bit(b),
           Owed' + Bit(b) <= Owed
    PROVE  /\ epoch' \in 0..MaxEpoch /\ Roomy' /\ epoch' >= epoch /\ epoch' \in Nat
           /\ b => epoch' # epoch /\ p.validated # epoch'
           /\ ~b => epoch' = epoch
           /\ p.validated # None => p.validated <= epoch'
           /\ th.before # None => th.before <= epoch'
<1>1. /\ epoch \in Nat /\ MaxEpoch \in Nat /\ None \notin Nat /\ Owed \in 0..4 /\ Owed' \in 0..4
      /\ p.validated \in Nat \/ p.validated = None
      /\ th.before \in Nat \/ th.before = None
      /\ epoch + Owed <= MaxEpoch
      /\ p.validated # None => p.validated <= epoch
      /\ th.before # None => th.before <= epoch
  BY EpochsAre, OwedIs DEF IInv, Roomy, Dated
<1>2. PICK o \in 0..4, q \in 0..4, d \in 0..1 : o = Owed /\ q = Owed' /\ d = Bit(b)
  BY <1>1, BitIs
<1>3. q + d <= o /\ epoch + o <= MaxEpoch /\ epoch' = epoch + d
  BY <1>1, <1>2
<1>4. epoch' \in 0..MaxEpoch /\ epoch' + q <= MaxEpoch /\ epoch' >= epoch /\ epoch' \in Nat
  BY <1>1, <1>3
<1>5. (b => d = 1) /\ (~b => d = 0)
  BY <1>2, BitIs
<1>6. b => epoch' # epoch /\ p.validated # epoch'
  <2>1. PICK e \in Nat, f \in Nat : e = epoch /\ f = epoch'
    BY <1>1, <1>4
  <2>2. d = 1 => f > e
    BY <1>3, <2>1
  <2>3. f > e => f # e /\ (p.validated \in Nat /\ p.validated <= e => p.validated # f)
    BY <2>1
  <2>4. (p.validated \in Nat /\ p.validated <= e) \/ p.validated = None
    BY <1>1, <2>1
  <2>5. f # None
    BY <1>1, <2>1
  <2>. QED
    BY <1>5, <2>1, <2>2, <2>3, <2>4, <2>5
<1>7. Roomy'
  BY <1>2, <1>4 DEF Roomy
<1>8. /\ ~b => epoch' = epoch
      /\ p.validated # None => p.validated <= epoch'
      /\ th.before # None => th.before <= epoch'
  BY <1>1, <1>3, <1>4, <1>5
<1>. QED
  BY <1>4, <1>6, <1>7, <1>8

\* The internal transaction commits, or the explicit one goes on.
LEMMA CommitKeeps ==
    ASSUME IInv, Commit
    PROVE  IInv'
<1>1. /\ th.pc = "commit" /\ th.pc \in ExecutingPcs
      /\ UNCHANGED <<schema, ddl, cancelled, p, nat, live>>
  BY DEF Commit, ExecutingPcs, Engine
<1>2. /\ TypeOK /\ p.state = "open" /\ ~p.result /\ th.owner = "statement" /\ th.phase = "none"
      /\ ~th.stale /\ th \in Threads /\ Holding(nat["statement"], p.result) /\ tx \in Transactions
      /\ epoch \in 0..MaxEpoch /\ epoch \in Nat /\ InTransaction
  BY <1>1, ExecutingIs DEF IInv, Contained, InScope
<1>3. ASSUME NEW pc \in {"publish", "fail"}, Goto(pc), NEW b \in BOOLEAN, b => tx.dirty,
             epoch' = epoch + Bit(b), tx' \in Transactions,
             tx'.explicit = tx.explicit, tx'.begun => tx.begun, pc = "publish" => ~tx'.begun,
             tx'.snapshot \in {tx.snapshot, None}, tx'.explicit => tx'.snapshot = tx.snapshot,
             tx'.begun \/ tx'.explicit \/ tx'.snapshot = None,
             tx'.altered => tx.altered /\ tx'.dirty = tx.dirty /\ tx'.snapshot = tx.snapshot,
             b => ~tx'.dirty, tx'.dirty => tx.dirty,
             tx'.failure = tx.failure \/ ~tx'.stale, tx'.raised = tx.raised \/ ~tx'.stale,
             tx'.stale => tx.stale, ~tx'.spoilt
      PROVE  IInv'
    <2>1. /\ th' \in Threads /\ th'.pc = pc /\ th'.owner = "statement" /\ th'.phase = "none"
          /\ th'.before = th.before /\ th'.stale = th.stale
      BY <1>2, <1>3, GotoIs DEF Pcs
    <2>2. Owed' + Bit(b) <= Owed
      BY <1>1, <1>2, <1>3, <2>1 DEF Owed, Bit, Transactions
    <2>3. /\ epoch' \in 0..MaxEpoch /\ Roomy' /\ epoch' >= epoch /\ epoch' \in Nat
          /\ b => epoch' # epoch /\ p.validated # epoch'
          /\ ~b => epoch' = epoch
          /\ p.validated # None => p.validated <= epoch'
          /\ th.before # None => th.before <= epoch'
      BY <1>3, <2>2, SettledEpoch
    <2>4. TypeOK' /\ Owners' /\ Counted' /\ Viewed(nat["statement"])' /\ OtherScope' /\ Resolved'
      <3>1. th'.pc \in ExecutingPcs
        BY <2>1 DEF ExecutingPcs
      <3>2. nat["statement"].result
        BY <1>1, <1>2 DEF Holding
      <3>. QED
        BY <1>1, <1>2, <1>3, <2>1, <2>3, <3>1, <3>2, ExecutingSteps
    <2>5. InScope'
      BY <1>1, <1>2, <1>3, <2>1 DEF IInv, InScope, InTransaction
    <2>6. Dated'
      BY <1>1, <2>1, <2>3 DEF Dated
    <2>7. Sound'
      BY <1>1, <1>3, <2>1, <2>3 DEF IInv, Sound, Changing
    <2>8. Contained'
      BY <1>1, <1>2, <1>3, <2>1 DEF IInv, Contained, PreparingPcs
    <2>. QED
      BY <2>3, <2>4, <2>5, <2>6, <2>7, <2>8 DEF IInv
<1>4. /\ tx.altered => tx.explicit /\ tx.dirty
      /\ tx.begun => ~tx.explicit
      /\ ~tx.spoilt /\ (tx.explicit \/ tx.begun)
  BY <1>2 DEF IInv, InScope, Contained, InTransaction
<1>5. CASE tx.explicit /\ Goto("publish") /\ tx' = [tx EXCEPT !.stale = @ \/ th.stale]
           /\ UNCHANGED epoch
  <2>1. tx' = tx
    BY <1>2, <1>5 DEF Transactions
  <2>2. epoch' = epoch + Bit(FALSE)
    BY <1>2, <1>5 DEF Bit
  <2>. QED
    BY <1>2, <1>3, <1>4, <1>5, <2>1, <2>2
<1>6. CASE ~tx.explicit /\ Goto("fail") /\ UNCHANGED <<tx, epoch>>
  <2>1. epoch' = epoch + Bit(FALSE)
    BY <1>2, <1>6 DEF Bit
  <2>. QED
    BY <1>2, <1>3, <1>4, <1>6, <2>1
<1>7. CASE ~tx.explicit /\ Goto("fail") /\ tx' = [tx EXCEPT !.dirty = FALSE]
           /\ epoch' = epoch + Bit(tx.dirty)
  <2>1. /\ tx' \in Transactions /\ tx'.explicit = tx.explicit /\ tx'.begun = tx.begun
        /\ tx'.snapshot = tx.snapshot /\ tx'.altered = tx.altered /\ ~tx'.dirty
        /\ tx'.failure = tx.failure /\ tx'.raised = tx.raised /\ tx'.stale = tx.stale
        /\ tx'.spoilt = tx.spoilt /\ tx.dirty \in BOOLEAN
    BY <1>2, <1>7 DEF Transactions
  <2>. QED
    BY <1>2, <1>3, <1>4, <1>7, <2>1
<1>8. CASE ~tx.explicit /\ Goto("publish")
           /\ tx' = [NoTransaction EXCEPT !.spoilt = tx.spoilt \/ th.stale]
           /\ epoch' = epoch + Bit(tx.dirty)
  <2>1. tx.dirty \in BOOLEAN
    BY <1>2 DEF Transactions
  <2>2. /\ tx' \in Transactions /\ tx'.explicit = tx.explicit /\ ~tx'.explicit /\ ~tx'.begun
        /\ tx'.snapshot = None /\ ~tx'.altered /\ ~tx'.dirty /\ ~tx'.stale /\ ~tx'.spoilt
    BY <1>2, <1>4, <1>8 DEF Transactions, NoTransaction
  <2>. QED
    BY <1>2, <1>3, <1>4, <1>8, <2>1, <2>2
<1>. QED
  BY <1>5, <1>6, <1>7, <1>8 DEF Commit

\* The result is published, unless the request was cancelled.
LEMMA PublishKeeps ==
    ASSUME IInv, Publish
    PROVE  IInv'
<1>1. /\ th.pc = "publish" /\ th.pc \in ExecutingPcs
      /\ UNCHANGED <<schema, ddl, epoch, cancelled, tx, nat, live>>
  BY DEF Publish, ExecutingPcs, Engine
<1>2. /\ TypeOK /\ Counted /\ p.state = "open" /\ ~p.result /\ th.owner = "statement"
      /\ th.phase = "none" /\ ~th.stale /\ th \in Threads /\ Holding(nat["statement"], p.result)
      /\ tx \in Transactions /\ p \in Statements /\ nat["fresh"] = NoOwner /\ epoch \in 0..MaxEpoch
      /\ Viewed(nat["statement"]) /\ nat["statement"].result /\ ~tx.begun
  BY <1>1, ExecutingIs DEF IInv, Contained, Holding, InScope
<1>3. CASE Goto("fail") /\ UNCHANGED p
  <2>1. /\ th' \in Threads /\ th'.pc = "fail" /\ th'.owner = "statement" /\ th'.phase = "none"
        /\ th'.before = th.before /\ th'.stale = th.stale
    BY <1>2, <1>3, GotoIs DEF Pcs
  <2>2. TypeOK' /\ Owners' /\ Counted' /\ Viewed(nat["statement"])' /\ OtherScope' /\ Resolved'
    <3>1. th'.pc \in ExecutingPcs
      BY <2>1 DEF ExecutingPcs
    <3>. QED
      BY <1>1, <1>2, <1>3, <2>1, <3>1, ExecutingSteps
  <2>3. Roomy'
    <3>1. Owed' = Owed
      BY <1>1, <1>3, <2>1 DEF Owed, Bit
    <3>. QED
      BY <1>1, <3>1 DEF IInv, Roomy
  <2>4. InScope' /\ Dated' /\ Sound' /\ Contained'
    BY <1>1, <1>2, <1>3, <2>1
       DEF IInv, InScope, InTransaction, Dated, Sound, Changing, Contained, PreparingPcs
  <2>. QED
    BY <2>2, <2>3, <2>4 DEF IInv
<1>4. CASE p' = [p EXCEPT !.result = TRUE] /\ th' = [Resting EXCEPT !.stale = th.stale]
  <2>1. /\ p' \in Statements /\ p'.state = "open" /\ p'.kind = p.kind /\ p'.types = p.types
        /\ p'.result /\ p'.validated = p.validated
    BY <1>2, <1>4 DEF Statements
  <2>2. /\ th' \in Threads /\ th'.pc = "idle" /\ th'.owner = "statement" /\ th'.phase = "none"
        /\ th'.before = None /\ ~th'.stale
    BY <1>2, <1>4 DEF Threads, Resting, Pcs
  <2>3. TypeOK'
    BY <1>1, <1>2, <2>1, <2>2, ValuesAre DEF TypeOK, Threads, Statements
  <2>4. Roomy'
    <3>1. Owed' = Owed
      BY <1>1, <2>1, <2>2 DEF Owed, Bit
    <3>. QED
      BY <1>1, <3>1 DEF IInv, Roomy
  <2>5. Owners'
    <3>1. Holding(nat["statement"], p.result)'
      BY <1>1, <1>2, <2>1, <2>2 DEF Holding
    <3>. QED
      BY <1>1, <1>2, <2>1, <2>2, <3>1, UsingOwners DEF PreparingPcs
  <2>6. Counted' /\ Viewed(nat["statement"])'
    BY <1>1, <1>2 DEF Counted, Viewed
  <2>7. InScope' /\ OtherScope' /\ Dated'
    BY <1>1, <1>2, <2>1, <2>2 DEF IInv, InScope, InTransaction, OtherScope, Dated
  <2>8. Sound' /\ Resolved' /\ Contained'
    BY <1>1, <1>2, <2>1, <2>2 DEF IInv, Sound, Changing, Resolved, Contained, PreparingPcs
  <2>. QED
    BY <1>2, <2>3, <2>4, <2>5, <2>6, <2>7, <2>8 DEF IInv
<1>. QED
  BY <1>3, <1>4 DEF Publish

\* An execution fails: its result is closed, its own transaction rolled back.
LEMMA FailKeeps ==
    ASSUME IInv, Fail
    PROVE  IInv'
<1>1. /\ th.pc = "fail" /\ th.pc \in ExecutingPcs /\ th' = Resting
      /\ epoch' = epoch + Bit(tx.begun /\ tx.dirty)
      /\ tx' = (IF tx.explicit THEN [tx EXCEPT !.stale = @ \/ th.stale]
                ELSE [NoTransaction EXCEPT !.spoilt = tx.spoilt])
      /\ UNCHANGED <<schema, ddl, cancelled>>
  BY DEF Fail, ExecutingPcs, Engine
<1>2. /\ TypeOK /\ Counted /\ p.state = "open" /\ ~p.result /\ th.owner = "statement"
      /\ th.phase = "none" /\ th \in Threads /\ Holding(nat["statement"], p.result)
      /\ tx \in Transactions /\ p \in Statements /\ nat["fresh"] = NoOwner /\ epoch \in 0..MaxEpoch
      /\ nat["statement"] \in Owner
  BY <1>1, ExecutingIs
<1>3. /\ tx.begun => ~tx.explicit
      /\ tx.altered => tx.explicit /\ tx.dirty /\ tx.snapshot # None
      /\ ~tx.spoilt
      /\ tx.stale \/ (th.stale /\ tx.explicit) => tx.failure \/ tx.raised \/ cancelled
  BY <1>1, <1>2 DEF IInv, InScope, Contained
<1>4. /\ tx' \in Transactions /\ tx'.explicit = tx.explicit /\ ~tx'.begun /\ ~tx'.spoilt
      /\ tx.explicit => /\ tx'.snapshot = tx.snapshot /\ tx'.altered = tx.altered
                        /\ tx'.dirty = tx.dirty /\ tx'.failure = tx.failure /\ tx'.raised = tx.raised
                        /\ (tx'.stale <=> tx.stale \/ th.stale)
      /\ ~tx.explicit => tx'.snapshot = None /\ ~tx'.altered /\ ~tx'.dirty /\ ~tx'.stale
  <2>1. CASE tx.explicit
    <3>. DEFINE stale == tx.stale \/ th.stale
    <3>1. stale \in BOOLEAN /\ tx' = [tx EXCEPT !.stale = stale]
      BY <1>1, <1>2, <2>1 DEF Transactions
    <3>2. tx'.stale <=> tx.stale \/ th.stale
      BY <1>2, <3>1 DEF Transactions
    <3>. HIDE DEF stale
    <3>. QED
      BY <1>2, <1>3, <2>1, <3>1, <3>2 DEF Transactions
  <2>2. CASE ~tx.explicit
    BY <1>1, <1>2, <1>3, <2>2 DEF NoTransaction, Transactions
  <2>. QED
    BY <2>1, <2>2
<1>. DEFINE b == tx.begun /\ tx.dirty
<1>5. /\ epoch' \in 0..MaxEpoch /\ Roomy' /\ epoch' >= epoch /\ epoch' \in Nat
      /\ b => epoch' # epoch /\ p.validated # epoch'
      /\ ~b => epoch' = epoch
      /\ p.validated # None => p.validated <= epoch'
  <2>1. b \in BOOLEAN /\ (b => tx.dirty) /\ epoch' = epoch + Bit(b)
    BY <1>1
  <2>2. Owed' + Bit(b) <= Owed
    BY <1>1, <1>2, <1>3, <1>4, RestingIs DEF Owed, Bit, Transactions
  <2>. HIDE DEF b
  <2>. QED
    BY <2>1, <2>2, SettledEpoch
<1>. HIDE DEF b
<1>6. InScope' /\ OtherScope'
  BY <1>1, <1>2, <1>3, <1>4, RestingIs DEF IInv, InScope, InTransaction, OtherScope
<1>7. Contained'
  BY <1>1, <1>3, <1>4, RestingIs DEF Contained, PreparingPcs
<1>8. CASE Released("statement", ClearResult(nat["statement"])) /\ UNCHANGED p
  <2>. DEFINE m == ClearResult(nat["statement"])
  <2>1. /\ m \in Owner /\ m.shell /\ ~m.extracted /\ ~m.value /\ ~m.result /\ m.chunk = None
        /\ ~m.vectors /\ m.prepared # NoType /\ ~m.input
    <3>1. LET n == nat["statement"] IN
          /\ n.shell /\ ~n.extracted /\ ~n.value /\ n.prepared # NoType /\ ~n.input
      BY <1>1, <1>2 DEF Holding
    <3>. QED
      BY <1>2, <3>1, ClearResultIs
  <2>. HIDE DEF m
  <2>2. /\ nat' \in [{"statement", "fresh"} -> Owner] /\ nat'["statement"] = m
        /\ nat'["fresh"] = NoOwner /\ live' \in Nat /\ Counted'
    BY <1>2, <1>8, <2>1, ReleasedIs DEF m
  <2>3. TypeOK'
    BY <1>1, <1>2, <1>4, <1>5, <1>8, <2>2, RestingIs, ValuesAre
       DEF TypeOK, Threads, Transactions
  <2>4. Owners'
    <3>1. Holding(nat["statement"], p.result)'
      BY <1>2, <1>1, <1>8, <2>1, <2>2, RestingIs DEF Holding
    <3>. QED
      BY <1>1, <1>2, <1>8, <2>2, <3>1, RestingIs, UsingOwners DEF PreparingPcs
  <2>5. Viewed(nat["statement"])'
    BY <2>1, <2>2 DEF Viewed
  <2>6. Dated' /\ Resolved'
    BY <1>1, <1>5, <1>8, RestingIs DEF Dated, Resolved
  <2>7. Sound'
    BY <1>1, <1>4, <1>5, <1>8, RestingIs DEF IInv, Sound, Changing
  <2>. QED
    BY <1>5, <1>6, <1>7, <2>2, <2>3, <2>4, <2>5, <2>6, <2>7 DEF IInv
<1>9. CASE Released("statement", NoOwner) /\ p' = NoStatement
  <2>1. /\ nat' \in [{"statement", "fresh"} -> Owner] /\ live' \in Nat /\ Counted'
        /\ p' \in Statements /\ th' \in Threads
        /\ Owners' /\ Viewed(nat["statement"])' /\ Dated' /\ Sound' /\ Resolved'
    BY <1>1, <1>2, <1>9, Dropped
  <2>2. TypeOK'
    BY <1>1, <1>2, <1>4, <1>5, <2>1, ValuesAre DEF TypeOK, Statements, Threads, Transactions
  <2>. QED
    BY <1>5, <1>6, <1>7, <2>1, <2>2 DEF IInv
<1>. QED
  BY <1>8, <1>9 DEF Fail

-----------------------------------------------------------------------------
(* An explicit transaction of this connection.                              *)

\* Between two calls the thread uses the statement itself, if there is one.
LEMMA IdleIs ==
    ASSUME IInv, th.pc = "idle"
    PROVE  /\ TypeOK /\ Counted /\ th.owner = "statement" /\ th.phase = "none" /\ ~th.stale
           /\ nat["fresh"] = NoOwner /\ tx \in Transactions /\ ~tx.begun
           /\ epoch \in 0..MaxEpoch /\ epoch \in Nat /\ schema \in Schemas
           /\ nat \in [{"statement", "fresh"} -> Owner] /\ live \in Nat
           /\ p \in Statements /\ th \in Threads
<1>1. /\ TypeOK /\ Counted /\ Shaped /\ InScope /\ Contained
  BY DEF IInv, Owners
<1>2. /\ tx \in Transactions /\ epoch \in 0..MaxEpoch /\ epoch \in Nat /\ schema \in Schemas
      /\ nat \in [{"statement", "fresh"} -> Owner] /\ live \in Nat
      /\ p \in Statements /\ th \in Threads
  BY <1>1, ValuesAre, EpochsAre
<1>3. th.owner = "statement"
  BY <1>1, <1>2 DEF Shaped, PreparingPcs, Threads
<1>4. nat["fresh"] = NoOwner /\ th.phase = "none"
  BY <1>1, <1>3 DEF Shaped
<1>5. ~tx.begun /\ ~th.stale
  BY <1>1, <1>3 DEF InScope, Contained
<1>. QED
  BY <1>1, <1>2, <1>3, <1>4, <1>5

\* A transaction begins.
LEMMA BeginTransactionKeeps ==
    ASSUME IInv, BeginTransaction
    PROVE  IInv'
<1>1. /\ th.pc = "idle" /\ ~tx.explicit
      /\ tx' = [NoTransaction EXCEPT !.explicit = TRUE, !.spoilt = tx.spoilt]
      /\ UNCHANGED <<schema, ddl, epoch, cancelled, p, nat, live, th>>
  BY DEF BeginTransaction, Engine
<1>2. /\ TypeOK /\ th.owner = "statement" /\ ~th.stale /\ tx \in Transactions /\ ~tx.spoilt
  BY <1>1, IdleIs DEF IInv, Contained
<1>3. /\ tx' \in Transactions /\ tx'.explicit /\ ~tx'.begun /\ tx'.snapshot = None
      /\ ~tx'.altered /\ ~tx'.dirty /\ ~tx'.stale /\ ~tx'.spoilt
  BY <1>1, <1>2 DEF NoTransaction, Transactions
<1>4. TypeOK'
  BY <1>1, <1>2, <1>3, ValuesAre DEF TypeOK, Transactions
<1>5. Roomy'
  <2>1. Owed' <= Owed
    BY <1>1, <1>2, <1>3 DEF Owed, Bit
  <2>2. epoch \in Nat /\ MaxEpoch \in Nat /\ Owed \in 0..4 /\ Owed' \in 0..4
    BY <1>2, EpochsAre, OwedIs
  <2>3. epoch' + Owed' <= MaxEpoch
    BY <1>1, <2>1, <2>2 DEF IInv, Roomy
  <2>. QED
    BY <2>3 DEF Roomy
<1>6. Owners' /\ Counted' /\ Viewed(nat["statement"])'
  BY <1>1 DEF IInv, Owners, Shaped, Preparing, Holding, Counted, Viewed
<1>7. InScope' /\ OtherScope' /\ Dated'
  BY <1>1, <1>2, <1>3 DEF IInv, InScope, InTransaction, OtherScope, Dated
<1>8. Sound' /\ Resolved' /\ Contained'
  BY <1>1, <1>2, <1>3 DEF IInv, Sound, Changing, Resolved, Contained, PreparingPcs
<1>. QED
  BY <1>4, <1>5, <1>6, <1>7, <1>8 DEF IInv

\* The callback changes the schema in the transaction's own snapshot.
LEMMA AlterKeeps ==
    ASSUME IInv, Alter
    PROVE  IInv'
<1>1. /\ th.pc = "idle" /\ tx.explicit /\ Room /\ epoch' = epoch + 2
      /\ UNCHANGED <<schema, ddl, cancelled, p, nat, live, th>>
  BY DEF Alter, Engine
<1>2. PICK t \in Types : tx' = [tx EXCEPT !.snapshot = t, !.altered = TRUE, !.dirty = TRUE]
  BY DEF Alter
<1>3. /\ TypeOK /\ th.owner = "statement" /\ ~th.stale /\ tx \in Transactions /\ t # None
      /\ epoch \in Nat /\ MaxEpoch \in Nat /\ Owed \in 0..4 /\ Owed' \in 0..4
      /\ p.validated \in Nat \/ p.validated = None
      /\ th.before \in Nat \/ th.before = None
  BY <1>1, IdleIs, EpochsAre, OwedIs, ValuesAssumption
<1>4. /\ tx' \in Transactions /\ tx'.explicit /\ tx'.begun = tx.begun /\ tx'.snapshot = t
      /\ tx'.altered /\ tx'.dirty /\ tx'.failure = tx.failure /\ tx'.raised = tx.raised
      /\ tx'.stale = tx.stale /\ tx'.spoilt = tx.spoilt
  BY <1>1, <1>2, <1>3 DEF Transactions
<1>5. epoch' \in 0..MaxEpoch /\ Roomy'
  <2>1. Owed' <= Owed + 1
    BY <1>1, <1>3, <1>4 DEF Owed, Bit
  <2>2. PICK o \in 0..4, q \in 0..4 : o = Owed /\ q = Owed'
    BY <1>3
  <2>3. epoch + o + 3 <= MaxEpoch /\ q <= o + 1
    BY <1>1, <2>1, <2>2 DEF Room
  <2>4. epoch' \in 0..MaxEpoch /\ epoch' + q <= MaxEpoch
    BY <1>1, <1>3, <2>3
  <2>. QED
    BY <2>2, <2>4 DEF Roomy
<1>6. TypeOK'
  BY <1>1, <1>3, <1>4, <1>5, ValuesAre DEF TypeOK, Transactions
<1>7. Owners' /\ Counted' /\ Viewed(nat["statement"])'
  BY <1>1 DEF IInv, Owners, Shaped, Preparing, Holding, Counted, Viewed
<1>8. InScope' /\ OtherScope'
  BY <1>1, <1>3, <1>4 DEF IInv, InScope, InTransaction, OtherScope
<1>9. Dated' /\ p.validated # epoch'
  <2>1. None \notin Nat
    BY ValuesAssumption
  <2>. QED
    BY <1>1, <1>3, <2>1 DEF IInv, Dated
<1>10. Sound' /\ Resolved'
  BY <1>1, <1>9 DEF IInv, Sound, Changing, Resolved
<1>11. Contained'
  BY <1>1, <1>3, <1>4 DEF IInv, Contained, PreparingPcs
<1>. QED
  BY <1>5, <1>6, <1>7, <1>8, <1>9, <1>10, <1>11 DEF IInv

\* The transaction ends: what it committed of a changed schema has advanced the epoch,
\* and what was converted in it was not committed.
LEMMA EndTransactionKeeps ==
    ASSUME IInv, EndTransaction
    PROVE  IInv'
<1>1. /\ th.pc = "idle" /\ tx.explicit /\ th' = Resting /\ epoch' = epoch + Bit(tx.dirty)
      /\ UNCHANGED <<ddl, cancelled>>
      /\ \/ Released("statement", NoOwner) /\ p' = NoStatement
         \/ UNCHANGED <<nat, live, p>>
  BY DEF EndTransaction
<1>2. PICK commits \in BOOLEAN :
        /\ commits => ~tx.failure /\ ~tx.raised /\ ~cancelled
        /\ schema' = IF commits /\ tx.altered
                     THEN [schema EXCEPT !.committed = tx.snapshot] ELSE schema
        /\ tx' = [NoTransaction EXCEPT !.spoilt = tx.spoilt \/ (commits /\ tx.stale)]
  BY DEF EndTransaction
<1>3. /\ TypeOK /\ Counted /\ th.owner = "statement" /\ tx \in Transactions /\ schema \in Schemas
      /\ nat["fresh"] = NoOwner /\ ~tx.begun /\ live \in Nat
      /\ nat \in [{"statement", "fresh"} -> Owner] /\ p \in Statements /\ tx.dirty \in BOOLEAN
  <2>1. tx \in Transactions
    BY <1>1, IdleIs
  <2>. QED
    BY <1>1, <2>1, IdleIs DEF Transactions
<1>4. /\ tx.altered => tx.dirty /\ tx.snapshot # None
      /\ ~tx.spoilt /\ (tx.stale => tx.failure \/ tx.raised \/ cancelled)
  BY DEF IInv, InScope, Contained
<1>5. /\ tx' \in Transactions /\ ~tx'.explicit /\ ~tx'.begun /\ tx'.snapshot = None
      /\ ~tx'.altered /\ ~tx'.dirty /\ ~tx'.stale /\ ~tx'.spoilt
  <2>. DEFINE spoilt == tx.spoilt \/ (commits /\ tx.stale)
  <2>1. ~spoilt
    BY <1>2, <1>4
  <2>2. spoilt \in BOOLEAN /\ tx' = [NoTransaction EXCEPT !.spoilt = spoilt]
    BY <1>2, <1>3 DEF Transactions
  <2>. HIDE DEF spoilt
  <2>. QED
    BY <2>1, <2>2 DEF Transactions, NoTransaction
<1>6. /\ schema' \in Schemas /\ schema'.pending = schema.pending
      /\ ~tx.altered => schema' = schema
  <2>1. tx.altered => tx.snapshot \in Types
    BY <1>3, <1>4 DEF Transactions
  <2>. QED
    BY <1>2, <1>3, <2>1 DEF Schemas
<1>7. /\ epoch' \in 0..MaxEpoch /\ Roomy' /\ epoch' >= epoch /\ epoch' \in Nat
      /\ tx.dirty => epoch' # epoch /\ p.validated # epoch'
      /\ ~tx.dirty => epoch' = epoch
      /\ p.validated # None => p.validated <= epoch'
  <2>1. Owed' + Bit(tx.dirty) <= Owed
    BY <1>1, <1>3, <1>5, RestingIs DEF Owed, Bit
  <2>2. PICK b \in BOOLEAN : b = tx.dirty
    BY <1>3
  <2>3. epoch' = epoch + Bit(b) /\ Owed' + Bit(b) <= Owed /\ (b => tx.dirty)
    BY <1>1, <2>1, <2>2
  <2>. QED
    BY <2>2, <2>3, SettledEpoch
<1>8. InScope' /\ OtherScope' /\ Contained'
  BY <1>1, <1>5, <1>6, RestingIs
     DEF IInv, InScope, InTransaction, OtherScope, Contained, PreparingPcs
<1>9. CASE Released("statement", NoOwner) /\ p' = NoStatement
  <2>1. /\ nat' \in [{"statement", "fresh"} -> Owner] /\ live' \in Nat /\ Counted'
        /\ p' \in Statements /\ th' \in Threads
        /\ Owners' /\ Viewed(nat["statement"])' /\ Dated' /\ Sound' /\ Resolved'
    BY <1>1, <1>3, <1>9, Dropped
  <2>2. TypeOK'
    BY <1>1, <1>3, <1>5, <1>6, <1>7, <2>1, ValuesAre
       DEF TypeOK, Statements, Threads, Transactions, Schemas
  <2>. QED
    BY <1>7, <1>8, <2>1, <2>2 DEF IInv
<1>10. CASE UNCHANGED <<nat, live, p>>
  <2>1. TypeOK'
    BY <1>1, <1>3, <1>5, <1>6, <1>7, <1>10, RestingIs, ValuesAre
       DEF TypeOK, Threads, Transactions, Schemas
  <2>2. Owners'
    BY <1>1, <1>3, <1>10, RestingIs DEF IInv, Owners, Shaped, Preparing, Holding, PreparingPcs
  <2>3. Counted' /\ Viewed(nat["statement"])'
    BY <1>10 DEF IInv, Counted, Viewed
  <2>4. Dated' /\ Resolved'
    BY <1>1, <1>7, <1>10, RestingIs DEF Dated, Resolved
  <2>5. Sound'
    BY <1>1, <1>4, <1>5, <1>6, <1>7, <1>10, RestingIs DEF IInv, Sound, Changing
  <2>. QED
    BY <1>7, <1>8, <2>1, <2>2, <2>3, <2>4, <2>5 DEF IInv
<1>. QED
  BY <1>1, <1>9, <1>10

-----------------------------------------------------------------------------
(* The invariant, and what follows from it.                                 *)

\* Nothing changes while another system takes a step.
LEMMA StutterKeeps ==
    ASSUME IInv, UNCHANGED vars
    PROVE  IInv'
<1>1. UNCHANGED <<schema, epoch, ddl, cancelled, tx, p, nat, live, th>>
  BY DEF vars
<1>2. TypeOK'
  BY <1>1 DEF IInv, TypeOK
<1>3. Roomy' /\ Owners' /\ Counted' /\ Viewed(nat["statement"])'
  BY <1>1 DEF IInv, Roomy, Owed, Owners, Shaped, Preparing, Holding, Counted, Viewed
<1>4. InScope' /\ OtherScope' /\ Dated'
  BY <1>1 DEF IInv, InScope, InTransaction, OtherScope, Dated
<1>5. Sound' /\ Resolved' /\ Contained'
  BY <1>1 DEF IInv, Sound, Changing, Resolved, InTransaction, Contained
<1>. QED
  BY <1>2, <1>3, <1>4, <1>5 DEF IInv

\* Every step keeps the invariant.
LEMMA InvariantKept == IInv /\ [Next]_vars => IInv'
<1>. SUFFICES ASSUME IInv, [Next]_vars PROVE IInv'
  OBVIOUS
<1>1. CASE Other
  BY <1>1, SchemaEnterKeeps, SchemaExecuteKeeps, SchemaLeaveKeeps, OtherBeginKeeps,
     OtherSettleKeeps, OtherSettledKeeps
     DEF Other
<1>2. CASE Cancel
  BY <1>2, CancelKeeps
<1>3. CASE \E kind \in Kinds : PrepareOn(kind)
  BY <1>3, PrepareOnKeeps
<1>4. CASE Extract \/ PrepareExtracted \/ CleanPrepare \/ Register \/ ReleasePrepared
  BY <1>4, ExtractKeeps, PrepareExtractedKeeps, CleanPrepareKeeps, RegisterKeeps,
     ReleasePreparedKeeps
<1>5. CASE \E bytes \in BOOLEAN : Bind(bytes)
  BY <1>5, BindKeeps
<1>6. CASE BindCall \/ BindValue \/ Bound \/ Reset
  BY <1>6, BindCallKeeps, BindValueKeeps, BoundKeeps, ResetKeeps
<1>7. CASE Execute \/ BeginSnapshot \/ Validate \/ Compare
  BY <1>7, ExecuteKeeps, BeginSnapshotKeeps, ValidateKeeps, CompareKeeps
<1>8. CASE Run \/ Running \/ RunLeave \/ Ran
  BY <1>8, RunKeeps, RunningKeeps, RunLeaveKeeps, RanKeeps
<1>9. CASE Commit \/ Publish \/ Fail
  BY <1>9, CommitKeeps, PublishKeeps, FailKeeps
<1>10. CASE Fold \/ Fetch \/ DestroyResult \/ ClosePrepared
  BY <1>10, FoldKeeps, FetchKeeps, DestroyResultKeeps, ClosePreparedKeeps
<1>11. CASE BeginTransaction \/ Alter \/ EndTransaction
  BY <1>11, BeginTransactionKeeps, AlterKeeps, EndTransactionKeeps
<1>12. CASE UNCHANGED vars
  BY <1>12, StutterKeeps
<1>. QED
  BY <1>1, <1>2, <1>3, <1>4, <1>5, <1>6, <1>7, <1>8, <1>9, <1>10, <1>11, <1>12 DEF Next

\* The invariant holds in every reachable state.
LEMMA InvariantHolds == Spec => []IInv
BY InitEstablishes, InvariantKept, PTL DEF Spec

\* The variables keep their types.
THEOREM TypeCorrect == Spec => []TypeOK
<1>1. IInv => TypeOK
  BY DEF IInv
<1>. QED
  BY <1>1, InvariantHolds, PTL

\* Nothing native is lost or freed twice (prepared_stubs.c clear_prepared, clear_result,
\* ml_duckdb_prepare's way out): the count of live resources is what the owners hold, and
\* between two calls a statement holds what its record says and no more.
THEOREM ResourcesAreAccounted == Spec => []Accounted
<1>1. IInv => Accounted
  <2>. SUFFICES ASSUME IInv PROVE Accounted
    OBVIOUS
  <2>1. live = Pieces(nat["statement"]) + Pieces(nat["fresh"])
    BY DEF IInv, Counted
  <2>2. ASSUME th.pc = "idle"
        PROVE  LET n == nat["statement"] IN
               /\ ~n.input /\ ~n.extracted /\ ~n.value /\ n.chunk = None
               /\ n.shell <=> p.state = "open"
               /\ n.prepared # NoType <=> p.state = "open"
               /\ n.result <=> p.result
    <3>1. p.state \in {"none", "opening", "open"} /\ Shaped /\ th.owner = "statement"
      BY <2>2, IdleIs DEF IInv, Owners, Statements
    <3>2. CASE p.state = "open"
      BY <2>2, <3>2 DEF IInv, Owners, Holding
    <3>3. CASE p.state # "open"
      <4>1. nat["statement"] = NoOwner /\ ~p.result
        BY <2>2, <3>1, <3>3 DEF Shaped, PreparingPcs
      <4>. QED
        BY <3>3, <4>1 DEF NoOwner
    <3>. QED
      BY <3>2, <3>3
  <2>3. th.pc = "idle" => nat["fresh"] = NoOwner
    BY IdleIs
  <2>. QED
    BY <2>1, <2>2, <2>3 DEF Accounted
<1>. QED
  BY <1>1, InvariantHolds, PTL

\* A read of a chunk that is not refused is within it and goes through its own pointers
\* (view_stubs.c readable over the pointers of cache_vectors).
THEOREM ReadsAreInBounds == Spec => []ReadsInBounds
<1>1. IInv => ReadsInBounds
  BY DEF IInv, Viewed, ReadsInBounds, Readable, Cached
<1>. QED
  BY <1>1, InvariantHolds, PTL

\* A validated epoch that is still the schema epoch means that the parameter types are
\* those of the committed schema (query.ml stable_epoch, validate_parameter_schema).
THEOREM ValidationIsSound == Spec => []ValidationSound
<1>1. IInv => ValidationSound
  BY DEF IInv, Sound, Changing, InFlight, ValidationSound
<1>. QED
  BY <1>1, InvariantHolds, PTL

\* No effect of a silent conversion is committed and no result of one published
\* (query.ml recheck_after_execution and its poisoning of an explicit transaction), except
\* in the window between a change and its advance of the epoch.
THEOREM ConversionsAreContained == Spec => []NothingConverted
<1>1. IInv => NothingConverted
  BY IdleIs DEF IInv, Contained, NothingConverted
<1>. QED
  BY <1>1, InvariantHolds, PTL

-----------------------------------------------------------------------------
(* The views read a mask a word at a time: ViewsExact.                      *)

\* A product grows with its first factor.
LEMMA ProductGrows ==
    ASSUME NEW a \in Int, NEW b \in Int, NEW v \in Nat, a <= b
    PROVE  a * v \in Int /\ b * v \in Int /\ a * v <= b * v
<1>1. b - a \in Nat /\ (b - a) * v \in Nat
  OBVIOUS
<1>2. b * v = a * v + (b - a) * v
  OBVIOUS
<1>. QED
  BY <1>1, <1>2

\* The least of a set of numbers.
LEMMA LeastIs ==
    ASSUME NEW T \in SUBSET Nat, T # {}
    PROVE  Min(T) \in T /\ \A y \in T : Min(T) <= y
<1>. DEFINE Less == {pr \in Nat \X Nat : pr[1] < pr[2]}
<1>1. IsWellFoundedOn(Less, Nat)
  BY NatLessThanWellFounded DEF OpToRel
<1>2. PICK x \in T : \A y \in T : ~(<<y, x>> \in Less)
  BY <1>1, WFMin
<1>3. ASSUME NEW y \in T
      PROVE  x <= y
  <2>1. <<y, x>> \in Nat \X Nat /\ <<y, x>>[1] = y /\ <<y, x>>[2] = x
    OBVIOUS
  <2>2. ~(y < x)
    BY <1>2, <2>1
  <2>. QED
    BY <2>2
<1>. QED
  BY <1>3 DEF Min

\* The row word w begins with.
At(w) == w * WordBits

\* A word begins within the k rows and ends with it or with them.
LEMMA WordsAre ==
    ASSUME NEW k \in Int
    PROVE  /\ WordBits \in Nat /\ WordBits >= 1
           /\ Words(k) \in SUBSET Nat /\ IsFiniteSet(Words(k))
           /\ \A w \in Words(k) :
                /\ At(w) \in Nat /\ At(w) < k
                /\ InWord(k, w) \in Nat
                /\ InWord(k, w) = IF k - At(w) <= WordBits THEN k - At(w) ELSE WordBits
<1>1. WordBits \in Nat /\ WordBits >= 1
  BY BoundsAssumption
<1>2. Words(k) \in SUBSET (0..k) /\ IsFiniteSet(0..k)
  BY FS_Interval DEF Words
<1>3. IsFiniteSet(Words(k))
  BY <1>2, FS_Subset
<1>4. ASSUME NEW w \in Words(k)
      PROVE  /\ At(w) \in Nat /\ At(w) < k
             /\ InWord(k, w) \in Nat
             /\ InWord(k, w) = IF k - At(w) <= WordBits THEN k - At(w) ELSE WordBits
  <2>1. w \in Nat /\ w * WordBits < k
    BY <1>2 DEF Words
  <2>2. At(w) \in Nat /\ At(w) < k
    BY <1>1, <2>1 DEF At
  <2>3. InWord(k, w) = Min({k - At(w), WordBits})
    BY DEF InWord, At
  <2>4. {k - At(w), WordBits} \in SUBSET Nat
    BY <1>1, <2>2
  <2>5. Min({k - At(w), WordBits}) \in {k - At(w), WordBits} /\ \A y \in {k - At(w), WordBits} : Min({k - At(w), WordBits}) <= y
    BY <2>4, LeastIs
  <2>. QED
    BY <1>1, <2>2, <2>3, <2>5
<1>. QED
  BY <1>1, <1>2, <1>3, <1>4

\* A row is in one word.
LEMMA RowHasWord ==
    ASSUME NEW k \in Int, NEW i \in Nat, i < k
    PROVE  \E w \in Words(k) : At(w) <= i /\ i < At(w) + InWord(k, w)
<1>. DEFINE w == i \div WordBits
            b == i % WordBits
<1>1. WordBits \in Nat /\ WordBits >= 1
  BY BoundsAssumption
<1>2. w \in Int /\ b \in Int /\ 0 <= b /\ b < WordBits /\ i = WordBits * w + b
  BY <1>1
<1>. HIDE DEF w, b
<1>3. WordBits * w = w * WordBits /\ w * WordBits \in Int
  BY <1>1, <1>2
<1>4. w >= 0
  <2>1. SUFFICES ASSUME w <= -1 PROVE FALSE
    BY <1>2
  <2>2. w * WordBits <= (-1) * WordBits
    BY <1>1, <1>2, <2>1, ProductGrows
  <2>. QED
    BY <1>1, <1>2, <1>3, <2>2
<1>5. w <= i
  <2>1. w * 1 <= w * WordBits
    <3>1. 1 * w <= WordBits * w
      BY <1>1, <1>2, <1>4, ProductGrows
    <3>. QED
      BY <1>2, <1>3, <3>1
  <2>. QED
    BY <1>2, <1>3, <2>1
<1>6. w \in Words(k) /\ At(w) = w * WordBits
  BY <1>1, <1>2, <1>3, <1>4, <1>5 DEF Words, At
<1>7. InWord(k, w) = IF k - At(w) <= WordBits THEN k - At(w) ELSE WordBits
  BY <1>6, WordsAre
<1>8. At(w) <= i /\ i < At(w) + InWord(k, w)
  BY <1>1, <1>2, <1>3, <1>6, <1>7
<1>. QED
  BY <1>6, <1>8

\* Words do not overlap.
LEMMA WordsApart ==
    ASSUME NEW k \in Int, NEW v \in Words(k), NEW w \in Words(k), v < w
    PROVE  At(v) + InWord(k, v) <= At(w)
<1>1. v \in Nat /\ w \in Nat /\ WordBits \in Nat
  BY WordsAre
<1>2. (v + 1) * WordBits <= w * WordBits
  BY <1>1, ProductGrows
<1>3. (v + 1) * WordBits = v * WordBits + WordBits
  BY <1>1
<1>4. InWord(k, v) \in Nat /\ InWord(k, v) <= WordBits
  BY <1>1, WordsAre
<1>5. v * WordBits \in Int /\ w * WordBits \in Int
  BY <1>1
<1>. QED
  BY <1>1, <1>2, <1>3, <1>4, <1>5 DEF At

\* The NULL rows of the words in s.
NullsIn(mask, k, s) ==
    {i \in 0..(k - 1) : i \notin mask /\ \E w \in s : At(w) <= i /\ i < At(w) + InWord(k, w)}

\* Of all k rows.
NullRows(mask, k) == {i \in 0..(k - 1) : i \notin mask}

\* All words together have all NULL rows, finitely many.
LEMMA AllWords ==
    ASSUME NEW mask, NEW k \in Int
    PROVE  /\ NullsIn(mask, k, Words(k)) = NullRows(mask, k)
           /\ NullsIn(mask, k, {}) = {}
           /\ \A s : IsFiniteSet(NullsIn(mask, k, s)) /\ NullsIn(mask, k, s) \subseteq Nat
<1>1. NullsIn(mask, k, Words(k)) = NullRows(mask, k)
  BY RowHasWord DEF NullsIn, NullRows
<1>2. ASSUME NEW s
      PROVE  IsFiniteSet(NullsIn(mask, k, s)) /\ NullsIn(mask, k, s) \subseteq Nat
  <2>1. NullsIn(mask, k, s) \in SUBSET (0..(k - 1)) /\ IsFiniteSet(0..(k - 1))
    BY FS_Interval DEF NullsIn
  <2>. QED
    BY <2>1, FS_Subset
<1>. QED
  BY <1>1, <1>2 DEF NullsIn

\* What one word misses are the NULL rows in it.
LEMMA WordCounts ==
    ASSUME NEW mask, NEW k \in Int, NEW w \in Words(k)
    PROVE  /\ Cardinality(Missing(mask, k, w)) = Cardinality(NullsIn(mask, k, {w}))
           /\ \A b : b \in Missing(mask, k, w) <=> b \in Nat /\ At(w) + b \in NullsIn(mask, k, {w})
<1>1. /\ At(w) \in Nat /\ At(w) < k /\ InWord(k, w) \in Nat /\ WordBits \in Nat
      /\ InWord(k, w) = IF k - At(w) <= WordBits THEN k - At(w) ELSE WordBits
  BY WordsAre
<1>. DEFINE M == Missing(mask, k, w)
            N == NullsIn(mask, k, {w})
<1>2. M = {b \in 0..(InWord(k, w) - 1) : At(w) + b \notin mask}
  BY DEF Missing, At
<1>3. N = {i \in 0..(k - 1) : i \notin mask /\ At(w) <= i /\ i < At(w) + InWord(k, w)}
  BY DEF NullsIn
<1>. HIDE DEF M, N
<1>4. \A b : b \in M <=> b \in Nat /\ At(w) + b \in N
  <2>1. ASSUME NEW b, b \in M
        PROVE  b \in Nat /\ At(w) + b \in N
    BY <1>1, <1>2, <1>3, <2>1
  <2>2. ASSUME NEW b, b \in Nat, At(w) + b \in N
        PROVE  b \in M
    BY <1>1, <1>2, <1>3, <2>2
  <2>. QED
    BY <2>1, <2>2
<1>. DEFINE f == [b \in M |-> At(w) + b]
<1>5. ExistsBijection(M, N)
  <2>1. f \in [M -> N]
    BY <1>4
  <2>2. \A a, b \in M : f[a] = f[b] => a = b
    BY <1>1, <1>4
  <2>3. \A i \in N : \E b \in M : f[b] = i
    <3>. SUFFICES ASSUME NEW i \in N
                  PROVE  \E b \in M : f[b] = i
      OBVIOUS
    <3>1. i - At(w) \in Nat /\ At(w) + (i - At(w)) = i
      BY <1>1, <1>3
    <3>. QED
      BY <1>4, <3>1
  <2>. QED
    BY <2>1, <2>2, <2>3 DEF ExistsBijection, Bijection, Injection, Surjection, IsInjective
<1>6. IsFiniteSet(M)
  <2>1. M \in SUBSET (0..(InWord(k, w) - 1)) /\ IsFiniteSet(0..(InWord(k, w) - 1))
    <3>1. InWord(k, w) - 1 \in Int /\ 0 \in Int
      BY <1>1
    <3>2. IsFiniteSet(0..(InWord(k, w) - 1))
      BY <3>1, FS_Interval
    <3>. QED
      BY <1>2, <3>2
  <2>. QED
    BY <2>1, FS_Subset
<1>7. Cardinality(M) = Cardinality(N)
  BY <1>5, <1>6, FS_Bijection
<1>. QED
  BY <1>4, <1>7 DEF M, N

\* The sum of null_count over the words of S as the function that MapThenSumSet applies.  What
\* that function is follows without induction: the count of the NULL rows solves its equation,
\* and a smallest set of words on which another solution differed would contradict it.
WordSum(mask, k, S) ==
    CHOOSE iter : iter = [s \in SUBSET S |->
        IF s = {} THEN 0
        ELSE Cardinality(Missing(mask, k, CHOOSE x \in s : TRUE)) + iter[s \ {CHOOSE x \in s : TRUE}]]

\* It is that sum.
LEMMA SumIsIterated ==
    ASSUME NEW mask, NEW k, NEW S
    PROVE  MapThenSumSet(LAMBDA w : Cardinality(Missing(mask, k, w)), S) = WordSum(mask, k, S)[S]
  BY DEF MapThenSumSet, MapThenFoldSet, WordSum

\* Whichever word is taken next, its count and that of the others make the count of all.
LEMMA WordByWord ==
    ASSUME NEW mask, NEW k \in Int, NEW s \in SUBSET Words(k), NEW x \in s
    PROVE  Cardinality(NullsIn(mask, k, s)) =
             Cardinality(Missing(mask, k, x)) + Cardinality(NullsIn(mask, k, s \ {x}))
<1>. DEFINE A == NullsIn(mask, k, {x})
            B == NullsIn(mask, k, s \ {x})
<1>1. NullsIn(mask, k, s) = A \cup B
  BY DEF NullsIn
<1>2. A \cap B = {}
  <2>. SUFFICES ASSUME NEW i \in A, i \in B
                PROVE  FALSE
    OBVIOUS
  <2>1. i \in Nat /\ At(x) <= i /\ i < At(x) + InWord(k, x)
    BY DEF NullsIn
  <2>2. PICK w \in s \ {x} : At(w) <= i /\ i < At(w) + InWord(k, w)
    BY DEF NullsIn
  <2>3. x \in Nat /\ w \in Nat
    BY WordsAre
  <2>4. x < w => At(x) + InWord(k, x) <= At(w)
    BY WordsApart
  <2>5. w < x => At(w) + InWord(k, w) <= At(x)
    BY WordsApart
  <2>6. /\ At(x) \in Nat /\ At(w) \in Nat /\ InWord(k, x) \in Nat /\ InWord(k, w) \in Nat
    BY WordsAre
  <2>. QED
    BY <2>1, <2>2, <2>3, <2>4, <2>5, <2>6
<1>3. IsFiniteSet(A) /\ IsFiniteSet(B)
  BY AllWords
<1>4. Cardinality(Missing(mask, k, x)) = Cardinality(A)
  BY WordCounts
<1>. HIDE DEF A, B
<1>5. Cardinality(A) \in Nat /\ Cardinality(B) \in Nat /\ Cardinality({}) = 0
  BY <1>3, FS_CardinalityType, FS_EmptySet
<1>6. Cardinality(A \cup B) = Cardinality(A) + Cardinality(B)
  <2>1. Cardinality(A \cup B) = Cardinality(A) + Cardinality(B) - Cardinality(A \cap B)
    BY <1>3, FS_Union
  <2>2. Cardinality(A \cap B) = 0
    BY <1>2, <1>5, Zenon
  <2>. QED
    BY <1>5, <2>1, <2>2
<1>. QED
  BY <1>1, <1>4, <1>6 DEF B

\* null_count adds up to the number of NULL rows.
LEMMA CountsAdd ==
    ASSUME NEW mask, NEW k \in Int
    PROVE  MapThenSumSet(LAMBDA w : Cardinality(Missing(mask, k, w)), Words(k))
             = Cardinality(NullRows(mask, k))
<1>. DEFINE S == Words(k)
            next(s) == CHOOSE x \in s : TRUE
            sum == WordSum(mask, k, S)
            count == [s \in SUBSET S |-> Cardinality(NullsIn(mask, k, s))]
<1>1. ASSUME NEW s \in SUBSET S
      PROVE  /\ s = {} => count[s] = 0
             /\ s # {} => /\ next(s) \in s /\ s \ {next(s)} \in SUBSET S
                          /\ count[s] = Cardinality(Missing(mask, k, next(s))) + count[s \ {next(s)}]
  <2>1. s = {} => count[s] = 0
    BY AllWords, FS_EmptySet
  <2>2. ASSUME s # {}
        PROVE  /\ next(s) \in s /\ s \ {next(s)} \in SUBSET S
               /\ count[s] = Cardinality(Missing(mask, k, next(s))) + count[s \ {next(s)}]
    <3>1. next(s) \in s /\ s \ {next(s)} \in SUBSET S
      BY <2>2
    <3>2. Cardinality(NullsIn(mask, k, s)) =
            Cardinality(Missing(mask, k, next(s))) + Cardinality(NullsIn(mask, k, s \ {next(s)}))
      <4>1. PICK x \in s : x = next(s)
        BY <3>1
      <4>2. Cardinality(NullsIn(mask, k, s)) =
              Cardinality(Missing(mask, k, x)) + Cardinality(NullsIn(mask, k, s \ {x}))
        BY WordByWord
      <4>. QED
        BY <4>1, <4>2, Zenon
    <3>. QED
      BY <3>1, <3>2
  <2>. QED
    BY <2>1, <2>2
<1>2. count = [s \in SUBSET S |->
                 IF s = {} THEN 0
                 ELSE Cardinality(Missing(mask, k, next(s))) + count[s \ {next(s)}]]
  BY <1>1
<1>3. sum = [s \in SUBSET S |->
               IF s = {} THEN 0
               ELSE Cardinality(Missing(mask, k, next(s))) + sum[s \ {next(s)}]]
  BY <1>2 DEF WordSum
<1>4. \A s \in SUBSET S : /\ s = {} => sum[s] = 0
                          /\ s # {} => sum[s] = Cardinality(Missing(mask, k, next(s))) + sum[s \ {next(s)}]
  BY <1>3
<1>. HIDE DEF sum, count, next
<1>5. \A s \in SUBSET S : sum[s] = count[s]
  <2>. DEFINE Bad == {s \in SUBSET S : sum[s] # count[s]}
  <2>. SUFFICES ASSUME Bad # {}
                PROVE  FALSE
    OBVIOUS
  <2>1. IsWellFoundedOn(StrictSubsetOrdering(S), SUBSET S)
    BY WordsAre, FS_StrictSubsetOrderingWellFounded, FS_FiniteSubsetsOfFinite
  <2>2. Bad \subseteq SUBSET S
    OBVIOUS
  <2>3. PICK s \in Bad : \A t \in Bad : ~(<<t, s>> \in StrictSubsetOrdering(S))
    BY <2>1, <2>2, WFMin
  <2>4. s # {}
    BY <1>1, <1>4, <2>3
  <2>5. next(s) \in s /\ s \ {next(s)} \in SUBSET S
    BY <1>1, <2>3, <2>4
  <2>6. <<s \ {next(s)}, s>> \in StrictSubsetOrdering(S)
    BY <2>3, <2>5 DEF StrictSubsetOrdering
  <2>7. sum[s \ {next(s)}] = count[s \ {next(s)}]
    BY <2>3, <2>5, <2>6
  <2>. QED
    BY <1>1, <1>4, <2>3, <2>4, <2>7
<1>6. sum[S] = count[S] /\ count[S] = Cardinality(NullsIn(mask, k, S))
  BY <1>5 DEF count
<1>7. MapThenSumSet(LAMBDA w : Cardinality(Missing(mask, k, w)), Words(k)) = sum[S]
  BY SumIsIterated DEF sum
<1>. QED
  BY <1>6, <1>7, AllWords

\* The words that have a NULL row.
NullWords(mask, k) == {w \in Words(k) : Missing(mask, k, w) # {}}

\* The first NULL bit of the first word that has one is the first NULL row.
LEMMA FirstIs ==
    ASSUME NEW mask, NEW k \in Int
    PROVE  /\ NullWords(mask, k) = {} <=> NullRows(mask, k) = {}
           /\ NullWords(mask, k) # {} =>
                Min(NullWords(mask, k)) * WordBits
                  + Min(Missing(mask, k, Min(NullWords(mask, k)))) = Min(NullRows(mask, k))
<1>. DEFINE N == NullRows(mask, k)
            missing == NullWords(mask, k)
<1>0. missing = {w \in Words(k) : Missing(mask, k, w) # {}}
  BY DEF NullWords
<1>. HIDE DEF missing
<1>1. N \in SUBSET Nat /\ missing \in SUBSET Nat
  BY <1>0, WordsAre DEF NullRows
<1>2. ASSUME NEW i \in N
      PROVE  \E w \in missing : i - At(w) \in Missing(mask, k, w)
  <2>1. i \in Nat /\ i < k /\ i \notin mask
    BY DEF NullRows
  <2>2. PICK w \in Words(k) : At(w) <= i /\ i < At(w) + InWord(k, w)
    BY <2>1, RowHasWord
  <2>3. At(w) \in Nat /\ At(w) + (i - At(w)) = i /\ i - At(w) \in Nat
    BY <2>1, <2>2, WordsAre
  <2>4. i \in NullsIn(mask, k, {w})
    BY <2>1, <2>2 DEF NullsIn
  <2>5. i - At(w) \in Missing(mask, k, w)
    BY <2>3, <2>4, WordCounts
  <2>. QED
    BY <1>0, <2>5
<1>3. ASSUME NEW w \in missing, NEW b \in Missing(mask, k, w)
      PROVE  b \in Nat /\ b < InWord(k, w) /\ At(w) + b \in N
  <2>1. b \in Nat /\ At(w) + b \in NullsIn(mask, k, {w})
    BY <1>0, WordCounts
  <2>2. At(w) \in Nat /\ InWord(k, w) \in Nat
    BY <1>0, WordsAre
  <2>. QED
    BY <2>1, <2>2 DEF NullsIn, NullRows
<1>4. missing = {} <=> N = {}
  BY <1>0, <1>2, <1>3
<1>5. ASSUME missing # {}
      PROVE  Min(missing) * WordBits + Min(Missing(mask, k, Min(missing))) = Min(N)
  <2>1. PICK w \in missing : w = Min(missing) /\ \A v \in missing : w <= v
    BY <1>1, <1>5, LeastIs
  <2>2. Missing(mask, k, w) \in SUBSET Nat /\ Missing(mask, k, w) # {}
    BY <1>0, <1>3
  <2>3. PICK b \in Missing(mask, k, w) : b = Min(Missing(mask, k, w)) /\ \A c \in Missing(mask, k, w) : b <= c
    BY <2>2, LeastIs
  <2>4. b \in Nat /\ b < InWord(k, w) /\ At(w) + b \in N
    BY <1>3
  <2>5. At(w) \in Nat /\ InWord(k, w) \in Nat
    BY <1>0, WordsAre
  <2>6. ASSUME NEW i \in N
        PROVE  At(w) + b <= i
    <3>1. PICK v \in missing : i - At(v) \in Missing(mask, k, v)
      BY <1>2
    <3>2. i \in Nat /\ At(v) \in Nat /\ i - At(v) \in Nat
      BY <1>0, <1>1, <1>3, <3>1, WordsAre
    <3>3. CASE v = w
      BY <2>3, <2>4, <2>5, <3>1, <3>2, <3>3
    <3>4. CASE v # w
      <4>1. w < v
        BY <1>1, <2>1, <3>4
      <4>2. At(w) + InWord(k, w) <= At(v)
        BY <1>0, <4>1, WordsApart
      <4>. QED
        BY <2>4, <2>5, <3>2, <4>2
    <3>. QED
      BY <3>3, <3>4
  <2>7. Min(N) \in N /\ \A i \in N : Min(N) <= i
    BY <1>1, <2>4, LeastIs
  <2>8. At(w) + b = Min(N)
    BY <1>1, <2>4, <2>5, <2>6, <2>7
  <2>9. At(w) = w * WordBits
    BY DEF At
  <2>. QED
    BY <2>1, <2>3, <2>8, <2>9
<1>. QED
  BY <1>4, <1>5 DEF missing

\* The NULL rows among those asked for, one by one; whether a blit has them all, and room.
NullsSeen(n, length, mask) == {i \in 0..(Min({length, n.chunk}) - 1) : ~ ViewValid(n, 0, i, mask)}

Inside(n, length, pos) == 0 <= length /\ length <= n.chunk /\ 0 <= pos /\ pos + length <= 2

Blank == [k \in 0..1 |-> -1]

\* Counting and finding NULLs agrees with that, for any chunk and any arguments.
LEMMA ViewsAgree ==
    ASSUME NEW n, Cached(n, 0), n.chunk \in Nat, n.rows = n.chunk, NEW length \in Int, NEW mask
    PROVE  /\ NullCount(n, 0, length, mask) = Cardinality(NullsSeen(n, length, mask))
           /\ FirstNull(n, 0, length, mask) =
                IF NullsSeen(n, length, mask) = {} THEN -1 ELSE Min(NullsSeen(n, length, mask))
<1>. DEFINE k == Clamped(n, length)
            nulls == NullsSeen(n, length, mask)
<1>0. nulls = {i \in 0..(Min({length, n.chunk}) - 1) : ~ ViewValid(n, 0, i, mask)}
  BY DEF NullsSeen
<1>. HIDE DEF nulls
<1>1. k \in Int /\ k <= n.rows /\ Min({length, n.chunk}) = k
  <2>1. k = (IF length > n.chunk THEN n.chunk ELSE length)
    BY DEF Clamped
  <2>2. Min({length, n.chunk}) = (IF length > n.chunk THEN n.chunk ELSE length)
    BY DEF Min
  <2>. QED
    BY <2>1, <2>2
<1>. HIDE DEF k
<1>2. CASE mask = None
  <2>1. nulls = {}
    BY <1>0, <1>1, <1>2 DEF ViewValid, ValidRow
  <2>. QED
    BY <1>2, <2>1, FS_EmptySet DEF NullCount, FirstNull, nulls
<1>3. CASE mask # None
  <2>1. nulls = NullRows(mask, k)
    BY <1>0, <1>1, <1>3 DEF ViewValid, ValidRow, NullRows
  <2>2. NullCount(n, 0, length, mask) =
          MapThenSumSet(LAMBDA w : Cardinality(Missing(mask, k, w)), Words(k))
    BY <1>3 DEF NullCount, k
  <2>3. NullCount(n, 0, length, mask) = Cardinality(nulls)
    BY <1>1, <2>1, <2>2, CountsAdd
  <2>. DEFINE missing == NullWords(mask, k)
  <2>4. FirstNull(n, 0, length, mask) =
          IF missing = {} THEN -1 ELSE Min(missing) * WordBits + Min(Missing(mask, k, Min(missing)))
    BY <1>3 DEF FirstNull, NullWords, k
  <2>5. /\ missing = {} <=> NullRows(mask, k) = {}
        /\ missing # {} => Min(missing) * WordBits + Min(Missing(mask, k, Min(missing)))
                             = Min(NullRows(mask, k))
    BY <1>1, FirstIs
  <2>. HIDE DEF missing
  <2>6. /\ missing = {} <=> nulls = {}
        /\ missing # {} => Min(missing) * WordBits + Min(Missing(mask, k, Min(missing))) = Min(nulls)
    BY <2>1, <2>5, Zenon
  <2>7. FirstNull(n, 0, length, mask) = IF nulls = {} THEN -1 ELSE Min(nulls)
    BY <2>4, <2>6
  <2>. QED
    BY <2>3, <2>7 DEF nulls
<1>. QED
  BY <1>2, <1>3 DEF nulls

\* The blits copy the rows they were asked for, and refuse all others.
LEMMA BlitsAgree ==
    ASSUME NEW n, Cached(n, 0), n.chunk \in Nat, n.rows = n.chunk, NEW length \in Int,
           NEW mask, NEW pos \in Int, NEW width \in {4, 8}
    PROVE  /\ Blit(n, 0, length, mask, Blank, width, pos) =
                IF ~Inside(n, length, pos) \/ width # 4 THEN Blank
                ELSE [k \in 0..1 |-> IF k < pos \/ k >= pos + length THEN -1
                                     ELSE ReadOr(n, 0, k - pos, 4, mask, 0)]
           /\ BlitValidity(n, 0, length, mask, Blank, pos) =
                IF ~Inside(n, length, pos) THEN Blank
                ELSE [k \in 0..1 |-> IF k < pos \/ k >= pos + length THEN -1
                                     ELSE IF k - pos \in NullsSeen(n, length, mask) THEN 0 ELSE 1]
<1>. DEFINE array == Blank
            nulls == NullsSeen(n, length, mask)
            fits == Inside(n, length, pos)
<1>0. /\ nulls = {i \in 0..(Min({length, n.chunk}) - 1) : ~ ViewValid(n, 0, i, mask)}
      /\ array = [k \in 0..1 |-> -1]
      /\ fits <=> 0 <= length /\ length <= n.chunk /\ 0 <= pos /\ pos + length <= 2
  BY DEF NullsSeen, Inside, Blank
<1>. HIDE DEF array, nulls, fits
<1>1. Width[0] = 4
  BY DEF Width, Columns
<1>2. Fits(n, 0, length, array, pos) <=> fits
  <2>1. DOMAIN array = 0..1
    BY <1>0
  <2>2. Cardinality(0..1) = 2
    <3>1. 0 \in Int /\ 1 \in Int /\ ~(0 > 1) /\ 1 - 0 + 1 = 2
      OBVIOUS
    <3>. QED
      BY <3>1, FS_Interval
  <2>3. Cardinality(DOMAIN array) = 2
    BY <2>1, <2>2, Zenon
  <2>. QED
    BY <1>0, <2>3 DEF Fits
<1>3. ASSUME fits, NEW k \in 0..1, ~(k < pos \/ k >= pos + length)
      PROVE  /\ k - pos \in Nat /\ k - pos < length /\ k - pos < n.rows
             /\ k - pos \in nulls <=> ~ValidRow(mask, k - pos)
  <2>0. 0 <= length /\ length <= n.chunk /\ 0 <= pos /\ pos + length <= 2
    BY <1>0, <1>3
  <2>1. k - pos \in Nat /\ k - pos < length /\ k - pos < n.rows
    BY <1>3, <2>0
  <2>2. Min({length, n.chunk}) = length
    BY <2>0 DEF Min
  <2>. QED
    BY <1>0, <2>1, <2>2 DEF ViewValid
<1>4. ASSUME fits, width = 4
      PROVE  Blit(n, 0, length, mask, array, width, pos) =
               [k \in 0..1 |-> IF k < pos \/ k >= pos + length THEN -1
                               ELSE ReadOr(n, 0, k - pos, 4, mask, 0)]
  <2>1. \A k \in 0..1 : ~(k < pos \/ k >= pos + length) =>
          ReadOr(n, 0, k - pos, 4, mask, 0) = IF ValidRow(mask, k - pos) THEN k - pos + 1 ELSE 0
    BY <1>1, <1>3, <1>4 DEF ReadOr, Readable
  <2>2. Blit(n, 0, length, mask, array, width, pos) =
          [k \in 0..1 |-> IF k < pos \/ k >= pos + length THEN array[k]
                          ELSE IF ValidRow(mask, k - pos) THEN k - pos + 1 ELSE 0]
    BY <1>0, <1>1, <1>2, <1>4 DEF Blit
  <2>. QED
    BY <1>0, <2>1, <2>2
<1>5. ~fits \/ width # 4 => Blit(n, 0, length, mask, array, width, pos) = array
  BY <1>1, <1>2 DEF Blit
<1>6. ASSUME fits
      PROVE  BlitValidity(n, 0, length, mask, array, pos) =
               [k \in 0..1 |-> IF k < pos \/ k >= pos + length THEN -1
                               ELSE IF k - pos \in nulls THEN 0 ELSE 1]
  <2>1. BlitValidity(n, 0, length, mask, array, pos) =
          [k \in 0..1 |-> IF k < pos \/ k >= pos + length THEN array[k] ELSE Bit(ValidRow(mask, k - pos))]
    BY <1>0, <1>2, <1>6 DEF BlitValidity
  <2>2. \A k \in 0..1 : ~(k < pos \/ k >= pos + length) =>
          Bit(ValidRow(mask, k - pos)) = IF k - pos \in nulls THEN 0 ELSE 1
    BY <1>3, <1>6 DEF Bit
  <2>. QED
    BY <1>0, <2>1, <2>2
<1>7. ~fits => BlitValidity(n, 0, length, mask, array, pos) = array
  BY <1>2 DEF BlitValidity
<1>. QED
  BY <1>4, <1>5, <1>6, <1>7 DEF array, nulls, fits

\* Whatever the chunk, the length asked for and the mask, null_count and first_null, which go
\* a word at a time (view_stubs.c), agree with looking at every row, and the blits copy exactly
\* the rows they were asked for or nothing.
THEOREM ViewsAreExact == Spec => []ViewsExact
<1>1. IInv => ViewsExact
  <2>. DEFINE n == nat["statement"]
  <2>. SUFFICES ASSUME IInv, n.chunk # None, n.vectors,
                       NEW length \in -1..(MaxRows + 1),
                       NEW mask \in SUBSET (0..(2 * WordBits - 1)) \cup {None}
                PROVE  /\ NullCount(n, 0, length, mask) = Cardinality(NullsSeen(n, length, mask))
                       /\ FirstNull(n, 0, length, mask) =
                            IF NullsSeen(n, length, mask) = {} THEN -1 ELSE Min(NullsSeen(n, length, mask))
                       /\ \A pos \in -1..1, width \in {4, 8} :
                            /\ Blit(n, 0, length, mask, Blank, width, pos) =
                                 IF ~Inside(n, length, pos) \/ width # 4 THEN Blank
                                 ELSE [k \in 0..1 |-> IF k < pos \/ k >= pos + length THEN -1
                                                      ELSE ReadOr(n, 0, k - pos, 4, mask, 0)]
                            /\ BlitValidity(n, 0, length, mask, Blank, pos) =
                                 IF ~Inside(n, length, pos) THEN Blank
                                 ELSE [k \in 0..1 |->
                                         IF k < pos \/ k >= pos + length THEN -1
                                         ELSE IF k - pos \in NullsSeen(n, length, mask) THEN 0 ELSE 1]
    BY Zenon DEF ViewsExact, NullsSeen, Inside, Blank
  <2>1. Cached(n, 0) /\ n.rows = n.chunk
    BY DEF IInv, Viewed, Cached, Columns
  <2>2. n.chunk \in Nat /\ length \in Int
    <3>1. n.chunk \in 0..MaxRows \cup {None} /\ MaxRows \in Nat
      BY BoundsAssumption DEF IInv, TypeOK, Owner
    <3>. QED
      BY <3>1
  <2>. HIDE DEF n
  <2>3. \A pos \in -1..1 : pos \in Int
    OBVIOUS
  <2>. QED
    BY <2>1, <2>2, <2>3, ViewsAgree, BlitsAgree
<1>. QED
  BY <1>1, InvariantHolds, PTL
=============================================================================
