--------------------------- MODULE ParquetExport ---------------------------
(***************************************************************************)
(* Parquet.export (lib/duckdb/parquet.ml over lib/ffi/local_file_stubs.c): *)
(* a query is copied to a private temporary file beside the destination,   *)
(* which is then hard-linked to it and removed, inside a transaction.      *)
(*                                                                         *)
(* Several exports to the same destination run on connections of their     *)
(* own, other programs create and remove the destination, requests are     *)
(* cancelled, and every call may fail or end in an exception.  The         *)
(* transaction itself is in ConnectionGate; here it may fail to begin and  *)
(* to commit.                                                              *)
(***************************************************************************)
EXTENDS Naturals

CONSTANTS
    Exports,   \* calls of Parquet.export with the same destination
    None,      \* no file
    Foreign    \* a file another program made

ASSUME NamesAssumption ==
    /\ None \notin Exports /\ Foreign \notin Exports /\ None # Foreign
    /\ None \notin {"empty", "partial", "complete"}

VARIABLES
    temporary,    \* what is in each export's temporary file
    destination,  \* whose file the destination is
    written,      \* what was in the export's file when it was linked
    cancelled,    \* the latch of each request
    work,         \* the file_work: what it has acquired
    call          \* each call: program counter, outcome so far, and whether the scope that
                  \* owns the temporary file has been entered

vars == <<temporary, destination, written, cancelled, work, call>>

Contents == {None, "empty", "partial", "complete"}
Pieces == {"shell", "source", "destination", "parent"}
Outcomes == {"none", "Ok", "Cancelled", "Destination_exists", "Error", "raised", "not_removed"}
Pcs == {"idle", "begin", "check", "reserve", "temp_file", "copy", "checkpoint", "publish", "link",
        "linked", "publish_return", "remove", "unlink", "settle", "done"}

Init ==
    /\ temporary = [e \in Exports |-> None]
    /\ destination \in {None, Foreign}
    /\ written = [e \in Exports |-> None]
    /\ cancelled = [e \in Exports |-> FALSE]
    /\ work = [e \in Exports |-> {}]
    /\ call = [e \in Exports |-> [pc |-> "idle", outcome |-> "none", owned |-> FALSE]]

Files == <<temporary, destination, written>>

Goto(e, pc) == call' = [call EXCEPT ![e].pc = pc]

\* A Result error, or an exception, on the way to pc.
Fails(e, pc, outcome) ==
    call' = [call EXCEPT ![e] = [pc |-> pc, outcome |-> outcome, owned |-> @.owned]]

\* What the callback of the transaction ends with when no file is owned, and when one is.
NoFile == "settle"
OwnsFile == "remove"

-----------------------------------------------------------------------------
(* Other programs, and the canceller.                                       *)

Elsewhere ==
    /\ destination' \in (IF destination = None THEN {Foreign} ELSE {None})
    /\ UNCHANGED <<temporary, written, cancelled, work, call>>

Cancel(e) ==
    /\ ~cancelled[e] /\ call[e].pc \notin {"idle", "done"}
    /\ cancelled' = [cancelled EXCEPT ![e] = TRUE]
    /\ UNCHANGED <<Files, work, call>>

-----------------------------------------------------------------------------
(* export                                                                   *)

Export(e) ==
    /\ call[e].pc = "idle"
    /\ Goto(e, "begin")
    /\ UNCHANGED <<Files, cancelled, work>>

\* with_transaction, up to its callback.
Begin(e) ==
    /\ call[e].pc = "begin"
    /\ \/ ~cancelled[e] /\ Goto(e, "check")
       \/ cancelled[e] /\ Fails(e, "done", "Cancelled")
       \/ \E outcome \in {"Error", "raised"} : Fails(e, "done", outcome)
    /\ UNCHANGED <<Files, cancelled, work>>

\* The source is prepared by itself and its types are checked.
CheckTypes(e) ==
    /\ call[e].pc = "check"
    /\ \/ ~cancelled[e] /\ Goto(e, "reserve")
       \/ cancelled[e] /\ Fails(e, NoFile, "Cancelled")
       \/ \E outcome \in {"Error", "raised"} : Fails(e, NoFile, outcome)
    /\ UNCHANGED <<Files, cancelled, work>>

\* reserve_temporary: the reservation is admitted against the latch; the call may raise.
AdmitLocalFile(e) ==
    /\ call[e].pc = "reserve"
    /\ \/ ~cancelled[e] /\ Goto(e, "temp_file")
       \/ cancelled[e] /\ Fails(e, NoFile, "Cancelled")
       \/ Fails(e, NoFile, "raised")
    /\ UNCHANGED <<Files, cancelled, work>>

OwnedUnlessCancelled(e) ==  \* mutant: the latch is tested before the file has an owner
    IF cancelled[e] THEN Fails(e, NoFile, "Cancelled")
    ELSE call' = [call EXCEPT ![e].pc = "copy", ![e].owned = TRUE]

\* The scope that removes the file is entered before the latch is tested again.
Owned(e) == call' = [call EXCEPT ![e].pc = "copy", ![e].owned = TRUE]

\* The file is made and its scope entered, or it cannot be made.  Between the two a Break
\* is raised as an exception: the file is there, and nobody owns it.
TempFile(e) ==
    /\ call[e].pc = "temp_file"
    /\ \/ /\ temporary' = [temporary EXCEPT ![e] = "empty"]
          /\ Owned(e) \/ Fails(e, NoFile, "raised")
       \/ /\ UNCHANGED temporary
          /\ \E outcome \in {"Error", "raised"} : Fails(e, NoFile, outcome)
    /\ UNCHANGED <<destination, written, cancelled, work>>

\* copy_to: COPY replaces the content (external); a COPY that fails may leave a part.
CopyTo(e) ==
    /\ call[e].pc = "copy"
    /\ \/ /\ ~cancelled[e]
          /\ temporary' = [temporary EXCEPT ![e] = "complete"] /\ Goto(e, "checkpoint")
       \/ /\ temporary' \in {temporary, [temporary EXCEPT ![e] = "partial"]}
          /\ \E outcome \in {"Error", "raised"} \cup (IF cancelled[e] THEN {"Cancelled"} ELSE {}) :
                Fails(e, OwnsFile, outcome)
       \/ \* COPY is done, and the request is cancelled, or something raises, after it
          /\ temporary' = [temporary EXCEPT ![e] = "complete"]
          /\ \E outcome \in {"raised"} \cup (IF cancelled[e] THEN {"Cancelled"} ELSE {}) :
                Fails(e, OwnsFile, outcome)
    /\ UNCHANGED <<destination, written, cancelled, work>>

\* The checkpoint of export and the one of the admission.
Checkpoint(e) ==
    /\ call[e].pc = "checkpoint"
    /\ \/ IF cancelled[e] THEN Fails(e, OwnsFile, "Cancelled") ELSE Goto(e, "publish")
       \/ Fails(e, OwnsFile, "raised")
    /\ UNCHANGED <<Files, cancelled, work>>

-----------------------------------------------------------------------------
(* local_file: the native work of publish and of remove.                    *)

Acquire(e, pieces) == work' = [work EXCEPT ![e] = pieces]

\* finish
Finish(e) == work' = [work EXCEPT ![e] = {}]

\* ml_duckdb_publish_local_file_admitted, up to the link: a copy that cannot be allocated
\* and the entry of the blocking section raise with what was acquired so far.
Publish(e) ==
    /\ call[e].pc = "publish"
    /\ \/ Acquire(e, Pieces) /\ Goto(e, "link")
       \/ /\ \E pieces \in {{"shell"}, {"shell", "source"}, Pieces} : Acquire(e, pieces)
          /\ Fails(e, "publish_return", "raised")
    /\ UNCHANGED <<Files, cancelled>>

\* link(2) never replaces a file (external).
Rename(e) ==  \* mutant: rename instead of link
    destination' = e

Link(e) == destination = None /\ destination' = e

\* The latch is tested under the guard, then the file is linked.
PublishLink(e) ==
    /\ call[e].pc = "link"
    /\ \/ cancelled[e] /\ Fails(e, "publish_return", "Cancelled") /\ UNCHANGED Files
       \/ /\ ~cancelled[e] /\ Link(e)
          /\ written' = [written EXCEPT ![e] = temporary[e]]
          /\ Goto(e, "linked")
          /\ UNCHANGED temporary
       \/ /\ ~cancelled[e] /\ destination # None
          /\ Fails(e, "publish_return", "Destination_exists") /\ UNCHANGED Files
       \/ ~cancelled[e] /\ Fails(e, "publish_return", "Error") /\ UNCHANGED Files
    /\ UNCHANGED <<cancelled, work>>

\* After the link: the call may raise as it returns, and the latch is tested once more.
Linked(e) ==
    /\ call[e].pc = "linked"
    /\ \/ IF cancelled[e] THEN Fails(e, "publish_return", "Cancelled") ELSE Fails(e, "publish_return", "Ok")
       \/ Fails(e, "publish_return", "raised")
    /\ UNCHANGED <<Files, cancelled, work>>

PublishReturn(e) ==
    /\ call[e].pc = "publish_return"
    /\ Finish(e)
    /\ Goto(e, OwnsFile)
    /\ UNCHANGED <<Files, cancelled>>

\* The scope's cleanup, whatever happened.  complete_cleanup runs it once more after a
\* Break, and then a file that is gone is no error; a second Break is not modelled.
Remove(e) ==
    /\ call[e].pc = "remove"
    /\ \/ Acquire(e, {"shell", "source"}) /\ Goto(e, "unlink")
       \/ \* the name cannot be copied
          Finish(e) /\ Fails(e, "settle", "not_removed")
    /\ UNCHANGED <<Files, cancelled>>

Unlink(e) ==
    /\ call[e].pc = "unlink"
    /\ \/ /\ temporary' = [temporary EXCEPT ![e] = None]
          /\ \/ Finish(e) /\ Goto(e, "settle")
             \/ Finish(e) /\ Fails(e, "settle", "raised")
       \/ Finish(e) /\ Fails(e, "settle", "not_removed") /\ UNCHANGED temporary
    /\ UNCHANGED <<destination, written, cancelled>>

\* The transaction commits after Ok and may fail to; it is rolled back otherwise.
Settle(e) ==
    /\ call[e].pc = "settle"
    /\ \/ ~(cancelled[e] /\ call[e].outcome = "Ok") /\ Goto(e, "done")
       \/ call[e].outcome = "Ok" /\ \E outcome \in {"Error", "raised"} : Fails(e, "done", outcome)
       \/ call[e].outcome = "Ok" /\ cancelled[e] /\ Fails(e, "done", "Cancelled")
    /\ UNCHANGED <<Files, cancelled, work>>

-----------------------------------------------------------------------------
Next ==
    \/ Elsewhere
    \/ \E e \in Exports :
        \/ Cancel(e) \/ Export(e) \/ Begin(e) \/ CheckTypes(e) \/ AdmitLocalFile(e) \/ TempFile(e)
        \/ CopyTo(e) \/ Checkpoint(e) \/ Publish(e) \/ PublishLink(e) \/ Linked(e)
        \/ PublishReturn(e) \/ Remove(e) \/ Unlink(e) \/ Settle(e)

Spec == Init /\ [][Next]_vars

-----------------------------------------------------------------------------
(* Properties.                                                              *)

TypeOK ==
    /\ temporary \in [Exports -> Contents]
    /\ destination \in Exports \cup {None, Foreign}
    /\ written \in [Exports -> Contents]
    /\ cancelled \in [Exports -> BOOLEAN]
    /\ work \in [Exports -> SUBSET Pieces]
    /\ call \in [Exports -> [pc : Pcs, outcome : Outcomes, owned : BOOLEAN]]

\* The empty file a Break leaves between the reservation and the scope (parquet.ml:53, 70).
Stranded(e) == ~call[e].owned /\ call[e].outcome = "raised" /\ temporary[e] = "empty"

\* An export that is over has removed its temporary file, or has said that it could not:
\* whatever failed, was cancelled or raised once the scope that owns the file was entered,
\* and whatever failed or was cancelled before.  The one exception is Stranded: an
\* exception in that window leaves an empty file, never a copy, and is itself reported.
\* It holds no native memory; it has reported Ok only for a file it linked, and
\* Destination_exists only if it linked none.  A file it linked is the whole copy,
\* whatever was reported.
NothingLeftBehind ==
    \A e \in Exports :
        /\ call[e].pc = "done" =>
            /\ temporary[e] = None \/ call[e].outcome = "not_removed" \/ Stranded(e)
            /\ work[e] = {}
            /\ call[e].outcome = "Ok" => written[e] # None
            /\ call[e].outcome = "Destination_exists" => written[e] = None
        /\ written[e] \in {None, "complete"}

\* "No implicit overwrite": no step of an export changes a destination that exists.
NoOverwrite ==
    [][destination # None /\ destination' # destination => destination' = None]_vars
=============================================================================
