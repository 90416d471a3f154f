------------------------ MODULE ParquetExportProofs ------------------------
(***************************************************************************)
(* Proofs about ParquetExport for every number of exports that race for    *)
(* one destination.                                                        *)
(*                                                                         *)
(* NothingLeftBehind speaks of exports that are over; the invariant says   *)
(* what an export owns at each point on the way there (Owns, Linking), and *)
(* what the outcome it carries to the end has already settled (Reported).  *)
(* Past the reservation the scope has been entered: the only way out of it *)
(* with a file is not_removed, and the only way round it is Stranded.      *)
(***************************************************************************)
EXTENDS ParquetExport, TLAPS

Unreserved == {"idle", "begin", "check", "reserve", "temp_file"}
Copied == {"checkpoint", "publish", "link"}
InNative == {"link", "linked", "publish_return", "unlink"}

\* The temporary file of an export that has left its scope, or never entered it.
Ended(e) == temporary[e] = None \/ call[e].outcome = "not_removed" \/ Stranded(e)

\* The temporary file and the native work record of an export, by how far it is.
Owns(e) ==
    /\ call[e].pc \in Unreserved => temporary[e] = None /\ ~call[e].owned
    /\ call[e].pc \in Copied => temporary[e] = "complete"
    /\ call[e].pc \in {"settle", "done"} => Ended(e)
    /\ call[e].pc \notin InNative => work[e] = {}

\* Only publication links a file, and it links the whole copy.
Linking(e) ==
    /\ written[e] \in {None, "complete"}
    /\ call[e].pc \in Unreserved \cup Copied \cup {"copy"} => written[e] = None
    /\ call[e].pc = "linked" => written[e] = "complete"

\* What is said about the destination is true of it.
Reported(e) ==
    /\ call[e].pc \in Unreserved \cup Copied \cup {"copy", "linked"} => call[e].outcome = "none"
    /\ call[e].outcome = "Ok" => written[e] # None
    /\ call[e].outcome = "Destination_exists" => written[e] = None

IInv == TypeOK /\ \A e \in Exports : Owns(e) /\ Linking(e) /\ Reported(e)

-----------------------------------------------------------------------------

\* The invariant holds when no export has begun.
LEMMA InitEstablishes == Init => IInv
  BY NamesAssumption DEF Init, IInv, TypeOK, Owns, Ended, Stranded, Linking, Reported, Contents, Pieces, Outcomes, Pcs,
     Unreserved, Copied, InNative

\* Every step keeps the invariant: an export's own steps because they acquire, link,
\* remove and report in that order, and another export's because it touches nothing else.
LEMMA InvariantKept == IInv /\ [Next]_vars => IInv'
<1>. SUFFICES ASSUME IInv, [Next]_vars PROVE IInv'
  OBVIOUS
<1>. USE NamesAssumption DEF IInv, TypeOK, Contents, Pieces, Outcomes, Pcs, Files, Goto, Fails, NoFile,
         OwnsFile, Acquire, Finish, Stranded, Ended, Owns, Linking, Reported, Unreserved, Copied, InNative
<1>1. CASE Elsewhere
  BY <1>1 DEF Elsewhere
<1>2. ASSUME NEW e \in Exports, Cancel(e) PROVE IInv'
  BY <1>2 DEF Cancel
<1>3. ASSUME NEW e \in Exports, Export(e) PROVE IInv'
  BY <1>3 DEF Export
<1>4. ASSUME NEW e \in Exports, Begin(e) PROVE IInv'
  <2>1. CASE ~cancelled[e] /\ Goto(e, "check")
    BY <1>4, <2>1 DEF Begin
  <2>2. ASSUME NEW outcome \in {"Cancelled", "Error", "raised"}, Fails(e, "done", outcome) PROVE IInv'
    BY <1>4, <2>2 DEF Begin
  <2>. QED
    BY <1>4, <2>1, <2>2 DEF Begin
<1>5. ASSUME NEW e \in Exports, CheckTypes(e) PROVE IInv'
  <2>1. CASE ~cancelled[e] /\ Goto(e, "reserve")
    BY <1>5, <2>1 DEF CheckTypes
  <2>2. ASSUME NEW outcome \in {"Cancelled", "Error", "raised"}, Fails(e, NoFile, outcome) PROVE IInv'
    BY <1>5, <2>2 DEF CheckTypes
  <2>. QED
    BY <1>5, <2>1, <2>2 DEF CheckTypes
<1>6. ASSUME NEW e \in Exports, AdmitLocalFile(e) PROVE IInv'
  <2>1. CASE ~cancelled[e] /\ Goto(e, "temp_file")
    BY <1>6, <2>1 DEF AdmitLocalFile
  <2>2. ASSUME NEW outcome \in {"Cancelled", "raised"}, Fails(e, NoFile, outcome) PROVE IInv'
    BY <1>6, <2>2 DEF AdmitLocalFile
  <2>. QED
    BY <1>6, <2>1, <2>2 DEF AdmitLocalFile
<1>7. ASSUME NEW e \in Exports, TempFile(e) PROVE IInv'
  <2>1. CASE temporary' = [temporary EXCEPT ![e] = "empty"] /\ Owned(e)
    BY <1>7, <2>1 DEF TempFile, Owned
  <2>2. CASE temporary' = [temporary EXCEPT ![e] = "empty"] /\ Fails(e, NoFile, "raised")
    BY <1>7, <2>2 DEF TempFile
  <2>3. ASSUME NEW outcome \in {"Error", "raised"}, Fails(e, NoFile, outcome), UNCHANGED temporary
        PROVE  IInv'
    BY <1>7, <2>3 DEF TempFile
  <2>. QED
    BY <1>7, <2>1, <2>2, <2>3 DEF TempFile
<1>8. ASSUME NEW e \in Exports, CopyTo(e) PROVE IInv'
  <2>1. CASE temporary' = [temporary EXCEPT ![e] = "complete"] /\ Goto(e, "checkpoint")
    BY <1>8, <2>1 DEF CopyTo
  <2>2. ASSUME NEW content \in {temporary[e], "partial", "complete"},
               temporary' = [temporary EXCEPT ![e] = content],
               NEW outcome \in {"Cancelled", "Error", "raised"}, Fails(e, OwnsFile, outcome)
        PROVE  IInv'
    BY <1>8, <2>2 DEF CopyTo
  <2>3. temporary = [temporary EXCEPT ![e] = temporary[e]]
    OBVIOUS
  <2>. QED
    BY <1>8, <2>1, <2>2, <2>3 DEF CopyTo
<1>9. ASSUME NEW e \in Exports, Checkpoint(e) PROVE IInv'
  <2>1. ASSUME NEW outcome \in {"Cancelled", "raised"}, Fails(e, OwnsFile, outcome) PROVE IInv'
    BY <1>9, <2>1 DEF Checkpoint
  <2>2. CASE ~cancelled[e] /\ Goto(e, "publish")
    BY <1>9, <2>2 DEF Checkpoint
  <2>. QED
    BY <1>9, <2>1, <2>2 DEF Checkpoint
<1>10. ASSUME NEW e \in Exports, Publish(e) PROVE IInv'
  <2>1. CASE Acquire(e, Pieces) /\ Goto(e, "link")
    BY <1>10, <2>1 DEF Publish
  <2>2. ASSUME NEW pieces \in SUBSET Pieces, Acquire(e, pieces), Fails(e, "publish_return", "raised")
        PROVE  IInv'
    BY <1>10, <2>2 DEF Publish
  <2>. QED
    BY <1>10, <2>1, <2>2 DEF Publish
<1>11. ASSUME NEW e \in Exports, PublishLink(e) PROVE IInv'
  <2>1. CASE Link(e) /\ written' = [written EXCEPT ![e] = temporary[e]] /\ Goto(e, "linked")
               /\ UNCHANGED temporary
    BY <1>11, <2>1 DEF PublishLink, Link
  <2>2. ASSUME NEW outcome \in {"Cancelled", "Destination_exists", "Error"},
               Fails(e, "publish_return", outcome), UNCHANGED Files
        PROVE  IInv'
    BY <1>11, <2>2 DEF PublishLink
  <2>. QED
    BY <1>11, <2>1, <2>2 DEF PublishLink
<1>12. ASSUME NEW e \in Exports, Linked(e) PROVE IInv'
  <2>1. ASSUME NEW outcome \in {"Cancelled", "Ok", "raised"}, Fails(e, "publish_return", outcome)
        PROVE  IInv'
    BY <1>12, <2>1 DEF Linked
  <2>. QED
    BY <1>12, <2>1 DEF Linked
<1>13. ASSUME NEW e \in Exports, PublishReturn(e) PROVE IInv'
  BY <1>13 DEF PublishReturn
<1>14. ASSUME NEW e \in Exports, Remove(e) PROVE IInv'
  <2>1. CASE Acquire(e, {"shell", "source"}) /\ Goto(e, "unlink")
    BY <1>14, <2>1 DEF Remove
  <2>2. CASE Finish(e) /\ Fails(e, "settle", "not_removed")
    BY <1>14, <2>2 DEF Remove
  <2>. QED
    BY <1>14, <2>1, <2>2 DEF Remove
<1>15. ASSUME NEW e \in Exports, Unlink(e) PROVE IInv'
  <2>1. CASE temporary' = [temporary EXCEPT ![e] = None] /\ Goto(e, "settle")
    BY <1>15, <2>1 DEF Unlink
  <2>2. CASE temporary' = [temporary EXCEPT ![e] = None] /\ Fails(e, "settle", "raised")
    <3>1. /\ call' = [call EXCEPT ![e] = [pc |-> "settle", outcome |-> "raised", owned |-> @.owned]]
          /\ work' = [work EXCEPT ![e] = {}]
          /\ UNCHANGED <<destination, written, cancelled>>
      BY <1>15, <2>2 DEF Unlink
    <3>2. TypeOK'
      BY <2>2, <3>1
    <3>3. ASSUME NEW x \in Exports \ {e} PROVE (Owns(x) /\ Linking(x) /\ Reported(x))'
      BY <2>2, <3>1, <3>3
    <3>4. (Owns(e) /\ Linking(e) /\ Reported(e))'
      BY <2>2, <3>1
    <3>. HIDE DEF Owns, Linking, Reported, TypeOK
    <3>. QED
      BY <3>2, <3>3, <3>4
  <2>3. CASE UNCHANGED temporary /\ Fails(e, "settle", "not_removed")
    <3>1. /\ call' = [call EXCEPT ![e] = [pc |-> "settle", outcome |-> "not_removed", owned |-> @.owned]]
          /\ work' = [work EXCEPT ![e] = {}]
          /\ UNCHANGED <<temporary, destination, written, cancelled>>
      BY <1>15, <2>3 DEF Unlink
    <3>2. TypeOK'
      BY <3>1
    <3>3. ASSUME NEW x \in Exports \ {e} PROVE (Owns(x) /\ Linking(x) /\ Reported(x))'
      BY <3>1, <3>3
    <3>4. (Owns(e) /\ Linking(e) /\ Reported(e))'
      BY <3>1
    <3>. HIDE DEF Owns, Linking, Reported, TypeOK
    <3>. QED
      BY <3>2, <3>3, <3>4
  <2>. QED
    BY <1>15, <2>1, <2>2, <2>3 DEF Unlink
<1>16. ASSUME NEW e \in Exports, Settle(e) PROVE IInv'
  BY <1>16 DEF Settle
<1>17. CASE UNCHANGED vars
  BY <1>17 DEF vars
<1>. QED
  BY <1>1, <1>2, <1>3, <1>4, <1>5, <1>6, <1>7, <1>8, <1>9, <1>10, <1>11, <1>12, <1>13, <1>14, <1>15,
     <1>16, <1>17 DEF Next

\* The invariant holds in every reachable state.
LEMMA IInvAlways == Spec => []IInv
  BY InitEstablishes, InvariantKept, PTL DEF Spec

-----------------------------------------------------------------------------

\* The state of every export has its type, however many of them race.
THEOREM TypeCorrect == Spec => []TypeOK
<1>1. IInv => TypeOK
  BY DEF IInv
<1>. QED
  BY <1>1, IInvAlways, PTL

\* An export that is over has removed its temporary file or said that it could not, unless
\* an exception came between the reservation and the scope: then it raised, and an empty
\* file stays.  It holds no native memory; Ok and Destination_exists are true of the
\* destination, and a file that was linked is the whole copy.
THEOREM ExportsLeaveNothing == Spec => []NothingLeftBehind
<1>1. IInv => NothingLeftBehind
  BY DEF IInv, NothingLeftBehind, Owns, Ended, Linking, Reported, InNative
<1>. QED
  BY <1>1, IInvAlways, PTL

\* No step of an export changes a destination that exists: of its steps only the link
\* writes it, and link(2) finds it absent.
THEOREM ExportsNeverOverwrite == Spec => NoOverwrite
<1>1. [Next]_vars => [destination # None /\ destination' # destination => destination' = None]_vars
  <2>. SUFFICES ASSUME [Next]_vars, destination # None, destination' # destination
                PROVE  destination' = None
    OBVIOUS
  <2>1. CASE Elsewhere
    BY <2>1 DEF Elsewhere
  <2>2. ASSUME NEW e \in Exports, PublishLink(e) PROVE destination' = None
    BY <2>2 DEF PublishLink, Link, Files
  <2>. QED
    BY <2>1, <2>2 DEF Next, vars, Files, Cancel, Export, Begin, CheckTypes, AdmitLocalFile, TempFile,
       CopyTo, Checkpoint, Publish, Linked, PublishReturn, Remove, Unlink, Settle
<1>. QED
  BY <1>1, PTL DEF Spec, NoOverwrite
=============================================================================
