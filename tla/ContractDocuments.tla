------------------------- MODULE ContractDocuments -------------------------
(***************************************************************************)
(* The scanned document of one employment contract: a file, and the        *)
(* reference to it in the row of the contract.  No transaction spans both: *)
(* a file is stored before it is referred to, and removed after.           *)
(***************************************************************************)
EXTENDS Saves

CONSTANTS
  References,  \* the random names of the files
  Terms,       \* the values of the other columns of the contract
  Faults       \* what may fail: "crash", "save", "unlink"

ContractRecords == [documentUrl : References \union {Null}, terms : Terms]

\* NULL is no file, and no row looks like a missing one.
DocumentAssumption == Null \notin References \union ContractRecords

VARIABLE file  \* each file: unused, kept or removed

documentVars == <<saveVars, file>>

Contract == <<"contract">>

RemoveFile(f) ==
  file' = IF f = Null THEN file ELSE [file EXCEPT ![f] = "removed"]

----------------------------------------------------------------------------
\* uploadContractDocument and deleteContractDocument find the contract first.
Upload(p) ==
  /\ call[p] = Idle
  /\ call' = [call EXCEPT ![p] =
       [NewCall EXCEPT !.at = "store", !.holds = row[Contract].documentUrl]]
  /\ UNCHANGED <<row, file>>

Delete(p) ==
  /\ call[p] = Idle
  /\ call' = [call EXCEPT ![p] =
       [NewCall EXCEPT !.at = "set", !.holds = row[Contract].documentUrl]]
  /\ UNCHANGED <<row, file>>

StoreFile(p, f) ==
  /\ call[p].at = "store"
  /\ file[f] = "unused"
  /\ file' = [file EXCEPT ![f] = "kept"]
  /\ call' = [call EXCEPT ![p].at = "set", ![p].id = f]
  /\ UNCHANGED row

\* Mutant of SetDocument: the previous file is removed before the save.
RemoveThenSet(p) ==
  /\ call[p].at = "set"
  /\ call' = [call EXCEPT ![p].at = "save",
                          ![p].entity = [row[Contract] EXCEPT !.documentUrl = call[p].id]]
  /\ RemoveFile(call[p].holds)
  /\ UNCHANGED row

\* setContractDocument finds the contract again.
SetDocument(p) ==
  /\ call[p].at = "set"
  /\ call' = [call EXCEPT ![p].at = "save",
                          ![p].entity = [row[Contract] EXCEPT !.documentUrl = call[p].id]]
  /\ UNCHANGED <<row, file>>

CompareDocument(p) ==
  /\ call[p].at = "save"
  /\ call' = [call EXCEPT ![p].at = "write",
                          ![p].columns = Differing(call[p].entity, row[Contract])]
  /\ UNCHANGED <<row, file>>

WriteDocument(p) ==
  /\ call[p].at = "write"
  /\ row' = [row EXCEPT ![Contract] = Updated(@, call[p].entity, call[p].columns)]
  /\ GoesTo(p, call[p], "remove")
  /\ UNCHANGED file

\* The database refuses or is away: the upload removes the file it stored.
SaveFails(p) ==
  /\ "save" \in Faults
  /\ call[p].at \in {"save", "write"}
  /\ GoesTo(p, call[p], IF call[p].id = Null THEN "idle" ELSE "undo")
  /\ UNCHANGED <<row, file>>

RemovePrevious(p) ==
  /\ call[p].at = "remove"
  /\ RemoveFile(call[p].holds)
  /\ GoesTo(p, call[p], "idle")
  /\ UNCHANGED row

\* unlink fails with another error than ENOENT.  In an upload the same catch
\* block takes over.
RemovalFails(p) ==
  /\ "unlink" \in Faults
  /\ call[p].at = "remove"
  /\ call[p].holds # Null
  /\ GoesTo(p, call[p], IF call[p].id = Null THEN "idle" ELSE "undo")
  /\ UNCHANGED <<row, file>>

Undo(p) ==
  /\ call[p].at = "undo"
  /\ RemoveFile(call[p].id)
  /\ GoesTo(p, call[p], "idle")
  /\ UNCHANGED row

UndoFails(p) ==
  /\ "unlink" \in Faults
  /\ call[p].at = "undo"
  /\ Fails(p)
  /\ UNCHANGED file

\* updateContract: the entity it saves holds the reference it found.
UpdateContract(p, terms) ==
  /\ call[p] = Idle
  /\ call' = [call EXCEPT ![p] =
       Saving(NewCall, Contract, [row[Contract] EXCEPT !.terms = terms], "idle")]
  /\ UNCHANGED <<row, file>>

SaveContract(p) == (CompareSave(p) \/ UpdateSave(p, TRUE)) /\ UNCHANGED file

DocumentCrash(p) == "crash" \in Faults /\ Crash(p) /\ UNCHANGED file

----------------------------------------------------------------------------
DocumentInit ==
  /\ \E terms \in Terms : row = [id \in {Contract} |-> [documentUrl |-> Null, terms |-> terms]]
  /\ call = [p \in Calls |-> Idle]
  /\ file = [f \in References |-> "unused"]

DocumentNext ==
  \E p \in Calls :
    \/ Upload(p) \/ Delete(p)
    \/ \E f \in References : StoreFile(p, f)
    \/ SetDocument(p) \/ CompareDocument(p) \/ WriteDocument(p) \/ SaveFails(p)
    \/ RemovePrevious(p) \/ RemovalFails(p)
    \/ Undo(p) \/ UndoFails(p)
    \/ \E terms \in Terms : UpdateContract(p, terms)
    \/ SaveContract(p)
    \/ DocumentCrash(p)

DocumentSpec == DocumentInit /\ [][DocumentNext]_documentVars

----------------------------------------------------------------------------
Kept == {f \in References : file[f] = "kept"}

\* The document a contract refers to can be downloaded (downloadContractDocument
\* reads the file): it is not removed before, nor referred to after.
DocumentIsKept == row[Contract].documentUrl \in Kept \union {Null}

\* Between calls no other file is kept: uploads and deletions, and the uploads
\* whose save was refused, leave nothing behind.
NothingElseIsKept ==
  (\A p \in Calls : call[p] = Idle) => Kept \subseteq {row[Contract].documentUrl}

\* Whatever fails, a contract that refers to a document has a file left, its
\* own or the one before, from which the document can be restored by hand.
SomeFileIsLeft == row[Contract].documentUrl = Null \/ Kept # {}

=============================================================================
