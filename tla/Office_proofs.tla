---------------------------- MODULE Office_proofs ---------------------------
(***************************************************************************)
(* Proofs about the services that administer a company: the documents of   *)
(* contracts, roles, SLA levels and registration, each by itself and as    *)
(* they stand in MCOffice; for every number of rows, files, levels and     *)
(* codes.  The books, leave and accounts follow in Books_proofs.           *)
(***************************************************************************)
EXTENDS MCOffice, Units_proofs, FiniteSetTheorems, TLAPS

(***************************************************************************)
(* The document of a contract.  One call is under way: it knows the        *)
(* reference it found in the row and the file it stored, which differs.    *)
(* The instance in which everything may fail makes the steps of all three. *)
(***************************************************************************)

USE ContractsAssumption DEF Refused!DocumentAssumption

Contract == Unremoved!Contract
ContractRecords == Refused!ContractRecords
Url == contractRow[Contract].documentUrl

DocumentCalls ==
  [at : {"store", "set", "save", "write", "remove", "undo", "compare", "update"},
   id : References \union {Null, Contract}, entity : ContractRecords \union {Null},
   columns : SUBSET {"documentUrl", "terms"}, then : {"idle"},
   holds : References \union {Null}]

\* What the call holds fits the row and the files.
DocumentFits(c) ==
  /\ Url # Null => file[Url] # "unused"
  /\ c.at \in {"store", "set", "save", "write"} => c.holds = Url
  /\ c.at \in {"set", "save", "write", "remove"} =>
       c.id \in Unremoved!Kept \union {Null} /\ (c.id # Null => c.id # c.holds)
  /\ c.at \in {"save", "write"} =>
       /\ c.entity \in ContractRecords
       /\ c.entity.documentUrl = c.id /\ c.entity.terms = contractRow[Contract].terms
  /\ c.at = "write" => c.columns = Unremoved!Differing(c.entity, contractRow[Contract])
  /\ c.at = "remove" => c.id = Url
  /\ c.at = "undo" => c.id \in Unremoved!Kept
  /\ c.at \in {"compare", "update"} =>
       c.id = Contract /\ c.entity \in ContractRecords /\ c.entity.documentUrl = Url

\* Nothing that is referred to is removed, unless it cannot be undone.
KeepsDocument(c) == Url \in Unremoved!Kept \union {Null} /\ (c.at = "undo" => c.id # Url)

\* A file is left: another than the one that may be removed.
KeepsSome(c) ==
  /\ Url # Null => Unremoved!Kept # {}
  /\ c.at \in {"set", "save", "write", "remove"} /\ c.holds # Null => Unremoved!Kept \ {c.id} # {}
  /\ c.at = "undo" /\ Url # Null => Unremoved!Kept \ {c.id} # {}

\* No file is kept but those the row and the call know.
KeepsNoOther(c) ==
  /\ c.at \in {"idle", "store", "compare", "update"} => Unremoved!Kept \subseteq {Url}
  /\ c.at \in {"set", "save", "write", "undo"} => Unremoved!Kept \subseteq {Url, c.id}
  /\ c.at = "remove" => Unremoved!Kept \subseteq {Url, c.holds}

DocumentTypes ==
  /\ contractRow \in [{Contract} -> ContractRecords]
  /\ file \in [References -> {"unused", "kept", "removed"}]
  /\ contractCall \in [{one} -> {Unremoved!Idle} \union DocumentCalls]

DocumentInv == DocumentTypes /\ DocumentFits(contractCall[one])

\* What a call is, and where the next state takes it.
LEMMA DocumentCall ==
  ASSUME DocumentTypes
  PROVE  /\ contractCall[one] = Unremoved!Idle \/ contractCall[one] \in DocumentCalls
         /\ contractCall[one] = Unremoved!Idle <=> contractCall[one].at = "idle"
         /\ Contract \in DOMAIN contractRow /\ contractRow[Contract] \in ContractRecords
         /\ contractRow[Contract] # Null /\ Null \notin References
BY DEF DocumentTypes, DocumentCalls, Unremoved!Idle, ContractRecords

\* A call that is over or goes on from c.
LEMMA DocumentGoes ==
  ASSUME DocumentTypes, NEW d, d \in DocumentCalls \/ d = Unremoved!Idle,
         contractCall' = [contractCall EXCEPT ![one] = d],
         contractRow' \in [{Contract} -> ContractRecords],
         file' \in [References -> {"unused", "kept", "removed"}],
         DocumentFits(d)'
  PROVE  DocumentInv' /\ contractCall'[one] = d
<1>1. contractCall'[one] = d /\ contractCall' \in [{one} -> {Unremoved!Idle} \union DocumentCalls]
  BY DEF DocumentTypes
<1> QED
  BY <1>1 DEF DocumentInv, DocumentTypes

\* A step keeps what the call knows, and whichever of the three the instance
\* is about.
LEMMA DocumentStarts ==
  ASSUME DocumentInv, Unremoved!Upload(one) \/ Unremoved!Delete(one)
  PROVE  /\ DocumentInv'
         /\ KeepsDocument(contractCall[one]) => KeepsDocument(contractCall[one])'
         /\ KeepsSome(contractCall[one]) => KeepsSome(contractCall[one])'
         /\ KeepsNoOther(contractCall[one]) => KeepsNoOther(contractCall[one])'
<1>1. PICK d : d = contractCall'[one]
  OBVIOUS
<1>2. /\ contractCall[one] = Unremoved!Idle /\ UNCHANGED <<contractRow, file>>
      /\ d = [Unremoved!NewCall EXCEPT !.at = d.at, !.holds = Url] /\ d.at \in {"store", "set"}
      /\ contractCall' = [contractCall EXCEPT ![one] = d]
  BY <1>1 DEF DocumentInv, DocumentTypes, Unremoved!Upload, Unremoved!Delete, Unremoved!NewCall,
     Url, Contract
<1>0. Url \in References \union {Null}
  BY DEF DocumentInv, DocumentTypes, Url, ContractRecords, Refused!ContractRecords
<1>5. contractCall[one].at = "idle" /\ d \in DocumentCalls /\ d.id = Null /\ d.holds = Url
  <2>1. PICK at : at = d.at
    OBVIOUS
  <2>2. d = [at |-> at, id |-> Null, entity |-> Null, columns |-> {}, then |-> "idle", holds |-> Url]
    BY <1>2, <2>1 DEF Unremoved!NewCall
  <2> QED
    BY <1>2, <1>0, <2>1, <2>2 DEF DocumentCalls, Unremoved!Idle
<1>3. DocumentFits(d)'
  BY <1>2, <1>5 DEF DocumentFits, DocumentInv, Url
<1>4. DocumentInv' /\ contractCall'[one] = d
  BY <1>2, <1>3, <1>5, DocumentGoes DEF DocumentInv, DocumentTypes
<1> QED
  BY <1>2, <1>4, <1>5 DEF KeepsDocument, KeepsSome, KeepsNoOther, Url, Unremoved!Kept

\* A call that is over fits.
LEMMA DocumentEnds ==
  ASSUME DocumentInv, contractCall' = [contractCall EXCEPT ![one] = Unremoved!Idle],
         contractRow' \in [{Contract} -> ContractRecords],
         file' \in [References -> {"unused", "kept", "removed"}],
         Url' # Null => file'[Url'] # "unused"
  PROVE  DocumentInv' /\ contractCall'[one].at = "idle"
<1>1. Unremoved!Idle.at = "idle"
  BY DEF Unremoved!Idle
<1>2. DocumentFits(Unremoved!Idle)'
  BY <1>1 DEF DocumentFits, Url
<1> QED
  BY <1>1, <1>2, DocumentGoes DEF DocumentInv

LEMMA DocumentFiles ==
  ASSUME DocumentInv,
         \/ \E f \in References : Unremoved!StoreFile(one, f)
         \/ Unremoved!RemovePrevious(one) \/ Unremoved!Undo(one)
  PROVE  /\ DocumentInv'
         /\ KeepsDocument(contractCall[one]) => KeepsDocument(contractCall[one])'
         /\ KeepsSome(contractCall[one]) => KeepsSome(contractCall[one])'
         /\ KeepsNoOther(contractCall[one]) => KeepsNoOther(contractCall[one])'
<1>1. PICK c : c = contractCall[one]
  OBVIOUS
<1>2. DocumentTypes /\ DocumentFits(c) /\ contractRow[Contract] \in ContractRecords
  BY <1>1, DocumentCall DEF DocumentInv
<1>3. file \in [References -> {"unused", "kept", "removed"}] /\ contractRow \in [{Contract} -> ContractRecords]
  BY <1>2 DEF DocumentTypes
<1>4. ASSUME NEW f \in References, Unremoved!StoreFile(one, f)
      PROVE  /\ DocumentInv'
             /\ KeepsDocument(c) => KeepsDocument(contractCall[one])'
             /\ KeepsSome(c) => KeepsSome(contractCall[one])'
             /\ KeepsNoOther(c) => KeepsNoOther(contractCall[one])'
  <2>1. PICK d : d = [c EXCEPT !.at = "set", !.id = f]
    OBVIOUS
  <2>2. c.at = "store" /\ file[f] = "unused" /\ file' = [file EXCEPT ![f] = "kept"] /\ UNCHANGED contractRow
    BY <1>1, <1>4 DEF Unremoved!StoreFile
  <2>3. c \in DocumentCalls
    BY <1>1, <1>2, <2>2, DocumentCall
  <2>4. d \in DocumentCalls /\ d.at = "set" /\ d.id = f /\ d.holds = c.holds /\ f # Null
    BY <2>1, <2>3, DocumentCall, <1>2 DEF DocumentCalls
  <2>5. contractCall' = [contractCall EXCEPT ![one] = d]
    BY <1>1, <1>2, <1>4, <2>1 DEF Unremoved!StoreFile, DocumentTypes
  <2>6. file' \in [References -> {"unused", "kept", "removed"}]
    BY <1>3, <2>2
  <2>7. Unremoved!Kept' = Unremoved!Kept \union {f} /\ f \notin Unremoved!Kept /\ Url' = Url
    BY <1>3, <2>2 DEF Unremoved!Kept, Url
  <2>8. c.holds = Url
    BY <1>2, <2>2 DEF DocumentFits
  <2>9. Url # f /\ (Url # Null => file'[Url] # "unused")
    BY <1>2, <1>3, <2>2 DEF DocumentFits
  <2>10. DocumentFits(d)'
    BY <2>4, <2>7, <2>8, <2>9 DEF DocumentFits
  <2>11. DocumentInv' /\ contractCall'[one] = d
    BY <1>2, <1>3, <2>2, <2>4, <2>5, <2>6, <2>10, DocumentGoes
  <2> QED
    BY <2>2, <2>4, <2>7, <2>8, <2>11 DEF KeepsDocument, KeepsSome, KeepsNoOther
<1>5. ASSUME NEW f \in References \union {Null}, Unremoved!RemoveFile(f), UNCHANGED contractRow,
             contractCall' = [contractCall EXCEPT ![one] = Unremoved!Idle],
             (c.at = "remove" /\ f = c.holds) \/ (c.at = "undo" /\ f = c.id)
      PROVE  /\ DocumentInv'
             /\ KeepsDocument(c) => KeepsDocument(contractCall[one])'
             /\ KeepsSome(c) => KeepsSome(contractCall[one])'
             /\ KeepsNoOther(c) => KeepsNoOther(contractCall[one])'
  <2>1. /\ file' \in [References -> {"unused", "kept", "removed"}]
        /\ Unremoved!Kept' = Unremoved!Kept \ {f} /\ Url' = Url
        /\ Url # Null => file'[Url] # "unused"
    BY <1>2, <1>3, <1>5, DocumentCall DEF Unremoved!RemoveFile, Unremoved!Kept, DocumentFits, Url
  <2>2. DocumentInv' /\ contractCall'[one].at = "idle"
    BY <1>3, <1>5, <2>1, DocumentInv, DocumentEnds
  <2>3. c.at = "remove" => Url \in Unremoved!Kept \union {Null} /\ (Url # Null => Url # f)
    BY <1>2, <1>5 DEF DocumentFits
  <2> QED
    BY <1>5, <2>1, <2>2, <2>3 DEF KeepsDocument, KeepsSome, KeepsNoOther
<1>6. CASE Unremoved!RemovePrevious(one) \/ Unremoved!Undo(one)
  <2>1. c \in DocumentCalls /\ UNCHANGED contractRow
    BY <1>1, <1>2, <1>6, DocumentCall DEF Unremoved!RemovePrevious, Unremoved!Undo
  <2>2. contractCall' = [contractCall EXCEPT ![one] = Unremoved!Idle]
    BY <1>6 DEF Unremoved!RemovePrevious, Unremoved!Undo, Unremoved!GoesTo
  <2>3. c.at = "undo" => c.id \in References
    BY <1>2 DEF DocumentFits, Unremoved!Kept
  <2>4. c.holds \in References \union {Null}
    BY <2>1 DEF DocumentCalls
  <2>5. CASE Unremoved!RemovePrevious(one)
    <3>1. c.at = "remove" /\ Unremoved!RemoveFile(c.holds)
      BY <1>1, <2>5 DEF Unremoved!RemovePrevious
    <3> QED
      BY <1>1, <1>5, <2>1, <2>2, <2>4, <3>1
  <2>6. CASE Unremoved!Undo(one)
    <3>1. c.at = "undo" /\ Unremoved!RemoveFile(c.id)
      BY <1>1, <2>6 DEF Unremoved!Undo
    <3> QED
      BY <1>1, <1>5, <2>1, <2>2, <2>3, <3>1
  <2> QED
    BY <1>6, <2>5, <2>6
<1> QED
  BY <1>1, <1>4, <1>6

\* The row is saved, or not.
LEMMA DocumentSaves ==
  ASSUME DocumentInv,
         \/ Unremoved!SetDocument(one) \/ Unremoved!CompareDocument(one) \/ Unremoved!WriteDocument(one)
         \/ Unremoved!SaveFails(one) \/ Unremoved!SaveContract(one)
         \/ \E terms \in Terms : Unremoved!UpdateContract(one, terms)
  PROVE  /\ DocumentInv'
         /\ KeepsDocument(contractCall[one]) => KeepsDocument(contractCall[one])'
         /\ KeepsSome(contractCall[one]) => KeepsSome(contractCall[one])'
         /\ KeepsNoOther(contractCall[one]) => KeepsNoOther(contractCall[one])'
<1>1. PICK c : c = contractCall[one]
  OBVIOUS
<1>2. DocumentTypes /\ DocumentFits(c) /\ contractRow[Contract] \in ContractRecords
  BY <1>1, DocumentCall DEF DocumentInv
<1>3. /\ file \in [References -> {"unused", "kept", "removed"}]
      /\ contractRow \in [{Contract} -> ContractRecords]
      /\ contractCall \in [{one} -> {Unremoved!Idle} \union DocumentCalls]
  BY <1>2 DEF DocumentTypes
<1>4. UNCHANGED file
  BY DEF Unremoved!SetDocument, Unremoved!CompareDocument, Unremoved!WriteDocument, Unremoved!SaveFails,
         Unremoved!SaveContract, Unremoved!UpdateContract
\* While the row stays, the call goes on.
<1>5. ASSUME NEW d, UNCHANGED contractRow, contractCall' = [contractCall EXCEPT ![one] = d],
             d \in DocumentCalls \/ d = Unremoved!Idle, DocumentFits(d),
             d.at \in {"save", "write", "undo"} => c.at \in {"set", "save", "write"} /\ d.id = c.id /\ d.holds = c.holds,
             d.at \in {"idle", "compare", "update"} =>
               \/ c.at \in {"idle", "compare", "update"}
               \/ c.at \in {"save", "write"} /\ c.id = Null,
             d.at \notin {"store", "set", "remove"}
      PROVE  /\ DocumentInv'
             /\ KeepsDocument(c) => KeepsDocument(contractCall[one])'
             /\ KeepsSome(c) => KeepsSome(contractCall[one])'
             /\ KeepsNoOther(c) => KeepsNoOther(contractCall[one])'
  <2>1. Unremoved!Kept' = Unremoved!Kept /\ Url' = Url
    BY <1>4, <1>5 DEF Unremoved!Kept, Url
  <2>2. DocumentFits(d)'
    BY <1>4, <1>5, <2>1 DEF DocumentFits
  <2>3. DocumentInv' /\ contractCall'[one] = d
    BY <1>2, <1>3, <1>4, <1>5, <2>2, DocumentGoes
  <2>4. c.at \in {"set", "save", "write"} =>
          c.id \in Unremoved!Kept \union {Null} /\ (c.id # Null => c.id # c.holds) /\ c.holds = Url
    BY <1>2 DEF DocumentFits
  <2>5. d.at = "undo" => d.id # Null
    BY <1>2, <1>5, <2>1, DocumentCall DEF DocumentFits, Unremoved!Kept
  <2>6. Unremoved!Idle.at = "idle"
    BY DEF Unremoved!Idle
  <2>7. d.at \in {"save", "write", "undo", "idle", "compare", "update"}
    BY <1>5, <2>6 DEF DocumentCalls
  <2>8. KeepsDocument(c) => KeepsDocument(d)'
    BY <1>5, <2>1, <2>4, <2>5, <2>7 DEF KeepsDocument
  <2>9. KeepsSome(c) => KeepsSome(d)'
    BY <1>5, <2>1, <2>4, <2>5, <2>7 DEF KeepsSome
  <2>11. Null \notin Unremoved!Kept
    BY <1>2, DocumentCall DEF Unremoved!Kept
  <2>10. KeepsNoOther(c) => KeepsNoOther(d)'
    BY <1>5, <2>1, <2>11, <2>4, <2>5, <2>7 DEF KeepsNoOther
  <2> QED
    BY <2>3, <2>8, <2>9, <2>10
<1>6. CASE Unremoved!SetDocument(one)
  <2>1. PICK e : e = [contractRow[Contract] EXCEPT !.documentUrl = c.id]
    OBVIOUS
  <2>2. PICK d : d = [c EXCEPT !.at = "save", !.entity = e]
    OBVIOUS
  <2>3. c.at = "set" /\ UNCHANGED contractRow
    BY <1>1, <1>6 DEF Unremoved!SetDocument
  <2>4. c \in DocumentCalls
    BY <1>1, <1>2, <2>3, DocumentCall
  <2>5. c.id \in References \union {Null} /\ c.holds = Url /\ (c.id # Null => c.id # c.holds)
    BY <1>2, <2>3 DEF DocumentFits, Unremoved!Kept
  <2>6. e \in ContractRecords /\ e.documentUrl = c.id /\ e.terms = contractRow[Contract].terms
    BY <1>2, <2>1, <2>5 DEF ContractRecords, Refused!ContractRecords
  <2>7. d \in DocumentCalls /\ d.at = "save" /\ d.id = c.id /\ d.holds = c.holds /\ d.entity = e
    BY <2>2, <2>4, <2>6 DEF DocumentCalls
  <2>8. contractCall' = [contractCall EXCEPT ![one] = d]
    BY <1>1, <1>3, <1>6, <2>1, <2>2 DEF Unremoved!SetDocument, Contract
  <2>9. DocumentFits(d)
    BY <1>2, <2>3, <2>5, <2>6, <2>7 DEF DocumentFits
  <2> QED
    BY <1>1, <1>5, <2>3, <2>7, <2>8, <2>9
<1>7. CASE Unremoved!CompareDocument(one)
  <2>1. PICK cs : cs = Unremoved!Differing(c.entity, contractRow[Contract])
    OBVIOUS
  <2>2. PICK d : d = [c EXCEPT !.at = "write", !.columns = cs]
    OBVIOUS
  <2>3. c.at = "save" /\ UNCHANGED contractRow
    BY <1>1, <1>7 DEF Unremoved!CompareDocument
  <2>4. c \in DocumentCalls
    BY <1>1, <1>2, <2>3, DocumentCall
  <2>5. c.entity \in ContractRecords
    BY <1>2, <2>3 DEF DocumentFits
  <2>6. cs \subseteq {"documentUrl", "terms"}
    BY <2>1, <2>5 DEF Unremoved!Differing, ContractRecords, Refused!ContractRecords
  <2>7. d \in DocumentCalls /\ d.at = "write" /\ d.id = c.id /\ d.holds = c.holds
        /\ d.entity = c.entity /\ d.columns = cs
    BY <2>2, <2>4, <2>6 DEF DocumentCalls
  <2>8. contractCall' = [contractCall EXCEPT ![one] = d]
    BY <1>1, <1>3, <1>7, <2>1, <2>2 DEF Unremoved!CompareDocument, Contract
  <2>9. DocumentFits(d)
    BY <1>2, <2>1, <2>3, <2>7 DEF DocumentFits
  <2> QED
    BY <1>1, <1>5, <2>3, <2>7, <2>8, <2>9
<1>8. CASE Unremoved!SaveFails(one)
  <2>1. PICK d : d = IF c.id = Null THEN Unremoved!Idle ELSE [c EXCEPT !.at = "undo"]
    OBVIOUS
  <2>2. c.at \in {"save", "write"} /\ UNCHANGED contractRow
    BY <1>1, <1>8 DEF Unremoved!SaveFails
  <2>3. c \in DocumentCalls
    BY <1>1, <1>2, <2>2, DocumentCall
  <2>4. c.id = Null => d = Unremoved!Idle /\ d.at = "idle"
    BY <2>1 DEF Unremoved!Idle
  <2>5. c.id # Null => d \in DocumentCalls /\ d.at = "undo" /\ d.id = c.id /\ d.holds = c.holds
    BY <2>1, <2>3 DEF DocumentCalls
  <2>6. contractCall' = [contractCall EXCEPT ![one] = d]
    BY <1>1, <1>8, <2>1 DEF Unremoved!SaveFails, Unremoved!GoesTo
  <2>7. DocumentFits(d)
    BY <1>2, <2>2, <2>4, <2>5 DEF DocumentFits
  <2> QED
    BY <1>1, <1>5, <2>2, <2>4, <2>5, <2>6, <2>7
<1>9. ASSUME NEW terms \in Terms, Unremoved!UpdateContract(one, terms)
      PROVE  /\ DocumentInv'
             /\ KeepsDocument(c) => KeepsDocument(contractCall[one])'
             /\ KeepsSome(c) => KeepsSome(contractCall[one])'
             /\ KeepsNoOther(c) => KeepsNoOther(contractCall[one])'
  <2>1. PICK e : e = [contractRow[Contract] EXCEPT !.terms = terms]
    OBVIOUS
  <2>2. PICK d : d = Unremoved!Saving(Unremoved!NewCall, Contract, e, "idle")
    OBVIOUS
  <2>3. c = Unremoved!Idle /\ c.at = "idle" /\ UNCHANGED contractRow
    BY <1>1, <1>9 DEF Unremoved!UpdateContract, Unremoved!Idle
  <2>4. e \in ContractRecords /\ e.documentUrl = Url
    BY <1>2, <2>1 DEF ContractRecords, Refused!ContractRecords, Url
  <2>5. d = [at |-> "compare", id |-> Contract, entity |-> e, columns |-> {}, then |-> "idle", holds |-> Null]
    BY <2>2 DEF Unremoved!Saving, Unremoved!NewCall
  <2>6. d \in DocumentCalls /\ d.at = "compare" /\ d.id = Contract /\ d.entity = e
    BY <2>4, <2>5 DEF DocumentCalls
  <2>7. contractCall' = [contractCall EXCEPT ![one] = d]
    BY <1>3, <1>9, <2>1, <2>2 DEF Unremoved!UpdateContract, Contract
  <2>8. DocumentFits(d)
    BY <1>2, <2>4, <2>6 DEF DocumentFits
  <2> QED
    BY <1>5, <2>3, <2>6, <2>7, <2>8
<1>10. CASE Unremoved!SaveContract(one) /\ c.at = "compare"
  <2>1. PICK cs : cs = Unremoved!Differing(c.entity, contractRow[Contract])
    OBVIOUS
  <2>2. PICK d : d = [c EXCEPT !.at = "update", !.columns = cs]
    OBVIOUS
  <2>3. c \in DocumentCalls
    BY <1>1, <1>2, <1>10, DocumentCall
  <2>4. c.id = Contract /\ c.entity \in ContractRecords /\ c.entity.documentUrl = Url
    BY <1>2, <1>10 DEF DocumentFits
  <2>5. cs \subseteq {"documentUrl", "terms"}
    BY <2>1, <2>4 DEF Unremoved!Differing, ContractRecords, Refused!ContractRecords
  <2>6. d \in DocumentCalls /\ d.at = "update" /\ d.id = c.id /\ d.entity = c.entity
    BY <2>2, <2>3, <2>5 DEF DocumentCalls
  <2>7. UNCHANGED contractRow /\ contractCall' = [contractCall EXCEPT ![one] = d]
    BY <1>1, <1>2, <1>3, <1>10, <2>1, <2>2, <2>4, DocumentCall
       DEF Unremoved!SaveContract, Unremoved!CompareSave, Unremoved!UpdateSave
  <2>8. DocumentFits(d)
    BY <1>2, <2>4, <2>6 DEF DocumentFits
  <2> QED
    BY <1>1, <1>5, <1>10, <2>6, <2>7, <2>8
\* The reference a contract is saved with is the one it has.
<1>11. CASE Unremoved!SaveContract(one) /\ c.at # "compare"
  <2>1. c.at = "update"
    BY <1>1, <1>11 DEF Unremoved!SaveContract, Unremoved!CompareSave, Unremoved!UpdateSave
  <2>2. c \in DocumentCalls
    BY <1>1, <1>2, <2>1, DocumentCall
  <2>3. c.id = Contract /\ c.entity \in ContractRecords /\ c.entity.documentUrl = Url /\ c.then = "idle"
    BY <1>2, <2>1, <2>2 DEF DocumentFits, DocumentCalls
  <2>4. PICK r : r = Unremoved!Updated(contractRow[Contract], c.entity, c.columns)
    OBVIOUS
  <2>5. r \in ContractRecords /\ r.documentUrl = Url
    BY <1>2, <2>3, <2>4 DEF Unremoved!Updated, ContractRecords, Refused!ContractRecords, Url
  <2>6. /\ contractRow' = [contractRow EXCEPT ![Contract] = r]
        /\ contractCall' = [contractCall EXCEPT ![one] = Unremoved!Idle]
    BY <1>1, <1>2, <1>11, <2>1, <2>3, <2>4, DocumentCall
       DEF Unremoved!SaveContract, Unremoved!CompareSave, Unremoved!UpdateSave, Unremoved!Written,
           Unremoved!GoesTo
  <2>7. contractRow' \in [{Contract} -> ContractRecords] /\ Url' = Url /\ Unremoved!Kept' = Unremoved!Kept
    BY <1>3, <1>4, <2>5, <2>6 DEF Url, Unremoved!Kept
  <2>8. DocumentInv' /\ contractCall'[one].at = "idle"
    BY <1>2, <1>3, <1>4, <2>6, <2>7, DocumentInv, DocumentEnds DEF DocumentFits
  <2> QED
    BY <1>1, <2>1, <2>7, <2>8 DEF KeepsDocument, KeepsSome, KeepsNoOther
\* The row refers to the file that was stored, if one was.
<1>12. CASE Unremoved!WriteDocument(one)
  <2>1. c.at = "write"
    BY <1>1, <1>12 DEF Unremoved!WriteDocument
  <2>2. c \in DocumentCalls
    BY <1>1, <1>2, <2>1, DocumentCall
  <2>3. /\ c.entity \in ContractRecords /\ c.entity.documentUrl = c.id
        /\ c.columns = Unremoved!Differing(c.entity, contractRow[Contract])
        /\ c.id \in Unremoved!Kept \union {Null} /\ (c.id # Null => c.id # c.holds) /\ c.holds = Url
    BY <1>2, <2>1 DEF DocumentFits
  <2>4. PICK r : r = Unremoved!Updated(contractRow[Contract], c.entity, c.columns)
    OBVIOUS
  <2>5. r \in ContractRecords /\ r.documentUrl = c.id
    BY <1>2, <2>3, <2>4 DEF Unremoved!Updated, Unremoved!Differing, ContractRecords, Refused!ContractRecords
  <2>6. PICK d : d = [c EXCEPT !.at = "remove"]
    OBVIOUS
  <2>7. d \in DocumentCalls /\ d.at = "remove" /\ d.id = c.id /\ d.holds = c.holds
    BY <2>2, <2>6 DEF DocumentCalls
  <2>8. /\ contractRow' = [contractRow EXCEPT ![Contract] = r]
        /\ contractCall' = [contractCall EXCEPT ![one] = d]
    BY <1>1, <1>12, <2>4, <2>6 DEF Unremoved!WriteDocument, Unremoved!GoesTo, Contract
  <2>9. contractRow' \in [{Contract} -> ContractRecords] /\ Url' = c.id /\ Unremoved!Kept' = Unremoved!Kept
    BY <1>3, <1>4, <2>5, <2>8 DEF Url, Unremoved!Kept
  <2>10. c.id # Null => file[c.id] # "unused"
    BY <2>3 DEF Unremoved!Kept
  <2>11. DocumentFits(d)'
    BY <1>4, <2>3, <2>7, <2>9, <2>10 DEF DocumentFits
  <2>12. DocumentInv' /\ contractCall'[one] = d
    BY <1>2, <1>3, <1>4, <2>7, <2>8, <2>9, <2>11, DocumentGoes
  <2> QED
    BY <1>1, <2>1, <2>3, <2>7, <2>9, <2>12 DEF KeepsDocument, KeepsSome, KeepsNoOther
<1> QED
  BY <1>1, <1>6, <1>7, <1>8, <1>9, <1>10, <1>11, <1>12

\* The process stops, or a file cannot be removed.
LEMMA DocumentFaults ==
  ASSUME DocumentInv
  PROVE  /\ Unremoved!Crash(one) /\ UNCHANGED file =>
              /\ DocumentInv'
              /\ KeepsDocument(contractCall[one]) => KeepsDocument(contractCall[one])'
              /\ KeepsSome(contractCall[one]) => KeepsSome(contractCall[one])'
         /\ Unremoved!RemovalFails(one) \/ Unremoved!UndoFails(one) =>
              /\ DocumentInv'
              /\ KeepsSome(contractCall[one]) => KeepsSome(contractCall[one])'
<1>1. PICK c : c = contractCall[one]
  OBVIOUS
<1>2. DocumentTypes /\ DocumentFits(c) /\ contractRow[Contract] \in ContractRecords
  BY <1>1, DocumentCall DEF DocumentInv
<1>3. /\ file \in [References -> {"unused", "kept", "removed"}]
      /\ contractRow \in [{Contract} -> ContractRecords]
  BY <1>2 DEF DocumentTypes
<1>4. ASSUME UNCHANGED <<contractRow, file>>, contractCall' = [contractCall EXCEPT ![one] = Unremoved!Idle]
      PROVE  /\ DocumentInv'
             /\ KeepsDocument(c) => KeepsDocument(contractCall[one])'
             /\ KeepsSome(c) => KeepsSome(contractCall[one])'
  <2>1. Unremoved!Kept' = Unremoved!Kept /\ Url' = Url
    BY <1>4 DEF Unremoved!Kept, Url
  <2>2. DocumentInv' /\ contractCall'[one].at = "idle"
    BY <1>2, <1>3, <1>4, <2>1, DocumentInv, DocumentEnds DEF DocumentFits
  <2> QED
    BY <2>1, <2>2 DEF KeepsDocument, KeepsSome
<1>5. CASE (Unremoved!Crash(one) /\ UNCHANGED file) \/ Unremoved!UndoFails(one)
  BY <1>1, <1>4, <1>5 DEF Unremoved!Crash, Unremoved!UndoFails, Unremoved!Fails
<1>6. CASE Unremoved!RemovalFails(one) /\ c.id = Null
  <2>1. UNCHANGED <<contractRow, file>> /\ contractCall' = [contractCall EXCEPT ![one] = Unremoved!Idle]
    BY <1>1, <1>6 DEF Unremoved!RemovalFails, Unremoved!GoesTo
  <2> QED
    BY <1>1, <1>4, <1>6, <2>1 DEF Unremoved!RemovalFails, Unremoved!Crash, Unremoved!UndoFails
<1>7. CASE Unremoved!RemovalFails(one) /\ c.id # Null
  <2>1. PICK d : d = [c EXCEPT !.at = "undo"]
    OBVIOUS
  <2>2. c.at = "remove" /\ c.holds # Null /\ UNCHANGED <<contractRow, file>>
    BY <1>1, <1>7 DEF Unremoved!RemovalFails
  <2>3. c \in DocumentCalls
    BY <1>1, <1>2, <2>2, DocumentCall
  <2>4. d \in DocumentCalls /\ d.at = "undo" /\ d.id = c.id
    BY <2>1, <2>3 DEF DocumentCalls
  <2>5. contractCall' = [contractCall EXCEPT ![one] = d]
    BY <1>1, <1>7, <2>1 DEF Unremoved!RemovalFails, Unremoved!GoesTo
  <2>6. Unremoved!Kept' = Unremoved!Kept /\ Url' = Url
    BY <2>2 DEF Unremoved!Kept, Url
  <2>7. DocumentFits(d)'
    BY <1>2, <1>7, <2>2, <2>4, <2>6 DEF DocumentFits
  <2>8. DocumentInv' /\ contractCall'[one] = d
    BY <1>2, <1>3, <2>2, <2>4, <2>5, <2>7, DocumentGoes
  <2>9. KeepsSome(c) => KeepsSome(contractCall[one])'
    BY <2>2, <2>4, <2>6, <2>8 DEF KeepsSome
  <2>10. ~ Unremoved!Crash(one)
    BY <2>4, <2>5, <1>2 DEF Unremoved!Crash, Unremoved!Fails, Unremoved!Idle, DocumentTypes
  <2> QED
    BY <1>1, <1>7, <2>8, <2>9, <2>10
<1> QED
  BY <1>1, <1>5, <1>6, <1>7

\* The steps that need no file to stay when it should be removed.
DocumentSteps ==
  \/ Unremoved!Upload(one) \/ Unremoved!Delete(one)
  \/ \E f \in References : Unremoved!StoreFile(one, f)
  \/ Unremoved!SetDocument(one) \/ Unremoved!CompareDocument(one) \/ Unremoved!WriteDocument(one)
  \/ Unremoved!SaveFails(one) \/ Unremoved!RemovePrevious(one) \/ Unremoved!Undo(one)
  \/ \E terms \in Terms : Unremoved!UpdateContract(one, terms)
  \/ Unremoved!SaveContract(one)

\* A contract whose process may stop makes these steps, or stops,
LEMMA StoppedIsStep ==
  Stopped!DocumentNext => DocumentSteps \/ (Unremoved!Crash(one) /\ UNCHANGED file)
<1>1. Stopped!Idle = Unremoved!Idle
  BY DEF Stopped!Idle, Unremoved!Idle
<1>2. \A entity, stored : Stopped!Differing(entity, stored) = Unremoved!Differing(entity, stored)
  BY DEF Stopped!Differing, Unremoved!Differing
<1>3. \A stored, entity, columns : Stopped!Updated(stored, entity, columns) = Unremoved!Updated(stored, entity, columns)
  BY DEF Stopped!Updated, Unremoved!Updated
<1>4. \A p, c, at : Stopped!GoesTo(p, c, at) <=> Unremoved!GoesTo(p, c, at)
  BY <1>1 DEF Stopped!GoesTo, Unremoved!GoesTo
<1>5. \A p : Stopped!Fails(p) <=> Unremoved!Fails(p)
  BY <1>1 DEF Stopped!Fails, Unremoved!Fails
<1>6. \A c, id, entity, then : Stopped!Saving(c, id, entity, then) = Unremoved!Saving(c, id, entity, then)
  BY DEF Stopped!Saving, Unremoved!Saving
<1>7. Stopped!NewCall = Unremoved!NewCall
  BY DEF Stopped!NewCall, Unremoved!NewCall
<1>8. \A p : Stopped!CompareSave(p) <=> Unremoved!CompareSave(p)
  BY <1>4, <1>2 DEF Stopped!CompareSave, Unremoved!CompareSave
<1>9. \A p : Stopped!Written(p) = Unremoved!Written(p)
  BY <1>3 DEF Stopped!Written, Unremoved!Written
<1>10. \A p, accepted : Stopped!UpdateSave(p, accepted) <=> Unremoved!UpdateSave(p, accepted)
  BY <1>9, <1>4, <1>5 DEF Stopped!UpdateSave, Unremoved!UpdateSave
<1>11. \A p : Stopped!Crash(p) <=> Unremoved!Crash(p)
  BY <1>1, <1>5 DEF Stopped!Crash, Unremoved!Crash
<1>12. Stopped!Contract = Unremoved!Contract
  BY DEF Stopped!Contract, Unremoved!Contract
<1>13. \A f : Stopped!RemoveFile(f) <=> Unremoved!RemoveFile(f)
  BY DEF Stopped!RemoveFile, Unremoved!RemoveFile
<1>14. \A p : Stopped!Upload(p) <=> Unremoved!Upload(p)
  BY <1>1, <1>7, <1>12 DEF Stopped!Upload, Unremoved!Upload, Stopped!Contract, Unremoved!Contract
<1>15. \A p : Stopped!Delete(p) <=> Unremoved!Delete(p)
  BY <1>1, <1>7, <1>12 DEF Stopped!Delete, Unremoved!Delete, Stopped!Contract, Unremoved!Contract
<1>16. \A p, f : Stopped!StoreFile(p, f) <=> Unremoved!StoreFile(p, f)
  BY DEF Stopped!StoreFile, Unremoved!StoreFile
<1>17. \A p : Stopped!SetDocument(p) <=> Unremoved!SetDocument(p)
  BY <1>12 DEF Stopped!SetDocument, Unremoved!SetDocument, Stopped!Contract, Unremoved!Contract
<1>18. \A p : Stopped!CompareDocument(p) <=> Unremoved!CompareDocument(p)
  BY <1>2, <1>12 DEF Stopped!CompareDocument, Unremoved!CompareDocument, Stopped!Contract, Unremoved!Contract
<1>19. \A p : Stopped!WriteDocument(p) <=> Unremoved!WriteDocument(p)
  BY <1>12, <1>3, <1>4 DEF Stopped!WriteDocument, Unremoved!WriteDocument, Stopped!Contract, Unremoved!Contract
<1>20. \A p : Stopped!RemovePrevious(p) <=> Unremoved!RemovePrevious(p)
  BY <1>13, <1>4 DEF Stopped!RemovePrevious, Unremoved!RemovePrevious
<1>21. \A p : Stopped!Undo(p) <=> Unremoved!Undo(p)
  BY <1>13, <1>4 DEF Stopped!Undo, Unremoved!Undo
<1>22. \A p, terms : Stopped!UpdateContract(p, terms) <=> Unremoved!UpdateContract(p, terms)
  BY <1>1, <1>6, <1>7, <1>12 DEF Stopped!UpdateContract, Unremoved!UpdateContract, Stopped!Contract, Unremoved!Contract
<1>23. \A p : Stopped!SaveContract(p) <=> Unremoved!SaveContract(p)
  BY <1>8, <1>10 DEF Stopped!SaveContract, Unremoved!SaveContract
<1>24. /\ \A p : Stopped!SaveFails(p) => Unremoved!SaveFails(p)
      /\ \A p : ~ Stopped!RemovalFails(p) /\ ~ Stopped!UndoFails(p)
  BY <1>4 DEF Stopped!SaveFails, Unremoved!SaveFails, Stopped!RemovalFails, Stopped!UndoFails
<1>25. \A p : Stopped!DocumentCrash(p) => Unremoved!Crash(p) /\ UNCHANGED file
  BY <1>11 DEF Stopped!DocumentCrash
<1> QED
  BY <1>11, <1>12, <1>13, <1>14, <1>15, <1>16, <1>17, <1>18, <1>19, <1>20, <1>21, <1>22, <1>23, <1>24, <1>25 DEF Stopped!DocumentNext, DocumentSteps

\* and one that may only be refused makes these steps.
LEMMA RefusedIsStep ==
  Refused!DocumentNext => DocumentSteps
<1>1. Refused!Idle = Unremoved!Idle
  BY DEF Refused!Idle, Unremoved!Idle
<1>2. \A entity, stored : Refused!Differing(entity, stored) = Unremoved!Differing(entity, stored)
  BY DEF Refused!Differing, Unremoved!Differing
<1>3. \A stored, entity, columns : Refused!Updated(stored, entity, columns) = Unremoved!Updated(stored, entity, columns)
  BY DEF Refused!Updated, Unremoved!Updated
<1>4. \A p, c, at : Refused!GoesTo(p, c, at) <=> Unremoved!GoesTo(p, c, at)
  BY <1>1 DEF Refused!GoesTo, Unremoved!GoesTo
<1>5. \A p : Refused!Fails(p) <=> Unremoved!Fails(p)
  BY <1>1 DEF Refused!Fails, Unremoved!Fails
<1>6. \A c, id, entity, then : Refused!Saving(c, id, entity, then) = Unremoved!Saving(c, id, entity, then)
  BY DEF Refused!Saving, Unremoved!Saving
<1>7. Refused!NewCall = Unremoved!NewCall
  BY DEF Refused!NewCall, Unremoved!NewCall
<1>8. \A p : Refused!CompareSave(p) <=> Unremoved!CompareSave(p)
  BY <1>4, <1>2 DEF Refused!CompareSave, Unremoved!CompareSave
<1>9. \A p : Refused!Written(p) = Unremoved!Written(p)
  BY <1>3 DEF Refused!Written, Unremoved!Written
<1>10. \A p, accepted : Refused!UpdateSave(p, accepted) <=> Unremoved!UpdateSave(p, accepted)
  BY <1>9, <1>4, <1>5 DEF Refused!UpdateSave, Unremoved!UpdateSave
<1>11. \A p : Refused!Crash(p) <=> Unremoved!Crash(p)
  BY <1>1, <1>5 DEF Refused!Crash, Unremoved!Crash
<1>12. Refused!Contract = Unremoved!Contract
  BY DEF Refused!Contract, Unremoved!Contract
<1>13. \A f : Refused!RemoveFile(f) <=> Unremoved!RemoveFile(f)
  BY DEF Refused!RemoveFile, Unremoved!RemoveFile
<1>14. \A p : Refused!Upload(p) <=> Unremoved!Upload(p)
  BY <1>1, <1>7, <1>12 DEF Refused!Upload, Unremoved!Upload, Refused!Contract, Unremoved!Contract
<1>15. \A p : Refused!Delete(p) <=> Unremoved!Delete(p)
  BY <1>1, <1>7, <1>12 DEF Refused!Delete, Unremoved!Delete, Refused!Contract, Unremoved!Contract
<1>16. \A p, f : Refused!StoreFile(p, f) <=> Unremoved!StoreFile(p, f)
  BY DEF Refused!StoreFile, Unremoved!StoreFile
<1>17. \A p : Refused!SetDocument(p) <=> Unremoved!SetDocument(p)
  BY <1>12 DEF Refused!SetDocument, Unremoved!SetDocument, Refused!Contract, Unremoved!Contract
<1>18. \A p : Refused!CompareDocument(p) <=> Unremoved!CompareDocument(p)
  BY <1>2, <1>12 DEF Refused!CompareDocument, Unremoved!CompareDocument, Refused!Contract, Unremoved!Contract
<1>19. \A p : Refused!WriteDocument(p) <=> Unremoved!WriteDocument(p)
  BY <1>12, <1>3, <1>4 DEF Refused!WriteDocument, Unremoved!WriteDocument, Refused!Contract, Unremoved!Contract
<1>20. \A p : Refused!RemovePrevious(p) <=> Unremoved!RemovePrevious(p)
  BY <1>13, <1>4 DEF Refused!RemovePrevious, Unremoved!RemovePrevious
<1>21. \A p : Refused!Undo(p) <=> Unremoved!Undo(p)
  BY <1>13, <1>4 DEF Refused!Undo, Unremoved!Undo
<1>22. \A p, terms : Refused!UpdateContract(p, terms) <=> Unremoved!UpdateContract(p, terms)
  BY <1>1, <1>6, <1>7, <1>12 DEF Refused!UpdateContract, Unremoved!UpdateContract, Refused!Contract, Unremoved!Contract
<1>23. \A p : Refused!SaveContract(p) <=> Unremoved!SaveContract(p)
  BY <1>8, <1>10 DEF Refused!SaveContract, Unremoved!SaveContract
<1>24. /\ \A p : Refused!SaveFails(p) => Unremoved!SaveFails(p)
      /\ \A p : ~ Refused!RemovalFails(p) /\ ~ Refused!UndoFails(p)
  BY <1>4 DEF Refused!SaveFails, Unremoved!SaveFails, Refused!RemovalFails, Refused!UndoFails
<1>25. \A p : ~ Refused!DocumentCrash(p)
  BY DEF Refused!DocumentCrash
<1> QED
  BY <1>11, <1>12, <1>13, <1>14, <1>15, <1>16, <1>17, <1>18, <1>19, <1>20, <1>21, <1>22, <1>23, <1>24, <1>25 DEF Refused!DocumentNext, DocumentSteps

LEMMA UnremovedIsStep ==
  Unremoved!DocumentNext =>
    \/ DocumentSteps \/ (Unremoved!Crash(one) /\ UNCHANGED file)
    \/ Unremoved!RemovalFails(one) \/ Unremoved!UndoFails(one)
BY DEF Unremoved!DocumentNext, DocumentSteps, Unremoved!DocumentCrash

LEMMA DocumentInit ==
  Refused!DocumentInit =>
    /\ DocumentInv /\ KeepsDocument(contractCall[one])
    /\ KeepsSome(contractCall[one]) /\ KeepsNoOther(contractCall[one])
<1> SUFFICES ASSUME Refused!DocumentInit
             PROVE  /\ DocumentInv /\ KeepsDocument(contractCall[one])
                    /\ KeepsSome(contractCall[one]) /\ KeepsNoOther(contractCall[one])
  OBVIOUS
<1>1. /\ contractRow \in [{Contract} -> ContractRecords] /\ Url = Null
      /\ file = [f \in References |-> "unused"]
  BY DEF Refused!DocumentInit, Refused!Contract, Unremoved!Contract, Contract, Url, ContractRecords,
         Refused!ContractRecords
<1>2. contractCall = [p \in {one} |-> Unremoved!Idle] /\ Unremoved!Idle.at = "idle"
  BY DEF Refused!DocumentInit, Refused!Idle, Unremoved!Idle
<1>3. Unremoved!Kept = {}
  BY <1>1 DEF Unremoved!Kept
<1> QED
  BY <1>1, <1>2, <1>3
  DEF DocumentInv, DocumentTypes, DocumentFits, KeepsDocument, KeepsSome, KeepsNoOther

\* A step of the three instances.
LEMMA DocumentStep ==
  /\ DocumentInv /\ DocumentSteps =>
       /\ DocumentInv'
       /\ KeepsDocument(contractCall[one]) => KeepsDocument(contractCall[one])'
       /\ KeepsSome(contractCall[one]) => KeepsSome(contractCall[one])'
       /\ KeepsNoOther(contractCall[one]) => KeepsNoOther(contractCall[one])'
  /\ DocumentInv /\ UNCHANGED Unremoved!documentVars =>
       /\ DocumentInv'
       /\ KeepsDocument(contractCall[one]) => KeepsDocument(contractCall[one])'
       /\ KeepsSome(contractCall[one]) => KeepsSome(contractCall[one])'
       /\ KeepsNoOther(contractCall[one]) => KeepsNoOther(contractCall[one])'
<1>1. DocumentInv /\ DocumentSteps =>
       /\ DocumentInv'
       /\ KeepsDocument(contractCall[one]) => KeepsDocument(contractCall[one])'
       /\ KeepsSome(contractCall[one]) => KeepsSome(contractCall[one])'
       /\ KeepsNoOther(contractCall[one]) => KeepsNoOther(contractCall[one])'
  BY DocumentStarts, DocumentFiles, DocumentSaves DEF DocumentSteps
<1>2. ASSUME UNCHANGED Unremoved!documentVars, DocumentInv
      PROVE  /\ DocumentInv'
             /\ KeepsDocument(contractCall[one]) => KeepsDocument(contractCall[one])'
             /\ KeepsSome(contractCall[one]) => KeepsSome(contractCall[one])'
             /\ KeepsNoOther(contractCall[one]) => KeepsNoOther(contractCall[one])'
  <2>1. UNCHANGED <<contractRow, contractCall, file>>
    BY <1>2 DEF Unremoved!documentVars, Unremoved!saveVars
  <2>2. Unremoved!Kept' = Unremoved!Kept /\ Url' = Url
    BY <2>1 DEF Unremoved!Kept, Url
  <2> QED
    BY <1>2, <2>1, <2>2
    DEF DocumentInv, DocumentTypes, DocumentFits, KeepsDocument, KeepsSome, KeepsNoOther
<1> QED
  BY <1>1, <1>2

\* Whatever fails, a contract that refers to a document has a file left.
THEOREM SomeFileStays == Unremoved!DocumentSpec => []Unremoved!SomeFileIsLeft
<1> DEFINE Inv == DocumentInv /\ KeepsSome(contractCall[one])
<1>1. Unremoved!DocumentInit => Inv
  BY DocumentInit DEF Unremoved!DocumentInit, Refused!DocumentInit, Unremoved!Contract, Refused!Contract,
     Unremoved!Idle, Refused!Idle
<1>2. Inv /\ [Unremoved!DocumentNext]_(Unremoved!documentVars) => Inv'
  BY DocumentStep, DocumentFaults, UnremovedIsStep
<1>3. Inv => Unremoved!SomeFileIsLeft
  BY DEF KeepsSome, Unremoved!SomeFileIsLeft, Url, Contract
<1> QED
  BY <1>1, <1>2, <1>3, PTL DEF Unremoved!DocumentSpec

\* The document a contract refers to is there although processes stop and saves
\* are refused.
THEOREM DocumentsStay == Stopped!DocumentSpec => []Stopped!DocumentIsKept
<1> DEFINE Inv == DocumentInv /\ KeepsDocument(contractCall[one])
<1>1. Stopped!DocumentInit => Inv
  BY DocumentInit DEF Stopped!DocumentInit, Refused!DocumentInit, Stopped!Contract, Refused!Contract,
     Stopped!Idle, Refused!Idle
<1>2. Inv /\ [Stopped!DocumentNext]_(Stopped!documentVars) => Inv'
  <2>1. Stopped!documentVars = Unremoved!documentVars
    BY DEF Stopped!documentVars, Stopped!saveVars, Unremoved!documentVars, Unremoved!saveVars
  <2> QED
    BY <2>1, DocumentStep, DocumentFaults, StoppedIsStep DEF Stopped!documentVars, Stopped!saveVars,
       Unremoved!documentVars, Unremoved!saveVars
<1>3. Inv => Stopped!DocumentIsKept
  BY DEF KeepsDocument, Stopped!DocumentIsKept, Url, Contract, Stopped!Contract, Unremoved!Contract,
     Stopped!Kept, Unremoved!Kept
<1> QED
  BY <1>1, <1>2, <1>3, PTL DEF Stopped!DocumentSpec

\* Between calls no other file is kept, although saves are refused.
THEOREM NothingStaysBehind == Refused!DocumentSpec => []Refused!NothingElseIsKept
<1> DEFINE Inv == DocumentInv /\ KeepsNoOther(contractCall[one])
<1>1. Refused!DocumentInit => Inv
  BY DocumentInit
<1>2. Inv /\ [Refused!DocumentNext]_(Refused!documentVars) => Inv'
  BY DocumentStep, RefusedIsStep DEF Refused!documentVars, Refused!saveVars,
     Unremoved!documentVars, Unremoved!saveVars
<1>3. Inv => Refused!NothingElseIsKept
  <2>1. Refused!Idle.at = "idle" /\ Refused!Contract = Contract /\ Refused!Kept = Unremoved!Kept
    BY DEF Refused!Idle, Refused!Contract, Unremoved!Contract, Contract, Refused!Kept, Unremoved!Kept
  <2> QED
    BY <2>1 DEF KeepsNoOther, Refused!NothingElseIsKept, Url
<1> QED
  BY <1>1, <1>2, <1>3, PTL DEF Refused!DocumentSpec

(***************************************************************************)
(* Roles.  One call is under way; the role it changes stays until it is    *)
(* over.  The instance whose process may stop makes the steps of both.     *)
(***************************************************************************)

USE RoleAssumption DEF RoleFaults!RolesAssumption

RoleRecords == RoleFaults!RoleRecords

RoleCalls ==
  [at : {"file", "fill", "clear", "add", "find", "count", "delete", "compare", "update"},
   id : RoleIds \union {Null}, entity : RoleRecords \union {Null},
   columns : SUBSET {"enabled"}, then : {"idle"}, holds : (SUBSET Quotas) \union {Null}]

RoleTypes ==
  /\ roleRow \in [RoleIds -> RoleRecords \union {Null}]
  /\ quotas \in [RoleIds -> SUBSET Quotas]
  /\ roleOf \in [Employees -> RoleIds \union {Null}]
  /\ roleCall \in [{one} -> {RoleFaults!Idle} \union RoleCalls]

\* A role that is not there has no quota, and one without its id was never there.
RoleRows ==
  /\ \A r \in RoleIds : roleRow[r] = Null => quotas[r] = {}
  /\ \A r \in RoleIds : roleRow[r] # Null => r \in roleIds

\* What the call holds fits the rows: nobody has the role it is about to delete.
RoleFits(c) ==
  /\ c.at \in {"fill", "clear", "add", "find", "count", "delete", "compare", "update"} =>
       c.id \in RoleIds /\ roleRow[c.id] # Null
  /\ c.at \in {"file", "clear", "add", "count", "compare", "update"} => c.entity \in RoleRecords
  /\ c.at = "file" => c.id = Null
  /\ c.at \in {"file", "fill", "clear"} => c.holds \in SUBSET Quotas
  /\ c.at \in {"add", "find", "count"} => c.holds = Null
  /\ c.at = "delete" => \A e \in Employees : roleOf[e] # c.id

\* The quotas of every role are enabled, but of the one the call changes, and the
\* call is about to enable those.
KeepsEnabled(c) ==
  /\ \A r \in RoleIds :
       roleRow[r] # Null /\ (c.at = "idle" \/ r # c.id) =>
         (quotas[r] # {} => roleRow[r].enabled)
  /\ c.at \in {"file", "clear"} \/ (c.at = "fill" /\ c.entity # Null) =>
       c.entity.enabled = (c.holds # {})
  /\ c.at = "fill" => quotas[c.id] = {}
  /\ c.at = "fill" /\ c.entity = Null => roleRow[c.id].enabled = TRUE /\ c.holds # {}
  /\ c.at \in {"add", "count"} => c.entity = roleRow[c.id]
  /\ c.at = "add" => (quotas[c.id] # {} => roleRow[c.id].enabled)
  /\ c.at \in {"compare", "update"} => (quotas[c.id] # {} => c.entity.enabled)
  /\ c.at = "compare" => c.holds = Null \/ quotas[c.id] \subseteq c.holds
  /\ c.at = "update" => c.columns = RoleFaults!Differing(c.entity, roleRow[c.id])

RoleInv == RoleTypes /\ RoleRows /\ RoleFits(roleCall[one])

\* What a call is,
LEMMA RoleCall ==
  ASSUME RoleTypes
  PROVE  /\ roleCall[one] = RoleFaults!Idle \/ roleCall[one] \in RoleCalls
         /\ roleCall[one] = RoleFaults!Idle <=> roleCall[one].at = "idle"
         /\ roleCall[one] # RoleFaults!Idle => roleCall[one] \in RoleCalls
         /\ Null \notin RoleIds /\ Null \notin RoleRecords
         /\ \A r \in RoleRecords : r.enabled \in BOOLEAN /\ r = [enabled |-> r.enabled]
BY DEF RoleTypes, RoleCalls, RoleFaults!Idle, RoleRecords, RoleFaults!RoleRecords

\* and where the next state takes it.
LEMMA RoleGoes ==
  ASSUME RoleTypes, NEW d, d \in RoleCalls \/ d = RoleFaults!Idle,
         roleCall' = [roleCall EXCEPT ![one] = d],
         roleRow' \in [RoleIds -> RoleRecords \union {Null}], quotas' \in [RoleIds -> SUBSET Quotas],
         roleOf' \in [Employees -> RoleIds \union {Null}], RoleRows', RoleFits(d)'
  PROVE  RoleInv' /\ roleCall'[one] = d
<1>1. roleCall'[one] = d /\ roleCall' \in [{one} -> {RoleFaults!Idle} \union RoleCalls]
  BY DEF RoleTypes
<1> QED
  BY <1>1 DEF RoleInv, RoleTypes

\* A call that begins.
LEMMA RoleStarts ==
  ASSUME RoleInv,
         \/ \E wanted \in SUBSET Quotas : RoleFaults!CreateRole(one, wanted)
         \/ \E wanted \in SUBSET Quotas, r \in RoleIds : RoleFaults!UpdateRole(one, r, wanted)
         \/ \E r \in RoleIds : RoleFaults!RenameRole(one, r) \/ RoleFaults!SetQuota(one, r) \/ RoleFaults!RemoveRole(one, r)
  PROVE  RoleInv' /\ (KeepsEnabled(roleCall[one]) => KeepsEnabled(roleCall[one])')
<1>1. roleCall[one] = RoleFaults!Idle /\ roleCall[one].at = "idle" /\ RoleTypes /\ RoleRows
  BY RoleCall DEF RoleInv, RoleFaults!CreateRole, RoleFaults!UpdateRole, RoleFaults!RenameRole, RoleFaults!SetQuota,
     RoleFaults!RemoveRole
<1>2. UNCHANGED <<roleRow, quotas, roleOf, roleIds>>
  BY DEF RoleFaults!CreateRole, RoleFaults!UpdateRole, RoleFaults!RenameRole, RoleFaults!SetQuota,
     RoleFaults!RemoveRole, RoleFaults!Others
<1>3. ASSUME NEW d, d \in RoleCalls, roleCall' = [roleCall EXCEPT ![one] = d], RoleFits(d),
             KeepsEnabled(roleCall[one]) => KeepsEnabled(d)
      PROVE  RoleInv' /\ (KeepsEnabled(roleCall[one]) => KeepsEnabled(roleCall[one])')
  <2>1. RoleRows' /\ RoleFits(d)' /\ (KeepsEnabled(d) => KeepsEnabled(d)')
    BY <1>1, <1>2, <1>3 DEF RoleRows, RoleFits, KeepsEnabled
  <2>2. RoleInv' /\ roleCall'[one] = d
    BY <1>1, <1>2, <1>3, <2>1, RoleGoes DEF RoleTypes
  <2> QED
    BY <1>3, <2>1, <2>2
<1>4. ASSUME NEW wanted \in SUBSET Quotas, RoleFaults!CreateRole(one, wanted)
      PROVE  RoleInv' /\ (KeepsEnabled(roleCall[one]) => KeepsEnabled(roleCall[one])')
  <2>1. PICK d : d = [RoleFaults!NewCall EXCEPT !.at = "file", !.entity = [enabled |-> wanted # {}], !.holds = wanted]
    OBVIOUS
  <2>2. d = [at |-> "file", id |-> Null, entity |-> [enabled |-> wanted # {}], columns |-> {},
                      then |-> "idle", holds |-> wanted]
    BY <2>1 DEF RoleFaults!NewCall
  <2>3. [enabled |-> wanted # {}] \in RoleRecords
    BY DEF RoleRecords, RoleFaults!RoleRecords
  <2>4. d \in RoleCalls /\ d.at = "file" /\ d.entity \in RoleRecords /\ d.entity.enabled = (wanted # {})
        /\ d.holds = wanted /\ d.id = Null
    BY <2>2, <2>3 DEF RoleCalls
  <2>5. roleCall' = [roleCall EXCEPT ![one] = d]
    BY <1>4, <2>1 DEF RoleFaults!CreateRole, RoleFaults!Becomes
  <2>6. RoleFits(d) /\ (KeepsEnabled(roleCall[one]) => KeepsEnabled(d))
    BY <1>1, <2>4, RoleCall DEF RoleFits, KeepsEnabled
  <2> QED
    BY <1>3, <2>4, <2>5, <2>6
<1>5. ASSUME NEW wanted \in SUBSET Quotas, NEW r \in RoleIds, RoleFaults!UpdateRole(one, r, wanted)
      PROVE  RoleInv' /\ (KeepsEnabled(roleCall[one]) => KeepsEnabled(roleCall[one])')
  <2>1. PICK e : e = [roleRow[r] EXCEPT !.enabled = wanted # {}]
    OBVIOUS
  <2>2. roleRow[r] # Null /\ roleRow[r] \in RoleRecords
    BY <1>1, <1>5 DEF RoleFaults!UpdateRole, RoleTypes
  <2>3. e \in RoleRecords /\ e.enabled = (wanted # {})
    BY <2>1, <2>2 DEF RoleRecords, RoleFaults!RoleRecords
  <2>4. PICK d : d = [RoleFaults!Saving(RoleFaults!NewCall, r, e, "idle") EXCEPT !.at = "clear", !.holds = wanted]
    OBVIOUS
  <2>5. d = [at |-> "clear", id |-> r, entity |-> e, columns |-> {},
                      then |-> "idle", holds |-> wanted]
    BY <2>4 DEF RoleFaults!NewCall, RoleFaults!Saving
  <2>6. d \in RoleCalls /\ d.at = "clear" /\ d.entity = e /\ d.holds = wanted /\ d.id = r
    BY <2>3, <2>5 DEF RoleCalls
  <2>7. roleCall' = [roleCall EXCEPT ![one] = d]
    BY <1>5, <2>1, <2>4 DEF RoleFaults!UpdateRole, RoleFaults!Becomes
  <2>8. RoleFits(d) /\ (KeepsEnabled(roleCall[one]) => KeepsEnabled(d))
    BY <1>1, <2>2, <2>3, <2>6, RoleCall DEF RoleFits, KeepsEnabled
  <2> QED
    BY <1>3, <2>6, <2>7, <2>8
<1>6. ASSUME NEW r \in RoleIds, RoleFaults!RenameRole(one, r)
      PROVE  RoleInv' /\ (KeepsEnabled(roleCall[one]) => KeepsEnabled(roleCall[one])')
  <2>1. roleRow[r] # Null /\ roleRow[r] \in RoleRecords /\ quotas[r] \in SUBSET Quotas
    BY <1>1, <1>6 DEF RoleFaults!RenameRole, RoleTypes
  <2>2. PICK d : d = [RoleFaults!Saving(RoleFaults!NewCall, r, roleRow[r], "idle") EXCEPT !.holds = quotas[r]]
    OBVIOUS
  <2>3. d = [at |-> "compare", id |-> r, entity |-> roleRow[r], columns |-> {},
                      then |-> "idle", holds |-> quotas[r]]
    BY <2>2 DEF RoleFaults!NewCall, RoleFaults!Saving
  <2>4. d \in RoleCalls /\ d.at = "compare" /\ d.entity = roleRow[r] /\ d.holds = quotas[r] /\ d.id = r
    BY <2>1, <2>3 DEF RoleCalls
  <2>5. roleCall' = [roleCall EXCEPT ![one] = d]
    BY <1>6, <2>2 DEF RoleFaults!RenameRole, RoleFaults!Becomes
  <2>6. RoleFits(d) /\ (KeepsEnabled(roleCall[one]) => KeepsEnabled(d))
    BY <1>1, <2>1, <2>4, RoleCall DEF RoleFits, KeepsEnabled
  <2> QED
    BY <1>3, <2>4, <2>5, <2>6
<1>7. ASSUME NEW r \in RoleIds, RoleFaults!SetQuota(one, r)
      PROVE  RoleInv' /\ (KeepsEnabled(roleCall[one]) => KeepsEnabled(roleCall[one])')
  <2>1. roleRow[r] # Null /\ roleRow[r] \in RoleRecords
    BY <1>1, <1>7 DEF RoleFaults!SetQuota, RoleTypes
  <2>2. PICK d : d = [RoleFaults!NewCall EXCEPT !.at = "add", !.id = r, !.entity = roleRow[r]]
    OBVIOUS
  <2>3. d = [at |-> "add", id |-> r, entity |-> roleRow[r], columns |-> {},
                      then |-> "idle", holds |-> Null]
    BY <2>2 DEF RoleFaults!NewCall
  <2>4. d \in RoleCalls /\ d.at = "add" /\ d.entity = roleRow[r] /\ d.holds = Null /\ d.id = r
    BY <2>1, <2>3 DEF RoleCalls
  <2>5. roleCall' = [roleCall EXCEPT ![one] = d]
    BY <1>7, <2>2 DEF RoleFaults!SetQuota, RoleFaults!Becomes
  <2>6. RoleFits(d) /\ (KeepsEnabled(roleCall[one]) => KeepsEnabled(d))
    BY <1>1, <2>1, <2>4, RoleCall DEF RoleFits, KeepsEnabled
  <2> QED
    BY <1>3, <2>4, <2>5, <2>6
<1>8. ASSUME NEW r \in RoleIds, RoleFaults!RemoveRole(one, r)
      PROVE  RoleInv' /\ (KeepsEnabled(roleCall[one]) => KeepsEnabled(roleCall[one])')
  <2>1. roleRow[r] # Null /\ \A e \in Employees : roleOf[e] # r
    BY <1>8 DEF RoleFaults!RemoveRole
  <2>2. PICK d : d = [RoleFaults!NewCall EXCEPT !.at = "delete", !.id = r]
    OBVIOUS
  <2>3. d = [at |-> "delete", id |-> r, entity |-> Null, columns |-> {},
                      then |-> "idle", holds |-> Null]
    BY <2>2 DEF RoleFaults!NewCall
  <2>4. d \in RoleCalls /\ d.at = "delete" /\ d.id = r
    BY <2>3 DEF RoleCalls
  <2>5. roleCall' = [roleCall EXCEPT ![one] = d]
    BY <1>8, <2>2 DEF RoleFaults!RemoveRole, RoleFaults!Becomes
  <2>6. RoleFits(d) /\ (KeepsEnabled(roleCall[one]) => KeepsEnabled(d))
    BY <1>1, <2>1, <2>4, RoleCall DEF RoleFits, KeepsEnabled
  <2> QED
    BY <1>3, <2>4, <2>5, <2>6
<1> QED
  BY <1>4, <1>5, <1>6, <1>7, <1>8

\* The role and its quotas are saved one after the other.
LEMMA RoleFills ==
  ASSUME RoleInv,
         \/ \E r \in RoleIds : RoleFaults!FileRole(one, r)
         \/ RoleFaults!ClearQuotas(one) \/ RoleFaults!FillQuotas(one) \/ RoleFaults!QuotasRefused(one)
         \/ \E q \in Quotas : RoleFaults!AddQuota(one, q)
  PROVE  RoleInv' /\ (KeepsEnabled(roleCall[one]) => KeepsEnabled(roleCall[one])')
<1>1. PICK c : c = roleCall[one]
  OBVIOUS
<1>2. RoleTypes /\ RoleRows /\ RoleFits(c)
  BY <1>1 DEF RoleInv
<1>3. /\ roleRow \in [RoleIds -> RoleRecords \union {Null}] /\ quotas \in [RoleIds -> SUBSET Quotas]
      /\ roleOf \in [Employees -> RoleIds \union {Null}]
      /\ roleCall \in [{one} -> {RoleFaults!Idle} \union RoleCalls]
  BY <1>2 DEF RoleTypes
<1>4. UNCHANGED roleOf
  BY DEF RoleFaults!FileRole, RoleFaults!ClearQuotas, RoleFaults!FillQuotas, RoleFaults!QuotasRefused, RoleFaults!AddQuota,
     RoleFaults!Others
<1>5. c.at # "idle" => c \in RoleCalls
  BY <1>1, <1>2, RoleCall
<1>6. RoleFaults!Idle.at = "idle"
  BY DEF RoleFaults!Idle
<1>7. ASSUME NEW r \in RoleIds, RoleFaults!FileRole(one, r)
      PROVE  RoleInv' /\ (KeepsEnabled(c) => KeepsEnabled(roleCall[one])')
  <2>1. PICK e : e = [c EXCEPT !.id = r, !.entity = Null]
    OBVIOUS
  <2>2. PICK d : d = IF c.holds = {} THEN RoleFaults!Idle ELSE [e EXCEPT !.at = "fill"]
    OBVIOUS
  <2>3. c.at = "file" /\ c \in RoleCalls /\ c.entity \in RoleRecords /\ c.holds \in SUBSET Quotas /\ c.id = Null
    BY <1>1, <1>2, <1>5, <1>7 DEF RoleFaults!FileRole, RoleFits
  <2>4. c.holds = {} => d = RoleFaults!Idle
    BY <2>2
  <2>5. c.holds # {} => d \in RoleCalls /\ d.at = "fill" /\ d.id = r /\ d.entity = Null /\ d.holds = c.holds
    BY <2>1, <2>2, <2>3 DEF RoleCalls
  <2>6. r \notin roleIds /\ roleRow' = [roleRow EXCEPT ![r] = c.entity] /\ roleIds' = roleIds \union {r} /\ UNCHANGED quotas
    BY <1>1, <1>7 DEF RoleFaults!FileRole
  <2>7. roleCall' = [roleCall EXCEPT ![one] = d]
    BY <1>1, <1>7, <2>1, <2>2 DEF RoleFaults!FileRole, RoleFaults!GoesTo
  <2>8. roleRow[r] = Null /\ quotas[r] = {} /\ c.entity # Null
    BY <1>2, <2>3, <2>6, RoleCall DEF RoleRows
  <2>9. roleRow' \in [RoleIds -> RoleRecords \union {Null}] /\ roleRow'[r] = c.entity
        /\ \A x \in RoleIds \ {r} : roleRow'[x] = roleRow[x]
    BY <1>3, <2>3, <2>6
  <2>10. RoleRows' /\ RoleFits(d)'
    BY <1>2, <1>6, <2>3, <2>4, <2>5, <2>6, <2>8, <2>9 DEF RoleRows, RoleFits
  <2>11. RoleInv' /\ roleCall'[one] = d
    BY <1>2, <1>3, <1>4, <2>4, <2>5, <2>6, <2>7, <2>9, <2>10, RoleGoes
  <2>12. KeepsEnabled(c) => KeepsEnabled(d)'
    BY <1>6, <2>3, <2>4, <2>5, <2>6, <2>8, <2>9, RoleCall, <1>2 DEF KeepsEnabled
  <2> QED
    BY <2>11, <2>12
<1>8. CASE RoleFaults!ClearQuotas(one)
  <2>1. PICK d : d = [c EXCEPT !.at = "fill"]
    OBVIOUS
  <2>2. c.at = "clear" /\ c \in RoleCalls /\ c.id \in RoleIds /\ c.entity \in RoleRecords /\ c.holds \in SUBSET Quotas
    BY <1>1, <1>2, <1>5, <1>8 DEF RoleFaults!ClearQuotas, RoleFits
  <2>3. d \in RoleCalls /\ d.at = "fill" /\ d.id = c.id /\ d.entity = c.entity /\ d.holds = c.holds
    BY <2>1, <2>2 DEF RoleCalls
  <2>4. quotas' = [quotas EXCEPT ![c.id] = {}] /\ UNCHANGED <<roleRow, roleIds>>
    BY <1>1, <1>8 DEF RoleFaults!ClearQuotas
  <2>5. roleCall' = [roleCall EXCEPT ![one] = d]
    BY <1>1, <1>8, <2>1 DEF RoleFaults!ClearQuotas, RoleFaults!GoesTo
  <2>6. quotas' \in [RoleIds -> SUBSET Quotas] /\ quotas'[c.id] = {} /\ \A x \in RoleIds \ {c.id} : quotas'[x] = quotas[x]
    BY <1>3, <2>2, <2>4
  <2>7. RoleRows' /\ RoleFits(d)'
    BY <1>2, <2>2, <2>3, <2>4, <2>6 DEF RoleRows, RoleFits
  <2>8. RoleInv' /\ roleCall'[one] = d
    BY <1>2, <1>3, <1>4, <2>3, <2>4, <2>5, <2>6, <2>7, RoleGoes
  <2>9. KeepsEnabled(c) => KeepsEnabled(d)'
    BY <2>2, <2>3, <2>4, <2>6, RoleCall, <1>2 DEF KeepsEnabled
  <2> QED
    BY <1>1, <2>8, <2>9
<1>9. CASE RoleFaults!FillQuotas(one)
  <2>1. PICK d : d = IF c.entity = Null THEN RoleFaults!Idle ELSE [c EXCEPT !.at = "compare"]
    OBVIOUS
  <2>2. c.at = "fill" /\ c \in RoleCalls /\ c.id \in RoleIds /\ roleRow[c.id] # Null /\ c.holds \in SUBSET Quotas
    BY <1>1, <1>2, <1>5, <1>9 DEF RoleFaults!FillQuotas, RoleFits
  <2>3. c.entity = Null => d = RoleFaults!Idle
    BY <2>1
  <2>4. c.entity # Null => d \in RoleCalls /\ d.at = "compare" /\ d.id = c.id /\ d.entity = c.entity /\ d.holds = c.holds
          /\ c.entity \in RoleRecords
    BY <2>1, <2>2 DEF RoleCalls
  <2>5. quotas' = [quotas EXCEPT ![c.id] = quotas[c.id] \union c.holds] /\ UNCHANGED <<roleRow, roleIds>>
    BY <1>1, <1>9 DEF RoleFaults!FillQuotas
  <2>6. roleCall' = [roleCall EXCEPT ![one] = d]
    BY <1>1, <1>9, <2>1 DEF RoleFaults!FillQuotas, RoleFaults!GoesTo
  <2>7. /\ quotas' \in [RoleIds -> SUBSET Quotas] /\ quotas'[c.id] = quotas[c.id] \union c.holds
        /\ \A x \in RoleIds \ {c.id} : quotas'[x] = quotas[x]
    BY <1>3, <2>2, <2>5
  <2>8. RoleRows' /\ RoleFits(d)'
    BY <1>2, <1>6, <2>2, <2>3, <2>4, <2>5, <2>7 DEF RoleRows, RoleFits
  <2>9. RoleInv' /\ roleCall'[one] = d
    BY <1>2, <1>3, <1>4, <2>3, <2>4, <2>5, <2>6, <2>7, <2>8, RoleGoes
  <2>10. KeepsEnabled(c) => KeepsEnabled(d)'
    BY <1>6, <2>2, <2>3, <2>4, <2>5, <2>7, RoleCall, <1>2 DEF KeepsEnabled
  <2> QED
    BY <1>1, <2>9, <2>10
<1>11. CASE RoleFaults!QuotasRefused(one)
  <2>1. UNCHANGED <<roleRow, quotas, roleIds>> /\ roleCall' = [roleCall EXCEPT ![one] = RoleFaults!Idle]
    BY <1>11 DEF RoleFaults!QuotasRefused, RoleFaults!Fails, RoleFaults!Others
  <2>2. RoleRows' /\ RoleFits(RoleFaults!Idle)'
    BY <1>2, <1>6, <2>1 DEF RoleRows, RoleFits
  <2>3. RoleInv' /\ roleCall'[one] = RoleFaults!Idle
    BY <1>2, <1>3, <1>4, <2>1, <2>2, RoleGoes
  <2>4. c.at \in {"fill", "add"} /\ c.id \in RoleIds
    BY <1>1, <1>2, <1>11 DEF RoleFaults!QuotasRefused, RoleFits
  <2>5. KeepsEnabled(c) => KeepsEnabled(RoleFaults!Idle)'
    BY <1>6, <2>1, <2>4 DEF KeepsEnabled
  <2> QED
    BY <1>1, <2>3, <2>5
<1>10. ASSUME NEW q \in Quotas, RoleFaults!AddQuota(one, q)
      PROVE  RoleInv' /\ (KeepsEnabled(c) => KeepsEnabled(roleCall[one])')
  <2>1. PICK d : d = [c EXCEPT !.at = "count"]
    OBVIOUS
  <2>2. c.at = "add" /\ c \in RoleCalls /\ c.id \in RoleIds /\ roleRow[c.id] # Null
    BY <1>1, <1>2, <1>5, <1>10 DEF RoleFaults!AddQuota, RoleFits
  <2>3. d \in RoleCalls /\ d.at = "count" /\ d.id = c.id /\ d.entity = c.entity /\ d.holds = c.holds
    BY <2>1, <2>2 DEF RoleCalls
  <2>4. quotas' = [quotas EXCEPT ![c.id] = quotas[c.id] \union {q}] /\ UNCHANGED <<roleRow, roleIds>>
    BY <1>1, <1>10, <2>2 DEF RoleFaults!AddQuota
  <2>5. roleCall' = [roleCall EXCEPT ![one] = d]
    BY <1>1, <1>10, <2>1, <2>2 DEF RoleFaults!AddQuota, RoleFaults!GoesTo
  <2>6. quotas' \in [RoleIds -> SUBSET Quotas] /\ \A x \in RoleIds \ {c.id} : quotas'[x] = quotas[x]
    BY <1>3, <2>2, <2>4
  <2>7. RoleRows' /\ RoleFits(d)'
    BY <1>2, <2>2, <2>3, <2>4, <2>6 DEF RoleRows, RoleFits
  <2>8. RoleInv' /\ roleCall'[one] = d
    BY <1>2, <1>3, <1>4, <2>3, <2>4, <2>5, <2>6, <2>7, RoleGoes
  <2>9. KeepsEnabled(c) => KeepsEnabled(d)'
    BY <2>2, <2>3, <2>4, <2>6, RoleCall, <1>2 DEF KeepsEnabled
  <2> QED
    BY <1>1, <2>8, <2>9
<1> QED
  BY <1>1, <1>7, <1>8, <1>9, <1>10, <1>11

\* A call goes on with the row as it is, or removes a quota.
LEMMA RoleCounts ==
  ASSUME RoleInv,
         \/ \E r \in RoleIds, q \in Quotas : RoleFaults!RemoveQuota(one, r, q)
         \/ RoleFaults!FindRole(one) \/ RoleFaults!SyncQuotasEnabled(one)
  PROVE  RoleInv' /\ (KeepsEnabled(roleCall[one]) => KeepsEnabled(roleCall[one])')
<1>1. PICK c : c = roleCall[one]
  OBVIOUS
<1>2. RoleTypes /\ RoleRows /\ RoleFits(c)
  BY <1>1 DEF RoleInv
<1>3. /\ roleRow \in [RoleIds -> RoleRecords \union {Null}] /\ quotas \in [RoleIds -> SUBSET Quotas]
      /\ roleOf \in [Employees -> RoleIds \union {Null}]
      /\ roleCall \in [{one} -> {RoleFaults!Idle} \union RoleCalls]
  BY <1>2 DEF RoleTypes
<1>4. UNCHANGED <<roleRow, roleOf, roleIds>>
  BY DEF RoleFaults!RemoveQuota, RoleFaults!FindRole, RoleFaults!SyncQuotasEnabled, RoleFaults!Others
<1>5. c.at # "idle" => c \in RoleCalls
  BY <1>1, <1>2, RoleCall
<1>6. RoleFaults!Idle.at = "idle"
  BY DEF RoleFaults!Idle
<1>7. ASSUME NEW r \in RoleIds, NEW q \in Quotas, RoleFaults!RemoveQuota(one, r, q)
      PROVE  RoleInv' /\ (KeepsEnabled(c) => KeepsEnabled(roleCall[one])')
  <2>1. PICK d : d = [RoleFaults!NewCall EXCEPT !.at = "find", !.id = r]
    OBVIOUS
  <2>2. d = [at |-> "find", id |-> r, entity |-> Null, columns |-> {}, then |-> "idle", holds |-> Null]
    BY <2>1 DEF RoleFaults!NewCall
  <2>3. d \in RoleCalls /\ d.at = "find" /\ d.id = r /\ d.holds = Null
    BY <2>2 DEF RoleCalls
  <2>4. c.at = "idle" /\ q \in quotas[r] /\ quotas' = [quotas EXCEPT ![r] = quotas[r] \ {q}]
    BY <1>1, <1>2, <1>7, RoleCall DEF RoleFaults!RemoveQuota
  <2>5. roleCall' = [roleCall EXCEPT ![one] = d]
    BY <1>7, <2>1 DEF RoleFaults!RemoveQuota, RoleFaults!Becomes
  <2>6. quotas' \in [RoleIds -> SUBSET Quotas] /\ quotas'[r] \subseteq quotas[r]
        /\ \A x \in RoleIds \ {r} : quotas'[x] = quotas[x]
    BY <1>3, <2>4
  <2>7. roleRow[r] # Null
    BY <1>2, <2>4 DEF RoleRows
  <2>8. RoleRows' /\ RoleFits(d)'
    BY <1>2, <1>4, <2>3, <2>6, <2>7 DEF RoleRows, RoleFits
  <2>9. RoleInv' /\ roleCall'[one] = d
    BY <1>2, <1>3, <1>4, <2>3, <2>5, <2>6, <2>8, RoleGoes
  <2>10. KeepsEnabled(c) => KeepsEnabled(d)'
    BY <1>4, <2>3, <2>4, <2>6 DEF KeepsEnabled
  <2> QED
    BY <2>9, <2>10
<1>8. ASSUME NEW d, UNCHANGED quotas, roleCall' = [roleCall EXCEPT ![one] = d],
             d \in RoleCalls \/ d = RoleFaults!Idle, RoleFits(d), KeepsEnabled(c) => KeepsEnabled(d)
      PROVE  RoleInv' /\ (KeepsEnabled(c) => KeepsEnabled(roleCall[one])')
  <2>1. RoleRows' /\ RoleFits(d)' /\ (KeepsEnabled(d) => KeepsEnabled(d)')
    BY <1>2, <1>4, <1>8 DEF RoleRows, RoleFits, KeepsEnabled
  <2>2. RoleInv' /\ roleCall'[one] = d
    BY <1>2, <1>3, <1>4, <1>8, <2>1, RoleGoes
  <2> QED
    BY <1>8, <2>1, <2>2
<1>9. CASE RoleFaults!FindRole(one)
  <2>1. PICK d : d = [[c EXCEPT !.entity = roleRow[c.id]] EXCEPT !.at = "count"]
    OBVIOUS
  <2>2. c.at = "find" /\ c \in RoleCalls /\ c.id \in RoleIds /\ roleRow[c.id] # Null /\ c.holds = Null
    BY <1>1, <1>2, <1>5, <1>9 DEF RoleFaults!FindRole, RoleFits
  <2>3. roleRow[c.id] \in RoleRecords
    BY <1>3, <2>2
  <2>4. d \in RoleCalls /\ d.at = "count" /\ d.id = c.id /\ d.entity = roleRow[c.id] /\ d.holds = Null
    BY <2>1, <2>2, <2>3 DEF RoleCalls
  <2>5. UNCHANGED quotas /\ roleCall' = [roleCall EXCEPT ![one] = d]
    BY <1>1, <1>9, <2>1, <2>2 DEF RoleFaults!FindRole, RoleFaults!GoesTo, RoleFaults!Others
  <2>6. RoleFits(d) /\ (KeepsEnabled(c) => KeepsEnabled(d))
    BY <1>2, <2>2, <2>3, <2>4 DEF RoleFits, KeepsEnabled
  <2> QED
    BY <1>1, <1>8, <2>4, <2>5, <2>6
<1>10. CASE RoleFaults!SyncQuotasEnabled(one)
  <2>1. c.at = "count" /\ c \in RoleCalls /\ c.id \in RoleIds /\ roleRow[c.id] # Null /\ c.holds = Null
        /\ c.entity \in RoleRecords /\ UNCHANGED quotas
    BY <1>1, <1>2, <1>5, <1>10 DEF RoleFaults!SyncQuotasEnabled, RoleFits, RoleFaults!Others
  <2>2. CASE c.entity.enabled = (quotas[c.id] # {})
    <3>1. roleCall' = [roleCall EXCEPT ![one] = RoleFaults!Idle]
      BY <1>1, <1>10, <2>2 DEF RoleFaults!SyncQuotasEnabled, RoleFaults!GoesTo
    <3>2. RoleFits(RoleFaults!Idle) /\ (KeepsEnabled(c) => KeepsEnabled(RoleFaults!Idle))
      BY <1>2, <1>6, <2>1, <2>2 DEF RoleFits, KeepsEnabled
    <3> QED
      BY <1>1, <1>8, <2>1, <3>1, <3>2
  <2>3. CASE c.entity.enabled # (quotas[c.id] # {})
    <3>1. PICK e : e = [c.entity EXCEPT !.enabled = quotas[c.id] # {}]
      OBVIOUS
    <3>2. PICK d : d = RoleFaults!Saving(c, c.id, e, "idle")
      OBVIOUS
    <3>3. e \in RoleRecords /\ e.enabled = (quotas[c.id] # {})
      BY <2>1, <3>1 DEF RoleRecords, RoleFaults!RoleRecords
    <3>4. d \in RoleCalls /\ d.at = "compare" /\ d.id = c.id /\ d.entity = e /\ d.holds = Null
      BY <2>1, <3>2, <3>3 DEF RoleCalls, RoleFaults!Saving
    <3>5. roleCall' = [roleCall EXCEPT ![one] = d]
      BY <1>1, <1>10, <2>3, <3>1, <3>2 DEF RoleFaults!SyncQuotasEnabled, RoleFaults!Becomes
    <3>6. RoleFits(d) /\ (KeepsEnabled(c) => KeepsEnabled(d))
      BY <1>2, <2>1, <3>3, <3>4 DEF RoleFits, KeepsEnabled
    <3> QED
      BY <1>1, <1>8, <2>1, <3>4, <3>5, <3>6
  <2> QED
    BY <2>2, <2>3
<1> QED
  BY <1>1, <1>7, <1>9, <1>10

\* The row is saved, deleted or given to an employee, or the process stops.
LEMMA RoleSaves ==
  ASSUME RoleInv,
         \/ RoleFaults!SaveRole(one) \/ RoleFaults!DeleteRole(one)
         \/ \E e \in Employees, r \in RoleIds : RoleFaults!AssignRole(one, e, r)
  PROVE  RoleInv' /\ (KeepsEnabled(roleCall[one]) => KeepsEnabled(roleCall[one])')
<1>1. PICK c : c = roleCall[one]
  OBVIOUS
<1>2. RoleTypes /\ RoleRows /\ RoleFits(c)
  BY <1>1 DEF RoleInv
<1>3. /\ roleRow \in [RoleIds -> RoleRecords \union {Null}] /\ quotas \in [RoleIds -> SUBSET Quotas]
      /\ roleOf \in [Employees -> RoleIds \union {Null}]
      /\ roleCall \in [{one} -> {RoleFaults!Idle} \union RoleCalls]
  BY <1>2 DEF RoleTypes
<1>4. c.at # "idle" => c \in RoleCalls
  BY <1>1, <1>2, RoleCall
<1>5. RoleFaults!Idle.at = "idle"
  BY DEF RoleFaults!Idle
<1>6. CASE RoleFaults!SaveRole(one)
  <2>1. c.at \in {"compare", "update"}
    <3>1. c.at \in {"compare", "update", "insert"}
      BY <1>1, <1>6 DEF RoleFaults!SaveRole, RoleFaults!UpdateSave, RoleFaults!InsertSave
    <3> QED
      BY <1>4, <3>1 DEF RoleCalls
  <2>2. c \in RoleCalls /\ c.id \in RoleIds /\ roleRow[c.id] \in RoleRecords /\ roleRow[c.id] # Null /\ c.entity \in RoleRecords
        /\ c.then = "idle"
    BY <1>2, <1>3, <1>4, <2>1 DEF RoleFits, RoleCalls
  <2>3. UNCHANGED <<quotas, roleOf, roleIds>>
    BY <1>6 DEF RoleFaults!SaveRole, RoleFaults!Others
  <2>4. CASE c.at = "compare" /\ RoleFaults!Detaches(c)
    <3>1. UNCHANGED roleRow /\ roleCall' = [roleCall EXCEPT ![one] = RoleFaults!Idle]
      BY <1>1, <1>6, <2>4 DEF RoleFaults!SaveRole, RoleFaults!UpdateSave, RoleFaults!InsertSave, RoleFaults!Fails
    <3>2. RoleRows' /\ RoleFits(RoleFaults!Idle)'
      BY <1>2, <1>5, <2>3, <3>1 DEF RoleRows, RoleFits
    <3>3. RoleInv'
      BY <1>2, <1>3, <2>3, <3>1, <3>2, RoleGoes
    <3>4. ~ KeepsEnabled(c)
      BY <2>4 DEF KeepsEnabled, RoleFaults!Detaches
    <3> QED
      BY <1>1, <3>3, <3>4
  <2>5. CASE c.at = "compare" /\ ~ RoleFaults!Detaches(c)
    <3>1. PICK cs : cs = RoleFaults!Differing(c.entity, roleRow[c.id])
      OBVIOUS
    <3>2. PICK d : d = [c EXCEPT !.at = "update", !.columns = cs]
      OBVIOUS
    <3>3. cs \subseteq {"enabled"}
      BY <2>2, <3>1 DEF RoleFaults!Differing, RoleRecords, RoleFaults!RoleRecords
    <3>4. d \in RoleCalls /\ d.at = "update" /\ d.id = c.id /\ d.entity = c.entity /\ d.columns = cs
      BY <2>2, <3>2, <3>3 DEF RoleCalls
    <3>5. UNCHANGED roleRow /\ roleCall' = [roleCall EXCEPT ![one] = d]
      BY <1>1, <1>3, <1>6, <2>2, <2>5, <3>1, <3>2
      DEF RoleFaults!SaveRole, RoleFaults!UpdateSave, RoleFaults!InsertSave, RoleFaults!CompareSave
    <3>6. RoleRows' /\ RoleFits(d)'
      BY <1>2, <2>2, <2>3, <2>5, <3>4, <3>5 DEF RoleRows, RoleFits
    <3>7. RoleInv' /\ roleCall'[one] = d
      BY <1>2, <1>3, <2>3, <3>4, <3>5, <3>6, RoleGoes
    <3>8. KeepsEnabled(c) => KeepsEnabled(d)'
      BY <2>2, <2>3, <2>5, <3>1, <3>4, <3>5 DEF KeepsEnabled
    <3> QED
      BY <1>1, <3>7, <3>8
  <2>6. CASE c.at = "update"
    <3>1. PICK x : x = RoleFaults!Updated(roleRow[c.id], c.entity, c.columns)
      OBVIOUS
    <3>2. x \in RoleRecords /\ x # Null
      BY <2>2, <3>1, RoleCall, <1>2 DEF RoleFaults!Updated, RoleRecords, RoleFaults!RoleRecords
    <3>3. roleRow' = [roleRow EXCEPT ![c.id] = x] /\ roleCall' = [roleCall EXCEPT ![one] = RoleFaults!Idle]
      BY <1>1, <1>6, <2>2, <2>6, <3>1
      DEF RoleFaults!SaveRole, RoleFaults!UpdateSave, RoleFaults!InsertSave, RoleFaults!CompareSave, RoleFaults!Written, RoleFaults!GoesTo
    <3>4. roleRow' \in [RoleIds -> RoleRecords \union {Null}] /\ roleRow'[c.id] = x
          /\ \A r \in RoleIds \ {c.id} : roleRow'[r] = roleRow[r]
      BY <1>3, <2>2, <3>2, <3>3
    <3>5. RoleRows' /\ RoleFits(RoleFaults!Idle)'
      BY <1>2, <1>5, <2>2, <2>3, <3>2, <3>4 DEF RoleRows, RoleFits
    <3>6. RoleInv' /\ roleCall'[one] = RoleFaults!Idle
      BY <1>2, <1>3, <2>3, <3>3, <3>4, <3>5, RoleGoes
    <3>7. c.columns = RoleFaults!Differing(c.entity, roleRow[c.id]) => x.enabled = c.entity.enabled
      BY <2>2, <3>1 DEF RoleFaults!Differing, RoleFaults!Updated, RoleRecords, RoleFaults!RoleRecords
    <3>8. KeepsEnabled(c) => KeepsEnabled(RoleFaults!Idle)'
      BY <1>5, <2>2, <2>3, <2>6, <3>4, <3>7 DEF KeepsEnabled
    <3> QED
      BY <1>1, <3>6, <3>8
  <2> QED
    BY <2>1, <2>4, <2>5, <2>6
<1>7. CASE RoleFaults!DeleteRole(one)
  <2>1. c.at = "delete" /\ c \in RoleCalls /\ c.id \in RoleIds /\ UNCHANGED roleIds
    BY <1>1, <1>2, <1>4, <1>7 DEF RoleFaults!DeleteRole, RoleFits
  <2>2. /\ roleRow' = [roleRow EXCEPT ![c.id] = Null] /\ quotas' = [quotas EXCEPT ![c.id] = {}]
        /\ roleOf' = [e \in Employees |-> IF roleOf[e] = c.id THEN Null ELSE roleOf[e]]
        /\ roleCall' = [roleCall EXCEPT ![one] = RoleFaults!Idle]
    BY <1>1, <1>7 DEF RoleFaults!DeleteRole, RoleFaults!GoesTo
  <2>3. /\ roleRow' \in [RoleIds -> RoleRecords \union {Null}] /\ quotas' \in [RoleIds -> SUBSET Quotas]
        /\ roleOf' \in [Employees -> RoleIds \union {Null}]
    BY <1>3, <2>1, <2>2
  <2>4. roleRow'[c.id] = Null /\ quotas'[c.id] = {}
        /\ \A r \in RoleIds \ {c.id} : roleRow'[r] = roleRow[r] /\ quotas'[r] = quotas[r]
    BY <1>3, <2>1, <2>2
  <2>5. RoleRows' /\ RoleFits(RoleFaults!Idle)'
    BY <1>2, <1>5, <2>1, <2>4 DEF RoleRows, RoleFits
  <2>6. RoleInv' /\ roleCall'[one] = RoleFaults!Idle
    BY <1>2, <2>2, <2>3, <2>5, RoleGoes
  <2>7. KeepsEnabled(c) => KeepsEnabled(RoleFaults!Idle)'
    BY <1>5, <2>1, <2>4 DEF KeepsEnabled
  <2> QED
    BY <1>1, <2>6, <2>7
<1>8. ASSUME NEW e \in Employees, NEW r \in RoleIds, RoleFaults!AssignRole(one, e, r)
      PROVE  RoleInv' /\ (KeepsEnabled(c) => KeepsEnabled(roleCall[one])')
  <2>1. c.at = "idle" /\ UNCHANGED <<roleRow, roleCall, quotas, roleIds>> /\ roleOf' = [roleOf EXCEPT ![e] = r]
    BY <1>1, <1>2, <1>8, RoleCall DEF RoleFaults!AssignRole, RoleFaults!saveVars
  <2>2. roleOf' \in [Employees -> RoleIds \union {Null}]
    BY <1>3, <2>1
  <2>3. RoleTypes' /\ RoleRows' /\ RoleFits(c)' /\ (KeepsEnabled(c) => KeepsEnabled(c)') /\ roleCall'[one] = c
    BY <1>1, <1>2, <2>1, <2>2 DEF RoleTypes, RoleRows, RoleFits, KeepsEnabled
  <2> QED
    BY <2>3 DEF RoleInv
<1> QED
  BY <1>1, <1>6, <1>7, <1>8

LEMMA RoleStops ==
  ASSUME RoleInv, RoleFaults!RolesCrash(one) PROVE RoleInv'
<1>1. /\ UNCHANGED <<roleRow, quotas, roleOf, roleIds>>
      /\ roleCall' = [roleCall EXCEPT ![one] = RoleFaults!Idle]
  BY DEF RoleFaults!RolesCrash, RoleFaults!Crash, RoleFaults!Fails, RoleFaults!Others
<1>2. RoleFaults!Idle.at = "idle" /\ RoleTypes /\ RoleRows
  BY DEF RoleInv, RoleFaults!Idle
<1>3. RoleRows' /\ RoleFits(RoleFaults!Idle)'
  BY <1>1, <1>2 DEF RoleRows, RoleFits
<1> QED
  BY <1>1, <1>2, <1>3, RoleGoes DEF RoleTypes

RoleSteps ==
  \/ \E wanted \in SUBSET Quotas :
       RoleFaults!CreateRole(one, wanted) \/ \E r \in RoleIds : RoleFaults!UpdateRole(one, r, wanted)
  \/ \E r \in RoleIds :
       \/ RoleFaults!FileRole(one, r) \/ RoleFaults!RenameRole(one, r)
       \/ RoleFaults!SetQuota(one, r) \/ RoleFaults!RemoveRole(one, r)
       \/ \E e \in Employees : RoleFaults!AssignRole(one, e, r)
       \/ \E q \in Quotas : RoleFaults!RemoveQuota(one, r, q)
  \/ \E q \in Quotas : RoleFaults!AddQuota(one, q)
  \/ RoleFaults!ClearQuotas(one) \/ RoleFaults!FillQuotas(one) \/ RoleFaults!QuotasRefused(one)
  \/ RoleFaults!SaveRole(one)
  \/ RoleFaults!FindRole(one) \/ RoleFaults!SyncQuotasEnabled(one) \/ RoleFaults!DeleteRole(one)

\* Both instances make these steps.
LEMMA RoleEditIsStep == RoleEdits!RolesNext => RoleSteps
<1>1. RoleEdits!saveVars = RoleFaults!saveVars
  BY DEF RoleEdits!saveVars, RoleFaults!saveVars
<1>2. RoleEdits!Idle = RoleFaults!Idle
  BY DEF RoleEdits!Idle, RoleFaults!Idle
<1>3. \A entity, stored : RoleEdits!Differing(entity, stored) = RoleFaults!Differing(entity, stored)
  BY DEF RoleEdits!Differing, RoleFaults!Differing
<1>4. \A stored, entity, columns : RoleEdits!Updated(stored, entity, columns) = RoleFaults!Updated(stored, entity, columns)
  BY DEF RoleEdits!Updated, RoleFaults!Updated
<1>5. \A p, c, at : RoleEdits!GoesTo(p, c, at) <=> RoleFaults!GoesTo(p, c, at)
  BY <1>2 DEF RoleEdits!GoesTo, RoleFaults!GoesTo
<1>6. \A p : RoleEdits!Fails(p) <=> RoleFaults!Fails(p)
  BY <1>2 DEF RoleEdits!Fails, RoleFaults!Fails
<1>7. \A c, id, entity, then : RoleEdits!Saving(c, id, entity, then) = RoleFaults!Saving(c, id, entity, then)
  BY DEF RoleEdits!Saving, RoleFaults!Saving
<1>8. RoleEdits!NewCall = RoleFaults!NewCall
  BY DEF RoleEdits!NewCall, RoleFaults!NewCall
<1>9. \A p : RoleEdits!CompareSave(p) <=> RoleFaults!CompareSave(p)
  BY <1>5, <1>3 DEF RoleEdits!CompareSave, RoleFaults!CompareSave
<1>10. \A p : RoleEdits!Written(p) = RoleFaults!Written(p)
  BY <1>4 DEF RoleEdits!Written, RoleFaults!Written
<1>11. \A p, accepted : RoleEdits!UpdateSave(p, accepted) <=> RoleFaults!UpdateSave(p, accepted)
  BY <1>10, <1>5, <1>6 DEF RoleEdits!UpdateSave, RoleFaults!UpdateSave
<1>12. \A p : RoleEdits!InsertSave(p) <=> RoleFaults!InsertSave(p)
  BY <1>5, <1>6 DEF RoleEdits!InsertSave, RoleFaults!InsertSave
<1>13. RoleEdits!Others <=> RoleFaults!Others
  BY DEF RoleEdits!Others, RoleFaults!Others
<1>14. \A p, c : RoleEdits!Becomes(p, c) <=> RoleFaults!Becomes(p, c)
  BY DEF RoleEdits!Becomes, RoleFaults!Becomes
<1>15. \A p, wanted : RoleEdits!CreateRole(p, wanted) <=> RoleFaults!CreateRole(p, wanted)
  BY <1>2, <1>14, <1>8, <1>13 DEF RoleEdits!CreateRole, RoleFaults!CreateRole
<1>16. \A p, r : RoleEdits!FileRole(p, r) <=> RoleFaults!FileRole(p, r)
  BY <1>5 DEF RoleEdits!FileRole, RoleFaults!FileRole
<1>17. \A p, r, wanted : RoleEdits!UpdateRole(p, r, wanted) <=> RoleFaults!UpdateRole(p, r, wanted)
  BY <1>2, <1>14, <1>7, <1>8, <1>13 DEF RoleEdits!UpdateRole, RoleFaults!UpdateRole
<1>18. \A p, r : RoleEdits!RenameRole(p, r) <=> RoleFaults!RenameRole(p, r)
  BY <1>2, <1>14, <1>7, <1>8, <1>13 DEF RoleEdits!RenameRole, RoleFaults!RenameRole
<1>19. \A p : RoleEdits!ClearQuotas(p) <=> RoleFaults!ClearQuotas(p)
  BY <1>5 DEF RoleEdits!ClearQuotas, RoleFaults!ClearQuotas
<1>20. \A p : /\ RoleEdits!FillQuotas(p) <=> RoleFaults!FillQuotas(p)
              /\ RoleEdits!QuotasRefused(p) <=> RoleFaults!QuotasRefused(p)
  BY <1>6, <1>13, <1>5 DEF RoleEdits!FillQuotas, RoleFaults!FillQuotas, RoleEdits!QuotasRefused, RoleFaults!QuotasRefused
<1>21. \A c : RoleEdits!Detaches(c) <=> RoleFaults!Detaches(c)
  BY DEF RoleEdits!Detaches, RoleFaults!Detaches
<1>22. \A p : RoleEdits!SaveRole(p) <=> RoleFaults!SaveRole(p)
  BY <1>21, <1>6, <1>9, <1>11, <1>12, <1>13 DEF RoleEdits!SaveRole, RoleFaults!SaveRole
<1>23. \A p, r : RoleEdits!SetQuota(p, r) <=> RoleFaults!SetQuota(p, r)
  BY <1>2, <1>14, <1>8, <1>13 DEF RoleEdits!SetQuota, RoleFaults!SetQuota
<1>24. \A p, q : RoleEdits!AddQuota(p, q) <=> RoleFaults!AddQuota(p, q)
  BY <1>6, <1>13, <1>5 DEF RoleEdits!AddQuota, RoleFaults!AddQuota
<1>25. \A p, r, q : RoleEdits!RemoveQuota(p, r, q) <=> RoleFaults!RemoveQuota(p, r, q)
  BY <1>2, <1>14, <1>8 DEF RoleEdits!RemoveQuota, RoleFaults!RemoveQuota
<1>26. \A p : RoleEdits!FindRole(p) <=> RoleFaults!FindRole(p)
  BY <1>5, <1>13 DEF RoleEdits!FindRole, RoleFaults!FindRole
<1>27. \A p : RoleEdits!SyncQuotasEnabled(p) <=> RoleFaults!SyncQuotasEnabled(p)
  BY <1>5, <1>14, <1>7, <1>13 DEF RoleEdits!SyncQuotasEnabled, RoleFaults!SyncQuotasEnabled
<1>28. \A p, r : RoleEdits!RemoveRole(p, r) <=> RoleFaults!RemoveRole(p, r)
  BY <1>2, <1>14, <1>8, <1>13 DEF RoleEdits!RemoveRole, RoleFaults!RemoveRole
<1>29. \A p : RoleEdits!DeleteRole(p) <=> RoleFaults!DeleteRole(p)
  BY <1>5 DEF RoleEdits!DeleteRole, RoleFaults!DeleteRole
<1>30. \A p, e, r : RoleEdits!AssignRole(p, e, r) <=> RoleFaults!AssignRole(p, e, r)
  BY <1>2, <1>1 DEF RoleEdits!AssignRole, RoleFaults!AssignRole, RoleEdits!saveVars, RoleFaults!saveVars
<1>31. \A p : ~ RoleEdits!RolesCrash(p)
  BY DEF RoleEdits!RolesCrash
<1> QED
  BY <1>15, <1>16, <1>17, <1>18, <1>19, <1>20, <1>21, <1>22, <1>23, <1>24, <1>25, <1>26, <1>27, <1>28, <1>29, <1>30, <1>31 DEF RoleEdits!RolesNext, RoleSteps

LEMMA RoleFaultIsStep == RoleFaults!RolesNext => RoleSteps \/ RoleFaults!RolesCrash(one)
BY DEF RoleFaults!RolesNext, RoleSteps

LEMMA RoleStep ==
  /\ RoleInv /\ RoleSteps => RoleInv' /\ (KeepsEnabled(roleCall[one]) => KeepsEnabled(roleCall[one])')
  /\ RoleInv /\ UNCHANGED <<roleRow, roleCall, quotas, roleOf, roleIds>> =>
       RoleInv' /\ (KeepsEnabled(roleCall[one]) => KeepsEnabled(roleCall[one])')
<1>1. RoleInv /\ RoleSteps => RoleInv' /\ (KeepsEnabled(roleCall[one]) => KeepsEnabled(roleCall[one])')
  BY RoleStarts, RoleFills, RoleCounts, RoleSaves DEF RoleSteps
<1>2. RoleInv /\ UNCHANGED <<roleRow, roleCall, quotas, roleOf, roleIds>> =>
        RoleInv' /\ (KeepsEnabled(roleCall[one]) => KeepsEnabled(roleCall[one])')
  BY DEF RoleInv, RoleTypes, RoleRows, RoleFits, KeepsEnabled
<1> QED
  BY <1>1, <1>2

LEMMA RoleInit == RoleEdits!RolesInit => RoleInv /\ KeepsEnabled(roleCall[one])
<1>1. RoleEdits!Idle = RoleFaults!Idle /\ RoleFaults!Idle.at = "idle"
  BY DEF RoleEdits!Idle, RoleFaults!Idle
<1> QED
  BY <1>1 DEF RoleEdits!RolesInit, RoleInv, RoleTypes, RoleRows, RoleFits, KeepsEnabled

\* Between calls the quotas of a role are enabled, although some of those a
\* request sets are refused.
THEOREM QuotasStayEnabled == RoleEdits!RolesSpec => []RoleEdits!QuotasAreEnabled
<1> DEFINE Inv == RoleInv /\ KeepsEnabled(roleCall[one])
<1>1. RoleEdits!RolesInit => Inv
  BY RoleInit
<1>2. Inv /\ [RoleEdits!RolesNext]_(RoleEdits!rolesVars) => Inv'
  BY RoleStep, RoleEditIsStep DEF RoleEdits!rolesVars, RoleEdits!saveVars
<1>3. Inv => RoleEdits!QuotasAreEnabled
  <2>1. RoleEdits!Idle.at = "idle"
    BY DEF RoleEdits!Idle
  <2> QED
    BY <2>1 DEF KeepsEnabled, RoleEdits!QuotasAreEnabled, RoleEdits!AtRest, RoleEdits!Stored
<1> QED
  BY <1>1, <1>2, <1>3, PTL DEF RoleEdits!RolesSpec

\* Only a role that nobody has is deleted.
LEMMA RoleProtects == RoleInv /\ RoleFaults!RolesNext => RoleFaults!AssignedIsProtected
<1> SUFFICES ASSUME RoleInv, RoleFaults!RolesNext,
                    NEW e \in Employees, roleOf[e] # Null
             PROVE  roleOf'[e] # Null
  BY DEF RoleFaults!AssignedIsProtected
<1>1. roleOf \in [Employees -> RoleIds \union {Null}]
  BY DEF RoleInv, RoleTypes
<1>2. CASE UNCHANGED roleOf
  BY <1>2
<1>3. CASE RoleFaults!DeleteRole(one)
  <2>1. roleOf[e] # roleCall[one].id
    BY <1>3 DEF RoleInv, RoleFits, RoleFaults!DeleteRole
  <2> QED
    BY <1>1, <1>3, <2>1 DEF RoleFaults!DeleteRole
<1>4. ASSUME NEW x \in Employees, NEW r \in RoleIds, RoleFaults!AssignRole(one, x, r)
      PROVE  roleOf'[e] # Null
  BY <1>1, <1>4, RoleAssumption DEF RoleFaults!AssignRole, RoleFaults!RolesAssumption
<1>5. RoleSteps => \/ UNCHANGED roleOf \/ RoleFaults!DeleteRole(one)
                   \/ \E x \in Employees, r \in RoleIds : RoleFaults!AssignRole(one, x, r)
  BY DEF RoleSteps, RoleFaults!CreateRole, RoleFaults!FileRole, RoleFaults!UpdateRole, RoleFaults!RenameRole,
     RoleFaults!ClearQuotas, RoleFaults!FillQuotas, RoleFaults!QuotasRefused, RoleFaults!SaveRole,
     RoleFaults!SetQuota, RoleFaults!AddQuota,
     RoleFaults!RemoveQuota, RoleFaults!FindRole, RoleFaults!SyncQuotasEnabled, RoleFaults!RemoveRole, RoleFaults!Others
<1>6. RoleFaults!RolesCrash(one) => UNCHANGED roleOf
  BY DEF RoleFaults!RolesCrash, RoleFaults!Others
<1> QED
  BY <1>2, <1>3, <1>4, <1>5, <1>6, RoleFaultIsStep

\* Nobody loses a role because it is deleted, although processes stop.
THEOREM AssignedRolesStay ==
  RoleFaults!RolesSpec => [][RoleFaults!AssignedIsProtected]_(RoleFaults!rolesVars)
<1>1. RoleFaults!RolesInit => RoleInv
  BY RoleInit DEF RoleFaults!RolesInit, RoleEdits!RolesInit, RoleFaults!Idle, RoleEdits!Idle
<1>2. RoleInv /\ [RoleFaults!RolesNext]_(RoleFaults!rolesVars) => RoleInv'
  BY RoleStep, RoleStops, RoleFaultIsStep DEF RoleFaults!rolesVars, RoleFaults!saveVars
<1>3. RoleInv /\ [RoleFaults!RolesNext]_(RoleFaults!rolesVars) =>
        [RoleFaults!AssignedIsProtected]_(RoleFaults!rolesVars)
  BY RoleProtects
<1> QED
  BY <1>1, <1>2, <1>3, PTL DEF RoleFaults!RolesSpec

(***************************************************************************)
(* SLA levels.  One call is under way: what it found of the levels is what *)
(* they are, but for those it has saved since.                             *)
(***************************************************************************)

USE LevelAssumption DEF LevelFaults!SlaAssumption

LevelRecords == LevelFaults!LevelRecords

Wishes == UNION {[S -> BOOLEAN] : S \in SUBSET LevelCodes}
Holdings == [left : Wishes, known : UNION {[T -> LevelRecords] : T \in SUBSET LevelIds}]

LevelCalls ==
  [at : {"roles", "remove", "level", "compare", "update", "insert", "list", "seed"},
   id : LevelIds \union {Null}, entity : LevelRecords \union {Null},
   columns : SUBSET {"code", "active"}, then : {"idle", "level", "list"},
   holds : Holdings \union {Null}]

LevelTypes ==
  /\ levelRow \in [LevelIds -> LevelRecords \union {Null}]
  /\ roleLevel \in [LevelRoles -> LevelCodes \union {Null}]
  /\ levelCall \in [{one} -> {LevelFaults!Idle} \union LevelCalls]
  /\ \A l \in LevelIds : levelRow[l] # Null => l \in levelIds

\* What the call holds fits the rows: no role has a level it is about to remove.
LevelFits(c) ==
  /\ c.at \in {"roles", "remove", "level", "compare", "update", "insert"} => c.holds \in Holdings
  /\ c.at \in {"roles", "remove"} => c.holds.known = [l \in LevelFaults!Stored |-> levelRow[l]]
  /\ c.at = "remove" =>
       \A r \in LevelRoles : \A l \in DOMAIN c.holds.known :
         c.holds.known[l].code \notin DOMAIN c.holds.left => roleLevel[r] # c.holds.known[l].code
  /\ c.at \in {"compare", "update", "insert"} =>
       /\ c.id \in LevelIds /\ c.entity \in LevelRecords /\ c.then \in {"level", "list"}
       /\ c.id \in levelIds

NoLevel == \A l \in LevelIds : levelRow[l] = Null
SomeActive == \E l \in LevelIds : levelRow[l] # Null /\ levelRow[l].active

\* A level that the call has yet to save will be active, or one that it leaves is.
LeftActive(left) ==
  \/ \E d \in DOMAIN left : left[d]
  \/ \E l \in LevelIds : levelRow[l] # Null /\ levelRow[l].active /\ levelRow[l].code \notin DOMAIN left

\* Of the levels that are left to save, the call knows those that there are.
KnowsLeft(left, known) ==
  /\ \A l \in LevelIds : levelRow[l] # Null /\ levelRow[l].code \in DOMAIN left =>
       l \in DOMAIN known /\ known[l].code = levelRow[l].code
  /\ \A k \in DOMAIN known : known[k].code \in DOMAIN left =>
       levelRow[k] # Null /\ levelRow[k].code = known[k].code

KeepsActive(c) ==
  /\ c.at \in {"idle", "roles", "remove"} => NoLevel \/ SomeActive
  /\ c.at = "seed" => NoLevel
  /\ c.at = "list" => SomeActive
  /\ c.at \in {"roles", "remove"} => \E d \in DOMAIN c.holds.left : c.holds.left[d]
  /\ c.at = "level" => LeftActive(c.holds.left) /\ KnowsLeft(c.holds.left, c.holds.known)
  /\ c.at \in {"compare", "update", "insert"} =>
       /\ KnowsLeft(c.holds.left, c.holds.known)
       /\ c.entity.code \notin DOMAIN c.holds.left
       /\ \/ c.entity.active
          \/ \E d \in DOMAIN c.holds.left : c.holds.left[d]
          \/ \E l \in LevelIds \ {c.id} : levelRow[l] # Null /\ levelRow[l].active
                                           /\ levelRow[l].code \notin DOMAIN c.holds.left
       /\ c.then = "list" => DOMAIN c.holds.left = {}
  /\ c.at \in {"compare", "update"} => levelRow[c.id] # Null /\ levelRow[c.id].code = c.entity.code
  /\ c.at = "update" => c.columns = LevelFaults!Differing(c.entity, levelRow[c.id])
  /\ c.at = "insert" =>
       /\ levelRow[c.id] = Null
       /\ \A l \in LevelIds : levelRow[l] # Null => levelRow[l].code # c.entity.code

LevelInv == LevelTypes /\ LevelFits(levelCall[one])

\* What a call is,
LEMMA LevelCall ==
  ASSUME LevelTypes
  PROVE  /\ levelCall[one] = LevelFaults!Idle \/ levelCall[one] \in LevelCalls
         /\ levelCall[one] = LevelFaults!Idle <=> levelCall[one].at = "idle"
         /\ levelCall[one] # LevelFaults!Idle => levelCall[one] \in LevelCalls
         /\ Null \notin LevelRecords
         /\ \A r \in LevelRecords : r.code \in LevelCodes /\ r.active \in BOOLEAN
BY DEF LevelTypes, LevelCalls, LevelFaults!Idle, LevelRecords, LevelFaults!LevelRecords

\* and where the next state takes it.
LEMMA LevelGoes ==
  ASSUME LevelTypes, NEW d, d \in LevelCalls \/ d = LevelFaults!Idle,
         levelCall' = [levelCall EXCEPT ![one] = d],
         levelRow' \in [LevelIds -> LevelRecords \union {Null}],
         roleLevel' \in [LevelRoles -> LevelCodes \union {Null}],
         \A l \in LevelIds : levelRow'[l] # Null => l \in levelIds',
         LevelFits(d)'
  PROVE  LevelInv' /\ levelCall'[one] = d
<1>1. levelCall'[one] = d /\ levelCall' \in [{one} -> {LevelFaults!Idle} \union LevelCalls]
  BY DEF LevelTypes
<1> QED
  BY <1>1 DEF LevelInv, LevelTypes

\* A call that goes on while the rows stay.
LEMMA LevelPasses ==
  ASSUME LevelInv, NEW d, d \in LevelCalls \/ d = LevelFaults!Idle,
         levelCall' = [levelCall EXCEPT ![one] = d], UNCHANGED <<levelRow, roleLevel>>,
         levelIds \subseteq levelIds', LevelFits(d)'
  PROVE  /\ LevelInv'
         /\ KeepsActive(d) => KeepsActive(levelCall[one])'
<1>1. LevelInv' /\ levelCall'[one] = d
  BY LevelGoes DEF LevelInv, LevelTypes
<1>2. KeepsActive(d) => KeepsActive(d)'
  BY DEF KeepsActive, NoLevel, SomeActive, LeftActive, KnowsLeft
<1> QED
  BY <1>1, <1>2

\* A set of levels is asked for,
LEMMA LevelBegins ==
  ASSUME LevelInv, NEW wanted \in Wishes, LevelFaults!SetLevels(one, wanted)
  PROVE  LevelInv' /\ (KeepsActive(levelCall[one]) => KeepsActive(levelCall[one])')
<1>1. PICK h : h = [left |-> wanted, known |-> [l \in LevelFaults!Stored |-> levelRow[l]]]
  OBVIOUS
<1>2. PICK d : d = [LevelFaults!NewCall EXCEPT !.at = "roles", !.holds = h]
  OBVIOUS
<1>3. d = [at |-> "roles", id |-> Null, entity |-> Null, columns |-> {}, then |-> "idle", holds |-> h]
  BY <1>2 DEF LevelFaults!NewCall
<1>4. LevelTypes /\ LevelFits(levelCall[one])
  BY DEF LevelInv
<1>5. [l \in LevelFaults!Stored |-> levelRow[l]] \in [LevelFaults!Stored -> LevelRecords]
      /\ LevelFaults!Stored \in SUBSET LevelIds
  BY <1>4 DEF LevelTypes, LevelFaults!Stored
<1>6. h \in Holdings /\ h.left = wanted /\ h.known = [l \in LevelFaults!Stored |-> levelRow[l]]
  BY <1>1, <1>5 DEF Holdings
<1>7. d \in LevelCalls /\ d.at = "roles" /\ d.holds = h
  BY <1>3, <1>6 DEF LevelCalls
<1>8. /\ levelCall[one].at = "idle" /\ UNCHANGED <<levelRow, roleLevel, levelIds>>
      /\ levelCall' = [levelCall EXCEPT ![one] = d] /\ \E x \in DOMAIN wanted : wanted[x]
  BY <1>1, <1>2, <1>4, LevelCall DEF LevelFaults!SetLevels, LevelFaults!Others
<1>9. LevelFits(d)'
  BY <1>6, <1>7, <1>8 DEF LevelFits, LevelFaults!Stored
<1>10. KeepsActive(levelCall[one]) => KeepsActive(d)
  BY <1>6, <1>7, <1>8 DEF KeepsActive
<1> QED
  BY <1>7, <1>8, <1>9, <1>10, LevelPasses

\* the roles are asked,
LEMMA LevelChecks ==
  ASSUME LevelInv, LevelFaults!CheckRoles(one)
  PROVE  LevelInv' /\ (KeepsActive(levelCall[one]) => KeepsActive(levelCall[one])')
<1>1. PICK c : c = levelCall[one]
  OBVIOUS
<1>2. LevelTypes /\ LevelFits(c)
  BY <1>1 DEF LevelInv
<1>3. c.at = "roles" /\ c \in LevelCalls /\ UNCHANGED <<levelRow, roleLevel, levelIds>>
  BY <1>1, <1>2, LevelCall DEF LevelFaults!CheckRoles, LevelFaults!Others
<1>4. PICK left, known : left = c.holds.left /\ known = c.holds.known
  OBVIOUS
<1>5. c.holds \in Holdings /\ known = [l \in LevelFaults!Stored |-> levelRow[l]]
  BY <1>2, <1>3, <1>4 DEF LevelFits
<1>6. LevelFaults!Dropped(one) = {l \in DOMAIN known : known[l].code \notin DOMAIN left}
  BY <1>1, <1>4 DEF LevelFaults!Dropped
<1>7. CASE \E r \in LevelRoles, l \in LevelFaults!Dropped(one) : roleLevel[r] = known[l].code
  <2>1. levelCall' = [levelCall EXCEPT ![one] = LevelFaults!Idle] /\ LevelFaults!Idle.at = "idle"
    BY <1>1, <1>4, <1>7 DEF LevelFaults!CheckRoles, LevelFaults!Fails, LevelFaults!Idle
  <2>2. LevelFits(LevelFaults!Idle)' /\ (KeepsActive(c) => KeepsActive(LevelFaults!Idle))
    BY <1>3, <2>1 DEF LevelFits, KeepsActive
  <2> QED
    BY <1>1, <1>3, <2>1, <2>2, LevelPasses
<1>8. CASE ~ \E r \in LevelRoles, l \in LevelFaults!Dropped(one) : roleLevel[r] = known[l].code
  <2>1. PICK d : d = [c EXCEPT !.at = IF LevelFaults!Dropped(one) = {} THEN "level" ELSE "remove"]
    OBVIOUS
  <2>2. d \in LevelCalls /\ d.holds = c.holds
        /\ d.at = IF LevelFaults!Dropped(one) = {} THEN "level" ELSE "remove"
    BY <1>3, <2>1 DEF LevelCalls
  <2>3. levelCall' = [levelCall EXCEPT ![one] = d]
    BY <1>1, <1>4, <1>8, <2>1 DEF LevelFaults!CheckRoles, LevelFaults!GoesTo
  <2>4. d.at = "remove" => \A r \in LevelRoles : \A l \in DOMAIN known : known[l].code \notin DOMAIN left => roleLevel[r] # known[l].code
    BY <1>6, <1>8
  <2>5. LevelFits(d)'
    BY <1>3, <1>4, <1>5, <2>2, <2>4 DEF LevelFits, LevelFaults!Stored
  <2>6. KeepsActive(c) => KeepsActive(d)
    <3>1. CASE d.at = "remove"
      BY <1>3, <2>2, <3>1 DEF KeepsActive
    <3>2. CASE d.at = "level"
      <4>1. KnowsLeft(left, known)
        BY <1>5, <1>6, <2>2, <3>2 DEF KnowsLeft, LevelFaults!Stored
      <4> QED
        BY <1>3, <1>4, <2>2, <3>2, <4>1 DEF KeepsActive, LeftActive
    <3> QED
      BY <2>2, <3>1, <3>2
  <2> QED
    BY <1>1, <1>3, <2>2, <2>3, <2>5, <2>6, LevelPasses
<1> QED
  BY <1>7, <1>8

\* the levels that nobody has are removed,
LEMMA LevelRemoves ==
  ASSUME LevelInv, LevelFaults!RemoveLevels(one)
  PROVE  LevelInv' /\ (KeepsActive(levelCall[one]) => KeepsActive(levelCall[one])')
<1>1. PICK c : c = levelCall[one]
  OBVIOUS
<1>2. LevelTypes /\ LevelFits(c)
  BY <1>1 DEF LevelInv
<1>3. c.at = "remove" /\ c \in LevelCalls /\ UNCHANGED <<roleLevel, levelIds>>
  BY <1>1, <1>2, LevelCall DEF LevelFaults!RemoveLevels, LevelFaults!Others
<1>4. PICK left, known : left = c.holds.left /\ known = c.holds.known
  OBVIOUS
<1>5. c.holds \in Holdings /\ known = [l \in LevelFaults!Stored |-> levelRow[l]]
  BY <1>2, <1>3, <1>4 DEF LevelFits
<1>6. levelRow' = [l \in LevelIds |->
        IF l \in {k \in DOMAIN known : known[k].code \notin DOMAIN left} THEN Null ELSE levelRow[l]]
  BY <1>1, <1>4 DEF LevelFaults!RemoveLevels, LevelFaults!Dropped
<1>7. PICK d : d = [c EXCEPT !.at = "level"]
  OBVIOUS
<1>8. d \in LevelCalls /\ d.at = "level" /\ d.holds = c.holds
  BY <1>3, <1>7 DEF LevelCalls
<1>9. levelCall' = [levelCall EXCEPT ![one] = d]
  BY <1>1, <1>7 DEF LevelFaults!RemoveLevels, LevelFaults!GoesTo
<1>10. levelRow' \in [LevelIds -> LevelRecords \union {Null}]
       /\ \A l \in LevelIds : levelRow'[l] # Null => l \in levelIds'
  BY <1>2, <1>3, <1>6 DEF LevelTypes
<1>11. LevelFits(d)'
  BY <1>5, <1>8 DEF LevelFits
<1>12. LevelInv' /\ levelCall'[one] = d
  BY <1>2, <1>3, <1>8, <1>9, <1>10, <1>11, LevelGoes DEF LevelTypes
<1>13. KnowsLeft(left, known)'
  BY <1>5, <1>6 DEF KnowsLeft, LevelFaults!Stored
<1>14. KeepsActive(c) => KeepsActive(d)'
  BY <1>3, <1>4, <1>8, <1>13 DEF KeepsActive, LeftActive
<1> QED
  BY <1>1, <1>12, <1>14

\* the next level is found or is a new one,
LEMMA LevelGoesOn ==
  ASSUME LevelInv, NEW x \in LevelCodes, NEW l \in LevelIds, LevelFaults!NextLevel(one, x, l)
  PROVE  LevelInv' /\ (KeepsActive(levelCall[one]) => KeepsActive(levelCall[one])')
<1>1. PICK c : c = levelCall[one]
  OBVIOUS
<1>2. LevelTypes /\ LevelFits(c)
  BY <1>1 DEF LevelInv
<1>3. c.at = "level" /\ c \in LevelCalls /\ UNCHANGED <<levelRow, roleLevel>>
      /\ levelIds' = levelIds \union {l} /\ x \in DOMAIN c.holds.left
  BY <1>1, <1>2, LevelCall DEF LevelFaults!NextLevel
<1>4. c.holds \in Holdings
  BY <1>2, <1>3 DEF LevelFits
<1>5. PICK left, known : left = c.holds.left /\ known = c.holds.known
  OBVIOUS
<1>6. left \in Wishes /\ known \in UNION {[T -> LevelRecords] : T \in SUBSET LevelIds}
  BY <1>4, <1>5 DEF Holdings
<1>7. PICK rest : rest = [y \in DOMAIN left \ {x} |-> left[y]]
  OBVIOUS
<1>8. rest \in Wishes
  BY <1>6, <1>7 DEF Wishes
<1>9. PICK found : found = {k \in DOMAIN known : known[k].code = x}
  OBVIOUS
<1>10. PICK h : h = [left |-> rest, known |-> known]
  OBVIOUS
<1>11. PICK e : e = [code |-> x, active |-> left[x]]
  OBVIOUS
<1>12. e \in LevelRecords /\ left[x] \in BOOLEAN
  BY <1>3, <1>5, <1>6, <1>11 DEF LevelRecords, LevelFaults!LevelRecords, Wishes
<1>13. PICK d : d = [LevelFaults!Saving(c, l, e, IF DOMAIN rest = {} THEN "list" ELSE "level")
         EXCEPT !.at = IF found = {} THEN "insert" ELSE "compare", !.holds = h]
  OBVIOUS
<1>14. h.left = rest /\ h.known = known /\ h \in Holdings
  BY <1>6, <1>8, <1>10 DEF Holdings
<1>15. /\ d \in LevelCalls /\ d.at = (IF found = {} THEN "insert" ELSE "compare") /\ d.holds = h
       /\ d.id = l /\ d.entity = e /\ d.then = (IF DOMAIN rest = {} THEN "list" ELSE "level")
  BY <1>3, <1>12, <1>13, <1>14 DEF LevelCalls, LevelFaults!Saving
<1>16. levelCall' = [levelCall EXCEPT ![one] = d] /\ IF found = {} THEN l \notin levelIds ELSE l \in found
  BY <1>1, <1>5, <1>7, <1>9, <1>10, <1>11, <1>13 DEF LevelFaults!NextLevel
<1>17. LevelFits(d)'
  BY <1>3, <1>12, <1>14, <1>15 DEF LevelFits
<1>18. ASSUME KeepsActive(c) PROVE KeepsActive(d)
  <2>1. LeftActive(left) /\ KnowsLeft(left, known)
    BY <1>3, <1>5, <1>18 DEF KeepsActive
  <2>2. KnowsLeft(rest, known)
    BY <1>7, <2>1 DEF KnowsLeft
  <2>3. e.code \notin DOMAIN rest
    BY <1>7, <1>11
  <2>4. found # {} => levelRow[l] # Null /\ levelRow[l].code = e.code
    BY <1>3, <1>5, <1>9, <1>11, <1>16, <2>1 DEF KnowsLeft
  <2>5. found = {} => levelRow[l] = Null /\ \A k \in LevelIds : levelRow[k] # Null => levelRow[k].code # e.code
    BY <1>2, <1>3, <1>5, <1>9, <1>11, <1>16, <2>1 DEF KnowsLeft, LevelTypes
  <2>6. \/ e.active
        \/ \E y \in DOMAIN rest : rest[y]
        \/ \E k \in LevelIds \ {l} : levelRow[k] # Null /\ levelRow[k].active /\ levelRow[k].code \notin DOMAIN rest
    <3>1. CASE \E y \in DOMAIN left : left[y]
      BY <1>7, <1>11, <3>1
    <3>2. CASE \E k \in LevelIds : levelRow[k] # Null /\ levelRow[k].active /\ levelRow[k].code \notin DOMAIN left
      BY <1>3, <1>5, <1>7, <1>11, <2>4, <2>5, <3>2
    <3> QED
      BY <2>1, <3>1, <3>2 DEF LeftActive
  <2> QED
    BY <1>14, <1>15, <2>2, <2>3, <2>4, <2>5, <2>6 DEF KeepsActive
<1>19. levelIds \subseteq levelIds'
  BY <1>3
<1> QED
  BY <1>1, <1>3, <1>15, <1>16, <1>17, <1>18, <1>19, LevelPasses

\* and saved,
LEMMA LevelSaves ==
  ASSUME LevelInv, LevelFaults!SaveLevel(one)
  PROVE  LevelInv' /\ (KeepsActive(levelCall[one]) => KeepsActive(levelCall[one])')
<1>1. PICK c : c = levelCall[one]
  OBVIOUS
<1>2. LevelTypes /\ LevelFits(c)
  BY <1>1 DEF LevelInv
<1>3. c.at \in {"compare", "update", "insert"} /\ c \in LevelCalls /\ UNCHANGED <<roleLevel, levelIds>>
  BY <1>1, <1>2, LevelCall DEF LevelFaults!SaveLevel, LevelFaults!CompareSave, LevelFaults!UpdateSave, LevelFaults!Others
<1>4. c.id \in LevelIds /\ c.entity \in LevelRecords /\ c.then \in {"level", "list"} /\ c.id \in levelIds
      /\ c.holds \in Holdings
  BY <1>2, <1>3 DEF LevelFits
<1>5. PICK e : e = c.entity
  OBVIOUS
<1>6. e \in LevelRecords /\ e.code \in LevelCodes /\ e.active \in BOOLEAN
      /\ e = [code |-> e.code, active |-> e.active]
  BY <1>4, <1>5 DEF LevelRecords, LevelFaults!LevelRecords
<1>7. LevelFits(LevelFaults!Idle)' /\ LevelFaults!Idle.at = "idle"
  BY DEF LevelFits, LevelFaults!Idle
<1>8. CASE LevelFaults!CompareSave(one)
  <2>1. c.at = "compare" /\ UNCHANGED levelRow
    BY <1>1, <1>8 DEF LevelFaults!CompareSave
  <2>2. CASE levelRow[c.id] = Null
    <3>1. PICK d : d = [c EXCEPT !.at = "insert"]
      OBVIOUS
    <3>2. d \in LevelCalls /\ d.at = "insert" /\ d.id = c.id /\ d.entity = c.entity /\ d.then = c.then /\ d.holds = c.holds
      BY <1>3, <3>1 DEF LevelCalls
    <3>3. levelCall' = [levelCall EXCEPT ![one] = d]
      BY <1>1, <1>8, <2>2, <3>1 DEF LevelFaults!CompareSave, LevelFaults!GoesTo
    <3>4. LevelFits(d)'
      BY <1>3, <1>4, <3>2 DEF LevelFits
    <3>5. ~ KeepsActive(c)
      BY <2>1, <2>2 DEF KeepsActive
    <3> QED
      BY <1>1, <1>3, <2>1, <3>2, <3>3, <3>4, <3>5, LevelPasses
  <2>3. CASE levelRow[c.id] # Null
    <3>1. PICK d : d = [c EXCEPT !.at = "update", !.columns = LevelFaults!Differing(e, levelRow[c.id])]
      OBVIOUS
    <3>2. LevelFaults!Differing(e, levelRow[c.id]) \in SUBSET {"code", "active"}
      BY <1>6 DEF LevelFaults!Differing
    <3>3. d \in LevelCalls /\ d.at = "update" /\ d.id = c.id /\ d.entity = c.entity /\ d.then = c.then /\ d.holds = c.holds
          /\ d.columns = LevelFaults!Differing(e, levelRow[c.id])
      BY <1>3, <3>1, <3>2 DEF LevelCalls
    <3>4. levelCall' = [levelCall EXCEPT ![one].at = "update", ![one].columns = LevelFaults!Differing(e, levelRow[c.id])]
      BY <1>1, <1>5, <1>8, <2>3 DEF LevelFaults!CompareSave
    <3>5. levelCall' = [levelCall EXCEPT ![one] = d]
      BY <1>1, <1>2, <3>1, <3>4 DEF LevelTypes
    <3>6. LevelFits(d)'
      BY <1>3, <1>4, <3>3 DEF LevelFits
    <3>7. KeepsActive(c) => KeepsActive(d)
      BY <1>5, <2>1, <3>3 DEF KeepsActive
    <3> QED
      BY <1>1, <1>3, <2>1, <3>3, <3>5, <3>6, <3>7, LevelPasses
  <2> QED
    BY <2>2, <2>3
<1>9. CASE LevelFaults!UpdateSave(one, TRUE) \/ (c.at = "insert" /\ LevelFaults!InsertSave(one) /\ levelRow[c.id] = Null
           /\ LevelFaults!Having({e.code}) = {})
  <2>1. PICK d : d = IF c.at = "update" THEN [[c EXCEPT !.columns = {}] EXCEPT !.at = c.then] ELSE [c EXCEPT !.at = c.then]
    OBVIOUS
  <2>2. d \in LevelCalls /\ d.at = c.then /\ d.holds = c.holds
    BY <1>3, <1>4, <2>1 DEF LevelCalls
  <2>3. c.at \in {"update", "insert"} /\ levelCall' = [levelCall EXCEPT ![one] = d]
        /\ (c.at = "update" => levelRow' = [levelRow EXCEPT ![c.id] = LevelFaults!Written(one)])
        /\ (c.at = "insert" => levelRow' = [levelRow EXCEPT ![c.id] = e])
    BY <1>1, <1>4, <1>5, <1>9, <2>1 DEF LevelFaults!UpdateSave, LevelFaults!InsertSave, LevelFaults!GoesTo
  <2>4. PICK w : w = IF c.at = "update" THEN LevelFaults!Written(one) ELSE e
    OBVIOUS
  <2>5. levelRow' = [levelRow EXCEPT ![c.id] = w]
    BY <2>3, <2>4
  <2>6. w \in LevelRecords \union {Null}
    <3>1. CASE c.at = "insert" \/ levelRow[c.id] = Null
      BY <1>1, <1>6, <2>3, <2>4, <3>1 DEF LevelFaults!Written
    <3>2. CASE c.at = "update" /\ levelRow[c.id] # Null
      <4>1. w = [k \in DOMAIN levelRow[c.id] |-> IF k \in c.columns THEN e[k] ELSE levelRow[c.id][k]]
        BY <1>1, <1>5, <2>4, <3>2 DEF LevelFaults!Written, LevelFaults!Updated
      <4>2. levelRow[c.id] \in LevelRecords
        BY <1>2, <1>4, <3>2 DEF LevelTypes
      <4> QED
        BY <1>6, <4>1, <4>2 DEF LevelRecords, LevelFaults!LevelRecords
    <3> QED
      BY <2>3, <3>1, <3>2
  <2>7. LevelFits(d)'
    BY <1>4, <2>2 DEF LevelFits
  <2>8. LevelInv' /\ levelCall'[one] = d
    <3>1. levelRow' \in [LevelIds -> LevelRecords \union {Null}] /\ \A k \in LevelIds : levelRow'[k] # Null => k \in levelIds'
      BY <1>2, <1>3, <1>4, <2>5, <2>6 DEF LevelTypes
    <3> QED
      BY <1>2, <1>3, <2>2, <2>3, <2>7, <3>1, LevelGoes DEF LevelTypes
  <2>9. ASSUME KeepsActive(c) PROVE KeepsActive(d)'
    <3>1. PICK left, known : left = c.holds.left /\ known = c.holds.known
      OBVIOUS
    <3>2. /\ KnowsLeft(left, known) /\ e.code \notin DOMAIN left
          /\ \/ e.active
             \/ \E y \in DOMAIN left : left[y]
             \/ \E l \in LevelIds \ {c.id} : levelRow[l] # Null /\ levelRow[l].active /\ levelRow[l].code \notin DOMAIN left
          /\ c.then = "list" => DOMAIN left = {}
      BY <1>3, <1>5, <2>9, <3>1 DEF KeepsActive
    <3>3. w = e /\ Null \notin LevelRecords
      <4>1. CASE c.at = "update"
        <5>1. levelRow[c.id] \in LevelRecords /\ c.columns = LevelFaults!Differing(e, levelRow[c.id])
          BY <1>2, <1>4, <1>5, <2>9, <4>1 DEF KeepsActive, LevelTypes
        <5>2. levelRow[c.id] # Null
          BY <5>1, <1>2, LevelCall
        <5>3. w = [k \in DOMAIN levelRow[c.id] |-> IF k \in c.columns THEN e[k] ELSE levelRow[c.id][k]]
          BY <1>1, <1>5, <2>4, <4>1, <5>2 DEF LevelFaults!Written, LevelFaults!Updated
        <5>4. DOMAIN levelRow[c.id] = {"code", "active"} /\ DOMAIN e = {"code", "active"}
          BY <1>6, <5>1 DEF LevelRecords, LevelFaults!LevelRecords
        <5>5. \A k \in {"code", "active"} : w[k] = e[k]
          BY <5>1, <5>3, <5>4 DEF LevelFaults!Differing
        <5>6. w = [k \in {"code", "active"} |-> e[k]]
          BY <5>3, <5>4, <5>5
        <5>7. e = [k \in {"code", "active"} |-> e[k]]
          BY <1>6
        <5> QED
          BY <5>6, <5>7, <1>2, LevelCall
      <4>2. CASE c.at # "update"
        BY <1>2, <2>4, <4>2, LevelCall
      <4> QED
        BY <4>1, <4>2
    <3>4. \A l \in LevelIds : levelRow'[l] = IF l = c.id THEN e ELSE levelRow[l]
      BY <1>2, <1>4, <2>5, <3>3 DEF LevelTypes
    <3>5. e # Null
      BY <1>6, <3>3
    <3>6. KnowsLeft(left, known)'
      <4>1. levelRow[c.id] # Null => levelRow[c.id].code = e.code
        BY <1>3, <1>4, <1>5, <2>3, <2>9 DEF KeepsActive
      <4>2. DOMAIN known \subseteq LevelIds
        BY <1>4, <3>1 DEF Holdings
      <4> QED
        BY <3>2, <3>4, <3>5, <4>1, <4>2 DEF KnowsLeft
    <3>7. LeftActive(left)'
      <4>1. CASE e.active
        <5>1. levelRow'[c.id] = e
          BY <1>4, <3>4
        <5> QED
          BY <1>4, <3>2, <3>5, <4>1, <5>1 DEF LeftActive
      <4>2. CASE \E y \in DOMAIN left : left[y]
        BY <4>2 DEF LeftActive
      <4>3. CASE \E l \in LevelIds \ {c.id} : levelRow[l] # Null /\ levelRow[l].active /\ levelRow[l].code \notin DOMAIN left
        <5>1. PICK l \in LevelIds \ {c.id} : levelRow[l] # Null /\ levelRow[l].active /\ levelRow[l].code \notin DOMAIN left
          BY <4>3
        <5>2. levelRow'[l] = levelRow[l]
          BY <3>4
        <5> QED
          BY <5>1, <5>2 DEF LeftActive
      <4> QED
        BY <3>2, <4>1, <4>2, <4>3
    <3>8. c.then = "list" => SomeActive'
      BY <3>2, <3>7 DEF LeftActive, SomeActive
    <3> QED
      BY <1>4, <2>2, <3>1, <3>6, <3>7, <3>8 DEF KeepsActive
  <2> QED
    BY <1>1, <2>8, <2>9
<1>10. CASE c.at = "insert" /\ ~ (levelRow[c.id] = Null /\ LevelFaults!Having({e.code}) = {})
  <2>1. levelCall' = [levelCall EXCEPT ![one] = LevelFaults!Idle] /\ UNCHANGED levelRow
    BY <1>1, <1>5, <1>10 DEF LevelFaults!SaveLevel, LevelFaults!CompareSave, LevelFaults!UpdateSave, LevelFaults!InsertSave,
       LevelFaults!Fails
  <2>2. ~ KeepsActive(c)
    BY <1>2, <1>5, <1>10 DEF KeepsActive, LevelFaults!Having, LevelFaults!Stored
  <2> QED
    BY <1>1, <1>3, <1>7, <2>1, <2>2, LevelPasses
<1> QED
  BY <1>1, <1>5, <1>8, <1>9, <1>10 DEF LevelFaults!SaveLevel

\* until the levels are listed, or the default ones are given.
LEMMA LevelEnds ==
  ASSUME LevelInv,
         \/ LevelFaults!GetLevels(one)
         \/ \E level \in [Defaults -> LevelIds] : LevelFaults!SeedLevels(one, level)
         \/ \E r \in LevelRoles, x \in LevelCodes : LevelFaults!SetRoleLevel(one, r, x)
  PROVE  LevelInv' /\ (KeepsActive(levelCall[one]) => KeepsActive(levelCall[one])')
<1>1. PICK c : c = levelCall[one]
  OBVIOUS
<1>2. LevelTypes /\ LevelFits(c)
  BY <1>1 DEF LevelInv
<1>3. LevelFits(LevelFaults!Idle)' /\ LevelFaults!Idle.at = "idle"
  BY DEF LevelFits, LevelFaults!Idle
<1>4. CASE LevelFaults!GetLevels(one)
  <2>1. /\ c.at = "list" \/ (c.at = "idle" /\ LevelFaults!Stored = {})
        /\ UNCHANGED <<levelRow, roleLevel, levelIds>>
    BY <1>1, <1>2, <1>4, LevelCall DEF LevelFaults!GetLevels, LevelFaults!Others
  <2>2. CASE LevelFaults!Stored = {}
    <3>1. PICK d : d = [LevelFaults!NewCall EXCEPT !.at = "seed"]
      OBVIOUS
    <3>2. d = [at |-> "seed", id |-> Null, entity |-> Null, columns |-> {}, then |-> "idle", holds |-> Null]
      BY <3>1 DEF LevelFaults!NewCall
    <3>3. d \in LevelCalls /\ d.at = "seed"
      BY <3>2 DEF LevelCalls
    <3>4. levelCall' = [levelCall EXCEPT ![one] = d]
      BY <1>4, <2>2, <3>1 DEF LevelFaults!GetLevels
    <3>5. LevelFits(d)' /\ KeepsActive(d)
      BY <2>2, <3>3 DEF LevelFits, KeepsActive, NoLevel, LevelFaults!Stored
    <3> QED
      BY <1>1, <2>1, <3>3, <3>4, <3>5, LevelPasses
  <2>3. CASE LevelFaults!Stored # {}
    <3>1. levelCall' = [levelCall EXCEPT ![one] = LevelFaults!Idle]
      BY <1>4, <2>3 DEF LevelFaults!GetLevels
    <3>2. KeepsActive(c) => KeepsActive(LevelFaults!Idle)
      BY <1>3, <2>1, <2>3 DEF KeepsActive
    <3> QED
      BY <1>1, <1>3, <2>1, <3>1, <3>2, LevelPasses
  <2> QED
    BY <2>2, <2>3
<1>5. ASSUME NEW level \in [Defaults -> LevelIds], LevelFaults!SeedLevels(one, level)
      PROVE  LevelInv' /\ (KeepsActive(c) => KeepsActive(levelCall[one])')
  <2>1. c.at = "seed" /\ UNCHANGED roleLevel
    BY <1>1, <1>5 DEF LevelFaults!SeedLevels, LevelFaults!Others
  <2>2. CASE LevelFaults!Having(Defaults) # {}
    <3>1. levelCall' = [levelCall EXCEPT ![one] = LevelFaults!Idle] /\ UNCHANGED <<levelRow, levelIds>>
      BY <1>5, <2>2 DEF LevelFaults!SeedLevels, LevelFaults!Fails, LevelFaults!Others
    <3>2. KeepsActive(c) => KeepsActive(LevelFaults!Idle)
      BY <1>3, <2>1 DEF KeepsActive
    <3> QED
      BY <1>1, <1>3, <2>1, <3>1, <3>2, LevelPasses
  <2>3. CASE LevelFaults!Having(Defaults) = {}
    <3>1. PICK seeded : seeded = {level[x] : x \in Defaults}
      OBVIOUS
    <3>2. /\ levelRow' = [l \in LevelIds |-> IF l \in seeded
                           THEN [code |-> CHOOSE x \in Defaults : level[x] = l, active |-> TRUE] ELSE levelRow[l]]
          /\ levelIds' = levelIds \union seeded
          /\ levelCall' = [levelCall EXCEPT ![one] = LevelFaults!Idle]
      BY <1>5, <2>3, <3>1 DEF LevelFaults!SeedLevels, LevelFaults!GoesTo
    <3>3. \A l \in seeded : [code |-> CHOOSE x \in Defaults : level[x] = l, active |-> TRUE] \in LevelRecords
      BY <3>1, LevelAssumption DEF LevelRecords, LevelFaults!LevelRecords, LevelFaults!SlaAssumption
    <3>4. levelRow' \in [LevelIds -> LevelRecords \union {Null}] /\ \A l \in LevelIds : levelRow'[l] # Null => l \in levelIds'
      BY <1>2, <3>2, <3>3 DEF LevelTypes
    <3>5. LevelInv' /\ levelCall'[one] = LevelFaults!Idle
      BY <1>2, <1>3, <2>1, <3>2, <3>4, LevelGoes DEF LevelTypes
    <3>6. KeepsActive(c) => (NoLevel \/ SomeActive)'
      <4>1. CASE seeded = {}
        BY <2>1, <3>2, <4>1 DEF KeepsActive, NoLevel
      <4>2. CASE seeded # {}
        <5>1. PICK l \in LevelIds : l \in seeded
          BY <3>1, <4>2
        <5>2. PICK r : r = [code |-> CHOOSE x \in Defaults : level[x] = l, active |-> TRUE]
          OBVIOUS
        <5>3. levelRow'[l] = r /\ r \in LevelRecords /\ r.active
          BY <3>2, <3>3, <5>1, <5>2
        <5> QED
          BY <1>2, <5>3, LevelCall DEF SomeActive
      <4> QED
        BY <4>1, <4>2
    <3> QED
      BY <1>3, <3>5, <3>6 DEF KeepsActive
  <2> QED
    BY <2>2, <2>3
<1>6. ASSUME NEW r \in LevelRoles, NEW x \in LevelCodes, LevelFaults!SetRoleLevel(one, r, x)
      PROVE  LevelInv' /\ (KeepsActive(c) => KeepsActive(levelCall[one])')
  <2>1. c.at = "idle" /\ UNCHANGED <<levelRow, levelCall, levelIds>> /\ roleLevel' = [roleLevel EXCEPT ![r] = x]
    BY <1>1, <1>2, <1>6, LevelCall DEF LevelFaults!SetRoleLevel, LevelFaults!saveVars
  <2>2. LevelTypes'
    BY <1>2, <2>1 DEF LevelTypes
  <2>3. LevelFits(c)' /\ (KeepsActive(c) => KeepsActive(c)')
    BY <2>1 DEF LevelFits, KeepsActive, NoLevel, SomeActive
  <2> QED
    BY <1>1, <2>1, <2>2, <2>3 DEF LevelInv
<1> QED
  BY <1>1, <1>4, <1>5, <1>6

\* A process that stops takes its call with it.
LEMMA LevelStops == LevelInv /\ LevelFaults!SlaCrash(one) => LevelInv'
<1> SUFFICES ASSUME LevelInv, LevelFaults!SlaCrash(one) PROVE LevelInv'
  OBVIOUS
<1>1. levelCall' = [levelCall EXCEPT ![one] = LevelFaults!Idle] /\ UNCHANGED <<levelRow, roleLevel, levelIds>>
  BY DEF LevelFaults!SlaCrash, LevelFaults!Crash, LevelFaults!Fails, LevelFaults!Others
<1>2. LevelFits(LevelFaults!Idle)'
  BY DEF LevelFits, LevelFaults!Idle
<1> QED
  BY <1>1, <1>2, LevelPasses

LevelSteps ==
  \/ \E wanted \in Wishes : LevelFaults!SetLevels(one, wanted)
  \/ LevelFaults!CheckRoles(one) \/ LevelFaults!RemoveLevels(one) \/ LevelFaults!SaveLevel(one)
  \/ LevelFaults!GetLevels(one)
  \/ \E x \in LevelCodes, l \in LevelIds : LevelFaults!NextLevel(one, x, l)
  \/ \E r \in LevelRoles, x \in LevelCodes : LevelFaults!SetRoleLevel(one, r, x)
  \/ \E level \in [Defaults -> LevelIds] : LevelFaults!SeedLevels(one, level)

\* Both instances make these steps.
LEMMA LevelEditIsStep == LevelEdits!SlaNext => LevelSteps
<1>1. LevelEdits!saveVars = LevelFaults!saveVars
  BY DEF LevelEdits!saveVars, LevelFaults!saveVars
<1>2. LevelEdits!Idle = LevelFaults!Idle
  BY DEF LevelEdits!Idle, LevelFaults!Idle
<1>3. \A entity, stored : LevelEdits!Differing(entity, stored) = LevelFaults!Differing(entity, stored)
  BY DEF LevelEdits!Differing, LevelFaults!Differing
<1>4. \A stored, entity, columns : LevelEdits!Updated(stored, entity, columns) = LevelFaults!Updated(stored, entity, columns)
  BY DEF LevelEdits!Updated, LevelFaults!Updated
<1>5. \A p, c, at : LevelEdits!GoesTo(p, c, at) <=> LevelFaults!GoesTo(p, c, at)
  BY <1>2 DEF LevelEdits!GoesTo, LevelFaults!GoesTo
<1>6. \A p : LevelEdits!Fails(p) <=> LevelFaults!Fails(p)
  BY <1>2 DEF LevelEdits!Fails, LevelFaults!Fails
<1>7. \A c, id, entity, then : LevelEdits!Saving(c, id, entity, then) = LevelFaults!Saving(c, id, entity, then)
  BY DEF LevelEdits!Saving, LevelFaults!Saving
<1>8. LevelEdits!NewCall = LevelFaults!NewCall
  BY DEF LevelEdits!NewCall, LevelFaults!NewCall
<1>9. \A p : LevelEdits!CompareSave(p) <=> LevelFaults!CompareSave(p)
  BY <1>5, <1>3 DEF LevelEdits!CompareSave, LevelFaults!CompareSave
<1>10. \A p : LevelEdits!Written(p) = LevelFaults!Written(p)
  BY <1>4 DEF LevelEdits!Written, LevelFaults!Written
<1>11. \A p, accepted : LevelEdits!UpdateSave(p, accepted) <=> LevelFaults!UpdateSave(p, accepted)
  BY <1>10, <1>5, <1>6 DEF LevelEdits!UpdateSave, LevelFaults!UpdateSave
<1>12. \A p : LevelEdits!InsertSave(p) <=> LevelFaults!InsertSave(p)
  BY <1>5, <1>6 DEF LevelEdits!InsertSave, LevelFaults!InsertSave
<1>13. LevelEdits!Others <=> LevelFaults!Others
  BY DEF LevelEdits!Others, LevelFaults!Others
<1>14. LevelEdits!Stored = LevelFaults!Stored
  BY DEF LevelEdits!Stored, LevelFaults!Stored
<1>15. \A named : LevelEdits!Having(named) = LevelFaults!Having(named)
  BY <1>14 DEF LevelEdits!Having, LevelFaults!Having
<1>16. \A p, wanted : LevelEdits!SetLevels(p, wanted) <=> LevelFaults!SetLevels(p, wanted)
  BY <1>2, <1>8, <1>14, <1>13 DEF LevelEdits!SetLevels, LevelFaults!SetLevels
<1>17. \A p : LevelEdits!Dropped(p) = LevelFaults!Dropped(p)
  BY DEF LevelEdits!Dropped, LevelFaults!Dropped
<1>18. \A p : LevelEdits!CheckRoles(p) <=> LevelFaults!CheckRoles(p)
  BY <1>17, <1>6, <1>5, <1>13 DEF LevelEdits!CheckRoles, LevelFaults!CheckRoles
<1>19. \A p : LevelEdits!RemoveLevels(p) <=> LevelFaults!RemoveLevels(p)
  BY <1>17, <1>5, <1>13 DEF LevelEdits!RemoveLevels, LevelFaults!RemoveLevels
<1>20. \A p, c, l : LevelEdits!NextLevel(p, c, l) <=> LevelFaults!NextLevel(p, c, l)
  BY ZenonT(30) DEF LevelEdits!NextLevel, LevelFaults!NextLevel, LevelEdits!Saving, LevelFaults!Saving
<1>21. \A p : LevelEdits!SaveLevel(p) <=> LevelFaults!SaveLevel(p)
  BY <1>9, <1>11, <1>15, <1>12, <1>6, <1>13 DEF LevelEdits!SaveLevel, LevelFaults!SaveLevel
<1>22. \A p : LevelEdits!GetLevels(p) <=> LevelFaults!GetLevels(p)
  BY <1>2, <1>14, <1>8, <1>13 DEF LevelEdits!GetLevels, LevelFaults!GetLevels
<1>23. \A p, level : LevelEdits!SeedLevels(p, level) <=> LevelFaults!SeedLevels(p, level)
  BY <1>15, <1>6, <1>13, <1>5 DEF LevelEdits!SeedLevels, LevelFaults!SeedLevels
<1>24. \A p, r, c : LevelEdits!SetRoleLevel(p, r, c) <=> LevelFaults!SetRoleLevel(p, r, c)
  BY <1>2, <1>1 DEF LevelEdits!SetRoleLevel, LevelFaults!SetRoleLevel, LevelEdits!saveVars, LevelFaults!saveVars
<1>25. \A p : ~ LevelEdits!SlaCrash(p)
  BY DEF LevelEdits!SlaCrash
<1> QED
  BY <1>1, <1>2, <1>3, <1>4, <1>5, <1>6, <1>7, <1>8, <1>9, <1>10, <1>11, <1>12, <1>13, <1>14, <1>15, <1>16, <1>17, <1>18, <1>19, <1>20, <1>21, <1>22, <1>23, <1>24, <1>25 DEF LevelEdits!SlaNext, LevelSteps, Wishes

LEMMA LevelFaultIsStep == LevelFaults!SlaNext => LevelSteps \/ LevelFaults!SlaCrash(one)
BY DEF LevelFaults!SlaNext, LevelSteps, Wishes

LEMMA LevelStep ==
  /\ LevelInv /\ LevelSteps => LevelInv' /\ (KeepsActive(levelCall[one]) => KeepsActive(levelCall[one])')
  /\ LevelInv /\ UNCHANGED <<levelRow, levelCall, roleLevel, levelIds>> =>
       LevelInv' /\ (KeepsActive(levelCall[one]) => KeepsActive(levelCall[one])')
<1>1. LevelInv /\ LevelSteps => LevelInv' /\ (KeepsActive(levelCall[one]) => KeepsActive(levelCall[one])')
  BY LevelBegins, LevelChecks, LevelRemoves, LevelGoesOn, LevelSaves, LevelEnds DEF LevelSteps
<1>2. LevelInv /\ UNCHANGED <<levelRow, levelCall, roleLevel, levelIds>> =>
        LevelInv' /\ (KeepsActive(levelCall[one]) => KeepsActive(levelCall[one])')
  BY DEF LevelInv, LevelTypes, LevelFits, LevelFaults!Stored, KeepsActive, NoLevel, SomeActive, LeftActive, KnowsLeft
<1> QED
  BY <1>1, <1>2

LEMMA LevelInit == LevelEdits!SlaInit => LevelInv /\ KeepsActive(levelCall[one])
<1>1. LevelEdits!Idle = LevelFaults!Idle /\ LevelFaults!Idle.at = "idle"
  BY DEF LevelEdits!Idle, LevelFaults!Idle
<1> QED
  BY <1>1 DEF LevelEdits!SlaInit, LevelInv, LevelTypes, LevelFits, KeepsActive, NoLevel

\* Between calls a company with levels has one that is active.
THEOREM SomeLevelStaysActive == LevelEdits!SlaSpec => []LevelEdits!SomeLevelIsActive
<1> DEFINE Inv == LevelInv /\ KeepsActive(levelCall[one])
<1>1. LevelEdits!SlaInit => Inv
  BY LevelInit
<1>2. Inv /\ [LevelEdits!SlaNext]_(LevelEdits!slaVars) => Inv'
  BY LevelStep, LevelEditIsStep DEF LevelEdits!slaVars, LevelEdits!saveVars
<1>3. Inv => LevelEdits!SomeLevelIsActive
  <2>1. LevelEdits!Idle.at = "idle"
    BY DEF LevelEdits!Idle
  <2> QED
    BY <2>1 DEF KeepsActive, NoLevel, SomeActive, LevelEdits!SomeLevelIsActive, LevelEdits!Stored
<1> QED
  BY <1>1, <1>2, <1>3, PTL DEF LevelEdits!SlaSpec

\* Only levels that no role has are removed.
LEMMA LevelProtects == LevelInv /\ LevelFaults!SlaNext => LevelFaults!RemovedIsUnused
<1> SUFFICES ASSUME LevelInv, LevelFaults!SlaNext,
                    NEW l \in LevelIds, levelRow[l] # Null, levelRow'[l] = Null, NEW r \in LevelRoles
             PROVE  roleLevel[r] # levelRow[l].code
  BY DEF LevelFaults!RemovedIsUnused, LevelFaults!Stored
<1>1. LevelTypes /\ LevelFits(levelCall[one])
  BY DEF LevelInv
<1>2. PICK c : c = levelCall[one]
  OBVIOUS
<1>3. CASE LevelFaults!RemoveLevels(one)
  <2>1. c.at = "remove" /\ l \in LevelFaults!Dropped(one)
    BY <1>2, <1>3 DEF LevelFaults!RemoveLevels
  <2>2. l \in DOMAIN c.holds.known /\ c.holds.known[l].code \notin DOMAIN c.holds.left
    BY <1>2, <2>1 DEF LevelFaults!Dropped
  <2>3. c.holds.known = [k \in LevelFaults!Stored |-> levelRow[k]]
    BY <1>1, <1>2, <2>1 DEF LevelFits
  <2>4. c.holds.known[l] = levelRow[l]
    BY <2>2, <2>3
  <2> QED
    BY <1>1, <1>2, <2>1, <2>2, <2>4 DEF LevelFits
<1>4. CASE LevelFaults!SaveLevel(one)
  <2>1. c.at \in {"compare", "update", "insert"} /\ c \in LevelCalls
    BY <1>1, <1>2, <1>4, LevelCall DEF LevelFaults!SaveLevel, LevelFaults!CompareSave, LevelFaults!UpdateSave
  <2>2. c.id \in LevelIds /\ c.entity \in LevelRecords
    BY <1>1, <1>2, <2>1 DEF LevelFits
  <2>3. \/ UNCHANGED levelRow
        \/ levelRow' = [levelRow EXCEPT ![c.id] = c.entity]
        \/ levelRow' = [levelRow EXCEPT ![c.id] = LevelFaults!Written(one)]
    BY <1>2, <1>4 DEF LevelFaults!SaveLevel, LevelFaults!CompareSave, LevelFaults!UpdateSave, LevelFaults!InsertSave,
       LevelFaults!Fails
  <2>4. levelRow[c.id] # Null => LevelFaults!Written(one) # Null
    <3>1. SUFFICES ASSUME levelRow[c.id] # Null PROVE LevelFaults!Written(one) \in LevelRecords
      BY <1>1, LevelCall
    <3>2. LevelFaults!Written(one) = [k \in DOMAIN levelRow[c.id] |-> IF k \in c.columns THEN c.entity[k] ELSE levelRow[c.id][k]]
      BY <1>2, <3>1 DEF LevelFaults!Written, LevelFaults!Updated
    <3>3. levelRow[c.id] \in LevelRecords
      BY <1>1, <2>2, <3>1 DEF LevelTypes
    <3> QED
      BY <2>2, <3>2, <3>3 DEF LevelRecords, LevelFaults!LevelRecords
  <2> QED
    BY <1>1, <2>2, <2>3, <2>4, LevelCall DEF LevelTypes
<1>5. ASSUME NEW level \in [Defaults -> LevelIds], LevelFaults!SeedLevels(one, level)
      PROVE  levelRow'[l] # Null
  <2>1. UNCHANGED levelRow \/ levelRow' = [k \in LevelIds |-> IF k \in {level[x] : x \in Defaults}
           THEN [code |-> CHOOSE x \in Defaults : level[x] = k, active |-> TRUE] ELSE levelRow[k]]
    BY <1>5 DEF LevelFaults!SeedLevels, LevelFaults!Fails
  <2>2. \A k \in {level[x] : x \in Defaults} : [code |-> CHOOSE x \in Defaults : level[x] = k, active |-> TRUE] \in LevelRecords
    BY LevelAssumption DEF LevelRecords, LevelFaults!LevelRecords, LevelFaults!SlaAssumption
  <2>3. CASE UNCHANGED levelRow
    BY <2>3
  <2>4. CASE levelRow' = [k \in LevelIds |-> IF k \in {level[x] : x \in Defaults}
           THEN [code |-> CHOOSE x \in Defaults : level[x] = k, active |-> TRUE] ELSE levelRow[k]]
    <3>1. CASE l \in {level[x] : x \in Defaults}
      <4>1. levelRow'[l] = [code |-> CHOOSE x \in Defaults : level[x] = l, active |-> TRUE]
        BY <2>4, <3>1
      <4>2. levelRow'[l] \in LevelRecords
        BY <2>2, <3>1, <4>1
      <4> QED
        BY <1>1, <4>2, LevelCall
    <3>2. CASE l \notin {level[x] : x \in Defaults}
      BY <2>4, <3>2
    <3> QED
      BY <3>1, <3>2
  <2> QED
    BY <2>1, <2>3, <2>4
<1>6. LevelSteps => \/ UNCHANGED levelRow \/ LevelFaults!RemoveLevels(one) \/ LevelFaults!SaveLevel(one)
                    \/ \E level \in [Defaults -> LevelIds] : LevelFaults!SeedLevels(one, level)
  BY DEF LevelSteps, LevelFaults!SetLevels, LevelFaults!CheckRoles, LevelFaults!Fails, LevelFaults!GetLevels,
     LevelFaults!NextLevel, LevelFaults!SetRoleLevel, LevelFaults!saveVars
<1>7. LevelFaults!SlaCrash(one) => UNCHANGED levelRow
  BY DEF LevelFaults!SlaCrash, LevelFaults!Crash, LevelFaults!Fails
<1> QED
  BY <1>3, <1>4, <1>5, <1>6, <1>7, LevelFaultIsStep

\* No level is removed from the roles that have it, although processes stop.
THEOREM NamedLevelsStay == LevelFaults!SlaSpec => [][LevelFaults!RemovedIsUnused]_(LevelFaults!slaVars)
<1>1. LevelFaults!SlaInit => LevelInv
  BY LevelInit DEF LevelFaults!SlaInit, LevelEdits!SlaInit, LevelFaults!Idle, LevelEdits!Idle
<1>2. LevelInv /\ [LevelFaults!SlaNext]_(LevelFaults!slaVars) => LevelInv'
  BY LevelStep, LevelStops, LevelFaultIsStep DEF LevelFaults!slaVars, LevelFaults!saveVars
<1>3. LevelInv /\ [LevelFaults!SlaNext]_(LevelFaults!slaVars) =>
        [LevelFaults!RemovedIsUnused]_(LevelFaults!slaVars)
  BY LevelProtects
<1> QED
  BY <1>1, <1>2, <1>3, PTL DEF LevelFaults!SlaSpec

(***************************************************************************)
(* Registration.  One call is under way, of an administrator or of who     *)
(* registers; what it read of the settings still holds.                    *)
(***************************************************************************)

USE CompaniesAssumption DEF Interrupted!RegistrationAssumption

Company == Interrupted!Company
CompanyRecords == Interrupted!CompanyRecords
Applications == [challenge : Challenges, phone : Phones, option : Options]
Replacements == [wanted : SUBSET Options, old : SUBSET Options]

SettingCalls ==
  [at : {"compare", "update", "delete", "replace", "show"}, id : {Company}, entity : CompanyRecords,
   columns : SUBSET {"mode", "code", "active"}, then : {"idle", "delete", "show"},
   holds : Replacements \union {Null}]
ApplicationCalls ==
  [at : {"prove", "spend", "file", "consume"}, id : {Null}, entity : Applications,
   columns : {{}}, then : {"idle"}, holds : {Null}]
CompanyCalls == SettingCalls \union ApplicationCalls

CompanyTypes ==
  /\ companyRow \in [{Company} -> CompanyRecords]
  /\ options \in SUBSET Options
  /\ codes \in 0..MaxCodes /\ shown \in 0..MaxCodes
  /\ challenge \in [Challenges -> {Null, "open", "over"}]
  /\ registered \in SUBSET Applications
  /\ companyCall \in [{one} -> {Interrupted!Idle} \union CompanyCalls]

\* A code is drawn, then stored, then shown.
CodesGrow == shown <= companyRow[Company].code /\ companyRow[Company].code <= codes

\* What is written is not older than what is there, and who registers may.
CompanyFits(c) ==
  /\ c.at \in {"compare", "update"} =>
       companyRow[Company].code <= c.entity.code /\ c.entity.code <= codes
  /\ c.at \in {"compare", "update"} /\ c.then = "delete" => c.holds \in Replacements
  /\ c.at \in {"delete", "replace"} => c.holds \in Replacements
  /\ c.at = "update" => c.columns = Interrupted!Differing(c.entity, companyRow[Company])
  /\ c.at = "show" => c.entity.code = companyRow[Company].code
  /\ c.at \in {"prove", "spend", "file"} =>
       Interrupted!Admits(companyRow[Company]) /\ c.entity.option \in options

\* The challenge of who registered is over, or the call is about to end it.
KeepsChallenges(c) ==
  /\ \A r, s \in registered : r.challenge = s.challenge => r = s
  /\ \A r \in registered :
       challenge[r.challenge] = "over" \/ (c.at = "consume" /\ c.entity.challenge = r.challenge)
  /\ c.at \in {"prove", "spend", "file"} => \A r \in registered : r.challenge # c.entity.challenge

CompanyInv == CompanyTypes /\ CodesGrow /\ CompanyFits(companyCall[one])

\* What a call is,
LEMMA CompanyCall ==
  ASSUME CompanyTypes
  PROVE  /\ companyCall[one] = Interrupted!Idle \/ companyCall[one] \in CompanyCalls
         /\ companyCall[one] = Interrupted!Idle <=> companyCall[one].at = "idle"
         /\ companyCall[one].at \in {"compare", "update", "delete", "replace", "show"} =>
              companyCall[one] \in SettingCalls
         /\ companyCall[one].at \in {"prove", "spend", "file", "consume"} =>
              companyCall[one] \in ApplicationCalls
         /\ companyRow[Company] \in CompanyRecords /\ companyRow[Company] # Null
BY DEF CompanyTypes, CompanyCalls, SettingCalls, ApplicationCalls, Interrupted!Idle, CompanyRecords

\* and where the next state takes it.
LEMMA CompanyGoes ==
  ASSUME CompanyTypes, NEW d, d \in CompanyCalls \/ d = Interrupted!Idle,
         companyCall' = [companyCall EXCEPT ![one] = d],
         companyRow' \in [{Company} -> CompanyRecords], options' \in SUBSET Options,
         codes' \in 0..MaxCodes, shown' \in 0..MaxCodes,
         challenge' \in [Challenges -> {Null, "open", "over"}], registered' \in SUBSET Applications,
         CodesGrow', CompanyFits(d)'
  PROVE  CompanyInv' /\ companyCall'[one] = d
<1>1. companyCall'[one] = d /\ companyCall' \in [{one} -> {Interrupted!Idle} \union CompanyCalls]
  BY DEF CompanyTypes
<1> QED
  BY <1>1 DEF CompanyInv, CompanyTypes

\* A call that goes on while all else stays, or proofs expire.
LEMMA CompanyPasses ==
  ASSUME CompanyInv, NEW d, d \in CompanyCalls \/ d = Interrupted!Idle,
         companyCall' = [companyCall EXCEPT ![one] = d],
         UNCHANGED <<companyRow, options, codes, shown, challenge, registered>>, CompanyFits(d)
  PROVE  /\ CompanyInv'
         /\ KeepsChallenges(d) => KeepsChallenges(companyCall[one])'
<1>1. CompanyFits(d)' /\ CodesGrow'
  BY DEF CompanyFits, CodesGrow, CompanyInv
<1>2. CompanyInv' /\ companyCall'[one] = d
  BY <1>1, CompanyGoes DEF CompanyInv, CompanyTypes
<1>3. KeepsChallenges(d) => KeepsChallenges(d)'
  BY DEF KeepsChallenges
<1> QED
  BY <1>2, <1>3

\* An administrator starts to change the settings, the code or the company.
LEMMA CompanyEdits ==
  ASSUME CompanyInv,
         \/ \E mode \in Interrupted!Modes, wanted \in SUBSET Options :
              Interrupted!UpdateSettings(one, mode, wanted)
         \/ Interrupted!RotateCode(one)
         \/ \E active \in BOOLEAN : Interrupted!UpdateCompany(one, active)
  PROVE  CompanyInv' /\ (KeepsChallenges(companyCall[one]) => KeepsChallenges(companyCall[one])')
<1>1. PICK c : c = companyCall[one]
  OBVIOUS
<1>2. CompanyTypes /\ CodesGrow /\ CompanyFits(c)
  BY <1>1 DEF CompanyInv
<1>3. PICK r : r = companyRow[Company]
  OBVIOUS
<1>4. /\ r \in CompanyRecords /\ r.mode \in Interrupted!Modes /\ r.code \in 0..MaxCodes /\ r.active \in BOOLEAN
      /\ r = [mode |-> r.mode, code |-> r.code, active |-> r.active]
  BY <1>2, <1>3 DEF CompanyTypes, CompanyRecords, Interrupted!CompanyRecords
<1>5. ASSUME NEW e \in CompanyRecords, NEW then \in {"idle", "delete", "show"}, NEW h \in Replacements \union {Null}
      PROVE  \E d \in CompanyCalls :
               /\ d = [Interrupted!Saving(Interrupted!NewCall, Interrupted!Company, e, then) EXCEPT !.holds = h]
               /\ d.at = "compare" /\ d.entity = e /\ d.then = then /\ d.holds = h
  <2>1. PICK d : d = [Interrupted!Saving(Interrupted!NewCall, Interrupted!Company, e, then) EXCEPT !.holds = h]
    OBVIOUS
  <2>2. d = [at |-> "compare", id |-> Company, entity |-> e, columns |-> {}, then |-> then, holds |-> h]
    BY <2>1 DEF Interrupted!Saving, Interrupted!NewCall, Company
  <2>3. d \in SettingCalls /\ d.at = "compare" /\ d.entity = e /\ d.then = then /\ d.holds = h
    BY <2>2 DEF SettingCalls
  <2> QED
    BY <2>1, <2>3 DEF CompanyCalls
<1>6. ASSUME NEW mode \in Interrupted!Modes, NEW wanted \in SUBSET Options, Interrupted!UpdateSettings(one, mode, wanted)
      PROVE  CompanyInv' /\ (KeepsChallenges(c) => KeepsChallenges(companyCall[one])')
  <2>1. PICK h, e : h = [wanted |-> wanted, old |-> {}] /\ e = [r EXCEPT !.mode = mode]
    OBVIOUS
  <2>2. h \in Replacements /\ h.wanted = wanted /\ e \in CompanyRecords /\ e.code = r.code /\ e.mode = mode
    BY <1>4, <2>1 DEF Replacements, CompanyRecords, Interrupted!CompanyRecords
  <2>3. PICK d \in CompanyCalls :
          /\ d = [Interrupted!Saving(Interrupted!NewCall, Interrupted!Company, e, "delete") EXCEPT !.holds = h]
          /\ d.at = "compare" /\ d.entity = e /\ d.then = "delete" /\ d.holds = h
    BY <1>5, <2>2
  <2>4. /\ c.at = "idle" /\ (mode = "AUTO_APPROVED" => wanted # {})
        /\ companyCall' = [companyCall EXCEPT ![one] = d]
        /\ UNCHANGED <<companyRow, options, codes, shown, challenge, registered>>
    BY <1>1, <1>2, <1>3, <1>6, <2>1, <2>3, CompanyCall DEF Interrupted!UpdateSettings, Interrupted!Edits,
       Interrupted!settings, Interrupted!applications, Company
  <2>5. CompanyFits(d)
    BY <1>2, <1>3, <1>4, <2>2, <2>3 DEF CompanyFits, CodesGrow, CompanyTypes
  <2>6. KeepsChallenges(c) => KeepsChallenges(d)
    BY <2>2, <2>3, <2>4 DEF KeepsChallenges
  <2> QED
    BY <1>1, <2>3, <2>4, <2>5, <2>6, CompanyPasses
<1>7. CASE Interrupted!RotateCode(one)
  <2>1. codes \in 0..MaxCodes /\ codes < MaxCodes /\ codes' = codes + 1 /\ MaxCodes \in Nat
    BY <1>2, <1>7, CompaniesAssumption DEF CompanyTypes, Interrupted!RotateCode, Interrupted!RegistrationAssumption
  <2>2. PICK e : e = [r EXCEPT !.code = codes + 1]
    OBVIOUS
  <2>3. e \in CompanyRecords /\ e.code = codes + 1 /\ e.mode = r.mode
    BY <1>4, <2>1, <2>2 DEF CompanyRecords, Interrupted!CompanyRecords
  <2>4. PICK d \in CompanyCalls :
          /\ d = [Interrupted!Saving(Interrupted!NewCall, Interrupted!Company, e, "show") EXCEPT !.holds = Null]
          /\ d.at = "compare" /\ d.entity = e /\ d.then = "show" /\ d.holds = Null
    BY <1>5, <2>3
  <2>5. /\ c.at = "idle" /\ companyCall' = [companyCall EXCEPT ![one] = d]
        /\ UNCHANGED <<companyRow, options, shown, challenge, registered>>
    BY <1>1, <1>2, <1>3, <1>7, <2>2, <2>4, CompanyCall DEF Interrupted!RotateCode, Interrupted!Edits,
       Interrupted!applications, Company
  <2>6. CompanyFits(d)' /\ CodesGrow'
    BY <1>2, <1>3, <1>4, <2>1, <2>3, <2>4, <2>5 DEF CompanyFits, CodesGrow
  <2>7. CompanyInv' /\ companyCall'[one] = d
    <3>1. codes' \in 0..MaxCodes
      BY <2>1
    <3> QED
      BY <1>2, <2>4, <2>5, <2>6, <3>1, CompanyGoes DEF CompanyTypes
  <2>8. KeepsChallenges(c) => KeepsChallenges(d)'
    BY <1>3, <2>3, <2>4, <2>5 DEF KeepsChallenges
  <2> QED
    BY <1>1, <2>7, <2>8
<1>8. ASSUME NEW active \in BOOLEAN, Interrupted!UpdateCompany(one, active)
      PROVE  CompanyInv' /\ (KeepsChallenges(c) => KeepsChallenges(companyCall[one])')
  <2>1. PICK e : e = [r EXCEPT !.active = active]
    OBVIOUS
  <2>2. e \in CompanyRecords /\ e.code = r.code /\ e.mode = r.mode
    BY <1>4, <2>1 DEF CompanyRecords, Interrupted!CompanyRecords
  <2>3. PICK d \in CompanyCalls :
          /\ d = [Interrupted!Saving(Interrupted!NewCall, Interrupted!Company, e, "idle") EXCEPT !.holds = Null]
          /\ d.at = "compare" /\ d.entity = e /\ d.then = "idle" /\ d.holds = Null
    BY <1>5, <2>2
  <2>4. /\ c.at = "idle" /\ companyCall' = [companyCall EXCEPT ![one] = d]
        /\ UNCHANGED <<companyRow, options, codes, shown, challenge, registered>>
    BY <1>1, <1>2, <1>3, <1>8, <2>1, <2>3, CompanyCall DEF Interrupted!UpdateCompany, Interrupted!Edits,
       Interrupted!settings, Interrupted!applications, Company
  <2>5. CompanyFits(d)
    BY <1>2, <1>3, <1>4, <2>2, <2>3 DEF CompanyFits, CodesGrow, CompanyTypes
  <2>6. KeepsChallenges(c) => KeepsChallenges(d)
    BY <1>3, <2>2, <2>3, <2>4 DEF KeepsChallenges
  <2> QED
    BY <1>1, <2>3, <2>4, <2>5, <2>6, CompanyPasses
<1> QED
  BY <1>1, <1>6, <1>7, <1>8

\* The row of the company is saved: it is then what the call wanted it to be.
LEMMA CompanySaves ==
  ASSUME CompanyInv, Interrupted!SaveCompany(one)
  PROVE  CompanyInv' /\ (KeepsChallenges(companyCall[one]) => KeepsChallenges(companyCall[one])')
<1>1. PICK c : c = companyCall[one]
  OBVIOUS
<1>2. CompanyTypes /\ CodesGrow /\ CompanyFits(c)
  BY <1>1 DEF CompanyInv
<1>3. c.at \in {"compare", "update"} /\ c \in SettingCalls /\ UNCHANGED <<options, codes, shown, challenge, registered>>
  BY <1>1, <1>2, CompanyCall DEF Interrupted!SaveCompany, Interrupted!CompareSave, Interrupted!UpdateSave,
     Interrupted!settings, Interrupted!applications
<1>4. PICK r, e : r = companyRow[Company] /\ e = c.entity
  OBVIOUS
<1>5. r \in CompanyRecords /\ e \in CompanyRecords /\ r # Null /\ c.id = Company
  BY <1>2, <1>3, <1>4, CompanyCall DEF SettingCalls
<1>6. DOMAIN r = {"mode", "code", "active"} /\ DOMAIN e = {"mode", "code", "active"}
      /\ e = [k \in {"mode", "code", "active"} |-> e[k]]
  BY <1>5 DEF CompanyRecords, Interrupted!CompanyRecords
<1>7. CASE Interrupted!CompareSave(one)
  <2>1. c.at = "compare" /\ UNCHANGED companyRow
    BY <1>1, <1>7 DEF Interrupted!CompareSave
  <2>2. PICK d : d = [c EXCEPT !.at = "update", !.columns = Interrupted!Differing(e, r)]
    OBVIOUS
  <2>3. Interrupted!Differing(e, r) \in SUBSET {"mode", "code", "active"}
    BY <1>6 DEF Interrupted!Differing
  <2>4. d \in SettingCalls /\ d.at = "update" /\ d.entity = e /\ d.then = c.then /\ d.holds = c.holds
        /\ d.columns = Interrupted!Differing(e, r)
    BY <1>3, <1>4, <2>2, <2>3 DEF SettingCalls
  <2>5. companyCall' = [companyCall EXCEPT ![one].at = "update", ![one].columns = Interrupted!Differing(e, r)]
    BY <1>1, <1>4, <1>5, <1>7 DEF Interrupted!CompareSave
  <2>6. companyCall' = [companyCall EXCEPT ![one] = d]
    BY <1>1, <1>2, <2>2, <2>5 DEF CompanyTypes
  <2>7. CompanyFits(d)
    BY <1>2, <1>4, <2>1, <2>4 DEF CompanyFits
  <2>8. KeepsChallenges(c) => KeepsChallenges(d)
    BY <1>4, <2>1, <2>4 DEF KeepsChallenges
  <2> QED
    BY <1>1, <1>3, <2>1, <2>4, <2>6, <2>7, <2>8, CompanyPasses DEF CompanyCalls
<1>8. CASE Interrupted!UpdateSave(one, TRUE)
  <2>1. c.at = "update" /\ c.columns = Interrupted!Differing(e, r)
    BY <1>1, <1>2, <1>4, <1>8 DEF Interrupted!UpdateSave, CompanyFits
  <2>2. PICK d : d = IF c.then = "idle" THEN Interrupted!Idle ELSE [[c EXCEPT !.columns = {}] EXCEPT !.at = c.then]
    OBVIOUS
  <2>3. /\ d \in SettingCalls \/ d = Interrupted!Idle
        /\ d.at = c.then /\ c.then \in {"idle", "delete", "show"}
        /\ c.then # "idle" => d.entity = e /\ d.holds = c.holds
    BY <1>3, <1>4, <2>2 DEF SettingCalls, Interrupted!Idle
  <2>4. companyCall' = [companyCall EXCEPT ![one] = d] /\ companyRow' = [companyRow EXCEPT ![Company] = Interrupted!Written(one)]
    BY <1>1, <1>5, <1>8, <2>2 DEF Interrupted!UpdateSave, Interrupted!GoesTo
  <2>5. Interrupted!Written(one) = e
    <3>1. Interrupted!Written(one) = [k \in DOMAIN r |-> IF k \in c.columns THEN e[k] ELSE r[k]]
      BY <1>1, <1>4, <1>5 DEF Interrupted!Written, Interrupted!Updated
    <3>2. \A k \in {"mode", "code", "active"} : (IF k \in c.columns THEN e[k] ELSE r[k]) = e[k]
      BY <1>6, <2>1 DEF Interrupted!Differing
    <3>3. Interrupted!Written(one) = [k \in {"mode", "code", "active"} |-> e[k]]
      BY <1>6, <3>1, <3>2
    <3> QED
      BY <1>6, <3>3
  <2>6. companyRow' \in [{Company} -> CompanyRecords] /\ companyRow'[Company] = e
    BY <1>2, <1>5, <2>4, <2>5 DEF CompanyTypes
  <2>7. e.code \in Nat /\ r.code \in Nat /\ shown \in Nat /\ codes \in Nat
    BY <1>2, <1>5, CompaniesAssumption DEF CompanyRecords, Interrupted!CompanyRecords, CompanyTypes,
       Interrupted!RegistrationAssumption
  <2>8. CodesGrow'
    BY <1>2, <1>3, <1>4, <2>1, <2>6, <2>7 DEF CodesGrow, CompanyFits
  <2>9. CompanyFits(d)'
    BY <1>2, <1>3, <2>1, <2>3, <2>6 DEF CompanyFits
  <2>10. CompanyInv' /\ companyCall'[one] = d
    BY <1>2, <1>3, <2>3, <2>4, <2>6, <2>8, <2>9, CompanyGoes DEF CompanyTypes, CompanyCalls
  <2>11. KeepsChallenges(c) => KeepsChallenges(d)'
    BY <1>3, <1>4, <2>1, <2>3, <2>6 DEF KeepsChallenges
  <2> QED
    BY <1>1, <2>10, <2>11
<1> QED
  BY <1>7, <1>8 DEF Interrupted!SaveCompany

\* The options are replaced, or the new code is shown.
LEMMA OptionsAreReplaced ==
  ASSUME CompanyInv,
         \/ Interrupted!DeleteOptions(one) \/ Interrupted!ReplaceOptions(one)
         \/ Interrupted!OptionsRefused(one) \/ Interrupted!ShowCode(one)
  PROVE  CompanyInv' /\ (KeepsChallenges(companyCall[one]) => KeepsChallenges(companyCall[one])')
<1>1. PICK c : c = companyCall[one]
  OBVIOUS
<1>2. CompanyTypes /\ CodesGrow /\ CompanyFits(c)
  BY <1>1 DEF CompanyInv
<1>3. c.at \in {"delete", "replace", "show"} /\ c \in SettingCalls
      /\ UNCHANGED <<companyRow, codes, challenge, registered>>
  BY <1>1, <1>2, CompanyCall DEF Interrupted!DeleteOptions, Interrupted!ReplaceOptions, Interrupted!OptionsRefused,
     Interrupted!ShowCode, Interrupted!Fails,
     Interrupted!settings, Interrupted!applications
<1>4. Interrupted!Idle.at = "idle" /\ CompanyFits(Interrupted!Idle) /\ CompanyFits(Interrupted!Idle)'
  BY DEF CompanyFits, Interrupted!Idle
<1>5. CASE Interrupted!DeleteOptions(one)
  <2>1. c.at = "delete" /\ UNCHANGED <<options, shown>>
    BY <1>1, <1>5 DEF Interrupted!DeleteOptions, Interrupted!settings
  <2>2. c.holds \in Replacements /\ options \in SUBSET Options
    BY <1>2, <2>1 DEF CompanyFits, CompanyTypes
  <2>3. PICK h : h = [c.holds EXCEPT !.old = options]
    OBVIOUS
  <2>4. h \in Replacements /\ h.old = options /\ h.wanted = c.holds.wanted
    BY <2>2, <2>3 DEF Replacements
  <2>5. PICK d : d = [c EXCEPT !.at = "replace", !.holds = h]
    OBVIOUS
  <2>6. d \in SettingCalls /\ d.at = "replace" /\ d.holds = h
    BY <1>3, <2>4, <2>5 DEF SettingCalls
  <2>7. companyCall' = [companyCall EXCEPT ![one].at = "replace", ![one].holds.old = options]
    BY <1>5 DEF Interrupted!DeleteOptions
  <2>8. companyCall' = [companyCall EXCEPT ![one] = d]
    <3>1. d = [[c EXCEPT !.at = "replace"] EXCEPT !.holds = [c.holds EXCEPT !.old = options]]
      BY <2>3, <2>5
    <3>2. [c EXCEPT !.at = "replace"].holds = c.holds
      BY <1>3 DEF SettingCalls
    <3> QED
      BY <1>1, <1>2, <2>7, <3>1, <3>2 DEF CompanyTypes
  <2>9. CompanyFits(d)
    BY <2>4, <2>6 DEF CompanyFits
  <2>10. KeepsChallenges(c) => KeepsChallenges(d)
    BY <2>1, <2>4, <2>6 DEF KeepsChallenges
  <2> QED
    BY <1>1, <1>3, <2>1, <2>6, <2>8, <2>9, <2>10, CompanyPasses DEF CompanyCalls
<1>6. CASE Interrupted!ReplaceOptions(one)
  <2>1. c.at = "replace" /\ UNCHANGED shown /\ c.holds \in Replacements
    BY <1>1, <1>2, <1>6 DEF Interrupted!ReplaceOptions, CompanyFits
  <2>2. PICK left : left = options \ c.holds.old
    OBVIOUS
  <2>3. CASE left \intersect c.holds.wanted # {}
    <3>1. companyCall' = [companyCall EXCEPT ![one] = Interrupted!Idle] /\ UNCHANGED options
      BY <1>1, <1>6, <2>2, <2>3 DEF Interrupted!ReplaceOptions, Interrupted!Fails
    <3>2. KeepsChallenges(c) => KeepsChallenges(Interrupted!Idle)
      BY <1>4, <2>1 DEF KeepsChallenges
    <3> QED
      BY <1>1, <1>3, <1>4, <2>1, <3>1, <3>2, CompanyPasses
  <2>4. CASE left \intersect c.holds.wanted = {}
    <3>1. options' = left \union c.holds.wanted
      BY <1>1, <1>6, <2>2, <2>4 DEF Interrupted!ReplaceOptions
    <3>2. companyCall' = [companyCall EXCEPT ![one] = Interrupted!Idle]
      <4>1. companyCall' = [q \in {one} |-> IF q = one THEN Interrupted!Idle
              ELSE IF companyCall[q].at = "replace"
                   THEN [companyCall[q] EXCEPT !.holds.old = companyCall[q].holds.old \ companyCall[one].holds.wanted]
              ELSE companyCall[q]]
        BY <1>1, <1>6, <2>2, <2>4 DEF Interrupted!ReplaceOptions
      <4>2. companyCall' = [q \in {one} |-> Interrupted!Idle]
        BY <4>1
      <4> QED
        BY <1>2, <4>2 DEF CompanyTypes
    <3>3. options' \in SUBSET Options
      BY <1>2, <2>1, <2>2, <3>1 DEF CompanyTypes, Replacements
    <3>4. CodesGrow'
      BY <1>2, <1>3, <2>1 DEF CodesGrow
    <3>5. CompanyInv' /\ companyCall'[one] = Interrupted!Idle
      BY <1>2, <1>3, <1>4, <2>1, <3>2, <3>3, <3>4, CompanyGoes DEF CompanyTypes
    <3>6. KeepsChallenges(c) => KeepsChallenges(Interrupted!Idle)'
      BY <1>3, <1>4, <2>1, <3>1 DEF KeepsChallenges
    <3> QED
      BY <1>1, <3>5, <3>6
  <2> QED
    BY <2>3, <2>4
<1>7. CASE Interrupted!ShowCode(one)
  <2>1. c.at = "show" /\ shown' = c.entity.code /\ UNCHANGED options
        /\ companyCall' = [companyCall EXCEPT ![one] = Interrupted!Idle]
    BY <1>1, <1>7 DEF Interrupted!ShowCode, Interrupted!GoesTo
  <2>2. shown' = companyRow[Company].code /\ companyRow[Company].code \in 0..MaxCodes
    BY <1>2, <2>1, CompanyCall DEF CompanyFits, CompanyRecords, Interrupted!CompanyRecords
  <2>3. CodesGrow'
    BY <1>2, <1>3, <2>2, CompaniesAssumption DEF CodesGrow, Interrupted!RegistrationAssumption
  <2>4. CompanyInv' /\ companyCall'[one] = Interrupted!Idle
    BY <1>2, <1>3, <1>4, <2>1, <2>2, <2>3, CompanyGoes DEF CompanyTypes
  <2>5. KeepsChallenges(c) => KeepsChallenges(Interrupted!Idle)'
    BY <1>3, <1>4, <2>1 DEF KeepsChallenges
  <2> QED
    BY <1>1, <2>4, <2>5
<1>8. CASE Interrupted!OptionsRefused(one)
  <2>1. c.at = "replace" /\ UNCHANGED <<options, shown>>
        /\ companyCall' = [companyCall EXCEPT ![one] = Interrupted!Idle]
    BY <1>1, <1>8 DEF Interrupted!OptionsRefused, Interrupted!Fails, Interrupted!settings
  <2>2. KeepsChallenges(c) => KeepsChallenges(Interrupted!Idle)
    BY <1>4, <2>1 DEF KeepsChallenges
  <2> QED
    BY <1>1, <1>3, <1>4, <2>1, <2>2, CompanyPasses
<1> QED
  BY <1>1, <1>5, <1>6, <1>7, <1>8

\* An option is withdrawn beside the calls.
LEMMA OptionIsWithdrawn ==
  ASSUME CompanyInv, NEW o \in Options, Interrupted!WithdrawOption(one, o)
  PROVE  CompanyInv' /\ (KeepsChallenges(companyCall[one]) => KeepsChallenges(companyCall[one])')
<1>1. /\ UNCHANGED <<companyRow, companyCall, codes, shown, challenge, registered>>
      /\ options' = options \ {o} /\ companyCall[one] = Interrupted!Idle
  BY DEF Interrupted!WithdrawOption, Interrupted!saveVars, Interrupted!applications
<1>2. companyCall[one].at = "idle"
  BY <1>1 DEF Interrupted!Idle
<1>3. CompanyFits(companyCall[one])' /\ CodesGrow' /\ options' \in SUBSET Options
  BY <1>1, <1>2 DEF CompanyFits, CodesGrow, CompanyInv, CompanyTypes
<1>4. CompanyInv'
  BY <1>1, <1>3 DEF CompanyInv, CompanyTypes
<1>5. KeepsChallenges(companyCall[one]) => KeepsChallenges(companyCall[one])'
  BY <1>1 DEF KeepsChallenges
<1> QED
  BY <1>4, <1>5

\* Somebody registers: nothing of the settings changes meanwhile.
LEMMA CompanyApplies ==
  ASSUME CompanyInv,
         \/ \E x \in Challenges, ph \in Phones, o \in Options : Interrupted!Register(one, x, ph, o)
         \/ Interrupted!ReadProof(one) \/ Interrupted!SpendProof(one) \/ Interrupted!FileEmployee(one)
         \/ Interrupted!FileRefused(one) \/ Interrupted!ConsumeChallenge(one)
  PROVE  CompanyInv' /\ (KeepsChallenges(companyCall[one]) => KeepsChallenges(companyCall[one])')
<1>1. PICK c : c = companyCall[one]
  OBVIOUS
<1>2. CompanyTypes /\ CodesGrow /\ CompanyFits(c)
  BY <1>1 DEF CompanyInv
<1>3. Interrupted!Idle.at = "idle" /\ CompanyFits(Interrupted!Idle) /\ CompanyFits(Interrupted!Idle)'
  BY DEF CompanyFits, Interrupted!Idle
<1>4. ASSUME NEW x \in Challenges, NEW ph \in Phones, NEW o \in Options, Interrupted!Register(one, x, ph, o)
      PROVE  CompanyInv' /\ (KeepsChallenges(c) => KeepsChallenges(companyCall[one])')
  <2>1. PICK e : e = [challenge |-> x, phone |-> ph, option |-> o]
    OBVIOUS
  <2>2. e \in Applications /\ e.challenge = x /\ e.option = o
    BY <2>1 DEF Applications
  <2>3. PICK d : d = [Interrupted!NewCall EXCEPT !.at = "prove", !.entity = e]
    OBVIOUS
  <2>4. d = [at |-> "prove", id |-> Null, entity |-> e, columns |-> {}, then |-> "idle", holds |-> Null]
    BY <2>3 DEF Interrupted!NewCall
  <2>5. d \in ApplicationCalls /\ d.at = "prove" /\ d.entity = e
    BY <2>2, <2>4 DEF ApplicationCalls
  <2>6. /\ c.at = "idle" /\ challenge[x] = "open" /\ Interrupted!Admits(companyRow[Company]) /\ o \in options
        /\ companyCall' = [companyCall EXCEPT ![one] = d]
        /\ UNCHANGED <<companyRow, options, codes, shown, challenge, registered>>
    BY <1>1, <1>2, <1>4, <2>1, <2>3, CompanyCall DEF Interrupted!Register, Interrupted!settings, Interrupted!applications,
       Company
  <2>7. CompanyFits(d)
    BY <2>2, <2>5, <2>6 DEF CompanyFits
  <2>8. KeepsChallenges(c) => KeepsChallenges(d)
    BY <2>2, <2>5, <2>6 DEF KeepsChallenges
  <2> QED
    BY <1>1, <2>5, <2>6, <2>7, <2>8, CompanyPasses DEF CompanyCalls
<1>5. CASE Interrupted!ReadProof(one) \/ Interrupted!SpendProof(one)
  <2>1. PICK at : /\ at \in {"spend", "file", "idle"} /\ c.at \in {"prove", "spend"}
                  /\ Interrupted!GoesTo(one, c, at)
    BY <1>1, <1>5 DEF Interrupted!ReadProof, Interrupted!SpendProof
  <2>2. UNCHANGED <<companyRow, options, codes, shown, challenge, registered>>
    BY <1>5 DEF Interrupted!ReadProof, Interrupted!SpendProof, Interrupted!settings, Interrupted!applications
  <2>3. PICK d : d = IF at = "idle" THEN Interrupted!Idle ELSE [c EXCEPT !.at = at]
    OBVIOUS
  <2>4. c \in ApplicationCalls
    BY <1>1, <1>2, <2>1, CompanyCall
  <2>5. d \in ApplicationCalls \/ d = Interrupted!Idle
    BY <2>1, <2>3, <2>4 DEF ApplicationCalls
  <2>6. d.at = at /\ (at # "idle" => d.entity = c.entity)
    BY <1>3, <2>3, <2>4 DEF ApplicationCalls
  <2>7. companyCall' = [companyCall EXCEPT ![one] = d]
    BY <2>1, <2>3 DEF Interrupted!GoesTo
  <2>8. CompanyFits(d)
    BY <1>2, <2>1, <2>6 DEF CompanyFits
  <2>9. KeepsChallenges(c) => KeepsChallenges(d)
    BY <2>1, <2>6 DEF KeepsChallenges
  <2> QED
    BY <1>1, <2>2, <2>5, <2>7, <2>8, <2>9, CompanyPasses DEF CompanyCalls
<1>6. CASE Interrupted!FileEmployee(one)
  <2>1. c.at = "file" /\ c \in ApplicationCalls /\ UNCHANGED <<companyRow, options, codes, shown, challenge>>
    BY <1>1, <1>2, <1>6, CompanyCall DEF Interrupted!FileEmployee, Interrupted!settings
  <2>2. PICK d : d = [c EXCEPT !.at = "consume"]
    OBVIOUS
  <2>3. d \in ApplicationCalls /\ d.at = "consume" /\ d.entity = c.entity /\ c.entity \in Applications
    BY <2>1, <2>2 DEF ApplicationCalls
  <2>4. companyCall' = [companyCall EXCEPT ![one] = d] /\ registered' = registered \union {c.entity}
    BY <1>1, <1>6, <2>2 DEF Interrupted!FileEmployee, Interrupted!GoesTo
  <2>5. CompanyFits(d)' /\ CodesGrow' /\ registered' \in SUBSET Applications
    BY <1>2, <2>1, <2>3, <2>4 DEF CompanyFits, CodesGrow, CompanyTypes
  <2>6. CompanyInv' /\ companyCall'[one] = d
    BY <1>2, <2>1, <2>3, <2>4, <2>5, CompanyGoes DEF CompanyTypes, CompanyCalls
  <2>7. KeepsChallenges(c) => KeepsChallenges(d)'
    BY <2>1, <2>3, <2>4 DEF KeepsChallenges
  <2> QED
    BY <1>1, <2>6, <2>7
<1>7. CASE Interrupted!ConsumeChallenge(one)
  <2>1. c.at = "consume" /\ c \in ApplicationCalls /\ UNCHANGED <<companyRow, options, codes, shown, registered>>
        /\ challenge' = [challenge EXCEPT ![c.entity.challenge] = "over"]
        /\ companyCall' = [companyCall EXCEPT ![one] = Interrupted!Idle]
    BY <1>1, <1>2, <1>7, CompanyCall DEF Interrupted!ConsumeChallenge, Interrupted!GoesTo, Interrupted!settings
  <2>2. c.entity.challenge \in Challenges
    BY <2>1 DEF ApplicationCalls, Applications
  <2>3. challenge' \in [Challenges -> {Null, "open", "over"}] /\ CodesGrow'
    BY <1>2, <2>1 DEF CompanyTypes, CodesGrow
  <2>4. CompanyInv' /\ companyCall'[one] = Interrupted!Idle
    BY <1>2, <1>3, <2>1, <2>3, CompanyGoes DEF CompanyTypes
  <2>5. KeepsChallenges(c) => KeepsChallenges(Interrupted!Idle)'
    <3>1. \A r \in registered : r.challenge \in Challenges
      BY <1>2 DEF CompanyTypes, Applications
    <3> QED
      BY <1>2, <1>3, <2>1, <2>2, <3>1 DEF KeepsChallenges, CompanyTypes
  <2> QED
    BY <1>1, <2>4, <2>5
<1>8. CASE Interrupted!FileRefused(one)
  <2>1. c.at = "file" /\ companyCall' = [companyCall EXCEPT ![one] = Interrupted!Idle]
        /\ UNCHANGED <<companyRow, options, codes, shown, challenge, registered>>
    BY <1>1, <1>8 DEF Interrupted!FileRefused, Interrupted!Fails, Interrupted!settings, Interrupted!applications
  <2>2. KeepsChallenges(c) => KeepsChallenges(Interrupted!Idle)
    BY <1>3, <2>1 DEF KeepsChallenges
  <2> QED
    BY <1>1, <1>3, <2>1, <2>2, CompanyPasses
<1> QED
  BY <1>1, <1>4, <1>5, <1>6, <1>7, <1>8

\* Challenges are given and expire beside the call.
LEMMA CompanyChallenges ==
  ASSUME CompanyInv,
         \/ \E x \in Challenges : \/ Interrupted!Resolve(x) \/ Interrupted!ExpireChallenge(x)
                                   \/ \E ph \in Phones : Interrupted!VerifyPhone(x, ph)
         \/ \E t \in proofs : Interrupted!ExpireProof(t)
  PROVE  CompanyInv' /\ (KeepsChallenges(companyCall[one]) => KeepsChallenges(companyCall[one])')
<1>1. PICK c : c = companyCall[one]
  OBVIOUS
<1>2. CompanyTypes /\ CodesGrow /\ CompanyFits(c)
  BY <1>1 DEF CompanyInv
<1>3. UNCHANGED <<companyRow, companyCall, options, codes, shown, registered>>
  BY DEF Interrupted!Resolve, Interrupted!ExpireChallenge, Interrupted!VerifyPhone, Interrupted!ExpireProof,
     Interrupted!saveVars, Interrupted!settings
<1>4. \/ UNCHANGED challenge
      \/ \E x \in Challenges : challenge[x] # "over" /\ \E s \in {"open", "over"} : challenge' = [challenge EXCEPT ![x] = s]
  BY CompaniesAssumption DEF Interrupted!Resolve, Interrupted!ExpireChallenge, Interrupted!VerifyPhone, Interrupted!ExpireProof,
     Interrupted!RegistrationAssumption
<1>5. challenge' \in [Challenges -> {Null, "open", "over"}] /\ \A x \in Challenges : challenge[x] = "over" => challenge'[x] = "over"
  BY <1>2, <1>4 DEF CompanyTypes
<1>6. CompanyFits(c)' /\ CodesGrow'
  BY <1>2, <1>3 DEF CompanyFits, CodesGrow
<1>7. CompanyInv'
  BY <1>1, <1>2, <1>3, <1>5, <1>6 DEF CompanyInv, CompanyTypes
<1>8. KeepsChallenges(c) => KeepsChallenges(c)'
  BY <1>2, <1>3, <1>5 DEF KeepsChallenges, CompanyTypes, Applications
<1> QED
  BY <1>1, <1>3, <1>7, <1>8

LEMMA CompanyStops == CompanyInv /\ Interrupted!RegistrationCrash(one) => CompanyInv'
<1> SUFFICES ASSUME CompanyInv, Interrupted!RegistrationCrash(one) PROVE CompanyInv'
  OBVIOUS
<1>1. companyCall' = [companyCall EXCEPT ![one] = Interrupted!Idle]
      /\ UNCHANGED <<companyRow, options, codes, shown, challenge, registered>>
  BY DEF Interrupted!RegistrationCrash, Interrupted!Crash, Interrupted!Fails, Interrupted!settings, Interrupted!applications
<1>2. CompanyFits(Interrupted!Idle)
  BY DEF CompanyFits, Interrupted!Idle
<1> QED
  BY <1>1, <1>2, CompanyPasses

CompanySteps ==
  \/ \E mode \in Interrupted!Modes, wanted \in SUBSET Options : Interrupted!UpdateSettings(one, mode, wanted)
  \/ Interrupted!DeleteOptions(one) \/ Interrupted!ReplaceOptions(one) \/ Interrupted!OptionsRefused(one)
  \/ \E o \in Options : Interrupted!WithdrawOption(one, o)
  \/ Interrupted!RotateCode(one) \/ Interrupted!ShowCode(one)
  \/ \E active \in BOOLEAN : Interrupted!UpdateCompany(one, active)
  \/ Interrupted!SaveCompany(one)
  \/ \E x \in Challenges, ph \in Phones, o \in Options : Interrupted!Register(one, x, ph, o)
  \/ Interrupted!ReadProof(one) \/ Interrupted!SpendProof(one) \/ Interrupted!FileEmployee(one)
  \/ Interrupted!FileRefused(one) \/ Interrupted!ConsumeChallenge(one)
  \/ \E x \in Challenges : \/ Interrupted!Resolve(x) \/ Interrupted!ExpireChallenge(x)
                           \/ \E ph \in Phones : Interrupted!VerifyPhone(x, ph)
  \/ \E t \in proofs : Interrupted!ExpireProof(t)

\* Both instances make these steps.
LEMMA RegistrationIsStep == Registrations!RegistrationNext => CompanySteps
<1>1. Registrations!saveVars = Interrupted!saveVars
  BY DEF Registrations!saveVars, Interrupted!saveVars
<1>2. Registrations!Idle = Interrupted!Idle
  BY DEF Registrations!Idle, Interrupted!Idle
<1>3. \A entity, stored : Registrations!Differing(entity, stored) = Interrupted!Differing(entity, stored)
  BY DEF Registrations!Differing, Interrupted!Differing
<1>4. \A stored, entity, columns : Registrations!Updated(stored, entity, columns) = Interrupted!Updated(stored, entity, columns)
  BY DEF Registrations!Updated, Interrupted!Updated
<1>5. \A p, c, at : Registrations!GoesTo(p, c, at) <=> Interrupted!GoesTo(p, c, at)
  BY <1>2 DEF Registrations!GoesTo, Interrupted!GoesTo
<1>6. \A p : Registrations!Fails(p) <=> Interrupted!Fails(p)
  BY <1>2 DEF Registrations!Fails, Interrupted!Fails
<1>7. \A c, id, entity, then : Registrations!Saving(c, id, entity, then) = Interrupted!Saving(c, id, entity, then)
  BY DEF Registrations!Saving, Interrupted!Saving
<1>8. Registrations!NewCall = Interrupted!NewCall
  BY DEF Registrations!NewCall, Interrupted!NewCall
<1>9. \A p : Registrations!CompareSave(p) <=> Interrupted!CompareSave(p)
  BY <1>5, <1>3 DEF Registrations!CompareSave, Interrupted!CompareSave
<1>10. \A p : Registrations!Written(p) = Interrupted!Written(p)
  BY <1>4 DEF Registrations!Written, Interrupted!Written
<1>11. \A p, accepted : Registrations!UpdateSave(p, accepted) <=> Interrupted!UpdateSave(p, accepted)
  BY <1>10, <1>5, <1>6 DEF Registrations!UpdateSave, Interrupted!UpdateSave
<1>12. Registrations!settings = Interrupted!settings
  BY DEF Registrations!settings, Interrupted!settings
<1>13. Registrations!applications = Interrupted!applications
  BY DEF Registrations!applications, Interrupted!applications
<1>14. Registrations!Company = Interrupted!Company
  BY DEF Registrations!Company, Interrupted!Company
<1>15. \A r : Registrations!Admits(r) <=> Interrupted!Admits(r)
  BY DEF Registrations!Admits, Interrupted!Admits
<1>16. \A p, entity, then, holds : Registrations!Edits(p, entity, then, holds) <=> Interrupted!Edits(p, entity, then, holds)
  BY <1>7, <1>8, <1>14 DEF Registrations!Edits, Interrupted!Edits
<1>17. \A p, mode, wanted : Registrations!UpdateSettings(p, mode, wanted) <=> Interrupted!UpdateSettings(p, mode, wanted)
  BY <1>2, <1>16, <1>14, <1>12, <1>13 DEF Registrations!UpdateSettings, Interrupted!UpdateSettings, Registrations!settings, Interrupted!settings, Registrations!applications, Interrupted!applications
<1>18. \A p : Registrations!DeleteOptions(p) <=> Interrupted!DeleteOptions(p)
  BY <1>12, <1>13 DEF Registrations!DeleteOptions, Interrupted!DeleteOptions, Registrations!settings, Interrupted!settings, Registrations!applications, Interrupted!applications
<1>19. \A p : Registrations!ReplaceOptions(p) <=> Interrupted!ReplaceOptions(p)
  BY <1>6, <1>2, <1>13 DEF Registrations!ReplaceOptions, Interrupted!ReplaceOptions, Registrations!applications, Interrupted!applications
<1>20. \A p : Registrations!OptionsRefused(p) <=> Interrupted!OptionsRefused(p)
  BY <1>6, <1>12, <1>13 DEF Registrations!OptionsRefused, Interrupted!OptionsRefused, Registrations!settings, Interrupted!settings, Registrations!applications, Interrupted!applications
<1>21. \A p, o : Registrations!WithdrawOption(p, o) <=> Interrupted!WithdrawOption(p, o)
  BY <1>1, <1>2, <1>13 DEF Registrations!WithdrawOption, Interrupted!WithdrawOption, Registrations!saveVars, Interrupted!saveVars, Registrations!applications, Interrupted!applications
<1>22. \A p : Registrations!RotateCode(p) <=> Interrupted!RotateCode(p)
  BY <1>2, <1>16, <1>14, <1>13 DEF Registrations!RotateCode, Interrupted!RotateCode, Registrations!applications, Interrupted!applications
<1>23. \A p : Registrations!ShowCode(p) <=> Interrupted!ShowCode(p)
  BY <1>5, <1>13 DEF Registrations!ShowCode, Interrupted!ShowCode, Registrations!applications, Interrupted!applications
<1>24. \A p, active : Registrations!UpdateCompany(p, active) <=> Interrupted!UpdateCompany(p, active)
  BY <1>2, <1>16, <1>14, <1>12, <1>13 DEF Registrations!UpdateCompany, Interrupted!UpdateCompany, Registrations!settings, Interrupted!settings, Registrations!applications, Interrupted!applications
<1>25. \A p : Registrations!SaveCompany(p) <=> Interrupted!SaveCompany(p)
  BY <1>9, <1>11, <1>12, <1>13 DEF Registrations!SaveCompany, Interrupted!SaveCompany, Registrations!settings, Interrupted!settings, Registrations!applications, Interrupted!applications
<1>26. \A c : Registrations!Resolve(c) <=> Interrupted!Resolve(c)
  BY <1>14, <1>15, <1>1, <1>12 DEF Registrations!Resolve, Interrupted!Resolve, Registrations!saveVars, Interrupted!saveVars, Registrations!settings, Interrupted!settings
<1>27. \A c, ph : Registrations!VerifyPhone(c, ph) <=> Interrupted!VerifyPhone(c, ph)
  BY <1>1, <1>12 DEF Registrations!VerifyPhone, Interrupted!VerifyPhone, Registrations!saveVars, Interrupted!saveVars, Registrations!settings, Interrupted!settings
<1>28. \A ph : Registrations!Taken(ph) <=> Interrupted!Taken(ph)
  BY DEF Registrations!Taken, Interrupted!Taken
<1>29. \A p, c, ph, o : Registrations!Register(p, c, ph, o) <=> Interrupted!Register(p, c, ph, o)
  BY <1>2, <1>15, <1>14, <1>8, <1>12, <1>13 DEF Registrations!Register, Interrupted!Register, Registrations!settings, Interrupted!settings, Registrations!applications, Interrupted!applications
<1>30. \A p : Registrations!ReadProof(p) <=> Interrupted!ReadProof(p)
  BY <1>5, <1>12, <1>13 DEF Registrations!ReadProof, Interrupted!ReadProof, Registrations!settings, Interrupted!settings, Registrations!applications, Interrupted!applications
<1>31. \A p : Registrations!SpendProof(p) <=> Interrupted!SpendProof(p)
  BY <1>5, <1>28, <1>12 DEF Registrations!SpendProof, Interrupted!SpendProof, Registrations!settings, Interrupted!settings
<1>32. \A p : Registrations!FileEmployee(p) <=> Interrupted!FileEmployee(p)
  BY <1>28, <1>6, <1>5, <1>12 DEF Registrations!FileEmployee, Interrupted!FileEmployee, Registrations!settings, Interrupted!settings
<1>33. \A p : Registrations!FileRefused(p) <=> Interrupted!FileRefused(p)
  BY <1>6, <1>12, <1>13 DEF Registrations!FileRefused, Interrupted!FileRefused, Registrations!settings, Interrupted!settings, Registrations!applications, Interrupted!applications
<1>34. \A p : Registrations!ConsumeChallenge(p) <=> Interrupted!ConsumeChallenge(p)
  BY <1>5, <1>12 DEF Registrations!ConsumeChallenge, Interrupted!ConsumeChallenge, Registrations!settings, Interrupted!settings
<1>35. \A c : Registrations!ExpireChallenge(c) <=> Interrupted!ExpireChallenge(c)
  BY <1>1, <1>12 DEF Registrations!ExpireChallenge, Interrupted!ExpireChallenge, Registrations!saveVars, Interrupted!saveVars, Registrations!settings, Interrupted!settings
<1>36. \A t : Registrations!ExpireProof(t) <=> Interrupted!ExpireProof(t)
  BY <1>1, <1>12 DEF Registrations!ExpireProof, Interrupted!ExpireProof, Registrations!saveVars, Interrupted!saveVars, Registrations!settings, Interrupted!settings
<1>37. Registrations!Modes = Interrupted!Modes
  BY DEF Registrations!Modes, Interrupted!Modes
<1>38. Registrations!Administration(one) => CompanySteps
  BY <1>17, <1>18, <1>19, <1>20, <1>21, <1>22, <1>23, <1>24, <1>25, <1>37 DEF Registrations!Administration, CompanySteps
<1>39. Registrations!Application(one) => CompanySteps
  BY <1>29, <1>30, <1>31, <1>32, <1>33, <1>34 DEF Registrations!Application, CompanySteps
<1>40. ASSUME NEW x \in Challenges,
              Registrations!Resolve(x) \/ Registrations!ExpireChallenge(x) \/ \E ph \in Phones : Registrations!VerifyPhone(x, ph)
       PROVE  CompanySteps
  BY <1>26, <1>27, <1>35, <1>40 DEF CompanySteps
<1>41. ASSUME NEW t \in proofs, Registrations!ExpireProof(t)
       PROVE  CompanySteps
  BY <1>36, <1>41 DEF CompanySteps
<1> QED
  BY <1>38, <1>39, <1>40, <1>41 DEF Registrations!RegistrationNext, Registrations!RegistrationCrash

LEMMA InterruptedIsStep ==
  Interrupted!RegistrationNext => CompanySteps \/ Interrupted!RegistrationCrash(one)
BY DEF Interrupted!RegistrationNext, Interrupted!Administration, Interrupted!Application, CompanySteps

LEMMA CompanyStep ==
  /\ CompanyInv /\ CompanySteps => CompanyInv' /\ (KeepsChallenges(companyCall[one]) => KeepsChallenges(companyCall[one])')
  /\ CompanyInv /\ UNCHANGED <<companyRow, companyCall, options, codes, shown, challenge, proofs, registered>> =>
       CompanyInv' /\ (KeepsChallenges(companyCall[one]) => KeepsChallenges(companyCall[one])')
<1>1. CompanyInv /\ CompanySteps => CompanyInv' /\ (KeepsChallenges(companyCall[one]) => KeepsChallenges(companyCall[one])')
  BY CompanyEdits, CompanySaves, OptionsAreReplaced, OptionIsWithdrawn, CompanyApplies, CompanyChallenges DEF CompanySteps
<1>2. CompanyInv /\ UNCHANGED <<companyRow, companyCall, options, codes, shown, challenge, proofs, registered>> =>
        CompanyInv' /\ (KeepsChallenges(companyCall[one]) => KeepsChallenges(companyCall[one])')
  BY DEF CompanyInv, CompanyTypes, CodesGrow, CompanyFits, KeepsChallenges
<1> QED
  BY <1>1, <1>2

LEMMA CompanyInit ==
  /\ Interrupted!RegistrationInit => CompanyInv
  /\ Registrations!RegistrationInit => CompanyInv /\ KeepsChallenges(companyCall[one])
<1>1. /\ Interrupted!Idle.at = "idle" /\ Registrations!Idle = Interrupted!Idle
      /\ Registrations!Company = Interrupted!Company /\ Company = Interrupted!Company
  BY DEF Interrupted!Idle, Registrations!Idle, Registrations!Company, Interrupted!Company, Company
<1>2. PICK r : r = [mode |-> "CLOSED", code |-> 0, active |-> TRUE]
  OBVIOUS
<1>3. MaxCodes \in Nat
  BY CompaniesAssumption DEF Interrupted!RegistrationAssumption
<1>4. r \in CompanyRecords /\ r.code = 0 /\ r.mode = "CLOSED"
  BY <1>2, <1>3 DEF CompanyRecords, Interrupted!CompanyRecords, Interrupted!Modes
<1>5. ASSUME companyRow = [id \in {Company} |-> r], companyCall = [p \in {one} |-> Interrupted!Idle],
             options = {}, codes = 0, shown = 0, challenge = [x \in Challenges |-> Null], registered = {}
      PROVE  CompanyInv /\ KeepsChallenges(companyCall[one])
  <2>1. companyRow[Company] = r /\ companyCall[one] = Interrupted!Idle
    BY <1>5
  <2>2. CompanyTypes /\ CodesGrow
    BY <1>3, <1>4, <1>5, <2>1 DEF CompanyTypes, CodesGrow
  <2>3. CompanyFits(companyCall[one])
    BY <1>1, <2>1 DEF CompanyFits
  <2>4. KeepsChallenges(companyCall[one])
    BY <1>1, <1>4, <1>5, <2>1 DEF KeepsChallenges
  <2> QED
    BY <2>2, <2>3, <2>4 DEF CompanyInv
<1> QED
  BY <1>1, <1>2, <1>5 DEF Interrupted!RegistrationInit, Registrations!RegistrationInit

\* No code of the company works that is older than the one that was shown last.
THEOREM ShownCodesStopOthers == Interrupted!RegistrationSpec => []Interrupted!OldCodesStop
<1>1. Interrupted!RegistrationInit => CompanyInv
  BY CompanyInit
<1>2. CompanyInv /\ [Interrupted!RegistrationNext]_(Interrupted!registrationVars) => CompanyInv'
  BY CompanyStep, CompanyStops, InterruptedIsStep DEF Interrupted!registrationVars, Interrupted!saveVars
<1>3. CompanyInv => Interrupted!OldCodesStop
  <2> SUFFICES ASSUME CompanyInv PROVE Interrupted!OldCodesStop
    OBVIOUS
  <2>1. companyRow[Company].code \in Nat /\ shown \in Nat
    BY CompaniesAssumption, CompanyCall DEF CompanyInv, CompanyTypes, CompanyRecords, Interrupted!CompanyRecords,
       Interrupted!RegistrationAssumption
  <2> QED
    BY <2>1 DEF CompanyInv, CodesGrow, Company, Interrupted!OldCodesStop
<1> QED
  BY <1>1, <1>2, <1>3, PTL DEF Interrupted!RegistrationSpec

\* No challenge registers two employees, whatever is refused or withdrawn.
THEOREM RegistrationsAreSound == Registrations!RegistrationSpec => []Registrations!OnePerChallenge
<1> DEFINE Inv == CompanyInv /\ KeepsChallenges(companyCall[one])
<1>1. Registrations!RegistrationInit => Inv
  BY CompanyInit
<1>2. Inv /\ [Registrations!RegistrationNext]_(Registrations!registrationVars) => Inv'
  BY CompanyStep, RegistrationIsStep DEF Registrations!registrationVars, Registrations!saveVars
<1>3. Inv => Registrations!OnePerChallenge
  BY DEF KeepsChallenges, Registrations!OnePerChallenge
<1> QED
  BY <1>1, <1>2, <1>3, PTL DEF Registrations!RegistrationSpec

\* Who is registered, is by a company that admits and with one of its options.
LEMMA CompanyRegisters == CompanyInv /\ Interrupted!RegistrationNext => Interrupted!RegisteredAsSet
<1> SUFFICES ASSUME CompanyInv, Interrupted!RegistrationNext, NEW r \in registered', r \notin registered
             PROVE  Interrupted!Admits(companyRow[Company]) /\ r.option \in options
  BY DEF Interrupted!RegisteredAsSet, Company
<1>1. CASE Interrupted!FileEmployee(one)
  <2>1. companyCall[one].at = "file"
        /\ registered' = registered \union {companyCall[one].entity}
    BY <1>1 DEF Interrupted!FileEmployee
  <2> QED
    BY <2>1 DEF CompanyInv, CompanyFits
<1>2. CompanySteps => UNCHANGED registered \/ Interrupted!FileEmployee(one)
  BY DEF CompanySteps, Interrupted!UpdateSettings, Interrupted!DeleteOptions, Interrupted!ReplaceOptions,
     Interrupted!OptionsRefused, Interrupted!WithdrawOption, Interrupted!FileRefused,
     Interrupted!RotateCode, Interrupted!ShowCode, Interrupted!UpdateCompany, Interrupted!SaveCompany,
     Interrupted!Register, Interrupted!ReadProof, Interrupted!SpendProof, Interrupted!ConsumeChallenge,
     Interrupted!Resolve, Interrupted!ExpireChallenge, Interrupted!VerifyPhone, Interrupted!ExpireProof,
     Interrupted!applications
<1>3. Interrupted!RegistrationCrash(one) => UNCHANGED registered
  BY DEF Interrupted!RegistrationCrash, Interrupted!applications
<1> QED
  BY <1>1, <1>2, <1>3, InterruptedIsStep

\* Nobody is registered by a company that was closed, or with an option that
\* was withdrawn, since the challenge was given, although processes stop.
THEOREM NobodyRegistersElse ==
  Interrupted!RegistrationSpec => [][Interrupted!RegisteredAsSet]_(Interrupted!registrationVars)
<1>1. Interrupted!RegistrationInit => CompanyInv
  BY CompanyInit
<1>2. CompanyInv /\ [Interrupted!RegistrationNext]_(Interrupted!registrationVars) => CompanyInv'
  BY CompanyStep, CompanyStops, InterruptedIsStep DEF Interrupted!registrationVars, Interrupted!saveVars
<1>3. CompanyInv /\ [Interrupted!RegistrationNext]_(Interrupted!registrationVars) =>
        [Interrupted!RegisteredAsSet]_(Interrupted!registrationVars)
  BY CompanyRegisters
<1> QED
  BY <1>1, <1>2, <1>3, PTL DEF Interrupted!RegistrationSpec

(***************************************************************************)
(* The services together.  Each step is of one service, and the variables  *)
(* of the others stay.                                                     *)
(***************************************************************************)

LEMMA ContractsOnlyMoveThere ==
  ASSUME [Next]_vars
  PROVE  /\ service' = service
         /\ service = "documents alone" => [Refused!DocumentNext]_(Refused!documentVars)
         /\ service = "documents and crashes alone" => [Stopped!DocumentNext]_(Stopped!documentVars)
         /\ service = "documents and faults alone" => [Unremoved!DocumentNext]_(Unremoved!documentVars)
<1>1. CASE ContractNext
  BY <1>1 DEF ContractNext
<1>2. CASE UNCHANGED <<service, contractVars>>
  BY <1>2 DEF contractVars, Refused!documentVars, Refused!saveVars, Stopped!documentVars, Stopped!saveVars,
     Unremoved!documentVars, Unremoved!saveVars
<1> QED
  BY <1>1, <1>2 DEF Next, BookNext, BillNext, LeaveNext, StaffNext, CompanyNext, RoleNext, LevelNext, vars

\* The document a contract refers to is kept when the process stops, some file
\* is kept whatever fails, and no other stays behind although saves are refused.
THEOREM DocumentsAreAlwaysKept == Spec => []DocumentsAreKept
<1> DEFINE Filed == /\ service = "documents alone" => DocumentInv /\ KeepsNoOther(contractCall[one])
                    /\ service = "documents and crashes alone" => DocumentInv /\ KeepsDocument(contractCall[one])
                    /\ service = "documents and faults alone" => DocumentInv /\ KeepsSome(contractCall[one])
<1>1. Init => Filed
  BY DocumentInit DEF Init
<1>2. Filed /\ [Next]_vars => Filed'
  <2> SUFFICES ASSUME Filed, [Next]_vars PROVE Filed'
    OBVIOUS
  <2>1. /\ Refused!documentVars = Unremoved!documentVars
        /\ Stopped!documentVars = Unremoved!documentVars
    BY DEF Refused!documentVars, Refused!saveVars, Stopped!documentVars, Stopped!saveVars,
       Unremoved!documentVars, Unremoved!saveVars
  <2>2. DocumentInv /\ KeepsNoOther(contractCall[one]) /\ [Refused!DocumentNext]_(Refused!documentVars) =>
          DocumentInv' /\ KeepsNoOther(contractCall[one])'
    BY DocumentStep, RefusedIsStep DEF Refused!documentVars, Refused!saveVars,
       Unremoved!documentVars, Unremoved!saveVars
  <2>3. DocumentInv /\ KeepsDocument(contractCall[one]) /\ [Stopped!DocumentNext]_(Stopped!documentVars) =>
          DocumentInv' /\ KeepsDocument(contractCall[one])'
    BY <2>1, DocumentStep, DocumentFaults, StoppedIsStep DEF Stopped!documentVars, Stopped!saveVars,
       Unremoved!documentVars, Unremoved!saveVars
  <2>4. DocumentInv /\ KeepsSome(contractCall[one]) /\ [Unremoved!DocumentNext]_(Unremoved!documentVars) =>
          DocumentInv' /\ KeepsSome(contractCall[one])'
    BY DocumentStep, DocumentFaults, UnremovedIsStep
  <2> QED
    BY <2>2, <2>3, <2>4, ContractsOnlyMoveThere
<1>3. Filed => DocumentsAreKept
  <2>1. KeepsDocument(contractCall[one]) => Stopped!DocumentIsKept
    BY DEF KeepsDocument, Stopped!DocumentIsKept, Url, Contract, Stopped!Contract, Unremoved!Contract,
       Stopped!Kept, Unremoved!Kept
  <2>2. KeepsSome(contractCall[one]) => Unremoved!SomeFileIsLeft
    BY DEF KeepsSome, Unremoved!SomeFileIsLeft, Url, Contract
  <2>3. Refused!Idle.at = "idle" /\ Refused!Contract = Contract /\ Refused!Kept = Unremoved!Kept
    BY DEF Refused!Idle, Refused!Contract, Unremoved!Contract, Contract, Refused!Kept, Unremoved!Kept
  <2>4. KeepsNoOther(contractCall[one]) => Refused!NothingElseIsKept
    BY <2>3 DEF KeepsNoOther, Refused!NothingElseIsKept, Url
  <2> QED
    BY <2>1, <2>2, <2>4 DEF DocumentsAreKept
<1> QED
  BY <1>1, <1>2, <1>3, PTL DEF Spec

LEMMA SettingsOnlyMoveThere ==
  ASSUME [Next]_vars
  PROVE  /\ service' = service
         /\ service = "registration and crashes alone" =>
              [Interrupted!RegistrationNext]_(Interrupted!registrationVars)
         /\ service = "registration alone" =>
              [Registrations!RegistrationNext]_(Registrations!registrationVars)
         /\ service = "roles alone" => [RoleEdits!RolesNext]_(RoleEdits!rolesVars)
         /\ service = "roles and crashes alone" => [RoleFaults!RolesNext]_(RoleFaults!rolesVars)
         /\ service = "levels alone" => [LevelEdits!SlaNext]_(LevelEdits!slaVars)
         /\ service = "levels and crashes alone" => [LevelFaults!SlaNext]_(LevelFaults!slaVars)
<1>1. /\ UNCHANGED companyVars => UNCHANGED <<Interrupted!registrationVars, Registrations!registrationVars>>
      /\ UNCHANGED roleVars => UNCHANGED <<RoleEdits!rolesVars, RoleFaults!rolesVars>>
      /\ UNCHANGED levelVars => UNCHANGED <<LevelEdits!slaVars, LevelFaults!slaVars>>
  BY DEF companyVars, roleVars, levelVars, Interrupted!registrationVars, Interrupted!saveVars,
     Registrations!registrationVars, Registrations!saveVars, RoleEdits!rolesVars, RoleEdits!saveVars,
     RoleFaults!rolesVars, RoleFaults!saveVars, LevelEdits!slaVars, LevelEdits!saveVars,
     LevelFaults!slaVars, LevelFaults!saveVars
<1>2. CASE CompanyNext
  BY <1>1, <1>2 DEF CompanyNext
<1>3. CASE RoleNext
  BY <1>1, <1>3 DEF RoleNext
<1>4. CASE LevelNext
  BY <1>1, <1>4 DEF LevelNext
<1>5. CASE UNCHANGED <<service, companyVars, roleVars, levelVars>>
  BY <1>1, <1>5
<1> QED
  BY <1>2, <1>3, <1>4, <1>5 DEF Next, BookNext, BillNext, LeaveNext, StaffNext, ContractNext, vars

\* One call at a time: a code that was shown stops the earlier ones, a challenge
\* registers one employee, a role with quotas has them enabled, and a company
\* with levels has an active one.
THEOREM SettingsAlwaysHold == Spec => []SettingsHold
<1> DEFINE Set == /\ service = "registration and crashes alone" => CompanyInv
                  /\ service = "registration alone" => CompanyInv /\ KeepsChallenges(companyCall[one])
                  /\ service = "roles alone" => RoleInv /\ KeepsEnabled(roleCall[one])
                  /\ service = "levels alone" => LevelInv /\ KeepsActive(levelCall[one])
<1>1. Init => Set
  BY CompanyInit, RoleInit, LevelInit DEF Init
<1>2. Set /\ [Next]_vars => Set'
  <2> SUFFICES ASSUME Set, [Next]_vars PROVE Set'
    OBVIOUS
  <2>1. CompanyInv /\ [Interrupted!RegistrationNext]_(Interrupted!registrationVars) => CompanyInv'
    BY CompanyStep, CompanyStops, InterruptedIsStep DEF Interrupted!registrationVars, Interrupted!saveVars
  <2>2. CompanyInv /\ KeepsChallenges(companyCall[one])
          /\ [Registrations!RegistrationNext]_(Registrations!registrationVars) =>
          CompanyInv' /\ KeepsChallenges(companyCall[one])'
    BY CompanyStep, RegistrationIsStep DEF Registrations!registrationVars, Registrations!saveVars
  <2>3. RoleInv /\ KeepsEnabled(roleCall[one]) /\ [RoleEdits!RolesNext]_(RoleEdits!rolesVars) =>
          RoleInv' /\ KeepsEnabled(roleCall[one])'
    BY RoleStep, RoleEditIsStep DEF RoleEdits!rolesVars, RoleEdits!saveVars
  <2>4. LevelInv /\ KeepsActive(levelCall[one]) /\ [LevelEdits!SlaNext]_(LevelEdits!slaVars) =>
          LevelInv' /\ KeepsActive(levelCall[one])'
    BY LevelStep, LevelEditIsStep DEF LevelEdits!slaVars, LevelEdits!saveVars
  <2> QED
    BY <2>1, <2>2, <2>3, <2>4, SettingsOnlyMoveThere
<1>3. Set => SettingsHold
  <2>1. ASSUME CompanyInv PROVE Interrupted!OldCodesStop
    <3>1. companyRow[Company].code \in Nat /\ shown \in Nat
      BY <2>1, CompaniesAssumption, CompanyCall DEF CompanyInv, CompanyTypes, CompanyRecords,
         Interrupted!CompanyRecords, Interrupted!RegistrationAssumption
    <3> QED
      BY <2>1, <3>1 DEF CompanyInv, CodesGrow, Company, Interrupted!OldCodesStop
  <2>2. RoleEdits!Idle.at = "idle" /\ LevelEdits!Idle.at = "idle"
    BY DEF RoleEdits!Idle, LevelEdits!Idle
  <2>3. KeepsChallenges(companyCall[one]) => Registrations!OnePerChallenge
    BY DEF KeepsChallenges, Registrations!OnePerChallenge
  <2>4. KeepsEnabled(roleCall[one]) => RoleEdits!QuotasAreEnabled
    BY <2>2 DEF KeepsEnabled, RoleEdits!QuotasAreEnabled, RoleEdits!AtRest, RoleEdits!Stored
  <2>5. KeepsActive(levelCall[one]) => LevelEdits!SomeLevelIsActive
    BY <2>2 DEF KeepsActive, NoLevel, SomeActive, LevelEdits!SomeLevelIsActive, LevelEdits!Stored
  <2> QED
    BY <2>1, <2>3, <2>4, <2>5 DEF SettingsHold
<1> QED
  BY <1>1, <1>2, <1>3, PTL DEF Spec
=============================================================================
