---------------------------- MODULE Registration ----------------------------
(***************************************************************************)
(* How the employees of a company register themselves: the company has a   *)
(* mode, a code and options; who knows the code gets a challenge, proves a *)
(* phone for it and registers with one of the options.  The settings are   *)
(* two saves, the row of the company and the table of its options, of      *)
(* which the database also deletes those of a deleted role, branch or      *)
(* department.  What a registration becomes is in Onboarding, the proof in *)
(* PhoneCodes.  The expiry of the code is left out; an option that is      *)
(* saved again keeps its name here, where the code gives it a new id.      *)
(***************************************************************************)
EXTENDS Saves

CONSTANTS
  Options,     \* a branch, a department and a role of the company
  Challenges, Phones,
  MaxCodes,    \* bound of the rotations
  MayCrash

Modes == {"CLOSED", "INVITE_ONLY", "APPROVAL_REQUIRED", "AUTO_APPROVED"}
CompanyRecords == [mode : Modes, code : 0..MaxCodes, active : BOOLEAN]

\* The row of the company does not look like a missing one, nor a challenge.
RegistrationAssumption ==
  /\ MaxCodes \in Nat /\ MayCrash \in BOOLEAN
  /\ Null \notin CompanyRecords \union {"open", "over"}

VARIABLES
  options,     \* the rows of company_registration_options
  codes,       \* how many codes were drawn; the code 0 is none
  shown,       \* the last code that was answered to an administrator
  challenge,   \* each challenge: Null, "open" in Redis, or "over"
  proofs,      \* the tokens of verified phones, by challenge
  registered   \* the registrations: challenge, phone and option

registrationVars == <<saveVars, options, codes, shown, challenge, proofs, registered>>
settings == <<options, codes, shown>>
applications == <<challenge, proofs, registered>>

Company == "company"
Admits(r) == r.active /\ r.mode \notin {"CLOSED", "INVITE_ONLY"}

----------------------------------------------------------------------------
Edits(p, entity, then, holds) ==
  call' = [call EXCEPT ![p] = [Saving(NewCall, Company, entity, then) EXCEPT !.holds = holds]]

UpdateSettings(p, mode, wanted) ==
  /\ call[p] = Idle
  /\ mode = "AUTO_APPROVED" => wanted # {}
  /\ Edits(p, [row[Company] EXCEPT !.mode = mode], "delete", [wanted |-> wanted, old |-> {}])
  /\ UNCHANGED <<row, settings, applications>>

\* DELETE sees the rows that are committed when it starts ...
DeleteOptions(p) ==
  /\ call[p].at = "delete"
  /\ call' = [call EXCEPT ![p].at = "replace", ![p].holds.old = options]
  /\ UNCHANGED <<row, settings, applications>>

\* ... so that the rows another call inserts meanwhile are neither deleted nor
\* allowed twice.
ReplaceOptions(p) ==
  /\ call[p].at = "replace"
  /\ LET left == options \ call[p].holds.old
         wanted == call[p].holds.wanted
     IN IF left \intersect wanted # {}
        THEN Fails(p) /\ UNCHANGED options
        ELSE /\ options' = left \union wanted
             /\ call' = [q \in Calls |->
                  IF q = p THEN Idle
                  ELSE IF call[q].at = "replace" THEN [call[q] EXCEPT !.holds.old = @ \ wanted]
                  ELSE call[q]]
             /\ UNCHANGED row
  /\ UNCHANGED <<codes, shown, applications>>

\* A role of theirs was deleted since they were validated: the foreign key
\* refuses them, and the transaction leaves the options as they were.
OptionsRefused(p) ==
  /\ call[p].at = "replace"
  /\ call[p].holds.wanted # {}
  /\ Fails(p)
  /\ UNCHANGED <<settings, applications>>

\* A role, branch or department is deleted, with the option that names it.
WithdrawOption(p, o) ==
  /\ call[p] = Idle
  /\ o \in options
  /\ options' = options \ {o}
  /\ UNCHANGED <<saveVars, codes, shown, applications>>

RotateCode(p) ==
  /\ call[p] = Idle
  /\ codes < MaxCodes
  /\ codes' = codes + 1
  /\ Edits(p, [row[Company] EXCEPT !.code = codes + 1], "show", Null)
  /\ UNCHANGED <<row, options, shown, applications>>

ShowCode(p) ==
  /\ call[p].at = "show"
  /\ shown' = call[p].entity.code
  /\ GoesTo(p, call[p], "idle")
  /\ UNCHANGED <<row, options, codes, applications>>

UpdateCompany(p, active) ==
  /\ call[p] = Idle
  /\ Edits(p, [row[Company] EXCEPT !.active = active], "idle", Null)
  /\ UNCHANGED <<row, settings, applications>>

SaveCompany(p) ==
  /\ CompareSave(p) \/ UpdateSave(p, TRUE)
  /\ UNCHANGED <<settings, applications>>

----------------------------------------------------------------------------
\* Somebody who was told the code of the company enters it.
Resolve(c) ==
  /\ challenge[c] = Null
  /\ row[Company].code \in 1..shown
  /\ Admits(row[Company])
  /\ challenge' = [challenge EXCEPT ![c] = "open"]
  /\ UNCHANGED <<saveVars, settings, proofs, registered>>

VerifyPhone(c, ph) ==
  /\ challenge[c] = "open"
  /\ proofs' = proofs \union {<<c, ph>>}
  /\ UNCHANGED <<saveVars, settings, challenge, registered>>

Taken(ph) == \E r \in registered : r.phone = ph

\* Mutant of Register: the company was looked at when the challenge was given.
RegisterOnChallenge(p, c, ph, o) ==
  /\ call[p] = Idle
  /\ challenge[c] = "open"
  /\ call' = [call EXCEPT ![p] = [NewCall EXCEPT !.at = "prove",
       !.entity = [challenge |-> c, phone |-> ph, option |-> o]]]
  /\ UNCHANGED <<row, settings, applications>>

\* validateSelection
Register(p, c, ph, o) ==
  /\ call[p] = Idle
  /\ challenge[c] = "open"
  /\ Admits(row[Company])
  /\ o \in options
  /\ call' = [call EXCEPT ![p] = [NewCall EXCEPT !.at = "prove",
       !.entity = [challenge |-> c, phone |-> ph, option |-> o]]]
  /\ UNCHANGED <<row, settings, applications>>

\* consumePhoneVerification
ReadProof(p) ==
  /\ call[p].at = "prove"
  /\ GoesTo(p, call[p], IF <<call[p].entity.challenge, call[p].entity.phone>> \in proofs
                        THEN "spend" ELSE "idle")
  /\ UNCHANGED <<row, settings, applications>>

SpendProof(p) ==
  /\ call[p].at = "spend"
  /\ proofs' = proofs \ {<<call[p].entity.challenge, call[p].entity.phone>>}
  /\ GoesTo(p, call[p], IF Taken(call[p].entity.phone) THEN "idle" ELSE "file")
  /\ UNCHANGED <<row, settings, challenge, registered>>

FileEmployee(p) ==
  /\ call[p].at = "file"
  /\ ~Taken(call[p].entity.phone)
  /\ registered' = registered \union {call[p].entity}
  /\ GoesTo(p, call[p], "consume")
  /\ UNCHANGED <<row, settings, challenge, proofs>>

\* The row is refused: the phone number is unique, and what the option names
\* may be gone.
FileRefused(p) ==
  /\ call[p].at = "file"
  /\ Fails(p)
  /\ UNCHANGED <<settings, applications>>

\* Mutant of ConsumeChallenge: the challenge is left to expire.
ConsumeNothing(p) ==
  /\ call[p].at = "consume"
  /\ GoesTo(p, call[p], "idle")
  /\ UNCHANGED <<row, settings, applications>>

ConsumeChallenge(p) ==
  /\ call[p].at = "consume"
  /\ challenge' = [challenge EXCEPT ![call[p].entity.challenge] = "over"]
  /\ GoesTo(p, call[p], "idle")
  /\ UNCHANGED <<row, settings, proofs, registered>>

ExpireChallenge(c) ==
  /\ challenge[c] = "open"
  /\ challenge' = [challenge EXCEPT ![c] = "over"]
  /\ UNCHANGED <<saveVars, settings, proofs, registered>>

ExpireProof(t) ==
  /\ proofs' = proofs \ {t}
  /\ UNCHANGED <<saveVars, settings, challenge, registered>>

RegistrationCrash(p) == MayCrash /\ Crash(p) /\ UNCHANGED <<settings, applications>>

----------------------------------------------------------------------------
RegistrationInit ==
  /\ row = [id \in {Company} |-> [mode |-> "CLOSED", code |-> 0, active |-> TRUE]]
  /\ call = [p \in Calls |-> Idle]
  /\ options = {}
  /\ codes = 0
  /\ shown = 0
  /\ challenge = [c \in Challenges |-> Null]
  /\ proofs = {}
  /\ registered = {}

Administration(p) ==
  \/ \E mode \in Modes, wanted \in SUBSET Options : UpdateSettings(p, mode, wanted)
  \/ DeleteOptions(p) \/ ReplaceOptions(p) \/ OptionsRefused(p)
  \/ \E o \in Options : WithdrawOption(p, o)
  \/ RotateCode(p) \/ ShowCode(p)
  \/ \E active \in BOOLEAN : UpdateCompany(p, active)
  \/ SaveCompany(p)

Application(p) ==
  \/ \E c \in Challenges, ph \in Phones, o \in Options : Register(p, c, ph, o)
  \/ ReadProof(p) \/ SpendProof(p)
  \/ FileEmployee(p) \/ FileRefused(p) \/ ConsumeChallenge(p)

RegistrationNext ==
  \/ \E p \in Calls : Administration(p) \/ Application(p) \/ RegistrationCrash(p)
  \/ \E c \in Challenges :
       Resolve(c) \/ ExpireChallenge(c) \/ \E ph \in Phones : VerifyPhone(c, ph)
  \/ \E t \in proofs : ExpireProof(t)

RegistrationSpec == RegistrationInit /\ [][RegistrationNext]_registrationVars

----------------------------------------------------------------------------
AtRest == \A p \in Calls : call[p] = Idle

\* Once a new code was answered to an administrator no earlier code works: the
\* page says that the previous one stops at once.
OldCodesStop == row[Company].code >= shown

\* A company that admits its employees automatically has options to admit them
\* with: updateSettings refuses an empty list.
\* The code does not keep this (README, section 5).
AutomaticHasOptions == AtRest => (row[Company].mode = "AUTO_APPROVED" => options # {})

\* As a step: nobody is registered by a company that was closed, or with an option that
\* was withdrawn, since the challenge was given.
RegisteredAsSet ==
  \A r \in registered' \ registered : Admits(row[Company]) /\ r.option \in options

\* A challenge registers one employee.
OnePerChallenge == \A r, s \in registered : r.challenge = s.challenge => r = s

=============================================================================
