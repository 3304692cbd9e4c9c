----------------------------- MODULE PhoneCodes -----------------------------
(***************************************************************************)
(* One-time codes sent to a phone, to log in or to register: the cooldown  *)
(* between two codes, the hourly counter and the session of the last code, *)
(* all keys of Redis that expire.  Each command of Redis is a step of its  *)
(* own.  What follows an accepted code is in Onboarding and Registration.  *)
(***************************************************************************)
EXTENDS Naturals, FiniteSets, FiniteSetsExt

CONSTANTS
  Calls, Phones, Null,
  Purposes,     \* "login" and the registrations that are under way
  MaxRequests,  \* OTP_MAX_REQUESTS_PER_HOUR
  MaxAttempts,  \* OTP_MAX_ATTEMPTS
  MaxCodes,     \* bound of the codes that are sent
  MayCrash

PhoneCodesAssumption ==
  {MaxRequests, MaxAttempts, MaxCodes} \subseteq Nat \ {0} /\ MayCrash \in BOOLEAN

VARIABLES
  cooldown,  \* the phones with a key of OTP_COOLDOWN_PREFIX
  count,     \* the hourly counter; counts above the maximum are not told apart
  lasting,   \* the phones whose counter has no time to live
  session,   \* by phone and purpose: its code, its attempts, whose time to live it has
  last,      \* the last code that was sent, by phone and purpose
  codes,     \* how many codes were sent
  call

vars == <<cooldown, count, lasting, session, last, codes, call>>

Sessions == Phones \X Purposes
Phone(p) == call[p].key[1]

Idle == [at |-> "idle", key |-> Null, code |-> Null, attempts |-> 0, until |-> Null]

GoesTo(p, at) == call' = [call EXCEPT ![p] = IF at = "idle" THEN Idle ELSE [@ EXCEPT !.at = at]]

----------------------------------------------------------------------------
\* assertRequestAllowed: the cooldown, then the counter.  The answer is the
\* same when the phone has no account; only phones that have one are modelled.
RequestOtp(p, k) ==
  /\ call[p] = Idle
  /\ k[1] \notin cooldown
  /\ call' = [call EXCEPT ![p] = [Idle EXCEPT !.at = "count", !.key = k]]
  /\ UNCHANGED <<cooldown, count, lasting, session, last, codes>>

\* Mutant of CountRequest: the counter gets no time to live.
CountRequestOnly(p) ==
  /\ call[p].at = "count"
  /\ count' = [count EXCEPT ![Phone(p)] = Min({@ + 1, MaxRequests + 1})]
  /\ lasting' = IF count[Phone(p)] = 0 THEN lasting \union {Phone(p)} ELSE lasting
  /\ GoesTo(p, IF count[Phone(p)] >= MaxRequests THEN "idle" ELSE "cool")
  /\ UNCHANGED <<cooldown, session, last, codes>>

\* INCR makes a counter that lasts; whoever counts to one lets it expire.
CountRequest(p) ==
  /\ call[p].at = "count"
  /\ count' = [count EXCEPT ![Phone(p)] = Min({@ + 1, MaxRequests + 1})]
  /\ lasting' = IF count[Phone(p)] = 0 THEN lasting \union {Phone(p)} ELSE lasting
  /\ GoesTo(p, CASE count[Phone(p)] = 0 -> "expire"
                 [] count[Phone(p)] \in 1..(MaxRequests - 1) -> "cool"
                 [] OTHER -> "idle")
  /\ UNCHANGED <<cooldown, session, last, codes>>

LetCounterExpire(p) ==
  /\ call[p].at = "expire"
  /\ lasting' = lasting \ {Phone(p)}
  /\ GoesTo(p, "cool")
  /\ UNCHANGED <<cooldown, count, session, last, codes>>

StartCooldown(p) ==
  /\ call[p].at = "cool"
  /\ cooldown' = cooldown \union {Phone(p)}
  /\ GoesTo(p, "send")
  /\ UNCHANGED <<count, lasting, session, last, codes>>

SendCode(p) ==
  /\ call[p].at = "send"
  /\ codes < MaxCodes
  /\ codes' = codes + 1
  /\ last' = [last EXCEPT ![call[p].key] = codes']
  /\ call' = [call EXCEPT ![p].at = "store", ![p].code = codes']
  /\ UNCHANGED <<cooldown, count, lasting, session>>

SendFails(p) ==
  /\ call[p].at = "send"
  /\ GoesTo(p, "idle")
  /\ UNCHANGED <<cooldown, count, lasting, session, last, codes>>

StoreSession(p) ==
  /\ call[p].at = "store"
  /\ session' = [session EXCEPT ![call[p].key] =
       [code |-> call[p].code, attempts |-> 0, until |-> call[p].code]]
  /\ GoesTo(p, "idle")
  /\ UNCHANGED <<cooldown, count, lasting, last, codes>>

----------------------------------------------------------------------------
\* The session is read and the code compared with its own.
VerifyOtp(p, k, right) ==
  /\ call[p] = Idle
  /\ session[k] # Null
  /\ call' = [call EXCEPT ![p] =
       [Idle EXCEPT !.at = IF right \/ session[k].attempts + 1 >= MaxAttempts THEN "end" ELSE "ttl",
                    !.key = k, !.code = session[k].code, !.attempts = session[k].attempts + 1]]
  /\ UNCHANGED <<cooldown, count, lasting, session, last, codes>>

\* After a wrong code: what is left of the time to live of the key.
ReadTtl(p) ==
  /\ call[p].at = "ttl"
  /\ call' = [call EXCEPT
       ![p] = IF session[call[p].key] = Null THEN [@ EXCEPT !.at = "end"]
              ELSE [@ EXCEPT !.at = "back", !.until = session[call[p].key].until]]
  /\ UNCHANGED <<cooldown, count, lasting, session, last, codes>>

\* Mutant of WriteBack: the session starts a time to live of its own.
WriteBackAnew(p) ==
  /\ call[p].at = "back"
  /\ session' = [session EXCEPT ![call[p].key] =
       [code |-> call[p].code, attempts |-> call[p].attempts, until |-> Null]]
  /\ GoesTo(p, "idle")
  /\ UNCHANGED <<cooldown, count, lasting, last, codes>>

WriteBack(p) ==
  /\ call[p].at = "back"
  /\ session' = [session EXCEPT ![call[p].key] =
       [code |-> call[p].code, attempts |-> call[p].attempts, until |-> call[p].until]]
  /\ GoesTo(p, "idle")
  /\ UNCHANGED <<cooldown, count, lasting, last, codes>>

\* A right code, too many wrong ones, or a session that expired.
EndSession(p) ==
  /\ call[p].at = "end"
  /\ session' = [session EXCEPT ![call[p].key] = Null]
  /\ GoesTo(p, "idle")
  /\ UNCHANGED <<cooldown, count, lasting, last, codes>>

----------------------------------------------------------------------------
\* Keys expire in Redis.
ExpireSession(k) ==
  /\ session[k] # Null
  /\ session' = [session EXCEPT ![k] = Null]
  /\ UNCHANGED <<cooldown, count, lasting, last, codes, call>>

ExpireCooldown(ph) ==
  /\ ph \in cooldown
  /\ cooldown' = cooldown \ {ph}
  /\ UNCHANGED <<count, lasting, session, last, codes, call>>

ExpireCounter(ph) ==
  /\ count[ph] > 0
  /\ ph \notin lasting
  /\ count' = [count EXCEPT ![ph] = 0]
  /\ UNCHANGED <<cooldown, lasting, session, last, codes, call>>

Crash(p) ==
  /\ MayCrash
  /\ call[p] # Idle
  /\ GoesTo(p, "idle")
  /\ UNCHANGED <<cooldown, count, lasting, session, last, codes>>

----------------------------------------------------------------------------
Init ==
  /\ cooldown = {}
  /\ count = [ph \in Phones |-> 0]
  /\ lasting = {}
  /\ session = [k \in Sessions |-> Null]
  /\ last = [k \in Sessions |-> Null]
  /\ codes = 0
  /\ call = [p \in Calls |-> Idle]

Continue(p) ==
  \/ CountRequest(p) \/ LetCounterExpire(p) \/ StartCooldown(p)
  \/ SendCode(p) \/ SendFails(p) \/ StoreSession(p)
  \/ ReadTtl(p) \/ WriteBack(p) \/ EndSession(p)

Next ==
  \/ \E p \in Calls :
       \/ \E k \in Sessions : RequestOtp(p, k) \/ \E right \in BOOLEAN : VerifyOtp(p, k, right)
       \/ Continue(p)
       \/ Crash(p)
  \/ \E k \in Sessions : ExpireSession(k)
  \/ \E ph \in Phones : ExpireCooldown(ph) \/ ExpireCounter(ph)

Spec == Init /\ [][Next]_vars

\* The process goes on with a call, and Redis removes a counter when its time
\* is over.
Fairness ==
  /\ \A p \in Calls : WF_vars(Continue(p))
  /\ \A ph \in Phones : WF_vars(ExpireCounter(ph))

FairSpec == Spec /\ Fairness

----------------------------------------------------------------------------
AtRest == \A p \in Calls : call[p] = Idle

\* Between calls a phone that has a session has that of the last code it was
\* sent, also after a wrong code, which writes the session back, and after a
\* code that could not be sent.
LastCodeWorks ==
  AtRest => \A k \in Sessions : session[k] # Null => session[k].code = last[k]

\* A session ends when the time of its own code is over: a wrong code writes
\* it back with the time that was left (otp.service.spec.ts).
CodeKeepsItsTtl == \A k \in Sessions : session[k] # Null => session[k].until = session[k].code

\* Between calls every counter will expire: it counts the requests of an hour.
\* The code does not keep this (README, section 5).
CountsAnHour == AtRest => lasting = {}

\* A phone that asked for too many codes is served again.
ServedAgain == \A ph \in Phones : count[ph] >= MaxRequests ~> count[ph] = 0

=============================================================================
