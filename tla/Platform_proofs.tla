-------------------------- MODULE Platform_proofs --------------------------
(***************************************************************************)
(* Proofs about what the services share: the cache of the profiles, the    *)
(* order of the locks, the catalogue, the one-time codes, the session of   *)
(* the browser and the queue of deliveries; for every number of calls,     *)
(* products, phones, users and sessions, and every time and bound.         *)
(***************************************************************************)
EXTENDS MCPlatform, FiniteSetTheorems, SequenceTheorems, WellFoundedInduction, TLAPS

(***************************************************************************)
(* The bound on a stale entry.  A request stores what it read at most      *)
(* MaxDelay ago, so that what it read was replaced at most MaxDelay before *)
(* the entry was stored, and the entry lives for the TTL after that.       *)
(***************************************************************************)

\* No call lasts longer than MaxDelay.
InTime == \A p \in Calls : call[p].at # "idle" => now <= call[p].since + MaxDelay

\* What a request is about to store was current when the request began.
ReadSinceBegin ==
  \A p \in Calls :
    call[p].at \in {"test", "set"} /\ call[p].profile < profile
      => call[p].since <= replaced[call[p].profile]

\* An entry expires within the bound.
ExpiresInTime ==
  cache # Null /\ cache.profile < profile
    => cache.until <= replaced[cache.profile] + TTL + MaxDelay

\* Nothing of a tested role is stored.
StoresReal ==
  CacheIsReal /\ \A p \in Calls : call[p].at \in {"get", "hit", "employee", "test", "set"} => call[p].role = Null

AccessInv == AccessTypeOK /\ InTime /\ ReadSinceBegin /\ ExpiresInTime /\ StoresReal

USE AccessAssumption

\* A call that is over.
LEMMA IdleCall == Idle \in CallRecords /\ Idle.at = "idle" /\ Idle.since = 0 /\ Idle.profile = 0
BY DEF Idle, CallRecords

\* The invariant holds with an empty cache and no request,
THEOREM AccessInit == Init => AccessInv
<1> SUFFICES ASSUME Init PROVE AccessInv
  OBVIOUS
<1>1. \A p \in Calls : call[p] = Idle
  BY DEF Init
<1>2. AccessTypeOK
  <2>1. call \in [Calls -> CallRecords]
    BY IdleCall DEF Init
  <2>2. replaced \in [0..MaxChanges -> 0..MaxTime]
    BY DEF Init
  <2>3. now = 0 /\ profile = 0 /\ cache = Null /\ test = Null
    BY DEF Init
  <2>4. \A p \in Calls : call[p].since = 0 /\ call[p].profile = 0
    BY <1>1, IdleCall
  <2> QED
    BY <2>1, <2>2, <2>3, <2>4 DEF AccessTypeOK
<1>3. \A p \in Calls : call[p].at = "idle"
  BY <1>1, IdleCall
<1>4. InTime /\ ReadSinceBegin
  BY <1>3 DEF InTime, ReadSinceBegin
<1>5. ExpiresInTime /\ StoresReal
  BY <1>3 DEF Init, ExpiresInTime, StoresReal, CacheIsReal
<1> QED
  BY <1>2, <1>4, <1>5 DEF AccessInv

\* What the record of a call must satisfy for the invariant.
Sound(c) ==
  /\ c \in CallRecords
  /\ c.since <= now /\ c.profile <= profile
  /\ c.at # "idle" => now <= c.since + MaxDelay
  /\ c.at \in {"test", "set"} /\ c.profile < profile => c.since <= replaced[c.profile]
  /\ c.at \in {"get", "hit", "employee", "test", "set"} => c.role = Null

\* What the invariant says of each call by itself.
LEMMA CallsAreSound ==
  ASSUME AccessInv, NEW p \in Calls
  PROVE  Sound(call[p])
BY DEF AccessInv, AccessTypeOK, InTime, ReadSinceBegin, StoresReal, Sound

\* A call that is over is sound,
LEMMA IdleIsSound == AccessInv => Sound(Idle)
BY IdleCall DEF AccessInv, AccessTypeOK, Sound

\* and one that starts.
LEMMA StartedIsSound == AccessInv => Sound(Started("get")) /\ Sound(Started("invalidate"))
<1> SUFFICES ASSUME AccessInv, NEW at \in {"get", "invalidate"}
             PROVE  Sound(Started(at))
  OBVIOUS
<1>1. now \in 0..MaxTime /\ profile \in 0..MaxChanges
  BY DEF AccessInv, AccessTypeOK
<1> QED
  BY <1>1 DEF Sound, Started, CallRecords

\* A step of one call, which stores nothing.
LEMMA CallStep ==
  ASSUME AccessInv, NEW p \in Calls, NEW c, Sound(c), Becomes(p, c),
         UNCHANGED <<now, profile, replaced, cache, test>>
  PROVE  AccessInv'
<1>1. \A q \in Calls : call'[q] = IF q = p THEN c ELSE call[q]
  BY DEF AccessInv, AccessTypeOK, Becomes
<1>2. \A q \in Calls : Sound(call'[q])
  BY <1>1, CallsAreSound
<1>3. AccessTypeOK'
  BY <1>2 DEF AccessInv, AccessTypeOK, Sound, Becomes
<1> QED
  BY <1>2, <1>3
  DEF AccessInv, Sound, InTime, ReadSinceBegin, ExpiresInTime, StoresReal, CacheIsReal

\* The steps of a request but for the one that stores.
LEMMA RequestStep ==
  ASSUME AccessInv, NEW p \in Calls, NEW ok \in BOOLEAN,
         \/ Begin(p) \/ ReadEmployee(p) \/ Answer(p)
         \/ Get(p, ok) \/ TestOfHit(p, ok) \/ TestOfMiss(p, ok)
  PROVE  AccessInv'
<1>0. Sound(call[p]) /\ Sound(Idle)
  BY CallsAreSound, IdleIsSound
<1>1. CASE Begin(p)
  BY <1>1, StartedIsSound, CallStep DEF Begin
<1>2. CASE ReadEmployee(p)
  <2> DEFINE c == [call[p] EXCEPT !.at = "test", !.profile = profile]
  <2>0. profile \in 0..MaxChanges /\ call[p].at = "employee"
    BY <1>2 DEF ReadEmployee, AccessInv, AccessTypeOK
  <2>1. c \in CallRecords
    BY <1>0, <2>0 DEF Sound, CallRecords
  <2>2. /\ c.since = call[p].since /\ c.profile = profile /\ c.role = call[p].role
        /\ c.at = "test"
    BY <1>0 DEF Sound, CallRecords
  <2> HIDE DEF c
  <2>3. Sound(c)
    BY <1>0, <2>0, <2>1, <2>2 DEF Sound
  <2> QED
    BY <1>2, <2>3, CallStep DEF ReadEmployee, c
<1>3. CASE Answer(p)
  BY <1>0, <1>3, CallStep DEF Answer
<1>4. CASE Get(p, ok)
  <2> DEFINE hit == [call[p] EXCEPT !.at = "hit", !.profile = cache.profile]
             miss == [call[p] EXCEPT !.at = "employee"]
  <2>1. Hit => Sound(hit)
    BY <1>0, <1>4 DEF Sound, CallRecords, Get, Hit, AccessInv, AccessTypeOK, Entries
  <2>2. Sound(miss)
    BY <1>0, <1>4 DEF Sound, CallRecords, Get
  <2> QED
    BY <1>4, <2>1, <2>2, CallStep DEF Get
<1>5. CASE TestOfHit(p, ok)
  <2> DEFINE c(at) == [call[p] EXCEPT !.at = at]
  <2>1. Sound(c("employee")) /\ Sound(c("answer"))
    BY <1>0, <1>5 DEF Sound, CallRecords, TestOfHit
  <2>2. CASE ok /\ test
    BY <1>5, <2>1, <2>2, CallStep DEF TestOfHit
  <2>3. CASE ~(ok /\ test)
    BY <1>5, <2>1, <2>3, CallStep DEF TestOfHit
  <2> QED
    BY <2>2, <2>3
<1>6. CASE TestOfMiss(p, ok)
  <2>1. Sound([call[p] EXCEPT !.at = "set"])
    BY <1>0, <1>6 DEF Sound, CallRecords, TestOfMiss
  <2>2. Sound([call[p] EXCEPT !.at = "answer", !.role = test])
    BY <1>0, <1>6 DEF Sound, CallRecords, TestOfMiss, AccessInv, AccessTypeOK
  <2> QED
    BY <1>6, <2>1, <2>2, CallStep DEF TestOfMiss
<1> QED
  BY <1>1, <1>2, <1>3, <1>4, <1>5, <1>6

\* A step of one call, with what it does to the entry.
LEMMA CacheStep ==
  ASSUME AccessInv, NEW p \in Calls, NEW c, Sound(c), Becomes(p, c),
         UNCHANGED <<now, profile, replaced, test>>,
         \/ cache' \in {cache, Null}
         \/ /\ cache' \in Entries /\ cache'.until <= now + TTL /\ cache'.profile <= profile
            /\ cache'.role = Null
            /\ cache'.profile < profile
                 => cache'.until <= replaced[cache'.profile] + TTL + MaxDelay
  PROVE  AccessInv'
<1>1. \A q \in Calls : call'[q] = IF q = p THEN c ELSE call[q]
  BY DEF AccessInv, AccessTypeOK, Becomes
<1>2. \A q \in Calls : Sound(call'[q])
  BY <1>1, CallsAreSound
<1>3. AccessTypeOK'
  BY <1>2 DEF AccessInv, AccessTypeOK, Sound, Becomes
<1>4. InTime' /\ ReadSinceBegin'
  BY <1>2 DEF Sound, InTime, ReadSinceBegin
<1>5. ExpiresInTime'
  BY DEF AccessInv, ExpiresInTime
<1>6. StoresReal'
  BY <1>2 DEF AccessInv, Sound, StoresReal, CacheIsReal
<1> QED
  BY <1>3, <1>4, <1>5, <1>6 DEF AccessInv

\* A profile is stored by a request that has lasted at most MaxDelay.
LEMMA SetStep ==
  ASSUME AccessInv, NEW p \in Calls, NEW ok \in BOOLEAN, Set(p, ok)
  PROVE  AccessInv'
<1> DEFINE c == [call[p] EXCEPT !.at = "answer"]
           entry == [profile |-> call[p].profile, role |-> call[p].role,
                     until |-> now + TTL]
<1>0. Sound(call[p]) /\ call[p].at = "set"
  BY CallsAreSound DEF Set
<1>1. Sound(c)
  BY <1>0 DEF Sound, CallRecords
<1>2. /\ entry \in Entries /\ entry.until <= now + TTL /\ entry.profile <= profile
      /\ entry.role = Null
  BY <1>0 DEF Sound, CallRecords, Entries, AccessInv, AccessTypeOK
<1>3. entry.profile < profile => entry.until <= replaced[entry.profile] + TTL + MaxDelay
  <2> SUFFICES ASSUME call[p].profile < profile
               PROVE  now + TTL <= replaced[call[p].profile] + TTL + MaxDelay
    OBVIOUS
  <2>1. now <= call[p].since + MaxDelay /\ call[p].since <= replaced[call[p].profile]
    BY <1>0 DEF Sound
  <2>2. call[p].since \in Nat /\ now \in Nat /\ replaced[call[p].profile] \in Nat
    BY <1>0 DEF Sound, CallRecords, AccessInv, AccessTypeOK
  <2> QED
    BY <2>1, <2>2
<1> QED
  BY <1>1, <1>2, <1>3, CacheStep DEF Set

\* A deletion keeps the invariant, done or failed.
LEMMA InvalidateStep ==
  ASSUME AccessInv, NEW p \in Calls, NEW ok \in BOOLEAN, Invalidate(p, ok)
  PROVE  AccessInv'
BY IdleIsSound, CacheStep DEF Invalidate

\* A change replaces now the profile that was current until now: an entry of it
\* expires within the TTL, and a request that read it began before.
LEMMA ChangeStep ==
  ASSUME AccessInv, Changes, UNCHANGED <<now, cache, test>>,
         \/ UNCHANGED call
         \/ \E p \in Calls : Becomes(p, Started("invalidate"))
  PROVE  AccessInv'
<1>1. /\ now \in 0..MaxTime /\ profile \in 0..(MaxChanges - 1) /\ profile' = profile + 1
      /\ replaced \in [0..MaxChanges -> 0..MaxTime]
      /\ replaced' = [replaced EXCEPT ![profile] = now]
  BY DEF AccessInv, AccessTypeOK, Changes
<1>2. Sound(Started("invalidate"))
  BY StartedIsSound
<1>3. ASSUME NEW q \in Calls PROVE Sound(call'[q])
  <2>1. CASE UNCHANGED call
    BY <2>1, CallsAreSound
  <2>2. CASE \E p \in Calls : Becomes(p, Started("invalidate"))
    <3>1. \/ call'[q] = call[q]
          \/ call'[q] = Started("invalidate")
      BY <2>2 DEF AccessInv, AccessTypeOK, Becomes
    <3> QED
      BY <1>2, <3>1, CallsAreSound
  <2> QED
    BY <2>1, <2>2
<1>4. call' \in [Calls -> CallRecords]
  BY <1>3 DEF AccessInv, AccessTypeOK, Sound, Becomes
<1>5. ASSUME NEW q \in Calls
      PROVE  /\ call'[q].since <= now' /\ call'[q].profile <= profile'
             /\ call'[q].at # "idle" => now' <= call'[q].since + MaxDelay
             /\ call'[q].at \in {"test", "set"} /\ call'[q].profile < profile'
                  => call'[q].since <= replaced'[call'[q].profile]
             /\ call'[q].at \in {"get", "hit", "employee", "test", "set"}
                  => call'[q].role = Null
  <2>1. Sound(call'[q])
    BY <1>3
  <2> DEFINE v == call'[q].profile
  <2>2. call'[q].since \in 0..MaxTime /\ v \in 0..MaxChanges
    BY <2>1 DEF Sound, CallRecords
  <2>3. replaced'[v] = IF v = profile THEN now ELSE replaced[v]
    BY <1>1, <2>2
  <2> HIDE DEF v
  <2> QED
    BY <1>1, <2>1, <2>2, <2>3 DEF Sound, v
<1>6. AccessTypeOK'
  BY <1>1, <1>4, <1>5 DEF AccessInv, AccessTypeOK, Entries
<1>7. InTime' /\ ReadSinceBegin'
  BY <1>5 DEF InTime, ReadSinceBegin
<1>8. ExpiresInTime'
  BY <1>1 DEF AccessInv, AccessTypeOK, ExpiresInTime, Entries
<1>9. StoresReal'
  BY <1>5 DEF AccessInv, StoresReal, CacheIsReal
<1> QED
  BY <1>6, <1>7, <1>8, <1>9 DEF AccessInv

\* Time, the test of a role and a crash touch no entry.
LEMMA OtherStep ==
  ASSUME AccessInv, StopTest \/ Tick \/ \E p \in Calls : Crash(p) \/ \E role \in Roles : StartTest(p, role)
  PROVE  AccessInv'
<1>1. CASE StopTest \/ \E p \in Calls, role \in Roles : StartTest(p, role)
  BY <1>1 DEF StartTest, StopTest, AccessInv, AccessTypeOK, InTime, ReadSinceBegin,
              ExpiresInTime, StoresReal, CacheIsReal
<1>2. CASE \E p \in Calls : Crash(p)
  BY <1>2, IdleIsSound, CallStep DEF Crash
<1>3. CASE Tick
  <2>1. AccessTypeOK'
    BY <1>3 DEF Tick, AccessInv, AccessTypeOK, CallRecords, Entries
  <2>2. ASSUME NEW p \in Calls, call[p].at # "idle"
        PROVE  now + 1 <= call[p].since + MaxDelay
    <3>1. now < call[p].since + MaxDelay /\ now \in Nat /\ call[p].since \in Nat
      BY <1>3, <2>2, IdleCall DEF Tick, AccessInv, AccessTypeOK, CallRecords
    <3> QED
      BY <3>1
  <2>3. InTime'
    BY <1>3, <2>2 DEF Tick, InTime
  <2> QED
    BY <1>3, <2>1, <2>3
    DEF Tick, AccessInv, ReadSinceBegin, ExpiresInTime, StoresReal, CacheIsReal
<1> QED
  BY <1>1, <1>2, <1>3

\* every step of a request, a mutation, the clock or a crash keeps it,
THEOREM AccessStep == AccessInv /\ [Next]_vars => AccessInv'
<1> SUFFICES ASSUME AccessInv, [Next]_vars
             PROVE  AccessInv'
  OBVIOUS
<1>1. CASE UNCHANGED vars
  BY <1>1 DEF vars, AccessInv, AccessTypeOK, InTime, ReadSinceBegin, ExpiresInTime, StoresReal,
              CacheIsReal
<1>2. CASE Tick \/ StopTest
  BY <1>2, OtherStep
<1>3. CASE \E p \in Calls : RequestNext(p)
  BY <1>3, RequestStep, SetStep DEF RequestNext
<1>4. CASE \E p \in Calls : ChangeEmployee(p)
  BY <1>4, ChangeStep DEF ChangeEmployee
<1>5. CASE \E p \in Calls : Crash(p) \/ \E role \in Roles : StartTest(p, role)
  BY <1>5, OtherStep
<1>6. CASE \E p \in Calls, ok \in BOOLEAN : Invalidate(p, ok)
  BY <1>6, InvalidateStep
<1>7. CASE ChangeRole
  BY <1>7, ChangeStep DEF ChangeRole
<1> QED
  BY <1>1, <1>2, <1>3, <1>4, <1>5, <1>6, <1>7 DEF Next, EmployeeNext

\* and so it always holds.
THEOREM AccessInvariant == Spec => []AccessInv
BY AccessInit, AccessStep, PTL DEF Spec

\* What is found in the cache has not expired.
LEMMA AccessBounds == AccessInv => StaleIsBounded
<1> SUFFICES ASSUME AccessInv, Hit, cache.profile < profile
             PROVE  now < replaced[cache.profile] + (TTL + MaxDelay)
  BY DEF StaleIsBounded, StaleFor
<1>1. /\ now \in Nat /\ cache.until \in Nat /\ replaced[cache.profile] \in Nat
      /\ now < cache.until
  BY DEF AccessInv, AccessTypeOK, Entries, Hit
<1>2. cache.until <= replaced[cache.profile] + TTL + MaxDelay
  BY DEF AccessInv, ExpiresInTime, Hit
<1> QED
  BY <1>1, <1>2

\* For every TTL, delay and number of calls: a profile is found in the cache no
\* longer than the TTL after it was replaced, and the time a request may take.
THEOREM StaleBound == Spec => []StaleIsBounded
BY AccessBounds, AccessInvariant, PTL

\* The types of the variables.
THEOREM AccessTypes == Spec => []AccessTypeOK
<1>1. AccessInv => AccessTypeOK
  BY DEF AccessInv
<1> QED
  BY <1>1, AccessInvariant, PTL

\* The cache never holds the profile of a role that is tested.
THEOREM CacheStaysReal == Spec => []CacheIsReal
<1>1. AccessInv => CacheIsReal
  BY DEF AccessInv, StoresReal
<1> QED
  BY <1>1, AccessInvariant, PTL

-----------------------------------------------------------------------------
(***************************************************************************)
(* One call at a time, with Redis up.  An entry is current unless a change *)
(* is about to delete it, and a call that is past the entry or past the    *)
(* employee has the profile as it is saved.                                *)
(***************************************************************************)

\* What a call has found is as it is saved and tested.
Current(c) ==
  /\ c.at \in {"hit", "test", "set"} => c.profile = profile
  /\ c.at = "set" => test = Null
  /\ c.at = "answer" => (test # Null => c.role = test) /\ (c.role = Null => c.profile = profile)

AloneInv ==
  /\ Alone
  /\ (\A p \in Calls : call[p].at # "invalidate") => (cache # Null => cache.profile = profile)
  /\ \A p \in Calls : Current(call[p])

\* A step of that run.
AloneNext ==
  /\ Certain!EmployeeNext /\ Alone'
  /\ test' \notin {test, Null} => \A p \in Calls : call[p] = Idle

\* It is a step of the calls that no command of Redis fails.
LEMMA CertainCalls ==
  ASSUME NEW p \in Calls, NEW ok \in BOOLEAN
  PROVE  /\ Certain!Begin(p) => Begin(p)
         /\ Certain!ReadEmployee(p) => ReadEmployee(p)
         /\ Certain!Answer(p) => Answer(p)
         /\ Certain!Get(p, ok) => ok /\ Get(p, ok)
         /\ Certain!TestOfHit(p, ok) => ok /\ TestOfHit(p, ok)
         /\ Certain!TestOfMiss(p, ok) => ok /\ TestOfMiss(p, ok)
         /\ Certain!Set(p, ok) => ok /\ Set(p, ok)
         /\ Certain!Invalidate(p, ok) => ok /\ Invalidate(p, ok)
         /\ Certain!ChangeEmployee(p) => ChangeEmployee(p)
<1>1. Certain!Idle = Idle /\ \A at : Certain!Started(at) = Started(at)
  BY DEF Certain!Idle, Idle, Certain!Started, Started
<1>2. \A c : Certain!Becomes(p, c) <=> Becomes(p, c)
  BY DEF Certain!Becomes, Becomes
<1>3. /\ Certain!Redis(ok) => ok /\ Redis(ok)
      /\ Certain!Hit <=> Hit
      /\ Certain!Changes <=> Changes
  BY DEF Certain!Redis, Redis, Certain!Hit, Hit, Certain!Changes, Changes
<1>4. /\ Certain!Begin(p) => Begin(p)
      /\ Certain!ReadEmployee(p) => ReadEmployee(p)
      /\ Certain!Answer(p) => Answer(p)
  BY <1>1, <1>2
  DEF Certain!Begin, Begin, Certain!ReadEmployee, ReadEmployee, Certain!Answer, Answer
<1>5. /\ Certain!Get(p, ok) => ok /\ Get(p, ok)
      /\ Certain!TestOfHit(p, ok) => ok /\ TestOfHit(p, ok)
  BY <1>2, <1>3 DEF Certain!Get, Get, Certain!TestOfHit, TestOfHit
<1>6. /\ Certain!TestOfMiss(p, ok) => ok /\ TestOfMiss(p, ok)
      /\ Certain!Set(p, ok) => ok /\ Set(p, ok)
  BY <1>2, <1>3 DEF Certain!TestOfMiss, TestOfMiss, Certain!Set, Set
<1>7. /\ Certain!Invalidate(p, ok) => ok /\ Invalidate(p, ok)
      /\ Certain!ChangeEmployee(p) => ChangeEmployee(p)
  BY <1>1, <1>2, <1>3
  DEF Certain!Invalidate, Invalidate, Certain!ChangeEmployee, ChangeEmployee
<1> QED
  BY <1>4, <1>5, <1>6, <1>7

\* The clock and the tests.
LEMMA CertainRest ==
  /\ Certain!Tick => Tick
  /\ Certain!StopTest => StopTest
  /\ \A p \in Calls, role \in Roles : Certain!StartTest(p, role) => StartTest(p, role)
<1>1. Certain!Idle = Idle
  BY DEF Certain!Idle, Idle
<1> QED
  BY <1>1 DEF Certain!Tick, Tick, Certain!StopTest, StopTest, Certain!StartTest, StartTest

\* Every such step is one of the employee.
LEMMA AloneIsStep == AloneNext => [Next]_vars
BY CertainCalls, CertainRest
DEF AloneNext, Certain!EmployeeNext, Certain!RequestNext, Next, EmployeeNext, RequestNext

\* While one call is not over, the others are.
LEMMA OthersAreIdle ==
  ASSUME Alone, NEW p \in Calls, NEW q \in Calls, call[p].at # "idle", q # p
  PROVE  call[q].at = "idle"
BY IdleCall DEF Alone

\* A step of one call that touches neither the entry nor the profile.
LEMMA AloneCallStep ==
  ASSUME AccessInv, AloneInv, Alone', NEW p \in Calls, NEW c, Becomes(p, c), Current(c),
         call[p].at # "invalidate", c.at # "invalidate",
         UNCHANGED <<profile, cache, test>>
  PROVE  AloneInv'
<1>1. \A q \in Calls : call'[q] = IF q = p THEN c ELSE call[q]
  BY DEF AccessInv, AccessTypeOK, Becomes
<1>2. \A q \in Calls : Current(call[q])
  BY DEF AloneInv
<1>3. \A q \in Calls : Current(call[q])'
  BY <1>1, <1>2 DEF Current
<1>4. (\A q \in Calls : call'[q].at # "invalidate") => \A q \in Calls : call[q].at # "invalidate"
  BY <1>1
<1> QED
  BY <1>3, <1>4 DEF AloneInv

\* The steps of a request.
LEMMA AloneRequestStep ==
  ASSUME AccessInv, AloneInv, Alone', NEW p \in Calls, Certain!RequestNext(p)
  PROVE  AloneInv'
<1>0. Sound(call[p]) /\ Current(call[p]) /\ Alone
  BY CallsAreSound DEF AloneInv
<1>1. CASE Begin(p)
  BY <1>1, IdleCall, AloneCallStep DEF Begin, Started, Current
<1>2. CASE ReadEmployee(p)
  <2> DEFINE c == [call[p] EXCEPT !.at = "test", !.profile = profile]
  <2>1. Current(c) /\ c.at = "test"
    BY <1>0 DEF Sound, CallRecords, Current
  <2> QED
    BY <1>2, <2>1, AloneCallStep DEF ReadEmployee
<1>3. CASE Answer(p)
  BY <1>3, IdleCall, AloneCallStep DEF Answer, Current
<1>4. CASE Get(p, TRUE)
  <2> DEFINE hit == [call[p] EXCEPT !.at = "hit", !.profile = cache.profile]
             miss == [call[p] EXCEPT !.at = "employee"]
  <2>1. \A q \in Calls : call[q].at # "invalidate"
    BY <1>0, <1>4, OthersAreIdle DEF Get
  <2>2. Hit => Current(hit) /\ hit.at = "hit"
    BY <1>0, <2>1 DEF Sound, CallRecords, Current, Hit, AloneInv
  <2>3. Current(miss) /\ miss.at = "employee"
    BY <1>0 DEF Sound, CallRecords, Current
  <2>4. call[p].at # "invalidate" /\ UNCHANGED <<profile, cache, test>>
    BY <1>4 DEF Get
  <2>5. Becomes(p, IF Hit THEN hit ELSE miss)
    BY <1>4 DEF Get
  <2> QED
    BY <2>2, <2>3, <2>4, <2>5, AloneCallStep
<1>5. CASE TestOfHit(p, TRUE)
  <2> DEFINE c == [call[p] EXCEPT !.at = IF test # Null THEN "employee" ELSE "answer"]
  <2>1. call[p].at = "hit" /\ UNCHANGED <<profile, cache, test>> /\ Becomes(p, c)
    BY <1>5 DEF TestOfHit
  <2>2. Current(c) /\ c.at # "invalidate"
    BY <1>0, <2>1 DEF Sound, CallRecords, Current
  <2> QED
    BY <2>1, <2>2, AloneCallStep
<1>6. CASE TestOfMiss(p, TRUE)
  <2> DEFINE c == IF test # Null THEN [call[p] EXCEPT !.at = "answer", !.role = test]
                  ELSE [call[p] EXCEPT !.at = "set"]
  <2>1. call[p].at = "test" /\ UNCHANGED <<profile, cache, test>> /\ Becomes(p, c)
    BY <1>6 DEF TestOfMiss
  <2>2. Current(c) /\ c.at # "invalidate"
    BY <1>0, <2>1 DEF Sound, CallRecords, Current
  <2> QED
    BY <2>1, <2>2, AloneCallStep
<1>7. CASE Set(p, TRUE)
  <2> DEFINE c == [call[p] EXCEPT !.at = "answer"]
  <2>1. call[p].at = "set" /\ UNCHANGED <<profile, test>> /\ Becomes(p, c)
    BY <1>7 DEF Set
  <2>2. \A q \in Calls : call'[q] = IF q = p THEN c ELSE call[q]
    BY <2>1 DEF AccessInv, AccessTypeOK, Becomes
  <2>3. Current(c)
    BY <1>0, <2>1 DEF Sound, CallRecords, Current
  <2>4. \A q \in Calls : Current(call[q])'
    BY <2>1, <2>2, <2>3 DEF Current, AloneInv
  <2>5. cache'.profile = profile'
    BY <1>0, <1>7 DEF Set, Current
  <2> QED
    BY <2>4, <2>5 DEF AloneInv
<1> QED
  BY <1>1, <1>2, <1>3, <1>4, <1>5, <1>6, <1>7, CertainCalls DEF Certain!RequestNext

\* Every step keeps it, for an employee whose entry can be deleted.
LEMMA AloneStep ==
  ASSUME Linked, AccessInv, AloneInv, AloneNext
  PROVE  AloneInv'
<1>0. Alone' /\ call \in [Calls -> CallRecords]
  BY DEF AloneNext, AccessInv, AccessTypeOK
<1>1. CASE Tick
  BY <1>0, <1>1 DEF Tick, AloneInv, Current
<1>2. CASE StopTest
  BY <1>0, <1>2 DEF StopTest, AloneInv, Current
<1>3. ASSUME NEW p \in Calls, NEW role \in Roles, StartTest(p, role) PROVE AloneInv'
  <2>1. CASE role \in {test, Null}
    BY <1>0, <1>3, <2>1 DEF StartTest, AloneInv, Current
  <2>2. CASE role \notin {test, Null}
    <3>1. \A q \in Calls : call[q].at = "idle"
      BY <1>3, <2>2, IdleCall DEF AloneNext, StartTest
    <3> QED
      BY <1>0, <1>3, <3>1 DEF StartTest, AloneInv, Current
  <2> QED
    BY <2>1, <2>2
<1>4. ASSUME NEW p \in Calls, ChangeEmployee(p) PROVE AloneInv'
  <2>1. call'[p] = Started("invalidate")
    BY <1>0, <1>4 DEF ChangeEmployee, Becomes
  <2>2. call'[p].at = "invalidate"
    BY <2>1 DEF Started
  <2>3. \A q \in Calls : q # p => call'[q].at = "idle"
    BY <1>0, <2>2, IdleCall DEF Alone
  <2>4. \A q \in Calls : Current(call[q])'
    BY <2>2, <2>3 DEF Current
  <2> QED
    BY <1>0, <2>2, <2>4 DEF AloneInv
<1>5. ASSUME NEW p \in Calls, Invalidate(p, TRUE) PROVE AloneInv'
  <2>1. cache' = Null /\ UNCHANGED <<profile, test>>
    BY <1>5 DEF Invalidate
  <2>2. \A q \in Calls : call'[q] = IF q = p THEN Idle ELSE call[q]
    BY <1>0, <1>5 DEF Invalidate, Becomes
  <2>3. \A q \in Calls : Current(call[q])'
    BY <2>1, <2>2, IdleCall DEF Current, AloneInv
  <2> QED
    BY <1>0, <2>1, <2>3 DEF AloneInv
<1>6. ASSUME NEW p \in Calls, Certain!RequestNext(p) PROVE AloneInv'
  BY <1>0, <1>6, AloneRequestStep
<1> QED
  BY <1>1, <1>2, <1>3, <1>4, <1>5, <1>6, CertainCalls, CertainRest
  DEF AloneNext, Certain!EmployeeNext

\* It holds with an empty cache and no request.
LEMMA AloneInit == Init => AloneInv
BY IdleCall DEF Init, AloneInv, Alone, Current

LEMMA AloneIsCurrent == AloneInv => AnswerIsCurrent
BY DEF AloneInv, Current, AnswerIsCurrent

-----------------------------------------------------------------------------
(***************************************************************************)
(* Why an order of the rows is enough: a transaction that locks its rows   *)
(* upwards waits for a row above all those it holds, so that the one that  *)
(* waits for the highest row of all waits for nobody that waits.           *)
(***************************************************************************)

\* A plan locks its rows upwards in rank.
RankedPlan(rank, p) ==
  \A i, j \in 1..Len(p.locks) : i < j => rank[p.locks[i]] < rank[p.locks[j]]

Ranked(rank) == \A p \in Plans : RankedPlan(rank, p)

\* A set of numbers up to a bound has a greatest element.
LEMMA Greatest ==
  ASSUME NEW bound \in Nat, NEW D, D \subseteq 0..bound, D # {}
  PROVE  \E d \in D : \A e \in D : e <= d
<1> DEFINE T == {bound - d : d \in D}
<1>1. T \subseteq Nat /\ T # {}
  <2>1. PICK d \in D : TRUE
    OBVIOUS
  <2>2. bound - d \in T
    OBVIOUS
  <2>3. ASSUME NEW e \in D PROVE bound - e \in Nat
    <3>1. e \in 0..bound
      OBVIOUS
    <3> QED BY <3>1
  <2> QED BY <2>2, <2>3
<1>2. PICK x \in T : \A y \in T : ~ (<<y, x>> \in OpToRel(<, Nat))
  <2> HIDE DEF T
  <2> QED BY <1>1, NatLessThanWellFounded, WFMin
<1>3. PICK d \in D : x = bound - d
  OBVIOUS
<1>4. ASSUME NEW e \in D, d < e PROVE FALSE
  <2>1. bound - e \in T /\ bound - e \in Nat /\ x \in Nat /\ bound - e < x
    BY <1>3, <1>4, SMT
  <2>2. <<bound - e, x>> \in OpToRel(<, Nat)
    BY <2>1 DEF OpToRel
  <2> QED BY <1>2, <2>1, <2>2
<1>5. ASSUME NEW e \in D PROVE e <= d
  <2>1. e \in Nat /\ d \in Nat
    OBVIOUS
  <2>2. ~ (d < e)
    BY <1>4
  <2> QED
    BY <2>1, <2>2
<1> QED
  BY <1>5, Zenon

\* The shape of the three variables, and what a step changes of them.
LockShape ==
  /\ plan \in [Transactions -> Plans \union {NoPlan}]
  /\ next \in [Transactions -> Nat \ {0}]
  /\ held \in [Transactions -> SUBSET Nat]

\* What LockTypeOK says of one transaction.
Behind(t) ==
  IF Open(t) THEN \A i \in held[t] : i \in 1..Len(plan[t].locks) /\ i < next[t]
  ELSE held[t] = {}

LockIInv == LockShape /\ \A t \in Transactions : Behind(t)

\* The rows a plan locks.
LEMMA PlanLocks ==
  ASSUME NEW p \in Plans
  PROVE  p.locks \in Seq(Rows) /\ Len(p.locks) \in Nat /\ p # NoPlan
BY PlansAssumption DEF IsPlan

\* The end of a transaction, whatever it is, keeps the invariant.
LEMMA EndsKeeps ==
  ASSUME LockIInv, NEW t \in Transactions, Ends(t)
  PROVE  LockIInv'
<1>1. LockShape'
  BY DEF LockIInv, LockShape, Ends
<1>2. ASSUME NEW u \in Transactions PROVE Behind(u)'
  <2>1. CASE u = t
    BY <2>1 DEF LockIInv, LockShape, Ends, Behind, Open
  <2>2. CASE u # t
    <3>1. plan'[u] = plan[u] /\ next'[u] = next[u] /\ held'[u] = held[u]
      BY <2>2 DEF LockIInv, LockShape, Ends
    <3> QED BY <3>1 DEF LockIInv, Behind, Open
  <2> QED BY <2>1, <2>2
<1> QED BY <1>1, <1>2 DEF LockIInv

\* The invariant holds before the first transaction,
LEMMA InitKeeps == LockInit => LockIInv
BY DEF LockInit, LockIInv, LockShape, Behind, Open

\* and every step keeps it.
LEMMA StepKeeps == LockIInv /\ [LockNext]_lockVars => LockIInv'
<1> SUFFICES ASSUME LockIInv, [LockNext]_lockVars PROVE LockIInv'
  OBVIOUS
<1>1. CASE UNCHANGED lockVars
  BY <1>1 DEF LockIInv, LockShape, Behind, Open, lockVars
<1>2. ASSUME NEW t \in Transactions, NEW p \in Plans, BeginTransaction(t, p) PROVE LockIInv'
  <2>1. LockShape'
    BY <1>2 DEF LockIInv, LockShape, BeginTransaction
  <2>2. ASSUME NEW u \in Transactions PROVE Behind(u)'
    <3>1. CASE u = t
      <4>1. held'[u] = {}
        BY <1>2, <3>1 DEF BeginTransaction, LockIInv, Behind
      <4> QED BY <4>1 DEF Behind
    <3>2. CASE u # t
      <4>1. plan'[u] = plan[u] /\ next'[u] = next[u] /\ held'[u] = held[u]
        BY <1>2, <3>2 DEF LockIInv, LockShape, BeginTransaction
      <4> QED BY <4>1 DEF LockIInv, Behind, Open
    <3> QED BY <3>1, <3>2
  <2> QED BY <2>1, <2>2 DEF LockIInv
<1>3. ASSUME NEW t \in Transactions, Lock(t) PROVE LockIInv'
  <2>0. next[t] \in Nat \ {0} /\ plan[t] \in Plans /\ next[t] <= Len(plan[t].locks)
    BY <1>3 DEF LockIInv, LockShape, Lock, Wants, Open
  <2>1. LockShape'
    BY <1>3, <2>0 DEF LockIInv, LockShape, Lock
  <2>2. ASSUME NEW u \in Transactions PROVE Behind(u)'
    <3>1. CASE u = t
      <4>1. plan'[u] = plan[u] /\ next'[u] = next[u] + 1
              /\ held'[u] = held[u] \union {next[u]}
        BY <1>3, <3>1 DEF LockIInv, LockShape, Lock
      <4>2. Open(u) /\ Open(u)'
        BY <1>3, <3>1, <4>1 DEF Lock, Wants, Open
      <4>3. Len(plan[u].locks) \in Nat
        BY <2>0, <3>1, PlanLocks
      <4>4. ASSUME NEW i \in held'[u] PROVE i \in 1..Len(plan[u].locks) /\ i < next'[u]
        BY <2>0, <3>1, <4>1, <4>2, <4>3, <4>4 DEF LockIInv, Behind
      <4> QED BY <4>1, <4>2, <4>4 DEF Behind
    <3>2. CASE u # t
      <4>1. plan'[u] = plan[u] /\ next'[u] = next[u] /\ held'[u] = held[u]
        BY <1>3, <3>2 DEF LockIInv, LockShape, Lock
      <4> QED BY <4>1 DEF LockIInv, Behind, Open
    <3> QED BY <3>1, <3>2
  <2> QED BY <2>1, <2>2 DEF LockIInv
<1>4. ASSUME NEW t \in Transactions, Ends(t) PROVE LockIInv'
  BY <1>4, EndsKeeps
<1>5. ASSUME NEW t \in Transactions, NEW s, NEW after, RejectLine(t, s, after)
      PROVE  LockIInv'
  <2>0. /\ plan[t] \in Plans
        /\ s \in Nat /\ after \in Nat /\ next[t] \in Nat \ {0} /\ next[t] <= after
    BY <1>5, PlansAssumption DEF LockIInv, LockShape, RejectLine, Open, IsPlan
  <2>1. LockShape'
    BY <1>5, <2>0 DEF LockIInv, LockShape, RejectLine
  <2>2. ASSUME NEW u \in Transactions PROVE Behind(u)'
    <3>1. CASE u = t
      <4>1. plan'[u] = plan[u] /\ next'[u] = after /\ held'[u] \subseteq held[u]
        BY <1>5, <3>1 DEF LockIInv, LockShape, RejectLine
      <4>2. Open(u) /\ Open(u)'
        BY <1>5, <3>1, <4>1 DEF RejectLine, Open
      <4>3. ASSUME NEW i \in held'[u] PROVE i \in 1..Len(plan[u].locks) /\ i < next'[u]
        <5>1. i \in 1..Len(plan[u].locks) /\ i < next[u]
          BY <4>1, <4>2, <4>3 DEF LockIInv, Behind
        <5>2. Len(plan[u].locks) \in Nat
          BY <2>0, <3>1, PlanLocks
        <5> QED BY <2>0, <3>1, <4>1, <5>1, <5>2
      <4> QED BY <4>1, <4>2, <4>3 DEF Behind
    <3>2. CASE u # t
      <4>1. plan'[u] = plan[u] /\ next'[u] = next[u] /\ held'[u] = held[u]
        BY <1>5, <3>2 DEF LockIInv, LockShape, RejectLine
      <4> QED BY <4>1 DEF LockIInv, Behind, Open
    <3> QED BY <3>1, <3>2
  <2> QED BY <2>1, <2>2 DEF LockIInv
<1> QED BY <1>1, <1>2, <1>3, <1>4, <1>5 DEF LockNext, Commit, Refuse, AbortVictim

\* What a waiting transaction asks for is above all it holds.
LEMMA Upwards ==
  ASSUME LockIInv, NEW rank \in [Rows -> Nat],
         NEW t \in Transactions, Wants(t), RankedPlan(rank, plan[t]), NEW r \in HeldRows(t)
  PROVE  rank[r] < rank[Wanted(t)] /\ Wanted(t) \in Rows
<1>1. plan[t] \in Plans /\ next[t] \in 1..Len(plan[t].locks)
  BY PlanLocks DEF LockIInv, LockShape, Wants, Open
<1>2. PICK i \in held[t] : r = plan[t].locks[i]
  BY DEF HeldRows
<1>3. i \in 1..Len(plan[t].locks) /\ i < next[t]
  BY <1>2 DEF LockIInv, Behind, Wants
<1>4. rank[plan[t].locks[i]] < rank[plan[t].locks[next[t]]]
  BY <1>1, <1>3 DEF RankedPlan
<1>5. plan[t].locks \in Seq(Rows)
  BY <1>1, PlanLocks
<1>6. Wanted(t) \in Rows
  BY <1>1, <1>5 DEF Wanted
<1> QED BY <1>2, <1>4, <1>6 DEF Wanted

\* Who waits asks for a row of its plan.
LEMMA WantedIsRow ==
  ASSUME LockIInv, NEW t \in Transactions, Wants(t)
  PROVE  Wanted(t) \in Rows
<1>1. plan[t] \in Plans /\ next[t] \in 1..Len(plan[t].locks)
  BY PlanLocks DEF LockIInv, LockShape, Wants, Open
<1>2. plan[t].locks \in Seq(Rows)
  BY <1>1, PlanLocks
<1> QED BY <1>1, <1>2 DEF Wanted

\* Among those that wait, the one that holds the highest row waits for nobody.
LEMMA OrderStopsNobody ==
  ASSUME LockIInv, NEW bound \in Nat, NEW rank \in [Rows -> 0..bound],
         NEW S \in SUBSET Transactions, S # {}, Stuck(S),
         \A t \in S : plan[t] \in Plans => RankedPlan(rank, plan[t])
  PROVE  FALSE
<1> DEFINE D == {rank[Wanted(t)] : t \in S}
<1>0. rank \in [Rows -> Nat]
  OBVIOUS
<1>1. ASSUME NEW t \in S PROVE Wants(t) /\ Wanted(t) \in Rows
  <2>1. Wants(t)
    BY DEF Stuck, Waits
  <2> QED BY <2>1, WantedIsRow
<1>2. D \subseteq 0..bound /\ D # {}
  BY <1>1
<1>3. PICK d \in D : \A e \in D : e <= d
  <2> HIDE DEF D
  <2> QED BY <1>2, Greatest
<1>4. PICK t \in S : d = rank[Wanted(t)]
  OBVIOUS
<1>5. PICK u \in S : Waits(t, u)
  BY DEF Stuck
<1>6. Wanted(t) \in HeldRows(u) /\ Wants(u)
  BY <1>1, <1>5 DEF Waits
<1>7. rank[Wanted(t)] < rank[Wanted(u)]
  <2>1. plan[u] \in Plans
    BY <1>6 DEF LockIInv, LockShape, Wants, Open
  <2> QED
    BY <1>0, <1>6, <2>1, Upwards
<1>8. rank[Wanted(u)] <= rank[Wanted(t)]
  BY <1>3, <1>4
<1>9. rank[Wanted(t)] \in Nat /\ rank[Wanted(u)] \in Nat
  BY <1>0, <1>1
<1> QED BY <1>7, <1>8, <1>9

\* A transaction that changes nothing, or gives locks back, holds no new row.
LEMMA FewerRows ==
  ASSUME NEW u \in Transactions, Open(u)', plan'[u] = plan[u], held'[u] \subseteq held[u]
  PROVE  HeldRows(u)' \subseteq HeldRows(u) /\ Open(u)
BY DEF HeldRows, Open

\* A lock is given only on a row that nobody else holds.
LEMMA StepExcludes ==
  LockIInv /\ OneHolder /\ [LockNext]_lockVars => OneHolder'
<1> SUFFICES ASSUME LockIInv, OneHolder, [LockNext]_lockVars,
                    NEW v \in Transactions, NEW w \in Transactions, v # w,
                    Open(v)', Open(w)'
             PROVE  HeldRows(v)' \intersect HeldRows(w)' = {}
  BY DEF OneHolder
<1> DEFINE Fewer(u) == HeldRows(u)' \subseteq HeldRows(u) /\ Open(u)
<1>1. ASSUME Fewer(v), Fewer(w) PROVE HeldRows(v)' \intersect HeldRows(w)' = {}
  <2>1. HeldRows(v) \intersect HeldRows(w) = {}
    BY <1>1 DEF OneHolder
  <2> QED BY <1>1, <2>1
<1>2. CASE UNCHANGED lockVars
  <2>1. Fewer(v) /\ Fewer(w)
    BY <1>2, FewerRows DEF lockVars
  <2> QED BY <2>1, <1>1
<1>3. ASSUME NEW t \in Transactions, NEW p \in Plans, BeginTransaction(t, p)
      PROVE  HeldRows(v)' \intersect HeldRows(w)' = {}
  <2>1. ASSUME NEW u \in Transactions, Open(u)' PROVE HeldRows(u)' = {} \/ Fewer(u)
    <3>1. CASE u = t
      BY <1>3, <3>1 DEF BeginTransaction, LockIInv, Behind, HeldRows
    <3>2. CASE u # t
      BY <1>3, <3>2, <2>1, FewerRows DEF BeginTransaction, LockIInv, LockShape
    <3> QED BY <3>1, <3>2
  <2> QED BY <2>1, <1>1
<1>4. ASSUME NEW t \in Transactions, Ends(t) \/ \E s, after : RejectLine(t, s, after)
      PROVE  HeldRows(v)' \intersect HeldRows(w)' = {}
  <2>1. ASSUME NEW u \in Transactions, Open(u)' PROVE Fewer(u)
    <3>1. plan'[u] = plan[u] /\ held'[u] \subseteq held[u]
      BY <1>4, <2>1 DEF Ends, RejectLine, LockIInv, LockShape, Open
    <3> QED BY <2>1, <3>1, FewerRows
  <2> QED BY <2>1, <1>1
<1>5. ASSUME NEW t \in Transactions, Lock(t)
      PROVE  HeldRows(v)' \intersect HeldRows(w)' = {}
  <2>1. ASSUME NEW u \in Transactions, Open(u)', u # t PROVE Fewer(u)
    <3>1. plan'[u] = plan[u] /\ held'[u] = held[u]
      BY <1>5, <2>1 DEF Lock, LockIInv, LockShape
    <3> QED BY <2>1, <3>1, FewerRows
  <2>2. HeldRows(t)' = HeldRows(t) \union {Wanted(t)} /\ Open(t)
    <3>1. plan' = plan /\ held'[t] = held[t] \union {next[t]} /\ Open(t)
      BY <1>5 DEF Lock, LockIInv, LockShape, Wants
    <3> QED BY <3>1 DEF HeldRows, Wanted
  <2>3. ASSUME NEW u \in Transactions, u # t, Open(u)' PROVE HeldRows(t)' \intersect HeldRows(u)' = {}
    <3>1. Fewer(u)
      BY <2>1, <2>3
    <3>2. Wanted(t) \notin HeldRows(u)
      BY <1>5, <2>3, <3>1 DEF Lock, Waits
    <3>3. HeldRows(t) \intersect HeldRows(u) = {}
      BY <2>2, <2>3, <3>1 DEF OneHolder
    <3> QED BY <2>2, <3>1, <3>2, <3>3
  <2>4. CASE v = t
    BY <2>3, <2>4
  <2>5. CASE w = t
    BY <2>3, <2>5
  <2>6. CASE v # t /\ w # t
    BY <2>1, <2>6, <1>1
  <2> QED BY <2>4, <2>5, <2>6
<1> QED BY <1>2, <1>3, <1>4, <1>5 DEF LockNext, Commit, Refuse, AbortVictim

\* The variables keep their types.
THEOREM LockTypes == LockSpec => []LockTypeOK
<1>1. LockIInv => LockTypeOK
  BY DEF LockIInv, LockShape, Behind, LockTypeOK, Open
<1> QED BY <1>1, InitKeeps, StepKeeps, PTL DEF LockSpec

\* No row is ever held by two transactions, whatever they lock and in which
\* order, with lines that are rejected and victims that are aborted.
THEOREM RowsAreExclusive == LockSpec => []OneHolder
<1>1. LockInit => OneHolder
  BY DEF LockInit, OneHolder, Open
<1> QED BY <1>1, InitKeeps, StepKeeps, StepExcludes, PTL DEF LockSpec

\* Operations that lock their rows upwards in some rank, however many there
\* are of them and whatever rows they lock, never stop each other.
THEOREM OrderedNoDeadlock ==
  ASSUME NEW CONSTANT bound \in Nat, NEW CONSTANT rank \in [Rows -> 0..bound],
         Ranked(rank)
  PROVE  LockSpec => []NoDeadlock
<1>1. LockIInv => NoDeadlock
  BY OrderStopsNobody DEF NoDeadlock, Ranked
<1> QED BY <1>1, InitKeeps, StepKeeps, PTL DEF LockSpec

(***************************************************************************)
(* The order of this code.  The documents come first, then the quota, the  *)
(* stock of KITCHEN, that of BRANCH and the counter of the orders; the     *)
(* plans that do not invert lock their rows upwards in it.                 *)
(***************************************************************************)

RankOf(r) ==
  CASE r[1] = "delivery_tasks" -> 1
    [] r[1] = "employee_quota_usage" -> 2
    [] r[1] = "inventory_items" -> IF r[3] = "KITCHEN" THEN 3 ELSE 4
    [] r[1] = "company_order_counters" -> 5
    [] OTHER -> 0

CodeRank == [r \in Rows |-> RankOf(r)]

LEMMA RankIsBounded == CodeRank \in [Rows -> 0..5]
BY DEF CodeRank, RankOf

\* Where each row stands.
LEMMA RanksOfRows ==
  /\ {TheOrder, TheTask, TheTransfer, TheCounter} \subseteq Rows
  /\ CodeRank[TheOrder] = 0 /\ CodeRank[TheTransfer] = 0
  /\ CodeRank[TheTask] = 1 /\ CodeRank[TheCounter] = 5
  /\ \A p \in Products :
       /\ {Usage(p), Stock("KITCHEN", p), Stock("BRANCH", p)} \subseteq Rows
       /\ CodeRank[Usage(p)] = 2
       /\ CodeRank[Stock("KITCHEN", p)] = 3 /\ CodeRank[Stock("BRANCH", p)] = 4
<1>1. /\ {TheOrder, TheTask, TheTransfer, TheCounter} \subseteq Rows
      /\ \A p \in Products : {Usage(p), Stock("KITCHEN", p), Stock("BRANCH", p)} \subseteq Rows
  BY PlansOfRows DEF LockRows
<1>2. /\ RankOf(TheOrder) = 0 /\ RankOf(TheTransfer) = 0
      /\ RankOf(TheTask) = 1 /\ RankOf(TheCounter) = 5
  BY DEF RankOf, TheOrder, TheTransfer, TheTask, TheCounter
<1>3. ASSUME NEW p \in Products
      PROVE  RankOf(Usage(p)) = 2 /\ RankOf(Stock("KITCHEN", p)) = 3 /\ RankOf(Stock("BRANCH", p)) = 4
  BY DEF RankOf, Usage, Stock
<1> QED
  BY <1>1, <1>2, <1>3 DEF CodeRank

\* A list of one list, and one of two, put together.
LEMMA FlattenOne == ASSUME NEW s PROVE FlattenSeq(<<s>>) = s
<1> DEFINE f == [i \in 1..1 |-> s]
           IsFlat(g) == g = [i \in 1..Len(<<s>>) |-> IF i = 1 THEN <<s>>[i] ELSE g[i - 1] \o <<s>>[i]]
<1>1. Len(<<s>>) = 1 /\ <<s>>[1] = s
  OBVIOUS
<1>2. IsFlat(f)
  BY <1>1
<1>3. ASSUME NEW g, IsFlat(g) PROVE g[1] = s
  BY <1>1, <1>3
<1>4. IsFlat(CHOOSE g : IsFlat(g))
  <2> HIDE DEF IsFlat, f
  <2> QED
    BY <1>2
<1>5. (CHOOSE g : IsFlat(g))[1] = s
  <2> HIDE DEF IsFlat
  <2> QED
    BY <1>3, <1>4
<1> QED
  BY <1>1, <1>5 DEF FlattenSeq

LEMMA FlattenTwo == ASSUME NEW s, NEW t PROVE FlattenSeq(<<s, t>>) = s \o t
<1> DEFINE both == <<s, t>>
           f == [i \in 1..2 |-> IF i = 1 THEN s ELSE s \o t]
           IsFlat(g) == g = [i \in 1..Len(both) |-> IF i = 1 THEN both[i] ELSE g[i - 1] \o both[i]]
<1>1. Len(both) = 2 /\ both[1] = s /\ both[2] = t
  OBVIOUS
<1>2. IsFlat(f)
  <2>1. f[1] = s
    OBVIOUS
  <2>2. \A i \in 1..2 : i = 1 \/ i = 2
    OBVIOUS
  <2> HIDE DEF both
  <2>3. [i \in 1..Len(both) |-> IF i = 1 THEN both[i] ELSE f[i - 1] \o both[i]]
          = [i \in 1..2 |-> IF i = 1 THEN s ELSE s \o t]
    BY <1>1, <2>1, <2>2
  <2> QED
    BY <2>3
<1>3. ASSUME NEW g, IsFlat(g) PROVE g[2] = s \o t
  <2> HIDE DEF both
  <2>1. g[1] = s
    BY <1>1, <1>3
  <2>2. \A i \in 1..Len(both) : i # 1 => g[i] = g[i - 1] \o both[i]
    BY <1>3
  <2>3. 2 \in 1..Len(both) /\ 2 # 1 /\ 2 - 1 = 1
    BY <1>1
  <2> QED
    BY <1>1, <2>1, <2>2, <2>3
<1>4. IsFlat(CHOOSE g : IsFlat(g))
  <2> HIDE DEF IsFlat, f
  <2> QED
    BY <1>2
<1>5. (CHOOSE g : IsFlat(g))[2] = s \o t
  <2> HIDE DEF IsFlat
  <2> QED
    BY <1>3, <1>4
<1>6. FlattenSeq(both) = (CHOOSE g : IsFlat(g))[Len(both)]
  <2> HIDE DEF both
  <2> QED
    BY <1>1 DEF FlattenSeq
<1> QED
  BY <1>1, <1>5, <1>6

\* A plan of one row, and plans of up to four that rise.
LEMMA RisingPlans ==
  ASSUME NEW p, NEW w, NEW x, NEW y, NEW z
  PROVE  /\ p.locks = <<w>> => RankedPlan(CodeRank, p)
         /\ p.locks = <<w, x>> /\ CodeRank[w] < CodeRank[x] => RankedPlan(CodeRank, p)
         /\ /\ p.locks = <<w, x, y>> /\ CodeRank[w] \in Nat /\ CodeRank[x] \in Nat /\ CodeRank[y] \in Nat
            /\ CodeRank[w] < CodeRank[x] /\ CodeRank[x] < CodeRank[y]
            => RankedPlan(CodeRank, p)
         /\ /\ p.locks = <<w, x, y, z>>
            /\ CodeRank[w] \in Nat /\ CodeRank[x] \in Nat /\ CodeRank[y] \in Nat /\ CodeRank[z] \in Nat
            /\ CodeRank[w] < CodeRank[x] /\ CodeRank[x] < CodeRank[y] /\ CodeRank[y] < CodeRank[z]
            => RankedPlan(CodeRank, p)
<1>1. p.locks = <<w>> => RankedPlan(CodeRank, p)
  BY DEF RankedPlan
<1>2. ASSUME p.locks = <<w, x>>, CodeRank[w] < CodeRank[x] PROVE RankedPlan(CodeRank, p)
  BY <1>2 DEF RankedPlan
<1>3. ASSUME p.locks = <<w, x, y>>, CodeRank[w] \in Nat, CodeRank[x] \in Nat, CodeRank[y] \in Nat,
             CodeRank[w] < CodeRank[x], CodeRank[x] < CodeRank[y]
      PROVE  RankedPlan(CodeRank, p)
  BY <1>3 DEF RankedPlan
<1>4. ASSUME p.locks = <<w, x, y, z>>, CodeRank[w] \in Nat, CodeRank[x] \in Nat,
             CodeRank[y] \in Nat, CodeRank[z] \in Nat,
             CodeRank[w] < CodeRank[x], CodeRank[x] < CodeRank[y], CodeRank[y] < CodeRank[z]
      PROVE  RankedPlan(CodeRank, p)
  BY <1>4 DEF RankedPlan
<1> QED
  BY <1>1, <1>2, <1>3, <1>4

\* A list that has the elements of one and then those of another.
LEMMA IsAppended ==
  ASSUME NEW S, NEW s \in Seq(S), NEW t \in Seq(S), NEW u \in Seq(S), Len(u) = Len(s) + Len(t),
         \A i \in 1..Len(u) : u[i] = IF i <= Len(s) THEN s[i] ELSE t[i - Len(s)]
  PROVE  s \o t = u
<1>1. s \o t \in Seq(S) /\ Len(s \o t) = Len(u)
  OBVIOUS
<1>2. \A i \in 1..Len(s \o t) : (s \o t)[i] = u[i]
  BY <1>1
<1> QED
  BY <1>1, <1>2, SeqEqual

\* Short lists, one after the other.
LEMMA Appended ==
  /\ \A b, c : <<b>> \o <<c>> = <<b, c>>
  /\ \A b, c, d : <<b>> \o <<c, d>> = <<b, c, d>>
  /\ \A b, c, d, e : <<b, c, d>> \o <<e>> = <<b, c, d, e>>
  /\ \A b, c, d, e, f, g : <<b, c, d>> \o <<e, f, g>> = <<b, c, d, e, f, g>>
  /\ \A b, c, d, e, f, g, h : <<b, c, d, e, f, g>> \o <<h>> = <<b, c, d, e, f, g, h>>
<1> DEFINE Joins(S, s, t, u) ==
             /\ s \in Seq(S) /\ t \in Seq(S) /\ u \in Seq(S) /\ Len(u) = Len(s) + Len(t)
             /\ \A i \in 1..Len(u) : u[i] = IF i <= Len(s) THEN s[i] ELSE t[i - Len(s)]
<1>1. ASSUME NEW S, NEW s, NEW t, NEW u, Joins(S, s, t, u) PROVE s \o t = u
  BY <1>1, IsAppended
<1>2. ASSUME NEW b, NEW c PROVE <<b>> \o <<c>> = <<b, c>>
  <2>1. Joins({b, c}, <<b>>, <<c>>, <<b, c>>)
    OBVIOUS
  <2> HIDE DEF Joins
  <2> QED
    BY <1>1, <2>1
<1>3. ASSUME NEW b, NEW c, NEW d PROVE <<b>> \o <<c, d>> = <<b, c, d>>
  <2>1. Joins({b, c, d}, <<b>>, <<c, d>>, <<b, c, d>>)
    OBVIOUS
  <2> HIDE DEF Joins
  <2> QED
    BY <1>1, <2>1
<1>4. ASSUME NEW b, NEW c, NEW d, NEW e PROVE <<b, c, d>> \o <<e>> = <<b, c, d, e>>
  <2>1. Joins({b, c, d, e}, <<b, c, d>>, <<e>>, <<b, c, d, e>>)
    OBVIOUS
  <2> HIDE DEF Joins
  <2> QED
    BY <1>1, <2>1
<1>5. ASSUME NEW b, NEW c, NEW d, NEW e, NEW f, NEW g PROVE <<b, c, d>> \o <<e, f, g>> = <<b, c, d, e, f, g>>
  <2>1. Joins({b, c, d, e, f, g}, <<b, c, d>>, <<e, f, g>>, <<b, c, d, e, f, g>>)
    OBVIOUS
  <2> HIDE DEF Joins
  <2> QED
    BY <1>1, <2>1
<1>6. ASSUME NEW b, NEW c, NEW d, NEW e, NEW f, NEW g, NEW h PROVE <<b, c, d, e, f, g>> \o <<h>> = <<b, c, d, e, f, g, h>>
  <2>1. Joins({b, c, d, e, f, g, h}, <<b, c, d, e, f, g>>, <<h>>, <<b, c, d, e, f, g, h>>)
    OBVIOUS
  <2> HIDE DEF Joins
  <2> QED
    BY <1>1, <2>1
<1> QED
  BY <1>2, <1>3, <1>4, <1>5, <1>6

\* What a cart of one product and one of two lock.
LEMMA CartLocks ==
  ASSUME NEW x, NEW y
  PROVE  /\ CreateOrder(<<x>>).locks
              = <<Usage(x), Stock("KITCHEN", x), Stock("BRANCH", x), TheCounter>>
         /\ CreateOrder(<<x, y>>).locks
              = <<Usage(x), Stock("KITCHEN", x), Stock("BRANCH", x),
                  Usage(y), Stock("KITCHEN", y), Stock("BRANCH", y), TheCounter>>
<1> DEFINE Line(p) == <<Usage(p)>> \o ReserveLocks(p)
<1>1. ASSUME NEW p PROVE Line(p) = <<Usage(p), Stock("KITCHEN", p), Stock("BRANCH", p)>>
  BY Appended DEF ReserveLocks
<1>2. [i \in DOMAIN <<x>> |-> Line(<<x>>[i])] = <<Line(x)>>
  OBVIOUS
<1>3. [i \in DOMAIN <<x, y>> |-> Line(<<x, y>>[i])] = <<Line(x), Line(y)>>
  OBVIOUS
<1>4. CreateOrder(<<x>>).locks = FlattenSeq([i \in DOMAIN <<x>> |-> Line(<<x>>[i])]) \o <<TheCounter>>
  BY DEF CreateOrder
<1>5. CreateOrder(<<x, y>>).locks
        = FlattenSeq([i \in DOMAIN <<x, y>> |-> Line(<<x, y>>[i])]) \o <<TheCounter>>
  BY DEF CreateOrder
<1> HIDE DEF Line
<1>6. CreateOrder(<<x>>).locks = Line(x) \o <<TheCounter>>
  BY <1>2, <1>4, FlattenOne
<1>7. CreateOrder(<<x, y>>).locks = (Line(x) \o Line(y)) \o <<TheCounter>>
  BY <1>3, <1>5, FlattenTwo
<1>8. CreateOrder(<<x>>).locks = <<Usage(x), Stock("KITCHEN", x), Stock("BRANCH", x), TheCounter>>
  BY <1>1, <1>6, Appended
<1>9. CreateOrder(<<x, y>>).locks
        = <<Usage(x), Stock("KITCHEN", x), Stock("BRANCH", x),
            Usage(y), Stock("KITCHEN", y), Stock("BRANCH", y), TheCounter>>
  <2>1. Line(x) \o Line(y) = <<Usage(x), Stock("KITCHEN", x), Stock("BRANCH", x),
                              Usage(y), Stock("KITCHEN", y), Stock("BRANCH", y)>>
    <3>1. ASSUME NEW b, NEW c, NEW d, NEW e, NEW f, NEW g,
                 Line(x) = <<b, c, d>>, Line(y) = <<e, f, g>>
          PROVE  Line(x) \o Line(y) = <<b, c, d, e, f, g>>
      BY <3>1, Appended
    <3> QED
      BY <1>1, <3>1
  <2> QED
    BY <1>7, <2>1, Appended
<1> QED
  BY <1>8, <1>9

\* The plans that keep to one order are ranked,
LEMMA OrderedAreRanked == \A p \in OrderedPlans : RankedPlan(CodeRank, p)
<1>1. ASSUME NEW p \in Products PROVE RankedPlan(CodeRank, CreateOrder(<<p>>))
  <2>1. CreateOrder(<<p>>).locks
          = <<Usage(p), Stock("KITCHEN", p), Stock("BRANCH", p), TheCounter>>
    BY CartLocks
  <2> QED
    BY <2>1, RanksOfRows, RisingPlans
<1>2. ASSUME NEW p \in Products PROVE RankedPlan(CodeRank, PrepareOrder(ReserveLocks(p)))
  <2>1. PrepareOrder(ReserveLocks(p)).locks = <<TheOrder, Stock("KITCHEN", p), Stock("BRANCH", p)>>
    BY Appended DEF PrepareOrder, ReserveLocks, Plan
  <2> QED
    BY <2>1, RanksOfRows, RisingPlans
<1>3. ASSUME NEW p \in Products, NEW zone \in {"KITCHEN", "BRANCH"}
      PROVE  RankedPlan(CodeRank, AdjustStock(zone, p))
  BY RisingPlans DEF AdjustStock, Plan
<1>4. ASSUME NEW p \in Products PROVE RankedPlan(CodeRank, ConfirmTransfer("KITCHEN", "BRANCH", p))
  <2>1. ConfirmTransfer("KITCHEN", "BRANCH", p).locks
          = <<TheTransfer, Stock("KITCHEN", p), Stock("BRANCH", p)>>
    BY DEF ConfirmTransfer, Plan
  <2> QED
    BY <2>1, RanksOfRows, RisingPlans
<1>5. RankedPlan(CodeRank, UpdateOrder) /\ RankedPlan(CodeRank, TransitionDelivery)
  BY RisingPlans DEF UpdateOrder, TransitionDelivery, Plan
<1>6. RankedPlan(CodeRank, ReportOrderIssue)
  BY RanksOfRows, RisingPlans DEF ReportOrderIssue, Plan
<1>7. ASSUME NEW p \in OrderedPlans
      PROVE  \/ \E x \in Products :
                  p \in {CreateOrder(<<x>>), PrepareOrder(ReserveLocks(x)),
                        ConfirmTransfer("KITCHEN", "BRANCH", x)}
             \/ \E x \in Products, zone \in {"KITCHEN", "BRANCH"} : p = AdjustStock(zone, x)
             \/ p \in {UpdateOrder, ReportOrderIssue, TransitionDelivery}
  BY DEF OrderedPlans
<1> QED
  BY <1>1, <1>2, <1>3, <1>3, <1>4, <1>5, <1>6, <1>7

\* A cart of two products locks the stock of both.
LEMMA TwoProductsInvert ==
  ASSUME NEW x \in Products, NEW y \in Products, x # y
  PROVE  Inverts(CreateOrder(<<x, y>>))
<1> DEFINE Names(p) == {p.locks[i][2] : i \in {j \in DOMAIN p.locks : p.locks[j][1] = "inventory_items"}}
<1>1. Cardinality({x, y}) = 2
  <2>1. IsFiniteSet({x}) /\ Cardinality({x}) = 1
    BY FS_Singleton
  <2>2. {x, y} = {x} \union {y} /\ y \notin {x}
    OBVIOUS
  <2> QED
    BY <2>1, <2>2, FS_AddElement
<1>2. ASSUME NEW p, p.kind = "create", Names(p) = {x, y} PROVE Inverts(p)
  <2>1. PICK N : N = Names(p)
    OBVIOUS
  <2>2. N = {x, y}
    BY <1>2, <2>1
  <2>3. Cardinality(N) = 2
    BY <1>1, <2>2, Zenon
  <2>4. Cardinality(N) > 1
    BY <2>3
  <2> QED
    BY <1>2, <2>1, <2>4, Zenon DEF Inverts
<1>3. Names(CreateOrder(<<x, y>>)) = {x, y}
  <2> DEFINE p == CreateOrder(<<x, y>>)
  <2>1. p.locks = <<Usage(x), Stock("KITCHEN", x), Stock("BRANCH", x),
                    Usage(y), Stock("KITCHEN", y), Stock("BRANCH", y), TheCounter>>
    BY CartLocks
  <2> HIDE DEF p
  <2>2. DOMAIN p.locks = 1..7
    BY <2>1
  <2>3. /\ p.locks[1][1] = "employee_quota_usage" /\ p.locks[4][1] = "employee_quota_usage"
        /\ p.locks[7][1] = "company_order_counters"
        /\ p.locks[2] = <<"inventory_items", x, "KITCHEN">>
        /\ p.locks[3] = <<"inventory_items", x, "BRANCH">>
        /\ p.locks[5] = <<"inventory_items", y, "KITCHEN">>
        /\ p.locks[6] = <<"inventory_items", y, "BRANCH">>
        /\ p.locks[2][2] = x /\ p.locks[3][2] = x /\ p.locks[5][2] = y /\ p.locks[6][2] = y
    BY <2>1 DEF Usage, Stock, TheCounter
  <2>4. {j \in DOMAIN p.locks : p.locks[j][1] = "inventory_items"} = {2, 3, 5, 6}
    BY <2>2, <2>3
  <2>5. {p.locks[i][2] : i \in {2, 3, 5, 6}} = {x, y}
    BY <2>3
  <2>6. Names(p) = {x, y}
    BY <2>4, <2>5
  <2> QED
    BY <2>6 DEF p
<1>4. CreateOrder(<<x, y>>).kind = "create"
  BY DEF CreateOrder
<1> HIDE DEF Names
<1> QED
  BY <1>2, <1>3, <1>4

\* and every other plan is, or inverts.
LEMMA RankedOrInverts == \A p \in AllPlans : Inverts(p) \/ RankedPlan(CodeRank, p)
<1>1. ASSUME NEW lines \in Carts
      PROVE  Inverts(CreateOrder(lines)) \/ RankedPlan(CodeRank, CreateOrder(lines))
  <2>1. CASE \E x \in Products : lines = <<x>>
    BY <2>1, OrderedAreRanked DEF OrderedPlans
  <2>2. CASE \E x \in Products, y \in Products : x # y /\ lines = <<x, y>>
    BY <2>2, TwoProductsInvert
  <2> QED
    BY <2>1, <2>2 DEF Carts, Distinct
<1>2. ASSUME NEW stock \in Reserved
      PROVE  Inverts(PrepareOrder(stock)) \/ RankedPlan(CodeRank, PrepareOrder(stock))
  <2>1. CASE \E zone \in {"KITCHEN", "BRANCH"}, x \in Products : stock = <<Stock(zone, x)>>
    <3>1. PICK zone \in {"KITCHEN", "BRANCH"}, x \in Products : stock = <<Stock(zone, x)>>
      BY <2>1
    <3>2. PrepareOrder(stock).locks = <<TheOrder, Stock(zone, x)>>
      BY <3>1, Appended DEF PrepareOrder, Plan
    <3> QED
      BY <3>2, RanksOfRows, RisingPlans
  <2>2. CASE \E r, s : stock = <<r, s>>
    <3>1. PICK r, s : stock = <<r, s>>
      BY <2>2
    <3>2. PrepareOrder(stock).locks = <<TheOrder, r, s>> /\ PrepareOrder(stock).kind = "prepare"
      BY <3>1, Appended DEF PrepareOrder, Plan
    <3> QED
      BY <3>2 DEF Inverts
  <2> QED
    BY <2>1, <2>2 DEF Reserved, Distinct
<1>3. ASSUME NEW stock \in Reserved PROVE Inverts(GiveUpOrder(stock))
  BY DEF Inverts, GiveUpOrder, Plan
<1>4. /\ \A p \in Products : Inverts(ConfirmTransfer("BRANCH", "KITCHEN", p))
      /\ Inverts(ResumeDelivery) /\ Inverts(QueueDeliveries)
  BY DEF Inverts, ConfirmTransfer, ToZone, ResumeDelivery, QueueDeliveries, Plan
<1>5. /\ \A zone \in {"KITCHEN", "BRANCH"}, p \in Products : AdjustStock(zone, p) \in OrderedPlans
      /\ \A p \in Products : ConfirmTransfer("KITCHEN", "BRANCH", p) \in OrderedPlans
      /\ {UpdateOrder, ReportOrderIssue, TransitionDelivery} \subseteq OrderedPlans
  BY DEF OrderedPlans
<1> QED
  BY <1>1, <1>2, <1>3, <1>4, <1>5, OrderedAreRanked DEF AllPlans

\* Those of a deadlock have one among them that inverts; and while all keep to
\* the one order there is none.
LEMMA InvertersAlone == LockIInv => DeadlockHasInverter
<1> SUFFICES ASSUME LockIInv, NEW S \in SUBSET Transactions, S # {}, Stuck(S),
                    \A t \in S : ~ Inverts(plan[t])
             PROVE  FALSE
  BY DEF DeadlockHasInverter
<1>1. \A t \in S : plan[t] \in Plans => RankedPlan(CodeRank, plan[t])
  BY RankedOrInverts, PlansOfRows
<1> QED
  BY <1>1, RankIsBounded, OrderStopsNobody

LEMMA OrderedAlone ==
  ASSUME LockIInv, \A t \in Transactions : plan[t] \in OrderedPlans \union {NoPlan}
  PROVE  NoDeadlock
<1> SUFFICES ASSUME NEW S \in SUBSET Transactions, S # {}, Stuck(S)
             PROVE  FALSE
  BY DEF NoDeadlock
<1>1. \A t \in S : plan[t] \in Plans => RankedPlan(CodeRank, plan[t])
  BY OrderedAreRanked, PlanLocks
<1> QED
  BY <1>1, RankIsBounded, OrderStopsNobody

\* Whatever the transactions of this code lock, for any number of products: in
\* every deadlock stands one of the operations that leave the order.
THEOREM InvertersDeadlock == LockSpec => []DeadlockHasInverter
BY InvertersAlone, InitKeeps, StepKeeps, PTL DEF LockSpec

-----------------------------------------------------------------------------
(***************************************************************************)
(* The catalogue.  A version is published after its update was saved, so   *)
(* that whoever reads the products for that version finds the update; and  *)
(* whoever computes a key is the one its flight names.                     *)
(***************************************************************************)

Callers == Readers \union {Updater}

\* What the version v stands for is saved, or is found in shown.
SavedVersion(v) == v = 0 \/ \E u \in listed : u[2] = v
ShowsVersion(v, shown) == v = 0 \/ \E u \in shown : u[2] = v

\* What a call has read, and what its flight says of it.
CatalogCallFits(p, c) ==
  /\ c \in Shared!CallRecords
  /\ c.at = "commit" => c.update \in Shared!Updates
  /\ c.at = "publish" => c.update \in listed
  /\ c.at \in {"writeVersion", "snapshot", "findAll", "writeSnapshot", "answer"}
       => c.version \in Shared!Versions /\ SavedVersion(c.version)
  /\ c.at = "writeSnapshot" => c.shown \subseteq listed /\ ShowsVersion(c.version, c.shown)
  /\ c.at \in {"max", "writeVersion"} => p \in Readers /\ flight[Shared!VersionKey] = p
  /\ c.at \in {"findAll", "writeSnapshot"} => p \in Readers /\ flight[c.version] = p

\* What is saved, published and cached.
CatalogFits ==
  /\ made \in 0..MaxUpdates /\ clock \in 0..made
  /\ listed \subseteq Shared!Updates
  /\ version \in Shared!Versions \union {Null}
  /\ version # Null => SavedVersion(version)
  /\ DOMAIN snapshot = Shared!Versions
  /\ \A v \in Shared!Versions :
       snapshot[v] # Null => snapshot[v] \subseteq listed /\ ShowsVersion(v, snapshot[v])
  /\ flight \in [Shared!Keys -> Readers \union {Null}]

SharedInv ==
  /\ CatalogFits
  /\ DOMAIN catalogCall = Callers
  /\ \A p \in Callers : CatalogCallFits(p, catalogCall[p])

\* The bounds, the keys and the calls that are over.
LEMMA SharedShape ==
  /\ MaxUpdates \in Nat /\ Null \notin Readers /\ Updater \notin Readers
  /\ Null \notin Shared!Versions
  /\ Shared!VersionKey \notin Shared!Versions /\ 0 \in Shared!Versions
  /\ Shared!Keys = Shared!Versions \union {Shared!VersionKey}
  /\ Shared!Idle \in Shared!CallRecords /\ Shared!Idle.at = "idle"
BY CatalogsAssumption
DEF Shared!CatalogAssumption, Shared!Versions, Shared!VersionKey, Shared!Keys, Shared!Idle, Shared!CallRecords

\* A call that has nothing to do with a step stays as it was.
LEMMA CatalogCallStays ==
  ASSUME NEW q, NEW c, CatalogCallFits(q, c), listed \subseteq listed',
         c.at \in {"max", "writeVersion"} => flight'[Shared!VersionKey] = q,
         c.at \in {"findAll", "writeSnapshot"} => flight'[c.version] = q
  PROVE  CatalogCallFits(q, c)'
BY DEF CatalogCallFits, SavedVersion, ShowsVersion

\* A step of one call, which takes no flight from another.
LEMMA CatalogCallStep ==
  ASSUME SharedInv, CatalogFits', NEW p \in Callers, NEW c, Shared!Becomes(p, c),
         listed \subseteq listed', CatalogCallFits(p, c)',
         \A key \in Shared!Keys : flight'[key] = flight[key] \/ flight[key] = Null
  PROVE  SharedInv'
<1>1. \A q \in Callers : catalogCall'[q] = IF q = p THEN c ELSE catalogCall[q]
  BY DEF SharedInv, Shared!Becomes
<1>2. DOMAIN catalogCall' = Callers
  BY DEF SharedInv, Shared!Becomes
<1>3. ASSUME NEW q \in Callers, q # p PROVE CatalogCallFits(q, catalogCall[q])'
  <2>1. PICK d : d = catalogCall[q]
    OBVIOUS
  <2>2. CatalogCallFits(q, d)
    BY <2>1 DEF SharedInv
  <2>3. q # Null \/ d.at \notin {"max", "writeVersion", "findAll", "writeSnapshot"}
    BY <2>2, SharedShape DEF CatalogCallFits
  <2>4. CatalogCallFits(q, d)'
    BY <2>2, <2>3, CatalogCallStays, SharedShape DEF CatalogCallFits
  <2> QED
    BY <1>1, <1>3, <2>1, <2>4
<1>4. CatalogCallFits(p, catalogCall[p])'
  BY <1>1
<1> QED
  BY <1>2, <1>3, <1>4 DEF SharedInv

\* What the invariant says of one call.
LEMMA CatalogCallsFit ==
  ASSUME SharedInv, NEW p \in Callers
  PROVE  CatalogCallFits(p, catalogCall[p]) /\ catalogCall[p] \in Shared!CallRecords
BY DEF SharedInv, CatalogCallFits

\* The steps of an update: it takes its time, is saved, and is published.
LEMMA UpdateStep ==
  ASSUME SharedInv, Shared!Update(Updater)
  PROVE  SharedInv'
<1>1. PICK u : u = <<made + 1, clock'>>
  OBVIOUS
<1>2. PICK c : c = [Shared!Idle EXCEPT !.at = "commit", !.update = u]
  OBVIOUS
<1>3. /\ made \in Nat /\ made + 1 \in 1..MaxUpdates
      /\ clock' \in 1..(made + 1) /\ made' = made + 1
  BY SharedShape DEF SharedInv, CatalogFits, Shared!Update
<1>4. u \in Shared!Updates
  BY <1>1, <1>3, SharedShape DEF Shared!Updates, Shared!Versions
<1>5. c \in Shared!CallRecords /\ c.at = "commit" /\ c.update = u
  BY <1>2, <1>4 DEF Shared!Idle, Shared!CallRecords, Shared!Versions
<1>6. Shared!Becomes(Updater, c) /\ UNCHANGED <<listed, version, snapshot, flight>>
  BY <1>1, <1>2 DEF Shared!Update, Shared!redisVars
<1>7. CatalogFits'
  BY <1>3, <1>6, SharedShape DEF SharedInv, CatalogFits, SavedVersion, ShowsVersion
<1>8. CatalogCallFits(Updater, c)'
  BY <1>4, <1>5 DEF CatalogCallFits
<1> QED
  BY <1>6, <1>7, <1>8, CatalogCallStep DEF Callers

LEMMA CommitStep ==
  ASSUME SharedInv, Shared!Commit(Updater)
  PROVE  SharedInv'
<1>1. PICK d : d = catalogCall[Updater]
  OBVIOUS
<1>2. PICK c : c = [d EXCEPT !.at = "publish"]
  OBVIOUS
<1>3. d \in Shared!CallRecords /\ d.at = "commit" /\ d.update \in Shared!Updates
  BY <1>1, CatalogCallsFit DEF Callers, CatalogCallFits, Shared!Commit
<1>4. /\ listed' = listed \union {d.update}
      /\ UNCHANGED <<clock, made, version, snapshot, flight>>
      /\ Shared!Becomes(Updater, c)
  BY <1>1, <1>2 DEF Shared!Commit, Shared!redisVars
<1>5. c \in Shared!CallRecords /\ c.at = "publish" /\ c.update = d.update
  BY <1>2, <1>3 DEF Shared!CallRecords
<1>6. CatalogFits'
  BY <1>3, <1>4, SharedShape DEF SharedInv, CatalogFits, SavedVersion, ShowsVersion
<1>7. CatalogCallFits(Updater, c)'
  BY <1>4, <1>5 DEF CatalogCallFits
<1> QED
  BY <1>4, <1>6, <1>7, CatalogCallStep DEF Callers

\* An update that changes nothing publishes one that is saved.
LEMMA NothingStep ==
  ASSUME SharedInv, Shared!UpdateNothing(Updater)
  PROVE  SharedInv'
<1>1. PICK u \in listed : Shared!Becomes(Updater, [Shared!Idle EXCEPT !.at = "publish", !.update = u])
  BY DEF Shared!UpdateNothing
<1>2. PICK c : c = [Shared!Idle EXCEPT !.at = "publish", !.update = u]
  OBVIOUS
<1>3. c \in Shared!CallRecords /\ c.at = "publish" /\ c.update = u
  BY <1>2 DEF SharedInv, CatalogFits, Shared!Idle, Shared!CallRecords
<1>4. UNCHANGED <<clock, made, listed, version, snapshot, flight>>
  BY DEF Shared!UpdateNothing, Shared!updateVars, Shared!redisVars
<1>5. CatalogFits'
  BY <1>4 DEF SharedInv, CatalogFits, SavedVersion, ShowsVersion
<1>6. CatalogCallFits(Updater, c)'
  BY <1>3, <1>4 DEF CatalogCallFits
<1> QED
  BY <1>1, <1>2, <1>4, <1>5, <1>6, CatalogCallStep DEF Callers

LEMMA PublishStep ==
  ASSUME SharedInv, NEW ok \in BOOLEAN, Shared!Publish(Updater, ok)
  PROVE  SharedInv'
<1>1. PICK d : d = catalogCall[Updater]
  OBVIOUS
<1>2. d \in Shared!CallRecords /\ d.at = "publish" /\ d.update \in listed
  BY <1>1, CatalogCallsFit DEF Callers, CatalogCallFits, Shared!Publish
<1>3. /\ version' \in {version, d.update[2]}
      /\ UNCHANGED <<clock, made, listed, snapshot, flight>>
      /\ Shared!Becomes(Updater, Shared!Idle)
  BY <1>1 DEF Shared!Publish
<1>4. d.update[2] \in Shared!Versions /\ SavedVersion(d.update[2])
  BY <1>2, SharedShape DEF SharedInv, CatalogFits, Shared!Updates, Shared!Versions, SavedVersion
<1>5. CatalogFits'
  BY <1>2, <1>3, <1>4 DEF SharedInv, CatalogFits, SavedVersion, ShowsVersion
<1>6. CatalogCallFits(Updater, Shared!Idle)'
  BY SharedShape DEF CatalogCallFits
<1> QED
  BY <1>3, <1>5, <1>6, CatalogCallStep DEF Callers

\* The latest of the updates that are saved.
LEMMA LatestIsSaved ==
  ASSUME SharedInv
  PROVE  LET v == Shared!Max({u[2] : u \in listed} \union {0})
         IN  v \in Shared!Versions /\ SavedVersion(v)
<1> DEFINE D == {u[2] : u \in listed} \union {0}
<1>1. D \subseteq 0..MaxUpdates /\ D # {}
  BY SharedShape DEF SharedInv, CatalogFits, Shared!Updates, Shared!Versions
<1>2. \A d \in D : SavedVersion(d)
  BY DEF SavedVersion
<1> HIDE DEF D
<1>3. PICK d \in D : \A e \in D : e <= d
  BY <1>1, SharedShape, Greatest
<1>4. Shared!Max(D) \in D
  <2>1. d \in D /\ \A e \in D : d >= e
    BY <1>1, <1>3
  <2> QED
    BY <2>1 DEF Shared!Max
<1>5. Shared!Max(D) \in Shared!Versions /\ SavedVersion(Shared!Max(D))
  BY <1>1, <1>2, <1>4 DEF Shared!Versions
<1> QED
  BY <1>5 DEF D

\* The steps of a request that change nothing but its call.
LEMMA ReaderStep ==
  ASSUME SharedInv, NEW p \in Readers,
         Shared!Request(p) \/ Shared!ComputeVersion(p) \/ Shared!FindAll(p) \/ Shared!Answer(p)
  PROVE  SharedInv'
<1>1. PICK d : d = catalogCall[p]
  OBVIOUS
<1>2. p \in Callers /\ CatalogCallFits(p, d) /\ d \in Shared!CallRecords
  BY <1>1, CatalogCallsFit DEF Callers
<1>3. UNCHANGED <<clock, made, listed, version, snapshot, flight>>
  BY DEF Shared!Request, Shared!ComputeVersion, Shared!FindAll, Shared!Answer,
         Shared!updateVars, Shared!redisVars
<1>4. CatalogFits'
  BY <1>3 DEF SharedInv, CatalogFits, SavedVersion, ShowsVersion
<1>5. ASSUME NEW c, Shared!Becomes(p, c), CatalogCallFits(p, c) PROVE SharedInv'
  <2>1. CatalogCallFits(p, c)'
    BY <1>3, <1>5 DEF CatalogCallFits, SavedVersion, ShowsVersion
  <2> QED
    BY <1>2, <1>3, <1>4, <1>5, <2>1, CatalogCallStep
<1>6. CASE Shared!Request(p)
  <2>1. PICK c : c = [Shared!Idle EXCEPT !.at = "version"]
    OBVIOUS
  <2>2. c \in Shared!CallRecords /\ c.at = "version"
    BY <2>1 DEF Shared!Idle, Shared!CallRecords, SharedInv, CatalogFits
  <2> QED
    BY <1>5, <1>6, <2>1, <2>2 DEF Shared!Request, CatalogCallFits
<1>7. CASE Shared!ComputeVersion(p)
  <2>1. PICK v : v = Shared!Max({u[2] : u \in listed} \union {0})
    OBVIOUS
  <2>2. PICK c : c = [d EXCEPT !.at = "writeVersion", !.version = v]
    OBVIOUS
  <2>3. v \in Shared!Versions /\ SavedVersion(v)
    BY <2>1, LatestIsSaved
  <2>4. c \in Shared!CallRecords /\ c.at = "writeVersion" /\ c.version = v
    BY <1>2, <2>2, <2>3 DEF Shared!CallRecords
  <2>5. p \in Readers /\ flight[Shared!VersionKey] = p
    BY <1>1, <1>2, <1>7 DEF Shared!ComputeVersion, CatalogCallFits
  <2>6. CatalogCallFits(p, c)
    BY <2>3, <2>4, <2>5 DEF CatalogCallFits
  <2>7. Shared!Becomes(p, c)
    BY <1>1, <1>7, <2>1, <2>2 DEF Shared!ComputeVersion
  <2> QED
    BY <1>5, <2>6, <2>7
<1>8. CASE Shared!FindAll(p)
  <2>1. PICK c : c = [d EXCEPT !.at = "writeSnapshot", !.shown = listed]
    OBVIOUS
  <2>2. c \in Shared!CallRecords /\ c.at = "writeSnapshot" /\ c.version = d.version /\ c.shown = listed
    BY <1>2, <2>1 DEF Shared!CallRecords, SharedInv, CatalogFits
  <2>3. d.version \in Shared!Versions /\ SavedVersion(d.version) /\ flight[d.version] = p
    BY <1>1, <1>2, <1>8 DEF Shared!FindAll, CatalogCallFits
  <2>4. CatalogCallFits(p, c)
    BY <2>2, <2>3 DEF CatalogCallFits, SavedVersion, ShowsVersion
  <2>5. Shared!Becomes(p, c)
    BY <1>1, <1>8, <2>1 DEF Shared!FindAll
  <2> QED
    BY <1>5, <2>4, <2>5
<1>9. CASE Shared!Answer(p)
  BY <1>5, <1>9, SharedShape DEF Shared!Answer, CatalogCallFits
<1> QED
  BY <1>6, <1>7, <1>8, <1>9

\* Who needs a key starts its flight or waits for it.
LEMMA FliesStep ==
  ASSUME SharedInv, NEW p \in Readers, NEW key \in Shared!Keys, NEW at, NEW d,
         d = catalogCall[p], Shared!Flies(p, key, d, at),
         UNCHANGED <<clock, made, listed, version, snapshot>>,
         \/ at = "max" /\ key = Shared!VersionKey
         \/ at = "findAll" /\ d.at = "snapshot" /\ key = d.version
  PROVE  SharedInv'
<1>1. p \in Callers /\ CatalogCallFits(p, d) /\ d \in Shared!CallRecords
  BY CatalogCallsFit DEF Callers
<1>2. CASE flight[key] = Null
  <2>1. PICK c : c = [d EXCEPT !.at = at]
    OBVIOUS
  <2>2. c \in Shared!CallRecords /\ c.at = at /\ c.version = d.version
    BY <1>1, <2>1 DEF Shared!CallRecords
  <2>3. flight' = [flight EXCEPT ![key] = p] /\ Shared!Becomes(p, c)
    BY <1>2, <2>1 DEF Shared!Flies
  <2>4. flight'[key] = p /\ \A k \in Shared!Keys : flight'[k] = flight[k] \/ flight[k] = Null
    BY <1>2, <2>3 DEF SharedInv, CatalogFits
  <2>5. CatalogFits'
    BY <2>3 DEF SharedInv, CatalogFits, SavedVersion, ShowsVersion
  <2>6. CatalogCallFits(p, c)'
    BY <1>1, <2>2, <2>4 DEF CatalogCallFits, SavedVersion
  <2> QED
    BY <1>1, <2>3, <2>4, <2>5, <2>6, CatalogCallStep
<1>3. CASE flight[key] # Null
  <2>1. PICK c : c = [d EXCEPT !.at = "wait"]
    OBVIOUS
  <2>2. c \in Shared!CallRecords /\ c.at = "wait" /\ c.version = d.version
    BY <1>1, <2>1 DEF Shared!CallRecords
  <2>3. flight' = flight /\ Shared!Becomes(p, c)
    BY <1>3, <2>1 DEF Shared!Flies
  <2>4. CatalogFits'
    BY <2>3 DEF SharedInv, CatalogFits, SavedVersion, ShowsVersion
  <2>5. CatalogCallFits(p, c)'
    BY <2>2 DEF CatalogCallFits
  <2> QED
    BY <1>1, <2>3, <2>4, <2>5, CatalogCallStep
<1> QED
  BY <1>2, <1>3

\* The version and the snapshot are read from Redis, or computed.
LEMMA ReadStep ==
  ASSUME SharedInv, NEW p \in Readers, NEW ok \in BOOLEAN,
         Shared!ReadVersion(p, ok) \/ Shared!ReadSnapshot(p, ok)
  PROVE  SharedInv'
<1>1. PICK d : d = catalogCall[p]
  OBVIOUS
<1>2. p \in Callers /\ CatalogCallFits(p, d) /\ d \in Shared!CallRecords
  BY <1>1, CatalogCallsFit DEF Callers
<1>3. UNCHANGED <<clock, made, listed, version, snapshot>>
  BY DEF Shared!ReadVersion, Shared!ReadSnapshot, Shared!updateVars, Shared!redisVars
<1>4. ASSUME NEW c, Shared!Becomes(p, c), CatalogCallFits(p, c), UNCHANGED flight PROVE SharedInv'
  <2>1. CatalogCallFits(p, c)'
    BY <1>3, <1>4 DEF CatalogCallFits, SavedVersion, ShowsVersion
  <2>2. CatalogFits'
    BY <1>3, <1>4 DEF SharedInv, CatalogFits, SavedVersion, ShowsVersion
  <2> QED
    BY <1>2, <1>3, <1>4, <2>1, <2>2, CatalogCallStep
<1>5. CASE Shared!ReadVersion(p, ok)
  <2>1. CASE ok /\ version # Null
    <3>1. PICK c : c = [d EXCEPT !.at = "snapshot", !.version = version]
      OBVIOUS
    <3>2. version \in Shared!Versions /\ SavedVersion(version)
      BY <2>1 DEF SharedInv, CatalogFits
    <3>3. c \in Shared!CallRecords /\ c.at = "snapshot" /\ c.version = version
      BY <1>2, <3>1, <3>2 DEF Shared!CallRecords
    <3>4. Shared!Becomes(p, c) /\ UNCHANGED flight
      BY <1>1, <1>5, <2>1, <3>1 DEF Shared!ReadVersion
    <3> QED
      BY <1>4, <3>2, <3>3, <3>4 DEF CatalogCallFits
  <2>2. CASE ~ (ok /\ version # Null)
    <3>1. Shared!Flies(p, Shared!VersionKey, d, "max")
      BY <1>1, <1>5, <2>2 DEF Shared!ReadVersion
    <3> QED
      BY <1>1, <1>3, <3>1, SharedShape, FliesStep
  <2> QED
    BY <2>1, <2>2
<1>6. CASE Shared!ReadSnapshot(p, ok)
  <2>0. d.at = "snapshot" /\ d.version \in Shared!Versions /\ SavedVersion(d.version)
    BY <1>1, <1>2, <1>6 DEF Shared!ReadSnapshot, CatalogCallFits
  <2>1. CASE ok /\ snapshot[d.version] # Null
    <3>1. PICK c : c = [d EXCEPT !.at = "answer", !.shown = snapshot[d.version]]
      OBVIOUS
    <3>2. snapshot[d.version] \subseteq Shared!Updates
      BY <2>0, <2>1 DEF SharedInv, CatalogFits
    <3>3. c \in Shared!CallRecords /\ c.at = "answer" /\ c.version = d.version
      BY <1>2, <3>1, <3>2 DEF Shared!CallRecords
    <3>4. Shared!Becomes(p, c) /\ UNCHANGED flight
      BY <1>1, <1>6, <2>1, <3>1 DEF Shared!ReadSnapshot
    <3> QED
      BY <1>4, <2>0, <3>3, <3>4 DEF CatalogCallFits
  <2>2. CASE ~ (ok /\ snapshot[d.version] # Null)
    <3>1. Shared!Flies(p, d.version, d, "findAll")
      BY <1>1, <1>6, <2>2 DEF Shared!ReadSnapshot
    <3> QED
      BY <1>1, <1>3, <2>0, <3>1, SharedShape, FliesStep
  <2> QED
    BY <2>1, <2>2
<1> QED
  BY <1>5, <1>6

\* A computation ends: its call and those that wait for it go on.
LEMMA LandsStep ==
  ASSUME SharedInv, NEW p \in Readers, NEW key \in Shared!Keys, NEW at, NEW v, NEW shown,
         Shared!Lands(p, key, at, v, shown), flight[key] = p,
         v \in Shared!Versions, SavedVersion(v), shown \subseteq Shared!Updates,
         at \in {"snapshot", "answer"},
         \/ catalogCall[p].at \in {"max", "writeVersion"} /\ key = Shared!VersionKey
         \/ catalogCall[p].at \in {"findAll", "writeSnapshot"} /\ key = catalogCall[p].version,
         UNCHANGED <<clock, made, listed>>,
         version' \in {version, v},
         \/ UNCHANGED snapshot
         \/ /\ snapshot' = [snapshot EXCEPT ![v] = shown]
            /\ shown \subseteq listed /\ ShowsVersion(v, shown)
  PROVE  SharedInv'
<1>1. flight' = [flight EXCEPT ![key] = Null]
  BY DEF Shared!Lands
<1>2. CatalogFits'
  <2>1. flight' \in [Shared!Keys -> Readers \union {Null}]
    BY <1>1 DEF SharedInv, CatalogFits
  <2>2. /\ version' \in Shared!Versions \union {Null}
        /\ (version # Null => SavedVersion(version))'
    BY DEF SharedInv, CatalogFits, SavedVersion
  <2>3. /\ DOMAIN snapshot' = Shared!Versions
        /\ \A w \in Shared!Versions : (snapshot[w] # Null => snapshot[w] \subseteq listed /\ ShowsVersion(w, snapshot[w]))'
    BY DEF SharedInv, CatalogFits, ShowsVersion
  <2> QED
    BY <2>1, <2>2, <2>3 DEF SharedInv, CatalogFits
<1>3. DOMAIN catalogCall' = Callers
  BY DEF SharedInv, Shared!Lands
<1>4. ASSUME NEW q \in Callers PROVE CatalogCallFits(q, catalogCall[q])'
  <2>1. PICK d : d = catalogCall[q]
    OBVIOUS
  <2>2. CatalogCallFits(q, d) /\ d \in Shared!CallRecords
    BY <2>1, CatalogCallsFit
  <2>3. catalogCall'[q] = IF q = p \/ Shared!Waiting(q, key)
                          THEN [d EXCEPT !.at = at, !.version = v, !.shown = shown] ELSE d
    BY <2>1 DEF SharedInv, Shared!Lands
  <2>4. CASE q = p \/ Shared!Waiting(q, key)
    <3>1. PICK c : c = [d EXCEPT !.at = at, !.version = v, !.shown = shown]
      OBVIOUS
    <3>2. c \in Shared!CallRecords /\ c.at = at /\ c.version = v
      BY <2>2, <3>1 DEF Shared!CallRecords
    <3>3. CatalogCallFits(q, c)'
      BY <3>2 DEF CatalogCallFits, SavedVersion
    <3> QED
      BY <2>3, <2>4, <3>1, <3>3
  <2>5. CASE ~ (q = p \/ Shared!Waiting(q, key))
    <3>1. /\ d.at \in {"max", "writeVersion"} => key # Shared!VersionKey
          /\ d.at \in {"findAll", "writeSnapshot"} => key # d.version
      BY <2>2, <2>5 DEF CatalogCallFits
    <3>2. CatalogCallFits(q, d)'
      BY <1>1, <2>2, <3>1, SharedShape, CatalogCallStays DEF CatalogCallFits, SharedInv, CatalogFits
    <3> QED
      BY <2>3, <2>5, <3>2
  <2> QED
    BY <2>4, <2>5
<1> QED
  BY <1>2, <1>3, <1>4 DEF SharedInv

\* What was computed is written, or was not.
LEMMA WriteStep ==
  ASSUME SharedInv, NEW p \in Readers, NEW ok \in BOOLEAN,
         Shared!WriteVersion(p, ok) \/ Shared!WriteSnapshot(p, ok)
  PROVE  SharedInv'
<1>1. PICK d : d = catalogCall[p]
  OBVIOUS
<1>2. p \in Callers /\ CatalogCallFits(p, d) /\ d \in Shared!CallRecords
  BY <1>1, CatalogCallsFit DEF Callers
<1>3. UNCHANGED <<clock, made, listed>>
  BY DEF Shared!WriteVersion, Shared!WriteSnapshot, Shared!updateVars
<1>4. CASE Shared!WriteVersion(p, ok)
  <2>1. d.at = "writeVersion" /\ version' \in {version, d.version} /\ UNCHANGED snapshot
        /\ Shared!Lands(p, Shared!VersionKey, "snapshot", d.version, {})
    BY <1>1, <1>4 DEF Shared!WriteVersion
  <2>2. d.version \in Shared!Versions /\ SavedVersion(d.version) /\ flight[Shared!VersionKey] = p
    BY <1>2, <2>1 DEF CatalogCallFits
  <2> QED
    BY <1>1, <1>3, <2>1, <2>2, SharedShape, LandsStep
<1>5. CASE Shared!WriteSnapshot(p, ok)
  <2>1. /\ d.at = "writeSnapshot" /\ UNCHANGED version
        /\ snapshot' = snapshot \/ snapshot' = [snapshot EXCEPT ![d.version] = d.shown]
        /\ Shared!Lands(p, d.version, "answer", d.version, d.shown)
    BY <1>1, <1>5 DEF Shared!WriteSnapshot
  <2>2. /\ d.version \in Shared!Versions /\ SavedVersion(d.version) /\ flight[d.version] = p
        /\ d.shown \subseteq listed /\ ShowsVersion(d.version, d.shown)
        /\ d.shown \subseteq Shared!Updates
    BY <1>2, <2>1 DEF CatalogCallFits, Shared!CallRecords
  <2> QED
    BY <1>1, <1>3, <2>1, <2>2, SharedShape, LandsStep
<1> QED
  BY <1>4, <1>5

\* A query fails: its call and those that wait for it are over.
LEMMA FailStep ==
  ASSUME SharedInv, NEW p \in Readers, Shared!FailQuery(p)
  PROVE  SharedInv'
<1>1. PICK key : key = IF catalogCall[p].at = "max" THEN Shared!VersionKey
                       ELSE catalogCall[p].version
  OBVIOUS
<1>2. /\ catalogCall[p].at \in {"max", "findAll"}
      /\ flight' = [flight EXCEPT ![key] = Null]
      /\ catalogCall' = [q \in DOMAIN catalogCall |->
                           IF q = p \/ Shared!Waiting(q, key) THEN Shared!Idle ELSE catalogCall[q]]
      /\ UNCHANGED <<clock, made, listed, version, snapshot>>
  BY <1>1 DEF Shared!FailQuery, Shared!updateVars, Shared!redisVars
<1>3. key \in Shared!Keys /\ flight[key] = p
  BY <1>1, <1>2, CatalogCallsFit, SharedShape DEF Callers, CatalogCallFits
<1>4. CatalogFits'
  <2>1. flight' \in [Shared!Keys -> Readers \union {Null}]
    BY <1>2 DEF SharedInv, CatalogFits
  <2> QED
    BY <1>2, <2>1 DEF SharedInv, CatalogFits, SavedVersion, ShowsVersion
<1>5. DOMAIN catalogCall' = Callers
  BY <1>2 DEF SharedInv
<1>6. ASSUME NEW q \in Callers PROVE CatalogCallFits(q, catalogCall[q])'
  <2>1. PICK d : d = catalogCall[q]
    OBVIOUS
  <2>2. CatalogCallFits(q, d) /\ d \in Shared!CallRecords
    BY <2>1, CatalogCallsFit
  <2>3. catalogCall'[q] = IF q = p \/ Shared!Waiting(q, key) THEN Shared!Idle ELSE d
    BY <1>2, <2>1 DEF SharedInv
  <2>4. CASE q = p \/ Shared!Waiting(q, key)
    BY <2>3, <2>4, SharedShape DEF CatalogCallFits
  <2>5. CASE ~ (q = p \/ Shared!Waiting(q, key))
    <3>1. /\ d.at \in {"max", "writeVersion"} => key # Shared!VersionKey
          /\ d.at \in {"findAll", "writeSnapshot"} => key # d.version
      BY <1>3, <2>2, <2>5 DEF CatalogCallFits
    <3>2. CatalogCallFits(q, d)'
      BY <1>2, <2>2, <3>1, SharedShape, CatalogCallStays DEF CatalogCallFits, SharedInv, CatalogFits
    <3> QED
      BY <2>3, <2>5, <3>2
  <2> QED
    BY <2>4, <2>5
<1> QED
  BY <1>4, <1>5, <1>6 DEF SharedInv

\* Entries go, and the process with its calls.
LEMMA FaultStep ==
  ASSUME SharedInv, Shared!Expire \/ Shared!Restart
  PROVE  SharedInv'
<1>1. CASE Shared!Expire
  <2>1. UNCHANGED <<clock, made, listed, flight, catalogCall>>
    BY <1>1 DEF Shared!Expire, Shared!updateVars
  <2>2. /\ version' \in {version, Null}
        /\ DOMAIN snapshot' = Shared!Versions
        /\ \A v \in Shared!Versions : snapshot'[v] \in {snapshot[v], Null}
    BY <1>1 DEF Shared!Expire, SharedInv, CatalogFits
  <2>3. CatalogFits'
    BY <2>1, <2>2 DEF SharedInv, CatalogFits, SavedVersion, ShowsVersion
  <2>4. \A p \in Callers : CatalogCallFits(p, catalogCall[p])'
    BY <2>1 DEF SharedInv, CatalogCallFits, SavedVersion, ShowsVersion
  <2> QED
    BY <2>1, <2>3, <2>4 DEF SharedInv
<1>2. CASE Shared!Restart
  <2>1. /\ UNCHANGED <<clock, made, listed, version, snapshot>>
        /\ flight' = [key \in Shared!Keys |-> Null]
        /\ catalogCall' = [p \in DOMAIN catalogCall |-> Shared!Idle]
    BY <1>2 DEF Shared!Restart, Shared!updateVars, Shared!redisVars
  <2>2. CatalogFits'
    BY <2>1 DEF SharedInv, CatalogFits, SavedVersion, ShowsVersion
  <2>3. DOMAIN catalogCall' = Callers /\ \A p \in Callers : catalogCall'[p] = Shared!Idle
    BY <2>1 DEF SharedInv
  <2>4. \A p \in Callers : CatalogCallFits(p, catalogCall[p])'
    BY <2>3, SharedShape DEF CatalogCallFits
  <2> QED
    BY <2>2, <2>3, <2>4 DEF SharedInv
<1> QED
  BY <1>1, <1>2

LEMMA SharedStep == SharedInv /\ [Shared!Next]_(Shared!vars) => SharedInv'
<1> SUFFICES ASSUME SharedInv, [Shared!Next]_(Shared!vars) PROVE SharedInv'
  OBVIOUS
<1>1. CASE UNCHANGED Shared!vars
  BY <1>1 DEF Shared!vars, SharedInv, CatalogFits, CatalogCallFits, SavedVersion, ShowsVersion
<1>2. CASE Shared!Next
  BY <1>2, UpdateStep, NothingStep, CommitStep, PublishStep, ReaderStep, FailStep, ReadStep,
     WriteStep, FaultStep
  DEF Shared!Next
<1> QED
  BY <1>1, <1>2

LEMMA SharedInit == Shared!Init => SharedInv
<1> SUFFICES ASSUME Shared!Init PROVE SharedInv
  OBVIOUS
<1>1. CatalogFits
  <2>1. listed \subseteq Shared!Updates
    BY SharedShape DEF Shared!Init, Shared!Updates
  <2> QED
    BY <2>1, SharedShape DEF Shared!Init, CatalogFits, SavedVersion, Shared!Versions, Shared!Keys
<1>2. DOMAIN catalogCall = Callers /\ \A p \in Callers : catalogCall[p] = Shared!Idle
  BY DEF Shared!Init, Callers
<1> QED
  BY <1>1, <1>2, SharedShape DEF SharedInv, CatalogCallFits

\* What follows from the invariant.
LEMMA SharedShows == SharedInv => Shared!CatalogTypeOK /\ Shared!SnapshotShowsItsVersion /\ Shared!OneFlight
<1> SUFFICES ASSUME SharedInv
             PROVE  Shared!CatalogTypeOK /\ Shared!SnapshotShowsItsVersion /\ Shared!OneFlight
  OBVIOUS
<1>1. Shared!CatalogTypeOK
  <2>1. \A p \in Readers \union {Updater} : catalogCall[p] \in Shared!CallRecords
    BY CatalogCallsFit DEF Callers
  <2> QED
    BY <2>1 DEF SharedInv, CatalogFits, Shared!CatalogTypeOK
<1>2. Shared!SnapshotShowsItsVersion
  BY DEF SharedInv, CatalogFits, ShowsVersion, Shared!SnapshotShowsItsVersion
<1>3. ASSUME NEW key \in Shared!Keys PROVE Shared!Cardinality(Shared!Computing(key)) <= 1
  <2>1. Shared!Computing(key) \subseteq {flight[key]}
    BY CatalogCallsFit DEF CatalogCallFits, Callers, Shared!Computing
  <2>2. Shared!Computing(key) = {} \/ Shared!Computing(key) = {flight[key]}
    BY <2>1
  <2>3. Cardinality({}) = 0 /\ Cardinality({flight[key]}) = 1
    BY FS_EmptySet, FS_Singleton
  <2>4. \A S : Shared!Cardinality(S) = Cardinality(S)
    BY DEF Shared!Cardinality, Cardinality
  <2> QED
    BY <2>2, <2>3, <2>4
<1> QED
  BY <1>1, <1>2, <1>3 DEF Shared!OneFlight

\* With faults and restarts, for any number of requests and of updates that
\* start in one millisecond: the snapshot of a version shows its update, and
\* no two requests compute one key.
THEOREM SnapshotsShowVersions ==
  Shared!Spec => [](Shared!CatalogTypeOK /\ Shared!SnapshotShowsItsVersion /\ Shared!OneFlight)
<1>1. Shared!Spec => []SharedInv
  BY SharedInit, SharedStep, PTL DEF Shared!Spec
<1> QED
  BY <1>1, SharedShows, PTL

(***************************************************************************)
(* Updates one after the other, each in a millisecond of its own, with all *)
(* that fails: while an update takes its time, every version that anyone   *)
(* knows is older than its own, so that no catalogue of such a version     *)
(* misses it.                                                              *)
(***************************************************************************)

\* The times of what is saved; and, while an update is under way, its own.
TimesFit ==
  /\ \A u \in listed : u[2] <= clock
  /\ catalogCall[Updater].at = "commit" =>
       /\ catalogCall[Updater].update[2] = clock /\ clock > 0
       /\ \A u \in listed : u[2] < clock

\* What is cached, about to be cached or answered misses nothing.
WholeAnswers ==
  /\ \A v \in Spaced!Versions : snapshot[v] # Null => Spaced!Whole(v, snapshot[v])
  /\ \A p \in Readers :
       catalogCall[p].at \in {"writeSnapshot", "answer"}
         => Spaced!Whole(catalogCall[p].version, catalogCall[p].shown)

SpacedInv == SharedInv /\ TimesFit /\ WholeAnswers

\* An update in a millisecond of its own is one of the updates.
LEMMA SpacedIsStep == [Spaced!Next]_(Spaced!vars) => [Shared!Next]_(Shared!vars)
<1> SUFFICES ASSUME [Spaced!Next]_(Spaced!vars) PROVE [Shared!Next]_(Shared!vars)
  OBVIOUS
<1>1. CASE UNCHANGED Spaced!vars
  BY <1>1 DEF Spaced!vars, Shared!vars
<1>2. ASSUME NEW p \in {Updater},
             \/ Spaced!Update(p) \/ Spaced!UpdateNothing(p) \/ Spaced!Commit(p)
             \/ \E ok \in BOOLEAN : Spaced!Publish(p, ok)
      PROVE  Shared!Next
  <2>1. Spaced!Update(p) => Shared!Update(p)
    BY DEF Spaced!Update, Shared!Update, Spaced!Idle, Shared!Idle, Spaced!Becomes, Shared!Becomes,
           Spaced!redisVars, Shared!redisVars
  <2>2. Spaced!UpdateNothing(p) => Shared!UpdateNothing(p)
    BY DEF Spaced!UpdateNothing, Shared!UpdateNothing, Spaced!Idle, Shared!Idle, Spaced!Becomes,
           Shared!Becomes, Spaced!redisVars, Shared!redisVars, Spaced!updateVars, Shared!updateVars
  <2>3. Spaced!Commit(p) => Shared!Commit(p)
    BY DEF Spaced!Commit, Shared!Commit, Spaced!Becomes, Shared!Becomes, Spaced!redisVars,
           Shared!redisVars
  <2>4. \A ok \in BOOLEAN : Spaced!Publish(p, ok) => Shared!Publish(p, ok)
    BY DEF Spaced!Publish, Shared!Publish, Spaced!Idle, Shared!Idle, Spaced!Becomes, Shared!Becomes,
           Spaced!Redis, Shared!Redis
  <2> QED
    BY <1>2, <2>1, <2>2, <2>3, <2>4 DEF Shared!Next
<1>3. ASSUME NEW p \in Readers,
             \/ Spaced!Request(p) \/ Spaced!ComputeVersion(p) \/ Spaced!FindAll(p)
             \/ Spaced!FailQuery(p) \/ Spaced!Answer(p)
      PROVE  Shared!Next
  <2>1. Spaced!Request(p) => Shared!Request(p)
    BY DEF Spaced!Request, Shared!Request, Spaced!Idle, Shared!Idle, Spaced!Becomes, Shared!Becomes,
           Spaced!redisVars, Shared!redisVars, Spaced!updateVars, Shared!updateVars
  <2>2. Spaced!ComputeVersion(p) => Shared!ComputeVersion(p)
    BY DEF Spaced!ComputeVersion, Shared!ComputeVersion, Spaced!Max, Shared!Max, Spaced!Becomes,
           Shared!Becomes, Spaced!redisVars, Shared!redisVars, Spaced!updateVars, Shared!updateVars
  <2>3. Spaced!FindAll(p) => Shared!FindAll(p)
    BY DEF Spaced!FindAll, Shared!FindAll, Spaced!Becomes, Shared!Becomes,
           Spaced!redisVars, Shared!redisVars, Spaced!updateVars, Shared!updateVars
  <2>4. Spaced!FailQuery(p) => Shared!FailQuery(p)
    BY DEF Spaced!FailQuery, Shared!FailQuery, Spaced!Idle, Shared!Idle, Spaced!Waiting,
           Shared!Waiting, Spaced!VersionKey, Shared!VersionKey,
           Spaced!redisVars, Shared!redisVars, Spaced!updateVars, Shared!updateVars
  <2>5. Spaced!Answer(p) => Shared!Answer(p)
    BY DEF Spaced!Answer, Shared!Answer, Spaced!Idle, Shared!Idle, Spaced!Becomes, Shared!Becomes,
           Spaced!redisVars, Shared!redisVars, Spaced!updateVars, Shared!updateVars
  <2> QED
    BY <1>3, <2>1, <2>2, <2>3, <2>4, <2>5 DEF Shared!Next
<1>4. ASSUME NEW p \in Readers, NEW ok \in BOOLEAN,
             \/ Spaced!ReadVersion(p, ok) \/ Spaced!WriteVersion(p, ok)
             \/ Spaced!ReadSnapshot(p, ok) \/ Spaced!WriteSnapshot(p, ok)
      PROVE  Shared!Next
  <2>1. \A key, c, at : Spaced!Flies(p, key, c, at) => Shared!Flies(p, key, c, at)
    BY DEF Spaced!Flies, Shared!Flies, Spaced!Becomes, Shared!Becomes
  <2>2. \A key, at, v, shown : Spaced!Lands(p, key, at, v, shown) => Shared!Lands(p, key, at, v, shown)
    BY DEF Spaced!Lands, Shared!Lands, Spaced!Waiting, Shared!Waiting, Spaced!VersionKey,
           Shared!VersionKey
  <2>3. Spaced!ReadVersion(p, ok) => Shared!ReadVersion(p, ok)
    BY <2>1 DEF Spaced!ReadVersion, Shared!ReadVersion, Spaced!Redis, Shared!Redis, Spaced!Becomes,
           Shared!Becomes, Spaced!VersionKey, Shared!VersionKey,
           Spaced!redisVars, Shared!redisVars, Spaced!updateVars, Shared!updateVars
  <2>4. Spaced!WriteVersion(p, ok) => Shared!WriteVersion(p, ok)
    BY <2>2 DEF Spaced!WriteVersion, Shared!WriteVersion, Spaced!Redis, Shared!Redis,
           Spaced!VersionKey, Shared!VersionKey, Spaced!updateVars, Shared!updateVars
  <2>5. Spaced!ReadSnapshot(p, ok) => Shared!ReadSnapshot(p, ok)
    BY <2>1 DEF Spaced!ReadSnapshot, Shared!ReadSnapshot, Spaced!Redis, Shared!Redis,
           Spaced!Becomes, Shared!Becomes,
           Spaced!redisVars, Shared!redisVars, Spaced!updateVars, Shared!updateVars
  <2>6. Spaced!WriteSnapshot(p, ok) => Shared!WriteSnapshot(p, ok)
    BY <2>2 DEF Spaced!WriteSnapshot, Shared!WriteSnapshot, Spaced!Redis, Shared!Redis,
           Spaced!updateVars, Shared!updateVars
  <2> QED
    BY <1>4, <2>3, <2>4, <2>5, <2>6 DEF Shared!Next
<1>5. CASE Spaced!Expire \/ Spaced!Restart
  BY <1>5
  DEF Spaced!Expire, Shared!Expire, Spaced!Restart, Shared!Restart, Spaced!Versions,
      Shared!Versions, Spaced!Keys, Shared!Keys, Spaced!VersionKey, Shared!VersionKey,
      Spaced!Idle, Shared!Idle, Spaced!redisVars, Shared!redisVars, Spaced!updateVars,
      Shared!updateVars, Shared!Next
<1> QED
  BY <1>1, <1>2, <1>3, <1>4, <1>5 DEF Spaced!Next

\* Every version anyone knows is older than the update that is under way.
LEMMA KnownVersions ==
  ASSUME SpacedInv, NEW v, SavedVersion(v), catalogCall[Updater].at = "commit"
  PROVE  ~ (clock <= v)
<1>1. clock \in Nat /\ clock > 0 /\ \A u \in listed : u[2] \in Nat /\ u[2] < clock
  BY SharedShape
  DEF SpacedInv, SharedInv, CatalogFits, TimesFit, Shared!Updates, Shared!Versions
<1> QED
  BY <1>1 DEF SavedVersion

\* A step that saves no update and starts none.
LEMMA TimesStay ==
  ASSUME SpacedInv, UNCHANGED <<clock, listed>>,
         \/ catalogCall'[Updater] = catalogCall[Updater]
         \/ catalogCall'[Updater].at # "commit"
  PROVE  TimesFit'
BY DEF SpacedInv, TimesFit

\* The steps of the updates.
LEMMA SpacedUpdateStep ==
  ASSUME SpacedInv,
         \/ Spaced!Update(Updater) \/ Spaced!UpdateNothing(Updater) \/ Spaced!Commit(Updater)
         \/ \E ok \in BOOLEAN : Spaced!Publish(Updater, ok)
  PROVE  TimesFit' /\ WholeAnswers'
<1>1. Updater \in Callers /\ DOMAIN catalogCall = Callers /\ Readers \subseteq Callers
  BY DEF SpacedInv, SharedInv, Callers
<1>2. UNCHANGED snapshot /\ \E c : Spaced!Becomes(Updater, c)
  BY DEF Spaced!Update, Spaced!UpdateNothing, Spaced!Commit, Spaced!Publish, Spaced!redisVars
<1>3. \A p \in Readers : catalogCall'[p] = catalogCall[p]
  BY <1>1, <1>2, SharedShape DEF Spaced!Becomes
<1>4. UNCHANGED listed => WholeAnswers'
  BY <1>2, <1>3 DEF SpacedInv, WholeAnswers, Spaced!Whole
<1>5. CASE Spaced!Update(Updater)
  <2>1. PICK u : u = <<made + 1, clock'>>
    OBVIOUS
  <2>2. PICK c : c = [Spaced!Idle EXCEPT !.at = "commit", !.update = u]
    OBVIOUS
  <2>3. c.at = "commit" /\ c.update = u /\ u[2] = clock'
    BY <2>1, <2>2 DEF Spaced!Idle
  <2>4. clock' = clock + 1 /\ Spaced!Becomes(Updater, c) /\ UNCHANGED listed
    BY <1>5, <2>1, <2>2 DEF Spaced!Update
  <2>5. catalogCall'[Updater] = c
    BY <1>1, <2>4 DEF Spaced!Becomes
  <2>6. clock \in Nat /\ \A v \in listed : v[2] \in Nat
    BY SharedShape DEF SpacedInv, SharedInv, CatalogFits, Shared!Updates, Shared!Versions
  <2>7. TimesFit'
    BY <2>3, <2>4, <2>5, <2>6 DEF SpacedInv, TimesFit
  <2> QED
    BY <1>4, <2>4, <2>7
<1>6. CASE Spaced!UpdateNothing(Updater) \/ \E ok \in BOOLEAN : Spaced!Publish(Updater, ok)
  <2>1. UNCHANGED <<clock, listed>>
    BY <1>6 DEF Spaced!UpdateNothing, Spaced!Publish, Spaced!updateVars
  <2>2. catalogCall'[Updater].at # "commit"
    <3>1. \E c : Spaced!Becomes(Updater, c) /\ c.at \in {"publish", "idle"}
      <4>1. CASE Spaced!UpdateNothing(Updater)
        <5>1. PICK u \in listed :
                Spaced!Becomes(Updater, [Spaced!Idle EXCEPT !.at = "publish", !.update = u])
          BY <4>1 DEF Spaced!UpdateNothing
        <5>2. [Spaced!Idle EXCEPT !.at = "publish", !.update = u].at = "publish"
          BY DEF Spaced!Idle
        <5> QED
          BY <5>1, <5>2
      <4>2. CASE \E ok \in BOOLEAN : Spaced!Publish(Updater, ok)
        <5>1. Spaced!Becomes(Updater, Spaced!Idle) /\ Spaced!Idle.at = "idle"
          BY <4>2 DEF Spaced!Publish, Spaced!Idle
        <5> QED
          BY <5>1
      <4> QED
        BY <1>6, <4>1, <4>2
    <3> QED
      BY <1>1, <3>1 DEF Spaced!Becomes
  <2> QED
    BY <1>4, <2>1, <2>2, TimesStay
<1>7. CASE Spaced!Commit(Updater)
  <2>1. PICK d : d = catalogCall[Updater]
    OBVIOUS
  <2>2. /\ d.at = "commit" /\ listed' = listed \union {d.update} /\ UNCHANGED clock
        /\ Spaced!Becomes(Updater, [d EXCEPT !.at = "publish"])
    BY <1>7, <2>1 DEF Spaced!Commit
  <2>3. d \in Shared!CallRecords /\ d.update[2] = clock /\ clock \in Nat
    BY <1>1, <2>1, <2>2, CatalogCallsFit, SharedShape
    DEF SpacedInv, SharedInv, CatalogFits, TimesFit, Shared!Versions
  <2>4. catalogCall'[Updater].at = "publish"
    BY <1>1, <2>2, <2>3 DEF Spaced!Becomes, Shared!CallRecords
  <2>5. TimesFit'
    BY <2>2, <2>3, <2>4 DEF SpacedInv, TimesFit
  <2>6. ASSUME NEW v, SavedVersion(v), NEW shown, Spaced!Whole(v, shown)
        PROVE  Spaced!Whole(v, shown)'
    BY <2>1, <2>2, <2>3, <2>6, KnownVersions DEF Spaced!Whole
  <2>7. ASSUME NEW v \in Spaced!Versions, snapshot[v] # Null
        PROVE  SavedVersion(v) /\ Spaced!Whole(v, snapshot[v])
    BY <2>7
    DEF SpacedInv, SharedInv, CatalogFits, WholeAnswers, ShowsVersion, SavedVersion,
        Spaced!Versions, Shared!Versions
  <2>8. ASSUME NEW p \in Readers, catalogCall[p].at \in {"writeSnapshot", "answer"}
        PROVE  /\ SavedVersion(catalogCall[p].version)
               /\ Spaced!Whole(catalogCall[p].version, catalogCall[p].shown)
    BY <1>1, <2>8, CatalogCallsFit DEF SpacedInv, CatalogCallFits, WholeAnswers
  <2>9. WholeAnswers'
    <3>1. ASSUME NEW v \in Spaced!Versions, snapshot'[v] # Null
          PROVE  Spaced!Whole(v, snapshot[v])'
      <4>1. PICK shown : shown = snapshot[v]
        OBVIOUS
      <4> QED
        BY <1>2, <2>6, <2>7, <3>1, <4>1
    <3>2. ASSUME NEW p \in Readers, catalogCall'[p].at \in {"writeSnapshot", "answer"}
          PROVE  Spaced!Whole(catalogCall[p].version, catalogCall[p].shown)'
      <4>1. PICK c : c = catalogCall[p]
        OBVIOUS
      <4> QED
        BY <1>3, <2>6, <2>8, <3>2, <4>1
    <3> QED
      BY <3>1, <3>2 DEF WholeAnswers, Spaced!Versions
  <2> QED
    BY <2>5, <2>9
<1> QED
  BY <1>5, <1>6, <1>7

\* A step of a request, whose call comes to c and changes no snapshot.
LEMMA SpacedCallStep ==
  ASSUME SpacedInv, NEW p \in Readers, NEW c, UNCHANGED <<clock, listed, snapshot>>,
         Spaced!Becomes(p, c),
         c.at \in {"writeSnapshot", "answer"} => Spaced!Whole(c.version, c.shown)
  PROVE  TimesFit' /\ WholeAnswers'
<1>1. Updater \in Callers /\ p \in Callers /\ Readers \subseteq Callers /\ p # Updater
  BY SharedShape DEF Callers
<1>2. \A q \in Callers : catalogCall'[q] = IF q = p THEN c ELSE catalogCall[q]
  BY DEF SpacedInv, SharedInv, Spaced!Becomes
<1>3. TimesFit'
  BY <1>1, <1>2, TimesStay
<1>4. WholeAnswers'
  BY <1>1, <1>2 DEF SpacedInv, WholeAnswers, Spaced!Whole, Spaced!Versions
<1> QED
  BY <1>3, <1>4

\* The requests read, compute and answer.
LEMMA SpacedReadStep ==
  ASSUME SpacedInv, NEW p \in Readers,
         \/ Spaced!Request(p) \/ Spaced!ComputeVersion(p) \/ Spaced!FindAll(p) \/ Spaced!Answer(p)
         \/ \E ok \in BOOLEAN : Spaced!ReadVersion(p, ok) \/ Spaced!ReadSnapshot(p, ok)
  PROVE  TimesFit' /\ WholeAnswers'
<1>1. PICK d : d = catalogCall[p]
  OBVIOUS
<1>2. d \in Shared!CallRecords /\ CatalogCallFits(p, d)
  BY <1>1, CatalogCallsFit DEF SpacedInv, Callers
<1>3. UNCHANGED <<clock, listed, snapshot>>
  BY DEF Spaced!Request, Spaced!ComputeVersion, Spaced!FindAll, Spaced!Answer, Spaced!ReadVersion,
         Spaced!ReadSnapshot, Spaced!updateVars, Spaced!redisVars
<1>4. ASSUME NEW c, Spaced!Becomes(p, c), c.at \notin {"writeSnapshot", "answer"}
      PROVE  TimesFit' /\ WholeAnswers'
  BY <1>3, <1>4, SpacedCallStep
<1>5. ASSUME NEW key, NEW at \in {"max", "findAll"}, Spaced!Flies(p, key, d, at)
      PROVE  TimesFit' /\ WholeAnswers'
  <2>1. \E c : Spaced!Becomes(p, c) /\ c.at \in {"max", "findAll", "wait"}
    BY <1>2, <1>5 DEF Spaced!Flies, Shared!CallRecords
  <2> QED
    BY <1>4, <2>1
<1>6. CASE Spaced!Request(p)
  BY <1>4, <1>6 DEF Spaced!Request, Spaced!Idle
<1>7. CASE Spaced!ComputeVersion(p)
  <2>1. PICK v : v = Spaced!Max({u[2] : u \in listed} \union {0})
    OBVIOUS
  <2>2. PICK c : c = [d EXCEPT !.at = "writeVersion", !.version = v]
    OBVIOUS
  <2>3. c.at = "writeVersion" /\ Spaced!Becomes(p, c)
    BY <1>1, <1>2, <1>7, <2>1, <2>2 DEF Spaced!ComputeVersion, Shared!CallRecords
  <2> QED
    BY <1>4, <2>3
<1>8. CASE Spaced!FindAll(p)
  <2>1. PICK c : c = [d EXCEPT !.at = "writeSnapshot", !.shown = listed]
    OBVIOUS
  <2>2. c.at = "writeSnapshot" /\ c.shown = listed /\ Spaced!Becomes(p, c)
    BY <1>1, <1>2, <1>8, <2>1 DEF Spaced!FindAll, Shared!CallRecords
  <2>3. Spaced!Whole(c.version, c.shown)
    BY <2>2 DEF Spaced!Whole
  <2> QED
    BY <1>3, <2>2, <2>3, SpacedCallStep
<1>9. CASE Spaced!Answer(p)
  BY <1>4, <1>9 DEF Spaced!Answer, Spaced!Idle
<1>10. ASSUME NEW ok \in BOOLEAN, Spaced!ReadVersion(p, ok) PROVE TimesFit' /\ WholeAnswers'
  <2>1. CASE ok /\ version # Null
    <3>1. PICK c : c = [d EXCEPT !.at = "snapshot", !.version = version]
      OBVIOUS
    <3>2. c.at = "snapshot" /\ Spaced!Becomes(p, c)
      BY <1>1, <1>2, <1>10, <2>1, <3>1 DEF Spaced!ReadVersion, Shared!CallRecords
    <3> QED
      BY <1>4, <3>2
  <2>2. CASE ~ (ok /\ version # Null)
    BY <1>1, <1>5, <1>10, <2>2 DEF Spaced!ReadVersion
  <2> QED
    BY <2>1, <2>2
<1>11. ASSUME NEW ok \in BOOLEAN, Spaced!ReadSnapshot(p, ok) PROVE TimesFit' /\ WholeAnswers'
  <2>1. CASE ok /\ snapshot[d.version] # Null
    <3>1. PICK c : c = [d EXCEPT !.at = "answer", !.shown = snapshot[d.version]]
      OBVIOUS
    <3>2. /\ c.at = "answer" /\ c.shown = snapshot[d.version] /\ c.version = d.version
          /\ Spaced!Becomes(p, c)
      BY <1>1, <1>2, <1>11, <2>1, <3>1 DEF Spaced!ReadSnapshot, Shared!CallRecords
    <3>3. d.version \in Spaced!Versions
      BY <1>1, <1>2, <1>11 DEF Spaced!ReadSnapshot, CatalogCallFits, Spaced!Versions, Shared!Versions
    <3>4. Spaced!Whole(c.version, c.shown)
      BY <2>1, <3>2, <3>3 DEF SpacedInv, WholeAnswers
    <3> QED
      BY <1>3, <3>2, <3>4, SpacedCallStep
  <2>2. CASE ~ (ok /\ snapshot[d.version] # Null)
    BY <1>1, <1>5, <1>11, <2>2 DEF Spaced!ReadSnapshot
  <2> QED
    BY <2>1, <2>2
<1> QED
  BY <1>6, <1>7, <1>8, <1>9, <1>10, <1>11

\* A computation ends, or fails, for all that share it.
LEMMA SpacedWriteStep ==
  ASSUME SpacedInv, NEW p \in Readers,
         \/ Spaced!FailQuery(p)
         \/ \E ok \in BOOLEAN : Spaced!WriteVersion(p, ok) \/ Spaced!WriteSnapshot(p, ok)
  PROVE  TimesFit' /\ WholeAnswers'
<1>1. PICK d : d = catalogCall[p]
  OBVIOUS
<1>2. d \in Shared!CallRecords /\ CatalogCallFits(p, d) /\ Updater \in Callers /\ Readers \subseteq Callers
  BY <1>1, CatalogCallsFit DEF SpacedInv, Callers
<1>3. DOMAIN catalogCall = Callers /\ p # Updater
  BY SharedShape DEF SpacedInv, SharedInv
<1>4. UNCHANGED <<clock, listed>>
  BY DEF Spaced!FailQuery, Spaced!WriteVersion, Spaced!WriteSnapshot, Spaced!updateVars
<1>5. ASSUME NEW key, NEW at \in {"snapshot", "answer"}, NEW v, NEW shown,
             Spaced!Lands(p, key, at, v, shown)
      PROVE  /\ TimesFit'
             /\ (at = "answer" => Spaced!Whole(v, shown)) =>
                  \A q \in Readers :
                    catalogCall'[q].at \in {"writeSnapshot", "answer"}
                      => Spaced!Whole(catalogCall'[q].version, catalogCall'[q].shown)
  <2>1. ASSUME NEW q \in Callers
        PROVE  \/ catalogCall'[q] = catalogCall[q]
               \/ /\ catalogCall'[q].at = at /\ catalogCall'[q].version = v
                  /\ catalogCall'[q].shown = shown
    <3>1. PICK e : e = catalogCall[q]
      OBVIOUS
    <3>2. e \in Shared!CallRecords
      BY <3>1, CatalogCallsFit DEF SpacedInv
    <3> QED
      BY <1>3, <1>5, <3>1, <3>2 DEF Spaced!Lands, Shared!CallRecords
  <2> QED
    BY <1>2, <1>4, <2>1, TimesStay DEF SpacedInv, WholeAnswers
<1>6. CASE Spaced!FailQuery(p)
  <2>1. /\ UNCHANGED snapshot
        /\ \A q \in Callers : catalogCall'[q] \in {catalogCall[q], Spaced!Idle}
    BY <1>3, <1>6 DEF Spaced!FailQuery, Spaced!redisVars
  <2>2. Spaced!Idle.at = "idle"
    BY DEF Spaced!Idle
  <2> QED
    BY <1>2, <1>4, <2>1, <2>2, TimesStay
    DEF SpacedInv, WholeAnswers, Spaced!Whole, Spaced!Versions
<1>7. ASSUME NEW ok \in BOOLEAN, Spaced!WriteVersion(p, ok) PROVE TimesFit' /\ WholeAnswers'
  <2>1. UNCHANGED snapshot /\ Spaced!Lands(p, Spaced!VersionKey, "snapshot", d.version, {})
    BY <1>1, <1>7 DEF Spaced!WriteVersion
  <2> QED
    BY <1>4, <1>5, <2>1 DEF SpacedInv, WholeAnswers, Spaced!Whole, Spaced!Versions
<1>8. ASSUME NEW ok \in BOOLEAN, Spaced!WriteSnapshot(p, ok) PROVE TimesFit' /\ WholeAnswers'
  <2>1. /\ d.at = "writeSnapshot" /\ Spaced!Lands(p, d.version, "answer", d.version, d.shown)
        /\ snapshot' = snapshot \/ snapshot' = [snapshot EXCEPT ![d.version] = d.shown]
    BY <1>1, <1>8 DEF Spaced!WriteSnapshot
  <2>2. Spaced!Whole(d.version, d.shown) /\ d.version \in Spaced!Versions
    BY <1>1, <1>2, <2>1 DEF SpacedInv, WholeAnswers, CatalogCallFits, Spaced!Versions, Shared!Versions
  <2>3. DOMAIN snapshot = Spaced!Versions
    BY DEF SpacedInv, SharedInv, CatalogFits, Spaced!Versions, Shared!Versions
  <2>4. \A v \in Spaced!Versions : snapshot'[v] # Null => Spaced!Whole(v, snapshot'[v])
    BY <2>1, <2>2, <2>3 DEF SpacedInv, WholeAnswers
  <2> QED
    BY <1>4, <1>5, <2>1, <2>2, <2>4 DEF WholeAnswers, Spaced!Whole, Spaced!Versions
<1> QED
  BY <1>6, <1>7, <1>8

LEMMA SpacedFaultStep ==
  ASSUME SpacedInv, Spaced!Expire \/ Spaced!Restart
  PROVE  TimesFit' /\ WholeAnswers'
<1>1. UNCHANGED <<clock, listed>> /\ Updater \in Callers /\ Readers \subseteq Callers
  BY DEF Spaced!Expire, Spaced!Restart, Spaced!updateVars, Callers
<1>2. \A q \in Callers : catalogCall'[q] \in {catalogCall[q], Spaced!Idle}
  BY DEF SpacedInv, SharedInv, Spaced!Expire, Spaced!Restart
<1>3. Spaced!Idle.at = "idle"
  BY DEF Spaced!Idle
<1>4. \A v \in Spaced!Versions : snapshot'[v] \in {snapshot[v], Null}
  BY DEF SpacedInv, SharedInv, CatalogFits, Spaced!Expire, Spaced!Restart, Spaced!redisVars,
         Spaced!Versions, Shared!Versions
<1>5. TimesFit'
  BY <1>1, <1>2, <1>3, TimesStay
<1> QED
  BY <1>1, <1>2, <1>3, <1>4, <1>5 DEF SpacedInv, WholeAnswers, Spaced!Whole, Spaced!Versions

LEMMA SpacedStep == SpacedInv /\ [Spaced!Next]_(Spaced!vars) => SpacedInv'
<1> SUFFICES ASSUME SpacedInv, [Spaced!Next]_(Spaced!vars) PROVE SpacedInv'
  OBVIOUS
<1>1. SharedInv'
  BY SpacedIsStep, SharedStep DEF SpacedInv
<1>2. CASE UNCHANGED Spaced!vars
  BY <1>1, <1>2, TimesStay DEF Spaced!vars, SpacedInv, WholeAnswers, Spaced!Whole, Spaced!Versions
<1>3. CASE Spaced!Next
  BY <1>1, <1>3, SpacedUpdateStep, SpacedReadStep, SpacedWriteStep, SpacedFaultStep
  DEF Spaced!Next, SpacedInv
<1> QED
  BY <1>2, <1>3

LEMMA SpacedInit == Spaced!Init => SpacedInv
<1> SUFFICES ASSUME Spaced!Init PROVE SpacedInv
  OBVIOUS
<1>1. Shared!Init
  BY DEF Spaced!Init, Shared!Init, Spaced!Versions, Shared!Versions, Spaced!Keys, Shared!Keys,
         Spaced!VersionKey, Shared!VersionKey, Spaced!Idle, Shared!Idle
<1>2. \A p \in Callers : catalogCall[p].at = "idle"
  BY DEF Spaced!Init, Spaced!Idle, Callers
<1>3. TimesFit /\ WholeAnswers
  BY <1>2, SharedShape DEF Spaced!Init, TimesFit, WholeAnswers, Callers
<1> QED
  BY <1>1, <1>3, SharedInit DEF SpacedInv

LEMMA SpacedShows == SpacedInv => Spaced!VersionIsWhole
BY DEF SpacedInv, WholeAnswers, Spaced!VersionIsWhole

\* With updates one after the other, each in a millisecond of its own, for any
\* number of requests and whatever fails, expires or is published again: what is
\* cached or answered for a version shows every update up to it.
THEOREM VersionsAreWhole == Spaced!Spec => []Spaced!VersionIsWhole
BY SpacedInit, SpacedStep, SpacedShows, PTL DEF Spaced!Spec

(***************************************************************************)
(* One-time codes, one call at a time, for any number of phones and        *)
(* purposes, and whatever the limits are.  Nothing is said of calls side   *)
(* by side: two requests of one phone may store their sessions in the      *)
(* order in which the codes were not sent.                                 *)
(***************************************************************************)

USE CodesAssumption DEF Coded!PhoneCodesAssumption, Interrupted!PhoneCodesAssumption

CodeNumbers == Nat \union {Null}
CodeSteps ==
  {"idle", "count", "expire", "cool", "send", "store", "ttl", "back", "end"}
CodeRecords ==
  [at : CodeSteps, key : Interrupted!Sessions \union {Null}, code : CodeNumbers,
   attempts : Nat, until : CodeNumbers]
SessionRecords == [code : CodeNumbers, attempts : Nat, until : CodeNumbers]

CodeShape ==
  /\ codeCall \in [{one} -> CodeRecords]
  /\ codeCall[one].at # "idle" => codeCall[one].key \in Interrupted!Sessions
  /\ session \in [Interrupted!Sessions -> SessionRecords \union {Null}]
  /\ last \in [Interrupted!Sessions -> CodeNumbers]
  /\ codes \in Nat

\* What session a call d has read or is about to write, with its time to live.
KeepsTtl(d) ==
  /\ d.at = "ttl" /\ session[d.key] # Null => session[d.key].code = d.code
  /\ d.at = "back" => d.until = d.code

\* A session keeps the time to live of its code, whatever a call has read.
CodesInv == CodeShape /\ Interrupted!CodeKeepsItsTtl /\ KeepsTtl(codeCall[one])

\* A call d holds the last code of its phone, which only waits to be stored.
HoldsLast(d) == d.at \in {"store", "ttl", "back"} => d.code = last[d.key]

\* Every session is that of the last code, but for the one that is replaced.
SessionsOfLast(d) ==
  \A k \in Interrupted!Sessions :
    session[k] # Null => session[k].code = last[k] \/ (d.at = "store" /\ d.key = k)

CodedInv == CodeShape /\ SessionsOfLast(codeCall[one]) /\ HoldsLast(codeCall[one])

\* What a call becomes, with the rest of the state that is proved about.
LEMMA CodeCallStep ==
  ASSUME CodeShape, NEW c \in CodeRecords, c.at # "idle" => c.key \in Interrupted!Sessions,
         codeCall' = [codeCall EXCEPT ![one] = c],
         session' \in [Interrupted!Sessions -> SessionRecords \union {Null}],
         last' \in [Interrupted!Sessions -> CodeNumbers], codes' \in Nat
  PROVE  CodeShape' /\ codeCall'[one] = c
BY DEF CodeShape

LEMMA CodeIdle == Interrupted!Idle \in CodeRecords /\ Interrupted!Idle.at = "idle"
BY DEF Interrupted!Idle, CodeRecords, CodeSteps, CodeNumbers

\* The steps of a call before its code is sent, and those that end it, leave
\* the sessions as they are.
LEMMA CodeQuietStep ==
  ASSUME CodeShape, UNCHANGED <<session, last, codes>>,
         \/ \E k \in Interrupted!Sessions : Interrupted!RequestOtp(one, k)
         \/ Interrupted!CountRequest(one) \/ Interrupted!LetCounterExpire(one)
         \/ Interrupted!StartCooldown(one) \/ Interrupted!SendFails(one)
         \/ Interrupted!Crash(one)
  PROVE  CodeShape' /\ codeCall'[one].at \in {"idle", "count", "expire", "cool", "send"}
<1>1. PICK e : e = codeCall[one]
  OBVIOUS
<1>2. e \in CodeRecords /\ (e.at # "idle" => e.key \in Interrupted!Sessions)
  BY <1>1 DEF CodeShape
<1>3. ASSUME NEW at \in {"idle", "expire", "cool", "send"}, Interrupted!GoesTo(one, at), e.at # "idle"
      PROVE  CodeShape' /\ codeCall'[one].at = at
  <2>1. PICK c : c = IF at = "idle" THEN Interrupted!Idle ELSE [e EXCEPT !.at = at]
    OBVIOUS
  <2>2. c \in CodeRecords /\ c.at = at /\ (c.at # "idle" => c.key \in Interrupted!Sessions)
    BY <1>2, <1>3, <2>1, CodeIdle DEF CodeRecords, CodeSteps
  <2>3. codeCall' = [codeCall EXCEPT ![one] = c]
    BY <1>1, <1>3, <2>1 DEF Interrupted!GoesTo, CodeShape
  <2>4. CodeShape' /\ codeCall'[one] = c
    BY <2>2, <2>3, CodeCallStep DEF CodeShape
  <2> QED
    BY <2>2, <2>4
<1>4. ASSUME NEW k \in Interrupted!Sessions, Interrupted!RequestOtp(one, k)
      PROVE  CodeShape' /\ codeCall'[one].at = "count"
  <2>1. PICK c : c = [Interrupted!Idle EXCEPT !.at = "count", !.key = k]
    OBVIOUS
  <2>2. c \in CodeRecords /\ c.at = "count" /\ c.key = k
    BY <2>1 DEF Interrupted!Idle, CodeRecords, CodeSteps, CodeNumbers
  <2>3. codeCall' = [codeCall EXCEPT ![one] = c]
    BY <1>4, <2>1 DEF Interrupted!RequestOtp
  <2>4. CodeShape' /\ codeCall'[one] = c
    BY <2>2, <2>3, CodeCallStep DEF CodeShape
  <2> QED
    BY <2>2, <2>4
<1>5. CASE Interrupted!CountRequest(one)
  <2>1. e.at = "count" /\ \E at \in {"idle", "expire", "cool", "send"} : Interrupted!GoesTo(one, at)
    BY <1>1, <1>5 DEF Interrupted!CountRequest
  <2> QED
    BY <1>3, <2>1
<1>6. CASE Interrupted!Crash(one)
  BY <1>1, <1>3, <1>6, CodeIdle DEF Interrupted!Crash, Interrupted!GoesTo, CodeShape
<1> QED
  BY <1>1, <1>3, <1>4, <1>5, <1>6
  DEF Interrupted!LetCounterExpire, Interrupted!StartCooldown, Interrupted!SendFails

\* A code is sent and is the last one, not yet stored.
LEMMA SendStep ==
  ASSUME CodeShape, Interrupted!SendCode(one)
  PROVE  /\ CodeShape' /\ UNCHANGED session
         /\ codeCall'[one].at = "store" /\ codeCall'[one].key = codeCall[one].key
         /\ codeCall[one].key \in Interrupted!Sessions
         /\ last' = [last EXCEPT ![codeCall[one].key] = codeCall'[one].code]
<1>1. PICK e : e = codeCall[one]
  OBVIOUS
<1>2. PICK c : c = [e EXCEPT !.at = "store", !.code = codes + 1]
  OBVIOUS
<1>3. e \in CodeRecords /\ e.key \in Interrupted!Sessions
  BY <1>1 DEF CodeShape, Interrupted!SendCode
<1>a. codes + 1 \in Nat /\ codes + 1 \in CodeNumbers
  BY DEF CodeShape, CodeNumbers
<1>4. c \in CodeRecords /\ c.at = "store" /\ c.key = e.key /\ c.code = codes + 1
  BY <1>2, <1>3, <1>a DEF CodeRecords, CodeSteps
<1>5. /\ codeCall' = [codeCall EXCEPT ![one] = c] /\ codes' = codes + 1
      /\ last' = [last EXCEPT ![e.key] = codes + 1] /\ UNCHANGED session
  BY <1>1, <1>2 DEF Interrupted!SendCode, CodeShape
<1>6. last' \in [Interrupted!Sessions -> CodeNumbers] /\ codes' \in Nat
  BY <1>a, <1>5 DEF CodeShape
<1>7. CodeShape' /\ codeCall'[one] = c
  BY <1>3, <1>4, <1>5, <1>6, CodeCallStep DEF CodeShape
<1> QED
  BY <1>1, <1>3, <1>4, <1>5, <1>7

\* The session of a call is stored, written back or ended.
LEMMA SessionWriteStep ==
  ASSUME CodeShape, Interrupted!StoreSession(one) \/ Interrupted!WriteBack(one) \/ Interrupted!EndSession(one)
  PROVE  /\ CodeShape' /\ UNCHANGED last /\ codeCall'[one].at = "idle"
         /\ codeCall[one].key \in Interrupted!Sessions
         /\ \A k \in Interrupted!Sessions : k # codeCall[one].key => session'[k] = session[k]
         /\ \/ Interrupted!EndSession(one) /\ session'[codeCall[one].key] = Null
            \/ /\ Interrupted!StoreSession(one)
               /\ session'[codeCall[one].key].code = codeCall[one].code
               /\ session'[codeCall[one].key].until = codeCall[one].code
            \/ /\ Interrupted!WriteBack(one)
               /\ session'[codeCall[one].key].code = codeCall[one].code
               /\ session'[codeCall[one].key].until = codeCall[one].until
<1>1. PICK e : e = codeCall[one]
  OBVIOUS
<1>2. e \in CodeRecords /\ e.key \in Interrupted!Sessions
  BY <1>1 DEF CodeShape, Interrupted!StoreSession, Interrupted!WriteBack, Interrupted!EndSession
<1>3. PICK w : w = IF Interrupted!EndSession(one) THEN Null
                   ELSE IF Interrupted!StoreSession(one)
                        THEN [code |-> e.code, attempts |-> 0, until |-> e.code]
                        ELSE [code |-> e.code, attempts |-> e.attempts, until |-> e.until]
  OBVIOUS
<1>4. w \in SessionRecords \union {Null}
  BY <1>2, <1>3 DEF CodeRecords, SessionRecords
<1>5. session' = [session EXCEPT ![e.key] = w] /\ UNCHANGED <<last, codes>>
  BY <1>1, <1>3
  DEF Interrupted!StoreSession, Interrupted!WriteBack, Interrupted!EndSession
<1>6. codeCall' = [codeCall EXCEPT ![one] = Interrupted!Idle]
  BY DEF Interrupted!StoreSession, Interrupted!WriteBack, Interrupted!EndSession, Interrupted!GoesTo
<1>7. session' \in [Interrupted!Sessions -> SessionRecords \union {Null}]
  BY <1>2, <1>4, <1>5 DEF CodeShape
<1>8. CodeShape' /\ codeCall'[one] = Interrupted!Idle
  BY <1>5, <1>6, <1>7, CodeIdle, CodeCallStep DEF CodeShape
<1>9. session'[e.key] = w /\ \A k \in Interrupted!Sessions : k # e.key => session'[k] = session[k]
  BY <1>2, <1>5 DEF CodeShape
<1>10. \/ Interrupted!EndSession(one) /\ w = Null
       \/ Interrupted!StoreSession(one) /\ w.code = e.code /\ w.until = e.code
       \/ Interrupted!WriteBack(one) /\ w.code = e.code /\ w.until = e.until
  BY <1>3
<1>11. codeCall'[one].at = "idle" /\ UNCHANGED last
  BY <1>5, <1>8, CodeIdle
<1> QED
  BY Zenon, <1>1, <1>2, <1>8, <1>9, <1>10, <1>11

\* A wrong code: what a call has read of its session, and of its time.
LEMMA VerifyStep ==
  ASSUME CodeShape, NEW k \in Interrupted!Sessions, NEW right \in BOOLEAN,
         Interrupted!VerifyOtp(one, k, right)
  PROVE  /\ CodeShape' /\ UNCHANGED <<session, last>>
         /\ codeCall[one].at = "idle" /\ session[k] # Null
         /\ codeCall'[one].at \in {"ttl", "end"}
         /\ codeCall'[one].key = k /\ codeCall'[one].code = session[k].code
<1>1. PICK c : c = [Interrupted!Idle EXCEPT
                      !.at = IF right \/ session[k].attempts + 1 >= MaxAttempts THEN "end" ELSE "ttl",
                      !.key = k, !.code = session[k].code, !.attempts = session[k].attempts + 1]
  OBVIOUS
<1>2. session[k] \in SessionRecords
  BY DEF CodeShape, Interrupted!VerifyOtp
<1>a. session[k].attempts + 1 \in Nat /\ session[k].code \in CodeNumbers
  BY <1>2 DEF SessionRecords
<1>3. c \in CodeRecords /\ c.at \in {"ttl", "end"} /\ c.key = k /\ c.code = session[k].code
  BY <1>1, <1>a DEF Interrupted!Idle, CodeRecords, CodeSteps, CodeNumbers
<1>4. codeCall' = [codeCall EXCEPT ![one] = c] /\ UNCHANGED <<session, last, codes>>
  BY <1>1 DEF Interrupted!VerifyOtp
<1>5. CodeShape' /\ codeCall'[one] = c
  BY <1>3, <1>4, CodeCallStep DEF CodeShape
<1> QED
  BY <1>3, <1>4, <1>5, CodeIdle DEF Interrupted!VerifyOtp

LEMMA TtlStep ==
  ASSUME CodeShape, Interrupted!ReadTtl(one)
  PROVE  /\ CodeShape' /\ UNCHANGED <<session, last>> /\ codeCall[one].at = "ttl"
         /\ codeCall'[one].key = codeCall[one].key /\ codeCall'[one].code = codeCall[one].code
         /\ codeCall[one].key \in Interrupted!Sessions
         /\ \/ codeCall'[one].at = "end"
            \/ /\ codeCall'[one].at = "back" /\ session[codeCall[one].key] # Null
               /\ codeCall'[one].until = session[codeCall[one].key].until
<1>1. PICK e : e = codeCall[one]
  OBVIOUS
<1>2. PICK c : c = IF session[e.key] = Null THEN [e EXCEPT !.at = "end"]
                   ELSE [e EXCEPT !.at = "back", !.until = session[e.key].until]
  OBVIOUS
<1>3. e \in CodeRecords /\ e.at = "ttl" /\ e.key \in Interrupted!Sessions
  BY <1>1 DEF CodeShape, Interrupted!ReadTtl
<1>4. session[e.key] # Null => session[e.key] \in SessionRecords
  BY <1>3 DEF CodeShape
<1>5. /\ c \in CodeRecords /\ c.key = e.key /\ c.code = e.code
      /\ \/ c.at = "end"
         \/ c.at = "back" /\ session[e.key] # Null /\ c.until = session[e.key].until
  BY <1>2, <1>3, <1>4 DEF CodeRecords, SessionRecords, CodeSteps
<1>6. codeCall' = [codeCall EXCEPT ![one] = c] /\ UNCHANGED <<session, last, codes>>
  BY <1>1, <1>2 DEF Interrupted!ReadTtl, CodeShape
<1>7. CodeShape' /\ codeCall'[one] = c
  BY <1>3, <1>5, <1>6, CodeCallStep DEF CodeShape
<1> QED
  BY <1>1, <1>3, <1>5, <1>6, <1>7

\* A key expires in Redis.
LEMMA ExpiryStep ==
  ASSUME CodeShape,
         \/ \E k \in Interrupted!Sessions : Interrupted!ExpireSession(k)
         \/ \E ph \in Phones : Interrupted!ExpireCooldown(ph) \/ Interrupted!ExpireCounter(ph)
  PROVE  /\ CodeShape' /\ UNCHANGED <<last, codeCall>>
         /\ \A k \in Interrupted!Sessions : session'[k] \in {session[k], Null}
<1>1. ASSUME NEW k \in Interrupted!Sessions, Interrupted!ExpireSession(k)
      PROVE  /\ CodeShape' /\ UNCHANGED <<last, codeCall>>
             /\ \A j \in Interrupted!Sessions : session'[j] \in {session[j], Null}
  BY <1>1 DEF Interrupted!ExpireSession, CodeShape
<1> QED
  BY <1>1 DEF Interrupted!ExpireCooldown, Interrupted!ExpireCounter, CodeShape

LEMMA CodesStep == CodesInv /\ [Interrupted!Next]_(Interrupted!vars) => CodesInv'
<1> SUFFICES ASSUME CodesInv, [Interrupted!Next]_(Interrupted!vars) PROVE CodesInv'
  OBVIOUS
<1>0. CodeShape
  BY DEF CodesInv
<1>1. CASE UNCHANGED Interrupted!vars
  BY <1>1 DEF Interrupted!vars, CodesInv, CodeShape, KeepsTtl, Interrupted!CodeKeepsItsTtl
<1>2. ASSUME CodeShape', UNCHANGED session, codeCall'[one].at \notin {"ttl", "back"}
      PROVE  CodesInv'
  BY <1>2 DEF CodesInv, KeepsTtl, Interrupted!CodeKeepsItsTtl
<1>3. CASE \/ \E k \in Interrupted!Sessions : Interrupted!RequestOtp(one, k)
           \/ Interrupted!CountRequest(one) \/ Interrupted!LetCounterExpire(one)
           \/ Interrupted!StartCooldown(one) \/ Interrupted!SendFails(one)
           \/ Interrupted!Crash(one)
  <2>1. UNCHANGED <<session, last, codes>>
    BY <1>3
    DEF Interrupted!RequestOtp, Interrupted!CountRequest, Interrupted!LetCounterExpire,
        Interrupted!StartCooldown, Interrupted!SendFails, Interrupted!Crash
  <2> QED
    BY <1>0, <1>2, <1>3, <2>1, CodeQuietStep
<1>4. CASE Interrupted!SendCode(one)
  BY <1>0, <1>2, <1>4, SendStep
<1>5. CASE Interrupted!StoreSession(one) \/ Interrupted!WriteBack(one) \/ Interrupted!EndSession(one)
  <2>1. PICK e : e = codeCall[one]
    OBVIOUS
  <2>2. CodeShape' /\ codeCall'[one].at = "idle" /\ e.key \in Interrupted!Sessions
    BY <1>0, <1>5, <2>1, SessionWriteStep
  <2>3. Interrupted!WriteBack(one) => e.until = e.code
    BY <2>1 DEF CodesInv, KeepsTtl, Interrupted!WriteBack
  <2>4. ASSUME NEW k \in Interrupted!Sessions
        PROVE  session'[k] # Null => session'[k].until = session'[k].code
    BY <1>0, <1>5, <2>1, <2>3, SessionWriteStep DEF CodesInv, Interrupted!CodeKeepsItsTtl
  <2> QED
    BY <2>2, <2>4 DEF CodesInv, KeepsTtl, Interrupted!CodeKeepsItsTtl
<1>6. ASSUME NEW k \in Interrupted!Sessions, NEW right \in BOOLEAN, Interrupted!VerifyOtp(one, k, right)
      PROVE  CodesInv'
  BY <1>0, <1>6, VerifyStep DEF CodesInv, KeepsTtl, Interrupted!CodeKeepsItsTtl
<1>7. CASE Interrupted!ReadTtl(one)
  BY <1>0, <1>7, TtlStep DEF CodesInv, KeepsTtl, Interrupted!CodeKeepsItsTtl
<1>8. CASE \/ \E k \in Interrupted!Sessions : Interrupted!ExpireSession(k)
           \/ \E ph \in Phones : Interrupted!ExpireCooldown(ph) \/ Interrupted!ExpireCounter(ph)
  BY <1>0, <1>8, ExpiryStep DEF CodesInv, CodeShape, KeepsTtl, Interrupted!CodeKeepsItsTtl
<1> QED
  BY <1>1, <1>3, <1>4, <1>5, <1>6, <1>7, <1>8 DEF Interrupted!Next, Interrupted!Continue

LEMMA CodesInit == Interrupted!Init => CodesInv
BY CodeIdle
DEF Interrupted!Init, CodesInv, CodeShape, KeepsTtl, CodeNumbers, Interrupted!CodeKeepsItsTtl

\* A session ends when the time of its own code is over, although a wrong code
\* writes it back and processes stop anywhere in between.
THEOREM SessionsKeepTheirTime == Interrupted!Spec => []Interrupted!CodeKeepsItsTtl
<1>1. CodesInv => Interrupted!CodeKeepsItsTtl
  BY DEF CodesInv
<1> QED
  BY <1>1, CodesInit, CodesStep, PTL DEF Interrupted!Spec

\* A process that does not stop takes the same steps, but for the crash.
LEMMA CodedIsStep ==
  Coded!Next =>
    \/ \E k \in Interrupted!Sessions :
         \/ Interrupted!RequestOtp(one, k) \/ Interrupted!ExpireSession(k)
         \/ \E right \in BOOLEAN : Interrupted!VerifyOtp(one, k, right)
    \/ Interrupted!Continue(one)
    \/ \E ph \in Phones : Interrupted!ExpireCooldown(ph) \/ Interrupted!ExpireCounter(ph)
<1>1. /\ Coded!Idle = Interrupted!Idle /\ Coded!Sessions = Interrupted!Sessions
      /\ \A p : Coded!Phone(p) = Interrupted!Phone(p)
      /\ \A p, at : Coded!GoesTo(p, at) <=> Interrupted!GoesTo(p, at)
  BY DEF Coded!Idle, Interrupted!Idle, Coded!Sessions, Interrupted!Sessions, Coded!Phone,
         Interrupted!Phone, Coded!GoesTo, Interrupted!GoesTo
<1>2. \A p : Coded!CountRequest(p) <=> Interrupted!CountRequest(p)
  BY Zenon, <1>1 DEF Coded!CountRequest, Interrupted!CountRequest, Coded!Min, Interrupted!Min
<1>3. \A p : Coded!LetCounterExpire(p) <=> Interrupted!LetCounterExpire(p)
  BY Zenon, <1>1 DEF Coded!LetCounterExpire, Interrupted!LetCounterExpire
<1>4. \A p : Coded!StartCooldown(p) <=> Interrupted!StartCooldown(p)
  BY Zenon, <1>1 DEF Coded!StartCooldown, Interrupted!StartCooldown
<1>5. \A p : Coded!SendCode(p) <=> Interrupted!SendCode(p)
  BY Zenon, <1>1 DEF Coded!SendCode, Interrupted!SendCode
<1>6. \A p : Coded!SendFails(p) <=> Interrupted!SendFails(p)
  BY Zenon, <1>1 DEF Coded!SendFails, Interrupted!SendFails
<1>7. \A p : Coded!StoreSession(p) <=> Interrupted!StoreSession(p)
  BY Zenon, <1>1 DEF Coded!StoreSession, Interrupted!StoreSession
<1>8. \A p : Coded!ReadTtl(p) <=> Interrupted!ReadTtl(p)
  BY Zenon, <1>1 DEF Coded!ReadTtl, Interrupted!ReadTtl
<1>9. \A p : Coded!WriteBack(p) <=> Interrupted!WriteBack(p)
  BY Zenon, <1>1 DEF Coded!WriteBack, Interrupted!WriteBack
<1>10. \A p : Coded!EndSession(p) <=> Interrupted!EndSession(p)
  BY Zenon, <1>1 DEF Coded!EndSession, Interrupted!EndSession
<1>11. \A p, k : Coded!RequestOtp(p, k) <=> Interrupted!RequestOtp(p, k)
  BY Zenon, <1>1 DEF Coded!RequestOtp, Interrupted!RequestOtp
<1>12. \A p, k, right : Coded!VerifyOtp(p, k, right) <=> Interrupted!VerifyOtp(p, k, right)
  BY Zenon, <1>1 DEF Coded!VerifyOtp, Interrupted!VerifyOtp
<1>13. /\ \A k : Coded!ExpireSession(k) <=> Interrupted!ExpireSession(k)
       /\ \A ph : Coded!ExpireCooldown(ph) <=> Interrupted!ExpireCooldown(ph)
       /\ \A ph : Coded!ExpireCounter(ph) <=> Interrupted!ExpireCounter(ph)
       /\ \A p : ~ Coded!Crash(p)
  BY DEF Coded!ExpireSession, Coded!ExpireCooldown, Coded!ExpireCounter, Coded!Crash,
         Interrupted!ExpireSession, Interrupted!ExpireCooldown, Interrupted!ExpireCounter
<1>14. \A p : Coded!Continue(p) <=> Interrupted!Continue(p)
  BY Zenon, <1>2, <1>3, <1>4, <1>5, <1>6, <1>7, <1>8, <1>9, <1>10 DEF Coded!Continue, Interrupted!Continue
<1> QED
  BY Zenon, <1>1, <1>11, <1>12, <1>13, <1>14 DEF Coded!Next

\* A step after which the call holds no code.
LEMMA HoldsNoCode ==
  ASSUME CodeShape', codeCall'[one].at \notin {"store", "ttl", "back"},
         \A k \in Interrupted!Sessions : session'[k] # Null => session'[k].code = last'[k]
  PROVE  CodedInv'
<1>1. SessionsOfLast(codeCall[one])'
  BY DEF SessionsOfLast, Interrupted!Sessions
<1>2. HoldsLast(codeCall[one])'
  BY DEF HoldsLast
<1> QED
  BY <1>1, <1>2 DEF CodedInv

\* Without crashes.  A crash between the code that is sent and its session would
\* leave the one before it.
LEMMA CodedStep == CodedInv /\ [Coded!Next]_(Coded!vars) => CodedInv'
<1> SUFFICES ASSUME CodedInv, [Coded!Next]_(Coded!vars) PROVE CodedInv'
  OBVIOUS
<1>0. CodeShape
  BY DEF CodedInv
<1>1. CASE UNCHANGED Coded!vars
  BY <1>1 DEF Coded!vars, CodedInv, CodeShape, SessionsOfLast, HoldsLast
<1>2. CASE Coded!Next
  <2>3. CASE \/ \E k \in Interrupted!Sessions : Interrupted!RequestOtp(one, k)
             \/ Interrupted!CountRequest(one) \/ Interrupted!LetCounterExpire(one)
             \/ Interrupted!StartCooldown(one) \/ Interrupted!SendFails(one)
    <3>1. UNCHANGED <<session, last, codes>> /\ codeCall[one].at # "store"
      BY <2>3, CodeIdle
      DEF Interrupted!RequestOtp, Interrupted!CountRequest, Interrupted!LetCounterExpire,
          Interrupted!StartCooldown, Interrupted!SendFails
    <3>2. CodeShape' /\ codeCall'[one].at \notin {"store", "ttl", "back"}
      BY <1>0, <2>3, <3>1, CodeQuietStep
    <3>3. ASSUME NEW k \in Interrupted!Sessions
          PROVE  session'[k] # Null => session'[k].code = last'[k]
      BY <3>1 DEF CodedInv, SessionsOfLast
    <3> QED
      BY <3>2, <3>3, HoldsNoCode
  <2>4. CASE Interrupted!SendCode(one)
    <3>1. PICK c : c = codeCall'[one]
      OBVIOUS
    <3>2. /\ CodeShape' /\ UNCHANGED session /\ c.at = "store" /\ c.key \in Interrupted!Sessions
          /\ last' = [last EXCEPT ![c.key] = c.code]
      BY <1>0, <2>4, <3>1, SendStep
    <3>3. ASSUME NEW k \in Interrupted!Sessions, k # c.key
          PROVE  session'[k] # Null => session'[k].code = last'[k]
      <4>1. session[k] # Null => session[k].code = last[k]
        BY <2>4 DEF CodedInv, SessionsOfLast, Interrupted!SendCode
      <4>2. last'[k] = last[k] /\ session'[k] = session[k]
        BY <1>0, <3>2, <3>3 DEF CodeShape
      <4> QED
        BY <4>1, <4>2
    <3>4. SessionsOfLast(codeCall[one])'
      BY <3>1, <3>2, <3>3 DEF SessionsOfLast, Interrupted!Sessions
    <3>5. HoldsLast(codeCall[one])'
      BY <1>0, <3>1, <3>2 DEF HoldsLast, CodeShape
    <3> QED
      BY <3>1, <3>2, <3>3, <3>4, <3>5 DEF CodedInv
  <2>5. CASE Interrupted!StoreSession(one) \/ Interrupted!WriteBack(one) \/ Interrupted!EndSession(one)
    <3>1. PICK e : e = codeCall[one]
      OBVIOUS
    <3>2. /\ CodeShape' /\ UNCHANGED last /\ codeCall'[one].at = "idle" /\ e.key \in Interrupted!Sessions
          /\ \A k \in Interrupted!Sessions : k # e.key => session'[k] = session[k]
          /\ \/ session'[e.key] = Null
             \/ e.at \in {"store", "back"} /\ session'[e.key].code = e.code
      BY <1>0, <2>5, <3>1, SessionWriteStep DEF Interrupted!StoreSession, Interrupted!WriteBack
    <3>3. e.at \in {"store", "back"} => e.code = last[e.key]
      BY <3>1 DEF CodedInv, HoldsLast
    <3>4. ASSUME NEW k \in Interrupted!Sessions
          PROVE  session'[k] # Null => session'[k].code = last'[k]
      <4>1. CASE k = e.key
        BY <3>2, <3>3, <4>1
      <4>2. CASE k # e.key
        BY <2>5, <3>1, <3>2, <4>2
        DEF CodedInv, SessionsOfLast, Interrupted!StoreSession, Interrupted!WriteBack,
            Interrupted!EndSession
      <4> QED
        BY <4>1, <4>2
    <3> QED
      BY <3>2, <3>4, HoldsNoCode
  <2>6. ASSUME NEW k \in Interrupted!Sessions, NEW right \in BOOLEAN, Interrupted!VerifyOtp(one, k, right)
        PROVE  CodedInv'
    <3>1. /\ CodeShape' /\ UNCHANGED <<session, last>>
          /\ codeCall[one].at = "idle" /\ session[k] # Null
          /\ codeCall'[one].at \in {"ttl", "end"}
          /\ codeCall'[one].key = k /\ codeCall'[one].code = session[k].code
      BY <1>0, <2>6, VerifyStep
    <3> QED
      BY <3>1 DEF CodedInv, SessionsOfLast, HoldsLast
  <2>7. CASE Interrupted!ReadTtl(one)
    <3>1. /\ CodeShape' /\ UNCHANGED <<session, last>> /\ codeCall[one].at = "ttl"
          /\ codeCall'[one].key = codeCall[one].key /\ codeCall'[one].code = codeCall[one].code
      BY <1>0, <2>7, TtlStep
    <3> QED
      BY <3>1 DEF CodedInv, SessionsOfLast, HoldsLast
  <2>8. CASE \/ \E k \in Interrupted!Sessions : Interrupted!ExpireSession(k)
             \/ \E ph \in Phones : Interrupted!ExpireCooldown(ph) \/ Interrupted!ExpireCounter(ph)
    <3>1. /\ CodeShape' /\ UNCHANGED <<last, codeCall>>
          /\ \A k \in Interrupted!Sessions : session'[k] \in {session[k], Null}
      BY <1>0, <2>8, ExpiryStep
    <3> QED
      BY <3>1 DEF CodedInv, SessionsOfLast, HoldsLast
  <2> QED
    BY <1>2, CodedIsStep, <2>3, <2>4, <2>5, <2>6, <2>7, <2>8 DEF Interrupted!Continue
<1> QED
  BY <1>1, <1>2

LEMMA CodedInit == Coded!Init => CodedInv
BY CodeIdle
DEF Coded!Init, Coded!Idle, Coded!Sessions, Interrupted!Idle, Interrupted!Sessions, CodedInv,
    CodeShape, SessionsOfLast, HoldsLast, CodeNumbers

LEMMA CodedShows == CodedInv => Coded!LastCodeWorks
<1> SUFFICES ASSUME CodedInv, Coded!AtRest, NEW k \in Interrupted!Sessions, session[k] # Null
             PROVE  session[k].code = last[k]
  BY DEF Coded!LastCodeWorks, Coded!Sessions, Interrupted!Sessions
<1>1. codeCall[one] = Coded!Idle /\ Coded!Idle.at = "idle"
  BY DEF Coded!AtRest, Coded!Idle
<1> QED
  BY <1>1 DEF CodedInv, SessionsOfLast

\* Between calls a phone that has a session has that of the last code it was
\* sent, whatever wrong codes wrote back and whatever could not be sent.
THEOREM CodesWork == Coded!Spec => []Coded!LastCodeWorks
BY CodedInit, CodedStep, CodedShows, PTL DEF Coded!Spec

(***************************************************************************)
(* The session of the browser, whose requests go one after the other, for  *)
(* any number of users and sessions.  A state either has no request under  *)
(* way or exactly one, and the invariants say what holds in either; side   *)
(* by side, a late answer brings an old session back.                      *)
(***************************************************************************)

USE BrowserAssumption DEF Web!WebAssumption

Requests == Web!Requests

NoRequest == request = [k \in WebFaults!Kinds |-> Null]

\* The only request under way is r, of kind k.
Under(k, r) ==
  r \in Requests /\ request = [j \in WebFaults!Kinds |-> IF j = k THEN r ELSE Null]

WebTypes ==
  /\ owner \in [Logins -> Users \union {Null}]
  /\ live \subseteq Logins
  /\ cookie \in [rt : Logins \union {Null}, imp : Logins \union {Null}]
  /\ tab \in [token : Logins \union {Null}, profile : Users \union {Null},
              banner : Users \union {Null}, booting : BOOLEAN]
  /\ NoRequest \/ \E k \in WebFaults!Kinds, r \in Requests : Under(k, r)

\* The cookie of a page with a token is that token, and it shows its user, or
\* that of whom it has returned from.
PageFits ==
  /\ \A s \in live : owner[s] # Null
  /\ tab.token # Null =>
       /\ cookie.rt = tab.token /\ owner[tab.token] # Null /\ tab.profile # Null
       /\ tab.profile = owner[tab.token] \/ (tab.banner = Null /\ cookie.imp = Null)
  /\ tab.token = Null => tab.profile = Null

\* What holds while the request r of kind k is under way.
PageFlight(k, r) ==
  /\ r.rt = cookie.rt /\ r.imp = cookie.imp
  /\ tab.booting => k = "refresh" /\ tab.token = Null
  /\ k \in {"login", "logout"} => tab.token = Null
  /\ k = "refresh" => tab.booting \/ tab.token # Null
  /\ k = "stop" => tab.profile # Null
  /\ k \in {"login", "start"} => r.user \in Users
  /\ r.at = "answered" /\ r.session # Null => owner[r.session] # Null
  /\ r.at = "answered" /\ k = "login" => r.session # Null
  /\ r.at = "answered" /\ k = "refresh" => r.session \in {r.rt, Null}

PageInv ==
  /\ WebTypes /\ PageFits
  /\ NoRequest => ~ tab.booting
  /\ \A k \in WebFaults!Kinds, r \in Requests : Under(k, r) => PageFlight(k, r)

\* There is one request under way or none.
LEMMA OneRequest ==
  /\ \A k \in WebFaults!Kinds, r \in Requests :
       Under(k, r) => ~ NoRequest /\ ~ WebFaults!Quiet /\ request[k] = r
  /\ NoRequest => WebFaults!Quiet
  /\ \A k, j \in WebFaults!Kinds, r, q \in Requests : Under(k, r) /\ Under(j, q) => k = j /\ r = q
BY DEF Under, NoRequest, WebFaults!Quiet, Requests

\* After a step too.
LEMMA OneRequestNext ==
  ASSUME NEW k \in WebFaults!Kinds, NEW j \in WebFaults!Kinds, NEW r \in Requests, NEW q \in Requests
  PROVE  /\ Under(k, r)' => ~ NoRequest'
         /\ Under(k, r)' /\ Under(j, q)' => k = j /\ r = q
BY DEF Under, NoRequest, Requests

\* A request that is sent,
LEMMA Sending ==
  ASSUME WebTypes, NEW k \in WebFaults!Kinds, NEW u \in Users \union {Null},
         WebFaults!Sends(k, u), NEW r, r = WebFaults!Request(u)
  PROVE  /\ NoRequest /\ Under(k, r)' /\ r \in Requests
         /\ r.at = "sent" /\ r.rt = cookie.rt /\ r.imp = cookie.imp /\ r.user = u
<1>1. r \in Requests /\ r.at = "sent" /\ r.rt = cookie.rt /\ r.imp = cookie.imp /\ r.user = u
  BY DEF WebFaults!Request, Requests, Web!Requests, WebTypes
<1>2. WebFaults!Quiet
  BY DEF WebFaults!Sends
<1>3. NoRequest
  BY <1>2, OneRequest DEF WebTypes
<1>4. request' = [j \in WebFaults!Kinds |-> IF j = k THEN r ELSE Null]
  BY <1>3 DEF WebFaults!Sends, NoRequest
<1> QED
  BY <1>1, <1>3, <1>4 DEF Under

\* is the only one until it is answered,
LEMMA IsUnder ==
  ASSUME WebTypes, NEW k \in WebFaults!Kinds, WebFaults!Sent(k) \/ WebFaults!Answered(k)
  PROVE  \E r \in Requests : Under(k, r) /\ request[k] = r
<1>1. request[k] # Null
  BY DEF WebFaults!Sent, WebFaults!Answered
<1>2. ~ NoRequest
  BY <1>1 DEF NoRequest
<1>3. PICK j \in WebFaults!Kinds, r \in Requests : Under(j, r)
  BY <1>2 DEF WebTypes
<1>4. j = k /\ request[k] = r
  BY <1>1, <1>3 DEF Under
<1> QED
  BY <1>3, <1>4

LEMMA Answering ==
  ASSUME NEW k \in WebFaults!Kinds, NEW r \in Requests, Under(k, r),
         NEW s \in Logins \union {Null}, WebFaults!Answers(k, s)
  PROVE  \E q \in Requests :
           /\ Under(k, q)' /\ q.at = "answered" /\ q.session = s
           /\ q.rt = r.rt /\ q.imp = r.imp /\ q.user = r.user
<1>1. PICK q : q = [r EXCEPT !.at = "answered", !.session = s]
  OBVIOUS
<1>2. /\ q \in Requests /\ q.at = "answered" /\ q.session = s
      /\ q.rt = r.rt /\ q.imp = r.imp /\ q.user = r.user
  BY <1>1 DEF Requests, Web!Requests
<1>3. request' = [j \in WebFaults!Kinds |-> IF j = k THEN q ELSE Null]
  BY <1>1 DEF WebFaults!Answers, Under
<1> QED
  BY <1>2, <1>3 DEF Under

\* and over when the answer is applied.
LEMMA Finishing ==
  ASSUME NEW k \in WebFaults!Kinds, NEW r \in Requests, Under(k, r), WebFaults!Done(k)
  PROVE  NoRequest'
BY DEF Under, WebFaults!Done, NoRequest

\* A logout may follow at once.
LEMMA Following ==
  ASSUME WebTypes, NEW k \in WebFaults!Kinds, NEW r \in Requests, Under(k, r),
         NEW s \in Logins \union {Null}, WebFaults!LogsOut(k, s)
  PROVE  \E q \in Requests :
           Under("logout", q)' /\ q.at = "sent" /\ q.rt = s /\ q.imp = cookie.imp
<1>1. PICK q : q = [WebFaults!Request(Null) EXCEPT !.rt = s]
  OBVIOUS
<1>2. q \in Requests /\ q.at = "sent" /\ q.rt = s /\ q.imp = cookie.imp
  BY <1>1 DEF WebFaults!Request, Requests, Web!Requests, WebTypes
<1>3. request' = [request EXCEPT ![k] = Null, !["logout"] = q]
  BY <1>1 DEF WebFaults!LogsOut
<1>4. request' = [j \in WebFaults!Kinds |-> IF j = "logout" THEN q ELSE Null]
  BY <1>3 DEF Under, WebFaults!Kinds
<1> QED
  BY <1>2, <1>4 DEF Under

\* It is enough to see what is under way after a step.
LEMMA PageUnder ==
  ASSUME WebTypes', PageFits', NEW k \in WebFaults!Kinds, NEW r \in Requests, Under(k, r)', PageFlight(k, r)'
  PROVE  PageInv'
<1>1. /\ ~ NoRequest'
      /\ \A j \in WebFaults!Kinds, q \in Requests : Under(j, q)' => j = k /\ q = r
  BY OneRequestNext
<1> QED
  BY <1>1 DEF PageInv

LEMMA PageQuiet ==
  ASSUME WebTypes', PageFits', NoRequest', ~ tab'.booting
  PROVE  PageInv'
<1>1. \A j \in WebFaults!Kinds, q \in Requests : ~ Under(j, q)'
  BY OneRequestNext
<1> QED
  BY <1>1 DEF PageInv

\* A request leaves with the cookies.
LEMMA PageSends ==
  ASSUME PageInv, NEW u \in Users,
         \/ WebFaults!Login(u) \/ WebFaults!StartImpersonation(u) \/ WebFaults!SilentRefresh
         \/ WebFaults!Logout \/ WebFaults!StopImpersonation
  PROVE  PageInv'
<1>0. WebTypes /\ PageFits /\ UNCHANGED <<owner, live, cookie>>
  BY DEF PageInv, WebFaults!Login, WebFaults!StartImpersonation, WebFaults!SilentRefresh,
         WebFaults!Logout, WebFaults!StopImpersonation, WebFaults!Server
<1>1. ASSUME NEW k \in WebFaults!Kinds, NEW v \in Users \union {Null}, WebFaults!Sends(k, v),
             k \in {"login", "start"} => v \in Users,
             tab' \in [token : Logins \union {Null}, profile : Users \union {Null},
                       banner : Users \union {Null}, booting : BOOLEAN],
             tab'.booting = tab.booting, k \in {"login", "logout"} => tab'.token = Null,
             k = "refresh" => tab'.token # Null, k = "stop" => tab'.profile # Null,
             PageFits'
      PROVE  PageInv'
  <2>1. PICK r : r = WebFaults!Request(v)
    OBVIOUS
  <2>2. /\ NoRequest /\ Under(k, r)' /\ r \in Requests
        /\ r.at = "sent" /\ r.rt = cookie.rt /\ r.imp = cookie.imp /\ r.user = v
    BY <1>0, <1>1, <2>1, Sending
  <2>3. ~ tab'.booting
    BY <1>1, <2>2 DEF PageInv
  <2>4. WebTypes'
    BY <1>0, <1>1, <2>2 DEF WebTypes
  <2>5. PageFlight(k, r)'
    BY <1>0, <1>1, <2>2, <2>3 DEF PageFlight
  <2> QED
    BY <1>1, <2>2, <2>4, <2>5, PageUnder
<1>2. UNCHANGED tab => PageFits'
  BY <1>0 DEF PageFits
<1>3. CASE WebFaults!Login(u) \/ WebFaults!StartImpersonation(u)
  <2>1. tab.profile = Null => tab.token = Null
    BY <1>0 DEF PageFits
  <2> QED
    BY <1>0, <1>1, <1>2, <1>3, <2>1
    DEF WebFaults!Login, WebFaults!StartImpersonation, WebFaults!Kinds, WebTypes
<1>4. CASE WebFaults!SilentRefresh
  BY <1>0, <1>1, <1>2, <1>4 DEF WebFaults!SilentRefresh, WebFaults!Kinds, WebTypes
<1>5. CASE WebFaults!StopImpersonation
  BY <1>0, <1>1, <1>2, <1>5 DEF WebFaults!StopImpersonation, WebFaults!Kinds, WebTypes
<1>6. CASE WebFaults!Logout
  <2>1. /\ tab' \in [token : Logins \union {Null}, profile : Users \union {Null},
                     banner : Users \union {Null}, booting : BOOLEAN]
        /\ tab'.booting = tab.booting /\ tab'.token = Null /\ tab'.profile = Null
    BY <1>0, <1>6 DEF WebFaults!Logout, WebFaults!EmptyState, WebTypes
  <2>2. PageFits'
    BY <1>0, <2>1 DEF PageFits
  <2> QED
    BY <1>1, <1>6, <2>1, <2>2 DEF WebFaults!Logout, WebFaults!Kinds
<1> QED
  BY <1>3, <1>4, <1>5, <1>6

\* The page is loaded again, a session of Keycloak ends, or a request is lost.
LEMMA PageFaults ==
  ASSUME PageInv,
         \/ WebFaults!Reload \/ \E s \in Logins : WebFaults!Expire(s)
         \/ \E k \in WebFaults!Kinds : WebFaults!Lose(k)
  PROVE  PageInv'
<1>0. WebTypes /\ PageFits
  BY DEF PageInv
<1>1. CASE WebFaults!Reload
  <2>1. PICK r : r = WebFaults!Request(Null)
    OBVIOUS
  <2>2. r \in Requests /\ r.at = "sent" /\ r.rt = cookie.rt /\ r.imp = cookie.imp
    BY <1>0, <2>1 DEF WebFaults!Request, Requests, Web!Requests, WebTypes
  <2>3. "refresh" \in WebFaults!Kinds /\ Under("refresh", r)' /\ UNCHANGED <<owner, live, cookie>>
    BY <1>1, <2>1, <2>2 DEF WebFaults!Reload, WebFaults!Server, Under, WebFaults!Kinds
  <2>4. tab' = [token |-> Null, profile |-> Null, banner |-> Null, booting |-> TRUE]
    BY <1>1 DEF WebFaults!Reload
  <2>5. WebTypes' /\ PageFits'
    BY <1>0, <2>2, <2>3, <2>4 DEF WebTypes, PageFits
  <2>6. PageFlight("refresh", r)'
    BY <2>2, <2>3, <2>4 DEF PageFlight
  <2> QED
    BY <2>2, <2>3, <2>5, <2>6, PageUnder
<1>2. ASSUME NEW s \in Logins, WebFaults!Expire(s) PROVE PageInv'
  <2>1. live' = live \ {s} /\ UNCHANGED <<owner, cookie, tab, request>>
    BY <1>2 DEF WebFaults!Expire
  <2>2. WebTypes' /\ PageFits' /\ (NoRequest' <=> NoRequest) /\ \A k, r : Under(k, r)' <=> Under(k, r)
    BY <1>0, <2>1 DEF WebTypes, PageFits, NoRequest, Under
  <2>3. \A k, r : PageFlight(k, r)' <=> PageFlight(k, r)
    BY <2>1 DEF PageFlight
  <2> QED
    BY <2>1, <2>2, <2>3 DEF PageInv
<1>3. ASSUME NEW k \in WebFaults!Kinds, WebFaults!Lose(k) PROVE PageInv'
  <2>1. UNCHANGED <<owner, live, cookie, tab>> /\ request[k] # Null
    BY <1>3 DEF WebFaults!Lose, WebFaults!Server
  <2>2. ~ NoRequest
    BY <2>1 DEF NoRequest
  <2>3. PICK j \in WebFaults!Kinds, r \in Requests : Under(j, r)
    BY <1>0, <2>2 DEF WebTypes
  <2>4. j = k /\ request[k] = r
    BY <2>1, <2>3 DEF Under
  <2>5. PageFlight(k, r)
    BY <2>3, <2>4 DEF PageInv
  <2>6. CASE k = "refresh"
    <3>1. PICK q : q = [r EXCEPT !.at = "answered", !.session = Null]
      OBVIOUS
    <3>2. q \in Requests /\ q.at = "answered" /\ q.session = Null /\ q.rt = r.rt /\ q.imp = r.imp
      BY <3>1 DEF Requests, Web!Requests
    <3>3. request' = [request EXCEPT !["refresh"] = q]
      BY <1>3, <2>4, <2>6, <3>1 DEF WebFaults!Lose
    <3>4. Under("refresh", q)'
      BY <2>3, <2>4, <2>6, <3>2, <3>3 DEF Under
    <3>5. WebTypes' /\ PageFits'
      BY <1>0, <2>1, <2>6, <3>2, <3>4 DEF WebTypes, PageFits
    <3>6. PageFlight("refresh", q)'
      BY <2>1, <2>5, <2>6, <3>2 DEF PageFlight
    <3> QED
      BY <2>6, <3>2, <3>4, <3>5, <3>6, PageUnder
  <2>7. CASE k # "refresh"
    <3>1. request' = [request EXCEPT ![k] = Null]
      BY <1>3, <2>7 DEF WebFaults!Lose
    <3>2. NoRequest' /\ ~ tab'.booting
      BY <2>1, <2>3, <2>4, <2>5, <2>7, <3>1 DEF NoRequest, Under, PageFlight
    <3>3. WebTypes' /\ PageFits'
      BY <1>0, <2>1, <3>2 DEF WebTypes, PageFits
    <3> QED
      BY <3>2, <3>3, PageQuiet
  <2> QED
    BY <2>6, <2>7
<1> QED
  BY <1>1, <1>2, <1>3

\* The API answers: it may open a session or revoke one.
LEMMA PageServes ==
  ASSUME PageInv,
         \/ \E s \in Logins : WebFaults!ServeLogin(s) \/ WebFaults!ServeStart(s)
         \/ WebFaults!ServeRefresh \/ WebFaults!ServeLogout \/ WebFaults!ServeStop
  PROVE  PageInv'
<1>0. WebTypes /\ PageFits
  BY DEF PageInv
\* What is to show when owner and live change soundly.
<1>1. ASSUME NEW k \in WebFaults!Kinds, NEW r \in Requests, Under(k, r), r.at = "sent",
             NEW s \in Logins \union {Null}, WebFaults!Answers(k, s), UNCHANGED <<cookie, tab>>,
             owner' \in [Logins -> Users \union {Null}], live' \subseteq Logins,
             \A t \in Logins : owner[t] # Null => owner'[t] = owner[t],
             \A t \in live' : owner'[t] # Null, s # Null => owner'[s] # Null,
             k = "login" => s # Null, k = "refresh" => s \in {r.rt, Null}
      PROVE  PageInv'
  <2>1. PICK q \in Requests :
          /\ Under(k, q)' /\ q.at = "answered" /\ q.session = s
          /\ q.rt = r.rt /\ q.imp = r.imp /\ q.user = r.user
    BY <1>1, Answering
  <2>2. WebTypes' /\ PageFits'
    BY <1>0, <1>1, <2>1 DEF WebTypes, PageFits
  <2>3. PageFlight(k, r)
    BY <1>1 DEF PageInv
  <2>4. PageFlight(k, q)'
    BY <1>1, <2>1, <2>3 DEF PageFlight
  <2> QED
    BY <2>1, <2>2, <2>4, PageUnder
<1>2. ASSUME NEW k \in {"login", "start"}, NEW s \in Logins, WebFaults!Sent(k), WebFaults!Opens(k, s),
             UNCHANGED <<cookie, tab>>
      PROVE  PageInv'
  <2>1. PICK r \in Requests : Under(k, r) /\ request[k] = r /\ r.at = "sent"
    BY <1>0, <1>2, IsUnder DEF WebFaults!Kinds, WebFaults!Sent
  <2>2. r.user \in Users /\ k \in WebFaults!Kinds
    BY <2>1 DEF PageInv, PageFlight, WebFaults!Kinds
  <2>3. /\ owner[s] = Null /\ owner' = [owner EXCEPT ![s] = r.user] /\ live' = live \union {s}
        /\ WebFaults!Answers(k, s)
    BY <1>2, <2>1 DEF WebFaults!Opens
  <2>4. \A t \in live' : owner'[t] # Null
    BY <1>0, <2>2, <2>3 DEF WebTypes, PageFits
  <2>5. /\ owner' \in [Logins -> Users \union {Null}] /\ live' \subseteq Logins /\ owner'[s] # Null
        /\ \A t \in Logins : owner[t] # Null => owner'[t] = owner[t]
    BY <1>0, <2>2, <2>3 DEF WebTypes
  <2> QED
    BY <1>1, <1>2, <2>1, <2>2, <2>3, <2>4, <2>5
<1>3. ASSUME NEW s \in Logins, WebFaults!ServeLogin(s) PROVE PageInv'
  BY <1>2, <1>3 DEF WebFaults!ServeLogin
<1>4. ASSUME NEW k \in WebFaults!Kinds, NEW s \in Logins \union {Null}, WebFaults!Sent(k),
             WebFaults!Answers(k, s), UNCHANGED <<owner, cookie, tab>>, live' \subseteq live,
             s \in live \union {Null}, k # "login", k = "refresh" => s \in {request[k].rt, Null}
      PROVE  PageInv'
  <2>1. PICK r \in Requests : Under(k, r) /\ request[k] = r /\ r.at = "sent"
    BY <1>0, <1>4, IsUnder DEF WebFaults!Sent
  <2>2. (\A t \in live' : owner'[t] # Null) /\ (s # Null => owner'[s] # Null)
    BY <1>0, <1>4 DEF WebTypes, PageFits
  <2>3. owner' \in [Logins -> Users \union {Null}] /\ live' \subseteq Logins
    BY <1>0, <1>4 DEF WebTypes
  <2>4. \A t \in Logins : owner[t] # Null => owner'[t] = owner[t]
    BY <1>4
  <2> QED
    BY <1>1, <1>4, <2>1, <2>2, <2>3, <2>4
<1>5. ASSUME NEW s \in Logins, WebFaults!ServeStart(s) PROVE PageInv'
  BY <1>2, <1>4, <1>5 DEF WebFaults!ServeStart, WebFaults!Server, WebFaults!Kinds
<1>6. CASE WebFaults!ServeRefresh
  <2>1. PICK s : s = IF request["refresh"].rt \in live THEN request["refresh"].rt ELSE Null
    OBVIOUS
  <2>2. s \in live \union {Null} /\ s \in Logins \union {Null}
    BY <1>0, <2>1 DEF WebTypes
  <2> QED
    BY <1>4, <1>6, <2>1, <2>2 DEF WebFaults!ServeRefresh, WebFaults!Server, WebFaults!Kinds
<1>7. CASE WebFaults!ServeLogout
  BY <1>4, <1>7 DEF WebFaults!ServeLogout, WebFaults!Kinds
<1>8. CASE WebFaults!ServeStop
  <2>1. PICK s : s = IF request["stop"].imp \in live' THEN request["stop"].imp ELSE Null
    OBVIOUS
  <2>2. live' \subseteq live /\ WebFaults!Answers("stop", s)
    BY <1>8, <2>1 DEF WebFaults!ServeStop
  <2>3. s \in live \union {Null} /\ s \in Logins \union {Null}
    BY <1>0, <2>1, <2>2 DEF WebTypes
  <2> QED
    BY <1>4, <1>8, <2>2, <2>3 DEF WebFaults!ServeStop, WebFaults!Kinds
<1> QED
  BY <1>3, <1>5, <1>6, <1>7, <1>8

\* The page applies an answer: token, profile and cookie change together.
LEMMA PageApplies ==
  ASSUME PageInv,
         \/ WebFaults!LoggedIn \/ WebFaults!TurnedAway \/ WebFaults!Refreshed
         \/ WebFaults!BootRefused \/ WebFaults!Started \/ WebFaults!Stopped
         \/ WebFaults!LoggedOut \/ WebFaults!NotRefreshed
         \/ \E k \in WebFaults!Kinds : WebFaults!Refused(k)
  PROVE  PageInv'
<1>0. WebTypes /\ PageFits
  BY DEF PageInv
<1>1. ASSUME NEW k \in WebFaults!Kinds, WebFaults!Answered(k)
      PROVE  \E r \in Requests :
               /\ Under(k, r) /\ request[k] = r /\ r.at = "answered" /\ PageFlight(k, r)
               /\ r.session \in Logins \union {Null} /\ r.rt \in Logins \union {Null}
               /\ WebFaults!Done(k) => NoRequest'
  <2>1. PICK r \in Requests : Under(k, r) /\ request[k] = r
    BY <1>0, <1>1, IsUnder
  <2>2. r.at = "answered" /\ PageFlight(k, r)
    BY <1>1, <2>1 DEF PageInv, WebFaults!Answered
  <2>3. r.session \in Logins \union {Null} /\ r.rt \in Logins \union {Null}
    BY DEF Requests, Web!Requests
  <2> QED
    BY <2>1, <2>2, <2>3, Finishing
\* The session that a page takes up, with its cookie and its profile.
<1>2. ASSUME NEW s \in Logins, NEW i \in Logins \union {Null}, NEW b \in Users \union {Null},
             NEW u \in Users, u = owner[s] \/ (b = Null /\ i = Null),
             owner[s] # Null, UNCHANGED <<owner, live>>, NoRequest',
             cookie' = [rt |-> s, imp |-> i],
             tab' = [token |-> s, profile |-> u, banner |-> b, booting |-> FALSE]
      PROVE  PageInv'
  <2>1. WebTypes' /\ PageFits'
    BY <1>0, <1>2 DEF WebTypes, PageFits
  <2> QED
    BY <1>2, <2>1, PageQuiet
\* A logout that follows, with the cookie that was set.
<1>a. ASSUME NEW k \in WebFaults!Kinds, NEW r \in Requests, Under(k, r),
             NEW s \in Logins \union {Null}, WebFaults!LogsOut(k, s), UNCHANGED <<owner, live>>,
             cookie' = [cookie EXCEPT !.rt = s],
             tab' \in [token : Logins \union {Null}, profile : Users \union {Null},
                       banner : Users \union {Null}, booting : BOOLEAN],
             ~ tab'.booting, tab'.token = Null, tab'.profile = Null
      PROVE  PageInv'
  <2>0. "logout" \in WebFaults!Kinds
    BY DEF WebFaults!Kinds
  <2>1. PICK q \in Requests : Under("logout", q)' /\ q.at = "sent" /\ q.rt = s /\ q.imp = cookie.imp
    BY <1>0, <1>a, Following
  <2>2. /\ cookie' \in [rt : Logins \union {Null}, imp : Logins \union {Null}]
        /\ cookie'.rt = s /\ cookie'.imp = cookie.imp
    BY <1>0, <1>a DEF WebTypes
  <2>3. WebTypes' /\ PageFits'
    BY <1>0, <1>a, <2>0, <2>1, <2>2 DEF WebTypes, PageFits
  <2>4. PageFlight("logout", q)'
    BY <1>a, <2>1, <2>2 DEF PageFlight
  <2> QED
    BY <2>0, <2>1, <2>3, <2>4, PageUnder
<1>3. CASE WebFaults!LoggedIn
  <2>1. PICK r \in Requests :
          /\ Under("login", r) /\ request["login"] = r /\ r.at = "answered" /\ PageFlight("login", r)
          /\ r.session \in Logins \union {Null} /\ NoRequest'
    BY <1>1, <1>3 DEF WebFaults!LoggedIn, WebFaults!Kinds
  <2>2. r.session \in Logins /\ owner[r.session] # Null /\ ~ tab.booting
    BY <2>1 DEF PageFlight
  <2>3. /\ cookie' = [rt |-> r.session, imp |-> cookie.imp] /\ UNCHANGED <<owner, live>>
        /\ tab' = [token |-> r.session, profile |-> owner[r.session], banner |-> tab.banner,
                   booting |-> FALSE]
        /\ owner[r.session] \in Users
    BY <1>0, <1>3, <2>1, <2>2 DEF WebFaults!LoggedIn, WebFaults!Server, WebTypes
  <2> QED
    BY <1>0, <1>2, <2>1, <2>2, <2>3 DEF WebTypes
<1>4. CASE WebFaults!Refreshed
  <2>1. PICK r \in Requests :
          /\ Under("refresh", r) /\ request["refresh"] = r /\ r.at = "answered"
          /\ PageFlight("refresh", r) /\ r.session \in Logins \union {Null} /\ NoRequest'
    BY <1>1, <1>4 DEF WebFaults!Refreshed, WebFaults!Kinds
  <2>2. r.session \in Logins /\ owner[r.session] # Null
    BY <1>4, <2>1 DEF WebFaults!Refreshed, PageFlight
  <2>3. PICK u : u = IF tab.booting THEN owner[r.session] ELSE tab.profile
    OBVIOUS
  <2>4. /\ cookie' = [rt |-> r.session, imp |-> cookie.imp] /\ UNCHANGED <<owner, live>>
        /\ tab' = [token |-> r.session, profile |-> u, banner |-> tab.banner, booting |-> FALSE]
    BY <1>0, <1>4, <2>1, <2>3 DEF WebFaults!Refreshed, WebFaults!Server, WebTypes
  <2>5. u \in Users /\ (u = owner[r.session] \/ (tab.banner = Null /\ cookie.imp = Null))
    BY <1>0, <2>1, <2>2, <2>3 DEF PageFlight, PageFits, WebTypes
  <2>6. cookie.imp \in Logins \union {Null} /\ tab.banner \in Users \union {Null}
    BY <1>0 DEF WebTypes
  <2> QED
    BY <1>2, <2>1, <2>2, <2>4, <2>5, <2>6
<1>5. CASE WebFaults!Started
  <2>1. PICK r \in Requests :
          /\ Under("start", r) /\ request["start"] = r /\ r.at = "answered" /\ PageFlight("start", r)
          /\ r.session \in Logins \union {Null} /\ r.rt \in Logins \union {Null} /\ NoRequest'
    BY <1>1, <1>5 DEF WebFaults!Started, WebFaults!Kinds
  <2>2. r.session \in Logins /\ owner[r.session] # Null /\ ~ tab.booting
    BY <1>5, <2>1 DEF WebFaults!Started, PageFlight
  <2>3. owner[r.session] \in Users
    BY <1>0, <2>2 DEF WebTypes
  <2>4. /\ cookie' = [rt |-> r.session, imp |-> r.rt] /\ UNCHANGED <<owner, live>>
        /\ tab' = [token |-> r.session, profile |-> owner[r.session],
                   banner |-> owner[r.session], booting |-> FALSE]
    BY <1>0, <1>5, <2>1, <2>2 DEF WebFaults!Started, WebFaults!Server, WebTypes
  <2> QED
    BY <1>2, <2>1, <2>2, <2>3, <2>4
<1>6. CASE WebFaults!Stopped
  <2>1. PICK r \in Requests :
          /\ Under("stop", r) /\ request["stop"] = r /\ r.at = "answered" /\ PageFlight("stop", r)
          /\ r.session \in Logins \union {Null} /\ NoRequest'
    BY <1>1, <1>6 DEF WebFaults!Stopped, WebFaults!Kinds
  <2>2. r.session \in Logins /\ owner[r.session] # Null /\ ~ tab.booting
    BY <1>6, <2>1 DEF WebFaults!Stopped, PageFlight
  <2>3. owner[r.session] \in Users /\ tab.profile \in Users
    BY <1>0, <2>1, <2>2 DEF PageFlight, WebTypes
  <2>4. PICK u \in Users : tab' = [tab EXCEPT !.token = r.session, !.profile = u, !.banner = Null]
    BY <1>6, <2>1, <2>3 DEF WebFaults!Stopped
  <2>5. /\ cookie' = [rt |-> r.session, imp |-> Null] /\ UNCHANGED <<owner, live>>
        /\ tab' = [token |-> r.session, profile |-> u, banner |-> Null, booting |-> FALSE]
    BY <1>0, <1>6, <2>1, <2>2, <2>4 DEF WebFaults!Stopped, WebFaults!Server, WebTypes
  <2> QED
    BY <1>2, <2>1, <2>2, <2>5
<1>7. CASE WebFaults!LoggedOut
  <2>1. PICK r \in Requests : PageFlight("logout", r) /\ NoRequest'
    BY <1>1, <1>7 DEF WebFaults!LoggedOut, WebFaults!Kinds
  <2>2. tab.token = Null /\ ~ tab.booting
    BY <2>1 DEF PageFlight
  <2>3. UNCHANGED <<owner, live, tab>> /\ cookie' = [cookie EXCEPT !.rt = Null]
    BY <1>7 DEF WebFaults!LoggedOut, WebFaults!Server
  <2>4. WebTypes' /\ PageFits'
    BY <1>0, <2>1, <2>2, <2>3 DEF WebTypes, PageFits
  <2> QED
    BY <2>1, <2>2, <2>3, <2>4, PageQuiet
<1>8. CASE WebFaults!NotRefreshed
  <2>0. "refresh" \in WebFaults!Kinds /\ "logout" \in WebFaults!Kinds
    BY DEF WebFaults!Kinds
  <2>1. PICK r \in Requests :
          Under("refresh", r) /\ PageFlight("refresh", r) /\ (WebFaults!Done("refresh") => NoRequest')
    BY <1>1, <1>8, <2>0 DEF WebFaults!NotRefreshed
  <2>2. UNCHANGED <<owner, live, cookie>>
    BY <1>8 DEF WebFaults!NotRefreshed, WebFaults!Server
  <2>3. CASE tab' = [tab EXCEPT !.booting = FALSE] /\ WebFaults!Done("refresh")
    <3>1. WebTypes' /\ PageFits' /\ ~ tab'.booting
      BY <1>0, <2>1, <2>2, <2>3 DEF WebTypes, PageFits
    <3> QED
      BY <2>1, <2>3, <3>1, PageQuiet
  <2>4. CASE /\ ~ tab.booting /\ tab' = WebFaults!EmptyState(tab)
             /\ WebFaults!LogsOut("refresh", cookie.rt)
    <3>1. /\ tab' \in [token : Logins \union {Null}, profile : Users \union {Null},
                       banner : Users \union {Null}, booting : BOOLEAN]
          /\ ~ tab'.booting /\ tab'.token = Null /\ tab'.profile = Null
      BY <1>0, <2>4 DEF WebFaults!EmptyState, WebTypes
    <3>2. cookie.rt \in Logins \union {Null} /\ cookie' = [cookie EXCEPT !.rt = cookie.rt]
      BY <1>0, <2>2 DEF WebTypes
    <3> QED
      BY <1>a, <2>0, <2>1, <2>2, <2>4, <3>1, <3>2
  <2> QED
    BY <1>8, <2>3, <2>4 DEF WebFaults!NotRefreshed
<1>9. ASSUME NEW k \in WebFaults!Kinds, WebFaults!Refused(k) PROVE PageInv'
  <2>1. PICK r \in Requests : Under(k, r) /\ PageFlight(k, r) /\ NoRequest'
    BY <1>1, <1>9 DEF WebFaults!Refused
  <2>2. UNCHANGED <<owner, live, cookie, tab>> /\ ~ tab.booting
    BY <1>9, <2>1 DEF WebFaults!Refused, WebFaults!Server, PageFlight
  <2>3. WebTypes' /\ PageFits'
    BY <1>0, <2>1, <2>2 DEF WebTypes, PageFits
  <2> QED
    BY <2>1, <2>2, <2>3, PageQuiet
<1>10. CASE WebFaults!TurnedAway
  <2>0. "login" \in WebFaults!Kinds
    BY DEF WebFaults!Kinds
  <2>1. PICK r \in Requests :
          /\ Under("login", r) /\ request["login"] = r /\ PageFlight("login", r)
          /\ r.session \in Logins \union {Null}
    BY <1>1, <1>10, <2>0 DEF WebFaults!TurnedAway
  <2>2. tab.token = Null /\ ~ tab.booting /\ tab.profile = Null
    BY <1>0, <2>1 DEF PageFlight, PageFits
  <2>3. /\ cookie' = [cookie EXCEPT !.rt = r.session] /\ WebFaults!LogsOut("login", r.session)
        /\ UNCHANGED <<owner, live, tab>>
    BY <1>10, <2>1 DEF WebFaults!TurnedAway, WebFaults!Server
  <2> QED
    BY <1>0, <1>a, <2>0, <2>1, <2>2, <2>3 DEF WebTypes
<1>11. CASE WebFaults!BootRefused
  <2>0. "refresh" \in WebFaults!Kinds
    BY DEF WebFaults!Kinds
  <2>1. PICK r \in Requests :
          /\ Under("refresh", r) /\ request["refresh"] = r /\ r.session \in Logins \union {Null}
    BY <1>1, <1>11, <2>0 DEF WebFaults!BootRefused
  <2>2. /\ cookie' = [cookie EXCEPT !.rt = r.session] /\ WebFaults!LogsOut("refresh", r.session)
        /\ UNCHANGED <<owner, live>>
    BY <1>11, <2>1 DEF WebFaults!BootRefused, WebFaults!Server
  <2>3. /\ tab' \in [token : Logins \union {Null}, profile : Users \union {Null},
                     banner : Users \union {Null}, booting : BOOLEAN]
        /\ ~ tab'.booting /\ tab'.token = Null /\ tab'.profile = Null
    BY <1>0, <1>11 DEF WebFaults!BootRefused, WebFaults!EmptyState, WebTypes
  <2> QED
    BY <1>a, <2>0, <2>1, <2>2, <2>3
<1> QED
  BY <1>3, <1>4, <1>5, <1>6, <1>7, <1>8, <1>9, <1>10, <1>11

LEMMA PageStep == PageInv /\ [WebFaults!Next]_(WebFaults!vars) => PageInv'
<1> SUFFICES ASSUME PageInv, [WebFaults!Next]_(WebFaults!vars) PROVE PageInv'
  OBVIOUS
<1>1. CASE UNCHANGED WebFaults!vars
  <2>1. WebTypes' /\ PageFits' /\ (NoRequest' <=> NoRequest) /\ \A k, r : Under(k, r)' <=> Under(k, r)
    BY <1>1 DEF PageInv, WebFaults!vars, WebTypes, PageFits, NoRequest, Under
  <2>2. \A k, r : PageFlight(k, r)' <=> PageFlight(k, r)
    BY <1>1 DEF WebFaults!vars, PageFlight
  <2> QED
    BY <1>1, <2>1, <2>2 DEF PageInv, WebFaults!vars
<1>2. ASSUME NEW u \in Users, WebFaults!Login(u) \/ WebFaults!StartImpersonation(u) PROVE PageInv'
  BY <1>2, PageSends
<1>3. CASE WebFaults!SilentRefresh \/ WebFaults!Logout \/ WebFaults!StopImpersonation
  <2>1. PICK u \in Users : TRUE
    BY <1>3 DEF PageInv, WebTypes, PageFits, WebFaults!SilentRefresh, WebFaults!Logout,
                WebFaults!StopImpersonation
  <2> QED
    BY <1>3, <2>1, PageSends
<1> QED
  BY <1>1, <1>2, <1>3, PageFaults, PageServes, PageApplies DEF WebFaults!Next

LEMMA PageInit == WebFaults!Init => PageInv
BY DEF WebFaults!Init, PageInv, WebTypes, PageFits, NoRequest, Under, Requests

LEMMA PageShows == PageInv => WebFaults!NeverActsAsAnother
BY OneRequest DEF PageInv, WebTypes, PageFits, WebFaults!NeverActsAsAnother

\* When no request is under way, a page without a token shows nobody, and one
\* whose profile is not of its token has neither a banner nor the cookie of a
\* real actor, although requests are lost, the profile cannot be had, the page
\* is loaded again and sessions end at any time.
THEOREM PagesNeverActAsAnother == WebFaults!Spec => []WebFaults!NeverActsAsAnother
BY PageInit, PageStep, PageShows, PTL DEF WebFaults!Spec

(***************************************************************************)
(* A page that is loaded once, while Keycloak ends no session by itself:   *)
(* page, cookies and live sessions agree.                                  *)
(***************************************************************************)

\* The steps without faults are steps with them.
LEMMA WebIsStep ==
  Web!Next =>
    \/ \E u \in Users : WebFaults!Login(u) \/ WebFaults!StartImpersonation(u)
    \/ WebFaults!SilentRefresh \/ WebFaults!Logout \/ WebFaults!StopImpersonation
    \/ \E s \in Logins : WebFaults!ServeLogin(s) \/ WebFaults!ServeStart(s)
    \/ WebFaults!ServeRefresh \/ WebFaults!ServeLogout \/ WebFaults!ServeStop
    \/ \E k \in WebFaults!Kinds : WebFaults!Refused(k)
    \/ WebFaults!LoggedIn \/ WebFaults!TurnedAway \/ WebFaults!Refreshed
    \/ WebFaults!BootRefused \/ WebFaults!NotRefreshed
    \/ WebFaults!Started \/ WebFaults!Stopped \/ WebFaults!LoggedOut
<1>1. /\ Web!Kinds = WebFaults!Kinds /\ Web!Server = WebFaults!Server
      /\ \A u : Web!Request(u) = WebFaults!Request(u)
      /\ \A t : Web!EmptyState(t) = WebFaults!EmptyState(t)
  BY DEF Web!Kinds, WebFaults!Kinds, Web!Server, WebFaults!Server, Web!Request,
         WebFaults!Request, Web!EmptyState, WebFaults!EmptyState
<1>2. Web!Quiet <=> WebFaults!Quiet
  BY <1>1 DEF Web!Quiet, WebFaults!Quiet
<1>3. \A k, u : Web!Sends(k, u) <=> WebFaults!Sends(k, u)
  BY <1>1, <1>2 DEF Web!Sends, WebFaults!Sends
<1>4. \A k, s : Web!Answers(k, s) <=> WebFaults!Answers(k, s)
  BY DEF Web!Answers, WebFaults!Answers
<1>5. /\ \A k : Web!Sent(k) <=> WebFaults!Sent(k)
      /\ \A k : Web!Answered(k) <=> WebFaults!Answered(k)
      /\ \A k : Web!Done(k) <=> WebFaults!Done(k)
  BY DEF Web!Sent, WebFaults!Sent, Web!Answered, WebFaults!Answered, Web!Done, WebFaults!Done
<1>6. \A k, s : Web!Opens(k, s) <=> WebFaults!Opens(k, s)
  BY <1>4 DEF Web!Opens, WebFaults!Opens
<1>a. \A k, s : Web!LogsOut(k, s) <=> WebFaults!LogsOut(k, s)
  BY <1>1 DEF Web!LogsOut, WebFaults!LogsOut
<1>7. \A u : Web!Login(u) <=> WebFaults!Login(u)
  BY <1>1, <1>3, <1>4, <1>5, <1>6
  DEF Web!Login, WebFaults!Login, Web!Server, WebFaults!Server
<1>8. \A u : Web!StartImpersonation(u) <=> WebFaults!StartImpersonation(u)
  BY <1>1, <1>3, <1>4, <1>5, <1>6
  DEF Web!StartImpersonation, WebFaults!StartImpersonation, Web!Server, WebFaults!Server
<1>9. Web!SilentRefresh <=> WebFaults!SilentRefresh
  BY <1>1, <1>3, <1>4, <1>5, <1>6
  DEF Web!SilentRefresh, WebFaults!SilentRefresh, Web!Server, WebFaults!Server
<1>10. Web!Logout <=> WebFaults!Logout
  BY <1>1, <1>3, <1>4, <1>5, <1>6
  DEF Web!Logout, WebFaults!Logout, Web!Server, WebFaults!Server
<1>11. Web!StopImpersonation <=> WebFaults!StopImpersonation
  BY <1>1, <1>3, <1>4, <1>5, <1>6
  DEF Web!StopImpersonation, WebFaults!StopImpersonation, Web!Server, WebFaults!Server
<1>12. \A s : Web!ServeLogin(s) <=> WebFaults!ServeLogin(s)
  BY <1>1, <1>3, <1>4, <1>5, <1>6
  DEF Web!ServeLogin, WebFaults!ServeLogin, Web!Server, WebFaults!Server
<1>13. \A s : Web!ServeStart(s) <=> WebFaults!ServeStart(s)
  BY <1>1, <1>3, <1>4, <1>5, <1>6
  DEF Web!ServeStart, WebFaults!ServeStart, Web!Server, WebFaults!Server
<1>14. Web!ServeRefresh <=> WebFaults!ServeRefresh
  BY <1>1, <1>3, <1>4, <1>5, <1>6
  DEF Web!ServeRefresh, WebFaults!ServeRefresh, Web!Server, WebFaults!Server
<1>15. Web!ServeLogout <=> WebFaults!ServeLogout
  BY <1>1, <1>3, <1>4, <1>5, <1>6
  DEF Web!ServeLogout, WebFaults!ServeLogout, Web!Server, WebFaults!Server
<1>16. Web!ServeStop <=> WebFaults!ServeStop
  BY <1>1, <1>3, <1>4, <1>5, <1>6
  DEF Web!ServeStop, WebFaults!ServeStop, Web!Server, WebFaults!Server
<1>17. \A k : Web!Refused(k) <=> WebFaults!Refused(k)
  BY <1>1, <1>3, <1>4, <1>5, <1>6
  DEF Web!Refused, WebFaults!Refused, Web!Server, WebFaults!Server
<1>18. Web!LoggedIn <=> WebFaults!LoggedIn
  BY <1>1, <1>3, <1>4, <1>5, <1>6
  DEF Web!LoggedIn, WebFaults!LoggedIn, Web!Server, WebFaults!Server
<1>19. Web!Refreshed <=> WebFaults!Refreshed
  BY <1>1, <1>3, <1>4, <1>5, <1>6
  DEF Web!Refreshed, WebFaults!Refreshed, Web!Server, WebFaults!Server
<1>20. Web!NotRefreshed <=> WebFaults!NotRefreshed
  BY <1>1, <1>3, <1>4, <1>5, <1>6, <1>a
  DEF Web!NotRefreshed, WebFaults!NotRefreshed, Web!Server, WebFaults!Server
<1>21. Web!Started <=> WebFaults!Started
  BY <1>1, <1>3, <1>4, <1>5, <1>6
  DEF Web!Started, WebFaults!Started, Web!Server, WebFaults!Server
<1>22. Web!Stopped => WebFaults!Stopped
  BY <1>1, <1>3, <1>4, <1>5, <1>6
  DEF Web!Stopped, WebFaults!Stopped, Web!Server, WebFaults!Server
<1>23. Web!LoggedOut <=> WebFaults!LoggedOut
  BY <1>1, <1>3, <1>4, <1>5, <1>6
  DEF Web!LoggedOut, WebFaults!LoggedOut, Web!Server, WebFaults!Server
<1>24. ~ Web!Reload /\ (\A s : ~ Web!Expire(s)) /\ \A k : ~ Web!Lose(k)
  BY DEF Web!Reload, Web!Expire, Web!Lose
<1>25. Web!TurnedAway <=> WebFaults!TurnedAway
  BY <1>1, <1>3, <1>4, <1>5, <1>6, <1>a
  DEF Web!TurnedAway, WebFaults!TurnedAway, Web!Server, WebFaults!Server
<1>26. Web!BootRefused => WebFaults!BootRefused
  BY <1>1, <1>3, <1>4, <1>5, <1>6, <1>a
  DEF Web!BootRefused, WebFaults!BootRefused, Web!Server, WebFaults!Server
<1> QED
  BY Zenon, <1>1, <1>7, <1>8, <1>9, <1>10, <1>11, <1>12, <1>13, <1>14, <1>15,
     <1>16, <1>17, <1>18, <1>19, <1>20, <1>21, <1>22, <1>23, <1>24, <1>25, <1>26
  DEF Web!Next

\* The cookie of the real actor is that of another live session, and the page
\* shows the banner with it.
ActorFits ==
  /\ ~ tab.booting
  /\ cookie.imp # Null => cookie.imp \in live /\ cookie.imp # cookie.rt
  /\ tab.banner # Null <=> cookie.imp # Null

\* Between requests: page and cookie have one session, which is live, and no
\* other session is but that of the actor.
SessionQuiet ==
  /\ cookie.rt = tab.token
  /\ tab.token # Null => tab.token \in live
  /\ live \subseteq {cookie.rt, cookie.imp}

\* What each request finds, and what its answer has changed.
SessionFlight(k, r) ==
  /\ k # "logout" => cookie.rt = tab.token
  /\ k = "login" => tab.token = Null
  /\ k = "start" => tab.token # Null /\ cookie.imp = Null
  /\ k = "stop" => tab.token # Null /\ cookie.imp # Null
  /\ r.at = "sent" =>
       live \subseteq {cookie.rt, cookie.imp} /\ (tab.token # Null => tab.token \in live)
  /\ r.at = "answered" =>
       CASE k = "login" ->
              r.session \in live /\ r.session # cookie.imp /\ live \subseteq {cookie.imp, r.session}
         [] k = "refresh" ->
              /\ r.session = cookie.rt /\ tab.token \in live
              /\ live \subseteq {cookie.rt, cookie.imp}
         [] k = "start" ->
              /\ r.session \in live /\ r.session # cookie.rt /\ tab.token \in live
              /\ live \subseteq {cookie.rt, r.session}
         [] k = "stop" -> r.session = cookie.imp /\ live \subseteq {cookie.imp}
         [] k = "logout" -> live \subseteq {cookie.imp}

SessionInv ==
  /\ PageInv /\ ActorFits
  /\ NoRequest => SessionQuiet
  /\ \A k \in WebFaults!Kinds, r \in Requests : Under(k, r) => SessionFlight(k, r)

LEMMA SessionUnder ==
  ASSUME PageInv', ActorFits', NEW k \in WebFaults!Kinds, NEW r \in Requests, Under(k, r)',
         SessionFlight(k, r)'
  PROVE  SessionInv'
<1>1. /\ ~ NoRequest'
      /\ \A j \in WebFaults!Kinds, q \in Requests : Under(j, q)' => j = k /\ q = r
  BY OneRequestNext
<1> QED
  BY <1>1 DEF SessionInv

LEMMA SessionRests ==
  ASSUME PageInv', ActorFits', NoRequest', SessionQuiet'
  PROVE  SessionInv'
<1>1. \A j \in WebFaults!Kinds, q \in Requests : ~ Under(j, q)'
  BY OneRequestNext
<1> QED
  BY <1>1 DEF SessionInv

\* A request leaves.
LEMMA SessionSends ==
  ASSUME SessionInv, PageInv', NEW u \in Users,
         \/ WebFaults!Login(u) \/ WebFaults!StartImpersonation(u) \/ WebFaults!SilentRefresh
         \/ WebFaults!Logout \/ WebFaults!StopImpersonation
  PROVE  SessionInv'
<1>0. WebTypes /\ PageFits /\ ActorFits /\ UNCHANGED <<owner, live, cookie>>
  BY DEF SessionInv, PageInv, WebFaults!Login, WebFaults!StartImpersonation,
         WebFaults!SilentRefresh, WebFaults!Logout, WebFaults!StopImpersonation, WebFaults!Server
<1>1. ASSUME NEW k \in WebFaults!Kinds, NEW v \in Users \union {Null}, WebFaults!Sends(k, v),
             tab'.booting = tab.booting, tab'.banner = tab.banner,
             tab'.token = IF k = "logout" THEN Null ELSE tab.token,
             k = "login" => tab.token = Null,
             k = "start" => tab.token # Null /\ tab.banner = Null,
             k = "stop" => tab.token # Null /\ tab.banner # Null
      PROVE  SessionInv'
  <2>1. PICK r : r = WebFaults!Request(v)
    OBVIOUS
  <2>2. NoRequest /\ Under(k, r)' /\ r \in Requests /\ r.at = "sent"
    BY <1>0, <1>1, <2>1, Sending
  <2>3. SessionQuiet
    BY <2>2 DEF SessionInv
  <2>4. ActorFits'
    BY <1>0, <1>1 DEF ActorFits
  <2>5. SessionFlight(k, r)'
    BY <1>0, <1>1, <2>2, <2>3 DEF SessionFlight, SessionQuiet, ActorFits
  <2> QED
    BY <1>1, <2>2, <2>4, <2>5, SessionUnder
<1>2. tab.token # Null <=> tab.profile # Null
  BY <1>0 DEF PageFits
<1>3. CASE WebFaults!Login(u)
  BY <1>1, <1>2, <1>3 DEF WebFaults!Login, WebFaults!Kinds
<1>4. CASE WebFaults!StartImpersonation(u)
  BY <1>1, <1>2, <1>4 DEF WebFaults!StartImpersonation, WebFaults!Kinds
<1>5. CASE WebFaults!SilentRefresh
  BY <1>1, <1>5 DEF WebFaults!SilentRefresh, WebFaults!Kinds
<1>6. CASE WebFaults!StopImpersonation
  BY <1>1, <1>2, <1>6 DEF WebFaults!StopImpersonation, WebFaults!Kinds
<1>7. CASE WebFaults!Logout
  <2>1. tab'.booting = tab.booting /\ tab'.banner = tab.banner /\ tab'.token = Null
    BY <1>0, <1>7 DEF WebFaults!Logout, WebFaults!EmptyState, WebTypes
  <2> QED
    BY <1>1, <1>7, <2>1 DEF WebFaults!Logout, WebFaults!Kinds
<1> QED
  BY <1>3, <1>4, <1>5, <1>6, <1>7

\* A request that is under way, with all that the invariants say of it.
LEMMA SessionFinds ==
  ASSUME SessionInv, NEW k \in WebFaults!Kinds, WebFaults!Sent(k) \/ WebFaults!Answered(k)
  PROVE  \E r \in Requests :
           /\ Under(k, r) /\ request[k] = r /\ PageFlight(k, r) /\ SessionFlight(k, r)
           /\ r.session \in Logins \union {Null} /\ r.rt \in Logins \union {Null}
           /\ r.imp \in Logins \union {Null}
<1>1. PICK r \in Requests : Under(k, r) /\ request[k] = r
  BY IsUnder DEF SessionInv, PageInv
<1>2. PageFlight(k, r) /\ SessionFlight(k, r)
  BY <1>1 DEF SessionInv, PageInv
<1>3. /\ r.session \in Logins \union {Null} /\ r.rt \in Logins \union {Null}
      /\ r.imp \in Logins \union {Null}
  BY DEF Requests, Web!Requests
<1> QED
  BY <1>1, <1>2, <1>3

\* The API answers.
LEMMA SessionServes ==
  ASSUME SessionInv, PageInv',
         \/ \E s \in Logins : WebFaults!ServeLogin(s) \/ WebFaults!ServeStart(s)
         \/ WebFaults!ServeRefresh \/ WebFaults!ServeLogout \/ WebFaults!ServeStop
  PROVE  SessionInv'
<1>0. WebTypes /\ PageFits /\ ActorFits
  BY DEF SessionInv, PageInv
<1>c. cookie.rt \in Logins \union {Null} /\ cookie.imp \in Logins \union {Null}
  BY <1>0 DEF WebTypes
<1>1. ASSUME NEW k \in WebFaults!Kinds, NEW r \in Requests, Under(k, r),
             NEW s \in Logins \union {Null}, WebFaults!Answers(k, s), UNCHANGED <<cookie, tab>>,
             ActorFits',
             \A q \in Requests : q.at = "answered" /\ q.session = s => SessionFlight(k, q)'
      PROVE  SessionInv'
  <2>1. PICK q \in Requests : Under(k, q)' /\ q.at = "answered" /\ q.session = s
    BY <1>1, Answering
  <2> QED
    BY <1>1, <2>1, SessionUnder
<1>2. ASSUME NEW s \in Logins, WebFaults!ServeLogin(s) PROVE SessionInv'
  <2>0. "login" \in WebFaults!Kinds
    BY DEF WebFaults!Kinds
  <2>1. PICK r \in Requests : Under("login", r) /\ request["login"] = r /\ SessionFlight("login", r)
    BY <1>2, <2>0, SessionFinds DEF WebFaults!ServeLogin
  <2>2. /\ owner[s] = Null /\ live' = live \union {s} /\ WebFaults!Answers("login", s)
        /\ UNCHANGED <<cookie, tab>>
    BY <1>2 DEF WebFaults!ServeLogin, WebFaults!Opens
  <2>3. r.at = "sent"
    BY <1>2, <2>1 DEF WebFaults!ServeLogin, WebFaults!Sent
  <2>4. cookie.imp # s
    BY <1>0, <2>2 DEF ActorFits, PageFits
  <2>5. tab.token = Null /\ live \subseteq {cookie.imp} /\ cookie.rt = tab.token
    BY <1>0, <2>1, <2>3 DEF SessionFlight, WebTypes
  <2>6. ActorFits'
    BY <1>0, <2>2 DEF ActorFits
  <2>7. \A q \in Requests : q.at = "answered" /\ q.session = s => SessionFlight("login", q)'
    BY <2>2, <2>4, <2>5 DEF SessionFlight
  <2> QED
    BY <1>1, <2>0, <2>1, <2>2, <2>6, <2>7
<1>3. ASSUME NEW s \in Logins, WebFaults!ServeStart(s) PROVE SessionInv'
  <2>0. "start" \in WebFaults!Kinds
    BY DEF WebFaults!Kinds
  <2>1. PICK r \in Requests :
          /\ Under("start", r) /\ request["start"] = r
          /\ PageFlight("start", r) /\ SessionFlight("start", r)
    BY <1>3, <2>0, SessionFinds DEF WebFaults!ServeStart
  <2>2. r.at = "sent" /\ UNCHANGED <<cookie, tab>>
    BY <1>3, <2>1 DEF WebFaults!ServeStart, WebFaults!Sent
  <2>3. /\ cookie.imp = Null /\ cookie.rt = tab.token /\ tab.token # Null /\ tab.token \in live
        /\ live \subseteq {cookie.rt}
    BY <1>0, <2>1, <2>2 DEF SessionFlight, WebTypes
  <2>4. owner[s] = Null /\ live' = live \union {s} /\ WebFaults!Answers("start", s)
    BY <1>3, <2>1, <2>3 DEF WebFaults!ServeStart, WebFaults!Opens, PageFlight
  <2>5. cookie.rt # s
    BY <1>0, <2>3, <2>4 DEF PageFits
  <2>6. ActorFits'
    BY <1>0, <2>2, <2>3 DEF ActorFits
  <2>7. \A q \in Requests : q.at = "answered" /\ q.session = s => SessionFlight("start", q)'
    BY <2>2, <2>3, <2>4, <2>5 DEF SessionFlight
  <2> QED
    BY <1>1, <2>0, <2>1, <2>2, <2>4, <2>6, <2>7
<1>4. CASE WebFaults!ServeRefresh
  <2>0. "refresh" \in WebFaults!Kinds
    BY DEF WebFaults!Kinds
  <2>1. PICK r \in Requests :
          /\ Under("refresh", r) /\ request["refresh"] = r
          /\ PageFlight("refresh", r) /\ SessionFlight("refresh", r)
    BY <1>4, <2>0, SessionFinds DEF WebFaults!ServeRefresh
  <2>2. r.at = "sent" /\ UNCHANGED <<owner, live, cookie, tab>>
    BY <1>4, <2>1 DEF WebFaults!ServeRefresh, WebFaults!Sent, WebFaults!Server
  <2>3. /\ r.rt = cookie.rt /\ cookie.rt = tab.token /\ tab.token \in live
        /\ live \subseteq {cookie.rt, cookie.imp}
    BY <1>0, <2>1, <2>2 DEF PageFlight, SessionFlight, ActorFits
  <2>4. WebFaults!Answers("refresh", cookie.rt)
    BY <1>4, <2>1, <2>3 DEF WebFaults!ServeRefresh
  <2>5. ActorFits'
    BY <1>0, <2>2 DEF ActorFits
  <2>6. \A q \in Requests : q.at = "answered" /\ q.session = cookie.rt => SessionFlight("refresh", q)'
    BY <2>2, <2>3, <1>c DEF SessionFlight
  <2> QED
    BY <1>1, <1>c, <2>0, <2>1, <2>2, <2>4, <2>5, <2>6
<1>5. CASE WebFaults!ServeLogout
  <2>0. "logout" \in WebFaults!Kinds
    BY DEF WebFaults!Kinds
  <2>1. PICK r \in Requests :
          /\ Under("logout", r) /\ request["logout"] = r
          /\ PageFlight("logout", r) /\ SessionFlight("logout", r)
    BY <1>5, <2>0, SessionFinds DEF WebFaults!ServeLogout
  <2>2. /\ r.at = "sent" /\ UNCHANGED <<cookie, tab>> /\ live' = live \ {r.rt}
        /\ WebFaults!Answers("logout", Null)
    BY <1>5, <2>1 DEF WebFaults!ServeLogout, WebFaults!Sent
  <2>3. r.rt = cookie.rt /\ tab.token = Null /\ live' \subseteq {cookie.imp}
    BY <2>1, <2>2 DEF PageFlight, SessionFlight
  <2>4. ActorFits'
    BY <1>0, <2>2, <2>3 DEF ActorFits
  <2>5. \A q \in Requests : q.at = "answered" /\ q.session = Null => SessionFlight("logout", q)'
    BY <2>2, <2>3 DEF SessionFlight
  <2> QED
    BY <1>1, <2>0, <2>1, <2>2, <2>4, <2>5
<1>6. CASE WebFaults!ServeStop
  <2>0. "stop" \in WebFaults!Kinds
    BY DEF WebFaults!Kinds
  <2>1. PICK r \in Requests :
          /\ Under("stop", r) /\ request["stop"] = r
          /\ PageFlight("stop", r) /\ SessionFlight("stop", r)
    BY <1>6, <2>0, SessionFinds DEF WebFaults!ServeStop
  <2>2. r.at = "sent" /\ UNCHANGED <<cookie, tab>> /\ r.rt = cookie.rt /\ r.imp = cookie.imp
    BY <1>6, <2>1 DEF WebFaults!ServeStop, WebFaults!Sent, PageFlight
  <2>3. /\ cookie.imp # Null /\ cookie.rt = tab.token /\ tab.token # Null
        /\ cookie.imp \in live /\ cookie.imp # cookie.rt /\ live \subseteq {cookie.rt, cookie.imp}
    BY <1>0, <2>1, <2>2 DEF SessionFlight, ActorFits
  <2>4. live' = live \ {cookie.rt}
    BY <1>6, <2>1, <2>2, <2>3 DEF WebFaults!ServeStop
  <2>5. WebFaults!Answers("stop", cookie.imp)
    BY <1>6, <2>1, <2>2, <2>3, <2>4 DEF WebFaults!ServeStop
  <2>6. ActorFits'
    BY <1>0, <2>2, <2>3, <2>4 DEF ActorFits
  <2>7. \A q \in Requests : q.at = "answered" /\ q.session = cookie.imp => SessionFlight("stop", q)'
    BY <2>2, <2>3, <2>4 DEF SessionFlight
  <2> QED
    BY <1>1, <1>c, <2>0, <2>1, <2>2, <2>5, <2>6, <2>7
<1> QED
  BY <1>2, <1>3, <1>4, <1>5, <1>6

\* The page applies the answer.
LEMMA SessionApplies ==
  ASSUME SessionInv, PageInv',
         \/ WebFaults!LoggedIn \/ WebFaults!TurnedAway \/ WebFaults!Refreshed
         \/ WebFaults!BootRefused \/ WebFaults!Started \/ WebFaults!Stopped
         \/ WebFaults!LoggedOut \/ WebFaults!NotRefreshed
         \/ \E k \in WebFaults!Kinds : WebFaults!Refused(k)
  PROVE  SessionInv'
<1>0. WebTypes /\ PageFits /\ ActorFits
  BY DEF SessionInv, PageInv
<1>1. ASSUME NEW k \in WebFaults!Kinds, WebFaults!Answered(k)
      PROVE  \E r \in Requests :
               /\ request[k] = r /\ r.at = "answered" /\ PageFlight(k, r) /\ SessionFlight(k, r)
               /\ r.session \in Logins \union {Null}
               /\ WebFaults!Done(k) => NoRequest'
  <2>1. PICK r \in Requests :
          /\ Under(k, r) /\ request[k] = r /\ PageFlight(k, r) /\ SessionFlight(k, r)
          /\ r.session \in Logins \union {Null}
    BY <1>1, SessionFinds
  <2> QED
    BY <1>1, <2>1, Finishing DEF WebFaults!Answered
<1>2. ASSUME NEW s \in Logins, NEW i \in Logins \union {Null}, NEW b \in Users \union {Null},
             UNCHANGED live, NoRequest', ~ tab'.booting,
             cookie'.rt = s, cookie'.imp = i, tab'.token = s, tab'.banner = b,
             s \in live, live \subseteq {s, i}, i # Null => i \in live /\ i # s,
             b # Null <=> i # Null
      PROVE  SessionInv'
  BY <1>2, SessionRests DEF ActorFits, SessionQuiet
<1>3. CASE WebFaults!LoggedIn
  <2>1. PICK r \in Requests :
          /\ request["login"] = r /\ r.at = "answered" /\ PageFlight("login", r)
          /\ SessionFlight("login", r) /\ r.session \in Logins \union {Null} /\ NoRequest'
    BY <1>1, <1>3 DEF WebFaults!LoggedIn, WebFaults!Kinds
  <2>2. /\ r.session \in live /\ r.session # cookie.imp /\ live \subseteq {cookie.imp, r.session}
        /\ r.session \in Logins
    BY <1>0, <2>1 DEF SessionFlight, WebTypes
  <2>3. /\ cookie'.rt = r.session /\ cookie'.imp = cookie.imp /\ UNCHANGED live
        /\ tab'.token = r.session /\ tab'.banner = tab.banner /\ tab'.booting = tab.booting
    BY <1>0, <1>3, <2>1 DEF WebFaults!LoggedIn, WebFaults!Server, WebTypes
  <2>4. cookie.imp \in Logins \union {Null} /\ tab.banner \in Users \union {Null}
    BY <1>0 DEF WebTypes
  <2> QED
    BY <1>0, <1>2, <2>1, <2>2, <2>3, <2>4 DEF ActorFits
<1>4. CASE WebFaults!Refreshed
  <2>1. PICK r \in Requests :
          /\ request["refresh"] = r /\ r.at = "answered" /\ PageFlight("refresh", r)
          /\ SessionFlight("refresh", r) /\ r.session \in Logins \union {Null} /\ NoRequest'
    BY <1>1, <1>4 DEF WebFaults!Refreshed, WebFaults!Kinds
  <2>2. /\ r.session = cookie.rt /\ cookie.rt = tab.token /\ tab.token \in live
        /\ live \subseteq {cookie.rt, cookie.imp} /\ r.session \in Logins
    BY <1>0, <2>1 DEF SessionFlight, WebTypes
  <2>3. /\ cookie'.rt = r.session /\ cookie'.imp = cookie.imp /\ UNCHANGED live
        /\ tab'.token = r.session /\ tab'.banner = tab.banner /\ tab'.booting = FALSE
    BY <1>0, <1>4, <2>1 DEF WebFaults!Refreshed, WebFaults!Server, WebTypes
  <2>4. cookie.imp \in Logins \union {Null} /\ tab.banner \in Users \union {Null}
    BY <1>0 DEF WebTypes
  <2> QED
    BY <1>0, <1>2, <2>1, <2>2, <2>3, <2>4 DEF ActorFits
<1>5. CASE WebFaults!Started
  <2>1. PICK r \in Requests :
          /\ request["start"] = r /\ r.at = "answered" /\ PageFlight("start", r)
          /\ SessionFlight("start", r) /\ r.session \in Logins \union {Null} /\ NoRequest'
    BY <1>1, <1>5 DEF WebFaults!Started, WebFaults!Kinds
  <2>2. /\ r.session \in live /\ r.session # cookie.rt /\ tab.token \in live
        /\ live \subseteq {cookie.rt, r.session} /\ cookie.rt = tab.token /\ r.rt = cookie.rt
    BY <1>0, <2>1 DEF SessionFlight, PageFlight
  <2>3. /\ cookie'.rt = r.session /\ cookie'.imp = r.rt /\ UNCHANGED live
        /\ tab'.token = r.session /\ tab'.banner = owner[r.session] /\ tab'.booting = tab.booting
    BY <1>0, <1>5, <2>1 DEF WebFaults!Started, WebFaults!Server, WebTypes
  <2>4. /\ r.session \in Logins /\ r.rt \in Logins /\ owner[r.session] \in Users
    BY <1>0, <2>2 DEF WebTypes, PageFits
  <2> QED
    BY <1>0, <1>2, <2>1, <2>2, <2>3, <2>4 DEF ActorFits
<1>6. CASE WebFaults!Stopped
  <2>1. PICK r \in Requests :
          /\ request["stop"] = r /\ r.at = "answered" /\ PageFlight("stop", r)
          /\ SessionFlight("stop", r) /\ r.session \in Logins \union {Null} /\ NoRequest'
    BY <1>1, <1>6 DEF WebFaults!Stopped, WebFaults!Kinds
  <2>2. /\ r.session = cookie.imp /\ cookie.imp \in live /\ live \subseteq {cookie.imp}
        /\ r.session \in Logins
    BY <1>0, <2>1 DEF SessionFlight, ActorFits, WebTypes
  <2>3. /\ cookie'.rt = r.session /\ cookie'.imp = Null /\ UNCHANGED live
        /\ tab'.token = r.session /\ tab'.banner = Null /\ tab'.booting = tab.booting
    <3>1. PICK u : tab' = [tab EXCEPT !.token = r.session, !.profile = u, !.banner = Null]
      BY <1>6, <2>1 DEF WebFaults!Stopped
    <3> QED
      BY <1>0, <1>6, <2>1, <3>1 DEF WebFaults!Stopped, WebFaults!Server, WebTypes
  <2> QED
    BY <1>0, <1>2, <2>1, <2>2, <2>3 DEF ActorFits
<1>7. CASE WebFaults!LoggedOut
  <2>1. PICK r \in Requests :
          /\ r.at = "answered" /\ PageFlight("logout", r) /\ SessionFlight("logout", r) /\ NoRequest'
    BY <1>1, <1>7 DEF WebFaults!LoggedOut, WebFaults!Kinds
  <2>2. tab.token = Null /\ live \subseteq {cookie.imp}
    BY <2>1 DEF PageFlight, SessionFlight
  <2>3. UNCHANGED <<live, tab>> /\ cookie'.rt = Null /\ cookie'.imp = cookie.imp
    BY <1>0, <1>7 DEF WebFaults!LoggedOut, WebFaults!Server, WebTypes
  <2>4. ActorFits' /\ SessionQuiet'
    BY <1>0, <2>2, <2>3 DEF ActorFits, SessionQuiet
  <2> QED
    BY <2>1, <2>4, SessionRests
<1>8. ~ WebFaults!NotRefreshed
  <2>1. SUFFICES ASSUME WebFaults!NotRefreshed PROVE FALSE
    OBVIOUS
  <2>2. PICK r \in Requests :
          request["refresh"] = r /\ r.at = "answered" /\ SessionFlight("refresh", r)
    BY <1>1, <2>1 DEF WebFaults!NotRefreshed, WebFaults!Kinds
  <2>3. r.session = cookie.rt /\ cookie.rt = tab.token /\ tab.token \in live
    BY <2>2 DEF SessionFlight
  <2> QED
    BY <1>0, <2>1, <2>2, <2>3 DEF WebFaults!NotRefreshed, WebTypes
<1>9. ASSUME NEW k \in WebFaults!Kinds, WebFaults!Refused(k) PROVE FALSE
  <2>1. PICK r \in Requests : request[k] = r /\ r.at = "answered" /\ SessionFlight(k, r)
    BY <1>1, <1>9 DEF WebFaults!Refused
  <2>2. k \in {"start", "stop"} /\ r.session = Null
    BY <1>9, <2>1 DEF WebFaults!Refused
  <2> QED
    BY <1>0, <2>1, <2>2 DEF SessionFlight, WebTypes
<1>10. CASE WebFaults!TurnedAway
  <2>0. "login" \in WebFaults!Kinds /\ "logout" \in WebFaults!Kinds
    BY DEF WebFaults!Kinds
  <2>1. PICK r \in Requests :
          /\ Under("login", r) /\ request["login"] = r /\ PageFlight("login", r)
          /\ SessionFlight("login", r) /\ r.session \in Logins \union {Null}
    BY <1>10, <2>0, SessionFinds DEF WebFaults!TurnedAway
  <2>2. /\ r.session \in live /\ r.session # cookie.imp /\ live \subseteq {cookie.imp, r.session}
        /\ tab.token = Null
    BY <1>10, <2>1 DEF WebFaults!TurnedAway, WebFaults!Answered, SessionFlight
  <2>3. /\ cookie'.rt = r.session /\ cookie'.imp = cookie.imp /\ UNCHANGED <<live, tab>>
        /\ WebFaults!LogsOut("login", r.session)
    BY <1>0, <1>10, <2>1 DEF WebFaults!TurnedAway, WebFaults!Server, WebTypes
  <2>4. PICK q \in Requests : Under("logout", q)' /\ q.at = "sent"
    BY <1>0, <2>0, <2>1, <2>3, Following
  <2>5. ActorFits'
    BY <1>0, <2>2, <2>3 DEF ActorFits
  <2>6. SessionFlight("logout", q)'
    BY <2>2, <2>3, <2>4 DEF SessionFlight
  <2> QED
    BY <2>0, <2>4, <2>5, <2>6, SessionUnder
<1>11. ~ WebFaults!BootRefused
  BY <1>0 DEF WebFaults!BootRefused, ActorFits
<1> QED
  BY <1>3, <1>4, <1>5, <1>6, <1>7, <1>8, <1>9, <1>10, <1>11

LEMMA SessionStep == SessionInv /\ [Web!Next]_(Web!vars) => SessionInv'
<1> SUFFICES ASSUME SessionInv, [Web!Next]_(Web!vars) PROVE SessionInv'
  OBVIOUS
<1>1. CASE UNCHANGED Web!vars
  <2>1. UNCHANGED <<owner, live, cookie, tab, request>> /\ UNCHANGED WebFaults!vars
    BY <1>1 DEF Web!vars, WebFaults!vars
  <2>2. PageInv'
    BY <2>1, PageStep DEF SessionInv
  <2>3. /\ ActorFits' /\ (NoRequest' <=> NoRequest) /\ (SessionQuiet' <=> SessionQuiet)
        /\ \A k, r : Under(k, r)' <=> Under(k, r)
    BY <2>1 DEF SessionInv, ActorFits, NoRequest, SessionQuiet, Under
  <2>4. \A k, r : SessionFlight(k, r)' <=> SessionFlight(k, r)
    BY <2>1 DEF SessionFlight
  <2> QED
    BY <2>2, <2>3, <2>4 DEF SessionInv
<1>2. CASE Web!Next
  <2>1. PageInv'
    BY <1>2, WebIsStep, PageStep DEF SessionInv, WebFaults!Next
  <2>2. CASE WebFaults!SilentRefresh \/ WebFaults!Logout \/ WebFaults!StopImpersonation
    <3>1. PICK u \in Users : TRUE
      BY <2>2 DEF SessionInv, PageInv, WebTypes, PageFits, WebFaults!SilentRefresh,
                  WebFaults!Logout, WebFaults!StopImpersonation
    <3> QED
      BY <2>1, <2>2, <3>1, SessionSends
  <2> QED
    BY <1>2, <2>1, <2>2, WebIsStep, SessionSends, SessionServes, SessionApplies
<1> QED
  BY <1>1, <1>2

LEMMA SessionInit == Web!Init => SessionInv
<1> SUFFICES ASSUME Web!Init PROVE SessionInv
  OBVIOUS
<1>1. WebFaults!Init
  BY DEF Web!Init, WebFaults!Init, Web!Kinds, WebFaults!Kinds
<1>2. PageInv /\ NoRequest
  BY <1>1, PageInit DEF WebFaults!Init, NoRequest
<1>3. ActorFits /\ SessionQuiet
  BY DEF Web!Init, ActorFits, SessionQuiet
<1> QED
  BY <1>2, <1>3, OneRequest DEF SessionInv

\* While GET /auth/me answers, the profile is that of the token.
ProfileFits == tab.token # Null => tab.profile = owner[tab.token]

LEMMA ProfileStep ==
  SessionInv /\ ProfileFits /\ [Web!Next]_(Web!vars) => ProfileFits'
<1> SUFFICES ASSUME SessionInv, ProfileFits, [Web!Next]_(Web!vars) PROVE ProfileFits'
  OBVIOUS
<1>0. WebTypes /\ PageFits /\ ActorFits
  BY DEF SessionInv, PageInv
\* A page that is not changed, while owners stay.
<1>1. ASSUME UNCHANGED tab,
             \/ UNCHANGED owner
             \/ \E s \in Logins : \E u : owner[s] = Null /\ owner' = [owner EXCEPT ![s] = u]
      PROVE  ProfileFits'
  BY <1>0, <1>1 DEF ProfileFits, PageFits, WebTypes
<1>2. ASSUME UNCHANGED owner, tab'.token = Null PROVE ProfileFits'
  BY <1>2 DEF ProfileFits
<1>3. ASSUME NEW s, UNCHANGED owner, tab'.token = s, tab'.profile = owner[s] PROVE ProfileFits'
  BY <1>3 DEF ProfileFits
<1>4. CASE UNCHANGED Web!vars
  BY <1>1, <1>4 DEF Web!vars
<1>5. ASSUME NEW u \in Users, Web!Login(u) \/ Web!StartImpersonation(u) PROVE ProfileFits'
  BY <1>1, <1>5 DEF Web!Login, Web!StartImpersonation, Web!Server
<1>6. CASE Web!SilentRefresh \/ Web!StopImpersonation \/ Web!ServeRefresh \/ Web!ServeLogout \/ Web!ServeStop
  BY <1>1, <1>6
  DEF Web!SilentRefresh, Web!StopImpersonation, Web!ServeRefresh, Web!ServeLogout, Web!ServeStop,
      Web!Server
<1>7. CASE Web!Logout
  BY <1>0, <1>2, <1>7 DEF Web!Logout, Web!EmptyState, Web!Server, WebTypes
<1>8. ASSUME NEW s \in Logins, Web!ServeLogin(s) \/ Web!ServeStart(s) PROVE ProfileFits'
  <2>1. UNCHANGED tab
    BY <1>8 DEF Web!ServeLogin, Web!ServeStart
  <2>2. \/ UNCHANGED owner
        \/ \E u : owner[s] = Null /\ owner' = [owner EXCEPT ![s] = u]
    BY <1>8 DEF Web!ServeLogin, Web!ServeStart, Web!Opens, Web!Server
  <2> QED
    BY <1>1, <2>1, <2>2
<1>9. ASSUME NEW k \in Web!Kinds, Web!Refused(k) PROVE ProfileFits'
  BY <1>1, <1>9 DEF Web!Refused, Web!Server
<1>10. CASE Web!TurnedAway \/ Web!LoggedOut
  BY <1>1, <1>10 DEF Web!TurnedAway, Web!LoggedOut, Web!Server
<1>11. CASE Web!LoggedIn \/ Web!Started
  BY <1>0, <1>3, <1>11 DEF Web!LoggedIn, Web!Started, Web!Server, WebTypes
<1>12. CASE Web!Stopped
  <2>1. tab' = [tab EXCEPT !.token = request["stop"].session, !.profile = owner[request["stop"].session],
                           !.banner = Null]
    BY <1>12 DEF Web!Stopped
  <2> QED
    BY <1>0, <1>3, <1>12, <2>1 DEF Web!Stopped, Web!Server, WebTypes
<1>13. CASE Web!Refreshed
  <2>1. WebFaults!Answered("refresh") /\ "refresh" \in WebFaults!Kinds
    BY <1>13 DEF Web!Refreshed, Web!Answered, WebFaults!Answered, WebFaults!Kinds
  <2>2. PICK r \in Requests :
          request["refresh"] = r /\ PageFlight("refresh", r) /\ SessionFlight("refresh", r)
    BY <2>1, SessionFinds
  <2>3. /\ tab'.token = r.session /\ UNCHANGED owner
        /\ tab'.profile = IF tab.booting THEN owner[r.session] ELSE tab.profile
    BY <1>0, <1>13, <2>2 DEF Web!Refreshed, Web!Server, WebTypes
  <2>4. ~ tab.booting /\ r.session = tab.token
    BY <1>0, <2>1, <2>2 DEF ActorFits, SessionFlight, WebFaults!Answered
  <2> QED
    BY <1>3, <2>3, <2>4 DEF ProfileFits
<1>14. CASE Web!NotRefreshed \/ Web!BootRefused
  <2>1. UNCHANGED owner
    BY <1>14 DEF Web!NotRefreshed, Web!BootRefused, Web!Server
  <2>2. tab'.token = Null \/ UNCHANGED tab
    BY <1>0, <1>14 DEF Web!NotRefreshed, Web!BootRefused, Web!EmptyState, WebTypes, ActorFits
  <2> QED
    BY <1>1, <1>2, <2>1, <2>2
<1>15. ~ Web!Reload /\ (\A s : ~ Web!Expire(s)) /\ \A k : ~ Web!Lose(k)
  BY DEF Web!Reload, Web!Expire, Web!Lose
<1> QED
  BY <1>4, <1>5, <1>6, <1>7, <1>8, <1>9, <1>10, <1>11, <1>12, <1>13, <1>14, <1>15 DEF Web!Next

LEMMA ProfileInit == Web!Init => ProfileFits
BY DEF Web!Init, ProfileFits

LEMMA SessionShows ==
  SessionInv /\ ProfileFits =>
    Web!ShowsWhoseToken /\ Web!CookieIsSession /\ Web!CanReturn /\ Web!NothingLeftLive
<1> SUFFICES ASSUME SessionInv, ProfileFits, Web!Quiet
             PROVE  Web!ShowsWhoseToken /\ Web!CookieIsSession /\ Web!CanReturn /\ Web!NothingLeftLive
  BY DEF Web!ShowsWhoseToken, Web!CookieIsSession, Web!CanReturn, Web!NothingLeftLive
<1>1. NoRequest
  BY OneRequest DEF SessionInv, PageInv, WebTypes, Web!Quiet, WebFaults!Quiet, Web!Kinds, WebFaults!Kinds
<1>2. PageFits /\ ActorFits /\ SessionQuiet
  BY <1>1 DEF SessionInv, PageInv
<1> QED
  BY <1>2
  DEF PageFits, ProfileFits, ActorFits, SessionQuiet, Web!ShowsWhoseToken, Web!CookieIsSession,
      Web!CanReturn, Web!NothingLeftLive

\* A page that is loaded once and whose requests are answered: when none is
\* under way, the page shows the user of its token, page, cookie and Keycloak
\* agree on the session, who acts for another can return, and nothing is left
\* live that no cookie holds.
THEOREM SessionsAgree ==
  Web!Spec => [](Web!ShowsWhoseToken /\ Web!CookieIsSession /\ Web!CanReturn /\ Web!NothingLeftLive)
BY SessionInit, SessionStep, ProfileInit, ProfileStep, SessionShows, PTL DEF Web!Spec

(***************************************************************************)
(* The proof of a delivery that is stored on the device, with any number   *)
(* of flushes that send it side by side and any number of ends of the      *)
(* application.  With one proof the queue is empty or holds it; two proofs *)
(* that are stored side by side may lose one another, which is why the     *)
(* theorems about what is stored are about one.                            *)
(***************************************************************************)

USE QueuesAssumption DEF Queue!OfflineAssumption, QueuePair!OfflineAssumption

\* A flush that is about to send, that waits for the answer, that failed, and
\* that was told of the delivery.
Ready == [at |-> "next", left |-> <<Stored>>, failed |-> <<>>]
Sending1 == [at |-> "sending", left |-> <<Stored>>, failed |-> <<>>]
Unsent == [at |-> "next", left |-> <<>>, failed |-> <<Stored>>]
Synced == [at |-> "next", left |-> <<>>, failed |-> <<>>]
FlushShapes == {Queue!NoFlush, Ready, Sending1, Unsent, Synced}

QueueRequests ==
  [by : {Stored} \union QueueFlushes \union {Nobody}, proof : {Stored}, at : {"sent", "committed"}]
TaskStates ==
  [status : {"OUT_FOR_DELIVERY", "ARRIVED", "DELIVERED", "ISSUE_REPORTED", "RETURNED"},
   proof : {Stored, Nobody}]
OrderStates == {"READY", "ON_HOLD", "DELIVERED", "REJECTED"}

\* The task has the recipient, and a request has delivered the order.
HasRecipient == task[delivery].proof = Stored
Delivered == HasRecipient /\ Stored \in closed

QueueTypes ==
  /\ stored \in {<<>>, <<Stored>>}
  /\ press \in [{Stored} -> {"none", "sending", "failed", "enqueue", "over"}]
  /\ copy = [q \in {Stored} |-> <<>>]
  /\ flush \in [QueueFlushes -> FlushShapes]
  /\ wire \subseteq QueueRequests
  /\ task \in [{delivery} -> TaskStates]
  /\ order \in [{delivery} -> OrderStates]
  /\ previous \in [{delivery} -> {"NONE", "READY", "ON_HOLD"}]
  /\ saved \subseteq {Stored}

\* What the device holds: nothing before the proof is saved, and from then on
\* the proof, unless the API has it; a flush forgets it only then.
DeviceFits ==
  /\ saved = {} => stored = <<>> /\ \A f \in QueueFlushes : flush[f] = Queue!NoFlush
  /\ press[Stored] # "over" => saved = {}
  /\ saved # {} /\ stored = <<>> => Delivered
  /\ \A f \in QueueFlushes : flush[f] = Synced => Delivered

\* What is on its way: one request of each call that waits for its answer.
WireFits ==
  /\ \A r \in wire :
       /\ r.at = "committed" => HasRecipient
       /\ r.by = Stored => press[Stored] = "sending"
       /\ r.by \in QueueFlushes => flush[r.by] = Sending1
  /\ \A r, s \in wire : r.by = s.by /\ r.by # Nobody => r = s
  /\ press[Stored] = "sending" => \E r \in wire : r.by = Stored
  /\ \A f \in QueueFlushes : flush[f] = Sending1 => \E r \in wire : r.by = f

QueueInv == QueueTypes /\ DeviceFits /\ WireFits

\* The queue of one proof.
LEMMA OneItem ==
  /\ <<Stored>> # <<>> /\ Append(<<>>, Stored) = <<Stored>>
  /\ Head(<<Stored>>) = Stored /\ Tail(<<Stored>>) = <<>>
  /\ Queue!ToSet(<<Stored>>) = {Stored} /\ Queue!ToSet(<<>>) = {}
  /\ <<>> \in Seq({Stored}) /\ <<Stored>> \in Seq({Stored})
BY DEF Queue!ToSet

\* The states of a flush are distinct.
LEMMA ShapesDiffer ==
  /\ Queue!NoFlush.at = "idle" /\ Ready.at = "next" /\ Sending1.at = "sending"
  /\ Unsent.at = "next" /\ Synced.at = "next"
  /\ Queue!NoFlush.left = <<>> /\ Ready.left = <<Stored>> /\ Sending1.left = <<Stored>>
  /\ Unsent.left = <<>> /\ Synced.left = <<>>
  /\ Unsent.failed = <<Stored>> /\ Synced.failed = <<>>
  /\ Unsent # Synced /\ Ready # Synced /\ Queue!NoFlush # Synced /\ Sending1 # Synced
  /\ Unsent # Sending1 /\ Ready # Sending1 /\ Queue!NoFlush # Sending1
BY OneItem DEF Queue!NoFlush, Ready, Sending1, Unsent, Synced

\* The task is that of the delivery.
LEMMA OneTask == Queue!Tasks = {delivery}
BY DEF Queue!Tasks

\* A call that is told how it ended.
LEMMA QueueTold ==
  ASSUME QueueInv, NEW r \in wire, r.by # Nobody, NEW ok \in BOOLEAN, Queue!Told(r.by, ok)
  PROVE  /\ UNCHANGED <<stored, copy, saved>>
         /\ \/ /\ r.by = Stored /\ press[Stored] = "sending" /\ UNCHANGED flush
               /\ press' = [q \in {Stored} |-> IF ok THEN "over" ELSE "failed"]
            \/ /\ r.by \in QueueFlushes /\ flush[r.by] = Sending1 /\ UNCHANGED press
               /\ flush' = [flush EXCEPT ![r.by] = IF ok THEN Synced ELSE Unsent]
<1>1. PICK c : c = r.by
  OBVIOUS
<1>2. c = Stored \/ c \in QueueFlushes
  BY <1>1 DEF QueueInv, QueueTypes, QueueRequests
<1>3. CASE c = Stored
  <2>1. press' = [press EXCEPT ![Stored] = IF ok THEN "over" ELSE "failed"] /\ UNCHANGED flush
    BY <1>1, <1>3 DEF Queue!Told
  <2>2. press' = [q \in {Stored} |-> IF ok THEN "over" ELSE "failed"]
    BY <2>1 DEF QueueInv, QueueTypes
  <2> QED
    BY <1>1, <1>3, <2>1, <2>2 DEF QueueInv, WireFits, Queue!Told
<1>4. CASE c \in QueueFlushes
  <2>1. flush[c] = Sending1
    BY <1>1, <1>4 DEF QueueInv, WireFits
  <2>2. /\ flush' = [flush EXCEPT ![c] =
                      [at |-> "next", left |-> Tail(flush[c].left),
                       failed |-> IF ok THEN flush[c].failed
                                  ELSE Append(flush[c].failed, Head(flush[c].left))]]
        /\ UNCHANGED press
    BY <1>1, <1>4 DEF Queue!Told
  <2>3. [at |-> "next", left |-> Tail(flush[c].left),
         failed |-> IF ok THEN flush[c].failed
                    ELSE Append(flush[c].failed, Head(flush[c].left))]
          = IF ok THEN Synced ELSE Unsent
    BY <2>1, OneItem DEF Sending1, Synced, Unsent
  <2> QED
    BY <1>1, <1>4, <2>1, <2>2, <2>3 DEF Queue!Told
<1> QED
  BY <1>2, <1>3, <1>4

\* The API only goes on: what it has recorded stays.
ServerGoesOn ==
  /\ task' \in [{delivery} -> TaskStates]
  /\ order' \in [{delivery} -> OrderStates]
  /\ previous' \in [{delivery} -> {"NONE", "READY", "ON_HOLD"}]
  /\ HasRecipient => HasRecipient'
  /\ Delivered => Delivered'

LEMMA ServerRests == QueueInv /\ UNCHANGED <<task, order, previous, closed>> => ServerGoesOn
BY DEF QueueInv, QueueTypes, ServerGoesOn, Delivered, HasRecipient

\* A request that is answered or given up, and is left with nobody.
LEMMA QueueAnswered ==
  ASSUME QueueInv, NEW r \in wire, r.by # Nobody, NEW ok \in BOOLEAN, Queue!Told(r.by, ok),
         ServerGoesOn, ok => Delivered', wire \ {r} \subseteq wire',
         \A s \in wire' : s \in wire \ {r} \/ (s \in QueueRequests /\ s.by = Nobody /\ s.at = r.at)
  PROVE  QueueInv'
<1>1. PICK c : c = r.by
  OBVIOUS
<1>2. /\ UNCHANGED <<stored, copy, saved>>
      /\ \/ /\ c = Stored /\ press[Stored] = "sending" /\ UNCHANGED flush
            /\ press' = [q \in {Stored} |-> IF ok THEN "over" ELSE "failed"]
         \/ /\ c \in QueueFlushes /\ flush[c] = Sending1 /\ UNCHANGED press
            /\ flush' = [flush EXCEPT ![c] = IF ok THEN Synced ELSE Unsent]
  BY <1>1, QueueTold
<1>3. QueueTypes'
  BY <1>2 DEF QueueInv, QueueTypes, ServerGoesOn, FlushShapes
<1>4. DeviceFits'
  <2>1. CASE c = Stored /\ UNCHANGED flush
    BY <1>2, <2>1 DEF QueueInv, DeviceFits, ServerGoesOn
  <2>2. CASE /\ c \in QueueFlushes /\ flush[c] = Sending1 /\ UNCHANGED press
             /\ flush' = [flush EXCEPT ![c] = IF ok THEN Synced ELSE Unsent]
    <3>1. saved # {}
      BY <2>2, ShapesDiffer DEF QueueInv, DeviceFits
    <3>2. ASSUME NEW f \in QueueFlushes, flush'[f] = Synced PROVE Delivered'
      BY <2>2, <3>2, ShapesDiffer DEF QueueInv, QueueTypes, DeviceFits, ServerGoesOn
    <3> QED
      BY <1>2, <2>2, <3>1, <3>2 DEF QueueInv, DeviceFits, ServerGoesOn
  <2> QED
    BY <1>2, <2>1, <2>2
<1>5. \A s \in wire' : s.by # Nobody => s \in wire /\ s.by # c
  BY <1>1 DEF QueueInv, WireFits
<1>6. \A s \in wire' : s.at = "committed" => HasRecipient'
  BY DEF QueueInv, WireFits, ServerGoesOn
<1>7. \A s \in wire' : /\ s.by = Stored => press'[Stored] = "sending"
                       /\ s.by \in QueueFlushes => flush'[s.by] = Sending1
  BY <1>2, <1>5 DEF QueueInv, QueueTypes, WireFits
<1>8. /\ press'[Stored] = "sending" => c # Stored /\ press[Stored] = "sending"
      /\ \A f \in QueueFlushes : flush'[f] = Sending1 => f # c /\ flush[f] = Sending1
  BY <1>1, <1>2, ShapesDiffer DEF QueueInv, QueueTypes, WireFits
<1>9. \A d : d # c /\ (\E s \in wire : s.by = d) => \E s \in wire' : s.by = d
  BY <1>1
<1>10. WireFits'
  <2>1. \A s, u \in wire' : s.by = u.by /\ s.by # Nobody => s = u
    BY <1>5 DEF QueueInv, WireFits
  <2>2. /\ press'[Stored] = "sending" => \E s \in wire' : s.by = Stored
        /\ \A f \in QueueFlushes : flush'[f] = Sending1 => \E s \in wire' : s.by = f
    BY <1>8, <1>9 DEF QueueInv, WireFits
  <2> QED
    BY <1>6, <1>7, <2>1, <2>2 DEF WireFits
<1> QED
  BY <1>3, <1>4, <1>10 DEF QueueInv

\* A step that no call hears of.
LEMMA QueueUnheard ==
  ASSUME QueueInv, UNCHANGED <<stored, press, copy, flush, saved>>, ServerGoesOn,
         wire' \subseteq QueueRequests,
         \A s \in wire' : s.at = "committed" => HasRecipient',
         \A s \in wire' : s.by = Nobody \/ \E u \in wire : u.by = s.by,
         \A s \in wire : s.by = Nobody \/ \E u \in wire' : u.by = s.by,
         \A s, u \in wire' : s.by = u.by /\ s.by # Nobody => s = u
  PROVE  QueueInv'
<1>1. QueueTypes' /\ DeviceFits'
  BY DEF QueueInv, QueueTypes, DeviceFits, ServerGoesOn
<1>2. WireFits'
  BY DEF QueueInv, WireFits
<1> QED
  BY <1>1, <1>2 DEF QueueInv

\* The device: the agent confirms, the proof is stored, flushes come and go.
LEMMA QueuePress ==
  ASSUME QueueInv, NEW p \in {Stored}, Queue!Press(p) \/ Queue!EnqueueRead(p) \/ Queue!EnqueueWrite(p)
  PROVE  QueueInv'
<1>0. ServerGoesOn /\ UNCHANGED flush /\ p = Stored
  BY ServerRests DEF Queue!Press, Queue!EnqueueRead, Queue!EnqueueWrite, Queue!serverVars
<1>1. CASE Queue!Press(p)
  <2>1. PICK r : r = Queue!Request(p, p)
    OBVIOUS
  <2>2. r \in QueueRequests /\ r.by = Stored /\ r.at = "sent"
    BY <1>0, <2>1 DEF Queue!Request, QueueRequests
  <2>3. /\ press[Stored] = "none" /\ press' = [q \in {Stored} |-> "sending"]
        /\ wire' = wire \union {r} /\ UNCHANGED <<stored, copy, saved>>
    BY <1>0, <1>1, <2>1 DEF Queue!Press, QueueInv, QueueTypes
  <2>4. \A s \in wire : s.by # Stored
    BY <2>3 DEF QueueInv, WireFits
  <2>5. QueueTypes' /\ DeviceFits'
    BY <1>0, <2>2, <2>3 DEF QueueInv, QueueTypes, DeviceFits, ServerGoesOn
  <2>6. WireFits'
    <3>1. \A s \in wire' :
            /\ s.at = "committed" => HasRecipient'
            /\ s.by = Stored => press'[Stored] = "sending"
            /\ s.by \in QueueFlushes => flush'[s.by] = Sending1
      BY <1>0, <2>2, <2>3 DEF QueueInv, WireFits, ServerGoesOn
    <3>2. \A s, u \in wire' : s.by = u.by /\ s.by # Nobody => s = u
      BY <2>2, <2>3, <2>4 DEF QueueInv, WireFits
    <3>3. /\ \E s \in wire' : s.by = Stored
          /\ \A f \in QueueFlushes : flush'[f] = Sending1 => \E s \in wire' : s.by = f
      BY <1>0, <2>2, <2>3 DEF QueueInv, WireFits
    <3> QED
      BY <3>1, <3>2, <3>3 DEF WireFits
  <2> QED
    BY <2>5, <2>6 DEF QueueInv
<1>2. CASE Queue!EnqueueRead(p)
  <2>1. /\ press[Stored] = "failed" /\ press' = [q \in {Stored} |-> "enqueue"]
        /\ copy' = [copy EXCEPT ![Stored] = stored] /\ UNCHANGED <<stored, saved, wire>>
    BY <1>0, <1>2 DEF Queue!EnqueueRead, QueueInv, QueueTypes
  <2>2. stored = <<>>
    BY <2>1 DEF QueueInv, DeviceFits
  <2>3. copy' = [q \in {Stored} |-> <<>>]
    BY <2>1, <2>2 DEF QueueInv, QueueTypes
  <2>4. QueueTypes' /\ DeviceFits'
    BY <1>0, <2>1, <2>3 DEF QueueInv, QueueTypes, DeviceFits, ServerGoesOn
  <2>5. WireFits'
    BY <1>0, <2>1 DEF QueueInv, WireFits, ServerGoesOn
  <2> QED
    BY <2>4, <2>5 DEF QueueInv
<1>3. CASE Queue!EnqueueWrite(p)
  <2>1. /\ press[Stored] = "enqueue" /\ press' = [q \in {Stored} |-> "over"]
        /\ stored' = IF Stored \in Queue!ToSet(copy[Stored]) THEN stored
                     ELSE Append(copy[Stored], Stored)
        /\ copy' = [copy EXCEPT ![Stored] = <<>>]
        /\ saved' = saved \union {Stored} /\ UNCHANGED wire
    BY <1>0, <1>3 DEF Queue!EnqueueWrite, QueueInv, QueueTypes
  <2>2. stored' = <<Stored>> /\ copy' = [q \in {Stored} |-> <<>>]
    BY <2>1, OneItem DEF QueueInv, QueueTypes
  <2>3. QueueTypes' /\ DeviceFits'
    BY <1>0, <2>1, <2>2, OneItem DEF QueueInv, QueueTypes, DeviceFits, ServerGoesOn
  <2>4. WireFits'
    BY <1>0, <2>1 DEF QueueInv, WireFits, ServerGoesOn
  <2> QED
    BY <2>3, <2>4 DEF QueueInv
<1> QED
  BY <1>1, <1>2, <1>3

LEMMA QueueFlush ==
  ASSUME QueueInv, NEW f \in QueueFlushes, Queue!FlushStart(f) \/ Queue!FlushSend(f) \/ Queue!FlushWrite(f)
  PROVE  QueueInv'
<1>0. ServerGoesOn /\ UNCHANGED <<press, copy, saved>> /\ f # Stored /\ f # Nobody
  BY ServerRests DEF Queue!FlushStart, Queue!FlushSend, Queue!FlushWrite, Queue!serverVars
<1>s. flush[f] \in FlushShapes
  BY DEF QueueInv, QueueTypes
<1>1. CASE Queue!FlushStart(f)
  <2>1. /\ stored # <<>> /\ UNCHANGED <<stored, wire>> /\ flush[f].at = "idle"
        /\ flush' = [flush EXCEPT ![f] = Ready]
    BY <1>1 DEF Queue!FlushStart, QueueInv, QueueTypes, Ready
  <2>2. saved # {} /\ flush[f] # Sending1
    BY <2>1, ShapesDiffer DEF QueueInv, DeviceFits
  <2>3. QueueTypes'
    BY <1>0, <2>1 DEF QueueInv, QueueTypes, FlushShapes, ServerGoesOn
  <2>4. DeviceFits'
    BY <1>0, <2>1, <2>2, ShapesDiffer DEF QueueInv, QueueTypes, DeviceFits, ServerGoesOn
  <2>5. WireFits'
    BY <1>0, <2>1, <2>2, ShapesDiffer DEF QueueInv, QueueTypes, WireFits, ServerGoesOn
  <2> QED
    BY <2>3, <2>4, <2>5 DEF QueueInv
<1>2. CASE Queue!FlushSend(f)
  <2>1. flush[f] = Ready
    BY <1>s, <1>2, ShapesDiffer DEF Queue!FlushSend, FlushShapes
  <2>2. [Ready EXCEPT !.at = "sending"] = Sending1
    BY DEF Ready, Sending1
  <2>3. PICK r : r = Queue!Request(f, Head(flush[f].left))
    OBVIOUS
  <2>4. r \in QueueRequests /\ r.by = f /\ r.at = "sent"
    BY <2>1, <2>3, OneItem DEF Ready, Queue!Request, QueueRequests
  <2>5. /\ flush' = [flush EXCEPT ![f] = Sending1] /\ wire' = wire \union {r} /\ UNCHANGED stored
    BY <1>2, <2>1, <2>2, <2>3 DEF Queue!FlushSend, QueueInv, QueueTypes
  <2>6. saved # {} /\ flush[f] # Sending1
    BY <2>1, ShapesDiffer DEF QueueInv, DeviceFits
  <2>7. \A s \in wire : s.by # f
    BY <2>6 DEF QueueInv, WireFits
  <2>8. QueueTypes'
    BY <1>0, <2>4, <2>5 DEF QueueInv, QueueTypes, FlushShapes, ServerGoesOn
  <2>9. DeviceFits'
    BY <1>0, <2>5, <2>6, ShapesDiffer DEF QueueInv, QueueTypes, DeviceFits, ServerGoesOn
  <2>10. WireFits'
    <3>1. \A s \in wire' :
            /\ s.at = "committed" => HasRecipient'
            /\ s.by = Stored => press'[Stored] = "sending"
            /\ s.by \in QueueFlushes => flush'[s.by] = Sending1
      BY <1>0, <2>4, <2>5, <2>7 DEF QueueInv, QueueTypes, WireFits, ServerGoesOn
    <3>2. \A s, u \in wire' : s.by = u.by /\ s.by # Nobody => s = u
      BY <2>4, <2>5, <2>7 DEF QueueInv, WireFits
    <3>3. /\ press'[Stored] = "sending" => \E s \in wire' : s.by = Stored
          /\ \A g \in QueueFlushes : flush'[g] = Sending1 => \E s \in wire' : s.by = g
      BY <1>0, <2>4, <2>5 DEF QueueInv, QueueTypes, WireFits
    <3> QED
      BY <3>1, <3>2, <3>3 DEF WireFits
  <2> QED
    BY <2>8, <2>9, <2>10 DEF QueueInv
<1>3. CASE Queue!FlushWrite(f)
  <2>1. flush[f] = Unsent \/ flush[f] = Synced
    BY <1>s, <1>3, ShapesDiffer, OneItem DEF Queue!FlushWrite, FlushShapes
  <2>2. /\ stored' = flush[f].failed /\ flush' = [flush EXCEPT ![f] = Queue!NoFlush]
        /\ UNCHANGED wire
    BY <1>3 DEF Queue!FlushWrite
  <2>3. saved # {} /\ flush[f] # Sending1
    BY <2>1, ShapesDiffer DEF QueueInv, DeviceFits
  <2>4. stored' \in {<<>>, <<Stored>>} /\ (stored' = <<>> => Delivered)
    BY <2>1, <2>2, ShapesDiffer, OneItem DEF QueueInv, DeviceFits
  <2>5. QueueTypes'
    BY <1>0, <2>2, <2>4 DEF QueueInv, QueueTypes, FlushShapes, ServerGoesOn
  <2>6. DeviceFits'
    BY <1>0, <2>2, <2>3, <2>4, ShapesDiffer DEF QueueInv, QueueTypes, DeviceFits, ServerGoesOn
  <2>7. WireFits'
    BY <1>0, <2>2, <2>3, ShapesDiffer DEF QueueInv, QueueTypes, WireFits, ServerGoesOn
  <2> QED
    BY <2>5, <2>6, <2>7 DEF QueueInv
<1> QED
  BY <1>1, <1>2, <1>3

\* The application ends: what is stored is left, and no call waits any more.
LEMMA QueueKill ==
  ASSUME QueueInv, Queue!Kill
  PROVE  QueueInv'
<1>1. /\ UNCHANGED <<stored, saved>> /\ ServerGoesOn
      /\ press' = [p \in {Stored} |-> IF press[p] = "none" THEN "none" ELSE "over"]
      /\ copy' = [p \in {Stored} |-> <<>>]
      /\ flush' = [f \in QueueFlushes |-> Queue!NoFlush]
      /\ wire' = {[r EXCEPT !.by = Nobody] : r \in wire}
  BY ServerRests DEF Queue!Kill, Queue!serverVars
<1>2. \A s \in wire' : s \in QueueRequests /\ s.by = Nobody /\ \E r \in wire : s.at = r.at
  BY <1>1 DEF QueueInv, QueueTypes, QueueRequests
<1>3. QueueTypes'
  BY <1>1, <1>2 DEF QueueInv, QueueTypes, FlushShapes, ServerGoesOn
<1>4. DeviceFits'
  BY <1>1, ShapesDiffer DEF QueueInv, QueueTypes, DeviceFits, ServerGoesOn
<1>5. \A s \in wire' : s.at = "committed" => HasRecipient'
  BY <1>1, <1>2 DEF QueueInv, WireFits, ServerGoesOn
<1>6. \A s \in wire' : s.by # Stored /\ s.by \notin QueueFlushes
  BY <1>2
<1>7. press'[Stored] # "sending" /\ \A f \in QueueFlushes : flush'[f] # Sending1
  BY <1>1, ShapesDiffer
<1>8. WireFits'
  BY <1>2, <1>5, <1>6, <1>7 DEF WireFits
<1> QED
  BY <1>3, <1>4, <1>8 DEF QueueInv

\* What becomes of a request on its way.
LEMMA RequestChanges ==
  ASSUME NEW r \in QueueRequests
  PROVE  /\ r.proof = Stored /\ r.by \in {Stored} \union QueueFlushes \union {Nobody}
         /\ [r EXCEPT !.by = Nobody] \in QueueRequests
         /\ [r EXCEPT !.by = Nobody].by = Nobody /\ [r EXCEPT !.by = Nobody].at = r.at
         /\ [r EXCEPT !.at = "committed"] \in QueueRequests
         /\ [r EXCEPT !.at = "committed"].by = r.by
         /\ [r EXCEPT !.at = "committed"].at = "committed"
BY DEF QueueRequests

LEMMA QueueNetwork ==
  ASSUME QueueInv, NEW r \in wire, Queue!TimeOut(r) \/ Queue!Vanish(r)
  PROVE  QueueInv'
<1>0. r \in QueueRequests /\ wire \subseteq QueueRequests /\ ServerGoesOn
  BY ServerRests
  DEF QueueInv, QueueTypes, Queue!TimeOut, Queue!Vanish, Queue!serverVars
<1>1. CASE Queue!TimeOut(r)
  <2>1. r.by # Nobody /\ Queue!Told(r.by, FALSE) /\ wire' = (wire \ {r}) \union {[r EXCEPT !.by = Nobody]}
    BY <1>1 DEF Queue!TimeOut, Queue!Left
  <2>2. \A s \in wire' : s \in wire \ {r} \/ (s \in QueueRequests /\ s.by = Nobody /\ s.at = r.at)
    BY <1>0, <2>1, RequestChanges
  <2> QED
    BY <1>0, <2>1, <2>2, QueueAnswered
<1>2. CASE Queue!Vanish(r)
  <2>1. r.by = Nobody /\ wire' = wire \ {r} /\ UNCHANGED <<stored, press, copy, flush, saved>>
    BY <1>2 DEF Queue!Vanish, Queue!Left, Queue!deviceVars
  <2>2. \A s \in wire' : s.at = "committed" => HasRecipient'
    BY <1>0, <2>1 DEF QueueInv, WireFits, ServerGoesOn
  <2>3. \A s, u \in wire' : s.by = u.by /\ s.by # Nobody => s = u
    BY <2>1 DEF QueueInv, WireFits
  <2>4. /\ \A s \in wire' : s.by = Nobody \/ \E u \in wire : u.by = s.by
        /\ \A s \in wire : s.by = Nobody \/ \E u \in wire' : u.by = s.by
    BY <2>1
  <2>5. wire' \subseteq QueueRequests
    BY <1>0, <2>1
  <2> QED
    BY <1>0, <2>1, <2>2, <2>3, <2>4, <2>5, QueueUnheard
<1> QED
  BY <1>1, <1>2

\* The API: the transaction of the task, then the order, or a refusal.
LEMMA QueueServer ==
  ASSUME QueueInv,
         \E r \in wire : \/ Queue!CommitTask(r) \/ Queue!RefuseTask(r)
                        \/ Queue!CommitOrder(r) \/ Queue!RefuseOrder(r)
  PROVE  QueueInv'
<1>0. wire \subseteq QueueRequests /\ task \in [{delivery} -> TaskStates]
  BY DEF QueueInv, QueueTypes
<1>t. \A r \in wire : [p \in {Stored} |-> delivery][r.proof] = delivery /\ r.proof = Stored
  BY <1>0, RequestChanges
\* The last step of a request, whether a call still waits for it or not.
<1>1. ASSUME NEW r \in wire, NEW ok \in BOOLEAN, wire' = wire \ {r}, ServerGoesOn, ok => Delivered',
             IF r.by = Nobody THEN UNCHANGED <<stored, press, copy, flush, saved>>
             ELSE Queue!Told(r.by, ok)
      PROVE  QueueInv'
  <2>1. CASE r.by # Nobody
    BY <1>1, <2>1, QueueAnswered
  <2>2. CASE r.by = Nobody
    <3>1. \A s \in wire' : s.at = "committed" => HasRecipient'
      BY <1>1 DEF QueueInv, WireFits, ServerGoesOn
    <3>2. \A s, u \in wire' : s.by = u.by /\ s.by # Nobody => s = u
      BY <1>1 DEF QueueInv, WireFits
    <3>3. /\ \A s \in wire' : s.by = Nobody \/ \E u \in wire : u.by = s.by
          /\ \A s \in wire : s.by = Nobody \/ \E u \in wire' : u.by = s.by
      BY <1>1, <2>2
    <3>4. wire' \subseteq QueueRequests
      BY <1>0, <1>1
    <3> QED
      BY <1>1, <2>2, <3>1, <3>2, <3>3, <3>4, QueueUnheard
  <2> QED
    BY <2>1, <2>2
<1>2. ASSUME NEW r \in wire, Queue!CommitTask(r) PROVE QueueInv'
  <2>1. PICK c : c = [r EXCEPT !.at = "committed"]
    OBVIOUS
  <2>2. c \in QueueRequests /\ c.by = r.by /\ c.at = "committed"
    BY <1>0, <2>1, RequestChanges
  <2>3. /\ task' = [task EXCEPT ![delivery] = [status |-> "DELIVERED", proof |-> Stored]]
        /\ wire' = (wire \ {r}) \union {c}
        /\ UNCHANGED <<stored, press, copy, flush, saved, order, previous, closed>>
    BY <1>2, <1>t, <2>1 DEF Queue!CommitTask, Queue!Left, Queue!deviceVars
  <2>4. task' = [t \in {delivery} |-> [status |-> "DELIVERED", proof |-> Stored]]
    BY <1>0, <2>3
  <2>5. HasRecipient'
    BY <2>4 DEF HasRecipient
  <2>6. ServerGoesOn
    BY <2>3, <2>4, <2>5 DEF ServerGoesOn, TaskStates, Delivered, QueueInv, QueueTypes
  <2>7. \A s, u \in wire' : s.by = u.by /\ s.by # Nobody => s = u
    BY <2>2, <2>3 DEF QueueInv, WireFits
  <2>8. /\ \A s \in wire' : s.by = Nobody \/ \E u \in wire : u.by = s.by
        /\ \A s \in wire : s.by = Nobody \/ \E u \in wire' : u.by = s.by
    BY <2>2, <2>3
  <2>9. wire' \subseteq QueueRequests
    BY <1>0, <2>2, <2>3
  <2> QED
    BY <2>3, <2>5, <2>6, <2>7, <2>8, <2>9, QueueUnheard
<1>3. ASSUME NEW r \in wire, Queue!RefuseTask(r) \/ Queue!RefuseOrder(r) PROVE QueueInv'
  <2>1. /\ wire' = wire \ {r} /\ UNCHANGED <<task, order, previous, closed>>
        /\ IF r.by = Nobody THEN UNCHANGED <<stored, press, copy, flush, saved>>
           ELSE Queue!Told(r.by, FALSE)
    BY <1>3
    DEF Queue!RefuseTask, Queue!RefuseOrder, Queue!Left, Queue!deviceVars, Queue!serverVars
  <2>2. ServerGoesOn
    BY <2>1, ServerRests
  <2> QED
    BY <1>1, <2>1, <2>2
<1>4. ASSUME NEW r \in wire, Queue!CommitOrder(r) PROVE QueueInv'
  <2>1. /\ r.at = "committed" /\ wire' = wire \ {r} /\ UNCHANGED <<task, previous>>
        /\ order' = [order EXCEPT ![delivery] = "DELIVERED"]
        /\ closed' = closed \union {Stored}
        /\ IF r.by = Nobody THEN UNCHANGED <<stored, press, copy, flush, saved>>
           ELSE Queue!Told(r.by, TRUE)
    BY <1>4, <1>t DEF Queue!CommitOrder, Queue!Left, Queue!deviceVars
  <2>2. HasRecipient'
    BY <2>1 DEF QueueInv, WireFits, HasRecipient
  <2>3. /\ order' \in [{delivery} -> OrderStates]
        /\ previous' \in [{delivery} -> {"NONE", "READY", "ON_HOLD"}]
    BY <2>1 DEF QueueInv, QueueTypes, OrderStates
  <2>4. Delivered' /\ ServerGoesOn
    BY <1>0, <2>1, <2>2, <2>3 DEF Delivered, ServerGoesOn
  <2> QED
    BY <1>1, <2>1, <2>4
<1> QED
  BY <1>2, <1>3, <1>4

\* Others, who report incidents, resolve them or move the order, leave the
\* recipient of the task.
LEMMA QueueOthers ==
  ASSUME QueueInv, NEW t \in Queue!Tasks,
         \/ Queue!ReportOrderIssue(t) \/ Queue!ReportTaskIssue(t) \/ Queue!Resume(t)
         \/ Queue!GiveUp(t) \/ Queue!Arrive(t) \/ Queue!OrderMoves(t)
  PROVE  QueueInv'
<1>1. /\ t = delivery /\ task \in [{delivery} -> TaskStates]
      /\ order \in [{delivery} -> OrderStates]
      /\ previous \in [{delivery} -> {"NONE", "READY", "ON_HOLD"}]
  BY OneTask DEF QueueInv, QueueTypes
<1>2. UNCHANGED <<stored, press, copy, flush, saved, wire, closed>>
  BY DEF Queue!ReportOrderIssue, Queue!ReportTaskIssue, Queue!Resume, Queue!GiveUp, Queue!Arrive,
         Queue!OrderMoves, Queue!OnlyTheDelivery, Queue!deviceVars
<1>3. \/ UNCHANGED task
      \/ \E new \in {"ISSUE_REPORTED", "OUT_FOR_DELIVERY", "RETURNED", "ARRIVED"} :
           task' = [task EXCEPT ![delivery].status = new]
  BY <1>1
  DEF Queue!ReportOrderIssue, Queue!ReportTaskIssue, Queue!Resume, Queue!GiveUp, Queue!Arrive,
      Queue!OrderMoves
<1>4. task' \in [{delivery} -> TaskStates] /\ task'[delivery].proof = task[delivery].proof
  BY <1>1, <1>3 DEF TaskStates
<1>5. /\ order' \in [{delivery} -> OrderStates]
      /\ previous' \in [{delivery} -> {"NONE", "READY", "ON_HOLD"}]
  BY <1>1
  DEF Queue!ReportOrderIssue, Queue!ReportTaskIssue, Queue!Resume, Queue!GiveUp, Queue!Arrive,
      Queue!OrderMoves, OrderStates
<1>6. ServerGoesOn
  BY <1>2, <1>4, <1>5 DEF ServerGoesOn, HasRecipient, Delivered
<1> QED
  BY <1>2, <1>6, QueueUnheard DEF QueueInv, QueueTypes, WireFits, ServerGoesOn

LEMMA QueueStep == QueueInv /\ [Queue!OfflineNext]_(Queue!offlineVars) => QueueInv'
<1> SUFFICES ASSUME QueueInv, [Queue!OfflineNext]_(Queue!offlineVars) PROVE QueueInv'
  OBVIOUS
<1>1. CASE UNCHANGED Queue!offlineVars
  <2>1. UNCHANGED <<stored, press, copy, flush, saved, wire, task, order, previous, closed>>
    BY <1>1 DEF Queue!offlineVars, Queue!deviceVars, Queue!serverVars
  <2>2. ServerGoesOn
    BY <2>1, ServerRests
  <2> QED
    BY <2>1, <2>2, QueueUnheard DEF QueueInv, QueueTypes, WireFits, ServerGoesOn
<1> QED
  BY <1>1, QueuePress, QueueFlush, QueueKill, QueueNetwork, QueueServer, QueueOthers
  DEF Queue!OfflineNext, Queue!DeviceNext, Queue!NetworkNext, Queue!ServerNext

LEMMA QueueInit == Queue!OfflineInit => QueueInv
<1> SUFFICES ASSUME Queue!OfflineInit PROVE QueueInv
  OBVIOUS
<1>1. QueueTypes
  BY OneTask DEF Queue!OfflineInit, QueueTypes, FlushShapes, TaskStates, OrderStates
<1>2. DeviceFits
  BY ShapesDiffer DEF Queue!OfflineInit, DeviceFits
<1>3. WireFits
  BY ShapesDiffer DEF Queue!OfflineInit, WireFits
<1> QED
  BY <1>1, <1>2, <1>3 DEF QueueInv

LEMMA QueueShows ==
  QueueInv => Queue!OfflineTypeOK /\ Queue!StoredUntilDelivered
<1> SUFFICES ASSUME QueueInv
             PROVE  Queue!OfflineTypeOK /\ Queue!StoredUntilDelivered
  OBVIOUS
<1>1. Queue!OfflineTypeOK
  <2>1. stored \in Seq({Stored}) /\ wire \subseteq QueueRequests
    BY OneItem DEF QueueInv, QueueTypes
  <2>2. ASSUME NEW f \in QueueFlushes
        PROVE  /\ flush[f].at \in {"idle", "next", "sending"}
               /\ flush[f].at = "sending" => \E r \in wire : r.by = f /\ r.proof = Head(flush[f].left)
    <3>1. flush[f] \in FlushShapes
      BY DEF QueueInv, QueueTypes
    <3>2. flush[f].at = "sending" => flush[f] = Sending1
      BY <3>1, ShapesDiffer DEF FlushShapes
    <3>3. flush[f] = Sending1 => \E r \in wire : r.by = f /\ r.proof = Stored
      BY <2>1, RequestChanges DEF QueueInv, WireFits
    <3> QED
      BY <3>1, <3>2, <3>3, ShapesDiffer, OneItem DEF FlushShapes
  <2>3. \A p \in {Stored} : press[p] = "sending" <=> \E r \in wire : r.by = p
    BY DEF QueueInv, WireFits
  <2>4. /\ press \in [{Stored} -> {"none", "sending", "failed", "enqueue", "over"}]
        /\ task \in [{delivery} -> [status : {"OUT_FOR_DELIVERY", "ARRIVED", "DELIVERED",
                                              "ISSUE_REPORTED", "RETURNED"},
                                    proof : {Stored} \union {Nobody}]]
        /\ order \in [{delivery} -> {"READY", "ON_HOLD", "DELIVERED", "REJECTED"}]
        /\ previous \in [{delivery} -> {"NONE", "READY", "ON_HOLD"}]
    BY DEF QueueInv, QueueTypes, TaskStates, OrderStates
  <2> QED
    BY <2>1, <2>2, <2>3, <2>4, OneTask DEF Queue!OfflineTypeOK, QueueRequests
<1>2. ASSUME NEW p \in saved
      PROVE  p = Stored /\ (p \in Queue!ToSet(stored) \/ Delivered)
  BY <1>2, OneItem DEF QueueInv, QueueTypes, DeviceFits
<1>3. Queue!StoredUntilDelivered
  BY <1>2 DEF Queue!StoredUntilDelivered, Delivered, HasRecipient
<1> QED
  BY <1>1, <1>3

\* What the banner counts as stored safely leaves the device only after a
\* request with it recorded the recipient and ended with the order delivered,
\* whatever is refused and whatever others do.
THEOREM StoredProofsArrive ==
  Queue!OfflineSpec => [](Queue!OfflineTypeOK /\ Queue!StoredUntilDelivered)
BY QueueInit, QueueStep, QueueShows, PTL DEF Queue!OfflineSpec

\* With two proofs, sent in any order and any number of times, a delivered task
\* stays as it is until an incident of its order is reported.
TasksOfPair ==
  /\ DOMAIN task = QueuePair!Tasks
  /\ order \in [QueuePair!Tasks -> OrderStates]
  /\ previous \in [QueuePair!Tasks -> {"NONE", "READY", "ON_HOLD"}]

\* Only the report of such an incident opens a delivered task.
LEMMA PairOthers ==
  ASSUME TasksOfPair, NEW t \in QueuePair!Tasks,
         \/ QueuePair!ReportOrderIssue(t) \/ QueuePair!ReportTaskIssue(t) \/ QueuePair!Resume(t)
         \/ QueuePair!GiveUp(t) \/ QueuePair!Arrive(t) \/ QueuePair!OrderMoves(t)
  PROVE  TasksOfPair' /\ QueuePair!ProofStays
<1>1. CASE QueuePair!ReportOrderIssue(t)
  <2>1. /\ task' = [task EXCEPT ![t].status = "ISSUE_REPORTED"]
        /\ order[t] \in {"READY", "ON_HOLD"}
        /\ order' = [order EXCEPT ![t] = "ON_HOLD"]
        /\ previous' = [previous EXCEPT ![t] =
                          IF task[t].status = "ISSUE_REPORTED" THEN previous[t] ELSE order[t]]
    BY <1>1 DEF QueuePair!ReportOrderIssue, TasksOfPair, OrderStates
  <2>2. TasksOfPair'
    BY <2>1 DEF TasksOfPair, QueuePair!Tasks, OrderStates
  <2>3. \A s \in QueuePair!Tasks :
          task[s].status = "DELIVERED" /\ previous'[s] = "NONE" => task'[s] = task[s]
    BY <2>1 DEF TasksOfPair
  <2> QED
    BY <2>2, <2>3 DEF QueuePair!ProofStays
<1>2. CASE ~ QueuePair!ReportOrderIssue(t)
  <2>1. /\ UNCHANGED previous
        /\ \/ UNCHANGED task
           \/ \E new : task' = [task EXCEPT ![t].status = new] /\ task[t].status # "DELIVERED"
    BY <1>2
    DEF QueuePair!ReportTaskIssue, QueuePair!Resume, QueuePair!GiveUp, QueuePair!Arrive,
        QueuePair!OrderMoves
  <2>2. order' \in [QueuePair!Tasks -> OrderStates]
    BY <1>2
    DEF QueuePair!ReportTaskIssue, QueuePair!Resume, QueuePair!GiveUp, QueuePair!Arrive,
        QueuePair!OrderMoves, TasksOfPair, OrderStates
  <2> QED
    BY <2>1, <2>2 DEF TasksOfPair, QueuePair!ProofStays, QueuePair!Tasks
<1> QED
  BY <1>1, <1>2

LEMMA PairStep ==
  TasksOfPair /\ [QueuePair!OfflineNext]_(QueuePair!offlineVars)
    => TasksOfPair' /\ QueuePair!ProofStays
<1> SUFFICES ASSUME TasksOfPair, [QueuePair!OfflineNext]_(QueuePair!offlineVars)
             PROVE  TasksOfPair' /\ QueuePair!ProofStays
  OBVIOUS
<1>1. CASE UNCHANGED <<task, previous>> /\ order' \in [QueuePair!Tasks -> OrderStates]
  BY <1>1 DEF TasksOfPair, QueuePair!ProofStays, QueuePair!Tasks
<1>2. ASSUME NEW r \in wire, QueuePair!CommitTask(r)
      PROVE  TasksOfPair' /\ QueuePair!ProofStays
  <2>1. PICK t : t = [p \in TwoProofs |-> delivery][r.proof]
    OBVIOUS
  <2>2. PICK w : w = [status |-> "DELIVERED", proof |-> r.proof]
    OBVIOUS
  <2>3. /\ task[t] = w \/ task[t].status = "ARRIVED"
        /\ task' = [task EXCEPT ![t] = w] /\ UNCHANGED <<order, previous>>
    BY <1>2, <2>1, <2>2 DEF QueuePair!CommitTask, QueuePair!Recorded
  <2> QED
    BY <2>3 DEF TasksOfPair, QueuePair!ProofStays, QueuePair!Tasks
<1>3. \/ UNCHANGED <<task, previous>> /\ order' \in [QueuePair!Tasks -> OrderStates]
      \/ \E r \in wire : QueuePair!CommitTask(r)
      \/ \E t \in QueuePair!Tasks :
           \/ QueuePair!ReportOrderIssue(t) \/ QueuePair!ReportTaskIssue(t)
           \/ QueuePair!Resume(t) \/ QueuePair!GiveUp(t) \/ QueuePair!Arrive(t)
           \/ QueuePair!OrderMoves(t)
  <2>1. QueuePair!DeviceNext => UNCHANGED <<task, order, previous>>
    BY DEF QueuePair!DeviceNext, QueuePair!Press, QueuePair!EnqueueRead, QueuePair!EnqueueWrite,
           QueuePair!FlushStart, QueuePair!FlushSend, QueuePair!FlushWrite, QueuePair!Kill,
           QueuePair!serverVars
  <2>2. QueuePair!NetworkNext => UNCHANGED <<task, order, previous>>
    BY DEF QueuePair!NetworkNext, QueuePair!TimeOut, QueuePair!Vanish, QueuePair!serverVars
  <2>3. \A r : QueuePair!RefuseTask(r) \/ QueuePair!RefuseOrder(r)
               => UNCHANGED <<task, order, previous>>
    BY DEF QueuePair!RefuseTask, QueuePair!RefuseOrder, QueuePair!serverVars
  <2>4. \A r : QueuePair!CommitOrder(r)
               => UNCHANGED <<task, previous>> /\ order' \in [QueuePair!Tasks -> OrderStates]
    BY DEF QueuePair!CommitOrder, TasksOfPair, OrderStates
  <2>5. order \in [QueuePair!Tasks -> OrderStates] /\ UNCHANGED QueuePair!Tasks
    BY DEF TasksOfPair, QueuePair!Tasks
  <2> QED
    BY <2>1, <2>2, <2>3, <2>4, <2>5
    DEF QueuePair!OfflineNext, QueuePair!ServerNext, QueuePair!offlineVars, QueuePair!serverVars
<1> QED
  BY <1>1, <1>2, <1>3, PairOthers

LEMMA PairInit == QueuePair!OfflineInit => TasksOfPair
BY DEF QueuePair!OfflineInit, TasksOfPair, OrderStates

-----------------------------------------------------------------------------
(***************************************************************************)
(* The same of the services together, as the run explores them: each moves *)
(* only in its own steps.                                                  *)
(***************************************************************************)
LEMMA AccessOnlyMovesThere ==
  ASSUME [PlatformNext]_platformVars
  PROVE  service' = service /\ [Next]_vars /\ (service = "access alone" => [AloneNext]_vars)
<1>1. CASE AccessNext
  BY <1>1, AloneIsStep DEF AccessNext, AloneNext
<1>2. CASE UNCHANGED <<service, accessVars>>
  BY <1>2 DEF accessVars, vars
<1> QED
  BY <1>1, <1>2
  DEF PlatformNext, TransactionNext, CatalogNext, CodeNext, WebNext, QueueNext, platformVars

\* What is found in the cache is not older than the bound.
THEOREM ProfilesAreBounded == PlatformSpec => []StaleIsBounded
<1>1. PlatformInit => AccessInv
  BY AccessInit DEF PlatformInit
<1>2. AccessInv /\ [PlatformNext]_platformVars => AccessInv'
  BY AccessOnlyMovesThere, AccessStep
<1> QED
  BY <1>1, <1>2, AccessBounds, PTL DEF PlatformSpec

\* One call at a time and with Redis up, once the cache is deleted after an
\* employee is linked to the account: a request finds the employee as saved.
THEOREM ProfilesAreCurrent ==
  ASSUME Linked
  PROVE  PlatformSpec => []ProfileIsCurrent
<1> DEFINE AloneThere == service = "access alone" => AloneInv
<1>1. PlatformInit => AccessInv /\ AloneThere
  BY AccessInit, AloneInit DEF PlatformInit
<1>2. ASSUME AccessInv, AloneThere, [PlatformNext]_platformVars PROVE AccessInv' /\ AloneThere'
  <2>1. AccessInv' /\ service' = service
    BY <1>2, AccessOnlyMovesThere, AccessStep
  <2>2. CASE service = "access alone"
    <3>1. AloneInv
      BY <1>2, <2>2
    <3>2. CASE AloneNext
      BY <1>2, <2>1, <3>1, <3>2, AloneStep
    <3>3. CASE UNCHANGED vars
      BY <2>1, <3>1, <3>3 DEF AloneInv, Alone, Current, vars
    <3> QED
      BY <1>2, <2>1, <2>2, <3>2, <3>3, AccessOnlyMovesThere
  <2> QED
    BY <2>1, <2>2
<1>3. AccessInv /\ AloneThere => ProfileIsCurrent
  BY AloneIsCurrent DEF ProfileIsCurrent, AccessInv, StoresReal
<1> QED
  BY <1>1, <1>2, <1>3, PTL DEF PlatformSpec

\* Transactions that wait for one another have one that leaves the order of the
\* rows, and no two hold one row.
THEOREM DeadlocksAreAlwaysInversions == PlatformSpec => []DeadlocksAreInversions
<1>1. PlatformInit => LockIInv /\ OneHolder
  BY InitKeeps DEF PlatformInit, LockInit, OneHolder, Open
<1>2. [PlatformNext]_platformVars => [LockNext]_lockVars
  BY DEF PlatformNext, AccessNext, TransactionNext, CatalogNext, CodeNext, WebNext, QueueNext,
         platformVars
<1>3. LockIInv /\ OneHolder => DeadlocksAreInversions
  <2>1. LockIInv => LockTypeOK
    BY DEF LockIInv, LockShape, Behind, LockTypeOK, Open
  <2> QED
    BY <2>1, InvertersAlone, OrderedAlone DEF DeadlocksAreInversions
<1> QED
  BY <1>1, <1>2, <1>3, StepKeeps, StepExcludes, PTL DEF PlatformSpec

\* A catalogue moves with faults, or without.
\* The catalogue starts the same, however far apart the updates are.
LEMMA SharedIsSpacedInit == Shared!Init => Spaced!Init
BY DEF Spaced!Init, Shared!Init, Spaced!Versions, Shared!Versions, Spaced!Keys, Shared!Keys,
       Spaced!VersionKey, Shared!VersionKey, Spaced!Idle, Shared!Idle

LEMMA CatalogOnlyMovesThere ==
  ASSUME [PlatformNext]_platformVars
  PROVE  /\ service' = service
         /\ service # "spaced updates" => [Shared!Next]_(Shared!vars)
         /\ service = "spaced updates" => [Spaced!Next]_(Spaced!vars)
<1>1. CASE CatalogNext
  BY <1>1 DEF CatalogNext
<1>2. CASE UNCHANGED <<service, catalogVars>>
  BY <1>2 DEF catalogVars, Shared!vars, Spaced!vars
<1> QED
  BY <1>1, <1>2
  DEF PlatformNext, AccessNext, TransactionNext, CodeNext, WebNext, QueueNext, platformVars

\* Whatever fails, the snapshot of a version shows its update and a key is
\* computed once at a time; with updates in milliseconds of their own, it shows
\* every update up to its version.
THEOREM CatalogueIsAlwaysCurrent == PlatformSpec => []CatalogueIsCurrent
<1> DEFINE Listed == /\ service # "spaced updates" => SharedInv
                     /\ service = "spaced updates" => SpacedInv
<1>1. PlatformInit => Listed
  BY SharedInit, SpacedInit, SharedIsSpacedInit DEF PlatformInit
<1>2. Listed /\ [PlatformNext]_platformVars => Listed'
  BY CatalogOnlyMovesThere, SharedStep, SpacedStep
<1>3. Listed => CatalogueIsCurrent
  BY SharedShows, SpacedShows DEF CatalogueIsCurrent
<1> QED
  BY <1>1, <1>2, <1>3, PTL DEF PlatformSpec

LEMMA CodesOnlyMoveThere ==
  ASSUME [PlatformNext]_platformVars
  PROVE  /\ service' = service
         /\ service = "codes alone" => [Coded!Next]_(Coded!vars)
         /\ service = "codes and crashes alone" => [Interrupted!Next]_(Interrupted!vars)
<1>1. CASE CodeNext
  BY <1>1 DEF CodeNext
<1>2. CASE UNCHANGED <<service, codeVars>>
  BY <1>2 DEF codeVars, Coded!vars, Interrupted!vars
<1> QED
  BY <1>1, <1>2
  DEF PlatformNext, AccessNext, TransactionNext, CatalogNext, WebNext, QueueNext, platformVars

\* One call at a time: the last code works, and a session keeps its time.
THEOREM LastCodesAlwaysWork == PlatformSpec => []LastCodeWorks
<1> DEFINE Sent == /\ service = "codes alone" => CodedInv
                   /\ service = "codes and crashes alone" => CodesInv
<1>1. PlatformInit => Sent
  <2>1. Coded!Init => Interrupted!Init
    BY DEF Coded!Init, Coded!Idle, Coded!Sessions, Interrupted!Init, Interrupted!Idle,
           Interrupted!Sessions
  <2> QED
    BY <2>1, CodedInit, CodesInit DEF PlatformInit
<1>2. Sent /\ [PlatformNext]_platformVars => Sent'
  BY CodesOnlyMoveThere, CodedStep, CodesStep
<1>3. Sent => LastCodeWorks
  BY CodedShows DEF LastCodeWorks, CodesInv
<1> QED
  BY <1>1, <1>2, <1>3, PTL DEF PlatformSpec

LEMMA PagesOnlyMoveThere ==
  ASSUME [PlatformNext]_platformVars
  PROVE  /\ service' = service
         /\ service = "browser" => [Web!Next]_(Web!vars)
         /\ service = "browser and faults" => [WebFaults!Next]_(WebFaults!vars)
<1>1. CASE WebNext
  BY <1>1 DEF WebNext
<1>2. CASE UNCHANGED <<service, webVars>>
  BY <1>2 DEF webVars, Web!vars, WebFaults!vars
<1> QED
  BY <1>1, <1>2
  DEF PlatformNext, AccessNext, TransactionNext, CatalogNext, CodeNext, QueueNext, platformVars

\* Whatever fails, the page does not act as another than it shows; while nothing
\* does, it shows whose token it sends and agrees with its cookie and Keycloak.
THEOREM PagesAreTheirSessions == PlatformSpec => []PageIsItsSession
<1> DEFINE Shown == /\ service = "browser" => SessionInv /\ ProfileFits
                    /\ service = "browser and faults" => PageInv
<1>1. PlatformInit => Shown
  <2>1. SessionInv => PageInv
    BY DEF SessionInv
  <2> QED
    BY <2>1, SessionInit, ProfileInit DEF PlatformInit
<1>2. Shown /\ [PlatformNext]_platformVars => Shown'
  BY PagesOnlyMoveThere, SessionStep, ProfileStep, PageStep
<1>3. Shown => PageIsItsSession
  BY SessionShows, PageShows DEF PageIsItsSession
<1> QED
  BY <1>1, <1>2, <1>3, PTL DEF PlatformSpec

LEMMA QueuesOnlyMoveThere ==
  ASSUME [PlatformNext]_platformVars
  PROVE  /\ service' = service
         /\ service = "one proof" => [Queue!OfflineNext]_(Queue!offlineVars)
         /\ service = "two proofs" => [QueuePair!OfflineNext]_(QueuePair!offlineVars)
<1>1. CASE QueueNext
  BY <1>1 DEF QueueNext
<1>2. CASE UNCHANGED <<service, queueVars>>
  BY <1>2
  DEF queueVars, Queue!offlineVars, Queue!deviceVars, Queue!serverVars,
      QueuePair!offlineVars, QueuePair!deviceVars, QueuePair!serverVars
<1> QED
  BY <1>1, <1>2
  DEF PlatformNext, AccessNext, TransactionNext, CatalogNext, CodeNext, WebNext, platformVars

\* What is stored stays until the API has it.
THEOREM ProofsAlwaysArrive == PlatformSpec => []ProofsArrive
<1> DEFINE Held == service = "one proof" => QueueInv
<1>1. PlatformInit => Held
  BY QueueInit DEF PlatformInit
<1>2. Held /\ [PlatformNext]_platformVars => Held'
  BY QueuesOnlyMoveThere, QueueStep
<1>3. Held => ProofsArrive
  BY QueueShows DEF ProofsArrive
<1> QED
  BY <1>1, <1>2, <1>3, PTL DEF PlatformSpec

\* A recorded recipient is replaced, in any step, only after an incident of the
\* order.
THEOREM ProofsAlwaysStay == PlatformSpec => ProofStays
<1> DEFINE Paired == service = "two proofs" => TasksOfPair
<1>1. PlatformInit => Paired
  BY PairInit DEF PlatformInit
<1>2. Paired /\ [PlatformNext]_platformVars
        => Paired' /\ (service = "two proofs" => QueuePair!ProofStays)
  BY QueuesOnlyMoveThere, PairStep
<1> QED
  BY <1>1, <1>2, PTL DEF PlatformSpec, ProofStays
=============================================================================
