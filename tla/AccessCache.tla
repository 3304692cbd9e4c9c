---------------------------- MODULE AccessCache -----------------------------
(***************************************************************************)
(* The access profile of one employee, as requests resolve it: from the    *)
(* entry of the cache in Redis, or from the employee and the roles in the  *)
(* database.  A profile is the number of changes made before it was read.  *)
(* An administrator who tests a role gets the profile of that role         *)
(* instead.  Redis may be down for any command.                            *)
(***************************************************************************)
EXTENDS Naturals

CONSTANTS
  Calls,       \* requests and mutations in progress at once
  Null,
  Roles,       \* the roles an administrator may test
  TTL,         \* TTL_SECONDS of an entry
  MaxDelay,    \* the longest time a request takes to resolve a profile
  MaxTime,     \* bound of the clock
  MaxChanges,  \* bound of the changes to the employee or to a role
  Linked,      \* whether the employee has a keycloakId
  MayFail      \* whether Redis may be down

ASSUME AccessAssumption ==
  /\ TTL \in Nat /\ MaxDelay \in Nat /\ MaxTime \in Nat /\ MaxChanges \in Nat
  /\ Linked \in BOOLEAN /\ MayFail \in BOOLEAN

VARIABLES
  now,
  profile,    \* the changes stored in the database
  replaced,   \* when each older profile was replaced
  cache,      \* the entry in Redis
  test,       \* the role in Redis that the employee tests
  call        \* each request or mutation

vars == <<now, profile, replaced, cache, test, call>>

Idle == [at |-> "idle", since |-> 0, profile |-> 0, role |-> Null]

Started(at) == [at |-> at, since |-> now, profile |-> 0, role |-> Null]

----------------------------------------------------------------------------
\* A command of Redis succeeds, or fails where it may.
Redis(ok) == ok \/ MayFail

Hit == cache # Null /\ now < cache.until

Becomes(p, c) == call' = [call EXCEPT ![p] = c]

Begin(p) ==
  /\ call[p] = Idle
  /\ Becomes(p, Started("get"))
  /\ UNCHANGED <<now, profile, replaced, cache, test>>

\* Mutant of Get: a hit renews the entry.
GetAndRenew(p, ok) ==
  /\ call[p].at = "get"
  /\ Redis(ok)
  /\ IF ok /\ Hit
     THEN /\ Becomes(p, [call[p] EXCEPT !.at = "hit", !.profile = cache.profile])
          /\ cache' = [cache EXCEPT !.until = now + TTL]
     ELSE Becomes(p, [call[p] EXCEPT !.at = "employee"]) /\ UNCHANGED cache
  /\ UNCHANGED <<now, profile, replaced, test>>

\* AccessCacheService.get: a failure is a miss.
Get(p, ok) ==
  /\ call[p].at = "get"
  /\ Redis(ok)
  /\ Becomes(p, IF ok /\ Hit
                THEN [call[p] EXCEPT !.at = "hit", !.profile = cache.profile]
                ELSE [call[p] EXCEPT !.at = "employee"])
  /\ UNCHANGED <<now, profile, replaced, cache, test>>

\* After a hit: a tested role needs the employee.
TestOfHit(p, ok) ==
  /\ call[p].at = "hit"
  /\ Redis(ok)
  /\ Becomes(p, [call[p] EXCEPT !.at = IF ok /\ test # Null THEN "employee" ELSE "answer"])
  /\ UNCHANGED <<now, profile, replaced, cache, test>>

\* The employee is read first, then the roles: the profile is at least as old
\* as the first read.
ReadEmployee(p) ==
  /\ call[p].at = "employee"
  /\ Becomes(p, [call[p] EXCEPT !.at = "test", !.profile = profile])
  /\ UNCHANGED <<now, profile, replaced, cache, test>>

TestOfMiss(p, ok) ==
  /\ call[p].at = "test"
  /\ Redis(ok)
  /\ Becomes(p, IF ok /\ test # Null
                THEN [call[p] EXCEPT !.at = "answer", !.role = test]
                ELSE [call[p] EXCEPT !.at = "set"])
  /\ UNCHANGED <<now, profile, replaced, cache, test>>

Set(p, ok) ==
  /\ call[p].at = "set"
  /\ Redis(ok)
  /\ cache' = IF ok
              THEN [profile |-> call[p].profile, role |-> call[p].role,
                    until |-> now + TTL]
              ELSE cache
  /\ Becomes(p, [call[p] EXCEPT !.at = "answer"])
  /\ UNCHANGED <<now, profile, replaced, test>>

\* The request goes on with the profile it was given.
Answer(p) ==
  /\ call[p].at = "answer"
  /\ Becomes(p, Idle)
  /\ UNCHANGED <<now, profile, replaced, cache, test>>

----------------------------------------------------------------------------
\* A change of what the profile is resolved from.
Changes ==
  /\ profile < MaxChanges
  /\ profile' = profile + 1
  /\ replaced' = [replaced EXCEPT ![profile] = now]

\* Mutant of ChangeEmployee: nothing is invalidated after the save.
ChangeEmployeeOnly(p) ==
  /\ call[p] = Idle
  /\ Changes
  /\ UNCHANGED <<now, cache, test, call>>

\* The employee is saved ...
ChangeEmployee(p) ==
  /\ call[p] = Idle
  /\ Changes
  /\ Becomes(p, Started("invalidate"))
  /\ UNCHANGED <<now, cache, test>>

\* ... and the entry of its keycloakId deleted; a failure is logged.
Invalidate(p, ok) ==
  /\ call[p].at = "invalidate"
  /\ Redis(ok)
  /\ cache' = IF ok /\ Linked THEN Null ELSE cache
  /\ Becomes(p, Idle)
  /\ UNCHANGED <<now, profile, replaced, test>>

\* RolesService.update changes the profile of every holder of the role.
ChangeRole == Changes /\ UNCHANGED <<now, cache, test, call>>

StartTest(p, role) ==
  /\ call[p] = Idle
  /\ test' = role
  /\ UNCHANGED <<now, profile, replaced, cache, call>>

\* Stopped, or expired in Redis.
StopTest == test' = Null /\ UNCHANGED <<now, profile, replaced, cache, call>>

\* The process stops.
Crash(p) ==
  /\ call[p] # Idle
  /\ Becomes(p, Idle)
  /\ UNCHANGED <<now, profile, replaced, cache, test>>

Tick ==
  /\ now < MaxTime
  /\ \A p \in Calls : call[p] # Idle => now < call[p].since + MaxDelay
  /\ now' = now + 1
  /\ UNCHANGED <<profile, replaced, cache, test, call>>

----------------------------------------------------------------------------
Init ==
  /\ now = 0
  /\ profile = 0
  /\ replaced = [v \in 0..MaxChanges |-> 0]
  /\ cache = Null
  /\ test = Null
  /\ call = [p \in Calls |-> Idle]

RequestNext(p) ==
  \/ Begin(p) \/ ReadEmployee(p) \/ Answer(p)
  \/ \E ok \in BOOLEAN : Get(p, ok) \/ TestOfHit(p, ok) \/ TestOfMiss(p, ok) \/ Set(p, ok)

\* Without the changes of roles, which nothing invalidates, and without crashes.
EmployeeNext ==
  \/ Tick \/ StopTest
  \/ \E p \in Calls :
       \/ RequestNext(p) \/ ChangeEmployee(p)
       \/ \E role \in Roles : StartTest(p, role)
       \/ \E ok \in BOOLEAN : Invalidate(p, ok)

EmployeeSpec == Init /\ [][EmployeeNext]_vars

Next == EmployeeNext \/ ChangeRole \/ \E p \in Calls : Crash(p)

Spec == Init /\ [][Next]_vars

----------------------------------------------------------------------------
Entries == [profile : 0..MaxChanges, role : Roles \union {Null}, until : Nat]

CallRecords ==
  [at : {"idle", "get", "hit", "employee", "test", "set", "answer", "invalidate"},
   since : 0..MaxTime, profile : 0..MaxChanges, role : Roles \union {Null}]

AccessTypeOK ==
  /\ now \in 0..MaxTime
  /\ profile \in 0..MaxChanges
  /\ replaced \in [0..MaxChanges -> 0..MaxTime]
  /\ cache # Null => cache \in Entries /\ cache.profile <= profile /\ cache.until <= now + TTL
  /\ test \in Roles \union {Null}
  /\ call \in [Calls -> CallRecords]
  /\ \A p \in Calls : call[p].since <= now /\ call[p].profile <= profile

StaleFor(limit) ==
  Hit /\ cache.profile < profile => now < replaced[cache.profile] + limit

\* Whatever fails, crashes or is not invalidated, and however requests race with
\* changes, a profile is found in the cache no longer than the TTL after it was
\* replaced, and the time a request may take.
StaleIsBounded == StaleFor(TTL + MaxDelay)

\* The TTL bounds the worst case.
\* The code does not keep this (README, section 5).
StaleWithinTTL == StaleFor(TTL)

\* The profile of a tested role is never in the cache.
CacheIsReal == cache # Null => cache.role = Null

\* The employee as it is saved, and the role that is tested, are what a request
\* finds: for one call at a time, with Redis up.
AnswerIsCurrent ==
  \A p \in Calls : call[p].at = "answer" =>
    /\ test # Null => call[p].role = test
    /\ call[p].role = Null => call[p].profile = profile

=============================================================================
