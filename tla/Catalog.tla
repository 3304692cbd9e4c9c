------------------------------ MODULE Catalog -------------------------------
(***************************************************************************)
(* The catalogue of products: its version in Redis, the snapshot that is   *)
(* cached for each version, and the single flight that lets the requests   *)
(* of the process share one computation.  A version is the updated_at of   *)
(* an update, in milliseconds; a catalogue is the set of the updates it    *)
(* shows, the first of which stands for the products it started with.      *)
(***************************************************************************)
EXTENDS Naturals, FiniteSets, FiniteSetsExt

CONSTANTS
  Readers,     \* the requests in progress at once
  Updaters,    \* the updates of products in progress at once
  Null,
  MaxUpdates,  \* bound of the updates
  SameTime,    \* whether two updates may start in one millisecond
  MayFail      \* whether Redis may be down, lose an entry, a query fail, or
               \* the process stop

CatalogAssumption ==
  /\ MaxUpdates \in Nat /\ {SameTime, MayFail} \subseteq BOOLEAN
  /\ Readers \intersect Updaters = {}
  /\ Null \notin Readers \union 0..MaxUpdates

VARIABLES
  clock,      \* the last updated_at that was given
  made,       \* the number of updates
  stored,     \* the updates that are committed: each its number and updated_at
  version,    \* CATALOG_VERSION_KEY in Redis
  snapshot,   \* the snapshot in Redis of each version
  flight,     \* inFlight: the call that computes each key
  call

vars == <<clock, made, stored, version, snapshot, flight, call>>
redisVars == <<version, snapshot>>
updateVars == <<clock, made, stored>>

Versions == 0..MaxUpdates
VersionKey == MaxUpdates + 1
Keys == Versions \union {VersionKey}

Updates == Versions \X Versions

Idle == [at |-> "idle", version |-> Null, update |-> Null, shown |-> {}]

Redis(ok) == ok \/ MayFail

Becomes(p, c) == call' = [call EXCEPT ![p] = c]

----------------------------------------------------------------------------
\* Mutant of Update: the version is published before the save.
UpdateAfterPublish(p) ==
  /\ call[p] = Idle
  /\ made < MaxUpdates
  /\ made' = made + 1
  /\ clock' = clock + 1
  /\ version' = clock'
  /\ Becomes(p, [Idle EXCEPT !.at = "commit", !.update = <<made + 1, clock'>>])
  /\ UNCHANGED <<stored, snapshot, flight>>

\* An update of a product takes its updated_at when its transaction starts ...
Update(p) ==
  /\ call[p] = Idle
  /\ made < MaxUpdates
  /\ made' = made + 1
  /\ clock' \in {clock + 1} \union (IF SameTime /\ clock > 0 THEN {clock} ELSE {})
  /\ Becomes(p, [Idle EXCEPT !.at = "commit", !.update = <<made + 1, clock'>>])
  /\ UNCHANGED <<stored, redisVars, flight>>

Commit(p) ==
  /\ call[p].at = "commit"
  /\ stored' = stored \union {call[p].update}
  /\ Becomes(p, [call[p] EXCEPT !.at = "publish"])
  /\ UNCHANGED <<clock, made, redisVars, flight>>

\* An update, or a removal, that changes no column: the product keeps the
\* updated_at of its last update, which is published again.
UpdateNothing(p) ==
  /\ call[p] = Idle
  /\ \E u \in stored : Becomes(p, [Idle EXCEPT !.at = "publish", !.update = u])
  /\ UNCHANGED <<updateVars, redisVars, flight>>

\* ... and publishes it as the version after it was saved.
Publish(p, ok) ==
  /\ call[p].at = "publish"
  /\ Redis(ok)
  /\ version' = IF ok THEN call[p].update[2] ELSE version
  /\ Becomes(p, Idle)
  /\ UNCHANGED <<clock, made, stored, snapshot, flight>>

----------------------------------------------------------------------------
\* singleFlight: the first call computes the key, the others wait for it.
Flies(p, key, c, at) ==
  IF flight[key] = Null
  THEN flight' = [flight EXCEPT ![key] = p] /\ Becomes(p, [c EXCEPT !.at = at])
  ELSE Becomes(p, [c EXCEPT !.at = "wait"]) /\ UNCHANGED flight

Waiting(p, key) ==
  /\ call[p].at = "wait"
  /\ IF key = VersionKey THEN call[p].version = Null ELSE call[p].version = key

\* The computation of key by p ends: p and those that wait for it go on.
Lands(p, key, at, v, shown) ==
  /\ flight' = [flight EXCEPT ![key] = Null]
  /\ call' = [q \in DOMAIN call |->
       IF q = p \/ Waiting(q, key)
       THEN [call[q] EXCEPT !.at = at, !.version = v, !.shown = shown]
       ELSE call[q]]

\* getCatalogSnapshot begins.
Request(p) ==
  /\ call[p] = Idle
  /\ Becomes(p, [Idle EXCEPT !.at = "version"])
  /\ UNCHANGED <<updateVars, redisVars, flight>>

ReadVersion(p, ok) ==
  /\ call[p].at = "version"
  /\ Redis(ok)
  /\ IF ok /\ version # Null
     THEN /\ Becomes(p, [call[p] EXCEPT !.at = "snapshot", !.version = version])
          /\ UNCHANGED flight
     ELSE Flies(p, VersionKey, call[p], "max")
  /\ UNCHANGED <<updateVars, redisVars>>

\* MAX(updatedAt) of the products.
ComputeVersion(p) ==
  /\ call[p].at = "max"
  /\ Becomes(p, [call[p] EXCEPT !.at = "writeVersion", !.version = Max({u[2] : u \in stored} \union {0})])
  /\ UNCHANGED <<updateVars, redisVars, flight>>

WriteVersion(p, ok) ==
  /\ call[p].at = "writeVersion"
  /\ Redis(ok)
  /\ version' = IF ok THEN call[p].version ELSE version
  /\ Lands(p, VersionKey, "snapshot", call[p].version, {})
  /\ UNCHANGED <<updateVars, snapshot>>

ReadSnapshot(p, ok) ==
  /\ call[p].at = "snapshot"
  /\ Redis(ok)
  /\ IF ok /\ snapshot[call[p].version] # Null
     THEN /\ Becomes(p, [call[p] EXCEPT !.at = "answer",
                                        !.shown = snapshot[call[p].version]])
          /\ UNCHANGED flight
     ELSE Flies(p, call[p].version, call[p], "findAll")
  /\ UNCHANGED <<updateVars, redisVars>>

FindAll(p) ==
  /\ call[p].at = "findAll"
  /\ Becomes(p, [call[p] EXCEPT !.at = "writeSnapshot", !.shown = stored])
  /\ UNCHANGED <<updateVars, redisVars, flight>>

WriteSnapshot(p, ok) ==
  /\ call[p].at = "writeSnapshot"
  /\ Redis(ok)
  /\ snapshot' = IF ok THEN [snapshot EXCEPT ![call[p].version] = call[p].shown]
                 ELSE snapshot
  /\ Lands(p, call[p].version, "answer", call[p].version, call[p].shown)
  /\ UNCHANGED <<updateVars, version>>

\* The query of a computation fails: the error is the answer to all that
\* share it.
FailQuery(p) ==
  /\ MayFail
  /\ call[p].at \in {"max", "findAll"}
  /\ LET key == IF call[p].at = "max" THEN VersionKey ELSE call[p].version IN
     /\ flight' = [flight EXCEPT ![key] = Null]
     /\ call' = [q \in DOMAIN call |-> IF q = p \/ Waiting(q, key) THEN Idle ELSE call[q]]
  /\ UNCHANGED <<updateVars, redisVars>>

Answer(p) ==
  /\ call[p].at = "answer"
  /\ Becomes(p, Idle)
  /\ UNCHANGED <<updateVars, redisVars, flight>>

----------------------------------------------------------------------------
\* An entry expires or is evicted.
Expire ==
  /\ \/ version' = Null /\ UNCHANGED snapshot
     \/ /\ \E v \in Versions : snapshot' = [snapshot EXCEPT ![v] = Null]
        /\ UNCHANGED version
  /\ UNCHANGED <<updateVars, flight, call>>

\* The process stops, with its calls and its map of flights.
Restart ==
  /\ flight' = [key \in Keys |-> Null]
  /\ call' = [p \in DOMAIN call |-> Idle]
  /\ UNCHANGED <<updateVars, redisVars>>

Init ==
  /\ clock = 0
  /\ made = 0
  /\ stored = {<<0, 0>>}
  /\ version = 0
  /\ snapshot = [v \in Versions |-> Null]
  /\ flight = [key \in Keys |-> Null]
  /\ call = [p \in Readers \union Updaters |-> Idle]

Next ==
  \/ \E p \in Updaters :
       Update(p) \/ UpdateNothing(p) \/ Commit(p) \/ \E ok \in BOOLEAN : Publish(p, ok)
  \/ \E p \in Readers :
       \/ Request(p) \/ ComputeVersion(p) \/ FindAll(p) \/ FailQuery(p) \/ Answer(p)
       \/ \E ok \in BOOLEAN :
            ReadVersion(p, ok) \/ WriteVersion(p, ok) \/ ReadSnapshot(p, ok) \/ WriteSnapshot(p, ok)
  \/ MayFail /\ (Expire \/ Restart)

\* A call of the process goes on, and an answer to it is sent.
Fairness ==
  \A p \in Readers :
    WF_vars(/\ ComputeVersion(p) \/ FindAll(p) \/ Answer(p)
               \/ \E ok \in BOOLEAN : ReadVersion(p, ok) \/ WriteVersion(p, ok)
                                      \/ ReadSnapshot(p, ok) \/ WriteSnapshot(p, ok))

Spec == Init /\ [][Next]_vars
FairSpec == Spec /\ Fairness

----------------------------------------------------------------------------
CallRecords ==
  [at : {"idle", "commit", "publish", "version", "max", "writeVersion", "snapshot",
         "findAll", "writeSnapshot", "answer", "wait"},
   version : Versions \union {Null}, update : Updates \union {Null},
   shown : SUBSET Updates]

CatalogTypeOK ==
  /\ clock \in 0..made /\ made \in 0..MaxUpdates
  /\ stored \subseteq Updates
  /\ version \in Versions \union {Null}
  /\ \A v \in Versions : snapshot[v] = Null \/ snapshot[v] \subseteq stored
  /\ flight \in [Keys -> Readers \union {Null}]
  /\ \A p \in Readers \union Updaters : call[p] \in CallRecords

\* Whatever fails, expires or is restarted: the snapshot of a version shows the
\* update whose version it is, for a version is published after its update.
SnapshotShowsItsVersion ==
  \A v \in Versions \ {0} : snapshot[v] # Null => \E u \in snapshot[v] : u[2] = v

\* The requests of the process compute a key once at a time.
Computing(key) ==
  IF key = VersionKey THEN {p \in Readers : call[p].at \in {"max", "writeVersion"}}
  ELSE {p \in Readers : call[p].at \in {"findAll", "writeSnapshot"} /\ call[p].version = key}

OneFlight == \A key \in Keys : Cardinality(Computing(key)) <= 1

\* A catalogue of version v that misses no update up to that version.
Whole(v, shown) == {u \in stored : u[2] <= v} \subseteq shown

\* With updates one after the other, each in a millisecond of its own, what is
\* stored and answered for a version shows every update up to it, whatever
\* fails or is published again: an answer that misses an update has an older
\* version, by which the caller can tell.
VersionIsWhole ==
  /\ \A v \in Versions : snapshot[v] # Null => Whole(v, snapshot[v])
  /\ \A p \in Readers : call[p].at = "answer" => Whole(call[p].version, call[p].shown)

\* As a step: the version in Redis is never replaced by an older one, with
\* which an older catalogue would be answered again.
\* The code does not keep this (README, section 5).
VersionsRise == Null \notin {version, version'} => version <= version'

\* Nobody waits for a flight that has ended: every request is answered, unless
\* the process stops.
RequestsEnd == \A p \in Readers : call[p] # Idle ~> call[p] = Idle

=============================================================================
