---------------------------- MODULE ControlPlane ----------------------------
(***************************************************************************)
(* The node fleet: heartbeats in Postgres and Redis, the reconciler that   *)
(* marks silent nodes inactive and publishes a snapshot, and the syncer of *)
(* every server that makes its router follow it (internal/controlplane).   *)
(* Two reconcilers overlap while leadership passes on, and one may publish *)
(* a snapshot it built before the other's.  Ages are in heartbeat periods  *)
(* and stop one past StaleThreshold.                                       *)
(***************************************************************************)
EXTENDS Integers, FiniteSets

CONSTANTS Fleet, Routers, Reconcilers,
          StaleThreshold,
          Static,        \* endpoints of the configuration, without a workspace
          NoSnapshot,
          MaxReturns     \* how often a dead node comes back

ASSUME FleetAssumption ==
  /\ StaleThreshold \in Nat \ {0} /\ MaxReturns \in Nat
  /\ Static \cap Fleet = {}

VARIABLES
  up,         \* nodes that send heartbeats
  returns,
  pgAge,      \* since inference_nodes.last_seen_at
  hbAge,      \* since the heartbeat in Redis, absent when too old
  active,     \* inference_nodes.active
  built,      \* the snapshot each reconciler has built and not published
  snapshot,   \* the key in Redis
  routes      \* each server's endpoints

fleetVars == <<up, returns, pgAge, hbAge, active, built, snapshot, routes>>

TooOld == StaleThreshold + 1

FleetInit ==
  /\ up = Fleet /\ returns = 0
  /\ pgAge = [n \in Fleet |-> 0] /\ hbAge = [n \in Fleet |-> 0]
  /\ active = Fleet
  /\ built = [r \in Reconcilers |-> NoSnapshot]
  /\ snapshot = NoSnapshot
  /\ routes = [i \in Routers |-> Static]

\* The handler writes Postgres; the Redis write may fail and is ignored.
Heartbeat(n) ==
  /\ n \in up
  /\ pgAge' = [pgAge EXCEPT ![n] = 0]
  /\ \E age \in {0, hbAge[n]} : hbAge' = [hbAge EXCEPT ![n] = age]
  /\ UNCHANGED <<up, returns, active, built, snapshot, routes>>

Older(ages) == [n \in Fleet |-> IF ages[n] < TooOld THEN ages[n] + 1 ELSE TooOld]

PeriodPasses ==
  /\ pgAge' = Older(pgAge) /\ hbAge' = Older(hbAge)
  /\ UNCHANGED <<up, returns, active, built, snapshot, routes>>

NodeDies(n) ==
  /\ n \in up
  /\ up' = up \ {n}
  /\ UNCHANGED <<returns, pgAge, hbAge, active, built, snapshot, routes>>

NodeReturns(n) ==
  /\ n \notin up /\ returns < MaxReturns
  /\ up' = up \cup {n}
  /\ returns' = returns + 1
  /\ UNCHANGED <<pgAge, hbAge, active, built, snapshot, routes>>

\* MarkStaleInactive; on an error the tick goes on to the snapshot.
MarkStale == {n \in active : pgAge[n] > StaleThreshold}

\* isLive: a fresh Redis heartbeat, or else a fresh row.
IsLive(n) == hbAge[n] < StaleThreshold \/ pgAge[n] < StaleThreshold

BuildSnapshot(r) ==
  /\ built[r] = NoSnapshot
  /\ \E stale \in {{}, MarkStale} :
       /\ active' = active \ stale
       /\ built' = [built EXCEPT ![r] = {n \in active \ stale : IsLive(n)}]
  /\ UNCHANGED <<up, returns, pgAge, hbAge, snapshot, routes>>

Publish(r) ==
  /\ built[r] # NoSnapshot
  /\ snapshot' = built[r]
  /\ built' = [built EXCEPT ![r] = NoSnapshot]
  /\ UNCHANGED <<up, returns, pgAge, hbAge, active, routes>>

\* A reconciler that cannot write, or stops, drops what it built.
PublishFails(r) ==
  /\ built[r] # NoSnapshot
  /\ built' = [built EXCEPT ![r] = NoSnapshot]
  /\ UNCHANGED <<up, returns, pgAge, hbAge, active, snapshot, routes>>

\* Two intervals without a reconcile.
SnapshotExpires ==
  /\ snapshot # NoSnapshot
  /\ snapshot' = NoSnapshot
  /\ UNCHANGED <<up, returns, pgAge, hbAge, active, built, routes>>

\* Mutant: a sync that registers the live nodes and removes none.
SyncedAdding(old) == old \cup snapshot

\* Register what the snapshot has; remove what it has not and is no static
\* endpoint.
Synced(old) == snapshot \cup (old \cap Static)

Sync(i) ==
  /\ snapshot # NoSnapshot
  /\ routes' = [routes EXCEPT ![i] = Synced(@)]
  /\ UNCHANGED <<up, returns, pgAge, hbAge, active, built, snapshot>>

FleetNext ==
  \/ \E n \in Fleet : Heartbeat(n) \/ NodeDies(n) \/ NodeReturns(n)
  \/ PeriodPasses \/ SnapshotExpires
  \/ \E r \in Reconcilers : BuildSnapshot(r) \/ Publish(r) \/ PublishFails(r)
  \/ \E i \in Routers : Sync(i)

FleetSpec == FleetInit /\ [][FleetNext]_fleetVars

-----------------------------------------------------------------------------
\* Sets are of their types and the configured endpoints are always routed.
FleetTypeOK ==
  /\ up \subseteq Fleet /\ active \subseteq Fleet
  /\ pgAge \in [Fleet -> 0..TooOld] /\ hbAge \in [Fleet -> 0..TooOld]
  /\ \A i \in Routers : Static \subseteq routes[i] /\ routes[i] \subseteq Static \cup Fleet

\* A node that stays silent leaves every server's router for good, however
\* leaders overlap and snapshots expire (reconcile, Sync).
SilentNodesLeave ==
  \A n \in Fleet, i \in Routers :
    (<>[](n \notin up)) => <>[](n \notin routes[i])
=============================================================================
