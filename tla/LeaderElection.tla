--------------------------- MODULE LeaderElection ---------------------------
(***************************************************************************)
(* ha.Leader: one Redis key with a time to live elects the server that     *)
(* runs a background job (finalize sweeps, cash-outs, the reconciler).     *)
(* Servers renew the key at a third of its life, may fail to reach Redis,  *)
(* pause past it, crash, restart and shut down.                            *)
(***************************************************************************)
EXTENDS Integers, FiniteSets

CONSTANTS Servers, Nobody,
          MaxTroubles   \* crashes, shutdowns, pauses and Redis errors, together

ASSUME LeaderAssumption == Nobody \notin Servers /\ MaxTroubles \in Nat

VARIABLES
  key,        \* ha:leader:<job>
  server,     \* waiting, leading, draining (fn's context is cancelled), down
  stopping,   \* servers whose own context is done
  troubles

leaderVars == <<key, server, stopping, troubles>>

LeaderInit ==
  /\ key = Nobody
  /\ server = [s \in Servers |-> "waiting"]
  /\ stopping = {}
  /\ troubles = 0

Trouble == troubles < MaxTroubles /\ troubles' = troubles + 1

\* SetNX.
Acquire(s) ==
  /\ server[s] = "waiting" /\ key = Nobody
  /\ key' = s
  /\ server' = [server EXCEPT ![s] = "leading"]
  /\ UNCHANGED <<stopping, troubles>>

\* SetNX took, and its answer was lost: the server does not lead, and waits
\* for its own key to expire.
AcquireLost(s) ==
  /\ Trouble
  /\ server[s] = "waiting" /\ key = Nobody
  /\ key' = s
  /\ UNCHANGED <<server, stopping>>

\* releaseLua deletes the key only if this server still holds it; one that
\* fails leaves the key to expire.
ReleaseKey(s) == key' \in {key, IF key = s THEN Nobody ELSE key}

\* The job returned by itself.
JobEnds(s) ==
  /\ server[s] = "leading"
  /\ ReleaseKey(s)
  /\ server' = [server EXCEPT ![s] = "waiting"]
  /\ UNCHANGED <<stopping, troubles>>

\* renewLua finds the key gone or another's: cancel the job and wait for it.
LosesKey(s) ==
  /\ server[s] = "leading" /\ key # s
  /\ server' = [server EXCEPT ![s] = "draining"]
  /\ UNCHANGED <<key, stopping, troubles>>

\* A renewal that cannot reach Redis is taken as a lost key.
RenewError(s) ==
  /\ Trouble
  /\ server[s] = "leading"
  /\ server' = [server EXCEPT ![s] = "draining"]
  /\ UNCHANGED <<key, stopping>>

Drained(s) ==
  /\ server[s] = "draining"
  /\ server' = [server EXCEPT ![s] = IF s \in stopping THEN "down" ELSE "waiting"]
  /\ UNCHANGED <<key, stopping, troubles>>

\* ctx.Done: the key is released first, the job awaited after.
ShutDown(s) ==
  /\ Trouble
  /\ server[s] \in {"waiting", "leading"} /\ s \notin stopping
  /\ stopping' = stopping \cup {s}
  /\ IF server[s] = "leading" THEN ReleaseKey(s) ELSE UNCHANGED key
  /\ server' = [server EXCEPT ![s] = IF @ = "leading" THEN "draining" ELSE "down"]

Crash(s) ==
  /\ Trouble
  /\ server[s] # "down"
  /\ server' = [server EXCEPT ![s] = "down"]
  /\ stopping' = stopping \ {s}
  /\ UNCHANGED key

Restart(s) ==
  /\ server[s] = "down"
  /\ server' = [server EXCEPT ![s] = "waiting"]
  /\ stopping' = stopping \ {s}
  /\ UNCHANGED <<key, troubles>>

\* Mutant: a key that outlives its holder for good, set without a time to live.
NeverLapses == FALSE

\* The time to live runs out once nobody renews: the holder no longer leads.
Lapses == key # Nobody /\ server[key] # "leading"

Expire ==
  /\ Lapses
  /\ key' = Nobody
  /\ UNCHANGED <<server, stopping, troubles>>

\* A leader paused past the time to live still believes it leads.
ExpirePaused ==
  /\ Trouble
  /\ key # Nobody /\ server[key] = "leading"
  /\ key' = Nobody
  /\ UNCHANGED <<server, stopping>>

LeaderNext ==
  \/ \E s \in Servers :
       \/ Acquire(s) \/ AcquireLost(s) \/ JobEnds(s) \/ LosesKey(s) \/ RenewError(s)
       \/ Drained(s) \/ ShutDown(s) \/ Crash(s) \/ Restart(s)
  \/ Expire \/ ExpirePaused

LeaderSpec == LeaderInit /\ [][LeaderNext]_leaderVars

-----------------------------------------------------------------------------
\* Servers and key are of their types.
LeaderTypeOK ==
  /\ key \in Servers \cup {Nobody}
  /\ server \in [Servers -> {"waiting", "leading", "draining", "down"}]
  /\ stopping \subseteq Servers /\ troubles \in 0..MaxTroubles

\* The job goes on: whatever crashes, pauses and errors happen, some server
\* leads again, with the key ("if it crashes, the Redis key expires within ttl
\* and another instance takes over").
JobFailsOver == []<>(\E s \in Servers : server[s] = "leading" /\ key = s)
=============================================================================
