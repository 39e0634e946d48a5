----------------------------- MODULE MCServices -----------------------------
(* The services around the wallet: purchases, payments out of Talyvor,     *)
(* node collateral, held royalties, leadership, the node fleet, and the    *)
(* row locks of the money transactions.  They share no state, so a         *)
(* behaviour runs one of them.                                             *)
EXTENDS TopUps, OutsidePayments, NodeStakes, HeldMints, LeaderElection,
        ControlPlane, LockOrder, TLC

VARIABLE focus  \* the component that runs

servicesVars == <<topUpVars, outsideVars, stakeVars, heldVars, leaderVars,
                  fleetVars, lockVars, focus>>

Focuses == {"topups", "outside", "stakes", "mints", "leader", "fleet",
            "locks"}

Runs(part) == focus = part

-----------------------------------------------------------------------------
\* One international payment.
MCSends == [k \in PayKeys |-> 2]

MCFee == [k \in PayKeys |-> 1]

MCServedBy == [r \in Receipts |-> "n1"]

MCRequester == [m \in Mints |-> "q1"]

\* Two agents of two workspaces whose ids are in the other order.
MCWorkspaceOf == [a \in LockAgents |-> 3 - a]

-----------------------------------------------------------------------------
\* A component that does not run is at its first state.
ServicesInit ==
  /\ focus \in Focuses
  /\ TopUpsInit /\ OutsideInit /\ StakeInit
  /\ HeldInit /\ (~Runs("mints") => ~armed /\ ~bonded)
  /\ LeaderInit /\ FleetInit /\ LockInit

ServicesNext ==
  \/ /\ Runs("topups") /\ TopUpsNext
     /\ UNCHANGED <<outsideVars, stakeVars, heldVars, leaderVars, fleetVars,
                    lockVars, focus>>
  \/ /\ Runs("outside") /\ OutsideNext
     /\ UNCHANGED <<topUpVars, stakeVars, heldVars, leaderVars, fleetVars,
                    lockVars, focus>>
  \/ /\ Runs("stakes") /\ StakeNext
     /\ UNCHANGED <<topUpVars, outsideVars, heldVars, leaderVars, fleetVars,
                    lockVars, focus>>
  \/ /\ Runs("mints") /\ HeldNext
     /\ UNCHANGED <<topUpVars, outsideVars, stakeVars, leaderVars, fleetVars,
                    lockVars, focus>>
  \/ /\ Runs("leader") /\ LeaderNext
     /\ UNCHANGED <<topUpVars, outsideVars, stakeVars, heldVars, fleetVars,
                    lockVars, focus>>
  \/ /\ Runs("fleet") /\ FleetNext
     /\ UNCHANGED <<topUpVars, outsideVars, stakeVars, heldVars, leaderVars,
                    lockVars, focus>>
  \/ /\ Runs("locks") /\ LockNext
     /\ UNCHANGED <<topUpVars, outsideVars, stakeVars, heldVars, leaderVars,
                    fleetVars, focus>>

\* Servers are started again, retry, notice at the next renewal that they lost
\* the key, and a cancelled job returns; Redis expires keys.
Carries(s) == Acquire(s) \/ LosesKey(s) \/ Drained(s) \/ Restart(s)

LeaderFairness ==
  /\ \A s \in Servers : WF_leaderVars(Runs("leader") /\ Carries(s))
  /\ WF_leaderVars(Runs("leader") /\ Expire)

\* Time passes; some server leads and reconciles, and reaches Redis again and
\* again; a syncer's period is half a snapshot's life, so it meets one.
FleetFairness ==
  /\ WF_fleetVars(Runs("fleet") /\ PeriodPasses)
  /\ WF_fleetVars(Runs("fleet") /\ \E r \in Reconcilers : BuildSnapshot(r))
  /\ SF_fleetVars(Runs("fleet") /\ \E r \in Reconcilers : Publish(r))
  /\ \A i \in Routers : SF_fleetVars(Runs("fleet") /\ Sync(i))

\* The fairness of TopUps asks nothing at its first state.
ServicesSpec ==
  /\ ServicesInit /\ [][ServicesNext]_servicesVars
  /\ TopUpsFairness /\ LeaderFairness /\ FleetFairness

\* Where the job runs at all, some server leads it again and again, with the
\* key, whatever crashes, pauses, shutdowns and Redis errors happen (ha.Leader).
JobKeepsALeader == Runs("leader") => JobFailsOver
=============================================================================
