----------------------------- MODULE AgentPots -----------------------------
(***************************************************************************)
(* An agent's pots (internal/economy/agent_pots.go).  A move holds the     *)
(* agent's lock while it reads the pot's lock, whether its idempotency key *)
(* landed and the balance, and posts; locking the pot holds the pot's row  *)
(* and not the agent's, so it may commit between a move's reading and its  *)
(* posting.                                                                *)
(***************************************************************************)
EXTENDS Integers, FiniteSets

CONSTANTS
  Movers,     \* calls of MoveToPot and MoveFromPot
  MoveKeys,   \* their idempotency keys: a retry sends its move's key again
  NoMover,    \* the holder of the agent's lock when it is free
  LastTime,   \* the clock's bound
  PotOpening  \* the agent's main balance at first

ASSUME PotConstants ==
  NoMover \notin Movers /\ LastTime \in Nat /\ PotOpening \in Nat

VARIABLES
  clock,     \* now()
  main,      \* agent:<id>
  pot,       \* pot:<pot id>
  until,     \* agent_pots.locked_until, 0 for never
  landed,    \* <<key, kind>> pairs posted to the pot
  agentLock, \* who holds the agent's row
  mover,     \* where each call is and what it read
  history    \* how far a lock ever reached that was in force

potVars == <<clock, main, pot, until, landed, agentLock, mover, history>>

InForce == until > clock
IdleMove == [at |-> "idle", key |-> "none", kind |-> "pot_in", locked |-> FALSE]

PotInit ==
  /\ clock = 0 /\ main = PotOpening /\ pot = 0 /\ until = 0
  /\ landed = {} /\ agentLock = NoMover
  /\ mover = [m \in Movers |-> IdleMove]
  /\ history = 0

TimePasses ==
  /\ clock < LastTime /\ clock' = clock + 1
  /\ UNCHANGED <<main, pot, until, landed, agentLock, mover, history>>

\* A lock in force can only be made longer.
Longer(t) == InForce => t >= until

LockPot(t) ==
  /\ Longer(t)
  /\ until' = t
  /\ history' = IF t > clock /\ t > history THEN t ELSE history
  /\ UNCHANGED <<clock, main, pot, landed, agentLock, mover>>

\* movePot takes the agent's lock, then reads the pot's.
ReadPot(m, key, kind) ==
  /\ mover[m].at = "idle" /\ agentLock = NoMover
  /\ agentLock' = m
  /\ mover' = [mover EXCEPT ![m] = [at |-> "moving", key |-> key,
                                    kind |-> kind, locked |-> InForce]]
  /\ UNCHANGED <<clock, main, pot, until, landed, history>>

\* Mutant: the retry of a move that landed moves again.
NeverLanded(m) == FALSE

\* The key was posted to this pot: a retry, answered and not moved.
Landed(m) == <<mover[m].key, mover[m].kind>> \in landed

MovePot(m, amount) ==
  LET kind == mover[m].kind
      moved == /\ ~Landed(m)
               /\ kind = "pot_out" => ~mover[m].locked
               /\ amount <= (IF kind = "pot_in" THEN main ELSE pot)
      in == IF moved THEN (IF kind = "pot_in" THEN amount ELSE -amount) ELSE 0
  IN
  /\ mover[m].at = "moving"
  /\ main' = main - in /\ pot' = pot + in
  /\ landed' = landed \cup (IF moved THEN {<<mover[m].key, kind>>} ELSE {})
  /\ mover' = [mover EXCEPT ![m].at = "done"]
  /\ agentLock' = NoMover
  /\ UNCHANGED <<clock, until, history>>

PotNext ==
  \/ TimePasses
  \/ \E t \in 0..LastTime : LockPot(t)
  \/ \E m \in Movers : \/ \E key \in MoveKeys, kind \in {"pot_in", "pot_out"} :
                            ReadPot(m, key, kind)
                       \/ MovePot(m, 1)

PotSpec == PotInit /\ [][PotNext]_potVars

-----------------------------------------------------------------------------
(* What is checked.                                                        *)

\* Every variable holds a value of its kind, and the agent's lock is held by
\* a move under way.
PotTypeOK ==
  /\ clock \in 0..LastTime /\ main \in Nat /\ pot \in Nat
  /\ until \in 0..LastTime
  /\ agentLock # NoMover => mover[agentLock].at = "moving"

Kinds(kind) == Cardinality({l \in landed : l[2] = kind})

\* Every key moves once, whatever retries and locks came between: the pot is
\* the moves in that landed less the moves out, and the agent's money is
\* whole (B17.33, "a retry of a move that landed ... moved nothing").
MovesOnce == main + pot = PotOpening /\ pot = Kinds("pot_in") - Kinds("pot_out")

\* No lock in force is ever lifted early ("nobody can lift it early"): until
\* the furthest date ever set is past, the pot is locked to it.
NotLiftedEarly == history > clock => until >= history

\* A retried move moves once, and a lock is not lifted early, in every order
\* of movePot and LockPot calls.
PotKeepsItsPromises == MovesOnce /\ NotLiftedEarly
=============================================================================
