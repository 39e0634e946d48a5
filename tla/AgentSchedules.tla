--------------------------- MODULE AgentSchedules ---------------------------
(***************************************************************************)
(* Scheduled payments (internal/economy/agent_schedules.go).  Every server *)
(* runs the due ticks each minute, the earliest first: a tick's            *)
(* transaction holds the schedule's row while the payment is made, its run *)
(* recorded and the schedule moved on.  A payment inside Talyvor is a      *)
(* savepoint of that transaction; a standing order's payment out commits   *)
(* in transactions of its own, under the tick's key.  Archiving the agent  *)
(* takes the agent's row first and the schedules' rows after it.  All      *)
(* schedules are of one agent, and ticks are numbered by their time.       *)
(***************************************************************************)
EXTENDS Integers, FiniteSets

CONSTANTS
  Schedules,   \* ids, in their order
  Outside,     \* those that pay an outside payee
  EndAt,       \* end_at of every schedule
  LastMinute,
  Runners,     \* servers
  NoRunner, Archiver,
  MaxLosses,   \* servers that die and connections lost, together
  MaxWishes    \* skips, cancellations and archivings, together

ASSUME SchedulesAssumption ==
  /\ Schedules \subseteq Nat /\ Outside \subseteq Schedules
  /\ EndAt \in Nat /\ LastMinute \in Nat
  /\ NoRunner \notin Runners

VARIABLES
  time,
  next,      \* next_run_at
  live,      \* active
  runOf,     \* agent_schedule_runs: the outcome of each tick
  paidOut,   \* how often each tick was paid
  keys,      \* idempotency keys of money_payments
  rowOf,     \* who holds each schedule's row
  agentRow,  \* who holds the agent's row
  gone,      \* the agent is archived
  runner,    \* where each server's tick is
  lost,      \* history: ticks whose transaction was lost
  losses, wishes

tickVars == <<next, live, runOf, gone>>
payVars == <<paidOut, keys>>
lockRows == <<rowOf, agentRow>>
boundVars == <<time, losses, wishes>>
scheduleVars == <<tickVars, payVars, lockRows, runner, lost, boundVars>>

Ticks == Schedules \X (1..LastMinute)

IdleRunner == [at |-> "idle", tick |-> <<0, 0>>, outcome |-> "none"]

SchedulesInit ==
  /\ time = 0 /\ losses = 0 /\ wishes = 0
  /\ next = [s \in Schedules |-> 1] /\ live = [s \in Schedules |-> TRUE]
  /\ runOf = [t \in Ticks |-> "none"]
  /\ paidOut = [t \in Ticks |-> 0] /\ keys = {}
  /\ rowOf = [s \in Schedules |-> NoRunner] /\ agentRow = NoRunner
  /\ runner = [r \in Runners |-> IdleRunner]
  /\ lost = {} /\ gone = FALSE

MinutePasses ==
  /\ time < LastMinute /\ time' = time + 1
  /\ UNCHANGED <<tickVars, payVars, lockRows, runner, lost, losses, wishes>>

-----------------------------------------------------------------------------
IsDue(s) == live[s] /\ next[s] <= time

Before(s, t) == next[s] < next[t] \/ (next[s] = next[t] /\ s < t)

\* The earliest due schedule nobody has locked (FOR UPDATE SKIP LOCKED).
SelectTick(r, s) ==
  /\ runner[r].at = "idle"
  /\ IsDue(s) /\ rowOf[s] = NoRunner
  /\ \A t \in Schedules \ {s} : IsDue(t) /\ rowOf[t] = NoRunner => Before(s, t)
  /\ rowOf' = [rowOf EXCEPT ![s] = r]
  /\ runner' = [runner EXCEPT ![r] = [at |-> "paying", tick |-> <<s, next[s]>>,
                                      outcome |-> "none"]]
  /\ UNCHANGED <<tickVars, payVars, agentRow, lost, boundVars>>

Goes(r, place, outcome) ==
  runner' = [runner EXCEPT ![r].at = place, ![r].outcome = outcome]

PaysOutside(r) == runner[r].at = "paying" /\ runner[r].tick[1] \in Outside
PaysInside(r) == runner[r].at = "paying" /\ runner[r].tick[1] \notin Outside

Freed(rows, who) ==
  [s \in Schedules |-> IF rows[s] = who THEN NoRunner ELSE rows[s]]

AgentFreed(who) == IF agentRow = who THEN NoRunner ELSE agentRow

\* Mutant: a refusal is an error of the tick, which is rolled back with it.
PayInsideOrStop(r) ==
  /\ PaysInside(r) /\ agentRow = NoRunner
  /\ \/ /\ ~gone /\ Goes(r, "recording", "paid") /\ agentRow' = r
        /\ UNCHANGED rowOf
     \/ /\ rowOf' = Freed(rowOf, r)
        /\ runner' = [runner EXCEPT ![r] = IdleRunner] /\ UNCHANGED agentRow
  /\ UNCHANGED <<tickVars, payVars, lost, boundVars>>

\* payAgentTx, transferTx or payListingTx in the savepoint: a refusal is
\* undone, the agent's lock with it; a payment stands when the tick commits.
PayInside(r) ==
  /\ PaysInside(r) /\ agentRow = NoRunner
  /\ \/ ~gone /\ Goes(r, "recording", "paid") /\ agentRow' = r
     \/ Goes(r, "recording", "refused") /\ UNCHANGED agentRow
  /\ UNCHANGED <<tickVars, payVars, rowOf, lost, boundVars>>

\* Mutant: a key of each attempt's own.
KeyOfAttempt(r) == <<r, runner[r].tick>>

\* "schedule:" with the schedule's id and the tick's time.
TickKey(r) == <<NoRunner, runner[r].tick>>

\* PayOutside's first statement finds the tick's payment; without one the
\* payment is refused for its payee or its account, or goes on.
FindPrior(r) ==
  /\ PaysOutside(r)
  /\ IF TickKey(r) \in keys THEN Goes(r, "recording", "paid")
     ELSE Goes(r, "holding", "none") \/ Goes(r, "recording", "refused")
  /\ UNCHANGED <<tickVars, payVars, lockRows, lost, boundVars>>

\* PayOutside's transaction, with the agent's row: refused by funds, rules or
\* screening (and of an archived agent); or held and committed; or the key is
\* taken, and that payment is the answer.
HoldOutside(r) ==
  /\ runner[r].at = "holding" /\ agentRow = NoRunner
  /\ \/ Goes(r, "recording", "refused") /\ UNCHANGED payVars
     \/ /\ ~gone /\ TickKey(r) \in keys
        /\ Goes(r, "recording", "paid") /\ UNCHANGED payVars
     \/ /\ ~gone /\ TickKey(r) \notin keys
        /\ keys' = keys \cup {TickKey(r)}
        /\ paidOut' = [paidOut EXCEPT ![runner[r].tick] = @ + 1]
        /\ Goes(r, "recording", "paid")
  /\ UNCHANGED <<tickVars, lockRows, lost, boundVars>>

\* The next tick; one past end_at ends the schedule.
Advance(s) ==
  /\ next' = [next EXCEPT ![s] = @ + 1]
  /\ live' = [live EXCEPT ![s] = @ /\ next[s] + 1 <= EndAt]

\* The run, the next tick and, inside Talyvor, the payment are committed; a
\* server that no longer has its transaction gets an error.
RecordRun(r) ==
  LET t == runner[r].tick
  IN /\ runner[r].at = "recording"
     /\ IF rowOf[t[1]] = r
          THEN /\ runOf' = [runOf EXCEPT ![t] = runner[r].outcome]
               /\ Advance(t[1])
               /\ IF t[1] \in Outside \/ runner[r].outcome = "refused"
                    THEN UNCHANGED paidOut
                    ELSE paidOut' = [paidOut EXCEPT ![t] = @ + 1]
          ELSE UNCHANGED <<next, live, runOf, paidOut>>
     /\ rowOf' = Freed(rowOf, r) /\ agentRow' = AgentFreed(r)
     /\ runner' = [runner EXCEPT ![r] = IdleRunner]
     /\ UNCHANGED <<gone, keys, lost, boundVars>>

-----------------------------------------------------------------------------
\* The tick's transaction ends without a commit: the server died with it, or
\* only its connection did and the server's payment out goes on; and the tick
\* Postgres cancels because an archiving holds the agent and waits for the row.
Loses(r) ==
  /\ rowOf' = Freed(rowOf, r) /\ agentRow' = AgentFreed(r)
  /\ lost' = lost \cup {runner[r].tick}

ServerDies(r) ==
  /\ runner[r].at # "idle" /\ losses < MaxLosses /\ losses' = losses + 1
  /\ Loses(r)
  /\ runner' = [runner EXCEPT ![r] = IdleRunner]
  /\ UNCHANGED <<tickVars, payVars, time, wishes>>

ConnectionLost(r) ==
  /\ runner[r].at # "idle" /\ rowOf[runner[r].tick[1]] = r
  /\ runner[r].tick[1] \in Outside
  /\ losses < MaxLosses /\ losses' = losses + 1
  /\ Loses(r)
  /\ UNCHANGED <<tickVars, payVars, runner, time, wishes>>

InCircle(r) == PaysInside(r) /\ agentRow = Archiver

TickCancelled(r) ==
  /\ InCircle(r)
  /\ rowOf' = Freed(rowOf, r)
  /\ runner' = [runner EXCEPT ![r] = IdleRunner]
  /\ UNCHANGED <<tickVars, payVars, agentRow, lost, boundVars>>

-----------------------------------------------------------------------------
OwnerActs == wishes < MaxWishes /\ wishes' = wishes + 1

SkipAgentScheduleTick(s) ==
  /\ OwnerActs /\ live[s] /\ rowOf[s] = NoRunner
  /\ <<s, next[s]>> \in Ticks
  /\ runOf' = [runOf EXCEPT ![<<s, next[s]>>] = "skipped"]
  /\ Advance(s)
  /\ UNCHANGED <<gone, payVars, lockRows, runner, lost, time, losses>>

CancelAgentSchedule(s) ==
  /\ OwnerActs /\ live[s] /\ rowOf[s] = NoRunner
  /\ live' = [live EXCEPT ![s] = FALSE]
  /\ UNCHANGED <<next, runOf, gone, payVars, lockRows, runner, lost, time,
                 losses>>

\* ArchiveAgent: the agent's row, then the schedules' rows, here all at once.
ArchiveLocks ==
  /\ OwnerActs /\ ~gone /\ agentRow = NoRunner
  /\ agentRow' = Archiver
  /\ UNCHANGED <<tickVars, payVars, rowOf, runner, lost, time, losses>>

ArchiveStops ==
  /\ agentRow = Archiver /\ \A s \in Schedules : rowOf[s] = NoRunner
  /\ live' = [s \in Schedules |-> FALSE] /\ gone' = TRUE
  /\ agentRow' = NoRunner
  /\ UNCHANGED <<next, runOf, payVars, rowOf, runner, lost, boundVars>>

\* While it waits for a row, Postgres cancels it or its client goes away.
ArchiveCancelled ==
  /\ agentRow = Archiver /\ \E s \in Schedules : rowOf[s] # NoRunner
  /\ agentRow' = NoRunner
  /\ UNCHANGED <<tickVars, payVars, rowOf, runner, lost, boundVars>>

-----------------------------------------------------------------------------
TickStep(r) ==
  \/ \E s \in Schedules : SelectTick(r, s)
  \/ PayInside(r) \/ FindPrior(r) \/ HoldOutside(r) \/ RecordRun(r)

SchedulesNext ==
  \/ MinutePasses
  \/ \E r \in Runners : \/ TickStep(r) \/ ServerDies(r) \/ ConnectionLost(r)
                        \/ TickCancelled(r)
  \/ \E s \in Schedules : SkipAgentScheduleTick(s) \/ CancelAgentSchedule(s)
  \/ ArchiveLocks \/ ArchiveStops \/ ArchiveCancelled

\* A server's minute tick comes again and its steps end; Postgres breaks a
\* circle it can see; an archiving is next in line for the rows it waits for.
SchedulesFairness ==
  /\ \A r \in Runners :
       /\ WF_scheduleVars(TickStep(r))
       /\ WF_scheduleVars(InCircle(r) /\ (TickCancelled(r) \/ ArchiveCancelled))
  /\ SF_scheduleVars(ArchiveStops)

SchedulesSpec ==
  SchedulesInit /\ [][SchedulesNext]_scheduleVars /\ SchedulesFairness

-----------------------------------------------------------------------------
(* What is checked.                                                        *)

\* Every tick is paid at most once, whatever servers died, lost their
\* transaction or ran it beside each other; a run recorded as paid was paid,
\* one recorded as refused or skipped was not unless a server had lost that
\* tick; and the ticks before the next one, and no others, have a run
\* (migration 0144: "neither a restart nor a second Lens running the same tick
\* can pay it twice").
RunsSayWhatWasPaid ==
  \A t \in Ticks :
    /\ paidOut[t] <= 1
    /\ runOf[t] = "paid" => paidOut[t] = 1
    /\ runOf[t] \in {"refused", "skipped"} => paidOut[t] = 0 \/ t \in lost
    /\ runOf[t] # "none" <=> t[2] < next[t[1]]

\* A standing order's payment waits for the agent's row of an archiving that
\* waits for the schedule's row of that tick: a circle through the server,
\* which Postgres cannot see.
WaitsThroughServer ==
  \E r \in Runners : /\ runner[r].at = "holding" /\ agentRow = Archiver
                     /\ rowOf[runner[r].tick[1]] = r

\* The servers catch up: again and again no tick is due, though ticks are
\* refused, servers die and Postgres cancels ticks -- or an archiving and a
\* standing order's tick wait for each other until the archiving's client gives
\* up (RunAgentSchedules "runs every schedule tick due at now").
TicksRun ==
  []<>((\A s \in Schedules : ~IsDue(s)) \/ WaitsThroughServer)
=============================================================================
