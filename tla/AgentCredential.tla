-------------------------- MODULE AgentCredential --------------------------
(***************************************************************************)
(* An agent's Know Your Agent credential (internal/economy/agent_kya.go,   *)
(* internal/kya): issued from what is true of the agent, and revoked by    *)
(* every change of that.  Transactions run statement by statement under    *)
(* READ COMMITTED: what one has written is invisible until it commits, and *)
(* the agent's advisory lock is held until the transaction that took it    *)
(* ends.  A boost is written and its revocation made outside any           *)
(* transaction, each statement committing, and unlocking, on its own.      *)
(***************************************************************************)
EXTENDS Integers, FiniteSets

CONSTANTS
  Changers,   \* calls that change the rules or the standing of the agent
  Issuers,    \* calls of Current and Verify
  NoOne,      \* the holder of a free lock
  Limits      \* the limits the rules are set to

ASSUME CredentialConstants ==
  /\ Changers \cap Issuers = {} /\ NoOne \notin Changers \cup Issuers
  /\ Limits \subseteq Nat

VARIABLES
  limit,      \* agent_rules, committed
  boosted,    \* agent_rule_boosts has a row in force, committed
  lapsed,     \* history: the last boost ended by its time
  standing,   \* "" or why the agent may have no credential, committed
  kyaLock,    \* the holder of pg_advisory_xact_lock('kya', agent)
  call,       \* where each call is, and what it has read or will commit
  credential  \* kya_credentials, by the call that issued it

credentialVars == <<limit, boosted, lapsed, standing, kyaLock, call,
                    credential>>

NoFacts == [limit |-> 0, boosted |-> FALSE]
NoCredential == [status |-> "none", says |-> NoFacts]
NotCalled == [at |-> "idle", op |-> "none", facts |-> NoFacts]

CredentialInit ==
  /\ limit \in Limits /\ boosted = FALSE /\ lapsed = FALSE
  /\ standing = "" /\ kyaLock = NoOne
  /\ call = [c \in Changers \cup Issuers |-> NotCalled]
  /\ credential = [i \in Issuers |-> NoCredential]

Facts == [limit |-> limit, boosted |-> boosted]

\* Mutant: a revocation does not wait for a credential being issued.
LockIgnored(c) == UNCHANGED kyaLock

\* lockAgentKYA in a transaction: held until it ends.
LockAgentKYA(c) == kyaLock = NoOne /\ kyaLock' = c

\* revokeAgentKYA's UPDATE: every credential in force that is committed.
RevokeAll ==
  [i \in Issuers |-> IF credential[i].status = "in force"
                       THEN [credential[i] EXCEPT !.status = "revoked"]
                       ELSE credential[i]]

At(c, place) == call[c].at = place
Go(c, place) == call' = [call EXCEPT ![c].at = place]

-----------------------------------------------------------------------------
(* SetAgentRules, RollbackAgentRules, PauseAgent, ArchiveAgent: the change *)
(* is written, then the credential revoked, in one transaction.            *)

\* Whether another transaction holds the row op writes: the agent's rules,
\* or the agent.
RowLocked(op) ==
  \E c \in Changers : /\ call[c].at \in {"written", "locked"}
                      /\ (call[c].op = "rules") <=> (op = "rules")

WriteChange(c, op, value) ==
  /\ At(c, "idle") /\ ~RowLocked(op)
  /\ op = "rules" => value # limit   \* recordRulesVersion: a new version
  /\ op = "archived" => standing # "archived"
  /\ call' = [call EXCEPT ![c] = [at |-> "written", op |-> op,
                                  facts |-> [NoFacts EXCEPT !.limit = value]]]
  /\ UNCHANGED <<limit, boosted, lapsed, standing, kyaLock, credential>>

LockChange(c) ==
  /\ At(c, "written")
  /\ LockAgentKYA(c)
  /\ Go(c, "locked")
  /\ UNCHANGED <<limit, boosted, lapsed, standing, credential>>

CommitChange(c) ==
  /\ At(c, "locked")
  /\ credential' = RevokeAll
  /\ limit' = IF call[c].op = "rules" THEN call[c].facts.limit ELSE limit
  /\ standing' = IF call[c].op = "rules" \/ standing = "archived"
                   THEN standing ELSE call[c].op
  /\ kyaLock' = IF kyaLock = c THEN NoOne ELSE kyaLock
  /\ Go(c, "done")
  /\ UNCHANGED <<boosted, lapsed>>

\* ResumeAgent only lets the agent have a credential again.
Resume(c) ==
  /\ At(c, "idle") /\ ~RowLocked("frozen") /\ standing = "frozen"
  /\ standing' = ""
  /\ Go(c, "done")
  /\ UNCHANGED <<limit, boosted, lapsed, kyaLock, credential>>

-----------------------------------------------------------------------------
(* BoostAgentRule and EndAgentBoost: three statements, each its own        *)
(* transaction.                                                            *)

WriteBoost(c) ==
  /\ At(c, "idle")
  /\ boosted' = ~boosted /\ lapsed' = FALSE
  /\ Go(c, "boosted")
  /\ UNCHANGED <<limit, standing, kyaLock, credential>>

\* The lock is had once whoever issues is done, and let go at once.
PassLock(c) ==
  /\ At(c, "boosted") /\ kyaLock = NoOne
  /\ Go(c, "passed")
  /\ UNCHANGED <<limit, boosted, lapsed, standing, kyaLock, credential>>

RevokeAfterBoost(c) ==
  /\ At(c, "passed")
  /\ credential' = RevokeAll
  /\ Go(c, "done")
  /\ UNCHANGED <<limit, boosted, lapsed, standing, kyaLock>>

\* The boost's time ends: nothing is written.
BoostLapses ==
  /\ boosted /\ boosted' = FALSE /\ lapsed' = TRUE
  /\ UNCHANGED <<limit, standing, kyaLock, call, credential>>

-----------------------------------------------------------------------------
(* IssueKYACredential, which Current calls when the credential held does   *)
(* not say what is true.                                                   *)

LockIssue(c) ==
  /\ At(c, "idle")
  /\ \A i \in Issuers : credential[i].status = "in force"
                          => credential[i].says # Facts
  /\ kyaLock = NoOne /\ kyaLock' = c
  /\ Go(c, "reading")
  /\ UNCHANGED <<limit, boosted, lapsed, standing, credential>>

\* agentKYAFacts reads the standing; a frozen or archived agent gets none.
ReadStanding(c) ==
  /\ At(c, "reading")
  /\ IF standing = "" THEN Go(c, "limits") /\ UNCHANGED kyaLock
                      ELSE Go(c, "done") /\ kyaLock' = NoOne
  /\ UNCHANGED <<limit, boosted, lapsed, standing, credential>>

\* ... and then the rules with their boosts.
ReadLimits(c) ==
  /\ At(c, "limits")
  /\ call' = [call EXCEPT ![c].at = "signing", ![c].facts = Facts]
  /\ UNCHANGED <<limit, boosted, lapsed, standing, kyaLock, credential>>

\* The credential held is superseded and the new one recorded.
CommitIssue(c) ==
  /\ At(c, "signing")
  /\ credential' = [RevokeAll EXCEPT ![c] = [status |-> "in force",
                                             says |-> call[c].facts]]
  /\ kyaLock' = NoOne
  /\ Go(c, "done")
  /\ UNCHANGED <<limit, boosted, lapsed, standing>>

\* Verify, and Current of a frozen agent: a credential that no longer says
\* what is true is revoked when it is shown, without the lock.
RevokeKYACredential(i) ==
  /\ credential[i].status = "in force"
  /\ credential[i].says # Facts \/ standing # ""
  /\ credential' = [credential EXCEPT ![i].status = "revoked"]
  /\ UNCHANGED <<limit, boosted, lapsed, standing, kyaLock, call>>

CredentialNext ==
  \/ \E c \in Changers : \/ \E n \in Limits : WriteChange(c, "rules", n)
                         \/ \E op \in {"frozen", "archived"} :
                              WriteChange(c, op, 0)
                         \/ LockChange(c) \/ CommitChange(c) \/ Resume(c)
                         \/ WriteBoost(c) \/ PassLock(c) \/ RevokeAfterBoost(c)
  \/ BoostLapses
  \/ \E i \in Issuers : \/ LockIssue(i) \/ ReadStanding(i) \/ ReadLimits(i)
                        \/ CommitIssue(i) \/ RevokeKYACredential(i)

CredentialSpec == CredentialInit /\ [][CredentialNext]_credentialVars

-----------------------------------------------------------------------------
(* What is checked.                                                        *)

\* Every variable holds a value of its kind, and the lock's holder is a call
\* that has not ended.
CredentialTypeOK ==
  /\ limit \in Limits /\ boosted \in BOOLEAN /\ lapsed \in BOOLEAN
  /\ standing \in {"", "frozen", "archived"}
  /\ kyaLock # NoOne => call[kyaLock].at \notin {"idle", "done"}

\* A boost whose call has yet to revoke the credential, or never will: it died,
\* or its revocation failed.
Revoking == \E c \in Changers : call[c].at \in {"boosted", "passed"}

\* A credential in force states the rules of its agent, and a frozen or archived
\* agent has none: no freeze, archive or change of the rules falls between what
\* IssueKYACredential read and what it records ("either comes before ... or
\* after, and revokes it").  Of a boost it promises less: the credential is
\* right once the call that wrote the boost has revoked the one before, and a
\* boost that ended by its time is found when the credential is next shown.
InForceIsTrue ==
  \A i \in Issuers : credential[i].status = "in force" =>
    /\ standing = ""
    /\ credential[i].says.limit = limit
    /\ \/ credential[i].says.boosted = boosted
       \/ Revoking \/ lapsed
=============================================================================
