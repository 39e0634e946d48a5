---------------------------- MODULE AgentsProofs ----------------------------
(***************************************************************************)
(* What is proved of the parts of an agent's money that live beside the    *)
(* wallet: its Know Your Agent credential, its pots, its scheduled         *)
(* payments, its approvals and its cash-outs.  Each part has an inductive  *)
(* invariant of its own, stated before its proof.                          *)
(***************************************************************************)
EXTENDS AgentCredential, AgentPots, AgentSchedules, CashOuts, AgentRules,
        FiniteSetTheorems, TLAPS

-----------------------------------------------------------------------------
(* The credential (AgentCredential).                                       *)

ChangerPlaces == {"idle", "written", "locked", "boosted", "passed", "done"}
IssuerPlaces == {"idle", "reading", "limits", "signing", "done"}

FactsRow == [limit : Nat, boosted : BOOLEAN]
CallRow == [at : ChangerPlaces \cup IssuerPlaces,
            op : {"none", "rules", "frozen", "archived"}, facts : FactsRow]
CredentialRow == [status : {"none", "in force", "revoked"}, says : FactsRow]

CredentialTypes ==
  /\ limit \in Nat /\ boosted \in BOOLEAN /\ lapsed \in BOOLEAN
  /\ kyaLock \in Changers \cup Issuers \cup {NoOne}
  /\ call \in [Changers \cup Issuers -> CallRow]
  /\ credential \in [Issuers -> CredentialRow]

\* The advisory lock is held by the call that is between its lock and its
\* commit, and by no other.
LockHeld ==
  /\ \A c \in Changers : /\ call[c].at \in ChangerPlaces
                         /\ call[c].at = "locked" <=> kyaLock = c
  /\ \A i \in Issuers :
       /\ call[i].at \in IssuerPlaces
       /\ call[i].at \in {"reading", "limits", "signing"} <=> kyaLock = i

\* What an issuer has read under the lock is still true: no change commits
\* while it holds the lock.  A boost may be written meanwhile, but its call
\* cannot pass the lock to revoke.
ReadsStillTrue ==
  \A i \in Issuers :
    /\ call[i].at \in {"limits", "signing"} => standing = ""
    /\ call[i].at = "signing" =>
         /\ call[i].facts.limit = limit
         /\ \/ call[i].facts.boosted = boosted \/ lapsed
            \/ \E c \in Changers : call[c].at = "boosted"

CredentialInv ==
  CredentialTypes /\ LockHeld /\ ReadsStillTrue /\ InForceIsTrue

\* The invariant holds at first.
LEMMA CredentialInitInv == CredentialInit => CredentialInv
<1> SUFFICES ASSUME CredentialInit PROVE CredentialInv
  OBVIOUS
<1>1. CredentialTypes
  <2>1. NotCalled \in CallRow /\ NoCredential \in CredentialRow
    BY DEF NotCalled, NoCredential, NoFacts, CallRow, CredentialRow, FactsRow,
       ChangerPlaces
  <2>2. QED
    BY <2>1, CredentialConstants DEF CredentialInit, CredentialTypes
<1>2. /\ \A c \in Changers \cup Issuers : call[c].at = "idle"
      /\ \A i \in Issuers : credential[i].status = "none"
  BY DEF CredentialInit, NotCalled, NoCredential
<1>3. LockHeld
  BY <1>2, CredentialConstants
  DEF CredentialInit, LockHeld, ChangerPlaces, IssuerPlaces
<1>4. ReadsStillTrue /\ InForceIsTrue
  BY <1>2 DEF ReadsStillTrue, InForceIsTrue
<1>5. QED
  BY <1>1, <1>3, <1>4 DEF CredentialInv

\* After a revocation no credential is in force.
LEMMA RevokeAllRevokes ==
  ASSUME CredentialTypes
  PROVE  /\ RevokeAll \in [Issuers -> CredentialRow]
         /\ \A i \in Issuers : RevokeAll[i].status # "in force"
BY DEF CredentialTypes, RevokeAll, CredentialRow

\* A call's row after a step that only moves it.
LEMMA GoRow ==
  ASSUME CredentialTypes, NEW c \in Changers \cup Issuers,
         NEW place \in ChangerPlaces \cup IssuerPlaces, Go(c, place)
  PROVE  /\ call' \in [Changers \cup Issuers -> CallRow]
         /\ call'[c].at = place /\ call'[c].facts = call[c].facts
         /\ \A d \in (Changers \cup Issuers) \ {c} : call'[d] = call[d]
<1>1. call[c] \in CallRow /\ call' = [call EXCEPT ![c].at = place]
  BY DEF CredentialTypes, Go
<1>2. QED
  BY <1>1 DEF CredentialTypes, CallRow
\* Changes of the rules and of the standing: written, locked, committed.
LEMMA ChangeCredentialInv ==
  ASSUME CredentialInv, NEW c \in Changers,
         \/ \E n \in Limits : WriteChange(c, "rules", n)
         \/ \E op \in {"frozen", "archived"} : WriteChange(c, op, 0)
         \/ LockChange(c) \/ CommitChange(c) \/ Resume(c)
  PROVE  CredentialInv'
<1> USE DEF CredentialInv
<1>0. /\ c \notin Issuers /\ c # NoOne /\ Limits \subseteq Nat
      /\ \A i \in Issuers : i \notin Changers /\ i # NoOne
      /\ \A d \in Changers : d \notin Issuers /\ d # NoOne
      /\ call[c] \in CallRow
  BY CredentialConstants DEF CredentialTypes
<1>1. ASSUME NEW op \in {"rules", "frozen", "archived"}, NEW n \in Nat,
             WriteChange(c, op, n)
      PROVE  CredentialInv'
  <2> DEFINE row == [at |-> "written", op |-> op,
                     facts |-> [NoFacts EXCEPT !.limit = n]]
  <2>1. row \in CallRow /\ row.at = "written"
    BY DEF NoFacts, CallRow, FactsRow, ChangerPlaces
  <2>2. /\ call' = [call EXCEPT ![c] = row] /\ call[c].at = "idle"
        /\ UNCHANGED <<limit, boosted, lapsed, standing, kyaLock, credential>>
    BY <1>1 DEF WriteChange, At
  <2> HIDE DEF row
  <2>3. /\ call' \in [Changers \cup Issuers -> CallRow]
        /\ call'[c].at = "written"
        /\ \A d \in (Changers \cup Issuers) \ {c} : call'[d] = call[d]
    BY <2>1, <2>2 DEF CredentialTypes
  <2>4. CredentialTypes'
    BY <2>2, <2>3 DEF CredentialTypes
  <2>5. LockHeld'
    BY <1>0, <2>2, <2>3 DEF LockHeld, ChangerPlaces
  <2>6. ReadsStillTrue'
    <3>1. \A d \in Changers : call[d].at = "boosted" => call'[d].at = "boosted"
      BY <1>0, <2>2, <2>3
    <3>2. QED
      BY <1>0, <2>2, <2>3, <3>1 DEF ReadsStillTrue
  <2>7. InForceIsTrue'
    <3>1. Revoking => Revoking'
      BY <1>0, <2>2, <2>3 DEF Revoking
    <3>2. QED
      BY <2>2, <3>1 DEF InForceIsTrue
  <2>8. QED
    BY <2>4, <2>5, <2>6, <2>7
<1>2. CASE LockChange(c)
  <2>1. /\ Go(c, "locked") /\ call[c].at = "written"
        /\ kyaLock = NoOne /\ kyaLock' = c
        /\ UNCHANGED <<limit, boosted, lapsed, standing, credential>>
    BY <1>2 DEF LockChange, At, LockAgentKYA
  <2>2. /\ call' \in [Changers \cup Issuers -> CallRow]
        /\ call'[c].at = "locked"
        /\ \A d \in (Changers \cup Issuers) \ {c} : call'[d] = call[d]
    BY <2>1, GoRow DEF ChangerPlaces
  <2>4. CredentialTypes'
    BY <2>1, <2>2 DEF CredentialTypes
  <2>5. LockHeld'
    BY <1>0, <2>1, <2>2 DEF LockHeld, ChangerPlaces
  <2>6. ReadsStillTrue'
    <3>1. \A d \in Changers : call[d].at = "boosted" => call'[d].at = "boosted"
      BY <1>0, <2>1, <2>2
    <3>2. QED
      BY <1>0, <2>1, <2>2, <3>1 DEF ReadsStillTrue
  <2>7. InForceIsTrue'
    <3>1. Revoking => Revoking'
      BY <1>0, <2>1, <2>2 DEF Revoking
    <3>2. QED
      BY <2>1, <3>1 DEF InForceIsTrue
  <2>8. QED
    BY <2>4, <2>5, <2>6, <2>7
<1>3. CASE CommitChange(c)
  <2>1. /\ Go(c, "done") /\ call[c].at = "locked" /\ kyaLock = c
        /\ kyaLock' = NoOne /\ credential' = RevokeAll
        /\ limit' = IF call[c].op = "rules" THEN call[c].facts.limit ELSE limit
        /\ UNCHANGED <<boosted, lapsed>>
    BY <1>3 DEF CommitChange, At, LockHeld
  <2>2. /\ call' \in [Changers \cup Issuers -> CallRow]
        /\ call'[c].at = "done"
        /\ \A d \in (Changers \cup Issuers) \ {c} : call'[d] = call[d]
    BY <2>1, GoRow DEF ChangerPlaces
  <2>3. /\ credential' \in [Issuers -> CredentialRow]
        /\ \A i \in Issuers : credential'[i].status # "in force"
    BY <2>1, RevokeAllRevokes
  <2>4. call[c].facts.limit \in Nat
    BY <1>0 DEF CallRow, FactsRow
  <2>5. CredentialTypes'
    BY <2>1, <2>2, <2>3, <2>4 DEF CredentialTypes
  <2>6. LockHeld'
    BY <1>0, <2>1, <2>2 DEF LockHeld, ChangerPlaces
  <2>7. ReadsStillTrue'
    <3>1. \A i \in Issuers : call'[i].at \notin {"limits", "signing"}
      BY <1>0, <2>1, <2>2 DEF LockHeld
    <3>2. QED
      BY <3>1 DEF ReadsStillTrue
  <2>8. InForceIsTrue'
    BY <2>3 DEF InForceIsTrue
  <2>9. QED
    BY <2>5, <2>6, <2>7, <2>8
<1>4. CASE Resume(c)
  <2>1. /\ Go(c, "done") /\ call[c].at = "idle"
        /\ standing = "frozen" /\ standing' = ""
        /\ UNCHANGED <<limit, boosted, lapsed, kyaLock, credential>>
    BY <1>4 DEF Resume, At
  <2>2. /\ call' \in [Changers \cup Issuers -> CallRow]
        /\ call'[c].at = "done"
        /\ \A d \in (Changers \cup Issuers) \ {c} : call'[d] = call[d]
    BY <2>1, GoRow DEF ChangerPlaces
  <2>3. CredentialTypes'
    BY <2>1, <2>2 DEF CredentialTypes
  <2>4. LockHeld'
    BY <1>0, <2>1, <2>2 DEF LockHeld, ChangerPlaces
  <2>5. ReadsStillTrue'
    BY <1>0, <2>1, <2>2 DEF ReadsStillTrue
  <2>6. InForceIsTrue'
    BY <2>1 DEF InForceIsTrue
  <2>7. QED
    BY <2>3, <2>4, <2>5, <2>6
<1>5. QED
  BY <1>0, <1>1, <1>2, <1>3, <1>4

\* A boost: written at once, revoking only after it has had the lock.
LEMMA BoostCredentialInv ==
  ASSUME CredentialInv,
         \/ \E c \in Changers : WriteBoost(c) \/ PassLock(c)
                                 \/ RevokeAfterBoost(c)
         \/ BoostLapses
  PROVE  CredentialInv'
<1> USE DEF CredentialInv
<1>0. /\ \A i \in Issuers : i \notin Changers /\ i # NoOne
      /\ \A d \in Changers : d \notin Issuers /\ d # NoOne
  BY CredentialConstants
<1>1. ASSUME NEW c \in Changers, WriteBoost(c)
      PROVE  CredentialInv'
  <2>1. /\ Go(c, "boosted") /\ call[c].at = "idle"
        /\ boosted' \in BOOLEAN /\ lapsed' = FALSE
        /\ UNCHANGED <<limit, standing, kyaLock, credential>>
    BY <1>1 DEF WriteBoost, At, CredentialTypes
  <2>2. /\ call' \in [Changers \cup Issuers -> CallRow]
        /\ call'[c].at = "boosted"
        /\ \A d \in (Changers \cup Issuers) \ {c} : call'[d] = call[d]
    BY <2>1, GoRow DEF ChangerPlaces
  <2>3. CredentialTypes'
    BY <2>1, <2>2 DEF CredentialTypes
  <2>4. LockHeld'
    BY <1>0, <2>1, <2>2 DEF LockHeld, ChangerPlaces
  <2>5. ReadsStillTrue'
    BY <1>0, <2>1, <2>2 DEF ReadsStillTrue
  <2>6. InForceIsTrue'
    <3>1. Revoking'
      BY <2>2 DEF Revoking
    <3>2. QED
      BY <2>1, <3>1 DEF InForceIsTrue
  <2>7. QED
    BY <2>3, <2>4, <2>5, <2>6
<1>2. ASSUME NEW c \in Changers, PassLock(c)
      PROVE  CredentialInv'
  <2>1. /\ Go(c, "passed") /\ call[c].at = "boosted" /\ kyaLock = NoOne
        /\ UNCHANGED <<limit, boosted, lapsed, standing, kyaLock, credential>>
    BY <1>2 DEF PassLock, At
  <2>2. /\ call' \in [Changers \cup Issuers -> CallRow]
        /\ call'[c].at = "passed"
        /\ \A d \in (Changers \cup Issuers) \ {c} : call'[d] = call[d]
    BY <2>1, GoRow DEF ChangerPlaces
  <2>3. CredentialTypes'
    BY <2>1, <2>2 DEF CredentialTypes
  <2>4. LockHeld'
    BY <1>0, <2>1, <2>2 DEF LockHeld, ChangerPlaces
  <2>5. ReadsStillTrue'
    <3>1. \A i \in Issuers : call'[i].at \notin {"limits", "signing"}
      BY <1>0, <2>1, <2>2 DEF LockHeld
    <3>2. QED
      BY <3>1 DEF ReadsStillTrue
  <2>6. InForceIsTrue'
    <3>1. Revoking'
      BY <2>2 DEF Revoking
    <3>2. QED
      BY <2>1, <3>1 DEF InForceIsTrue
  <2>7. QED
    BY <2>3, <2>4, <2>5, <2>6
<1>3. ASSUME NEW c \in Changers, RevokeAfterBoost(c)
      PROVE  CredentialInv'
  <2>1. /\ Go(c, "done") /\ call[c].at = "passed" /\ credential' = RevokeAll
        /\ UNCHANGED <<limit, boosted, lapsed, standing, kyaLock>>
    BY <1>3 DEF RevokeAfterBoost, At
  <2>2. /\ call' \in [Changers \cup Issuers -> CallRow]
        /\ call'[c].at = "done"
        /\ \A d \in (Changers \cup Issuers) \ {c} : call'[d] = call[d]
    BY <2>1, GoRow DEF ChangerPlaces
  <2>3. /\ credential' \in [Issuers -> CredentialRow]
        /\ \A i \in Issuers : credential'[i].status # "in force"
    BY <2>1, RevokeAllRevokes
  <2>4. CredentialTypes'
    BY <2>1, <2>2, <2>3 DEF CredentialTypes
  <2>5. LockHeld'
    BY <1>0, <2>1, <2>2 DEF LockHeld, ChangerPlaces
  <2>6. ReadsStillTrue'
    <3>1. \A d \in Changers : call[d].at = "boosted" => call'[d].at = "boosted"
      BY <1>0, <2>1, <2>2
    <3>2. QED
      BY <1>0, <2>1, <2>2, <3>1 DEF ReadsStillTrue
  <2>7. InForceIsTrue'
    BY <2>3 DEF InForceIsTrue
  <2>8. QED
    BY <2>4, <2>5, <2>6, <2>7
<1>4. CASE BoostLapses
  <2>1. /\ boosted' = FALSE /\ lapsed' = TRUE
        /\ UNCHANGED <<limit, standing, kyaLock, call, credential>>
    BY <1>4 DEF BoostLapses
  <2>2. QED
    BY <2>1 DEF CredentialTypes, LockHeld, ReadsStillTrue, InForceIsTrue
<1>5. QED
  BY <1>1, <1>2, <1>3, <1>4
\* Issuing: the standing and the limits are read, and the credential recorded,
\* under the lock.
LEMMA IssueCredentialInv ==
  ASSUME CredentialInv, NEW c \in Issuers,
         LockIssue(c) \/ ReadStanding(c) \/ ReadLimits(c) \/ CommitIssue(c)
  PROVE  CredentialInv'
<1> USE DEF CredentialInv
<1>0. /\ \A i \in Issuers : i \notin Changers /\ i # NoOne
      /\ \A d \in Changers : d \notin Issuers /\ d # NoOne
      /\ call[c] \in CallRow
  BY CredentialConstants DEF CredentialTypes
<1>1. CASE LockIssue(c)
  <2>1. /\ Go(c, "reading") /\ call[c].at = "idle"
        /\ kyaLock = NoOne /\ kyaLock' = c
        /\ UNCHANGED <<limit, boosted, lapsed, standing, credential>>
    BY <1>1 DEF LockIssue, At
  <2>2. /\ call' \in [Changers \cup Issuers -> CallRow]
        /\ call'[c].at = "reading"
        /\ \A d \in (Changers \cup Issuers) \ {c} : call'[d] = call[d]
    BY <2>1, GoRow DEF IssuerPlaces
  <2>3. CredentialTypes'
    BY <2>1, <2>2 DEF CredentialTypes
  <2>4. LockHeld'
    BY <1>0, <2>1, <2>2 DEF LockHeld, IssuerPlaces
  <2>5. ReadsStillTrue'
    BY <1>0, <2>1, <2>2 DEF ReadsStillTrue
  <2>6. InForceIsTrue'
    <3>1. Revoking => Revoking'
      BY <1>0, <2>2 DEF Revoking
    <3>2. QED
      BY <2>1, <3>1 DEF InForceIsTrue
  <2>7. QED
    BY <2>3, <2>4, <2>5, <2>6
<1>2. CASE ReadStanding(c)
  <2>1. PICK place \in {"limits", "done"} :
          /\ Go(c, place) /\ call[c].at = "reading" /\ kyaLock = c
          /\ place = "limits" => standing = "" /\ kyaLock' = kyaLock
          /\ place = "done" => kyaLock' = NoOne
          /\ UNCHANGED <<limit, boosted, lapsed, standing, credential>>
    BY <1>2 DEF ReadStanding, At, LockHeld
  <2>2. /\ call' \in [Changers \cup Issuers -> CallRow]
        /\ call'[c].at = place
        /\ \A d \in (Changers \cup Issuers) \ {c} : call'[d] = call[d]
    BY <2>1, GoRow DEF IssuerPlaces
  <2>3. CredentialTypes'
    BY <2>1, <2>2 DEF CredentialTypes
  <2>4. LockHeld'
    BY <1>0, <2>1, <2>2 DEF LockHeld, IssuerPlaces
  <2>5. ReadsStillTrue'
    BY <1>0, <2>1, <2>2 DEF ReadsStillTrue
  <2>6. InForceIsTrue'
    <3>1. Revoking => Revoking'
      BY <1>0, <2>2 DEF Revoking
    <3>2. QED
      BY <2>1, <3>1 DEF InForceIsTrue
  <2>7. QED
    BY <2>3, <2>4, <2>5, <2>6
<1>3. CASE ReadLimits(c)
  <2>1. /\ call' = [call EXCEPT ![c].at = "signing", ![c].facts = Facts]
        /\ call[c].at = "limits"
        /\ UNCHANGED <<limit, boosted, lapsed, standing, kyaLock, credential>>
    BY <1>3 DEF ReadLimits, At
  <2>2. Facts \in FactsRow /\ Facts.limit = limit /\ Facts.boosted = boosted
    BY DEF Facts, FactsRow, CredentialTypes
  <2>3. /\ call' \in [Changers \cup Issuers -> CallRow]
        /\ call'[c].at = "signing" /\ call'[c].facts = Facts
        /\ \A d \in (Changers \cup Issuers) \ {c} : call'[d] = call[d]
    <3> HIDE DEF FactsRow
    <3>1. QED
      BY <1>0, <2>1, <2>2 DEF CredentialTypes, CallRow, IssuerPlaces
  <2>4. CredentialTypes'
    BY <2>1, <2>3 DEF CredentialTypes
  <2>5. LockHeld'
    BY <1>0, <2>1, <2>3 DEF LockHeld, IssuerPlaces
  <2>6. ReadsStillTrue'
    BY <1>0, <2>1, <2>2, <2>3 DEF ReadsStillTrue
  <2>7. InForceIsTrue'
    <3>1. Revoking => Revoking'
      BY <1>0, <2>3 DEF Revoking
    <3>2. QED
      BY <2>1, <3>1 DEF InForceIsTrue
  <2>8. QED
    BY <2>4, <2>5, <2>6, <2>7
<1>4. CASE CommitIssue(c)
  <2> DEFINE row == [status |-> "in force", says |-> call[c].facts]
  <2>1. /\ Go(c, "done") /\ call[c].at = "signing"
        /\ credential' = [RevokeAll EXCEPT ![c] = row]
        /\ kyaLock = c /\ kyaLock' = NoOne
        /\ UNCHANGED <<limit, boosted, lapsed, standing>>
    BY <1>4 DEF CommitIssue, At, LockHeld
  <2>2. row \in CredentialRow /\ row.says = call[c].facts
    BY <1>0 DEF CallRow, CredentialRow
  <2> HIDE DEF row
  <2>3. /\ call' \in [Changers \cup Issuers -> CallRow]
        /\ call'[c].at = "done"
        /\ \A d \in (Changers \cup Issuers) \ {c} : call'[d] = call[d]
    BY <2>1, GoRow DEF IssuerPlaces
  <2>4. /\ credential' \in [Issuers -> CredentialRow]
        /\ credential'[c] = row
        /\ \A i \in Issuers \ {c} : credential'[i].status # "in force"
    BY <2>1, <2>2, RevokeAllRevokes
  <2>5. CredentialTypes'
    BY <2>1, <2>3, <2>4 DEF CredentialTypes
  <2>6. LockHeld'
    BY <1>0, <2>1, <2>3 DEF LockHeld, IssuerPlaces
  <2>7. ReadsStillTrue'
    <3>1. \A i \in Issuers : call'[i].at \notin {"limits", "signing"}
      BY <1>0, <2>1, <2>3 DEF LockHeld
    <3>2. QED
      BY <3>1 DEF ReadsStillTrue
  <2>8. InForceIsTrue'
    <3>1. /\ standing = "" /\ row.says.limit = limit
          /\ \/ row.says.boosted = boosted \/ lapsed
             \/ \E d \in Changers : call[d].at = "boosted"
      BY <2>1, <2>2 DEF ReadsStillTrue
    <3>2. (\E d \in Changers : call[d].at = "boosted") => Revoking'
      BY <1>0, <2>3 DEF Revoking
    <3>3. QED
      BY <2>1, <2>4, <3>1, <3>2 DEF InForceIsTrue
  <2>9. QED
    BY <2>5, <2>6, <2>7, <2>8
<1>5. QED
  BY <1>1, <1>2, <1>3, <1>4

\* A credential in force states its agent's rules, and a frozen or archived
\* agent has none, whatever the order in which changes, boosts and issues take
\* their statements and their lock; a boost it states once no call that wrote
\* one has still to revoke.
THEOREM CredentialsInForceAreTrue == CredentialSpec => []InForceIsTrue
<1>1. ASSUME CredentialInv, [CredentialNext]_credentialVars
      PROVE  CredentialInv'
  <2>1. ASSUME NEW i \in Issuers, RevokeKYACredential(i)
        PROVE  CredentialInv'
    <3> USE <1>1 DEF CredentialInv
    <3>1. /\ credential' = [credential EXCEPT ![i].status = "revoked"]
          /\ UNCHANGED <<limit, boosted, lapsed, standing, kyaLock, call>>
      BY <2>1 DEF RevokeKYACredential
    <3>2. /\ credential' \in [Issuers -> CredentialRow]
          /\ credential'[i].status = "revoked"
          /\ \A j \in Issuers \ {i} : credential'[j] = credential[j]
      BY <3>1 DEF CredentialTypes, CredentialRow
    <3>3. CredentialTypes' /\ LockHeld' /\ ReadsStillTrue'
      BY <3>1, <3>2 DEF CredentialTypes, LockHeld, ReadsStillTrue
    <3>4. InForceIsTrue'
      BY <3>1, <3>2 DEF InForceIsTrue, Revoking
    <3>5. QED
      BY <3>3, <3>4
  <2>2. CASE UNCHANGED credentialVars
    BY <1>1, <2>2
    DEF credentialVars, CredentialInv, CredentialTypes, LockHeld,
        ReadsStillTrue, InForceIsTrue, Revoking
  <2>3. QED
    BY <1>1, <2>1, <2>2, ChangeCredentialInv, BoostCredentialInv,
       IssueCredentialInv DEF CredentialNext
<1>2. CredentialInv => InForceIsTrue
  BY DEF CredentialInv
<1>3. QED
  BY <1>1, <1>2, CredentialInitInv, PTL DEF CredentialSpec
-----------------------------------------------------------------------------
(* Pots (AgentPots).                                                       *)

MoverRow == [at : {"idle", "moving", "done"}, key : MoveKeys \cup {"none"},
             kind : {"pot_in", "pot_out"}, locked : BOOLEAN]

PotTypes ==
  /\ clock \in Nat /\ main \in Int /\ pot \in Int
  /\ until \in Nat /\ history \in Nat
  /\ mover \in [Movers -> MoverRow]
  /\ IsFiniteSet(landed)

PotInv == PotTypes /\ MovesOnce /\ NotLiftedEarly

\* The moves of a kind that landed.
LandedOf(kind) == {l \in landed : l[2] = kind}

\* The invariant holds at first.
LEMMA PotInitInv == PotInit => PotInv
<1> SUFFICES ASSUME PotInit PROVE PotInv
  OBVIOUS
<1>1. IdleMove \in MoverRow
  BY DEF IdleMove, MoverRow
<1>2. IsFiniteSet({}) /\ Cardinality({}) = 0
  BY FS_EmptySet
<1>3. PotTypes
  BY <1>1, <1>2, PotConstants DEF PotInit, PotTypes
<1>4. \A kind : Kinds(kind) = 0
  <2>1. \A kind : {l \in landed : l[2] = kind} = {}
    BY DEF PotInit
  <2>2. QED
    BY <1>2, <2>1 DEF Kinds
<1>5. MovesOnce /\ NotLiftedEarly
  BY <1>4, PotConstants DEF PotInit, MovesOnce, NotLiftedEarly
<1>6. QED
  BY <1>3, <1>5 DEF PotInv

\* The counts of landed moves are natural numbers, and a move that lands for
\* the first time raises the count of its kind by one.
LEMMA KindsCount ==
  ASSUME PotTypes, NEW kind \in {"pot_in", "pot_out"}
  PROVE  /\ Kinds(kind) \in Nat
         /\ landed' = landed => Kinds(kind)' = Kinds(kind)
         /\ \A key, k2 : /\ <<key, k2>> \notin landed
                         /\ landed' = landed \cup {<<key, k2>>}
              => Kinds(kind)' = IF k2 = kind THEN Kinds(kind) + 1
                                ELSE Kinds(kind)
<1>1. IsFiniteSet(LandedOf(kind)) /\ Kinds(kind) = Cardinality(LandedOf(kind))
  <2>1. LandedOf(kind) \subseteq landed /\ IsFiniteSet(landed)
    BY DEF LandedOf, PotTypes
  <2>2. QED
    BY <2>1, FS_Subset DEF LandedOf, Kinds
<1>2. Kinds(kind) \in Nat
  BY <1>1, FS_CardinalityType
<1>3. landed' = landed => Kinds(kind)' = Kinds(kind)
  BY DEF Kinds
<1>4. ASSUME NEW key, NEW k2, <<key, k2>> \notin landed,
             landed' = landed \cup {<<key, k2>>}
      PROVE  Kinds(kind)' = IF k2 = kind THEN Kinds(kind) + 1
                            ELSE Kinds(kind)
  <2>1. Kinds(kind)' = Cardinality({l \in landed' : l[2] = kind})
    BY DEF Kinds
  <2>2. CASE k2 = kind
    <3>1. {l \in landed' : l[2] = kind} = LandedOf(kind) \cup {<<key, k2>>}
      BY <1>4, <2>2 DEF LandedOf
    <3>2. <<key, k2>> \notin LandedOf(kind)
      BY <1>4 DEF LandedOf
    <3>3. QED
      BY <1>1, <2>1, <2>2, <3>1, <3>2, FS_AddElement
  <2>3. CASE k2 # kind
    <3>1. {l \in landed' : l[2] = kind} = LandedOf(kind)
      BY <1>4, <2>3 DEF LandedOf
    <3>2. QED
      BY <1>1, <2>1, <2>3, <3>1
  <2>4. QED
    BY <2>2, <2>3
<1>5. QED
  BY <1>2, <1>3, <1>4

\* A move posts once per key and kind, and never touches the lock's date.
LEMMA MovePotInv ==
  ASSUME PotInv, NEW m \in Movers, MovePot(m, 1)
  PROVE  PotInv'
<1> USE DEF PotInv
<1> DEFINE key == mover[m].key
           kind == mover[m].kind
           moved == /\ ~Landed(m)
                    /\ kind = "pot_out" => ~mover[m].locked
                    /\ 1 <= (IF kind = "pot_in" THEN main ELSE pot)
           in == IF moved THEN (IF kind = "pot_in" THEN 1 ELSE -1) ELSE 0
<1>1. /\ main' = main - in /\ pot' = pot + in
      /\ landed' = landed \cup (IF moved THEN {<<key, kind>>} ELSE {})
      /\ mover' = [mover EXCEPT ![m].at = "done"]
      /\ UNCHANGED <<clock, until, history>>
  BY DEF MovePot
<1>2. mover[m] \in MoverRow
  BY DEF PotTypes
<1>3. kind \in {"pot_in", "pot_out"}
  BY <1>2 DEF MoverRow
<1>4. mover' \in [Movers -> MoverRow]
  BY <1>1, <1>2 DEF PotTypes, MoverRow
<1>5. IsFiniteSet(landed')
  <2>1. CASE moved
    BY <1>1, <2>1, FS_AddElement DEF PotTypes
  <2>2. CASE ~moved
    BY <1>1, <2>2 DEF PotTypes
  <2>3. QED
    BY <2>1, <2>2
<1>6. in \in Int
  OBVIOUS
<1>7. PotTypes'
  BY <1>1, <1>4, <1>5, <1>6 DEF PotTypes
<1>8. NotLiftedEarly'
  BY <1>1 DEF NotLiftedEarly
<1>9. Kinds("pot_in") \in Nat /\ Kinds("pot_out") \in Nat
  BY KindsCount
<1>10. MovesOnce'
  <2>1. CASE ~moved
    <3>1. landed' = landed /\ main' = main /\ pot' = pot
      BY <1>1, <2>1 DEF PotTypes
    <3>2. QED
      BY <3>1, KindsCount DEF MovesOnce
  <2>2. CASE moved
    <3>1. <<key, kind>> \notin landed /\ landed' = landed \cup {<<key, kind>>}
      BY <1>1, <2>2 DEF Landed
    <3>2. /\ Kinds("pot_in")' = IF kind = "pot_in" THEN Kinds("pot_in") + 1
                                ELSE Kinds("pot_in")
          /\ Kinds("pot_out")' = IF kind = "pot_out" THEN Kinds("pot_out") + 1
                                 ELSE Kinds("pot_out")
      BY <3>1, KindsCount
    <3>3. in = IF kind = "pot_in" THEN 1 ELSE -1
      BY <2>2
    <3> HIDE DEF in, kind, key
    <3>4. QED
      BY <1>1, <1>3, <1>9, <3>2, <3>3, PotConstants DEF MovesOnce, PotTypes
  <2>3. QED
    BY <2>1, <2>2
<1>11. QED
  BY <1>7, <1>8, <1>10

\* Every key moves once and no lock is lifted early, whatever calls of movePot
\* and LockPot come between a move's reading and its posting.
THEOREM PotsKeepTheirPromises == PotSpec => []PotKeepsItsPromises
<1>1. ASSUME PotInv, [PotNext]_potVars
      PROVE  PotInv'
  <2> USE <1>1 DEF PotInv
  <2>1. CASE TimePasses
    <3>1. clock' = clock + 1
          /\ UNCHANGED <<main, pot, until, landed, agentLock, mover, history>>
      BY <2>1 DEF TimePasses
    <3>2. MovesOnce'
      BY <3>1, KindsCount DEF MovesOnce
    <3>3. QED
      BY <3>1, <3>2 DEF PotTypes, NotLiftedEarly
  <2>2. ASSUME NEW t \in 0..LastTime, LockPot(t)
        PROVE  PotInv'
    <3>1. /\ InForce => t >= until
          /\ until' = t
          /\ history' = IF t > clock /\ t > history THEN t ELSE history
          /\ UNCHANGED <<clock, main, pot, landed, agentLock, mover>>
      BY <2>2 DEF LockPot, Longer
    <3>2. MovesOnce'
      BY <3>1, KindsCount DEF MovesOnce
    <3>3. PotTypes' /\ NotLiftedEarly'
      BY <3>1, PotConstants DEF PotTypes, NotLiftedEarly, InForce
    <3>4. QED
      BY <3>2, <3>3
  <2>3. ASSUME NEW m \in Movers, NEW key \in MoveKeys,
               NEW kind \in {"pot_in", "pot_out"}, ReadPot(m, key, kind)
        PROVE  PotInv'
    <3> DEFINE row == [at |-> "moving", key |-> key, kind |-> kind,
                       locked |-> InForce]
    <3>1. /\ mover' = [mover EXCEPT ![m] = row]
          /\ UNCHANGED <<clock, main, pot, until, landed, history>>
      BY <2>3 DEF ReadPot
    <3>2. row \in MoverRow
      BY DEF MoverRow, InForce
    <3> HIDE DEF row
    <3>3. PotTypes' /\ NotLiftedEarly'
      BY <3>1, <3>2 DEF PotTypes, NotLiftedEarly
    <3>4. MovesOnce'
      BY <3>1, KindsCount DEF MovesOnce
    <3>5. QED
      BY <3>3, <3>4
  <2>4. CASE UNCHANGED potVars
    <3>1. MovesOnce'
      BY <2>4, KindsCount DEF MovesOnce, potVars
    <3>2. QED
      BY <2>4, <3>1 DEF potVars, PotTypes, NotLiftedEarly
  <2>5. QED
    BY <1>1, <2>1, <2>2, <2>3, <2>4, MovePotInv DEF PotNext
<1>2. PotInv => PotKeepsItsPromises
  BY DEF PotInv, PotKeepsItsPromises
<1>3. QED
  BY <1>1, <1>2, PotInitInv, PTL DEF PotSpec
-----------------------------------------------------------------------------
(* Scheduled payments (AgentSchedules).                                    *)

RunnerRow == [at : {"idle", "paying", "holding", "recording"},
              tick : Ticks \cup {<<0, 0>>}, outcome : {"none", "paid", "refused"}]

ScheduleTypes ==
  /\ time \in 0..LastMinute
  /\ next \in [Schedules -> Nat \ {0}]
  /\ runOf \in [Ticks -> {"none", "paid", "refused", "skipped"}]
  /\ paidOut \in [Ticks -> Nat]
  /\ rowOf \in [Schedules -> Runners \cup {NoRunner}]
  /\ runner \in [Runners -> RunnerRow]

\* Whoever holds a schedule's row is at work on its next tick.
RowsHeld ==
  \A s \in Schedules : \A r \in Runners : rowOf[s] = r =>
    runner[r].at # "idle" /\ runner[r].tick = <<s, next[s]>>

\* A server at work on a tick holds the schedule's row, unless it lost that
\* tick's transaction under a payment out.
TicksHeld ==
  \A r \in Runners : runner[r].at # "idle" =>
    /\ runner[r].tick \in Ticks
    /\ \/ rowOf[runner[r].tick[1]] = r
       \/ runner[r].tick[1] \in Outside /\ runner[r].tick \in lost
    /\ runner[r].at = "holding" => runner[r].tick[1] \in Outside
    /\ runner[r].at = "recording" => runner[r].outcome # "none"

\* The idempotency key of a tick's payment out.
KeyFor(t) == <<NoRunner, t>>

\* What runner r is about to record of tick t.
AboutToRecordPaid(r, t) ==
  runner[r].at = "recording" /\ runner[r].outcome = "paid" /\ runner[r].tick = t

\* A payment out is its key, and who records it as paid has found or made it.
KeysArePayments ==
  /\ \A t \in Ticks : t[1] \in Outside =>
       paidOut[t] = IF KeyFor(t) \in keys THEN 1 ELSE 0
  /\ \A r \in Runners : \A t \in Ticks :
       t[1] \in Outside /\ AboutToRecordPaid(r, t) => KeyFor(t) \in keys

\* A payment out whose tick no server lost is recorded, or about to be by the
\* server that holds the row.
KeysAreRecorded ==
  \A t \in Ticks :
    t[1] \in Outside /\ KeyFor(t) \in keys /\ t \notin lost =>
      \/ runOf[t] = "paid"
      \/ \E r \in Runners : rowOf[t[1]] = r /\ AboutToRecordPaid(r, t)

\* The runs recorded of payments out, and of payments inside Talyvor.
RunsAreTrue ==
  \A t \in Ticks :
    /\ t[1] \in Outside =>
         /\ runOf[t] = "paid" => KeyFor(t) \in keys
         /\ runOf[t] \in {"refused", "skipped"} /\ t \notin lost =>
              KeyFor(t) \notin keys
    /\ t[1] \notin Outside => paidOut[t] = IF runOf[t] = "paid" THEN 1 ELSE 0

RunsInOrder == \A t \in Ticks : runOf[t] # "none" <=> t[2] < next[t[1]]

ScheduleInv ==
  /\ ScheduleTypes /\ RowsHeld /\ TicksHeld /\ KeysArePayments
  /\ KeysAreRecorded /\ RunsAreTrue /\ RunsInOrder

\* The invariant says what the runs check.
LEMMA ScheduleInvSays == ScheduleInv => RunsSayWhatWasPaid
<1> SUFFICES ASSUME ScheduleInv, NEW t \in Ticks
             PROVE  /\ paidOut[t] <= 1
                    /\ runOf[t] = "paid" => paidOut[t] = 1
                    /\ runOf[t] \in {"refused", "skipped"} =>
                         paidOut[t] = 0 \/ t \in lost
                    /\ runOf[t] # "none" <=> t[2] < next[t[1]]
  BY DEF RunsSayWhatWasPaid
<1> USE DEF ScheduleInv
<1>1. runOf[t] # "none" <=> t[2] < next[t[1]]
  BY DEF RunsInOrder
<1>2. CASE t[1] \in Outside
  BY <1>1, <1>2 DEF KeysArePayments, RunsAreTrue
<1>3. CASE t[1] \notin Outside
  BY <1>1, <1>3 DEF RunsAreTrue
<1>4. QED
  BY <1>2, <1>3

\* The invariant holds at first.
LEMMA ScheduleInitInv == SchedulesInit => ScheduleInv
<1> SUFFICES ASSUME SchedulesInit PROVE ScheduleInv
  OBVIOUS
<1>1. IdleRunner \in RunnerRow /\ IdleRunner.at = "idle"
  BY DEF IdleRunner, RunnerRow
<1>2. /\ time = 0 /\ keys = {}
      /\ next = [s \in Schedules |-> 1]
      /\ runOf = [t \in Ticks |-> "none"] /\ paidOut = [t \in Ticks |-> 0]
      /\ rowOf = [s \in Schedules |-> NoRunner]
      /\ runner = [r \in Runners |-> IdleRunner]
  BY DEF SchedulesInit
<1>3. ScheduleTypes
  BY <1>1, <1>2, SchedulesAssumption DEF ScheduleTypes
<1>4. RowsHeld /\ TicksHeld
  BY <1>1, <1>2, SchedulesAssumption DEF RowsHeld, TicksHeld
<1>5. KeysArePayments /\ KeysAreRecorded /\ RunsAreTrue
  BY <1>1, <1>2 DEF KeysArePayments, KeysAreRecorded, RunsAreTrue,
     AboutToRecordPaid
<1>6. RunsInOrder
  BY <1>2 DEF RunsInOrder, Ticks
<1>7. QED
  BY <1>3, <1>4, <1>5, <1>6 DEF ScheduleInv

\* A tick's parts.
LEMMA TickParts ==
  ASSUME NEW t \in Ticks
  PROVE  /\ t[1] \in Schedules /\ t[2] \in 1..LastMinute /\ t[2] \in Nat
         /\ t = <<t[1], t[2]>>
BY DEF Ticks

\* A server takes the earliest due schedule whose row is free.
LEMMA SelectTickInv ==
  ASSUME ScheduleInv, NEW r \in Runners, NEW s \in Schedules, SelectTick(r, s)
  PROVE  ScheduleInv'
<1> USE DEF ScheduleInv
<1> DEFINE row == [at |-> "paying", tick |-> <<s, next[s]>>, outcome |-> "none"]
<1>1. /\ runner[r].at = "idle" /\ next[s] <= time /\ rowOf[s] = NoRunner
      /\ rowOf' = [rowOf EXCEPT ![s] = r] /\ runner' = [runner EXCEPT ![r] = row]
      /\ UNCHANGED <<next, runOf, paidOut, keys, lost, time>>
  BY DEF SelectTick, IsDue, tickVars, payVars, boundVars
<1>2. <<s, next[s]>> \in Ticks
  BY <1>1, SchedulesAssumption DEF ScheduleTypes, Ticks
<1>3. row \in RunnerRow /\ row.at = "paying" /\ row.tick = <<s, next[s]>>
  BY <1>2 DEF RunnerRow
<1> HIDE DEF row
<1>4. /\ runner' \in [Runners -> RunnerRow] /\ runner'[r] = row
      /\ \A q \in Runners \ {r} : runner'[q] = runner[q]
      /\ rowOf' \in [Schedules -> Runners \cup {NoRunner}] /\ rowOf'[s] = r
      /\ \A u \in Schedules \ {s} : rowOf'[u] = rowOf[u]
      /\ \A u \in Schedules : rowOf[u] # r
  BY <1>1, <1>3 DEF ScheduleTypes, RowsHeld
<1>5. ScheduleTypes'
  BY <1>1, <1>4 DEF ScheduleTypes
<1>6. RowsHeld'
  BY <1>1, <1>3, <1>4 DEF RowsHeld
<1>7. TicksHeld'
  <2>1. ASSUME NEW q \in Runners, runner'[q].at # "idle"
        PROVE  /\ runner'[q].tick \in Ticks
               /\ \/ rowOf'[runner'[q].tick[1]] = q
                  \/ runner'[q].tick[1] \in Outside /\ runner'[q].tick \in lost
               /\ runner'[q].at = "holding" => runner'[q].tick[1] \in Outside
               /\ runner'[q].at = "recording" => runner'[q].outcome # "none"
    <3>1. CASE q = r
      BY <1>2, <1>3, <1>4, <3>1
    <3>2. CASE q # r
      <4>1. runner'[q] = runner[q] /\ runner[q].at # "idle"
        BY <1>4, <2>1, <3>2
      <4>2. runner[q].tick \in Ticks /\ runner[q].tick[1] \in Schedules
        BY <4>1, TickParts DEF TicksHeld
      <4>3. q # NoRunner
        BY SchedulesAssumption
      <4>4. rowOf[runner[q].tick[1]] = q => rowOf'[runner[q].tick[1]] = q
        BY <1>1, <1>4, <4>2, <4>3
      <4>5. QED
        BY <4>1, <4>4 DEF TicksHeld
    <3>3. QED
      BY <3>1, <3>2
  <2>2. QED
    BY <1>1, <2>1 DEF TicksHeld
<1>8. \A q \in Runners : \A t : AboutToRecordPaid(q, t)' <=> AboutToRecordPaid(q, t)
  BY <1>1, <1>3, <1>4 DEF AboutToRecordPaid
<1>9. KeysArePayments'
  BY <1>1, <1>8 DEF KeysArePayments, KeyFor
<1>10. KeysAreRecorded'
  <2>1. ASSUME NEW q \in Runners, NEW t \in Ticks, rowOf[t[1]] = q
        PROVE  rowOf'[t[1]] = q
    BY <1>1, <1>4, <2>1, TickParts, SchedulesAssumption
  <2>2. QED
    BY <1>1, <1>8, <2>1 DEF KeysAreRecorded, KeyFor
<1>11. RunsAreTrue' /\ RunsInOrder'
  BY <1>1 DEF RunsAreTrue, RunsInOrder, KeyFor
<1>12. QED
  BY <1>5, <1>6, <1>7, <1>9, <1>10, <1>11
\* What a server's step does to its row when only its place and its outcome
\* change.
LEMMA GoesRow ==
  ASSUME ScheduleInv, NEW r \in Runners, runner[r].at \in {"paying", "holding"},
         NEW place \in {"holding", "recording"},
         NEW outcome \in {"none", "paid", "refused"}, Goes(r, place, outcome),
         place = "holding" => runner[r].tick[1] \in Outside,
         place = "recording" => outcome # "none",
         UNCHANGED <<next, rowOf, lost>>
  PROVE  /\ runner' \in [Runners -> RunnerRow] /\ RowsHeld' /\ TicksHeld'
         /\ runner'[r].at = place /\ runner'[r].outcome = outcome
         /\ runner'[r].tick = runner[r].tick
         /\ \A q \in Runners \ {r} : runner'[q] = runner[q]
<1> USE DEF ScheduleInv
<1>1. /\ runner[r] \in RunnerRow
      /\ runner' = [runner EXCEPT ![r].at = place, ![r].outcome = outcome]
  BY DEF ScheduleTypes, Goes
<1>2. /\ runner' \in [Runners -> RunnerRow]
      /\ runner'[r].at = place /\ runner'[r].outcome = outcome
      /\ runner'[r].tick = runner[r].tick
      /\ \A q \in Runners \ {r} : runner'[q] = runner[q]
  BY <1>1 DEF ScheduleTypes, RunnerRow
<1>3. RowsHeld'
  BY <1>2 DEF RowsHeld
<1>4. TicksHeld'
  BY <1>2 DEF TicksHeld
<1>5. QED
  BY <1>2, <1>3, <1>4

\* A payment inside Talyvor, or an answer about one outside that pays nothing.
LEMMA AnswerInv ==
  ASSUME ScheduleInv, NEW r \in Runners, runner[r].at \in {"paying", "holding"},
         NEW place \in {"holding", "recording"},
         NEW outcome \in {"none", "paid", "refused"}, Goes(r, place, outcome),
         place = "holding" => runner[r].tick[1] \in Outside,
         place = "recording" => outcome # "none",
         (/\ place = "recording" /\ outcome = "paid"
          /\ runner[r].tick[1] \in Outside) => KeyFor(runner[r].tick) \in keys,
         UNCHANGED <<next, runOf, paidOut, keys, rowOf, lost, time>>
  PROVE  ScheduleInv'
<1> USE DEF ScheduleInv
<1>1. /\ runner' \in [Runners -> RunnerRow] /\ RowsHeld' /\ TicksHeld'
      /\ runner'[r].at = place /\ runner'[r].outcome = outcome
      /\ runner'[r].tick = runner[r].tick
      /\ \A q \in Runners \ {r} : runner'[q] = runner[q]
  BY GoesRow
<1>2. ScheduleTypes'
  BY <1>1 DEF ScheduleTypes
<1>3. KeysArePayments'
  BY <1>1 DEF KeysArePayments, KeyFor, AboutToRecordPaid
<1>4. KeysAreRecorded'
  <2>1. \A q \in Runners : \A t \in Ticks :
          AboutToRecordPaid(q, t) => AboutToRecordPaid(q, t)'
    BY <1>1 DEF AboutToRecordPaid
  <2>2. QED
    BY <2>1 DEF KeysAreRecorded, KeyFor
<1>5. RunsAreTrue' /\ RunsInOrder'
  BY DEF RunsAreTrue, RunsInOrder, KeyFor
<1>6. QED
  BY <1>1, <1>2, <1>3, <1>4, <1>5

\* A payment out is held and committed under its tick's key.
LEMMA PayOutInv ==
  ASSUME ScheduleInv, NEW r \in Runners, runner[r].at = "holding",
         KeyFor(runner[r].tick) \notin keys,
         keys' = keys \cup {KeyFor(runner[r].tick)},
         paidOut' = [paidOut EXCEPT ![runner[r].tick] = @ + 1],
         Goes(r, "recording", "paid"),
         UNCHANGED <<next, runOf, rowOf, lost, time>>
  PROVE  ScheduleInv'
<1> USE DEF ScheduleInv
<1>1. PICK t \in Ticks : t = runner[r].tick
  BY DEF TicksHeld
<1>2. /\ t[1] \in Outside /\ KeyFor(t) \notin keys
      /\ rowOf[t[1]] = r \/ t \in lost
  BY <1>1 DEF TicksHeld
<1>3. /\ runner' \in [Runners -> RunnerRow] /\ RowsHeld' /\ TicksHeld'
      /\ runner'[r].at = "recording" /\ runner'[r].outcome = "paid"
      /\ runner'[r].tick = t
      /\ \A q \in Runners \ {r} : runner'[q] = runner[q]
  BY <1>1, GoesRow
<1>4. /\ paidOut' \in [Ticks -> Nat] /\ paidOut'[t] = 1
      /\ \A u \in Ticks \ {t} : paidOut'[u] = paidOut[u]
  <2>1. paidOut[t] = 0
    BY <1>2 DEF KeysArePayments
  <2>2. QED
    BY <1>1, <2>1 DEF ScheduleTypes
<1>5. /\ KeyFor(t) \in keys' /\ keys \subseteq keys'
      /\ \A u \in Ticks \ {t} : KeyFor(u) \in keys' <=> KeyFor(u) \in keys
  BY <1>1 DEF KeyFor
<1>6. ScheduleTypes'
  BY <1>3, <1>4 DEF ScheduleTypes
<1>7. KeysArePayments'
  <2>1. \A u \in Ticks : u[1] \in Outside =>
          paidOut'[u] = IF KeyFor(u) \in keys' THEN 1 ELSE 0
    BY <1>4, <1>5 DEF KeysArePayments
  <2>2. ASSUME NEW q \in Runners, NEW u \in Ticks, u[1] \in Outside,
               AboutToRecordPaid(q, u)'
        PROVE  KeyFor(u) \in keys'
    <3>1. CASE q = r
      BY <1>3, <1>5, <2>2, <3>1 DEF AboutToRecordPaid
    <3>2. CASE q # r
      BY <1>3, <1>5, <2>2, <3>2 DEF AboutToRecordPaid, KeysArePayments
    <3>3. QED
      BY <3>1, <3>2
  <2>3. QED
    BY <2>1, <2>2 DEF KeysArePayments, KeyFor
<1>8. KeysAreRecorded'
  <2>1. \A q \in Runners : \A u \in Ticks :
          AboutToRecordPaid(q, u) => AboutToRecordPaid(q, u)'
    BY <1>3 DEF AboutToRecordPaid
  <2>2. AboutToRecordPaid(r, t)'
    BY <1>1, <1>3 DEF AboutToRecordPaid
  <2>3. ASSUME NEW u \in Ticks, u[1] \in Outside, KeyFor(u) \in keys',
               u \notin lost
        PROVE  \/ runOf[u] = "paid"
               \/ \E q \in Runners : rowOf[u[1]] = q /\ AboutToRecordPaid(q, u)'
    <3>1. CASE u = t
      BY <1>2, <2>2, <2>3, <3>1
    <3>2. CASE u # t
      BY <1>5, <2>1, <2>3, <3>2 DEF KeysAreRecorded
    <3>3. QED
      BY <3>1, <3>2
  <2>4. QED
    BY <2>3 DEF KeysAreRecorded, KeyFor
<1>9. RunsAreTrue'
  <2>1. runOf[t] \in {"refused", "skipped"} => t \in lost
    <3>1. CASE rowOf[t[1]] = r
      <4>1. t = <<t[1], next[t[1]]>> /\ t[1] \in Schedules
        BY <1>1, <3>1, TickParts DEF RowsHeld
      <4>2. t[2] = next[t[1]] /\ t[2] \in Nat
        BY <4>1, TickParts
      <4>3. runOf[t] = "none"
        BY <4>2 DEF RunsInOrder
      <4>4. QED
        BY <4>3
    <3>2. QED
      BY <1>2, <3>1
  <2>2. ASSUME NEW u \in Ticks
        PROVE  /\ u[1] \in Outside =>
                    /\ runOf[u] = "paid" => KeyFor(u) \in keys'
                    /\ runOf[u] \in {"refused", "skipped"} /\ u \notin lost =>
                         KeyFor(u) \notin keys'
               /\ u[1] \notin Outside =>
                    paidOut'[u] = IF runOf[u] = "paid" THEN 1 ELSE 0
    BY <1>2, <1>4, <1>5, <2>1 DEF RunsAreTrue
  <2>3. QED
    BY <2>2 DEF RunsAreTrue, KeyFor
<1>10. RunsInOrder'
  BY DEF RunsInOrder
<1>11. QED
  BY <1>3, <1>6, <1>7, <1>8, <1>9, <1>10

\* A server gives up its rows: it died, its connection did, Postgres cancelled
\* its tick, or it found its transaction gone when it came to record its run.
LEMMA FreedInv ==
  ASSUME ScheduleInv, NEW r \in Runners, rowOf' = Freed(rowOf, r),
         UNCHANGED <<next, runOf, paidOut, keys, time>>,
         \/ /\ runner' = [runner EXCEPT ![r] = IdleRunner]
            /\ \/ lost' = lost \cup {runner[r].tick}
               \/ lost' = lost /\ runner[r].at # "recording"
               \/ lost' = lost /\ \A s \in Schedules : rowOf[s] # r
         \/ /\ runner' = runner /\ lost' = lost \cup {runner[r].tick}
            /\ runner[r].tick[1] \in Outside
  PROVE  ScheduleInv'
<1> USE DEF ScheduleInv
<1>0. r # NoRunner
  BY SchedulesAssumption
<1>1. /\ rowOf' \in [Schedules -> Runners \cup {NoRunner}]
      /\ \A s \in Schedules :
           rowOf'[s] = IF rowOf[s] = r THEN NoRunner ELSE rowOf[s]
  BY DEF Freed, ScheduleTypes
<1>2. /\ runner' \in [Runners -> RunnerRow]
      /\ runner'[r].at = "idle" \/ (/\ runner'[r] = runner[r]
                                    /\ runner[r].tick[1] \in Outside
                                    /\ runner[r].tick \in lost')
      /\ \A q \in Runners \ {r} : runner'[q] = runner[q]
      /\ lost \subseteq lost'
  <2>1. IdleRunner \in RunnerRow /\ IdleRunner.at = "idle"
    BY DEF IdleRunner, RunnerRow
  <2>2. QED
    BY <2>1 DEF ScheduleTypes
<1>3. ScheduleTypes'
  BY <1>1, <1>2 DEF ScheduleTypes
<1>4. RowsHeld'
  <2>1. \A q \in Runners : q # NoRunner
    BY SchedulesAssumption
  <2>2. QED
    BY <1>0, <1>1, <1>2, <2>1 DEF RowsHeld
<1>5. TicksHeld'
  <2>1. ASSUME NEW q \in Runners, runner'[q].at # "idle"
        PROVE  /\ runner'[q].tick \in Ticks
               /\ \/ rowOf'[runner'[q].tick[1]] = q
                  \/ runner'[q].tick[1] \in Outside /\ runner'[q].tick \in lost'
               /\ runner'[q].at = "holding" => runner'[q].tick[1] \in Outside
               /\ runner'[q].at = "recording" => runner'[q].outcome # "none"
    <3>1. runner'[q] = runner[q] /\ runner[q].tick \in Ticks
      BY <1>2, <2>1 DEF TicksHeld
    <3>2. runner[q].tick[1] \in Schedules
      BY <3>1, TickParts
    <3>3. QED
      BY <1>1, <1>2, <2>1, <3>1, <3>2 DEF TicksHeld
  <2>2. QED
    BY <2>1 DEF TicksHeld
<1>6. KeysArePayments'
  BY <1>2 DEF KeysArePayments, KeyFor, AboutToRecordPaid
<1>7. KeysAreRecorded'
  <2>1. ASSUME NEW t \in Ticks, t[1] \in Outside, KeyFor(t) \in keys,
               t \notin lost', runOf[t] # "paid"
        PROVE  \E q \in Runners : rowOf'[t[1]] = q /\ AboutToRecordPaid(q, t)'
    <3>1. PICK q \in Runners : rowOf[t[1]] = q /\ AboutToRecordPaid(q, t)
      BY <1>2, <2>1 DEF KeysAreRecorded
    <3>2. t[1] \in Schedules
      BY TickParts
    <3>3. q # r
      BY <2>1, <3>1, <3>2 DEF AboutToRecordPaid
    <3>4. QED
      BY <1>1, <1>2, <3>1, <3>2, <3>3 DEF AboutToRecordPaid
  <2>2. QED
    BY <2>1 DEF KeysAreRecorded, KeyFor
<1>8. RunsAreTrue' /\ RunsInOrder'
  BY <1>2 DEF RunsAreTrue, RunsInOrder, KeyFor
<1>9. QED
  BY <1>3, <1>4, <1>5, <1>6, <1>7, <1>8
\* The run of a schedule's next tick is recorded, and the schedule moves on.
LEMMA RunRecorded ==
  ASSUME ScheduleInv, NEW s \in Schedules, <<s, next[s]>> \in Ticks,
         NEW outcome \in {"paid", "refused", "skipped"},
         runOf' = [runOf EXCEPT ![<<s, next[s]>>] = outcome], Advance(s)
  PROVE  /\ next' \in [Schedules -> Nat \ {0}]
         /\ \A u \in Schedules \ {s} : next'[u] = next[u]
         /\ runOf' \in [Ticks -> {"none", "paid", "refused", "skipped"}]
         /\ runOf[<<s, next[s]>>] = "none" /\ runOf'[<<s, next[s]>>] = outcome
         /\ \A t \in Ticks \ {<<s, next[s]>>} : runOf'[t] = runOf[t]
         /\ RunsInOrder'
<1> USE DEF ScheduleInv
<1>1. PICK n \in Nat \ {0} : n = next[s]
  BY DEF ScheduleTypes
<1>2. PICK t \in Ticks : t = <<s, n>>
  BY <1>1
<1>3. /\ next' = [next EXCEPT ![s] = n + 1]
      /\ runOf' = [runOf EXCEPT ![t] = outcome]
  BY <1>1, <1>2 DEF Advance
<1>4. /\ next' \in [Schedules -> Nat \ {0}] /\ next'[s] = n + 1
      /\ \A u \in Schedules \ {s} : next'[u] = next[u]
  BY <1>3 DEF ScheduleTypes
<1>5. /\ runOf' \in [Ticks -> {"none", "paid", "refused", "skipped"}]
      /\ runOf'[t] = outcome /\ \A u \in Ticks \ {t} : runOf'[u] = runOf[u]
  BY <1>3 DEF ScheduleTypes
<1>6. t[1] = s /\ t[2] = n
  BY <1>2
<1>7. runOf[t] = "none"
  BY <1>1, <1>6 DEF RunsInOrder
<1>8. RunsInOrder'
  <2>1. ASSUME NEW u \in Ticks
        PROVE  runOf'[u] # "none" <=> u[2] < next'[u[1]]
    <3>1. u[1] \in Schedules /\ u[2] \in Nat /\ u = <<u[1], u[2]>>
      BY TickParts
    <3>2. CASE u = t
      BY <1>4, <1>5, <1>6, <3>2
    <3>3. CASE u # t /\ u[1] = s
      <4>1. u[2] # n
        BY <1>2, <3>1, <3>3
      <4>2. runOf'[u] = runOf[u] /\ next'[u[1]] = n + 1
        BY <1>4, <1>5, <3>3
      <4>3. runOf[u] # "none" <=> u[2] < n
        BY <1>1, <3>3 DEF RunsInOrder
      <4>4. QED
        BY <3>1, <4>1, <4>2, <4>3
    <3>4. CASE u[1] # s
      BY <1>4, <1>5, <1>6, <3>1, <3>4 DEF RunsInOrder
    <3>5. QED
      BY <3>2, <3>3, <3>4
  <2>2. QED
    BY <2>1 DEF RunsInOrder
<1>9. QED
  BY <1>1, <1>2, <1>4, <1>5, <1>7, <1>8

\* The owner skips a tick nobody is at work on: nothing was paid for it, or a
\* server that lost it did.
LEMMA SkipInv ==
  ASSUME ScheduleInv, NEW s \in Schedules, SkipAgentScheduleTick(s)
  PROVE  ScheduleInv'
<1> USE DEF ScheduleInv
<1>1. /\ rowOf[s] = NoRunner /\ <<s, next[s]>> \in Ticks
      /\ runOf' = [runOf EXCEPT ![<<s, next[s]>>] = "skipped"] /\ Advance(s)
      /\ UNCHANGED <<paidOut, keys, rowOf, runner, lost, time>>
  BY DEF SkipAgentScheduleTick, payVars, lockRows
<1>2. PICK t \in Ticks : t = <<s, next[s]>>
  BY <1>1
<1>3. /\ next' \in [Schedules -> Nat \ {0}]
      /\ \A u \in Schedules \ {s} : next'[u] = next[u]
      /\ runOf' \in [Ticks -> {"none", "paid", "refused", "skipped"}]
      /\ runOf[t] = "none" /\ runOf'[t] = "skipped"
      /\ \A u \in Ticks \ {t} : runOf'[u] = runOf[u]
      /\ RunsInOrder'
  BY <1>1, <1>2, RunRecorded
<1>4. \A r \in Runners : r # NoRunner
  BY SchedulesAssumption
<1>5. ScheduleTypes'
  BY <1>1, <1>3 DEF ScheduleTypes
<1>6. RowsHeld'
  BY <1>1, <1>3, <1>4 DEF RowsHeld
<1>7. TicksHeld' /\ KeysArePayments'
  BY <1>1 DEF TicksHeld, KeysArePayments, KeyFor, AboutToRecordPaid
<1>8. KeysAreRecorded'
  BY <1>1, <1>3 DEF KeysAreRecorded, KeyFor, AboutToRecordPaid
<1>9. RunsAreTrue'
  <2>1. t[1] \in Outside /\ t \notin lost => KeyFor(t) \notin keys
    BY <1>1, <1>2, <1>3, <1>4 DEF KeysAreRecorded
  <2>2. QED
    BY <1>1, <1>3, <2>1 DEF RunsAreTrue, KeyFor
<1>10. QED
  BY <1>3, <1>5, <1>6, <1>7, <1>8, <1>9

\* A server records the run of the tick whose row it holds.
LEMMA RecordInv ==
  ASSUME ScheduleInv, NEW r \in Runners, RecordRun(r),
         rowOf[runner[r].tick[1]] = r
  PROVE  ScheduleInv'
<1> USE DEF ScheduleInv
<1>0. \A q \in Runners : q # NoRunner
  BY SchedulesAssumption
<1>1. PICK t \in Ticks : t = runner[r].tick /\ runner[r].at = "recording"
  BY DEF RecordRun, TicksHeld
<1>2. PICK s \in Schedules : s = t[1] /\ rowOf[s] = r
  BY <1>1, TickParts
<1>3. t = <<s, next[s]>>
  BY <1>1, <1>2 DEF RowsHeld
<1>4. PICK outcome \in {"paid", "refused"} : outcome = runner[r].outcome
  BY <1>1 DEF TicksHeld, ScheduleTypes, RunnerRow
<1>5. /\ runOf' = [runOf EXCEPT ![t] = outcome] /\ Advance(s)
      /\ IF s \in Outside \/ outcome = "refused"
           THEN UNCHANGED paidOut
           ELSE paidOut' = [paidOut EXCEPT ![t] = @ + 1]
      /\ rowOf' = Freed(rowOf, r)
      /\ runner' = [runner EXCEPT ![r] = IdleRunner]
      /\ UNCHANGED <<keys, lost, time>>
  BY <1>1, <1>2, <1>4 DEF RecordRun, boundVars
<1>6. /\ next' \in [Schedules -> Nat \ {0}]
      /\ \A u \in Schedules \ {s} : next'[u] = next[u]
      /\ runOf' \in [Ticks -> {"none", "paid", "refused", "skipped"}]
      /\ runOf[t] = "none" /\ runOf'[t] = outcome
      /\ \A u \in Ticks \ {t} : runOf'[u] = runOf[u]
      /\ RunsInOrder'
  BY <1>3, <1>5, RunRecorded
<1>7. /\ rowOf' \in [Schedules -> Runners \cup {NoRunner}]
      /\ \A u \in Schedules :
           rowOf'[u] = IF rowOf[u] = r THEN NoRunner ELSE rowOf[u]
  BY <1>5 DEF Freed, ScheduleTypes
<1>8. /\ runner' \in [Runners -> RunnerRow] /\ runner'[r].at = "idle"
      /\ \A q \in Runners \ {r} : runner'[q] = runner[q]
  <2>1. IdleRunner \in RunnerRow /\ IdleRunner.at = "idle"
    BY DEF IdleRunner, RunnerRow
  <2>2. QED
    BY <1>5, <2>1 DEF ScheduleTypes
<1>9. /\ paidOut' \in [Ticks -> Nat]
      /\ \A u \in Ticks \ {t} : paidOut'[u] = paidOut[u]
      /\ s \in Outside \/ outcome = "refused" => paidOut'[t] = paidOut[t]
      /\ s \notin Outside => paidOut'[t] = IF outcome = "paid" THEN 1 ELSE 0
  <2>1. s \notin Outside => paidOut[t] = 0
    BY <1>2, <1>6 DEF RunsAreTrue
  <2>2. QED
    BY <1>5, <2>1 DEF ScheduleTypes
<1>10. ScheduleTypes'
  BY <1>5, <1>6, <1>7, <1>8, <1>9 DEF ScheduleTypes
<1>11. RowsHeld'
  <2>1. ASSUME NEW u \in Schedules, NEW q \in Runners, rowOf'[u] = q
        PROVE  runner'[q].at # "idle" /\ runner'[q].tick = <<u, next'[u]>>
    <3>1. rowOf[u] = q /\ q # r /\ u # s
      BY <1>0, <1>2, <1>7, <2>1
    <3>2. runner'[q] = runner[q] /\ next'[u] = next[u]
      BY <1>6, <1>8, <3>1
    <3>3. QED
      BY <3>1, <3>2 DEF RowsHeld
  <2>2. QED
    BY <2>1 DEF RowsHeld
<1>12. TicksHeld'
  <2>1. ASSUME NEW q \in Runners, runner'[q].at # "idle"
        PROVE  /\ runner'[q].tick \in Ticks
               /\ \/ rowOf'[runner'[q].tick[1]] = q
                  \/ runner'[q].tick[1] \in Outside /\ runner'[q].tick \in lost
               /\ runner'[q].at = "holding" => runner'[q].tick[1] \in Outside
               /\ runner'[q].at = "recording" => runner'[q].outcome # "none"
    <3>1. q # r /\ runner'[q] = runner[q] /\ runner[q].tick \in Ticks
      BY <1>8, <2>1 DEF TicksHeld
    <3>2. runner[q].tick[1] \in Schedules
      BY <3>1, TickParts
    <3>3. QED
      BY <1>7, <2>1, <3>1, <3>2 DEF TicksHeld
  <2>2. QED
    BY <1>5, <2>1 DEF TicksHeld
<1>13. KeysArePayments'
  <2>1. \A u \in Ticks : u[1] \in Outside => paidOut'[u] = paidOut[u]
    BY <1>2, <1>9
  <2>2. \A q \in Runners : \A u \in Ticks :
          AboutToRecordPaid(q, u)' => AboutToRecordPaid(q, u)
    BY <1>8 DEF AboutToRecordPaid
  <2>3. QED
    BY <1>5, <2>1, <2>2 DEF KeysArePayments, KeyFor
<1>14. t[1] \in Outside /\ outcome = "paid" => KeyFor(t) \in keys
  BY <1>1, <1>4 DEF KeysArePayments, AboutToRecordPaid
<1>15. t[1] \in Outside /\ outcome = "refused" /\ t \notin lost =>
         KeyFor(t) \notin keys
  <2> SUFFICES ASSUME t[1] \in Outside, outcome = "refused", t \notin lost,
                      KeyFor(t) \in keys
               PROVE  FALSE
    OBVIOUS
  <2>1. PICK q \in Runners : rowOf[t[1]] = q /\ AboutToRecordPaid(q, t)
    BY <1>6 DEF KeysAreRecorded
  <2>2. q = r
    BY <1>2, <2>1
  <2>3. QED
    BY <1>4, <2>1, <2>2 DEF AboutToRecordPaid
<1>16. RunsAreTrue'
  <2>1. ASSUME NEW u \in Ticks
        PROVE  /\ u[1] \in Outside =>
                    /\ runOf'[u] = "paid" => KeyFor(u) \in keys
                    /\ runOf'[u] \in {"refused", "skipped"} /\ u \notin lost =>
                         KeyFor(u) \notin keys
               /\ u[1] \notin Outside =>
                    paidOut'[u] = IF runOf'[u] = "paid" THEN 1 ELSE 0
    <3>1. CASE u = t
      BY <1>2, <1>6, <1>9, <1>14, <1>15, <3>1
    <3>2. CASE u # t
      BY <1>6, <1>9, <3>2 DEF RunsAreTrue
    <3>3. QED
      BY <3>1, <3>2
  <2>2. QED
    BY <1>5, <2>1 DEF RunsAreTrue, KeyFor
<1>17. KeysAreRecorded'
  <2>1. ASSUME NEW u \in Ticks, u[1] \in Outside, KeyFor(u) \in keys,
               u \notin lost, runOf'[u] # "paid"
        PROVE  \E q \in Runners : rowOf'[u[1]] = q /\ AboutToRecordPaid(q, u)'
    <3>1. u # t
      BY <1>6, <1>15, <2>1
    <3>2. PICK q \in Runners : rowOf[u[1]] = q /\ AboutToRecordPaid(q, u)
      BY <1>6, <2>1, <3>1 DEF KeysAreRecorded
    <3>3. q # r /\ u[1] \in Schedules
      BY <1>1, <3>1, <3>2, TickParts DEF AboutToRecordPaid
    <3>4. QED
      BY <1>7, <1>8, <3>2, <3>3 DEF AboutToRecordPaid
  <2>2. QED
    BY <1>5, <2>1 DEF KeysAreRecorded, KeyFor
<1>18. QED
  BY <1>6, <1>10, <1>11, <1>12, <1>13, <1>16, <1>17

\* What leaves every tick, payment and row as it is.
LEMMA ElsewhereInv ==
  ASSUME ScheduleInv, time' \in 0..LastMinute,
         UNCHANGED <<next, runOf, paidOut, keys, rowOf, runner, lost>>
  PROVE  ScheduleInv'
BY DEF ScheduleInv, ScheduleTypes, RowsHeld, TicksHeld, KeysArePayments,
   KeysAreRecorded, RunsAreTrue, RunsInOrder, KeyFor, AboutToRecordPaid

\* Every step of a server keeps the invariant.
LEMMA RunnerInv ==
  ASSUME ScheduleInv, NEW r \in Runners,
         \/ TickStep(r) \/ ServerDies(r) \/ ConnectionLost(r)
         \/ TickCancelled(r)
  PROVE  ScheduleInv'
<1>1. CASE \E s \in Schedules : SelectTick(r, s)
  BY <1>1, SelectTickInv
<1>2. CASE PayInside(r)
  <2>1. /\ runner[r].at = "paying" /\ runner[r].tick[1] \notin Outside
        /\ UNCHANGED <<next, runOf, paidOut, keys, rowOf, lost, time>>
    BY <1>2 DEF PayInside, PaysInside, tickVars, payVars, boundVars
  <2>2. CASE Goes(r, "recording", "paid")
    BY <2>1, <2>2, AnswerInv
  <2>3. CASE Goes(r, "recording", "refused")
    BY <2>1, <2>3, AnswerInv
  <2>4. QED
    BY <1>2, <2>2, <2>3 DEF PayInside
<1>3. CASE FindPrior(r)
  <2>1. /\ runner[r].at = "paying" /\ runner[r].tick[1] \in Outside
        /\ UNCHANGED <<next, runOf, paidOut, keys, rowOf, lost, time>>
    BY <1>3 DEF FindPrior, PaysOutside, tickVars, payVars, lockRows, boundVars
  <2>2. CASE Goes(r, "recording", "paid") /\ TickKey(r) \in keys
    BY <2>1, <2>2, AnswerInv DEF TickKey, KeyFor
  <2>3. CASE Goes(r, "holding", "none")
    BY <2>1, <2>3, AnswerInv
  <2>4. CASE Goes(r, "recording", "refused")
    BY <2>1, <2>4, AnswerInv
  <2>5. QED
    BY <1>3, <2>2, <2>3, <2>4 DEF FindPrior
<1>4. CASE HoldOutside(r)
  <2>1. /\ runner[r].at = "holding" /\ runner[r].tick[1] \in Outside
        /\ UNCHANGED <<next, runOf, rowOf, lost, time>>
    BY <1>4 DEF HoldOutside, tickVars, lockRows, boundVars, ScheduleInv, TicksHeld
  <2>2. CASE Goes(r, "recording", "refused") /\ UNCHANGED payVars
    BY <2>1, <2>2, AnswerInv DEF payVars
  <2>3. CASE /\ TickKey(r) \in keys
             /\ Goes(r, "recording", "paid") /\ UNCHANGED payVars
    BY <2>1, <2>3, AnswerInv DEF payVars, TickKey, KeyFor
  <2>4. CASE /\ TickKey(r) \notin keys
             /\ keys' = keys \cup {TickKey(r)}
             /\ paidOut' = [paidOut EXCEPT ![runner[r].tick] = @ + 1]
             /\ Goes(r, "recording", "paid")
    BY <2>1, <2>4, PayOutInv DEF TickKey, KeyFor
  <2>5. QED
    BY <1>4, <2>2, <2>3, <2>4 DEF HoldOutside
<1>5. CASE RecordRun(r)
  <2>1. CASE rowOf[runner[r].tick[1]] = r
    BY <1>5, <2>1, RecordInv
  <2>2. CASE rowOf[runner[r].tick[1]] # r
    <3>1. /\ rowOf' = Freed(rowOf, r)
          /\ runner' = [runner EXCEPT ![r] = IdleRunner] /\ lost' = lost
          /\ UNCHANGED <<next, runOf, paidOut, keys, time>>
      BY <1>5, <2>2 DEF RecordRun, boundVars
    <3>2. ASSUME NEW s \in Schedules, rowOf[s] = r
          PROVE  FALSE
      <4>1. runner[r].tick = <<s, next[s]>>
        BY <3>2 DEF ScheduleInv, RowsHeld
      <4>2. QED
        BY <2>2, <3>2, <4>1
    <3>3. QED
      BY <3>1, <3>2, FreedInv
  <2>3. QED
    BY <2>1, <2>2
<1>6. CASE ServerDies(r)
  BY <1>6, FreedInv DEF ServerDies, Loses, tickVars, payVars
<1>7. CASE ConnectionLost(r)
  BY <1>7, FreedInv DEF ConnectionLost, Loses, tickVars, payVars
<1>8. CASE TickCancelled(r)
  <2>1. runner[r].at # "recording"
    BY <1>8 DEF TickCancelled, InCircle, PaysInside
  <2>2. QED
    BY <1>8, <2>1, FreedInv DEF TickCancelled, tickVars, payVars, boundVars
<1>9. QED
  BY <1>1, <1>2, <1>3, <1>4, <1>5, <1>6, <1>7, <1>8 DEF TickStep

\* Whatever servers die, lose their transaction or run beside each other, a tick
\* is paid at most once and its run says what was paid.
THEOREM RunsAlwaysSayWhatWasPaid == SchedulesSpec => []RunsSayWhatWasPaid
<1>1. ASSUME ScheduleInv, [SchedulesNext]_scheduleVars
      PROVE  ScheduleInv'
  <2>1. time \in 0..LastMinute
    BY <1>1 DEF ScheduleInv, ScheduleTypes
  <2>2. CASE MinutePasses
    <3>1. time' \in 0..LastMinute
      BY <2>1, <2>2, SchedulesAssumption DEF MinutePasses
    <3>2. QED
      BY <1>1, <2>2, <3>1, ElsewhereInv
      DEF MinutePasses, tickVars, payVars, lockRows
  <2>3. CASE \/ \E s \in Schedules : CancelAgentSchedule(s)
             \/ ArchiveLocks \/ ArchiveStops \/ ArchiveCancelled
             \/ UNCHANGED scheduleVars
    BY <1>1, <2>1, <2>3, ElsewhereInv
    DEF CancelAgentSchedule, ArchiveLocks, ArchiveStops, ArchiveCancelled,
        scheduleVars, tickVars, payVars, lockRows, boundVars
  <2>4. QED
    BY <1>1, <2>2, <2>3, RunnerInv, SkipInv DEF SchedulesNext
<1>2. QED
  BY <1>1, ScheduleInitInv, ScheduleInvSays, PTL DEF SchedulesSpec
-----------------------------------------------------------------------------
(* Cash-outs (CashOuts).                                                   *)

Statuses == {"none", "held", "submitted", "paid", "failed"}
DueStatuses == {"held", "submitted"}
Charged == {"held", "submitted", "paid"}

CashTypes ==
  /\ purse \in Int
  /\ cashOut \in [CashIds -> Statuses]
  /\ cashLock \in [CashIds -> TickServers \cup {NoServer}]
  /\ tick \in [TickServers -> SUBSET (CashIds \X DueStatuses)]
  /\ payout \in [CashIds -> {"none", "submitted", "paid", "failed"}]

\* A run has each cash-out once, in the status it was found; the one row it has
\* locked is still in that status, whatever other servers do.
RunsFound ==
  \A s \in TickServers :
    /\ \A p, q \in tick[s] : p[1] = q[1] => p = q
    /\ \A c \in CashIds : cashLock[c] = s => <<c, cashOut[c]>> \in tick[s]
    /\ \A c, d \in CashIds : cashLock[c] = s /\ cashLock[d] = s => c = d

\* What was submitted the partner knows of, and what was decided it decided.
PartnerKnows ==
  \A c \in CashIds :
    /\ cashOut[c] = "submitted" => payout[c] # "none"
    /\ cashOut[c] \in {"paid", "failed"} => payout[c] = cashOut[c]

PurseBalances == purse + CashAmount * CountIn(Charged) = CashOpening

CashInv == CashTypes /\ RunsFound /\ PartnerKnows /\ PurseBalances

\* The cash-outs the agent has been charged.
ChargedIds == {c \in CashIds : cashOut[c] \in Charged}

\* The invariant holds at first.
LEMMA CashInitInv == CashInit => CashInv
<1> SUFFICES ASSUME CashInit PROVE CashInv
  OBVIOUS
<1>1. CashTypes /\ RunsFound /\ PartnerKnows
  BY CashConstants
  DEF CashInit, CashTypes, RunsFound, PartnerKnows, Statuses
<1>2. CountIn(Charged) = 0
  <2>1. {c \in CashIds : cashOut[c] \in Charged} = {}
    BY DEF CashInit, Charged
  <2>2. QED
    BY <2>1, FS_EmptySet DEF CountIn
<1>3. PurseBalances
  <2>1. CashAmount * 0 = 0
    BY CashConstants
  <2>2. QED
    BY <1>2, <2>1, CashConstants DEF CashInit, PurseBalances
<1>4. QED
  BY <1>1, <1>3 DEF CashInv

\* The number charged after one cash-out changed its status.
LEMMA ChargedCount ==
  ASSUME CashTypes, NEW c \in CashIds, NEW status \in Statuses,
         cashOut' = [cashOut EXCEPT ![c] = status]
  PROVE  /\ CountIn(Charged) \in Nat
         /\ cashOut[c] \in Charged <=> status \in Charged
              => CountIn(Charged)' = CountIn(Charged)
         /\ cashOut[c] \notin Charged /\ status \in Charged
              => CountIn(Charged)' = CountIn(Charged) + 1
         /\ cashOut[c] \in Charged /\ status \notin Charged
              => CountIn(Charged)' = CountIn(Charged) - 1
<1> DEFINE after == {d \in CashIds : cashOut'[d] \in Charged}
<1>1. /\ CountIn(Charged) = Cardinality(ChargedIds)
      /\ CountIn(Charged)' = Cardinality(after)
  BY DEF CountIn, ChargedIds, Charged
<1>2. IsFiniteSet(ChargedIds)
  <2>1. ChargedIds \subseteq CashIds /\ IsFiniteSet(CashIds)
    BY CashConstants DEF ChargedIds
  <2>2. QED
    BY <2>1, FS_Subset
<1>3. Cardinality(ChargedIds) \in Nat
  BY <1>2, FS_CardinalityType
<1>4. /\ cashOut'[c] = status
      /\ \A d \in CashIds \ {c} : cashOut'[d] = cashOut[d]
  BY DEF CashTypes
<1>5. CASE cashOut[c] \in Charged <=> status \in Charged
  <2>1. after = ChargedIds
    BY <1>4, <1>5 DEF ChargedIds
  <2>2. QED
    BY <1>1, <1>3, <1>5, <2>1
<1>6. CASE cashOut[c] \notin Charged /\ status \in Charged
  <2>1. after = ChargedIds \cup {c} /\ c \notin ChargedIds
    BY <1>4, <1>6 DEF ChargedIds
  <2>2. Cardinality(after) = Cardinality(ChargedIds) + 1
    BY <1>2, <2>1, FS_AddElement
  <2>3. QED
    BY <1>1, <1>3, <1>6, <2>2
<1>7. CASE cashOut[c] \in Charged /\ status \notin Charged
  <2>1. after = ChargedIds \ {c} /\ c \in ChargedIds
    BY <1>4, <1>7 DEF ChargedIds
  <2>2. Cardinality(after) = Cardinality(ChargedIds) - 1
    BY <1>2, <2>1, FS_RemoveElement
  <2>3. QED
    BY <1>1, <1>3, <1>7, <2>2
<1>8. QED
  BY <1>5, <1>6, <1>7

\* One cash-out more, or one less, is one amount more, or less.
LEMMA AmountTimes ==
  ASSUME NEW n \in Nat
  PROVE  /\ CashAmount * n \in Int
         /\ CashAmount * (n + 1) = CashAmount * n + CashAmount
         /\ CashAmount * (n - 1) = CashAmount * n - CashAmount
BY CashConstants

\* A cash-out is asked for: one more is charged.
LEMMA RequestCashInv ==
  ASSUME CashInv, NEW c \in CashIds, RequestCashOut(c)
  PROVE  CashInv'
<1> USE DEF CashInv
<1>1. /\ cashOut[c] = "none" /\ cashOut' = [cashOut EXCEPT ![c] = "held"]
      /\ purse' = purse - CashAmount
      /\ UNCHANGED <<cashLock, tick, payout>>
  BY DEF RequestCashOut
<1>2. /\ cashOut' \in [CashIds -> Statuses] /\ cashOut'[c] = "held"
      /\ \A d \in CashIds \ {c} : cashOut'[d] = cashOut[d]
  BY <1>1 DEF CashTypes, Statuses
<1>3. CashTypes'
  BY <1>1, <1>2, CashConstants DEF CashTypes
<1>4. RunsFound'
  <2>1. ASSUME NEW s \in TickServers, cashLock[c] = s
        PROVE  FALSE
    <3>1. <<c, "none">> \in tick[s]
      BY <1>1, <2>1 DEF RunsFound
    <3>2. tick[s] \subseteq CashIds \X DueStatuses
      BY DEF CashTypes
    <3>3. QED
      BY <3>1, <3>2 DEF DueStatuses
  <2>2. QED
    BY <1>1, <1>2, <2>1 DEF RunsFound
<1>5. PartnerKnows'
  BY <1>1, <1>2 DEF PartnerKnows
<1>6. PurseBalances'
  <2>1. CountIn(Charged) \in Nat /\ CountIn(Charged)' = CountIn(Charged) + 1
    BY <1>1, ChargedCount DEF Charged, Statuses
  <2>2. /\ CashAmount * CountIn(Charged) \in Int
        /\ CashAmount * (CountIn(Charged) + 1)
             = CashAmount * CountIn(Charged) + CashAmount
    BY <2>1, AmountTimes
  <2>3. CashAmount * CountIn(Charged)' = CashAmount * CountIn(Charged) + CashAmount
    BY <2>1, <2>2
  <2>4. QED
    BY <1>1, <2>2, <2>3, CashConstants DEF PurseBalances, CashTypes
<1>7. QED
  BY <1>3, <1>4, <1>5, <1>6

\* What leaves the statuses and the purse keeps their balance.
LEMMA PurseKept ==
  ASSUME PurseBalances, cashOut' = cashOut, purse' = purse
  PROVE  PurseBalances'
BY DEF PurseBalances, CountIn, Charged
\* The row a server has locked is in the status its run found.
LEMMA RowAsFound ==
  ASSUME CashInv, NEW s \in TickServers, NEW c \in CashIds, NEW status,
         HasRow(s, c, status)
  PROVE  cashLock[c] = s /\ cashOut[c] = status
<1>1. /\ cashLock[c] = s /\ <<c, status>> \in tick[s]
      /\ <<c, cashOut[c]>> \in tick[s]
  BY DEF HasRow, CurrentRow, CashInv, RunsFound
<1>2. <<c, status>> = <<c, cashOut[c]>>
  <2>1. <<c, status>>[1] = <<c, cashOut[c]>>[1]
    OBVIOUS
  <2>2. QED
    BY <1>1, <2>1 DEF CashInv, RunsFound
<1>3. QED
  BY <1>1, <1>2

\* A server unlocks its row, and goes on with its run or ends it.
LEMMA UnlockKeeps ==
  ASSUME CashInv, NEW s \in TickServers, NEW c \in CashIds, cashLock[c] = s,
         NEW rest \in SUBSET tick[s], Unlock(s, c, rest),
         \A d \in CashIds \ {c} : cashOut'[d] = cashOut[d]
  PROVE  /\ cashLock' \in [CashIds -> TickServers \cup {NoServer}]
         /\ tick' \in [TickServers -> SUBSET (CashIds \X DueStatuses)]
         /\ RunsFound'
<1> USE DEF CashInv
<1>0. \A u \in TickServers : u # NoServer
  BY CashConstants
<1>1. /\ cashLock' = [cashLock EXCEPT ![c] = NoServer]
      /\ tick' = [tick EXCEPT ![s] = rest]
  BY DEF Unlock
<1>2. /\ cashLock' \in [CashIds -> TickServers \cup {NoServer}]
      /\ cashLock'[c] = NoServer
      /\ \A d \in CashIds \ {c} : cashLock'[d] = cashLock[d] /\ cashLock'[d] # s
  BY <1>1 DEF CashTypes, RunsFound
<1>3. /\ tick' \in [TickServers -> SUBSET (CashIds \X DueStatuses)]
      /\ tick'[s] = rest
      /\ \A u \in TickServers \ {s} : tick'[u] = tick[u]
  BY <1>1 DEF CashTypes
<1>4. ASSUME NEW u \in TickServers
      PROVE  /\ \A p, q \in tick'[u] : p[1] = q[1] => p = q
             /\ \A d \in CashIds : cashLock'[d] = u => <<d, cashOut'[d]>> \in tick'[u]
             /\ \A d, e \in CashIds : cashLock'[d] = u /\ cashLock'[e] = u => d = e
  <2>1. \A p, q \in tick'[u] : p[1] = q[1] => p = q
    BY <1>3 DEF RunsFound
  <2>2. ASSUME NEW d \in CashIds, cashLock'[d] = u
        PROVE  <<d, cashOut'[d]>> \in tick'[u]
    <3>1. d # c /\ u # s /\ cashLock[d] = u
      BY <1>0, <1>2, <2>2
    <3>2. QED
      BY <1>3, <3>1 DEF RunsFound
  <2>3. \A d, e \in CashIds : cashLock'[d] = u /\ cashLock'[e] = u => d = e
    BY <1>0, <1>2 DEF RunsFound
  <2>4. QED
    BY <2>1, <2>2, <2>3
<1>5. QED
  BY <1>2, <1>3, <1>4 DEF RunsFound

\* The steps of a run that change no cash-out: it starts, it takes a row or
\* leaves it, a call to the partner fails.
LEMMA RunCashInv ==
  ASSUME CashInv, NEW s \in TickServers, NEW c \in CashIds,
         \/ HandOver(s, c) \/ StartTick(s)
         \/ TakeRow(s, c, "held") \/ TakeRow(s, c, "submitted")
         \/ SubmitLost(s, c) \/ SettleLost(s, c)
  PROVE  CashInv'
<1> USE DEF CashInv
<1>0. \A u \in TickServers : u # NoServer
  BY CashConstants
<1>1. purse' = purse /\ cashOut' = cashOut /\ PurseBalances'
  <2>1. purse' = purse /\ cashOut' = cashOut
    BY DEF HandOver, StartTick, TakeRow, SubmitLost, SettleLost
  <2>2. QED
    BY <2>1, PurseKept
<1>2. CASE HandOver(s, c) \/ StartTick(s)
  <2>1. PICK found \in SUBSET (CashIds \X DueStatuses) :
          /\ tick[s] = {} /\ tick' = [tick EXCEPT ![s] = found]
          /\ \A p, q \in found : p[1] = q[1] => p = q
          /\ UNCHANGED <<cashLock, payout>>
    <3>1. CASE HandOver(s, c)
      <4>1. {<<c, "held">>} \in SUBSET (CashIds \X DueStatuses)
        BY DEF DueStatuses
      <4>2. QED
        BY <3>1, <4>1 DEF HandOver
    <3>2. CASE StartTick(s)
      <4> DEFINE found == {<<d, cashOut[d]>> :
                             d \in {d \in CashIds : DueCashOut(cashOut[d])}}
      <4>1. found \in SUBSET (CashIds \X DueStatuses)
        BY DEF DueStatuses, DueCashOut
      <4>2. \A p, q \in found : p[1] = q[1] => p = q
        OBVIOUS
      <4>3. /\ tick[s] = {} /\ tick' = [tick EXCEPT ![s] = found]
            /\ UNCHANGED <<cashLock, payout>>
        BY <3>2 DEF StartTick
      <4> HIDE DEF found
      <4>4. QED
        BY <4>1, <4>2, <4>3
    <3>3. QED
      BY <1>2, <3>1, <3>2
  <2>2. /\ tick' \in [TickServers -> SUBSET (CashIds \X DueStatuses)]
        /\ tick'[s] = found
        /\ \A u \in TickServers \ {s} : tick'[u] = tick[u]
    BY <2>1 DEF CashTypes
  <2>3. CashTypes'
    BY <1>1, <2>1, <2>2 DEF CashTypes
  <2>4. RunsFound'
    <3>1. \A d \in CashIds : cashLock[d] # s
      BY <2>1 DEF RunsFound
    <3>2. QED
      BY <1>1, <2>1, <2>2, <3>1 DEF RunsFound
  <2>5. PartnerKnows'
    BY <1>1, <2>1 DEF PartnerKnows
  <2>6. QED
    BY <1>1, <2>3, <2>4, <2>5
<1>3. ASSUME NEW status \in DueStatuses, TakeRow(s, c, status)
      PROVE  CashInv'
  <2>1. /\ CurrentRow(s, c, status) /\ \A d \in CashIds : cashLock[d] # s
        /\ UNCHANGED payout
    BY <1>3 DEF TakeRow
  <2>2. PartnerKnows'
    BY <1>1, <2>1 DEF PartnerKnows
  <2>3. CASE RowTaken(c, status)
    <3>1. /\ cashLock' = [cashLock EXCEPT ![c] = s] /\ tick' = tick
          /\ cashOut[c] = status /\ cashLock[c] = NoServer
      BY <1>3, <2>3 DEF TakeRow, RowTaken
    <3>2. /\ cashLock' \in [CashIds -> TickServers \cup {NoServer}]
          /\ cashLock'[c] = s
          /\ \A d \in CashIds \ {c} : cashLock'[d] = cashLock[d]
      BY <3>1 DEF CashTypes
    <3>3. CashTypes'
      BY <1>1, <2>1, <3>1, <3>2 DEF CashTypes
    <3>4. <<c, cashOut[c]>> \in tick[s]
      BY <2>1, <3>1 DEF CurrentRow
    <3>5. RunsFound'
      BY <1>0, <1>1, <2>1, <3>1, <3>2, <3>4 DEF RunsFound
    <3>6. QED
      BY <1>1, <2>2, <3>3, <3>5
  <2>4. CASE ~RowTaken(c, status)
    <3>1. tick' = [tick EXCEPT ![s] = Rest(s, c)] /\ cashLock' = cashLock
      BY <1>3, <2>4 DEF TakeRow
    <3>2. /\ tick' \in [TickServers -> SUBSET (CashIds \X DueStatuses)]
          /\ tick'[s] \subseteq tick[s]
          /\ \A u \in TickServers \ {s} : tick'[u] = tick[u]
      BY <3>1 DEF CashTypes, Rest
    <3>3. CashTypes'
      BY <1>1, <2>1, <3>1, <3>2 DEF CashTypes
    <3>4. RunsFound'
      BY <1>1, <2>1, <3>1, <3>2 DEF RunsFound
    <3>5. QED
      BY <1>1, <2>2, <3>3, <3>4
  <2>5. QED
    BY <2>3, <2>4
<1>4. CASE SubmitLost(s, c) \/ SettleLost(s, c)
  <2>1. cashLock[c] = s /\ Unlock(s, c, {})
    BY <1>4 DEF SubmitLost, SettleLost, HasRow
  <2>2. /\ cashLock' \in [CashIds -> TickServers \cup {NoServer}]
        /\ tick' \in [TickServers -> SUBSET (CashIds \X DueStatuses)]
        /\ RunsFound'
    BY <1>1, <2>1, UnlockKeeps
  <2>3. Pay(c) \/ payout' = payout
    BY <1>4 DEF SubmitLost, SettleLost
  <2>4. /\ payout' \in [CashIds -> {"none", "submitted", "paid", "failed"}]
        /\ \A d \in CashIds : payout[d] # "none" => payout'[d] = payout[d]
    BY <2>3 DEF Pay, CashTypes
  <2>5. CashTypes'
    BY <1>1, <2>2, <2>4 DEF CashTypes
  <2>6. PartnerKnows'
    BY <1>1, <2>4 DEF PartnerKnows
  <2>7. QED
    BY <1>1, <2>2, <2>5, <2>6
<1>5. QED
  BY <1>2, <1>3, <1>4 DEF DueStatuses
\* The hand-over: the partner knows of the cash-out before its row says so.
LEMMA SubmitCashInv ==
  ASSUME CashInv, NEW s \in TickServers, NEW c \in CashIds, SubmitCashOut(s, c)
  PROVE  CashInv'
<1> USE DEF CashInv
<1>1. cashLock[c] = s /\ cashOut[c] = "held"
  BY RowAsFound DEF SubmitCashOut
<1>2. /\ cashOut' = [cashOut EXCEPT ![c] = "submitted"]
      /\ Pay(c) /\ Unlock(s, c, Rest(s, c)) /\ purse' = purse
  BY DEF SubmitCashOut
<1>3. /\ cashOut' \in [CashIds -> Statuses] /\ cashOut'[c] = "submitted"
      /\ \A d \in CashIds \ {c} : cashOut'[d] = cashOut[d]
  BY <1>2 DEF CashTypes, Statuses
<1>4. /\ payout' \in [CashIds -> {"none", "submitted", "paid", "failed"}]
      /\ payout'[c] # "none"
      /\ \A d \in CashIds \ {c} : payout'[d] = payout[d]
  BY <1>2 DEF Pay, CashTypes
<1>5. /\ cashLock' \in [CashIds -> TickServers \cup {NoServer}]
      /\ tick' \in [TickServers -> SUBSET (CashIds \X DueStatuses)]
      /\ RunsFound'
  <2>1. Rest(s, c) \in SUBSET tick[s]
    BY DEF Rest
  <2>2. QED
    BY <1>1, <1>2, <1>3, <2>1, UnlockKeeps
<1>6. CashTypes'
  BY <1>2, <1>3, <1>4, <1>5 DEF CashTypes
<1>7. PartnerKnows'
  BY <1>3, <1>4 DEF PartnerKnows
<1>8. PurseBalances'
  <2>1. CountIn(Charged)' = CountIn(Charged)
    BY <1>1, <1>2, ChargedCount DEF Charged, Statuses
  <2>2. QED
    BY <1>2, <2>1 DEF PurseBalances
<1>9. QED
  BY <1>5, <1>6, <1>7, <1>8

\* The decision: recorded of a row still submitted, so once, and as the partner
\* says.
LEMMA SettleCashInv ==
  ASSUME CashInv, NEW s \in TickServers, NEW c \in CashIds, SettleCashOut(s, c)
  PROVE  CashInv'
<1> USE DEF CashInv
<1>1. cashLock[c] = s /\ cashOut[c] = "submitted"
  BY RowAsFound DEF SettleCashOut
<1>2. payout[c] \in {"submitted", "paid", "failed"}
  BY <1>1 DEF PartnerKnows, CashTypes
<1>3. Unlock(s, c, Rest(s, c)) /\ payout' = payout
  BY DEF SettleCashOut
<1>4. /\ cashOut' = [cashOut EXCEPT ![c] = payout[c]]
      /\ purse' = purse + (IF payout[c] = "failed" THEN CashAmount ELSE 0)
  <2>1. CASE payout[c] = "submitted"
    <3>1. cashOut' = cashOut /\ purse' = purse
      BY <2>1 DEF SettleCashOut
    <3>2. cashOut = [cashOut EXCEPT ![c] = "submitted"]
      BY <1>1 DEF CashTypes
    <3>3. QED
      BY <2>1, <3>1, <3>2 DEF CashTypes
  <2>2. QED
    BY <2>1 DEF SettleCashOut
<1>5. /\ cashOut' \in [CashIds -> Statuses] /\ cashOut'[c] = payout[c]
      /\ \A d \in CashIds \ {c} : cashOut'[d] = cashOut[d]
  BY <1>2, <1>4 DEF CashTypes, Statuses
<1>6. /\ cashLock' \in [CashIds -> TickServers \cup {NoServer}]
      /\ tick' \in [TickServers -> SUBSET (CashIds \X DueStatuses)]
      /\ RunsFound'
  <2>1. Rest(s, c) \in SUBSET tick[s]
    BY DEF Rest
  <2>2. QED
    BY <1>1, <1>3, <1>5, <2>1, UnlockKeeps
<1>7. CashTypes'
  BY <1>3, <1>4, <1>5, <1>6, CashConstants DEF CashTypes
<1>8. PartnerKnows'
  BY <1>2, <1>3, <1>5 DEF PartnerKnows
<1>9. PurseBalances'
  <2>1. CountIn(Charged) \in Nat
    BY <1>2, <1>4, ChargedCount DEF Statuses
  <2>2. CASE payout[c] = "failed"
    <3>1. CountIn(Charged)' = CountIn(Charged) - 1
      BY <1>1, <1>4, <2>2, ChargedCount DEF Charged, Statuses
    <3>2. /\ CashAmount * CountIn(Charged) \in Int
          /\ CashAmount * (CountIn(Charged) - 1)
               = CashAmount * CountIn(Charged) - CashAmount
      BY <2>1, AmountTimes
    <3>3. CashAmount * CountIn(Charged)'
            = CashAmount * CountIn(Charged) - CashAmount
      BY <3>1, <3>2
    <3>4. QED
      BY <1>4, <2>2, <3>2, <3>3, CashConstants DEF PurseBalances, CashTypes
  <2>3. CASE payout[c] # "failed"
    <3>1. CountIn(Charged)' = CountIn(Charged)
      BY <1>1, <1>2, <1>4, <2>3, ChargedCount DEF Charged, Statuses
    <3>2. purse' = purse
      BY <1>4, <2>3 DEF CashTypes
    <3>3. QED
      BY <3>1, <3>2 DEF PurseBalances
  <2>4. QED
    BY <2>2, <2>3
<1>10. QED
  BY <1>6, <1>7, <1>8, <1>9

\* The agent is out exactly the cash-outs open or paid, and credits come back
\* only for a payment the partner did not make, whichever servers run the tick
\* beside each other and whatever commits and answers are lost.
THEOREM CashOutsAlwaysReconcile == CashSpec => []CashOutsReconcile
<1>1. ASSUME CashInv, [CashNext]_cashVars
      PROVE  CashInv'
  <2>1. ASSUME NEW c \in CashIds, PartnerSettles(c)
        PROVE  CashInv'
    <3> USE <1>1 DEF CashInv
    <3>1. /\ UNCHANGED <<purse, cashOut, cashLock, tick>>
          /\ payout[c] = "submitted"
          /\ payout' \in [CashIds -> {"none", "submitted", "paid", "failed"}]
          /\ payout'[c] # "none"
          /\ \A d \in CashIds \ {c} : payout'[d] = payout[d]
      BY <2>1 DEF PartnerSettles, CashTypes
    <3>2. CashTypes' /\ RunsFound' /\ PurseBalances'
      BY <3>1, PurseKept DEF CashTypes, RunsFound
    <3>3. PartnerKnows'
      BY <3>1 DEF PartnerKnows
    <3>4. QED
      BY <3>2, <3>3
  <2>2. CASE UNCHANGED cashVars
    <3>1. PurseBalances'
      BY <1>1, <2>2, PurseKept DEF cashVars, CashInv
    <3>2. QED
      BY <1>1, <2>2, <3>1 DEF cashVars, CashInv, CashTypes, RunsFound,
         PartnerKnows
  <2>3. CASE \E s \in TickServers : StartTick(s)
    <3>1. PICK s \in TickServers : StartTick(s)
      BY <2>3
    <3>2. \E c \in CashIds : TRUE
      BY <3>1 DEF StartTick
    <3>3. QED
      BY <1>1, <3>1, <3>2, RunCashInv
  <2>4. QED
    BY <1>1, <2>1, <2>2, <2>3, RequestCashInv, RunCashInv, SubmitCashInv,
       SettleCashInv DEF CashNext, RunStep
<1>2. CashInv => CashOutsReconcile
  BY DEF CashInv, PurseBalances, PartnerKnows, CashOutsReconcile, Charged
<1>3. QED
  BY <1>1, <1>2, CashInitInv, PTL DEF CashSpec
-----------------------------------------------------------------------------
(* Rules and approvals (AgentRules).                                       *)

BoostRow == [from : Nat, value : Nat, until : Nat]
QuestionRow == [status : {"none", "held", "debited", "closed"}, amount : Nat]
ApprovalStatuses == {"none", "pending", "approved", "denied", "used"}

\* What the limits are compared with and are compared to.
LimitTypes ==
  /\ day \in Days /\ rules \in RuleSets
  /\ boost \in BoostRow /\ boosting \in BoostRow
  /\ spent \in [Days -> Int]
  /\ question \in [Questions -> QuestionRow]

\* The numbers the rules compare are naturals.
LEMMA RuleNumbers ==
  /\ Sizes \subseteq Nat /\ Days \subseteq Nat
  /\ \A r \in RuleSets : r.daily \in Nat
BY RulesConstants DEF Days

\* The types hold at first.
LEMMA LimitInit == RulesInit => LimitTypes
<1>1. NoBoost \in BoostRow /\ Idle \in QuestionRow /\ 0 \in Days
  BY RulesConstants DEF NoBoost, BoostRow, Idle, QuestionRow, Days
<1>2. QED
  BY <1>1 DEF RulesInit, LimitTypes

\* The limit in force, boosts laid over it, is a natural.
LEMMA DailyLimitNat ==
  ASSUME LimitTypes
  PROVE  DailyLimit \in Nat
<1>1. rules.daily \in Nat /\ boost.value \in Nat
  BY RuleNumbers DEF LimitTypes, BoostRow
<1>2. QED
  BY <1>1 DEF DailyLimit, Boosted

\* What a posting of n does to the day's total.
LEMMA PostRow ==
  ASSUME LimitTypes, NEW n \in Int, Post(n)
  PROVE  /\ spent' \in [Days -> Int] /\ spent'[day] = spent[day] + n
         /\ spent[day] \in Int
BY DEF LimitTypes, Post

\* Whatever raises what the limits count leaves it within the limit.
Bound == spent'[day] > spent[day] => DailyLimit = 0 \/ spent'[day] <= DailyLimit

\* A question is let through within the limit.
LEMMA StartKeepsLimit ==
  ASSUME LimitTypes, NEW q \in Questions, NEW way \in {"held", "debited"},
         NEW amount \in Nat, StartQuestion(q, way, amount)
  PROVE  LimitTypes' /\ Bound
<1>1. /\ WithinLimit(amount) /\ Post(amount)
      /\ question' = [question EXCEPT ![q] = [status |-> way, amount |-> amount]]
      /\ UNCHANGED <<day, rules, boost, boosting>>
  BY DEF StartQuestion, LetThrough, ruleVars
<1>2. /\ spent' \in [Days -> Int] /\ spent'[day] = spent[day] + amount
      /\ spent[day] \in Int
  BY <1>1, PostRow
<1>3. [status |-> way, amount |-> amount] \in QuestionRow
  BY DEF QuestionRow
<1>4. LimitTypes'
  BY <1>1, <1>2, <1>3 DEF LimitTypes
<1>5. Bound
  BY <1>1, <1>2, DailyLimitNat DEF Bound, WithinLimit
<1>6. QED
  BY <1>4, <1>5

\* A question is closed: a hold at no more than it held, a debit at no more than
\* the limit leaves.
LEMMA CloseKeepsLimit ==
  ASSUME LimitTypes, NEW q \in Questions, NEW n \in Nat,
         CloseHold(q, n) \/ CloseDebit(q, n)
  PROVE  LimitTypes' /\ Bound
<1>1. question[q] \in QuestionRow
  BY DEF LimitTypes
<1>2. PICK a \in Nat : a = question[q].amount
  BY <1>1 DEF QuestionRow
<1>3. /\ question' = [question EXCEPT ![q].status = "closed"]
      /\ UNCHANGED <<day, rules, boost, boosting>>
  BY DEF CloseHold, CloseDebit, ruleVars
<1>4. question' \in [Questions -> QuestionRow]
  BY <1>1, <1>3 DEF LimitTypes, QuestionRow
<1>5. DailyLimit \in Nat /\ spent[day] \in Int
  BY DailyLimitNat DEF LimitTypes
<1>6. CASE CloseHold(q, n)
  <2>1. n <= a /\ Post(n - a)
    BY <1>2, <1>6 DEF CloseHold
  <2>2. spent' \in [Days -> Int] /\ spent'[day] = spent[day] + (n - a)
    BY <2>1, PostRow
  <2>3. QED
    BY <1>3, <1>4, <1>5, <2>1, <2>2 DEF LimitTypes, Bound
<1>7. CASE CloseDebit(q, n)
  <2>1. PICK more \in Int :
          /\ Post(more)
          /\ more <= 0 \/ DailyLimit = 0 \/ spent[day] + more <= DailyLimit
    <3>1. Post(IF n - a > 0 THEN AgentAllowance(n - a) ELSE n - a)
      BY <1>2, <1>7 DEF CloseDebit
    <3>2. CASE n - a > 0
      <4>1. /\ AgentAllowance(n - a) \in Int
            /\ \/ AgentAllowance(n - a) <= 0 \/ DailyLimit = 0
               \/ spent[day] + AgentAllowance(n - a) <= DailyLimit
        BY <1>5, <3>2 DEF AgentAllowance
      <4>2. QED
        BY <3>1, <3>2, <4>1
    <3>3. CASE ~(n - a > 0)
      <4>1. n - a \in Int /\ n - a <= 0 /\ Post(n - a)
        BY <3>1, <3>3
      <4>2. QED
        BY <4>1
    <3>4. QED
      BY <3>2, <3>3
  <2>2. spent' \in [Days -> Int] /\ spent'[day] = spent[day] + more
    BY <2>1, PostRow
  <2>3. QED
    BY <1>3, <1>4, <1>5, <2>1, <2>2 DEF LimitTypes, Bound
<1>8. QED
  BY <1>6, <1>7

\* A payment is let through within the limit; a transfer is not counted.
LEMMA PayKeepsLimit ==
  ASSUME LimitTypes, NEW f \in Payments, NEW n \in Nat,
         PayOut(f, n) \/ SendOut(f, n)
  PROVE  LimitTypes' /\ Bound
<1>1. UNCHANGED <<day, rules, boost, boosting, question>>
  BY DEF PayOut, SendOut, ruleVars
<1>2. CASE PayOut(f, n)
  <2>1. WithinLimit(n) /\ Post(n)
    BY <1>2 DEF PayOut, LetThrough
  <2>2. /\ spent' \in [Days -> Int] /\ spent'[day] = spent[day] + n
        /\ spent[day] \in Int
    BY <2>1, PostRow
  <2>3. QED
    BY <1>1, <2>1, <2>2, DailyLimitNat DEF LimitTypes, Bound, WithinLimit
<1>3. CASE SendOut(f, n)
  <2>1. spent' = spent /\ spent[day] \in Int
    BY <1>3 DEF SendOut, LimitTypes
  <2>2. QED
    BY <1>1, <2>1 DEF LimitTypes, Bound
<1>4. QED
  BY <1>2, <1>3

\* Nothing else posts.
LEMMA OthersKeepLimit ==
  ASSUME LimitTypes,
         \/ Tick \/ OwnerChange \/ Approve
         \/ \E f \in Fingerprints, n \in Nat : Refused(f, n)
         \/ UNCHANGED rulesVars
  PROVE  LimitTypes' /\ Bound
<1> USE DEF moneyVars, ruleVars
<1>0. spent[day] \in Int
  BY DEF LimitTypes
<1>1. CASE Tick
  <2>1. day' \in Days
    BY <1>1, RulesConstants DEF Tick, Days, LimitTypes
  <2>2. QED
    BY <1>0, <1>1, <2>1 DEF Tick, LimitTypes, Bound
<1>2. CASE OwnerChange
  <2>1. ASSUME NEW r \in RuleSets, SetAgentRules(r)
        PROVE  LimitTypes' /\ Bound
    BY <1>0, <2>1 DEF SetAgentRules, LimitTypes, Bound
  <2>2. ASSUME NEW n \in Sizes, NEW d \in Days, BoostRead(n, d)
        PROVE  LimitTypes' /\ Bound
    <3> DEFINE row == [from |-> rules.daily, value |-> n, until |-> d]
    <3>1. row \in BoostRow
      BY RuleNumbers DEF BoostRow, LimitTypes
    <3>2. /\ boosting' = row
          /\ UNCHANGED <<day, rules, boost, spent, question>>
      BY <2>2 DEF BoostRead
    <3> HIDE DEF row
    <3>3. QED
      BY <1>0, <3>1, <3>2 DEF LimitTypes, Bound
  <2>3. CASE BoostWrite \/ EndAgentBoost
    <3>1. NoBoost \in BoostRow
      BY DEF NoBoost, BoostRow
    <3>2. QED
      BY <1>0, <2>3, <3>1 DEF BoostWrite, EndAgentBoost, LimitTypes, Bound
  <2>4. ASSUME NEW who \in {"agent", "all"}, NEW p \in BOOLEAN, SetPaused(who, p)
        PROVE  LimitTypes' /\ Bound
    BY <1>0, <2>4 DEF SetPaused, LimitTypes, Bound
  <2>5. QED
    BY <1>2, <2>1, <2>2, <2>3, <2>4 DEF OwnerChange
<1>3. CASE \/ Approve \/ UNCHANGED rulesVars
           \/ \E f \in Fingerprints, n \in Nat : Refused(f, n)
  <2>1. UNCHANGED <<day, rules, boost, boosting, spent, question>>
    BY <1>3 DEF Approve, FileApproval, RegisterPasskey, ApprovalChallenge,
       AuthorizeApprovalDecision, DecideAgentApproval, Refused, rulesVars
  <2>2. QED
    BY <1>0, <2>1 DEF LimitTypes, Bound
<1>4. QED
  BY <1>1, <1>2, <1>3

\* Every step keeps the types, and raises the day's total only within the limit.
LEMMA StepKeepsLimit ==
  ASSUME LimitTypes, [RulesNext]_rulesVars
  PROVE  LimitTypes' /\ Bound
<1>1. CASE Spend
  <2>1. PICK q \in Questions, n \in Sizes \cup {0} :
          \/ StartQuestion(q, "held", n) \/ StartQuestion(q, "debited", n)
          \/ Refused(q, n) \/ CloseHold(q, n) \/ CloseDebit(q, n)
    BY <1>1 DEF Spend
  <2>2. n \in Nat /\ q \in Fingerprints
    BY RuleNumbers DEF Fingerprints
  <2>3. QED
    BY <2>1, <2>2, StartKeepsLimit, CloseKeepsLimit, OthersKeepLimit
<1>2. CASE PayOrSend
  <2>1. PICK f \in Payments, n \in Sizes :
          PayOut(f, n) \/ SendOut(f, n) \/ Refused(f, n)
    BY <1>2 DEF PayOrSend
  <2>2. n \in Nat /\ f \in Fingerprints
    BY RuleNumbers DEF Fingerprints
  <2>3. QED
    BY <2>1, <2>2, PayKeepsLimit, OthersKeepLimit
<1>3. QED
  BY <1>1, <1>2, OthersKeepLimit DEF RulesNext

\* Concurrent requests cannot together pass the daily limit: whatever raises
\* the day's spending leaves it within the limit in force then.
THEOREM LimitAlwaysBinds == RulesSpec => LimitBindsSpending
<1>1. LimitTypes /\ [RulesNext]_rulesVars => LimitTypes'
  BY StepKeepsLimit
<1>2. RulesSpec => []LimitTypes
  BY <1>1, LimitInit, PTL DEF RulesSpec
<1>3. LimitTypes /\ [RulesNext]_rulesVars =>
        [spent'[day] > spent[day] =>
           DailyLimit = 0 \/ spent'[day] <= DailyLimit]_rulesVars
  BY StepKeepsLimit DEF Bound
<1>4. QED
  BY <1>2, <1>3, PTL DEF RulesSpec, LimitBindsSpending

-----------------------------------------------------------------------------
(* AgentRules: an approval lets one movement through.                       *)

\* The approvals filed of a fingerprint, and those a movement has used.
FiledStatuses == {"pending", "approved", "denied", "used"}
Filed(f) == Approvals(f, FiledStatuses)
Used(f) == Approvals(f, {"used"})

ApprovalTypes ==
  /\ approval \in [ApprovalIDs -> ApprovalStatuses]
  /\ passed \in [Fingerprints -> Nat]

\* Approvals of a fingerprint are filed one after the other, none in the place of
\* another; and every movement above the amount used one up.
FiledInOrder ==
  \A f \in Fingerprints : \A n \in 1..MaxApprovals :
    approval[<<f, n>>] # "none" <=> n <= Cardinality(Filed(f))

PassedWereUsed == \A f \in Fingerprints : passed[f] = Cardinality(Used(f))

ApprovalInv == ApprovalTypes /\ FiledInOrder /\ PassedWereUsed

\* The approvals of a fingerprint are finitely many.
LEMMA ApprovalsFinite ==
  ASSUME NEW f \in Fingerprints, NEW statuses
  PROVE  /\ IsFiniteSet(Approvals(f, statuses))
         /\ Cardinality(Approvals(f, statuses)) \in Nat
<1> DEFINE g == [n \in 1..MaxApprovals |-> <<f, n>>]
           all == {g[n] : n \in 1..MaxApprovals}
<1>1. IsFiniteSet(all)
  <2>1. IsFiniteSet(1..MaxApprovals)
    BY FS_Interval, RulesConstants
  <2>2. g \in [1..MaxApprovals -> all]
    OBVIOUS
  <2>3. g \in Surjection(1..MaxApprovals, all)
    BY <2>2 DEF Surjection
  <2> HIDE DEF g, all
  <2>4. QED
    BY <2>1, <2>3, FS_Surjection
<1>2. Approvals(f, statuses) \subseteq all
  BY DEF Approvals, ApprovalIDs
<1> HIDE DEF all
<1>3. QED
  BY <1>1, <1>2, FS_Subset, FS_CardinalityType

\* The invariant holds at first.
LEMMA ApprovalInit == RulesInit => ApprovalInv
<1> SUFFICES ASSUME RulesInit PROVE ApprovalInv
  OBVIOUS
<1>1. ApprovalTypes
  BY DEF RulesInit, ApprovalTypes, ApprovalStatuses
<1>2. \A f \in Fingerprints : Cardinality(Filed(f)) = 0 /\ Cardinality(Used(f)) = 0
  <2>1. \A f \in Fingerprints : Filed(f) = {} /\ Used(f) = {}
    BY DEF RulesInit, Filed, Used, Approvals, FiledStatuses
  <2>2. QED
    BY <2>1, FS_EmptySet
<1>3. FiledInOrder
  BY <1>2 DEF FiledInOrder, RulesInit, ApprovalIDs
<1>4. PassedWereUsed
  BY <1>2 DEF PassedWereUsed, RulesInit
<1>5. QED
  BY <1>1, <1>3, <1>4 DEF ApprovalInv

\* A change of one filed approval to another filed status keeps the order.
LEMMA FiledKept ==
  ASSUME ApprovalInv, NEW i \in ApprovalIDs, NEW status \in FiledStatuses,
         approval[i] \in FiledStatuses,
         approval' = [approval EXCEPT ![i] = status]
  PROVE  approval' \in [ApprovalIDs -> ApprovalStatuses] /\ FiledInOrder'
<1> USE DEF ApprovalInv
<1>1. /\ approval' \in [ApprovalIDs -> ApprovalStatuses]
      /\ approval'[i] = status
      /\ \A j \in ApprovalIDs \ {i} : approval'[j] = approval[j]
  BY DEF ApprovalTypes, ApprovalStatuses, FiledStatuses
<1>2. \A f \in Fingerprints : Filed(f)' = Filed(f)
  BY <1>1 DEF Filed, Approvals
<1>3. \A f \in Fingerprints : \A n \in 1..MaxApprovals : <<f, n>> \in ApprovalIDs
  BY DEF ApprovalIDs
<1>4. status # "none" /\ approval[i] # "none"
  BY DEF FiledStatuses
<1>5. \A f \in Fingerprints : \A n \in 1..MaxApprovals :
        approval'[<<f, n>>] # "none" <=> approval[<<f, n>>] # "none"
  BY <1>1, <1>3, <1>4
<1>6. FiledInOrder'
  BY <1>2, <1>5 DEF FiledInOrder
<1>7. QED
  BY <1>1, <1>6

\* A movement above the amount turns one approved approval into a used one.
LEMMA LetThroughApproved ==
  ASSUME ApprovalInv, NEW f \in Fingerprints, NEW amount, LetThrough(f, amount)
  PROVE  ApprovalInv'
<1> USE DEF ApprovalInv
<1>1. CASE ~NeedsApproval(amount)
  <2>1. approval' = approval /\ passed' = passed
    BY <1>1 DEF LetThrough
  <2>2. QED
    BY <2>1 DEF ApprovalTypes, FiledInOrder, PassedWereUsed, Filed, Used,
       Approvals
<1>2. CASE NeedsApproval(amount)
  <2>1. PICK i \in Approvals(f, {"approved"}) : UseApproval(i)
    BY <1>2 DEF LetThrough
  <2>2. passed' = [passed EXCEPT ![f] = @ + 1]
    BY <1>2 DEF LetThrough
  <2>3. /\ i \in ApprovalIDs /\ i[1] = f /\ approval[i] = "approved"
        /\ approval' = [approval EXCEPT ![i] = "used"]
    BY <2>1 DEF Approvals, UseApproval
  <2>4. approval' \in [ApprovalIDs -> ApprovalStatuses] /\ FiledInOrder'
    BY <2>3, FiledKept DEF FiledStatuses
  <2>5. /\ passed' \in [Fingerprints -> Nat] /\ passed'[f] = passed[f] + 1
        /\ \A g \in Fingerprints \ {f} : passed'[g] = passed[g]
    BY <2>2 DEF ApprovalTypes
  <2>6. /\ approval'[i] = "used"
        /\ \A j \in ApprovalIDs \ {i} : approval'[j] = approval[j]
    BY <2>3 DEF ApprovalTypes
  <2>7. ASSUME NEW g \in Fingerprints
        PROVE  passed'[g] = Cardinality(Used(g))'
    <3>1. CASE g = f
      <4>1. Used(f)' = Used(f) \cup {i} /\ i \notin Used(f)
        <5>1. i \notin Used(f)
          BY <2>3 DEF Used, Approvals
        <5>2. QED
          BY <2>3, <2>6, <5>1 DEF Used, Approvals
      <4>2. IsFiniteSet(Used(f)) /\ Cardinality(Used(f)) \in Nat
        BY ApprovalsFinite DEF Used
      <4>3. Cardinality(Used(f)') = Cardinality(Used(f)) + 1
        BY <4>1, <4>2, FS_AddElement
      <4>4. QED
        BY <2>5, <3>1, <4>3 DEF PassedWereUsed
    <3>2. CASE g # f
      <4>1. Used(g)' = Used(g)
        BY <2>3, <2>6, <3>2 DEF Used, Approvals
      <4>2. QED
        BY <2>5, <3>2, <4>1 DEF PassedWereUsed
    <3>3. QED
      BY <3>1, <3>2
  <2>8. QED
    BY <2>4, <2>5, <2>7 DEF ApprovalTypes, PassedWereUsed
<1>3. QED
  BY <1>1, <1>2

\* What leaves the approvals and the count of movements alone.
LEMMA ApprovalsElsewhere ==
  ASSUME ApprovalInv, approval' = approval, passed' = passed
  PROVE  ApprovalInv'
BY DEF ApprovalInv, ApprovalTypes, FiledInOrder, PassedWereUsed, Filed, Used,
   Approvals

\* A person decides an approval that is still pending.
LEMMA DecideKeepsApprovals ==
  ASSUME ApprovalInv, NEW i \in ApprovalIDs, NEW approve \in BOOLEAN,
         DecideAgentApproval(i, approve)
  PROVE  ApprovalInv'
<1> USE DEF ApprovalInv
<1>1. passed' = passed
  BY DEF DecideAgentApproval
<1>2. CASE ~StillPending(i)
  BY <1>1, <1>2, ApprovalsElsewhere DEF DecideAgentApproval
<1>3. CASE StillPending(i)
  <2>1. PICK status \in {"approved", "denied"} :
          approval' = [approval EXCEPT ![i] = status]
    <3>1. approval' = [approval EXCEPT ![i] =
                         IF approve THEN "approved" ELSE "denied"]
      BY <1>3 DEF DecideAgentApproval
    <3>2. QED
      BY <3>1
  <2>2. approval[i] = "pending"
    BY <1>3 DEF StillPending
  <2>3. approval' \in [ApprovalIDs -> ApprovalStatuses] /\ FiledInOrder'
    BY <2>1, <2>2, FiledKept DEF FiledStatuses
  <2>4. \A f \in Fingerprints : Used(f)' = Used(f)
    <3>1. /\ approval'[i] = status /\ status # "used"
          /\ \A j \in ApprovalIDs \ {i} : approval'[j] = approval[j]
      BY <2>1 DEF ApprovalTypes
    <3>2. QED
      BY <2>2, <3>1 DEF Used, Approvals
  <2>5. QED
    BY <1>1, <2>3, <2>4 DEF ApprovalTypes, PassedWereUsed
<1>4. QED
  BY <1>2, <1>3

\* An approval is filed in the first free place.
LEMMA FileKeepsApprovals ==
  ASSUME ApprovalInv, NEW f \in Fingerprints, FileApproval(f)
  PROVE  ApprovalInv'
<1> USE DEF ApprovalInv
<1>1. passed' = passed
  BY DEF FileApproval
<1>2. CASE approval' = approval
  BY <1>1, <1>2, ApprovalsElsewhere
<1>3. CASE approval' # approval
  <2>1. IsFiniteSet(Filed(f)) /\ Cardinality(Filed(f)) \in Nat
    BY ApprovalsFinite DEF Filed
  <2>2. PICK k \in Nat : k = Cardinality(Filed(f))
    BY <2>1
  <2>3. /\ k < MaxApprovals
        /\ approval' = [approval EXCEPT ![<<f, k + 1>>] = "pending"]
    BY <1>3, <2>2 DEF FileApproval, Filed, FiledStatuses
  <2>4. PICK i \in ApprovalIDs : i = <<f, k + 1>>
    BY <2>3, RulesConstants DEF ApprovalIDs
  <2>5. approval[i] = "none" /\ i[1] = f
    <3>1. k + 1 \in 1..MaxApprovals /\ ~(k + 1 <= k)
      BY <2>3, RulesConstants
    <3>2. QED
      BY <2>2, <2>4, <3>1 DEF FiledInOrder
  <2>6. /\ approval' \in [ApprovalIDs -> ApprovalStatuses]
        /\ approval'[i] = "pending"
        /\ \A j \in ApprovalIDs \ {i} : approval'[j] = approval[j]
    BY <2>3, <2>4 DEF ApprovalTypes, ApprovalStatuses
  <2>7. \A g \in Fingerprints : Used(g)' = Used(g)
    BY <2>5, <2>6 DEF Used, Approvals
  <2>8. \A g \in Fingerprints \ {f} : Filed(g)' = Filed(g)
    BY <2>5, <2>6 DEF Filed, Approvals
  <2>9. Cardinality(Filed(f)') = k + 1
    <3>1. Filed(f)' = Filed(f) \cup {i} /\ i \notin Filed(f)
      BY <2>5, <2>6 DEF Filed, Approvals, FiledStatuses
    <3>2. QED
      BY <2>1, <2>2, <3>1, FS_AddElement
  <2>10. FiledInOrder'
    <3>1. ASSUME NEW g \in Fingerprints, NEW n \in 1..MaxApprovals
          PROVE  approval'[<<g, n>>] # "none" <=> n <= Cardinality(Filed(g)')
      <4>1. <<g, n>> \in ApprovalIDs
        BY DEF ApprovalIDs
      <4>2. CASE g # f
        <5>1. <<g, n>> # i
          BY <2>4, <4>2
        <5>2. QED
          BY <2>6, <2>8, <4>1, <4>2, <5>1 DEF FiledInOrder
      <4>3. CASE g = f /\ n = k + 1
        BY <2>4, <2>6, <2>9, <4>3
      <4>4. CASE g = f /\ n # k + 1
        <5>1. <<g, n>> # i
          BY <2>4, <4>4
        <5>2. approval'[<<g, n>>] # "none" <=> n <= k
          BY <2>2, <2>6, <4>1, <4>4, <5>1 DEF FiledInOrder
        <5>3. n <= k <=> n <= k + 1
          BY <4>4
        <5>4. QED
          BY <2>9, <4>4, <5>2, <5>3
      <4>5. QED
        BY <4>2, <4>3, <4>4
    <3>2. QED
      BY <3>1 DEF FiledInOrder
  <2>11. QED
    BY <1>1, <2>6, <2>7, <2>10 DEF ApprovalTypes, PassedWereUsed
<1>4. QED
  BY <1>2, <1>3

\* No more movements above the amount pass than approvals were granted for their
\* fingerprint, whatever is retried, denied, filed again or decided late.
THEOREM ApprovedAlwaysLetThroughOnce == RulesSpec => []LetThroughOnce
<1>1. ASSUME ApprovalInv, [RulesNext]_rulesVars
      PROVE  ApprovalInv'
  <2>1. CASE Spend
    <3>1. PICK q \in Questions, n \in Sizes \cup {0} :
            \/ StartQuestion(q, "held", n) \/ StartQuestion(q, "debited", n)
            \/ Refused(q, n) \/ CloseHold(q, n) \/ CloseDebit(q, n)
      BY <2>1 DEF Spend
    <3>2. q \in Fingerprints
      BY DEF Fingerprints
    <3>3. CASE StartQuestion(q, "held", n) \/ StartQuestion(q, "debited", n)
      BY <1>1, <3>2, <3>3, LetThroughApproved DEF StartQuestion
    <3>4. CASE Refused(q, n) \/ CloseHold(q, n) \/ CloseDebit(q, n)
      BY <1>1, <3>4, ApprovalsElsewhere
      DEF Refused, CloseHold, CloseDebit, approvalVars
    <3>5. QED
      BY <3>1, <3>3, <3>4
  <2>2. CASE PayOrSend
    <3>1. PICK f \in Payments, n \in Sizes :
            PayOut(f, n) \/ SendOut(f, n) \/ Refused(f, n)
      BY <2>2 DEF PayOrSend
    <3>2. f \in Fingerprints
      BY DEF Fingerprints
    <3>3. CASE PayOut(f, n) \/ SendOut(f, n)
      BY <1>1, <3>2, <3>3, LetThroughApproved DEF PayOut, SendOut
    <3>4. CASE Refused(f, n)
      BY <1>1, <3>4, ApprovalsElsewhere DEF Refused
    <3>5. QED
      BY <3>1, <3>3, <3>4
  <2>3. CASE Tick \/ OwnerChange \/ UNCHANGED rulesVars
    BY <1>1, <2>3, ApprovalsElsewhere
    DEF Tick, OwnerChange, SetAgentRules, BoostRead, BoostWrite, EndAgentBoost,
        SetPaused, approvalVars, rulesVars
  <2>4. CASE Approve
    <3>1. ASSUME NEW i \in ApprovalIDs, NEW yes \in BOOLEAN,
                 \/ ApprovalChallenge(i) \/ RegisterPasskey
                 \/ AuthorizeApprovalDecision(i, yes)
          PROVE  ApprovalInv'
      BY <1>1, <3>1, ApprovalsElsewhere
      DEF ApprovalChallenge, RegisterPasskey, AuthorizeApprovalDecision
    <3>2. CASE RegisterPasskey
      BY <1>1, <3>2, ApprovalsElsewhere DEF RegisterPasskey
    <3>3. QED
      BY <1>1, <2>4, <3>1, <3>2, FileKeepsApprovals, DecideKeepsApprovals
      DEF Approve
  <2>5. QED
    BY <1>1, <2>1, <2>2, <2>3, <2>4 DEF RulesNext
<1>2. ApprovalInv => LetThroughOnce
  <2> SUFFICES ASSUME ApprovalInv, NEW f \in Fingerprints
               PROVE  passed[f] <= Cardinality(Approvals(f, {"approved", "used"}))
    BY DEF LetThroughOnce
  <2>1. Used(f) \subseteq Approvals(f, {"approved", "used"})
    BY DEF Used, Approvals
  <2>2. IsFiniteSet(Approvals(f, {"approved", "used"}))
    BY ApprovalsFinite
  <2>3. Cardinality(Used(f)) <= Cardinality(Approvals(f, {"approved", "used"}))
    BY <2>1, <2>2, FS_Subset
  <2>4. QED
    BY <2>3 DEF ApprovalInv, PassedWereUsed
<1>3. QED
  BY <1>1, <1>2, ApprovalInit, PTL DEF RulesSpec
=============================================================================
