----------------------------- MODULE HeldMints -----------------------------
(***************************************************************************)
(* Royalties between their mint and their settlement (poolroyalty over the *)
(* held ledger of mining): a mint is held for a window, in which a ring    *)
(* detector may have it clawed back; then the finalize sweeper, run by     *)
(* more than one server when leaders overlap, makes it spendable.  The     *)
(* sweeper, the clearer and the revoker each read a list first and write   *)
(* row by row later.  One contributor; several requesters.                 *)
(*                                                                         *)
(* The row says what the serve was worth and settles at that, while the    *)
(* reputation bond, where it is switched on, reduces only the held credit: *)
(* the two records of a mint then disagree, and a settle may be short.     *)
(***************************************************************************)
EXTENDS Integers, FiniteSets

CONSTANTS Mints, Requester,        \* who was served, by mint
          MintAmount, CapPerPair,  \* SetCap, within one cap window
          HoldWindow, LastHour,
          BondedCredits,           \* what the bond may leave of MintAmount
          Sweepers

ASSUME HeldAssumption ==
  /\ IsFiniteSet(Mints)
  /\ MintAmount \in Nat \ {0} /\ CapPerPair \in Nat
  /\ {HoldWindow, LastHour} \subseteq Nat
  /\ BondedCredits \subseteq 0..MintAmount

VARIABLES
  armed,      \* SetSettleStatus: whether only cleared rows settle
  bonded,     \* ReputationBondedMintingEnabled: whether the bond reduces
  hour,
  mint,       \* pool_royalty_mints: status and finalize_after
  held,       \* lens_token_balances.held_balance of the contributor
  heldIn,     \* history: all that mints credited to it
  spendable,  \* what finalizing added to its balance
  rings,      \* requesters the identity graph links to the contributor
  clean,      \* what the clearer's detector examined and did not flag
  flagged,    \* what the auto-adjudicator's detector flagged
  sweep       \* the due rows each sweeper selected

bondVars == <<bonded, heldIn>>
heldVars == <<armed, bondVars, hour, mint, held, spendable, rings, clean,
              flagged, sweep>>

Requesters == {Requester[m] : m \in Mints}
SettleStatus == IF armed THEN "cleared" ELSE "held"
Due(m) == mint[m].until < hour

HeldInit ==
  /\ armed \in BOOLEAN /\ bonded \in BOOLEAN
  /\ hour = 0
  /\ mint = [m \in Mints |-> [status |-> "none", until |-> 0]]
  /\ held = 0 /\ heldIn = 0 /\ spendable = 0
  /\ rings = {} /\ clean = {} /\ flagged = {}
  /\ sweep = [s \in Sweepers |-> {}]

-----------------------------------------------------------------------------
MintedFor(q) == {m \in Mints : Requester[m] = q /\ mint[m].status # "none"}

\* reputationBondedAmount: what a mint credits to held.  The reputation below
\* which a mint is refused, and the drift haircut, are in the choice.
HeldCredits == IF bonded THEN BondedCredits ELSE {MintAmount}

\* One transaction: the linkage check, the claim row with the whole amount, the
\* held credit that the bond may reduce, and the cap counted under the
\* contributor's balance lock, revoked mints included.
MintServedHit(m) ==
  /\ mint[m].status = "none"
  /\ Requester[m] \notin rings
  /\ CapPerPair > 0 => Cardinality(MintedFor(Requester[m])) + 1 <= CapPerPair
  /\ mint' = [mint EXCEPT ![m] = [status |-> "held", until |-> hour + HoldWindow]]
  /\ \E credit \in HeldCredits :
       held' = held + credit /\ heldIn' = heldIn + credit
  /\ UNCHANGED <<armed, bonded, hour, spendable, rings, clean, flagged,
                 sweep>>

\* A card or an operator's vouch links a requester to the contributor.
LinkAppears(q) ==
  /\ rings' = rings \cup {q}
  /\ UNCHANGED <<armed, bondVars, hour, mint, held, spendable, clean, flagged,
                 sweep>>

NextHour ==
  /\ hour < LastHour
  /\ hour' = hour + 1
  /\ UNCHANGED <<armed, bondVars, mint, held, spendable, rings, clean,
                 flagged, sweep>>

HeldMintsNow == {m \in Mints : mint[m].status = "held"}
InRing == {m \in Mints : Requester[m] \in rings}

\* DetectAndPartition for the clearer, then its update of the rows by then due.
Examine ==
  /\ armed /\ clean = {}
  /\ clean' = HeldMintsNow \ InRing
  /\ UNCHANGED <<armed, bondVars, hour, mint, held, spendable, rings, flagged,
                 sweep>>

Clear ==
  /\ clean # {}
  /\ mint' = [m \in Mints |->
       IF m \in clean /\ mint[m].status = "held" /\ Due(m)
       THEN [mint[m] EXCEPT !.status = "cleared"] ELSE mint[m]]
  /\ clean' = {}
  /\ UNCHANGED <<armed, bondVars, hour, held, spendable, rings, flagged,
                 sweep>>

\* DetectSelfDealingRings for the adjudicator, then revokeOne row by row.
Detect ==
  /\ flagged = {}
  /\ flagged' = HeldMintsNow \cap InRing
  /\ UNCHANGED <<armed, bondVars, hour, mint, held, spendable, rings, clean,
                 sweep>>

\* revokeCASSQLFor: only a held row.
MayRevoke(m) == mint[m].status = "held"

RevokeOne(m) ==
  /\ m \in flagged
  /\ flagged' = flagged \ {m}
  /\ \/ /\ MayRevoke(m) /\ held >= MintAmount
        /\ mint' = [mint EXCEPT ![m].status = "revoked"]
        /\ held' = held - MintAmount
     \/ ~ (MayRevoke(m) /\ held >= MintAmount) /\ UNCHANGED <<mint, held>>
  /\ UNCHANGED <<armed, bondVars, hour, spendable, rings, clean, sweep>>

SelectDue(s) ==
  /\ sweep[s] = {}
  /\ sweep' = [sweep EXCEPT ![s] =
       {m \in Mints : mint[m].status = SettleStatus /\ Due(m)}]
  /\ UNCHANGED <<armed, bondVars, hour, mint, held, spendable, rings, clean,
                 flagged>>

\* Mutant: the row counts as the sweeper selected it.
MaySettleSelected(m) == TRUE

\* finalizeCASSQLFor: the row still has the status it was selected with.
MaySettle(m) == mint[m].status = SettleStatus

SettleOne(s, m) ==
  /\ m \in sweep[s]
  /\ sweep' = [sweep EXCEPT ![s] = @ \ {m}]
  /\ \/ /\ MaySettle(m) /\ held >= MintAmount
        /\ mint' = [mint EXCEPT ![m].status = "final"]
        /\ held' = held - MintAmount
        /\ spendable' = spendable + MintAmount
     \/ ~ (MaySettle(m) /\ held >= MintAmount) /\ UNCHANGED <<mint, held, spendable>>
  /\ UNCHANGED <<armed, bondVars, hour, rings, clean, flagged>>

\* A server stops in the middle of its list.
SweepEnds(s) ==
  /\ sweep[s] # {}
  /\ sweep' = [sweep EXCEPT ![s] = {}]
  /\ UNCHANGED <<armed, bondVars, hour, mint, held, spendable, rings, clean,
                 flagged>>

HeldNext ==
  \/ \E m \in Mints : MintServedHit(m) \/ RevokeOne(m)
                      \/ \E s \in Sweepers : SettleOne(s, m)
  \/ \E q \in Requesters : LinkAppears(q)
  \/ NextHour \/ Examine \/ Clear \/ Detect
  \/ \E s \in Sweepers : SelectDue(s) \/ SweepEnds(s)

HeldSpec == HeldInit /\ [][HeldNext]_heldVars

-----------------------------------------------------------------------------
MintsThatAre(statuses) == {m \in Mints : mint[m].status \in statuses}

\* Rows and balances are of their types, none of them negative.
HeldTypeOK ==
  /\ mint \in [Mints -> [status : {"none", "held", "cleared", "final", "revoked"},
                         until : 0..(LastHour + HoldWindow)]]
  /\ {held, spendable} \subseteq Nat

\* Every settled mint was paid its amount once, a mint left the held balance
\* once, as a settle or as a clawback, and nothing was paid out that no mint had
\* credited, whatever sweepers, clearer and revoker read before one of the
\* others wrote (settleOne, revokeOne, heldInner).  With the bond off the held
\* balance is what the open mints are owed, so none of them is ever short; with
\* it on one may be, and may take what another was credited.
MintsSettleOnce ==
  /\ spendable = MintAmount * Cardinality(MintsThatAre({"final"}))
  /\ held = heldIn
            - MintAmount * Cardinality(MintsThatAre({"final", "revoked"}))
  /\ held >= 0
  /\ ~bonded =>
       held = MintAmount * Cardinality(MintsThatAre({"held", "cleared"}))
=============================================================================
