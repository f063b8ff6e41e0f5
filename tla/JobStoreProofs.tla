--------------------------- MODULE JobStoreProofs ---------------------------
(***************************************************************************)
(* Proofs about the tables, for any companies, listings and URLs.  The     *)
(* integrity of the tables needs to be known together with their type:     *)
(* that the decisions and the queue are about rows is what a deletion      *)
(* must restore.                                                           *)
(*                                                                         *)
(* The lemmas about one statement are what the proofs about the store's    *)
(* clients (ScannerProofs, ApplyProofs, UtilitiesProofs) rest on: a client *)
(* that only issues statements of the store keeps all that they keep.      *)
(***************************************************************************)
EXTENDS JobStore, TLAPS

StoreInv == StoreTypeOK /\ Integrity

LEMMA StoreInitInv == StoreInit => StoreInv
  BY StoreAssumption
  DEF StoreAssumption, StoreInit, StoreInv, StoreTypeOK, Integrity, Queued,
      QueueState

LEMMA StoreStepInv == StoreInv /\ [StoreNext]_storeVars => StoreInv'
<1> SUFFICES ASSUME StoreInv, [StoreNext]_storeVars PROVE StoreInv'
  OBVIOUS
<1> USE StoreAssumption
    DEF StoreAssumption, StoreInv, StoreTypeOK, Integrity, Queued, QueueState
<1>1. ASSUME NEW c \in Companies, UpsertCompanyByName(c) PROVE StoreInv'
  BY <1>1 DEF UpsertCompanyByName
<1>2. ASSUME NEW j \in Jobs, UpsertJob(j) PROVE StoreInv'
  BY <1>2 DEF UpsertJob, SamePosting
<1>3. ASSUME NEW ids \in SUBSET Jobs, ApplyJobs(ids) \/ BanJobs(ids)
      PROVE  StoreInv'
  BY <1>3 DEF ApplyJobs, BanJobs
<1>4. ASSUME NEW ids \in SUBSET Jobs, DeleteJobs(ids) PROVE StoreInv'
  BY <1>4 DEF DeleteJobs
<1>5. ASSUME NEW j \in Jobs,
             EnqueueRateLimited(j) \/ DequeueRateLimited(j)
               \/ UpdateRateLimitedRetry(j) \/ RetryTimeComes(j)
      PROVE  StoreInv'
  BY <1>5 DEF EnqueueRateLimited, DequeueRateLimited, UpdateRateLimitedRetry,
     RetryTimeComes
<1>6. CASE UNCHANGED storeVars
  BY <1>6 DEF storeVars, SamePosting
<1>7. QED
  BY <1>1, <1>2, <1>3, <1>4, <1>5, <1>6 DEF StoreNext

LEMMA StoreInvAlways == StoreSpec => []StoreInv
  BY StoreInitInv, StoreStepInv, PTL DEF StoreSpec

(* The unique index and the foreign keys hold under every order of the     *)
(* statements.                                                             *)
THEOREM TablesKeepTheirIntegrity == StoreSpec => []Integrity
<1>1. StoreInv => Integrity
  BY DEF StoreInv
<1>2. QED
  BY <1>1, StoreInvAlways, PTL

(* A statement keeps the decisions about the rows that stay.               *)
LEMMA AStatementKeepsDecisions ==
  ASSUME StoreInv, [StoreNext]_storeVars, NEW j \in rows
  PROVE  /\ j \in rows' /\ j \in applied => j \in applied'
         /\ j \in rows' /\ j \in banned => j \in banned'
         /\ \A i \in rows' \ rows : ~SamePosting(i, j)
<1>1. ASSUME NEW k \in Jobs, UpsertJob(k)
      PROVE  \A i \in rows' \ rows : ~SamePosting(i, j)
  BY <1>1 DEF UpsertJob, SamePosting, StoreInv, StoreTypeOK
<1>2. ASSUME NEW ids \in SUBSET Jobs, DeleteJobs(ids)
      PROVE  /\ rows' \subseteq rows
             /\ j \in rows' => j \notin ids
  BY <1>2 DEF DeleteJobs
<1>3. CASE UNCHANGED storeVars
  BY <1>3 DEF storeVars
<1>4. QED
  BY <1>1, <1>2, <1>3 DEF StoreNext, UpsertCompanyByName, UpsertJob,
     ApplyJobs, BanJobs, DeleteJobs, EnqueueRateLimited, DequeueRateLimited,
     UpdateRateLimitedRetry, RetryTimeComes

(* A statement forgets no id and brings none back that is gone.            *)
LEMMA AStatementRevivesNoId ==
  ASSUME StoreTypeOK, [StoreNext]_storeVars
  PROVE  minted \subseteq minted' /\ minted \intersect rows' \subseteq rows
  BY DEF StoreTypeOK, StoreNext, UpsertCompanyByName, UpsertJob, ApplyJobs,
     BanJobs, DeleteJobs, EnqueueRateLimited, DequeueRateLimited,
     UpdateRateLimitedRetry, RetryTimeComes, storeVars

(* What the user applied to or banned stays so until its row is deleted.   *)
THEOREM DecisionsAreKept == StoreSpec => DecisionsSurvive
<1>1. StoreInv /\ [StoreNext]_storeVars
        => [\A j \in rows :
              /\ j \in rows' /\ j \in applied => j \in applied'
              /\ j \in rows' /\ j \in banned => j \in banned'
              /\ \A i \in rows' \ rows : ~SamePosting(i, j)]_storeVars
  BY AStatementKeepsDecisions
<1>2. QED
  BY <1>1, StoreInvAlways, PTL DEF StoreSpec, DecisionsSurvive

(* The id of a deleted job never comes back.                               *)
THEOREM DeletedIdsStayDeleted == StoreSpec => IdsAreNeverReused
<1>1. StoreInv /\ [StoreNext]_storeVars
        => [\A j \in minted \ rows : j \notin rows']_storeVars
  BY AStatementRevivesNoId DEF StoreInv
<1>2. QED
  BY <1>1, StoreInvAlways, PTL DEF StoreSpec, IdsAreNeverReused
=============================================================================
