------------------------------ MODULE JobStore ------------------------------
(***************************************************************************)
(* The SQLite store of internal/repo: the tables companies, jobs and       *)
(* apply_rate_limit_queue, and one operator per repository method that     *)
(* changes them.  SQLite runs each statement atomically, so each statement *)
(* is one step of whoever issues it.                                       *)
(*                                                                         *)
(* A job id is a UUID minted by the caller of UpsertJob for one scraped    *)
(* listing, so the listing's company and canonical URL are functions of    *)
(* the id, and a row of the jobs table is the id it is stored under.  The  *)
(* text columns are abstracted.  A queue entry's retry_after is abstracted *)
(* to whether it has passed.                                               *)
(***************************************************************************)
EXTENDS Naturals

CONSTANTS
  Jobs,        (* job ids that can be minted                               *)
  Companies,   (* company names; a name identifies one row (companies.name *)
               (* is UNIQUE)                                               *)
  Canons,      (* canonical URLs                                           *)
  NoUrl,       (* the canonical form of a blank URL                        *)
  CompanyOf,   (* the company a listing is filed under                     *)
  CanonOf      (* the canonical URL of a listing                           *)

ASSUME StoreAssumption ==
  /\ CompanyOf \in [Jobs -> Companies]
  /\ CanonOf \in [Jobs -> Canons]

VARIABLES
  companies,   (* companies with a row                                     *)
  minted,      (* ids handed to UpsertJob so far                           *)
  rows,        (* ids of the rows of the jobs table                        *)
  applied,     (* rows with applied = 1                                    *)
  banned,      (* rows with banned = 1                                     *)
  queue        (* apply_rate_limit_queue, by job id                        *)

storeVars == <<companies, minted, rows, applied, banned, queue>>

(* "out": no entry; "waiting": retry_after in the future; "due": passed.   *)
QueueState == {"out", "waiting", "due"}

StoreTypeOK ==
  /\ companies \subseteq Companies
  /\ minted \subseteq Jobs
  /\ rows \subseteq minted
  /\ applied \subseteq rows
  /\ banned \subseteq rows
  /\ queue \in [Jobs -> QueueState]

StoreInit ==
  /\ companies = {}
  /\ minted = {}
  /\ rows = {}
  /\ applied = {}
  /\ banned = {}
  /\ queue = [j \in Jobs |-> "out"]

Queued(j) == queue[j] # "out"

SamePosting(i, j) == CompanyOf[i] = CompanyOf[j] /\ CanonOf[i] = CanonOf[j]

(* JobURLExists looks the canonical URL up across all companies; a blank   *)
(* URL is never found.                                                     *)
JobURLExists(c) == c # NoUrl /\ \E j \in rows : CanonOf[j] = c

(* ListJobsByIDs gives the rows among the ids, applied and banned ones     *)
(* included; ListCompanies the active companies, which all are that any    *)
(* caller has inserted.                                                    *)
ListJobsByIDs(ids) == ids \intersect rows
ActiveCompanies == companies

-----------------------------------------------------------------------------
(* The statements.  A statement that fails changes nothing: its callers    *)
(* have UNCHANGED storeVars as the other alternative.                      *)

UpsertCompanyByName(c) ==
  /\ companies' = companies \union {c}
  /\ UNCHANGED <<minted, rows, applied, banned, queue>>

(* Mutants of UpsertJob: no unique index; INSERT OR REPLACE in place of ON *)
(* CONFLICT DO UPDATE; the caller passes an id it has used before.         *)
UpsertJobAlwaysInserts(j) ==
  /\ j \notin minted
  /\ minted' = minted \union {j}
  /\ rows' = IF CompanyOf[j] \in companies THEN rows \union {j} ELSE rows
  /\ UNCHANGED <<companies, applied, banned, queue>>

UpsertJobReplaces(j) ==
  LET old == {i \in rows : SamePosting(i, j)} IN
  /\ j \notin minted
  /\ minted' = minted \union {j}
  /\ CompanyOf[j] \in companies
  /\ rows' = (rows \ old) \union {j}
  /\ applied' = applied \ old
  /\ banned' = banned \ old
  /\ UNCHANGED <<companies, queue>>

UpsertJobKeepsId(j) ==
  /\ minted' = minted \union {j}
  /\ rows' = IF CompanyOf[j] \in companies /\ ~\E i \in rows : SamePosting(i, j)
               THEN rows \union {j} ELSE rows
  /\ UNCHANGED <<companies, applied, banned, queue>>

(* The foreign key rejects a listing whose company has no row; a listing   *)
(* that conflicts on (company_id, canonical_url) updates the text of the   *)
(* row that is there, which keeps its id, applied and banned columns.      *)
UpsertJob(j) ==
  /\ j \notin minted
  /\ minted' = minted \union {j}
  /\ rows' = IF CompanyOf[j] \in companies /\ ~\E i \in rows : SamePosting(i, j)
               THEN rows \union {j} ELSE rows
  /\ UNCHANGED <<companies, applied, banned, queue>>

ApplyJobs(ids) ==
  /\ applied' = applied \union (ids \intersect rows)
  /\ UNCHANGED <<companies, minted, rows, banned, queue>>

BanJobs(ids) ==
  /\ banned' = banned \union (ids \intersect rows)
  /\ UNCHANGED <<companies, minted, rows, applied, queue>>

(* ON DELETE CASCADE takes the queue entry with the row.                   *)
DeleteJobs(ids) ==
  /\ rows' = rows \ ids
  /\ applied' = applied \ ids
  /\ banned' = banned \ ids
  /\ queue' = [j \in Jobs |-> IF j \in ids THEN "out" ELSE queue[j]]
  /\ UNCHANGED <<companies, minted>>

(* The foreign key rejects an entry for a job that has been deleted.       *)
EnqueueRateLimited(j) ==
  /\ j \in rows
  /\ queue' = [queue EXCEPT ![j] = "waiting"]
  /\ UNCHANGED <<companies, minted, rows, applied, banned>>

DequeueRateLimited(j) ==
  /\ queue' = [queue EXCEPT ![j] = "out"]
  /\ UNCHANGED <<companies, minted, rows, applied, banned>>

(* An UPDATE: it does nothing when the entry is gone.                      *)
UpdateRateLimitedRetry(j) ==
  /\ queue' = [queue EXCEPT ![j] = IF @ = "out" THEN "out" ELSE "waiting"]
  /\ UNCHANGED <<companies, minted, rows, applied, banned>>

(* ListRateLimitedReady: the entries whose retry_after has passed.         *)
ReadyEntries == {j \in Jobs : queue[j] = "due"}

(* The clock reaches an entry's retry_after.                               *)
RetryTimeComes(j) ==
  /\ queue[j] = "waiting"
  /\ queue' = [queue EXCEPT ![j] = "due"]
  /\ UNCHANGED <<companies, minted, rows, applied, banned>>

-----------------------------------------------------------------------------
(* The store under arbitrary clients.                                      *)

StoreNext ==
  \/ \E c \in Companies : UpsertCompanyByName(c)
  \/ \E j \in Jobs : UpsertJob(j)
  \/ \E ids \in SUBSET Jobs : ApplyJobs(ids)
  \/ \E ids \in SUBSET Jobs : BanJobs(ids)
  \/ \E ids \in SUBSET Jobs : DeleteJobs(ids)
  \/ \E j \in Jobs : EnqueueRateLimited(j)
  \/ \E j \in Jobs : DequeueRateLimited(j)
  \/ \E j \in Jobs : UpdateRateLimitedRetry(j)
  \/ \E j \in Jobs : RetryTimeComes(j)

StoreSpec == StoreInit /\ [][StoreNext]_storeVars

(* One canonicalised posting per company, every job belongs to a company   *)
(* that has a row, and no queue entry outlives its job: what the unique    *)
(* index idx_jobs_company_canon_uq and the two foreign keys promise the    *)
(* rest of the program under every order of its statements.                *)
Integrity ==
  /\ \A i, j \in rows : SamePosting(i, j) => i = j
  /\ \A j \in rows : CompanyOf[j] \in companies
  /\ \A j \in Jobs : Queued(j) => j \in rows

(* Re-scraping never forgets a decision: a posting that was applied to or  *)
(* banned stays so, under the id it already had, until its row is deleted, *)
(* and no second row of the same posting appears beside or instead of it.  *)
DecisionsSurvive ==
  [][\A j \in rows :
       /\ j \in rows' /\ j \in applied => j \in applied'
       /\ j \in rows' /\ j \in banned => j \in banned'
       /\ \A i \in rows' \ rows : ~SamePosting(i, j)]_storeVars

(* A deleted job id never comes back: a rediscovered posting gets a new    *)
(* id, so an id held by a snapshot either is the same job or is gone.      *)
IdsAreNeverReused ==
  [][\A j \in minted \ rows : j \notin rows']_storeVars
=============================================================================
